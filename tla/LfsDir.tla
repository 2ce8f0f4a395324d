------------------------------- MODULE LfsDir -------------------------------
(***************************************************************************)
(* One directory of littlefs, lfs.c: a pair of flash blocks of which the   *)
(* one with the later revision holds the log, appended to commit by commit *)
(* and compacted into the other block when it is full.  The power may go   *)
(* at every step; fs_init then mounts, and formats when that fails.  One   *)
(* file may be open for writing while others change the directory.  A      *)
(* directory that outgrows its pair (lfs_dir_split), and pairs that move   *)
(* (LfsTree), are not part of this module.                                 *)
(***************************************************************************)
EXTENDS LfsTags, FiniteSets, SequencesExt

CONSTANTS
    Names,      \* numbers: the order of the names
    Values,     \* contents a program writes; a new file is empty, 0
    Absent,
    Revs,       \* revisions are counted modulo Revs (2^32 in the code)
    Blank,      \* revisions the blocks may show before the first format
    Cycles,     \* rev is aligned to (block_cycles+1)|1 when a pair is made
    Cap         \* commits that fit into a block

ASSUME DirAssumption ==
    /\ Names \subseteq Nat \ {0} /\ Values \subseteq Nat \ {0}
    /\ Revs \in Nat /\ Revs >= 3 /\ Blank \subseteq 0..(Revs - 1)
    /\ Cycles \in Nat \ {0} /\ Cap \in Nat
    /\ IsFiniteSet(Names) /\ Cardinality(Names) < NoId     \* lfs_dir_split comes before
    /\ Absent \notin [Names -> Values \cup {0, Absent}]

VARIABLES
    flash,      \* the two blocks
    m,          \* lfs_mdir_t of the commit being made
    attrs,      \* its tags
    h,          \* the open file
    pc,         \* where littlefs is: off, idle, commit, program
    fmt,        \* compactions that lfs_format still has to make
    want,       \* history: the change the program asked for, by name
    dir         \* history: Decoded(flash)

vars == <<flash, m, attrs, h, pc, fmt, want, dir>>

NoChange == << >>

NoFile == [id |-> -1, name |-> 0, m |-> [cur |-> 0, n |-> 0, rev |-> 0, erased |-> FALSE],
           open |-> FALSE, fresh |-> FALSE]

----------------------------------------------------------------------------
(* Reading a pair *)

\* lfs_scmp on Revs values: is a later than b
Later(a, b) == (a - b) % Revs \in 1..((Revs - 1) \div 2)

Valid(b) == b.commits # << >>

\* lfs_dir_fetchmatch: the later block, the other one when it holds no whole
\* commit; erased comes from the fcrc of the last commit.
Fetch(fl) ==
    LET r   == IF Later(fl[1].rev, fl[0].rev) THEN 1 ELSE 0
        cur == IF Valid(fl[r]) THEN r ELSE 1 - r
    IN  [cur |-> cur, n |-> Len(fl[cur].commits), rev |-> fl[cur].rev,
         erased |-> fl[cur].tail = "erased"]

Corrupt(fl) == \A i \in 0..1 : ~Valid(fl[i])

Log(fl, mm) == FlattenSeq(SubSeq(fl[mm.cur].commits, 1, mm.n))

\* What a program finds in the directory, by name.
Decoded(fl) ==
    IF Corrupt(fl) THEN Absent
    ELSE LET files == Replayed(Log(fl, Fetch(fl)))
             Ids(n) == { i \in DOMAIN files : files[i].name = n }
         IN  [n \in Names |-> IF Ids(n) = {} THEN Absent ELSE files[CHOOSE i \in Ids(n) : TRUE].val]

----------------------------------------------------------------------------
Init ==
    /\ flash \in [0..1 -> [rev : Blank, commits : {<< >>}, tail : {"junk"}]]
    /\ m = NoFile.m /\ attrs = << >> /\ h = NoFile
    /\ pc = "off" /\ fmt = 0 /\ want = NoChange
    /\ dir = Decoded(flash)

\* lfs_mount; lfs_format (lfs_dir_alloc takes the revision it finds, aligned,
\* and the pair is written twice) when no block is valid.
Align(rev) == (((rev + Cycles - 1) \div Cycles) * Cycles) % Revs

Mount ==
    /\ pc = "off"
    /\ IF Corrupt(flash)
       THEN /\ m' = [cur |-> 0, n |-> 0, rev |-> Align(flash[0].rev), erased |-> FALSE]
            /\ pc' = "commit" /\ fmt' = 2
       ELSE pc' = "idle" /\ UNCHANGED <<m, fmt>>
    /\ UNCHANGED <<flash, attrs, h, want>>

Call(mm, as, change) ==
    /\ pc = "idle" /\ pc' = "commit"
    /\ m' = mm /\ attrs' = as /\ want' = change
    /\ UNCHANGED <<flash, fmt>>

Dir == Fetch(flash)
Change(n, val) == [x \in {n} |-> val]
Has(n) == Find(Log(flash, Dir), n).found

\* lfs_file_open for writing: LFS_O_WRONLY | LFS_O_CREAT | LFS_O_TRUNC.  A new
\* file is created empty; a file that exists only gets an open handle.
FileCreate(n) ==
    /\ ~h.open /\ ~Has(n)
    /\ Call(Dir, CreateAttrs(Log(flash, Dir), n), Change(n, 0))
    /\ h' = [id |-> Find(Log(flash, Dir), n).id, name |-> n, m |-> Dir,
             open |-> TRUE, fresh |-> TRUE]

FileOpen(n) ==
    /\ pc = "idle" /\ ~h.open /\ Has(n)
    /\ h' = [id |-> Find(Log(flash, Dir), n).id, name |-> n, m |-> Dir,
             open |-> TRUE, fresh |-> FALSE]
    /\ UNCHANGED <<flash, m, attrs, pc, fmt, want>>

\* lfs_file_sync of lfs_file_close: with the pair the handle remembers, and
\* nothing when the entry is gone.
FileClose(v) ==
    /\ h.open
    /\ IF h.id >= 0
       THEN Call(h.m, << Tag("struct", h.id, v) >>, Change(h.name, v))
       ELSE pc = "idle" /\ UNCHANGED <<flash, m, attrs, pc, fmt, want>>
    /\ h' = NoFile

FileRemove(n) ==
    /\ Has(n)
    /\ Call(Dir, RemoveAttrs(Log(flash, Dir), n), Change(n, Absent))
    /\ UNCHANGED h

\* fs_rename refuses a name that exists.
FileRename(n, n2) ==
    /\ n # n2 /\ Has(n) /\ ~Has(n2)
    /\ Call(Dir, RenameAttrs(Log(flash, Dir), n, n2), [x \in {n, n2} |-> IF x = n THEN Absent ELSE dir[n]])
    /\ UNCHANGED h

----------------------------------------------------------------------------
(* lfs_dir_commit *)

\* A commit is padded to whole program units (256 bytes of 4096).
Fits == m.n < Cap

\* lfs_dir_relocatingcommit, fixmlist: the open file follows the directory,
\* unless its own open makes the commit.
Committed(mm) ==
    /\ m' = IF fmt > 1 THEN mm ELSE NoFile.m
    /\ h' = IF ~h.open THEN NoFile
            ELSE [h EXCEPT !.m = mm, !.fresh = FALSE,
                           !.id = IF h.fresh THEN @ ELSE HeldId(@, attrs)]
    /\ fmt' = IF fmt > 0 THEN fmt - 1 ELSE 0
    /\ pc' = IF fmt > 1 THEN "commit" ELSE "idle"
    /\ attrs' = << >> /\ want' = NoChange

\* The tags, the fcrc and the crc (lfs_dir_commitcrc) go behind the last commit.
Appended(b) == [b EXCEPT !.commits = Append(SubSeq(@, 1, m.n), attrs)]

CommitAppend ==
    /\ pc = "commit" /\ m.erased /\ Fits
    /\ flash' = [flash EXCEPT ![m.cur] = Appended(@)]
    /\ Committed([m EXCEPT !.n = @ + 1])

\* No room (noticed when some tags are programmed) or no erased space: the
\* other block is erased.
Erase ==
    /\ pc = "commit" /\ ~(m.erased /\ Fits)
    /\ pc' = "program"
    /\ \E t \in {flash[m.cur].tail} \cup (IF m.erased THEN {"junk"} ELSE {}) :
          flash' = [flash EXCEPT ![m.cur].tail = t,
                                 ![1 - m.cur] = [rev |-> Revs - 1, commits |-> << >>,
                                                 tail |-> "erased"]]
    /\ UNCHANGED <<m, attrs, h, fmt, want>>

\* Mutant: what found no room in the old block is not written to the new one.
ProgramDropsTags ==
    LET rev    == (m.rev + 1) % Revs
        commit == Compacted(Log(flash, m))
        other  == 1 - m.cur
    IN  /\ pc = "program"
        /\ flash' = [flash EXCEPT ![other] =
                        [rev |-> rev, commits |-> << commit >>, tail |-> "erased"]]
        /\ Committed([m EXCEPT !.cur = other, !.n = 1, !.rev = rev])

\* lfs_dir_compact: the pair is swapped when the block is complete.  m.erased
\* stays what it was.
Program ==
    LET rev    == (m.rev + 1) % Revs
        commit == Compacted(Log(flash, m) \o attrs)
        other  == 1 - m.cur
    IN  /\ pc = "program"
        /\ flash' = [flash EXCEPT ![other] =
                        [rev |-> rev, commits |-> << commit >>, tail |-> "erased"]]
        /\ Committed([m EXCEPT !.cur = other, !.n = 1, !.rev = rev])

----------------------------------------------------------------------------
(* The power goes: what a cut leaves of the block being written.  A cut    *)
(* append lacks its crc; a cut erase or compaction leaves the old block, or *)
(* no commit and any revision, of which it matters whether it is the later. *)

Cut(b) == {b} \cup { [rev |-> r % Revs, commits |-> << >>, tail |-> "junk"] :
                        r \in {m.rev, m.rev + 1} }

Appending == pc = "commit" /\ m.erased
Writing   == pc = "program" \/ (pc = "commit" /\ ~(m.erased /\ Fits))

Left(tail, other) ==
    [i \in 0..1 |-> IF i = m.cur THEN [flash[i] EXCEPT !.tail = tail] ELSE other]

Remains ==
    LET tails  == {flash[m.cur].tail} \cup (IF Appending THEN {"junk"} ELSE {})
        others == IF Writing THEN Cut(flash[1 - m.cur]) ELSE {flash[1 - m.cur]}
    IN  { Left(t, b) : t \in tails, b \in others }

PowerLoss ==
    /\ pc # "off"
    /\ flash' \in Remains
    /\ m' = NoFile.m /\ attrs' = << >> /\ h' = NoFile
    /\ pc' = "off" /\ fmt' = 0 /\ want' = NoChange

Step ==
    \/ Mount \/ CommitAppend \/ Erase \/ Program \/ PowerLoss
    \/ \E n \in Names : FileCreate(n) \/ FileOpen(n) \/ FileRemove(n)
    \/ \E n, n2 \in Names : FileRename(n, n2)
    \/ \E v \in Values : FileClose(v)

Next == Step /\ dir' = Decoded(flash')

Spec == Init /\ [][Next]_vars

----------------------------------------------------------------------------
(* Properties *)

\* Whatever log the directory has, looking for a name forwards (lfs_dir_find)
\* and reading its contents backwards (lfs_dir_get) agree with the log replayed
\* from its start; a name not there is placed so that the files stay sorted.
LookupRight ==
    ~Corrupt(flash) =>
        LET log   == Log(flash, Fetch(flash))
            files == Replayed(log)
        IN  /\ \A i, j \in DOMAIN files : i < j => files[i].name < files[j].name
            /\ \A n \in Names :
                  LET s == Find(log, n)
                  IN  /\ s.count = Len(files)
                      /\ IF \E i \in DOMAIN files : files[i].name = n
                         THEN /\ s.found /\ files[s.id + 1].name = n
                              /\ Get(log, "struct", s.id).val = files[s.id + 1].val
                         ELSE ~s.found /\ s.id = Cardinality({i \in DOMAIN files : files[i].name < n})

\* The mdir that an open file carries through the changes made by others is
\* the one a fetch would give: its close would otherwise commit to the wrong
\* block, over a tail that is not erased, or under the id of another file.
HandleFresh ==
    pc = "idle" /\ h.open /\ h.id >= 0 =>
        /\ [h.m EXCEPT !.erased = FALSE] = [Fetch(flash) EXCEPT !.erased = FALSE]
        /\ h.m.erased => flash[h.m.cur].tail = "erased"
        /\ h.id < Len(Replayed(Log(flash, Fetch(flash))))

\* Each change is made whole or not at all, whenever the power goes, and when
\* its call returns it is on the flash.
Store == INSTANCE DirStore WITH asked <- want, up <- (pc # "off")
ImplementsStore == Store!Spec
=============================================================================
