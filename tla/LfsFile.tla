------------------------------ MODULE LfsFile ------------------------------
(***************************************************************************)
(* The block allocator of littlefs, lfs.c, and the file that is open for   *)
(* writing, as fs.c uses them: one upload (wfile), while other files are   *)
(* deleted and renamed and a directory moves to a new block.  No table of  *)
(* free blocks is kept: the allocator walks a window over the disk that is *)
(* filled from the tree and from the open file, and a checkpoint says that *)
(* everything handed out before is in one of the two.  The power may go    *)
(* between any two calls.  Commits are atomic (LfsDir, LfsTree).           *)
(***************************************************************************)
EXTENDS Integers, SequencesExt, FiniteSets

CONSTANTS
    N,              \* blocks, 0..N-1; the root is the pair {0, 1}
    Lookahead,      \* blocks the lookahead buffer has bits for
    Names, Absent,
    MaxBlocks       \* bound: blocks of the longest file

ASSUME FileAssumption ==
    /\ N \in Nat /\ N >= 4 /\ Lookahead \in Nat \ {0} /\ MaxBlocks \in Nat
    /\ Absent \notin Seq(0..(N - 1))

Blocks   == 0..(N - 1)
NoBlock  == -1
NoChange == << >>

VARIABLES
    pair,       \* the two blocks of the directory labels
    files,      \* its entries: Absent, or the blocks (none: inline)
    la,         \* lfs->lookahead: start, next, size, ckpoint, used (offsets)
    w,          \* the write handle wfile
    mounted,
    full,       \* history: the last allocation failed with a block to spare
    want        \* the change of the entries that is being committed

vars == <<pair, files, la, w, mounted, full, want>>

Closed == [open |-> FALSE, name |-> Absent, blocks |-> << >>, inline |-> TRUE,
           dirty |-> FALSE, writing |-> FALSE, erred |-> FALSE, gone |-> FALSE]

Present == { n \in Names : files[n] # Absent }

----------------------------------------------------------------------------
(* lfs_fs_traverse: the pairs, the files in them and the open file *)

InTree == {0, 1} \cup pair \cup UNION { ToSet(files[n]) : n \in Present }
\* Mutant: what was written since the last flush is not seen.
InHandleDirty(h) == IF h.dirty /\ ~h.inline THEN ToSet(h.blocks) ELSE {}
InHandle(h) == IF (h.dirty \/ h.writing) /\ ~h.inline THEN ToSet(h.blocks) ELSE {}
Used(h) == InTree \cup InHandle(h)

----------------------------------------------------------------------------
(* lfs_alloc *)

Ckpoint(l) == [l EXCEPT !.ckpoint = N]                  \* lfs_alloc_ckpoint
Drop(start) == [start |-> start, next |-> 0, size |-> 0, ckpoint |-> N, used |-> {}]
Ahead(l) == (l.next..(l.size - 1)) \ l.used
Skip(l, o) == [l EXCEPT !.next = o, !.ckpoint = @ - (o - l.next), !.used = @ \ (0..(o - 1))]

\* Mutant: next stays behind the block taken.
TakeOne(l) == LET o == Min(Ahead(l)) IN [l |-> Skip(l, o + 1), b |-> (l.start + o) % N]

\* A free block of the window; next then goes on to the next free one.
Take(l) ==
    LET o    == Min(Ahead(l))
        rest == Ahead(l) \ {o}
    IN  [l |-> Skip(l, IF rest = {} THEN l.size ELSE Min(rest)), b |-> (l.start + o) % N]

\* Mutant: the window may be larger than the checkpoint.
ScanFromWide(l, used) ==
    LET start == (l.start + l.next) % N
    IN  [l EXCEPT !.start = start, !.next = 0, !.size = Lookahead,
                  !.used = { o \in 0..(Lookahead - 1) : (start + o) % N \in used }]

\* lfs_alloc_scan: the window behind this one, no larger than the checkpoint.
ScanFrom(l, used) ==
    LET start == (l.start + l.next) % N
        size  == Min({Lookahead, l.ckpoint})
    IN  [l EXCEPT !.start = start, !.next = 0, !.size = size,
                  !.used = { o \in 0..(size - 1) : (start + o) % N \in used }]

\* Windows until one has a free block or the checkpoint is used up: at most N.
AllocStep(r, used) ==
    IF r.b # NoBlock THEN r
    ELSE IF Ahead(r.l) # {} THEN Take(r.l)
    ELSE LET l == Skip(r.l, r.l.size)
         IN  [r EXCEPT !.l = IF l.ckpoint <= 0 THEN l ELSE ScanFrom(l, used)]

Alloc(l, used) ==
    LET walk[k \in 0..(N + 1)] ==
            IF k = 0 THEN [l |-> l, b |-> NoBlock] ELSE AllocStep(walk[k - 1], used)
    IN  walk[N + 1]

----------------------------------------------------------------------------
(* fs_begin_write, fs_write, fs_end_write and fs_abort_write *)

Init ==
    /\ pair = {2, 3} /\ files = [n \in Names |-> Absent]
    /\ la = Drop(0) /\ w = Closed /\ mounted = FALSE
    /\ full = FALSE /\ want = NoChange

\* lfs_mount: the window starts anywhere.
Mount ==
    /\ ~mounted /\ mounted' = TRUE
    /\ \E b \in Blocks : la' = Drop(b)
    /\ UNCHANGED <<pair, files, w, full, want>>

Ready == mounted /\ want = NoChange
Change(n, blocks) == [x \in {n} |-> blocks]

\* lfs_file_open, CREAT and TRUNC: a new name gets an empty file at once, the
\* contents of another stay until the file is closed.
Open(n) ==
    /\ Ready /\ ~w.open
    /\ w' = [Closed EXCEPT !.open = TRUE, !.name = n, !.dirty = n \in Present]
    /\ want' = IF n \in Present THEN NoChange ELSE Change(n, << >>)
    /\ UNCHANGED <<pair, files, la, mounted, full>>

\* lfs_file_write while the file fits into its entry (inline_max bytes).
WriteInline ==
    /\ Ready /\ w.open /\ ~w.erred /\ w.inline
    /\ w' = [w EXCEPT !.writing = TRUE]
    /\ UNCHANGED <<pair, files, la, mounted, full, want>>

\* lfs_file_outline and lfs_ctz_extend: the next block of the file.
WriteBlock ==
    LET a == Alloc(Ckpoint(la), Used(w))
    IN  /\ Ready /\ w.open /\ ~w.erred /\ Len(w.blocks) < MaxBlocks
        /\ IF a.b = NoBlock
           THEN /\ w' = [w EXCEPT !.erred = TRUE]
                /\ la' = a.l /\ full' = (Used(w) # Blocks)
           ELSE /\ w' = [w EXCEPT !.blocks = Append(@, a.b), !.inline = FALSE, !.writing = TRUE]
                /\ la' = Ckpoint(a.l) /\ full' = FALSE
        /\ UNCHANGED <<pair, files, mounted, want>>

\* lfs_file_close: lfs_file_flush and, unless an error came before or the entry
\* is gone, the commit.  fs_abort_write makes the same call.
Close ==
    /\ Ready /\ w.open
    /\ IF w.erred \/ w.gone \/ ~(w.dirty \/ w.writing)
       THEN w' = Closed /\ UNCHANGED want
       ELSE /\ w' = [w EXCEPT !.writing = FALSE, !.dirty = TRUE]
            /\ want' = Change(w.name, w.blocks)
    /\ UNCHANGED <<pair, files, la, mounted, full>>

Delete(n) ==
    /\ Ready /\ n \in Present
    /\ want' = Change(n, Absent)
    /\ UNCHANGED <<pair, files, la, w, mounted, full>>

\* fs_rename refuses a name that exists; LFS_FROM_MOVE copies the struct.
Rename(n, n2) ==
    /\ Ready /\ n \in Present /\ n2 \notin Present
    /\ want' = [x \in {n, n2} |-> IF x = n THEN Absent ELSE files[n]]
    /\ UNCHANGED <<pair, files, la, w, mounted, full>>

\* The commit of a call: the close is done, an open file whose entry goes away
\* loses its pair (fixmlist).
Committed ==
    /\ want # NoChange /\ want' = NoChange
    /\ files' = [n \in Names |-> IF n \in DOMAIN want THEN want[n] ELSE files[n]]
    /\ w' = IF ~w.open \/ w.gone \/ w.name \notin DOMAIN want THEN w
            ELSE IF want[w.name] = Absent THEN [w EXCEPT !.gone = TRUE]
            ELSE IF w.name \in Present /\ ~w.writing THEN Closed
            ELSE w

Commit == mounted /\ Committed /\ UNCHANGED <<pair, la, mounted, full>>

\* The same after labels moved to a new block (tired, lfs_dir_compact); this
\* allocation has no checkpoint of its own.
CommitRelocated ==
    LET a == Alloc(la, Used(w))
    IN  /\ mounted /\ Committed /\ a.b # NoBlock
        /\ \E b \in pair : pair' = {b, a.b}
        /\ la' = a.l
        /\ UNCHANGED <<mounted, full>>

PowerLoss ==
    /\ mounted /\ mounted' = FALSE
    /\ w' = Closed /\ want' = NoChange /\ la' = Drop(0)
    /\ UNCHANGED <<pair, files, full>>

Next ==
    \/ Mount \/ WriteInline \/ WriteBlock \/ Close \/ Commit \/ CommitRelocated \/ PowerLoss
    \/ \E n \in Names : Open(n) \/ Delete(n) \/ \E n2 \in Names : Rename(n, n2)

Spec == Init /\ [][Next]_vars

----------------------------------------------------------------------------
(* Properties *)

\* The types; the checkpoint counts down to 0 and never below (it is unsigned).
TypeOK ==
    /\ la.start \in Blocks /\ la.size \in 0..Lookahead /\ la.next \in 0..la.size
    /\ la.ckpoint \in 0..N /\ la.used \subseteq 0..(la.size - 1)
    /\ pair \in SUBSET Blocks /\ Cardinality(pair) = 2
    /\ mounted \in BOOLEAN /\ full \in BOOLEAN

\* No block is handed out while something still needs it: the directories, every
\* file and the upload, in no directory until it is closed, have each
\* block alone and use it once.
Alone(blocks, others) == IsInjective(blocks) /\ ToSet(blocks) \cap others = {}

BlocksOwned ==
    /\ pair \cap {0, 1} = {}
    /\ Alone(w.blocks, InTree)
    /\ \A n \in Present :
          Alone(files[n], {0, 1} \cup pair \cup UNION { ToSet(files[x]) : x \in Present \ {n} })

\* An upload is told that there is no space only when every block is in use,
\* although the window still shows blocks as used that were freed since.
NoSpaceTrue == ~full
=============================================================================
