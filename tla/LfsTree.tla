------------------------------ MODULE LfsTree ------------------------------
(***************************************************************************)
(* The directory tree of littlefs, lfs.c, as fs.c uses it: files in the    *)
(* root and in the directories made at boot.  Every directory is a pair of *)
(* blocks that is reachable twice, from its entry in the root and from its *)
(* predecessor in the list of all pairs; a worn pair moves to another      *)
(* block, and then both must be told, in two commits.  A rename between    *)
(* two directories takes two commits as well.  What is half done is noted  *)
(* in a global state, spread over the pairs as differences.  The power may *)
(* go between any two commits; a commit itself is atomic (LfsDir), and a   *)
(* directory fits into one pair (lfs_dir_split is not modelled).           *)
(***************************************************************************)
EXTENDS Integers, Sequences, FiniteSets, Functions

CONSTANTS
    Blocks, R0, R1,     \* the root is the pair {R0, R1}
    DirSeq,             \* the directories fs_init makes, in its order
    Names, Values,      \* files and contents; a new file is empty, 0
    Absent,
    Here,               \* stands for the root among the directories
    Coincide,           \* may demove find its pair tired while a relinking is due?
    MaxCalls, MaxMoves, MaxCuts   \* bounds: calls, relocations, power losses

Root  == {R0, R1}
Dirs  == Range(DirSeq)
Paths == (Dirs \cup {Here}) \X Names
Null  == Absent

\* Pairs of a list share no block: none is longer.  (A list that goes round in
\* a circle, which lfs_tortoise_detectcycles refuses, does not come about.)
Longest == Cardinality(Blocks) \div 2

Contents == Values \cup {0, Absent}
Marks == [pair : SUBSET Blocks, name : Names \cup {"orphans"}]
Logs  == [files : [Names -> Contents], dirs : [Dirs -> SUBSET Blocks],
          tail : SUBSET Blocks, delta : SUBSET Marks, over : SUBSET Blocks]

ASSUME TreeAssumption ==
    /\ IsFiniteSet(Blocks) /\ {R0, R1} \subseteq Blocks /\ R0 # R1
    /\ DirSeq \in Seq(Range(DirSeq)) /\ Len(DirSeq) \in 1..(Longest - 1)
    /\ \A i, j \in DOMAIN DirSeq : DirSeq[i] = DirSeq[j] => i = j
    /\ Here \notin Dirs /\ 0 \notin Values /\ Absent \notin Values \cup {0}
    /\ Null \notin Logs /\ Absent \notin [Paths -> Contents]
    /\ Coincide \in BOOLEAN

VARIABLES
    disk,       \* block -> contents of the directory log it holds, or Null
    gstate,     \* lfs->gstate: orphans (a count), move (at most one)
    gdisk,      \* lfs->gdisk: what of it the disk holds
    gdelta,     \* lfs->gdelta: differences taken from pairs dropped
    flight,     \* blocks handed out since the last lfs_alloc_ckpoint
    task,       \* what littlefs is doing
    reloc,      \* lfs_dir_orphaningcommit: a pair that moved, not yet linked
    want,       \* history: the change the program asked for, by path
    dir,        \* history: what a program would find after a mount
    spent       \* how much of the bounds is used up

vars == <<disk, gstate, gdisk, gdelta, flight, task, reloc, want, dir, spent>>

----------------------------------------------------------------------------
(* Pairs and the list of pairs *)

Same(p, q) == p \cap q # {}                        \* lfs_pair_cmp = 0
Xor(a, b)  == (a \ b) \cup (b \ a)

Empty == [files |-> [n \in Names |-> Absent], dirs |-> [d \in Dirs |-> {}],
          tail |-> {}, delta |-> {}, over |-> {}]

\* lfs_dir_fetch: the block with the later revision (over: the blocks this
\* one is later than).
NewestOn(dk, p) ==
    CHOOSE b \in p : dk[b] # Null /\ \A c \in p \ {b} : dk[c] = Null \/ c \in dk[b].over
MDirOn(dk, p) == dk[NewestOn(dk, p)]

\* From p along the tails, {} behind the last pair.
Walk(dk, p) ==
    LET w[k \in 0..Longest] == IF k = 0 THEN p
                               ELSE IF w[k - 1] = {} THEN {}
                               ELSE MDirOn(dk, w[k - 1]).tail
    IN  w
ListOn(dk) == Range(Walk(dk, Root)) \ {{}}

\* A mark counts when an odd number of the differences has it.
GStateOn(dk) ==
    { g \in UNION { MDirOn(dk, p).delta : p \in ListOn(dk) } :
         Cardinality({ p \in ListOn(dk) : g \in MDirOn(dk, p).delta }) % 2 = 1 }

Newest(p) == NewestOn(disk, p)
MDir(p)   == MDirOn(disk, p)
List      == ListOn(disk)
DirPair(d) == IF d = Here THEN Root ELSE MDir(Root).dirs[d]

\* lfs_fs_parent, lfs_fs_pred: none or one.
Parents(p) == { q \in List : \E d \in Dirs : Same(MDir(q).dirs[d], p) }
Preds(p)   == { q \in List : Same(MDir(q).tail, p) }

\* lfs_fs_traverse with the orphans, and lfs_alloc: any block but these.
Used == UNION { p \cup UNION { MDir(p).dirs[d] : d \in Dirs } : p \in List }
Free == Blocks \ (Used \cup flight)

\* The global state: marks, of which the disk holds a set.
Orphans    == [pair |-> {}, name |-> "orphans"]
Move(p, n) == [pair |-> p, name |-> n]
OnDisk(g)  == g.move \cup (IF g.orphans > 0 THEN {Orphans} ELSE {})
Clean      == [orphans |-> 0, move |-> {}]

\* What a program finds after a mount, by path.
Decoded(dk) ==
    IF dk[R0] = Null /\ dk[R1] = Null THEN Absent
    ELSE LET root == MDirOn(dk, Root)
             gone == GStateOn(dk)
             P(d) == IF d = Here THEN Root ELSE root.dirs[d]
         IN  [x \in Paths |->
                IF \/ P(x[1]) = {}
                   \/ \E g \in gone : Same(g.pair, P(x[1])) /\ g.name = x[2]
                THEN Absent
                ELSE MDirOn(dk, P(x[1])).files[x[2]]]

----------------------------------------------------------------------------
(* lfs_dir_commit: the contents c for the pair p, then after *)

NoReloc == [at |-> "none", old |-> {}, new |-> {}, hasparent |-> FALSE]
Idle    == [k |-> "idle"]

\* A block that is not the newest of a pair that can be reached, on the disk or
\* from ram, is not read again before it is written: what it holds is forgotten.
Reached(dk, ram) ==
    (UNION { Range(Walk(dk, p)) : p \in {Root} \cup ram \cup Range(MDirOn(dk, Root).dirs) })
        \ {{}}
Kept(dk, ram) ==
    LET live == { NewestOn(dk, p) : p \in Reached(dk, ram) }
    IN  [b \in Blocks |-> IF b \in live THEN dk[b] ELSE Null]

\* The block b is written behind what it had, or, erased, later than cur.
Put(b, c, delta, ram) ==
    disk' = Kept([disk EXCEPT ![b] = [c EXCEPT !.delta = delta, !.over = disk[b].over]], ram)
PutOver(b, cur, c, delta, ram) ==
    disk' = Kept([x \in Blocks |->
                     IF x = b THEN [c EXCEPT !.delta = delta, !.over = {cur}]
                     ELSE IF disk[x] = Null THEN Null
                     ELSE [disk[x] EXCEPT !.over = @ \ {b}]], ram)

\* lfs_dir_relocatingcommit: append; compact into the other block; or, a tired
\* pair, compact into a new block.  A pair that moves does not carry the global
\* state with it, the commits that link it do.
Ram(r) == IF r = NoReloc THEN {} ELSE {r.new}

\* Mutant: the difference the pair already had is lost.
DeltaAfresh(p, g, gd) == Xor(gd, Xor(gdisk, OnDisk(g)))

\* The difference that brings the disk to g, in the same pair.
Delta(p, g, gd) == Xor(MDir(p).delta, Xor(gd, Xor(gdisk, OnDisk(g))))

Commit(p, c, g, gd, after) ==
    LET cur  == Newest(p)
        full == Delta(p, g, gd)
    IN  /\ gstate' = g /\ gdelta' = {}
        /\ \/ /\ \/ Put(cur, c, full, Ram(after))
                 \/ \E b \in p \ {cur} : PutOver(b, cur, c, full, Ram(after))
              /\ gdisk' = OnDisk(g)
              /\ reloc' = after /\ UNCHANGED flight
           \/ /\ p # Root
              /\ \E b \in Free :
                    /\ PutOver(b, cur, c, Xor(MDir(p).delta, gd), {{b, cur}})
                    /\ flight' = flight \cup {b}
                    /\ reloc' = [at |-> "parent", old |-> p, new |-> {b, cur},
                                 hasparent |-> FALSE]
              /\ UNCHANGED gdisk

\* Mutants: the pending move stays in the entries; it is made but still noted.
MoveLeft(p, c, g) == c
MoveNoted(p, g) == g

\* A pending move out of the pair is made by the commit to it.
MoveFixed(p, c, g) ==
    LET here == { mv \in g.move : Same(mv.pair, p) }
    IN  [c EXCEPT !.files = [n \in Names |-> IF \E mv \in here : mv.name = n
                                             THEN Absent ELSE @[n]]]
WithoutMove(p, g) == [g EXCEPT !.move = { mv \in @ : ~Same(mv.pair, p) }]

\* lfs_dir_orphaningcommit: first the parent learns of the new pair (it is the
\* root, which never moves), ...
FixParent ==
    /\ reloc.at = "parent"
    /\ IF Parents(reloc.old) = {}
       THEN /\ reloc' = [reloc EXCEPT !.at = "pred"]
            /\ UNCHANGED <<disk, gstate, gdisk, gdelta, flight>>
       ELSE LET c == [MDir(Root) EXCEPT !.dirs =
                         [d \in Dirs |-> IF Same(@[d], reloc.old) THEN reloc.new ELSE @[d]]]
                g == [gstate EXCEPT !.orphans = @ + 1]
            IN  Commit(Root, MoveFixed(Root, c, g), WithoutMove(Root, g), gdelta,
                       [reloc EXCEPT !.at = "pred", !.hasparent = TRUE])
    /\ UNCHANGED <<task, want>>

\* ... then the predecessor, which may move in turn.
FixPred ==
    /\ reloc.at = "pred"
    /\ IF Preds(reloc.old) = {}
       THEN /\ reloc' = NoReloc
            /\ UNCHANGED <<disk, gstate, gdisk, gdelta, flight>>
       ELSE \E q \in Preds(reloc.old) :
              LET c == [MDir(q) EXCEPT !.tail = reloc.new]
                  g == IF reloc.hasparent /\ gstate.orphans > 0
                       THEN [gstate EXCEPT !.orphans = @ - 1] ELSE gstate
              IN  Commit(q, MoveFixed(q, c, g), WithoutMove(q, g), gdelta, NoReloc)
    /\ UNCHANGED <<task, want>>

----------------------------------------------------------------------------
(* Boot: fs_init *)

Init ==
    /\ disk = [b \in Blocks |-> Null]
    /\ gstate = Clean /\ gdisk = {} /\ gdelta = {} /\ flight = {}
    /\ task = [k |-> "off"] /\ reloc = NoReloc
    /\ want = << >> /\ dir = Absent
    /\ spent = [calls |-> 0, moves |-> 0, cuts |-> 0]

Ready(k) == task.k = k /\ reloc = NoReloc
Quiet    == UNCHANGED <<disk, gstate, gdisk, gdelta, flight, reloc, want>>

\* lfs_format
Format ==
    /\ Ready("off") /\ dir = Absent
    /\ disk' = [disk EXCEPT ![R0] = Empty]
    /\ UNCHANGED <<gstate, gdisk, gdelta, flight, task, reloc, want>>

\* lfs_mount: the global state is the sum over the list.
Mount ==
    /\ Ready("off") /\ dir # Absent
    /\ LET found == GStateOn(disk)
       IN  /\ gdisk' = found
           /\ gstate' = [orphans |-> IF Orphans \in found THEN 1 ELSE 0,
                         move |-> found \ {Orphans}]
    /\ gdelta' = {} /\ flight' = {}
    /\ task' = [k |-> "demove"]
    /\ UNCHANGED <<disk, reloc, want>>

\* lfs_fs_demove, of the first lfs_fs_forceconsistency.
Demove ==
    /\ Ready("demove")
    /\ task' = [k |-> "deorphan", pass |-> 0, at |-> Newest(Root)]
    /\ IF gdisk \ {Orphans} = {} THEN Quiet
       ELSE \E mv \in gdisk \ {Orphans} :
              /\ Commit(mv.pair, [MDir(mv.pair) EXCEPT !.files[mv.name] = Absent],
                        [gstate EXCEPT !.move = {}], gdelta, NoReloc)
              /\ UNCHANGED want

\* Mutant: a pair without a parent is looked for, one that moved is not.
BadOrphan(pass, t) == pass = 1 /\ Parents(t) = {}

\* lfs_fs_deorphan: in list order from the pair that holds the block at, the
\* pairs whose tail is out of date (pass 0) or has no parent (pass 1).
Bad(pass, t) ==
    IF pass = 0 THEN \E q \in Parents(t) : \A d \in Dirs : MDir(q).dirs[d] # t
                ELSE Parents(t) = {}

Deorphan ==
    LET w == Walk(disk, Root)
        I == { i \in 0..(Longest - 1) : /\ w[i + 1] # {}
                                        /\ \E j \in 0..i : task.at \in w[j]
                                        /\ Bad(task.pass, w[i + 1]) }
    IN  /\ Ready("deorphan")
        /\ IF gstate.orphans = 0 THEN task' = [k |-> "mkdir", i |-> 1] /\ Quiet
           ELSE IF I # {}
           THEN LET i == CHOOSE x \in I : \A y \in I : x <= y
                    q == w[i]
                    t == w[i + 1]
                IN  /\ task' = [task EXCEPT !.at = Newest(q)]
                    /\ UNCHANGED want
                    /\ IF task.pass = 0
                       THEN \E d \in Dirs :
                              /\ Same(MDir(Root).dirs[d], t)
                              /\ Commit(q, MoveFixed(q, [MDir(q) EXCEPT !.tail = MDir(Root).dirs[d]], gstate),
                                        WithoutMove(q, gstate), gdelta, NoReloc)
                       ELSE Commit(q, [MDir(q) EXCEPT !.tail = MDir(t).tail],
                                   gstate, Xor(gdelta, MDir(t).delta), NoReloc)
           ELSE IF task.pass = 0
           THEN task' = [task EXCEPT !.pass = 1, !.at = Newest(Root)] /\ Quiet
           ELSE /\ gstate' = [gstate EXCEPT !.orphans = 0]
                /\ task' = [k |-> "mkdir", i |-> 1]
                /\ UNCHANGED <<disk, gdisk, gdelta, flight, reloc, want>>

\* lfs_mkdir: a new pair that points to the rest of the list ...
MkdirNext == IF task.i = Len(DirSeq) THEN Idle ELSE [k |-> "mkdir", i |-> task.i + 1]

Mkdir ==
    /\ Ready("mkdir") /\ UNCHANGED <<reloc, want>>
    /\ IF DirPair(DirSeq[task.i]) # {} THEN task' = MkdirNext /\ UNCHANGED <<disk, gstate, gdisk, gdelta, flight>>
       ELSE \E b, b2 \in Blocks \ Used :
              /\ b # b2
              /\ flight' = {b, b2}
              /\ PutOver(b, b2, [Empty EXCEPT !.tail = MDir(Root).tail],
                         Xor(gdelta, Xor(gdisk, OnDisk(gstate))), {{b, b2}})
              /\ gdisk' = OnDisk(gstate) /\ gdelta' = {}
              /\ task' = [k |-> "link", i |-> task.i, pair |-> {b, b2}]
              /\ UNCHANGED gstate

\* ... and one commit that makes it the entry and the tail of the root.
Link ==
    /\ Ready("link")
    /\ Commit(Root, [MDir(Root) EXCEPT !.dirs[DirSeq[task.i]] = task.pair,
                                       !.tail = task.pair],
              gstate, gdelta, NoReloc)
    /\ task' = MkdirNext /\ UNCHANGED want

----------------------------------------------------------------------------
(* The calls of a program *)

Call(d, n) == Ready("idle") /\ DirPair(d) # {} /\ n \in Names
FileOf(d, n) == MDir(DirPair(d)).files[n]
Renamed(d, n, e, n2) ==
    [x \in {<<d, n>>, <<e, n2>>} |-> IF x = <<d, n>> THEN Absent ELSE FileOf(d, n)]
With(p, n, v) == [MDir(p) EXCEPT !.files[n] = v]

Begin(p, c, g, then, change) ==
    /\ task' = [k |-> "call", pair |-> p, mdir |-> c, g |-> g, then |-> then]
    /\ want' = change
    /\ UNCHANGED <<disk, gstate, gdisk, gdelta, flight, reloc>>

\* lfs_file_open with LFS_O_CREAT (v = 0), lfs_file_sync, lfs_remove.
FileCommit(d, n, v) ==
    /\ Call(d, n) /\ FileOf(d, n) # v
    /\ v = 0 <=> FileOf(d, n) = Absent
    /\ Begin(DirPair(d), With(DirPair(d), n, v), gstate, [k |-> "return"],
             [x \in {<<d, n>>} |-> v])

\* lfs_rename: into another pair with a mark at the old entry ...
Rename(d, n, e, n2) ==
    LET p == DirPair(d)
        q == DirPair(e)
    IN  /\ Call(d, n) /\ Call(e, n2) /\ FileOf(d, n) # Absent /\ FileOf(e, n2) = Absent
        /\ IF p = q
           THEN Begin(p, [With(p, n, Absent) EXCEPT !.files[n2] = FileOf(d, n)],
                      gstate, [k |-> "return"], Renamed(d, n, e, n2))
           ELSE Begin(q, With(q, n2, FileOf(d, n)),
                      [gstate EXCEPT !.move = {Move(p, n)}],
                      [k |-> "moved", pair |-> p, name |-> n, mdir |-> MDir(p)],
                      Renamed(d, n, e, n2))

FirstCommit ==
    /\ Ready("call")
    /\ Commit(task.pair, task.mdir, task.g, gdelta, NoReloc)
    /\ task' = task.then /\ UNCHANGED want

\* ... that the second commit takes away with the entry, unless a relocation
\* has done it.  It is made with the mdir fetched before the first.
Moved ==
    /\ Ready("moved")
    /\ IF gstate.move = {} THEN Quiet
       ELSE /\ Commit(task.pair, [task.mdir EXCEPT !.files[task.name] = Absent],
                      [gstate EXCEPT !.move = {}], gdelta, NoReloc)
            /\ UNCHANGED want
    /\ task' = [k |-> "return"]

Return ==
    /\ Ready("return")
    /\ task' = Idle /\ want' = << >>
    /\ UNCHANGED <<disk, gstate, gdisk, gdelta, flight, reloc>>

PowerLoss ==
    /\ task.k # "off"
    /\ gstate' = Clean /\ gdisk' = {} /\ gdelta' = {} /\ flight' = {}
    /\ task' = [k |-> "off"] /\ reloc' = NoReloc /\ want' = << >>
    /\ disk' = IF dir = Absent THEN disk ELSE Kept(disk, {})

Step ==
    \/ Format \/ Mount \/ Demove \/ Deorphan \/ Mkdir \/ Link
    \/ FixParent \/ FixPred \/ FirstCommit \/ Moved \/ Return \/ PowerLoss
    \/ \E d \in Dirs \cup {Here}, n \in Names :
          \/ \E v \in Values \cup {0, Absent} : FileCommit(d, n, v)
          \/ \E e \in Dirs \cup {Here}, n2 \in Names : Rename(d, n, e, n2)

Moves == reloc'.at = "parent" /\ reloc'.new # reloc.new

\* A cut that left both a move and a pair to relink, and a tired pair in the
\* commit that makes up for the move: see RepairChangesNothing.
Coincidence == Moves /\ task.k = "demove" /\ gstate.orphans > 0

Next ==
    /\ Step
    /\ dir' = Decoded(disk')
    /\ spent' = [calls |-> spent.calls + (IF task'.k = "call" THEN 1 ELSE 0),
                 moves |-> spent.moves + (IF Moves THEN 1 ELSE 0),
                 cuts  |-> spent.cuts + (IF task'.k = "off" /\ task.k # "off" THEN 1 ELSE 0)]
    /\ Coincidence => Coincide
    /\ spent'.calls <= MaxCalls /\ spent'.moves <= MaxMoves /\ spent'.cuts <= MaxCuts

Spec == Init /\ [][Next]_vars

----------------------------------------------------------------------------
(* Properties *)

Mounted == task.k # "off"

\* After recovery, whatever was cut before, the two ways to a directory agree:
\* the list holds the root and the directories of the root, each once, and
\* nothing is left to be repaired.
RecoveredTree ==
    Ready("idle") =>
        /\ List = {Root} \cup { DirPair(d) : d \in Dirs }
        /\ \A i, j \in 0..Longest : Same(Walk(disk, Root)[i], Walk(disk, Root)[j]) => i = j
        /\ \A d, e \in Dirs \cup {Here} : DirPair(d) # {} /\ (Same(DirPair(d), DirPair(e)) => d = e)
        /\ gstate = Clean

\* What lfs believes of the disk (gdisk) is what a mount would sum up from the
\* pairs, with the differences of the pairs not in the list yet.
GStateRight ==
    Mounted => gdisk = Xor(gdelta, Xor(GStateOn(disk),
                                       IF task.k = "link" THEN MDir(task.pair).delta ELSE {}))

\* The second commit of a rename uses an mdir fetched before the first: nothing
\* has changed that pair since.
OldMDirCurrent ==
    Ready("moved") /\ gstate.move # {} =>
        /\ task.pair \in List
        /\ task.mdir = MDir(task.pair)

\* The repair after a mount, lfs_fs_forceconsistency, loses nothing: no program
\* sees a difference.  (lfs.h: it makes no other changes to the file system.)
RepairChangesNothing ==
    [][Mounted /\ task.k \in {"demove", "deorphan"} => dir' = dir]_vars

\* A file call, a rename between two directories included, happens as a whole
\* or not at all whenever the power goes, and it has happened when the call
\* returns.
Store == INSTANCE DirStore WITH Names <- Paths, asked <- want, up <- Mounted
ImplementsStore == Store!Spec
=============================================================================
