--------------------------- MODULE LfsTreeProofs ---------------------------
(***************************************************************************)
(* LfsTree for all blocks, directories, files and contents, any number of  *)
(* calls, relocations and power losses: recovery brings tree and list      *)
(* together, the global state in memory is the one on the disk, and every  *)
(* change is atomic, whatever is half done when the power goes.            *)
(*                                                                         *)
(* A directory has a position, its distance from the root in the list.  At *)
(* position k the root's entry is the pair E[k] and the list has W[k].     *)
(* They are the same up to the break b; behind it the list still goes      *)
(* through stale pairs, which overlap those that replaced them.  Shape     *)
(* says so of a disk; each kind of commit leaves a shape (Remains,         *)
(* Relinked, Departs, Reenters, Enters), and At adds what littlefs knows.  *)
(*                                                                         *)
(* The theorems assume Coincide = FALSE: with a coincidence, lfs_fs_demove *)
(* commits to a stale pair, and RepairChangesNothing is false.             *)
(***************************************************************************)
EXTENDS LfsTree, FiniteSetTheorems, TLAPS

-----------------------------------------------------------------------------
(* Pairs, and the walk along the tails                                     *)

\* How many directories there are besides the root.
NDirs == Len(DirSeq)

\* The constants: how many directories there are, and the root.
LEMMA Consts ==
    /\ Longest \in Nat /\ NDirs \in Nat /\ NDirs >= 1 /\ NDirs < Longest
    /\ DOMAIN DirSeq = 1..NDirs /\ Dirs = { DirSeq[i] : i \in 1..NDirs }
    /\ Root \subseteq Blocks /\ R0 \in Blocks /\ R1 \in Blocks /\ R0 # R1
    /\ \A i, j \in 1..NDirs : DirSeq[i] = DirSeq[j] => i = j
<1>1. Cardinality(Blocks) \in Nat
  BY TreeAssumption, FS_CardinalityType
<1>2. Longest \in Nat
  BY <1>1 DEF Longest
<1>3. DOMAIN DirSeq = 1..NDirs /\ NDirs \in Nat
  BY TreeAssumption DEF NDirs
<1> QED BY <1>2, <1>3, TreeAssumption DEF Root, NDirs, Dirs, Range

\* What holds of 0 and of the next number with each number holds of all.
LEMMA Induction ==
    ASSUME NEW S, 0 \in S, \A k \in Nat : k \in S => k + 1 \in S
    PROVE  Nat \subseteq S
<1> SUFFICES ASSUME Nat \ S # {} PROVE FALSE
  OBVIOUS
<1> DEFINE T == Nat \ S
<1>1. PICK x \in T : \A y \in T : ~ (<<y, x>> \in OpToRel(<, Nat))
  BY NatLessThanWellFounded, WFMin
<1>2. x \in Nat /\ x \notin S /\ x # 0
  OBVIOUS
<1>3. x - 1 \in Nat /\ x - 1 < x /\ (x - 1) + 1 = x
  BY <1>2
<1>4. x - 1 \notin T
  BY <1>1, <1>2, <1>3 DEF OpToRel
<1> QED BY <1>2, <1>3, <1>4

\* The pair behind q.
Next1(dk, q) == IF q = {} THEN {} ELSE MDirOn(dk, q).tail

\* The walk starts at p and follows the tails.
LEMMA Walks ==
    ASSUME NEW dk, NEW p
    PROVE  /\ DOMAIN Walk(dk, p) = 0..Longest
           /\ Walk(dk, p)[0] = p
           /\ \A k \in 1..Longest : Walk(dk, p)[k] = Next1(dk, Walk(dk, p)[k - 1])
<1> DEFINE P(f, l) == f = [k \in 0..l |-> IF k = 0 THEN p ELSE Next1(dk, f[k - 1])]
           S == { l \in Nat : \E f : P(f, l) }
<1>1. 0 \in S
  <2> DEFINE f == [k \in 0..0 |-> p]
  <2>1. P(f, 0)
    OBVIOUS
  <2> QED BY <2>1
<1>2. ASSUME NEW l \in Nat, l \in S PROVE l + 1 \in S
  <2>1. PICK g : P(g, l)
    BY <1>2
  <2> DEFINE f == [k \in 0..(l + 1) |-> IF k = l + 1 THEN Next1(dk, g[l]) ELSE g[k]]
  <2>2. ASSUME NEW k \in 0..(l + 1)
        PROVE  f[k] = IF k = 0 THEN p ELSE Next1(dk, f[k - 1])
    <3>1. CASE k = 0
      <4>1. f[k] = g[0] /\ 0 \in 0..l
        BY <3>1
      <4> QED BY <2>1, <3>1, <4>1
    <3>2. CASE k = l + 1
      <4>1. k - 1 = l /\ k # 0 /\ l \in 0..(l + 1) /\ l # l + 1
        BY <3>2
      <4>2. f[l] = g[l]
        BY <4>1
      <4> QED BY <3>2, <4>1, <4>2
    <3>3. CASE k # 0 /\ k # l + 1
      <4>1. k \in 0..l /\ k - 1 \in 0..l /\ k - 1 # l + 1 /\ k - 1 \in 0..(l + 1)
        BY <3>3
      <4>2. f[k] = g[k] /\ f[k - 1] = g[k - 1]
        BY <3>3, <4>1
      <4>3. g[k] = Next1(dk, g[k - 1])
        BY <2>1, <3>3, <4>1
      <4> QED BY <3>3, <4>2, <4>3
    <3> QED BY <3>1, <3>2, <3>3
  <2>3. P(f, l + 1)
    <3> DEFINE h == [k \in 0..(l + 1) |-> IF k = 0 THEN p ELSE Next1(dk, f[k - 1])]
    <3>1. \A k \in 0..(l + 1) : f[k] = h[k]
      BY <2>2
    <3>2. f = h
      <4> DOMAIN f = 0..(l + 1) /\ DOMAIN h = 0..(l + 1)
        OBVIOUS
      <4> f = [k \in 0..(l + 1) |-> f[k]] /\ h = [k \in 0..(l + 1) |-> h[k]]
        OBVIOUS
      <4> HIDE DEF f, h
      <4> QED BY <3>1
    <3> QED BY <3>2
  <2> HIDE DEF f
  <2> QED BY <2>3
<1>3. Nat \subseteq S
  <2> HIDE DEF S
  <2> QED BY <1>1, <1>2, Induction
<1>4. \E f : P(f, Longest)
  BY <1>3, Consts
<1> DEFINE W == CHOOSE f : P(f, Longest)
<1>5. P(W, Longest)
  BY <1>4
<1>6. Walk(dk, p) = W
  BY DEF Walk, Next1
<1> HIDE DEF W
<1>7. DOMAIN W = 0..Longest /\ \A k \in 0..Longest : W[k] = IF k = 0 THEN p ELSE Next1(dk, W[k - 1])
  BY <1>5
<1>8. 0 \in 0..Longest /\ \A k \in 1..Longest : k \in 0..Longest /\ k # 0
  BY Consts
<1> QED BY <1>6, <1>7, <1>8

\* Of the blocks of a pair, a holds what counts.
Beats(dk, a, b) ==
    /\ a # b /\ dk[a] # Null
    /\ dk[b] = Null \/ (b \in dk[a].over /\ a \notin dk[b].over)

\* A pair of which one block counts; it is later than the other one alone.
Good(dk, p) == \E a, b \in Blocks : p = {a, b} /\ Beats(dk, a, b) /\ dk[a].over \subseteq p

\* lfs_dir_fetch takes the block that beats the other.
LEMMA NewestIs ==
    ASSUME NEW dk, NEW p, NEW a, NEW b, p = {a, b}, Beats(dk, a, b)
    PROVE  NewestOn(dk, p) = a /\ MDirOn(dk, p) = dk[a]
<1> DEFINE Q(x) == dk[x] # Null /\ \A c \in p \ {x} : dk[c] = Null \/ c \in dk[x].over
<1>1. Q(a) /\ ~Q(b)
  BY DEF Beats
<1>2. NewestOn(dk, p) = CHOOSE x \in p : Q(x)
  BY Zenon DEF NewestOn
<1> HIDE DEF Q
<1> QED BY <1>1, <1>2 DEF MDirOn

\* A good pair, its newer block and the other one.
LEMMA GoodIs ==
    ASSUME NEW dk, NEW p, Good(dk, p)
    PROVE  /\ p \subseteq Blocks /\ p # {}
           /\ NewestOn(dk, p) \in p /\ MDirOn(dk, p) = dk[NewestOn(dk, p)]
           /\ MDirOn(dk, p).over \subseteq p
           /\ \E b \in p : p = {NewestOn(dk, p), b} /\ Beats(dk, NewestOn(dk, p), b)
<1>1. PICK a, b \in Blocks : p = {a, b} /\ Beats(dk, a, b) /\ dk[a].over \subseteq p
  BY DEF Good
<1>2. NewestOn(dk, p) = a /\ MDirOn(dk, p) = dk[a]
  BY <1>1, NewestIs
<1> QED BY <1>1, <1>2

\* The pair reads the same on both disks.
Stays(dk, dk1, p) == /\ Good(dk1, p) /\ NewestOn(dk1, p) = NewestOn(dk, p)
                     /\ MDirOn(dk1, p) = MDirOn(dk, p)

\* A pair stays as it is when its blocks do, or the older one is forgotten.
LEMMA SameBlocks ==
    ASSUME NEW dk, NEW dk1, NEW p, Good(dk, p),
           dk1[NewestOn(dk, p)] = dk[NewestOn(dk, p)],
           \A b \in p : \/ dk1[b] = dk[b] \/ dk1[b] = Null
                        \/ dk[b] # Null /\ dk1[b].over \subseteq dk[b].over
    PROVE  Stays(dk, dk1, p)
<1>1. PICK a, b \in Blocks : p = {a, b} /\ Beats(dk, a, b) /\ dk[a].over \subseteq p
  BY DEF Good
<1>2. NewestOn(dk, p) = a /\ MDirOn(dk, p) = dk[a]
  BY <1>1, NewestIs
<1>3. dk1[a] = dk[a]
  BY <1>2
<1>4. dk1[b] = dk[b] \/ dk1[b] = Null \/ (dk[b] # Null /\ dk1[b].over \subseteq dk[b].over)
  BY <1>1
<1>5. Beats(dk1, a, b)
  BY <1>1, <1>3, <1>4 DEF Beats
<1>6. NewestOn(dk1, p) = a /\ MDirOn(dk1, p) = dk1[a]
  BY <1>1, <1>5, NewestIs
<1>7. Good(dk1, p)
  BY <1>1, <1>3, <1>5 DEF Good
<1> QED BY <1>2, <1>3, <1>6, <1>7 DEF Stays

-----------------------------------------------------------------------------
(* What a commit leaves on the disk                                        *)

\* Any contents of the blocks.
Disks == [Blocks -> Logs \cup {Null}]

\* The block b is written, and p, which holds it, has the contents c, with delta.
Wrote(dk, dk1, p, b, c, delta) ==
    /\ dk1 \in Disks
    /\ Good(dk1, p) /\ NewestOn(dk1, p) = b
    /\ MDirOn(dk1, p) = [c EXCEPT !.delta = delta, !.over = MDirOn(dk1, p).over]
    /\ \A q : Good(dk, q) /\ b \notin q => Stays(dk, dk1, q)

\* Null is no contents, and contents keep their form.
LEMMA LogForm ==
    ASSUME NEW c \in Logs, NEW delta \in SUBSET Marks, NEW over \in SUBSET Blocks
    PROVE  /\ c # Null
           /\ [c EXCEPT !.delta = delta, !.over = over] \in Logs
           /\ [c EXCEPT !.delta = delta, !.over = over].over = over
           /\ [c EXCEPT !.delta = delta, !.over = over] # Null
<1>1. Null \notin Logs
  BY TreeAssumption
<1> QED BY <1>1 DEF Logs

\* The newer block b of {b, x} is written behind what it had.
Behind(dk, b, c, delta) == [dk EXCEPT ![b] = [c EXCEPT !.delta = delta, !.over = dk[b].over]]

\* An append writes its pair.
LEMMA PutWrites ==
    ASSUME NEW dk \in Disks, NEW c \in Logs, NEW delta \in SUBSET Marks,
           NEW b \in Blocks, NEW x \in Blocks, Beats(dk, b, x), dk[b].over \subseteq {b, x}
    PROVE  Wrote(dk, Behind(dk, b, c, delta), {b, x}, b, c, delta)
<1> DEFINE o == dk[b].over
           r == [c EXCEPT !.delta = delta, !.over = o]
           dk1 == Behind(dk, b, c, delta)
<1>1. o \in SUBSET Blocks
  BY DEF Disks, Logs, Beats
<1>2. dk1 = [dk EXCEPT ![b] = r]
  BY DEF Behind
<1> HIDE DEF o, dk1
<1>3. r \in Logs /\ r # Null /\ r.over = o
  BY <1>1, LogForm, Zenon
<1> HIDE DEF r
<1>4. dk1 \in Disks /\ dk1[b] = r /\ \A y \in Blocks : y # b => dk1[y] = dk[y]
  BY <1>2, <1>3 DEF Disks
<1>5. Beats(dk1, b, x)
  BY <1>3, <1>4 DEF Beats, o
<1>6. NewestOn(dk1, {b, x}) = b /\ MDirOn(dk1, {b, x}) = r
  BY <1>4, <1>5, NewestIs
<1>7. Good(dk1, {b, x})
  BY <1>3, <1>4, <1>5 DEF Good, o
<1>8. ASSUME NEW q, Good(dk, q), b \notin q PROVE Stays(dk, dk1, q)
  <2>1. q \subseteq Blocks /\ NewestOn(dk, q) \in q
    BY <1>8, GoodIs
  <2>2. \A y \in q : dk1[y] = dk[y]
    BY <1>4, <1>8, <2>1
  <2> QED BY <1>8, <2>1, <2>2, SameBlocks
<1>9. r = [c EXCEPT !.delta = delta, !.over = MDirOn(dk1, {b, x}).over]
  BY <1>3, <1>6 DEF r
<1> QED BY <1>4, <1>6, <1>7, <1>8, <1>9 DEF Wrote, dk1

\* b becomes the newer block beside cur.
Later(dk, b, cur, c, delta) ==
    [x \in Blocks |-> IF x = b THEN [c EXCEPT !.delta = delta, !.over = {cur}]
                      ELSE IF dk[x] = Null THEN Null
                      ELSE [dk[x] EXCEPT !.over = @ \ {b}]]

\* A compaction writes the pair of its block and the one it came from.
LEMMA PutOverWrites ==
    ASSUME NEW dk \in Disks, NEW c \in Logs, NEW delta \in SUBSET Marks,
           NEW b \in Blocks, NEW cur \in Blocks, b # cur
    PROVE  Wrote(dk, Later(dk, b, cur, c, delta), {b, cur}, b, c, delta)
<1> DEFINE r == [c EXCEPT !.delta = delta, !.over = {cur}]
           p == {b, cur}
           dk1 == Later(dk, b, cur, c, delta)
<1>1. r \in Logs /\ r # Null /\ r.over = {cur}
  <2>1. {cur} \in SUBSET Blocks
    OBVIOUS
  <2> QED BY <2>1, LogForm, Zenon
<1>2. ASSUME NEW x \in Blocks, x # b
      PROVE  /\ dk[x] = Null => dk1[x] = Null
             /\ dk[x] # Null => /\ dk1[x] \in Logs /\ dk1[x] # Null
                                /\ dk1[x] = [dk[x] EXCEPT !.over = dk[x].over \ {b}]
                                /\ dk1[x].over = dk[x].over \ {b}
  <2>1. dk1[x] = IF dk[x] = Null THEN Null ELSE [dk[x] EXCEPT !.over = dk[x].over \ {b}]
    BY <1>2 DEF Later
  <2>2. ASSUME dk[x] # Null PROVE dk[x] \in Logs /\ dk[x].over \ {b} \in SUBSET Blocks
    BY <2>2 DEF Disks, Logs
  <2>3. ASSUME dk[x] # Null
        PROVE  /\ [dk[x] EXCEPT !.over = dk[x].over \ {b}] \in Logs
               /\ [dk[x] EXCEPT !.over = dk[x].over \ {b}] # Null
               /\ [dk[x] EXCEPT !.over = dk[x].over \ {b}].over = dk[x].over \ {b}
    <3> DEFINE l == [dk[x] EXCEPT !.over = dk[x].over \ {b}]
    <3>1. l \in Logs /\ l.over = dk[x].over \ {b}
      BY <2>2, <2>3 DEF Logs
    <3> QED BY <3>1, TreeAssumption
  <2> QED BY <2>1, <2>3
<1>3. dk1[b] = r
  BY DEF Later
<1>4. dk1 \in Disks
  <2>1. \A x \in Blocks : dk1[x] \in Logs \cup {Null}
    <3> HIDE DEF r, dk1
    <3> QED BY <1>1, <1>2, <1>3
  <2>2. dk1 = [x \in Blocks |-> dk1[x]]
    BY DEF Later
  <2> HIDE DEF r, dk1
  <2> QED BY <2>1, <2>2 DEF Disks
<1> HIDE DEF r, dk1
<1>5. Beats(dk1, b, cur)
  BY <1>1, <1>2, <1>3 DEF Beats
<1>6. NewestOn(dk1, p) = b /\ MDirOn(dk1, p) = r
  BY <1>3, <1>5, NewestIs
<1>7. Good(dk1, p)
  BY <1>1, <1>3, <1>5 DEF Good
<1>8. ASSUME NEW q, Good(dk, q), b \notin q PROVE Stays(dk, dk1, q)
  <2>1. q \subseteq Blocks /\ NewestOn(dk, q) \in q /\ dk[NewestOn(dk, q)].over \subseteq q
    BY <1>8, GoodIs
  <2>2. dk[NewestOn(dk, q)] # Null
    BY <1>8, GoodIs DEF Beats
  <2> DEFINE a == NewestOn(dk, q)
  <2>3. dk1[a] = dk[a]
    <3>1. dk1[a] = [dk[a] EXCEPT !.over = dk[a].over \ {b}]
      BY <1>2, <1>8, <2>1, <2>2
    <3>2. dk[a].over \ {b} = dk[a].over /\ dk[a] \in Logs
      BY <1>8, <2>1, <2>2 DEF Disks
    <3> QED BY <3>1, <3>2 DEF Logs
  <2>4. \A y \in q : \/ dk1[y] = dk[y] \/ dk1[y] = Null
                     \/ (dk[y] # Null /\ dk1[y].over \subseteq dk[y].over)
    BY <1>2, <1>8, <2>1
  <2> QED BY <1>8, <2>3, <2>4, SameBlocks
<1>9. r = [c EXCEPT !.delta = delta, !.over = MDirOn(dk1, p).over]
  BY <1>1, <1>6 DEF r
<1> QED BY <1>4, <1>6, <1>7, <1>8, <1>9 DEF Wrote, dk1

-----------------------------------------------------------------------------
(* The list and the entries of a disk                                      *)

\* The entry in the root, and the list, by the distance from the root: the
\* directory made last comes first.
Entry(dk, m) == [k \in 0..m |-> IF k = 0 THEN Root
                                ELSE MDirOn(dk, Root).dirs[DirSeq[m + 1 - k]]]
Chain(dk, m) == [k \in 0..m |-> Walk(dk, Root)[k]]

\* The pair behind position k.
After(f, k, m) == IF k < m THEN f[k + 1] ELSE {}

\* The root, m entries and m pairs of the list, all good, and the tails that
\* lead along the list.
Frame(dk, m, E, W) ==
    /\ E \in [0..m -> SUBSET Blocks] /\ W \in [0..m -> SUBSET Blocks]
    /\ E[0] = Root /\ W[0] = Root
    /\ \A k \in 0..m : /\ Good(dk, W[k]) /\ Good(dk, E[k])
                       /\ MDirOn(dk, W[k]).tail = After(W, k, m)
    /\ \A k \in 1..m : E[k] = MDirOn(dk, Root).dirs[DirSeq[m + 1 - k]]

\* The walk meets the pairs of the list and then ends.
LEMMA FrameWalk ==
    ASSUME NEW dk, NEW m \in Nat, m <= NDirs, NEW E, NEW W, Frame(dk, m, E, W)
    PROVE  \A k \in 0..Longest : Walk(dk, Root)[k] = IF k <= m THEN W[k] ELSE {}
<1> DEFINE S == { k \in Nat : k <= Longest => Walk(dk, Root)[k] = IF k <= m THEN W[k] ELSE {} }
<1>1. 0 \in S
  BY Walks DEF Frame
<1>2. ASSUME NEW k \in Nat, k \in S PROVE k + 1 \in S
  <2> SUFFICES ASSUME k + 1 <= Longest
               PROVE  Walk(dk, Root)[k + 1] = IF k + 1 <= m THEN W[k + 1] ELSE {}
    OBVIOUS
  <2>1. Walk(dk, Root)[k + 1] = Next1(dk, Walk(dk, Root)[k])
    <3>1. k + 1 \in 1..Longest /\ (k + 1) - 1 = k
      BY Consts
    <3> QED BY <3>1, Walks
  <2>2. Walk(dk, Root)[k] = IF k <= m THEN W[k] ELSE {}
    BY <1>2, Consts
  <2>3. CASE k <= m
    <3>1. k \in 0..m /\ Good(dk, W[k]) /\ MDirOn(dk, W[k]).tail = After(W, k, m)
      BY <2>3 DEF Frame
    <3>2. W[k] # {}
      BY <3>1, GoodIs
    <3> QED BY <2>1, <2>2, <2>3, <3>1, <3>2 DEF Next1, After
  <2>4. CASE ~(k <= m)
    BY <2>1, <2>2, <2>4 DEF Next1
  <2> QED BY <2>3, <2>4
<1> HIDE DEF S
<1>3. Nat \subseteq S
  BY <1>1, <1>2, Induction
<1> QED BY <1>3, Consts DEF S

\* Entries and list can be read off the disk.
LEMMA FrameIs ==
    ASSUME NEW dk, NEW m \in Nat, m <= NDirs, NEW E, NEW W, Frame(dk, m, E, W)
    PROVE  /\ Entry(dk, m) = E /\ Chain(dk, m) = W
           /\ ListOn(dk) = { W[k] : k \in 0..m }
<1>1. \A k \in 0..Longest : Walk(dk, Root)[k] = IF k <= m THEN W[k] ELSE {}
  BY FrameWalk
<1>2. m < Longest /\ Longest \in Nat
  BY Consts
<1>3. Chain(dk, m) = W
  <2>1. \A k \in 0..m : Walk(dk, Root)[k] = W[k]
    BY <1>1, <1>2
  <2>2. W = [k \in 0..m |-> W[k]]
    BY DEF Frame
  <2> QED BY <2>1, <2>2 DEF Chain
<1>4. Entry(dk, m) = E
  <2>1. \A k \in 0..m : E[k] = IF k = 0 THEN Root ELSE MDirOn(dk, Root).dirs[DirSeq[m + 1 - k]]
    BY DEF Frame
  <2>2. E = [k \in 0..m |-> E[k]]
    BY DEF Frame
  <2> QED BY <2>1, <2>2 DEF Entry
<1>5. ListOn(dk) = { W[k] : k \in 0..m }
  <2>1. Range(Walk(dk, Root)) = { Walk(dk, Root)[k] : k \in 0..Longest }
    BY Walks DEF Range
  <2>2. \A k \in 0..m : W[k] # {}
    BY GoodIs DEF Frame
  <2>3. \A k \in 0..m : k \in 0..Longest /\ k <= m
    BY <1>2
  <2>4. \A k \in 0..Longest : k <= m => k \in 0..m
    BY <1>2
  <2> QED BY <1>1, <2>1, <2>2, <2>3, <2>4 DEF ListOn
<1> QED BY <1>3, <1>4, <1>5

\* What can be reached is not forgotten.
LEMMA KeptStays ==
    ASSUME NEW dk \in Disks, NEW ram, NEW q, q \in Reached(dk, ram), Good(dk, q)
    PROVE  Stays(dk, Kept(dk, ram), q)
<1> DEFINE live == { NewestOn(dk, p) : p \in Reached(dk, ram) }
           dk2 == Kept(dk, ram)
<1>1. \A b \in Blocks : dk2[b] = dk[b] \/ dk2[b] = Null
  BY DEF Kept
<1>2. \A b \in Blocks : b \in live => dk2[b] = dk[b]
  BY DEF Kept
<1>3. NewestOn(dk, q) \in live /\ NewestOn(dk, q) \in q /\ q \subseteq Blocks
  BY GoodIs
<1> HIDE DEF live, dk2
<1>4. dk2[NewestOn(dk, q)] = dk[NewestOn(dk, q)]
  BY <1>2, <1>3
<1>5. \A b \in q : dk2[b] = dk[b] \/ dk2[b] = Null
  BY <1>1, <1>3
<1> QED BY <1>4, <1>5, SameBlocks DEF dk2

\* What forgets blocks is still a disk.
LEMMA KeptDisk ==
    ASSUME NEW dk \in Disks, NEW ram
    PROVE  Kept(dk, ram) \in Disks
<1> DEFINE live == { NewestOn(dk, p) : p \in Reached(dk, ram) }
<1>1. Kept(dk, ram) = [b \in Blocks |-> IF b \in live THEN dk[b] ELSE Null]
  BY DEF Kept
<1> HIDE DEF live
<1> QED BY <1>1 DEF Disks

\* The pairs of the list, of the entries and those in ram are reached.
LEMMA ReachedIs ==
    ASSUME NEW dk, NEW m \in Nat, m <= NDirs, NEW E, NEW W, Frame(dk, m, E, W), NEW ram,
           \A r \in ram : Good(dk, r), MDirOn(dk, Root) \in Logs
    PROVE  /\ \A k \in 0..m : W[k] \in Reached(dk, ram) /\ E[k] \in Reached(dk, ram)
           /\ \A r \in ram : r \in Reached(dk, ram)
<1>1. ASSUME NEW p, p # {}, p \in {Root} \cup ram \cup Range(MDirOn(dk, Root).dirs),
             NEW k \in 0..Longest, Walk(dk, p)[k] # {}
      PROVE  Walk(dk, p)[k] \in Reached(dk, ram)
  <2>1. Walk(dk, p)[k] \in Range(Walk(dk, p))
    BY Walks DEF Range
  <2> QED BY <1>1, <2>1 DEF Reached
<1>2. 0 \in 0..Longest /\ \A k \in 0..m : k \in 0..Longest
  BY Consts
<1>3. ASSUME NEW p, p # {}, p \in {Root} \cup ram \cup Range(MDirOn(dk, Root).dirs)
      PROVE  p \in Reached(dk, ram)
  <2>1. Walk(dk, p)[0] = p
    BY Walks
  <2> QED BY <1>1, <1>2, <1>3, <2>1
<1>4. ASSUME NEW k \in 0..m PROVE W[k] \in Reached(dk, ram)
  <2>1. Walk(dk, Root)[k] = W[k]
    BY <1>2, FrameWalk
  <2>2. Good(dk, W[k])
    BY DEF Frame
  <2>3. W[k] # {} /\ Root # {}
    BY <2>2, GoodIs DEF Root
  <2> QED BY <1>1, <1>2, <2>1, <2>3
<1>5. ASSUME NEW k \in 1..m PROVE E[k] \in Reached(dk, ram)
  <2>1. E[k] # {} /\ E[k] = MDirOn(dk, Root).dirs[DirSeq[m + 1 - k]]
    <3>1. k \in 0..m
      BY <1>5
    <3>2. Good(dk, E[k]) /\ E[k] = MDirOn(dk, Root).dirs[DirSeq[m + 1 - k]]
      BY <1>5, <3>1 DEF Frame
    <3> QED BY <3>2, GoodIs
  <2>2. m + 1 - k \in 1..NDirs
    BY Consts
  <2>3. DirSeq[m + 1 - k] \in Dirs
    BY <2>2, Consts
  <2>4. DOMAIN MDirOn(dk, Root).dirs = Dirs
    BY DEF Logs
  <2>5. E[k] \in Range(MDirOn(dk, Root).dirs)
    BY <2>1, <2>3, <2>4 DEF Range
  <2> QED BY <1>3, <2>1, <2>5
<1>6. E[0] = W[0] /\ 0 \in 0..m
  BY DEF Frame
<1>7. \A r \in ram : r # {}
  BY GoodIs
<1>8. ASSUME NEW k \in 0..m PROVE E[k] \in Reached(dk, ram)
  <2>1. k = 0 \/ k \in 1..m
    OBVIOUS
  <2> QED BY <1>4, <1>5, <1>6, <2>1
<1> QED BY <1>3, <1>4, <1>7, <1>8

\* The list, the entries and the pairs in ram survive that the rest is forgotten.
LEMMA Lands ==
    ASSUME NEW dk \in Disks, NEW m \in Nat, m <= NDirs, NEW E, NEW W, Frame(dk, m, E, W),
           NEW ram, \A r \in ram : Good(dk, r)
    PROVE  /\ Kept(dk, ram) \in Disks
           /\ \A k \in 0..m : Stays(dk, Kept(dk, ram), W[k]) /\ Stays(dk, Kept(dk, ram), E[k])
           /\ \A r \in ram : Stays(dk, Kept(dk, ram), r)
           /\ Frame(Kept(dk, ram), m, E, W)
<1> DEFINE dk2 == Kept(dk, ram)
<1>1. MDirOn(dk, Root) \in Logs
  <2>1. Good(dk, Root)
    BY DEF Frame
  <2>2. MDirOn(dk, Root) = dk[NewestOn(dk, Root)] /\ NewestOn(dk, Root) \in Blocks
    BY <2>1, GoodIs
  <2>3. dk[NewestOn(dk, Root)] # Null
    BY <2>1, GoodIs DEF Beats
  <2> QED BY <2>2, <2>3 DEF Disks
<1>2. /\ \A k \in 0..m : W[k] \in Reached(dk, ram) /\ E[k] \in Reached(dk, ram)
      /\ \A r \in ram : r \in Reached(dk, ram)
  BY <1>1, ReachedIs
<1>3. \A k \in 0..m : Stays(dk, dk2, W[k]) /\ Stays(dk, dk2, E[k])
  BY <1>2, KeptStays DEF Frame
<1>4. \A r \in ram : Stays(dk, dk2, r)
  BY <1>2, KeptStays
<1>5. Stays(dk, dk2, Root)
  BY <1>3 DEF Frame
<1>6. Frame(dk2, m, E, W)
  BY <1>3, <1>5 DEF Frame, Stays
<1> QED BY <1>3, <1>4, <1>6, KeptDisk

-----------------------------------------------------------------------------
(* The shape of the tree, and what a commit makes of it                    *)

\* A pair below the root has no entries of directories.
NoDirs(dk, p) == \A d \in Dirs : MDirOn(dk, p).dirs[d] = {}

\* Positions that share a block are the same.
Apart(m, E, W) ==
    \A k, l \in 0..m : (E[k] \cup W[k]) \cap (E[l] \cup W[l]) # {} => k = l

\* What holds at position k: until the break the list has the entry's own pair,
\* behind it one that overlaps, with the same difference; but at the break the
\* entry's tail leads along the entries.
Side(dk, m, b, E, W, k) ==
    /\ k # b => MDirOn(dk, E[k]).tail = After(E, k, m)
    /\ k <= b => W[k] = E[k]
    /\ Same(W[k], E[k])
    /\ MDirOn(dk, W[k]).delta = MDirOn(dk, E[k]).delta
    /\ k > 0 => NoDirs(dk, W[k]) /\ NoDirs(dk, E[k])

\* m directories are linked.  At each position the entries have the pair E[k]
\* and the list has W[k], a copy of it when not the same; the list leaves the
\* entries behind position b.
Shape(dk, m, b, E, W) ==
    /\ dk \in Disks /\ m \in 0..NDirs /\ b \in 0..m
    /\ Frame(dk, m, E, W) /\ Apart(m, E, W)
    /\ \A i \in 1..NDirs : i > m => MDirOn(dk, Root).dirs[DirSeq[i]] = {}
    /\ \A k \in 0..m : Side(dk, m, b, E, W, k)
    /\ b < m => W[b + 1] # E[b + 1]

\* A good pair has contents.
LEMMA GoodLog ==
    ASSUME NEW dk \in Disks, NEW p, Good(dk, p)
    PROVE  MDirOn(dk, p) \in Logs
<1>1. MDirOn(dk, p) = dk[NewestOn(dk, p)] /\ NewestOn(dk, p) \in Blocks
  BY GoodIs
<1>2. dk[NewestOn(dk, p)] # Null
  BY GoodIs DEF Beats
<1> QED BY <1>1, <1>2 DEF Disks

\* What is read of a pair after a write.
LEMMA WroteIs ==
    ASSUME NEW dk, NEW dk1, NEW p, NEW b, NEW c \in Logs, NEW delta,
           Wrote(dk, dk1, p, b, c, delta)
    PROVE  /\ dk1 \in Disks /\ Good(dk1, p) /\ NewestOn(dk1, p) = b
           /\ MDirOn(dk1, p).files = c.files /\ MDirOn(dk1, p).dirs = c.dirs
           /\ MDirOn(dk1, p).tail = c.tail /\ MDirOn(dk1, p).delta = delta
BY DEF Wrote, Logs

\* What the shape says of each pair.
LEMMA ShapeIs ==
    ASSUME NEW dk, NEW m, NEW b, NEW E, NEW W, Shape(dk, m, b, E, W)
    PROVE  /\ dk \in Disks /\ m \in Nat /\ b \in Nat /\ m <= NDirs /\ b <= m
           /\ Frame(dk, m, E, W) /\ Apart(m, E, W)
           /\ 0 \in 0..m /\ E[0] = Root /\ W[0] = Root
           /\ Good(dk, Root) /\ MDirOn(dk, Root) \in Logs
           /\ \A k \in 0..m : /\ Good(dk, E[k]) /\ Good(dk, W[k])
                              /\ E[k] # {} /\ W[k] # {}
                              /\ E[k] \subseteq Blocks /\ W[k] \subseteq Blocks
                              /\ MDirOn(dk, E[k]) \in Logs /\ MDirOn(dk, W[k]) \in Logs
<1>1. dk \in Disks /\ m \in Nat /\ b \in Nat /\ m <= NDirs /\ b <= m
  BY Consts DEF Shape
<1>2. 0 \in 0..m /\ E[0] = Root /\ W[0] = Root
  BY <1>1 DEF Shape, Frame
<1>3. ASSUME NEW k \in 0..m
      PROVE  /\ Good(dk, E[k]) /\ Good(dk, W[k])
             /\ E[k] # {} /\ W[k] # {}
             /\ E[k] \subseteq Blocks /\ W[k] \subseteq Blocks
             /\ MDirOn(dk, E[k]) \in Logs /\ MDirOn(dk, W[k]) \in Logs
  <2>1. Good(dk, E[k]) /\ Good(dk, W[k])
    BY DEF Shape, Frame
  <2> QED BY <1>1, <2>1, GoodIs, GoodLog
<1>4. Good(dk, Root) /\ MDirOn(dk, Root) \in Logs
  BY <1>2, <1>3
<1> QED BY <1>1, <1>2, <1>3, <1>4 DEF Shape

\* A write in one position leaves the pairs of the others.
LEMMA Others ==
    ASSUME NEW dk, NEW dk1, NEW m, NEW b, NEW E, NEW W, Shape(dk, m, b, E, W),
           NEW k \in 0..m, NEW x \in E[k] \cup W[k], NEW c, NEW delta, NEW p,
           Wrote(dk, dk1, p, x, c, delta)
    PROVE  \A l \in 0..m : l # k => Stays(dk, dk1, E[l]) /\ Stays(dk, dk1, W[l])
<1> SUFFICES ASSUME NEW l \in 0..m, l # k PROVE Stays(dk, dk1, E[l]) /\ Stays(dk, dk1, W[l])
  OBVIOUS
<1>1. x \notin E[l] /\ x \notin W[l]
  BY DEF Shape, Apart
<1>2. Good(dk, E[l]) /\ Good(dk, W[l])
  BY ShapeIs
<1> QED BY <1>1, <1>2 DEF Wrote

\* New contents with the same entries and tail leave the shape.
LEMMA Rewrites ==
    ASSUME NEW dk, NEW dk1, NEW m, NEW b, NEW E, NEW W, Shape(dk, m, b, E, W),
           NEW k \in 0..m, W[k] = E[k], NEW x \in E[k], NEW c \in Logs, NEW delta \in SUBSET Marks,
           Wrote(dk, dk1, E[k], x, c, delta),
           c.tail = MDirOn(dk, E[k]).tail, c.dirs = MDirOn(dk, E[k]).dirs
    PROVE  Shape(dk1, m, b, E, W)
<1>1. \A l \in 0..m : l # k => Stays(dk, dk1, E[l]) /\ Stays(dk, dk1, W[l])
  BY Others
<1>2. /\ dk1 \in Disks /\ Good(dk1, E[k]) /\ MDirOn(dk1, E[k]).dirs = MDirOn(dk, E[k]).dirs
      /\ MDirOn(dk1, E[k]).tail = MDirOn(dk, E[k]).tail /\ MDirOn(dk1, E[k]).delta = delta
  BY WroteIs
<1>3. \A l \in 0..m : /\ Good(dk1, E[l]) /\ Good(dk1, W[l])
                      /\ MDirOn(dk1, E[l]).tail = MDirOn(dk, E[l]).tail
                      /\ MDirOn(dk1, W[l]).tail = MDirOn(dk, W[l]).tail
                      /\ MDirOn(dk1, E[l]).dirs = MDirOn(dk, E[l]).dirs
                      /\ MDirOn(dk1, W[l]).dirs = MDirOn(dk, W[l]).dirs
                      /\ l # k => /\ MDirOn(dk1, E[l]).delta = MDirOn(dk, E[l]).delta
                                  /\ MDirOn(dk1, W[l]).delta = MDirOn(dk, W[l]).delta
  BY <1>1, <1>2 DEF Stays
<1>4. MDirOn(dk1, Root).dirs = MDirOn(dk, Root).dirs
  BY <1>3, ShapeIs
<1>5. Frame(dk1, m, E, W)
  BY <1>3, <1>4 DEF Shape, Frame
<1>6. ASSUME NEW l \in 0..m PROVE Side(dk1, m, b, E, W, l)
  <2>1. Side(dk, m, b, E, W, l)
    BY DEF Shape
  <2> QED BY <1>3, <2>1 DEF Side, NoDirs
<1> QED BY <1>2, <1>4, <1>5, <1>6 DEF Shape

\* The new tail at the break brings the list to the entries.
LEMMA Retails ==
    ASSUME NEW dk, NEW dk1, NEW m, NEW b, NEW E, NEW W, Shape(dk, m, b, E, W),
           NEW x \in E[b], NEW c \in Logs, NEW delta \in SUBSET Marks,
           Wrote(dk, dk1, E[b], x, c, delta),
           c.tail = After(E, b, m), c.dirs = MDirOn(dk, E[b]).dirs
    PROVE  Shape(dk1, m, m, E, E)
<1>0. b \in 0..m /\ E[b] = W[b]
  BY ShapeIs DEF Shape, Side
<1>1. \A l \in 0..m : l # b => Stays(dk, dk1, E[l])
  BY <1>0, Others
<1>2. /\ dk1 \in Disks /\ Good(dk1, E[b]) /\ MDirOn(dk1, E[b]).dirs = MDirOn(dk, E[b]).dirs
      /\ MDirOn(dk1, E[b]).tail = After(E, b, m) /\ MDirOn(dk1, E[b]).delta = delta
  BY WroteIs
<1>3. \A l \in 0..m : /\ Good(dk1, E[l])
                      /\ MDirOn(dk1, E[l]).tail = After(E, l, m)
                      /\ MDirOn(dk1, E[l]).dirs = MDirOn(dk, E[l]).dirs
  BY <1>1, <1>2 DEF Stays, Shape, Side
<1>4. MDirOn(dk1, Root).dirs = MDirOn(dk, Root).dirs
  BY <1>3, ShapeIs
<1>5. Frame(dk1, m, E, E)
  BY <1>3, <1>4 DEF Shape, Frame
<1>6. ASSUME NEW l \in 0..m PROVE Side(dk1, m, m, E, E, l)
  <2>1. Side(dk, m, b, E, W, l)
    BY DEF Shape
  <2>2. Same(E[l], E[l])
    BY ShapeIs DEF Same
  <2> QED BY <1>3, <2>1, <2>2 DEF Side, NoDirs
<1>7. Apart(m, E, E)
  BY DEF Shape, Apart
<1> QED BY <1>2, <1>4, <1>5, <1>6, <1>7, ShapeIs DEF Shape

\* A pair that is not in the tree is written.
LEMMA FreshWrite ==
    ASSUME NEW dk, NEW dk1, NEW m, NEW b, NEW E, NEW W, Shape(dk, m, b, E, W),
           NEW p, NEW x, NEW c \in Logs, NEW delta \in SUBSET Marks, Wrote(dk, dk1, p, x, c, delta),
           \A k \in 0..m : x \notin E[k] /\ x \notin W[k]
    PROVE  /\ Shape(dk1, m, b, E, W)
           /\ \A k \in 0..m : Stays(dk, dk1, E[k]) /\ Stays(dk, dk1, W[k])
<1>1. \A l \in 0..m : Stays(dk, dk1, E[l]) /\ Stays(dk, dk1, W[l])
  BY ShapeIs DEF Wrote
<1>2. dk1 \in Disks
  BY DEF Wrote
<1>3. MDirOn(dk1, Root) = MDirOn(dk, Root)
  BY <1>1, ShapeIs DEF Stays
<1>4. Frame(dk1, m, E, W)
  BY <1>1, <1>3 DEF Shape, Frame, Stays
<1>5. ASSUME NEW l \in 0..m PROVE Side(dk1, m, b, E, W, l)
  <2>1. Side(dk, m, b, E, W, l)
    BY DEF Shape
  <2> QED BY <1>1, <2>1 DEF Side, NoDirs, Stays
<1> QED BY <1>1, <1>2, <1>3, <1>4, <1>5 DEF Shape

\* What is not reached is forgotten.
LEMMA Forgets ==
    ASSUME NEW dk, NEW m, NEW b, NEW E, NEW W, Shape(dk, m, b, E, W),
           NEW ram, \A r \in ram : Good(dk, r)
    PROVE  /\ Shape(Kept(dk, ram), m, b, E, W)
           /\ \A k \in 0..m : Stays(dk, Kept(dk, ram), E[k]) /\ Stays(dk, Kept(dk, ram), W[k])
           /\ \A r \in ram : Stays(dk, Kept(dk, ram), r)
<1> DEFINE dk1 == Kept(dk, ram)
<1>1. /\ dk1 \in Disks /\ Frame(dk1, m, E, W)
      /\ \A k \in 0..m : Stays(dk, dk1, E[k]) /\ Stays(dk, dk1, W[k])
      /\ \A r \in ram : Stays(dk, dk1, r)
  BY ShapeIs, Lands
<1> HIDE DEF dk1
<1>2. MDirOn(dk1, Root) = MDirOn(dk, Root)
  BY <1>1, ShapeIs DEF Stays
<1>3. ASSUME NEW l \in 0..m PROVE Side(dk1, m, b, E, W, l)
  <2>1. Side(dk, m, b, E, W, l)
    BY DEF Shape
  <2> QED BY <1>1, <2>1 DEF Side, NoDirs, Stays
<1> QED BY <1>1, <1>2, <1>3 DEF Shape, dk1

\* Without a break, list and entries are the same pairs.
LEMMA Whole ==
    ASSUME NEW dk, NEW m, NEW b, NEW E, NEW W, Shape(dk, m, b, E, W), b = m
    PROVE  W = E
<1>1. \A k \in 0..m : k <= b
  BY ShapeIs
<1>2. \A k \in 0..m : W[k] = E[k]
  BY <1>1 DEF Shape, Side
<1>3. E = [k \in 0..m |-> E[k]] /\ W = [k \in 0..m |-> W[k]]
  BY DEF Shape, Frame
<1> QED BY <1>2, <1>3

\* The entries, counted from either end.
LEMMA Entries ==
    ASSUME NEW dk, NEW m, NEW b, NEW E, NEW W, Shape(dk, m, b, E, W)
    PROVE  /\ \A i \in 1..m : i \in 1..NDirs /\ m + 1 - i \in 1..m /\ MDirOn(dk, Root).dirs[DirSeq[i]] = E[m + 1 - i]
           /\ \A k \in 1..m : /\ m + 1 - k \in 1..m /\ DirSeq[m + 1 - k] \in Dirs
                              /\ E[k] = MDirOn(dk, Root).dirs[DirSeq[m + 1 - k]]
           /\ DOMAIN MDirOn(dk, Root).dirs = Dirs
<1>1. ASSUME NEW i \in 1..m
      PROVE  i \in 1..NDirs /\ m + 1 - i \in 1..m /\ MDirOn(dk, Root).dirs[DirSeq[i]] = E[m + 1 - i]
  <2>1. m \in Nat /\ m <= NDirs /\ NDirs \in Nat
    BY ShapeIs, Consts
  <2>2. i \in 1..NDirs /\ m + 1 - i \in 1..m /\ m + 1 - (m + 1 - i) = i
    BY <2>1
  <2> QED BY <2>2 DEF Shape, Frame
<1>2. ASSUME NEW k \in 1..m
      PROVE  /\ m + 1 - k \in 1..m /\ DirSeq[m + 1 - k] \in Dirs
             /\ E[k] = MDirOn(dk, Root).dirs[DirSeq[m + 1 - k]]
  <2>1. m \in Nat /\ m <= NDirs /\ NDirs \in Nat
    BY ShapeIs, Consts
  <2>2. m + 1 - k \in 1..m /\ m + 1 - k \in 1..NDirs
    BY <2>1
  <2> QED BY <2>2, Consts DEF Shape, Frame
<1>3. DOMAIN MDirOn(dk, Root).dirs = Dirs
  BY ShapeIs DEF Logs
<1> QED BY <1>1, <1>2, <1>3

\* The pair new, a copy of the one at position j, is not yet in the tree.
Moving(dk, m, b, E, W, j, new) ==
    /\ j \in 1..b /\ b \in {j, m}
    /\ Good(dk, new) /\ NewestOn(dk, E[j]) \in new /\ NewestOn(dk, new) \notin E[j]
    /\ \A l \in 0..m : l # j => new \cap (E[l] \cup W[l]) = {}
    /\ MDirOn(dk, new).tail = After(E, j, m) /\ NoDirs(dk, new)
    /\ MDirOn(dk, new).delta = MDirOn(dk, E[j]).delta

\* The entry of a pair that moved is changed: the list leaves the entries before it.
LEMMA Reenters ==
    ASSUME NEW dk, NEW dk1, NEW m, NEW b, NEW E, NEW W, Shape(dk, m, b, E, W),
           NEW j, NEW new, Moving(dk, m, b, E, W, j, new),
           NEW x \in Root, NEW c \in Logs, NEW delta \in SUBSET Marks,
           Wrote(dk, dk1, Root, x, c, delta), c.tail = MDirOn(dk, Root).tail,
           \A d \in Dirs : c.dirs[d] = IF Same(MDirOn(dk, Root).dirs[d], E[j]) THEN new
                                       ELSE MDirOn(dk, Root).dirs[d],
           NEW E1, E1 = [E EXCEPT ![j] = new]
    PROVE  /\ Shape(dk1, m, j - 1, E1, W) /\ Stays(dk, dk1, new)
           /\ \A l \in 0..m : l # 0 => Stays(dk, dk1, E[l]) /\ Stays(dk, dk1, W[l])
<1>0. m \in Nat /\ j \in Nat /\ j - 1 \in 0..m /\ j \in 1..m /\ j \in 0..m /\ j # 0
  BY ShapeIs DEF Moving
<1>1. \A l \in 0..m : l # 0 => Stays(dk, dk1, E[l]) /\ Stays(dk, dk1, W[l])
  <2>1. Root = E[0] /\ 0 \in 0..m
    BY ShapeIs
  <2> QED BY <2>1, Others
<1>2. Stays(dk, dk1, new)
  <2>1. x \notin new
    BY <1>0, ShapeIs DEF Moving
  <2> QED BY <2>1 DEF Wrote, Moving
<1>3. /\ dk1 \in Disks /\ Good(dk1, Root) /\ MDirOn(dk1, Root).dirs = c.dirs
      /\ MDirOn(dk1, Root).tail = MDirOn(dk, Root).tail /\ MDirOn(dk1, Root).delta = delta
  BY WroteIs
<1>4. E1[j] = new /\ \A k \in 0..m : k # j => E1[k] = E[k]
  BY DEF Shape, Frame, Moving
<1>5. E1 \in [0..m -> SUBSET Blocks]
  <2>1. new \in SUBSET Blocks
    BY GoodIs DEF Moving
  <2>2. E \in [0..m -> SUBSET Blocks]
    BY DEF Shape, Frame
  <2> QED BY <2>1, <2>2
<1>6. ASSUME NEW k \in 1..m PROVE E1[k] = MDirOn(dk1, Root).dirs[DirSeq[m + 1 - k]]
  <2>1. E[k] = MDirOn(dk, Root).dirs[DirSeq[m + 1 - k]] /\ DirSeq[m + 1 - k] \in Dirs
    BY Entries
  <2>2. k \in 0..m
    OBVIOUS
  <2>3. Same(E[k], E[j]) <=> k = j
    BY <1>0, <2>2, ShapeIs DEF Same, Apart
  <2> QED BY <1>3, <1>4, <2>1, <2>2, <2>3
<1>7. Frame(dk1, m, E1, W)
  <2>1. E1[0] = Root /\ W[0] = Root
    BY <1>0, <1>4, ShapeIs
  <2>2. ASSUME NEW k \in 0..m
        PROVE Good(dk1, W[k]) /\ Good(dk1, E1[k]) /\ MDirOn(dk1, W[k]).tail = After(W, k, m)
    <3>1. MDirOn(dk, W[k]).tail = After(W, k, m)
      BY DEF Shape, Frame
    <3>2. CASE k = 0
      BY <1>3, <2>1, <3>1, <3>2
    <3>3. CASE k # 0
      BY <1>1, <1>2, <1>4, <3>1, <3>3 DEF Stays
    <3> QED BY <3>2, <3>3
  <2> QED BY <1>5, <1>6, <2>1, <2>2 DEF Shape, Frame
<1>8. Apart(m, E1, W)
  <2> SUFFICES ASSUME NEW k \in 0..m, NEW l \in 0..m, k # l
               PROVE  (E1[k] \cup W[k]) \cap (E1[l] \cup W[l]) = {}
    BY Zenon DEF Apart
  <2>1. (E[k] \cup W[k]) \cap (E[l] \cup W[l]) = {}
    BY DEF Shape, Apart
  <2>2. k # j => new \cap (E[k] \cup W[k]) = {}
    BY DEF Moving
  <2>3. l # j => new \cap (E[l] \cup W[l]) = {}
    BY DEF Moving
  <2> QED BY <1>4, <2>1, <2>2, <2>3
<1>9. ASSUME NEW k \in 0..m PROVE Side(dk1, m, j - 1, E1, W, k)
  <2>1. Side(dk, m, b, E, W, k)
    BY DEF Shape
  <2>2. b \in Nat /\ b <= m /\ j <= b
    BY ShapeIs DEF Moving
  <2>3. W[j] = E[j]
    BY <1>0, <2>2 DEF Shape, Side
  <2>4. k # j - 1 => MDirOn(dk1, E1[k]).tail = After(E1, k, m)
    <3> SUFFICES ASSUME k # j - 1 PROVE MDirOn(dk1, E1[k]).tail = After(E1, k, m)
      OBVIOUS
    <3>1. After(E1, k, m) = After(E, k, m)
      <4>1. k < m => k + 1 \in 0..m /\ k + 1 # j
        BY <1>0
      <4> QED BY <1>4, <4>1 DEF After
    <3>2. CASE k = j
      BY <1>2, <1>4, <3>1, <3>2 DEF Moving, Stays
    <3>3. CASE k # j /\ k # b
      <4>1. MDirOn(dk1, E[k]).tail = MDirOn(dk, E[k]).tail
        <5>1. CASE k = 0
          BY <1>3, <5>1, ShapeIs
        <5>2. CASE k # 0
          BY <1>1, <5>2 DEF Stays
        <5> QED BY <5>1, <5>2
      <4> QED BY <1>4, <2>1, <3>1, <3>3, <4>1 DEF Side
    <3>4. CASE k # j /\ k = b
      <4>1. b = m /\ k = m /\ k # 0
        BY <1>0, <3>4 DEF Moving
      <4>2. W[k] = E[k] /\ MDirOn(dk, W[k]).tail = After(W, k, m)
        BY <2>1, <2>2, <3>4 DEF Side, Shape, Frame
      <4>3. MDirOn(dk1, E[k]).tail = {}
        BY <1>1, <4>1, <4>2 DEF Stays, After
      <4>4. E1[k] = E[k] /\ After(E1, k, m) = {}
        BY <1>0, <1>4, <3>4, <4>1 DEF After
      <4> QED BY <4>3, <4>4
    <3> QED BY <3>2, <3>3, <3>4
  <2>5. k <= j - 1 => W[k] = E1[k]
    BY <1>0, <1>4, <2>1, <2>2 DEF Side
  <2>6. Same(W[k], E1[k])
    <3>1. CASE k = j
      BY <1>4, <2>3, <3>1, ShapeIs, GoodIs DEF Same, Moving
    <3>2. CASE k # j
      BY <1>4, <2>1, <3>2 DEF Side
    <3> QED BY <3>1, <3>2
  <2>7. MDirOn(dk1, W[k]).delta = MDirOn(dk1, E1[k]).delta
    <3>1. CASE k = 0
      BY <1>0, <1>4, <3>1, ShapeIs
    <3>2. CASE k = j
      BY <1>0, <1>1, <1>2, <1>4, <2>3, <3>2 DEF Moving, Stays
    <3>3. CASE k # j /\ k # 0
      BY <1>1, <1>4, <2>1, <3>3 DEF Side, Stays
    <3> QED BY <3>1, <3>2, <3>3
  <2>8. k > 0 => NoDirs(dk1, W[k]) /\ NoDirs(dk1, E1[k])
    <3> SUFFICES ASSUME k > 0 PROVE NoDirs(dk1, W[k]) /\ NoDirs(dk1, E1[k])
      OBVIOUS
    <3>1. k # 0
      OBVIOUS
    <3> QED BY <1>1, <1>2, <1>4, <2>1, <3>1 DEF Side, Moving, NoDirs, Stays
  <2> QED BY <2>4, <2>5, <2>6, <2>7, <2>8 DEF Side
<1>10. \A i \in 1..NDirs : i > m => MDirOn(dk1, Root).dirs[DirSeq[i]] = {}
  BY <1>3, Consts DEF Shape, Same
<1>11. W[j] # E1[j]
  <2>1. W[j] = E[j]
    BY <1>0 DEF Shape, Side, Moving
  <2> QED BY <1>4, <2>1, GoodIs DEF Moving
<1>12. (j - 1) + 1 = j /\ m \in 0..NDirs
  BY <1>0 DEF Shape
<1>13. Shape(dk1, m, j - 1, E1, W)
  BY <1>0, <1>3, <1>7, <1>8, <1>9, <1>10, <1>11, <1>12 DEF Shape
<1> QED BY <1>1, <1>2, <1>13

\* A pair that holds a new directory, the contents of the root that link it,
\* and the pairs with it.
Unlinked(dk, m, E, new) ==
    /\ Good(dk, new) /\ NoDirs(dk, new) /\ MDirOn(dk, new).tail = MDirOn(dk, Root).tail
    /\ \A k \in 0..m : new \cap E[k] = {}
Links(dk, m, c, new) ==
    c.tail = new /\ c.dirs = [MDirOn(dk, Root).dirs EXCEPT ![DirSeq[m + 1]] = new]
Joined(m, E, new, E1) ==
    E1 = [k \in 0..(m + 1) |-> IF k = 0 THEN Root ELSE IF k = 1 THEN new ELSE E[k - 1]]


\* The root learns of a new pair as its entry and its tail at once.
LEMMA Enters ==
    ASSUME NEW dk, NEW dk1, NEW m, NEW E, Shape(dk, m, m, E, E), m < NDirs,
           NEW new, Unlinked(dk, m, E, new),
           NEW x \in Root, NEW c \in Logs, NEW delta \in SUBSET Marks,
           Wrote(dk, dk1, Root, x, c, delta), Links(dk, m, c, new),
           NEW E1, Joined(m, E, new, E1)
    PROVE  /\ Shape(dk1, m + 1, m + 1, E1, E1) /\ Stays(dk, dk1, new)
           /\ \A l \in 0..m : l # 0 => Stays(dk, dk1, E[l])
<1> /\ Good(dk, new) /\ NoDirs(dk, new) /\ MDirOn(dk, new).tail = MDirOn(dk, Root).tail
    /\ \A k \in 0..m : new \cap E[k] = {}
  BY DEF Unlinked
<1> c.tail = new /\ c.dirs = [MDirOn(dk, Root).dirs EXCEPT ![DirSeq[m + 1]] = new]
  BY DEF Links
<1> E1 = [k \in 0..(m + 1) |-> IF k = 0 THEN Root ELSE IF k = 1 THEN new ELSE E[k - 1]]
  BY DEF Joined
<1>0. m \in Nat /\ m + 1 \in 0..NDirs /\ m + 1 \in 1..NDirs /\ NDirs \in Nat
  BY ShapeIs, Consts
<1>1. \A l \in 0..m : l # 0 => Stays(dk, dk1, E[l])
  <2>1. x \in E[0] /\ 0 \in 0..m
    BY ShapeIs
  <2>2. \A l \in 0..m : l # 0 => x \notin E[l] /\ Good(dk, E[l])
    BY <2>1, ShapeIs DEF Apart
  <2> QED BY <2>2 DEF Wrote
<1>2. Stays(dk, dk1, new)
  <2>1. x \notin new
    BY <1>0, ShapeIs
  <2> QED BY <2>1 DEF Wrote
<1>3. /\ dk1 \in Disks /\ Good(dk1, Root) /\ MDirOn(dk1, Root).dirs = c.dirs
      /\ MDirOn(dk1, Root).tail = new /\ MDirOn(dk1, Root).delta = delta
  BY WroteIs
<1>4. E1[0] = Root /\ E1[1] = new /\ \A k \in 2..(m + 1) : E1[k] = E[k - 1] /\ k - 1 \in 1..m
  BY <1>0
<1>5. \A k \in 0..(m + 1) : k = 0 \/ k = 1 \/ k \in 2..(m + 1)
  BY <1>0
<1>6. \A d \in Dirs : MDirOn(dk1, Root).dirs[d] = IF d = DirSeq[m + 1] THEN new
                                                   ELSE MDirOn(dk, Root).dirs[d]
  BY <1>3, Entries
<1>7. ASSUME NEW k \in 1..(m + 1) PROVE E1[k] = MDirOn(dk1, Root).dirs[DirSeq[(m + 1) + 1 - k]]
  <2>1. (m + 1) + 1 - k \in 1..NDirs /\ DirSeq[(m + 1) + 1 - k] \in Dirs
    BY <1>0, Consts
  <2>2. DirSeq[(m + 1) + 1 - k] = DirSeq[m + 1] <=> k = 1
    BY <1>0, <2>1, Consts
  <2>3. CASE k = 1
    BY <1>4, <1>6, <2>1, <2>2, <2>3
  <2>4. CASE k # 1
    <3>1. k \in 2..(m + 1) /\ k - 1 \in 1..m /\ m + 1 - (k - 1) = (m + 1) + 1 - k
      BY <1>0, <2>4
    <3>2. E[k - 1] = MDirOn(dk, Root).dirs[DirSeq[m + 1 - (k - 1)]]
      BY <3>1, Entries
    <3> QED BY <1>4, <1>6, <2>1, <2>2, <2>4, <3>1, <3>2
  <2> QED BY <2>3, <2>4
<1>8. E1 \in [0..(m + 1) -> SUBSET Blocks]
  <2>1. \A k \in 0..m : E[k] \in SUBSET Blocks
    BY ShapeIs
  <2>2. new \in SUBSET Blocks /\ Root \in SUBSET Blocks
    BY GoodIs, Consts
  <2>3. \A k \in 0..(m + 1) : k # 0 /\ k # 1 => k - 1 \in 0..m
    BY <1>0
  <2> QED BY <2>1, <2>2, <2>3
<1>9. ASSUME NEW k \in 0..(m + 1)
      PROVE  /\ Good(dk1, E1[k]) /\ MDirOn(dk1, E1[k]).tail = After(E1, k, m + 1)
             /\ k > 0 => NoDirs(dk1, E1[k])
  <2>1. CASE k = 0
    BY <1>0, <1>3, <1>4, <2>1 DEF After
  <2>2. CASE k = 1
    <3>1. MDirOn(dk, Root).tail = After(E, 0, m)
      BY ShapeIs DEF Shape, Frame
    <3>2. After(E, 0, m) = After(E1, 1, m + 1)
      <4>1. 0 < m => 2 \in 2..(m + 1) /\ 2 - 1 = 1
        BY <1>0
      <4> QED BY <1>0, <1>4, <4>1 DEF After
    <3> QED BY <1>2, <1>4, <2>2, <3>1, <3>2 DEF Stays, NoDirs
  <2>3. CASE k \in 2..(m + 1)
    <3>1. k - 1 \in 0..m /\ k - 1 # 0 /\ k - 1 > 0 /\ E1[k] = E[k - 1]
      BY <1>0, <1>4, <2>3
    <3>2. MDirOn(dk, E[k - 1]).tail = After(E, k - 1, m) /\ NoDirs(dk, E[k - 1])
      BY <3>1 DEF Shape, Frame, Side
    <3>3. After(E, k - 1, m) = After(E1, k, m + 1)
      <4>1. k < m + 1 <=> k - 1 < m
        BY <1>0
      <4>2. k < m + 1 => k + 1 \in 2..(m + 1) /\ (k + 1) - 1 = (k - 1) + 1
        BY <1>0, <2>3
      <4>3. k < m + 1 => E1[k + 1] = E[(k - 1) + 1]
        BY <1>4, <4>2
      <4> QED BY <4>1, <4>3 DEF After
    <3> QED BY <1>1, <3>1, <3>2, <3>3 DEF Stays, NoDirs
  <2> QED BY <1>5, <2>1, <2>2, <2>3
<1>10. Frame(dk1, m + 1, E1, E1)
  BY <1>4, <1>7, <1>8, <1>9 DEF Frame
<1>11. Apart(m + 1, E1, E1)
  <2> SUFFICES ASSUME NEW k \in 0..(m + 1), NEW l \in 0..(m + 1), k # l
               PROVE  E1[k] \cap E1[l] = {}
    BY Zenon DEF Apart
  <2>1. \A i, j \in 0..m : i # j => E[i] \cap E[j] = {}
    BY DEF Shape, Apart
  <2>2. Root = E[0] /\ 0 \in 0..m
    BY ShapeIs
  <2>3. \A i \in 1..m : i \in 0..m /\ i # 0
    BY <1>0
  <2>4. CASE k = 1 \/ l = 1
    BY <1>4, <1>5, <2>2, <2>3, <2>4
  <2>5. CASE k # 1 /\ l # 1
    <3> DEFINE pos(i) == IF i = 0 THEN 0 ELSE i - 1
    <3>1. /\ pos(k) \in 0..m /\ E1[k] = E[pos(k)]
          /\ pos(l) \in 0..m /\ E1[l] = E[pos(l)]
      BY <1>4, <1>5, <2>2, <2>3, <2>5
    <3>2. pos(k) # pos(l)
      BY <1>0, <2>5
    <3> HIDE DEF pos
    <3> QED BY <2>1, <3>1, <3>2
  <2> QED BY <2>4, <2>5
<1>12. ASSUME NEW k \in 0..(m + 1) PROVE Side(dk1, m + 1, m + 1, E1, E1, k)
  <2>1. Same(E1[k], E1[k])
    BY <1>9, GoodIs DEF Same
  <2> QED BY <1>9, <2>1 DEF Side
<1>13. \A i \in 1..NDirs : i > m + 1 => MDirOn(dk1, Root).dirs[DirSeq[i]] = {}
  <2> SUFFICES ASSUME NEW i \in 1..NDirs, i > m + 1 PROVE MDirOn(dk1, Root).dirs[DirSeq[i]] = {}
    OBVIOUS
  <2>1. DirSeq[i] # DirSeq[m + 1] /\ DirSeq[i] \in Dirs /\ i > m
    BY <1>0, Consts
  <2> QED BY <1>6, <2>1 DEF Shape
<1>14. m + 1 \in 0..(m + 1)
  BY <1>0
<1>15. Shape(dk1, m + 1, m + 1, E1, E1)
  <2>1. PICK l : l = m + 1
    OBVIOUS
  <2>2. dk1 \in Disks /\ l \in 0..NDirs /\ l \in 0..l
    BY <1>0, <1>3, <1>14, <2>1
  <2>3. /\ Frame(dk1, l, E1, E1) /\ Apart(l, E1, E1)
        /\ \A i \in 1..NDirs : i > l => MDirOn(dk1, Root).dirs[DirSeq[i]] = {}
        /\ \A k \in 0..l : Side(dk1, l, l, E1, E1, k)
    BY <1>10, <1>11, <1>12, <1>13, <2>1
  <2>4. ~(l < l)
    BY <2>2, Consts
  <2>5. Shape(dk1, l, l, E1, E1)
    BY <2>2, <2>3, <2>4 DEF Shape
  <2> QED BY <2>1, <2>5
<1> QED BY <1>1, <1>2, <1>15

-----------------------------------------------------------------------------
(* The global state as a sum                                               *)

\* An odd number of the sets D[s] has g.
Odd(D, S, g) == Cardinality({ s \in S : g \in D[s] }) % 2 = 1

\* Every other number is odd.
LEMMA OddNext ==
    ASSUME NEW n \in Nat
    PROVE  (n + 1) % 2 = 1 <=> ~(n % 2 = 1)
OBVIOUS

\* A mark that counts is in one of the sets.
LEMMA OddIn ==
    ASSUME NEW D, NEW S, NEW g, Odd(D, S, g)
    PROVE  \E s \in S : g \in D[s]
<1> SUFFICES ASSUME ~ \E s \in S : g \in D[s] PROVE FALSE
  OBVIOUS
<1>1. { s \in S : g \in D[s] } = {}
  OBVIOUS
<1>2. Cardinality({ s \in S : g \in D[s] }) = 0
  BY <1>1, FS_EmptySet
<1> QED BY <1>2 DEF Odd

\* The same sets give the same sum.
LEMMA OddSame ==
    ASSUME NEW D, NEW D1, NEW S, NEW g, \A s \in S : D1[s] = D[s]
    PROVE  Odd(D1, S, g) <=> Odd(D, S, g)
<1>1. { s \in S : g \in D1[s] } = { s \in S : g \in D[s] }
  OBVIOUS
<1> QED BY <1>1 DEF Odd

\* One set more.
LEMMA OddMore ==
    ASSUME NEW D, NEW S, IsFiniteSet(S), NEW x, x \notin S, NEW g
    PROVE  Odd(D, S \cup {x}, g) <=> ~(Odd(D, S, g) <=> g \in D[x])
<1> DEFINE A == { s \in S : g \in D[s] }
           B == { s \in S \cup {x} : g \in D[s] }
<1>1. IsFiniteSet(A) /\ Cardinality(A) \in Nat /\ x \notin A
  <2>1. A \in SUBSET S /\ x \notin A
    OBVIOUS
  <2> HIDE DEF A
  <2> QED BY <2>1, FS_Subset, FS_CardinalityType
<1>2. CASE g \in D[x]
  <2>1. B = A \cup {x}
    BY <1>2
  <2> HIDE DEF A, B
  <2>2. Cardinality(B) = Cardinality(A) + 1
    BY <1>1, <2>1, FS_AddElement
  <2>3. (Cardinality(A) + 1) % 2 = 1 <=> ~(Cardinality(A) % 2 = 1)
    BY <1>1, OddNext
  <2> QED BY <1>2, <2>2, <2>3 DEF Odd, A, B
<1>3. CASE g \notin D[x]
  <2>1. B = A
    BY <1>3
  <2> QED BY <1>3, <2>1 DEF Odd
<1> QED BY <1>2, <1>3

\* One set changed.
LEMMA OddXor ==
    ASSUME NEW D, NEW D1, NEW S, IsFiniteSet(S), NEW x \in S, NEW g,
           \A s \in S : s # x => D1[s] = D[s]
    PROVE  (Odd(D1, S, g) <=> Odd(D, S, g)) <=> (g \in D1[x] <=> g \in D[x])
<1> DEFINE T == S \ {x}
<1>1. IsFiniteSet(T) /\ T \cup {x} = S /\ x \notin T /\ \A s \in T : D1[s] = D[s]
  <2>1. IsFiniteSet(T)
    BY FS_RemoveElement
  <2> QED BY <2>1
<1> HIDE DEF T
<1>2. Odd(D, S, g) <=> ~(Odd(D, T, g) <=> g \in D[x])
  BY <1>1, OddMore
<1>3. Odd(D1, S, g) <=> ~(Odd(D1, T, g) <=> g \in D1[x])
  BY <1>1, OddMore
<1>4. Odd(D1, T, g) <=> Odd(D, T, g)
  BY <1>1, OddSame
<1> QED BY <1>2, <1>3, <1>4

\* The same sets under other names.
LEMMA OddMap ==
    ASSUME NEW D, NEW D1, NEW S, IsFiniteSet(S), NEW f, NEW g,
           \A s, t \in S : f[s] = f[t] => s = t, \A s \in S : D1[f[s]] = D[s],
           NEW T, \A s \in S : f[s] \in T, \A t \in T : \E s \in S : f[s] = t
    PROVE  Odd(D1, T, g) <=> Odd(D, S, g)
<1> DEFINE A == { s \in S : g \in D[s] }
           B == { t \in T : g \in D1[t] }
           h == [s \in A |-> f[s]]
<1>1. IsFiniteSet(A)
  <2>1. A \in SUBSET S
    OBVIOUS
  <2> HIDE DEF A
  <2> QED BY <2>1, FS_Subset
<1>2. h \in [A -> B]
  OBVIOUS
<1>3. \A s, t \in A : h[s] = h[t] => s = t
  OBVIOUS
<1>4. \A t \in B : \E s \in A : h[s] = t
  <2> SUFFICES ASSUME NEW t \in B PROVE \E s \in A : h[s] = t
    OBVIOUS
  <2>1. PICK s \in S : t = f[s]
    OBVIOUS
  <2>2. s \in A
    BY <2>1
  <2> QED BY <2>1, <2>2
<1> HIDE DEF A, B, h
<1>5. h \in Bijection(A, B)
  BY <1>2, <1>3, <1>4 DEF Bijection, Injection, Surjection, IsInjective
<1>6. Cardinality(B) = Cardinality(A)
  BY <1>1, <1>5, FS_Bijection DEF ExistsBijection
<1> QED BY <1>6 DEF Odd, A, B

\* The differences along the list.
Deltas(dk, m, W) == [k \in 0..m |-> MDirOn(dk, W[k]).delta]

\* Positions are finitely many.
LEMMA Span ==
    ASSUME NEW m \in Nat
    PROVE  IsFiniteSet(0..m)
BY FS_Interval

\* The global state is the sum over the positions of the list.
LEMMA GStateIs ==
    ASSUME NEW dk, NEW m, NEW b, NEW E, NEW W, Shape(dk, m, b, E, W), NEW g
    PROVE  g \in GStateOn(dk) <=> Odd(Deltas(dk, m, W), 0..m, g)
<1> DEFINE S == { W[k] : k \in 0..m }
           P == [p \in S |-> MDirOn(dk, p).delta]
           D == Deltas(dk, m, W)
<1>1. ListOn(dk) = S /\ m \in Nat
  <2>1. Frame(dk, m, E, W) /\ m \in Nat /\ m <= NDirs
    BY ShapeIs
  <2> HIDE DEF S
  <2>2. ListOn(dk) = { W[k] : k \in 0..m }
    BY <2>1, FrameIs
  <2> QED BY <2>1, <2>2 DEF S
<1>2. \A k, l \in 0..m : W[k] = W[l] => k = l
  <2> SUFFICES ASSUME NEW k \in 0..m, NEW l \in 0..m, W[k] = W[l] PROVE k = l
    OBVIOUS
  <2>1. W[k] # {} /\ Apart(m, E, W)
    BY ShapeIs
  <2>2. (E[k] \cup W[k]) \cap (E[l] \cup W[l]) # {}
    BY <2>1
  <2> QED BY <2>1, <2>2 DEF Apart
<1>3. \A k \in 0..m : P[W[k]] = D[k]
  BY DEF Deltas
<1>4. \A p \in S : P[p] = MDirOn(dk, p).delta
  OBVIOUS
<1>5. GStateOn(dk) = { x \in UNION { MDirOn(dk, p).delta : p \in S } :
                         Cardinality({ p \in S : x \in MDirOn(dk, p).delta }) % 2 = 1 }
  BY <1>1 DEF GStateOn
<1> HIDE DEF P, D
<1>6. Odd(P, S, g) <=> Odd(D, 0..m, g)
  <2>1. IsFiniteSet(0..m)
    BY <1>1, Span
  <2>2. \A k \in 0..m : W[k] \in S
    OBVIOUS
  <2>3. \A p \in S : \E k \in 0..m : W[k] = p
    OBVIOUS
  <2> DEFINE K == 0..m
  <2>4. IsFiniteSet(K) /\ (\A k, l \in K : W[k] = W[l] => k = l) /\ \A k \in K : P[W[k]] = D[k]
    BY <1>2, <1>3, <2>1
  <2>5. (\A k \in K : W[k] \in S) /\ \A p \in S : \E k \in K : W[k] = p
    BY <2>2, <2>3
  <2> HIDE DEF S, K
  <2>6. Odd(P, S, g) <=> Odd(D, K, g)
    BY <2>4, <2>5, OddMap
  <2> QED BY <2>6 DEF K
<1> HIDE DEF S
<1>7. { p \in S : g \in MDirOn(dk, p).delta } = { p \in S : g \in P[p] }
  BY <1>4
<1>8. g \in GStateOn(dk) <=> g \in UNION { MDirOn(dk, p).delta : p \in S } /\ Odd(P, S, g)
  BY <1>5, <1>7 DEF Odd
<1>9. Odd(P, S, g) => g \in UNION { MDirOn(dk, p).delta : p \in S }
  <2> SUFFICES ASSUME Odd(P, S, g) PROVE g \in UNION { MDirOn(dk, p).delta : p \in S }
    OBVIOUS
  <2>1. PICK p \in S : g \in P[p]
    BY OddIn
  <2> QED BY <1>4, <2>1
<1> QED BY <1>6, <1>8, <1>9 DEF D

\* The sum has marks only.
LEMMA GStateMarks ==
    ASSUME NEW dk, NEW m, NEW b, NEW E, NEW W, Shape(dk, m, b, E, W)
    PROVE  GStateOn(dk) \subseteq Marks
<1> SUFFICES ASSUME NEW g \in GStateOn(dk) PROVE g \in Marks
  OBVIOUS
<1>1. PICK k \in 0..m : g \in Deltas(dk, m, W)[k]
  BY GStateIs, OddIn
<1>2. g \in MDirOn(dk, W[k]).delta /\ MDirOn(dk, W[k]) \in Logs
  BY <1>1, ShapeIs DEF Deltas
<1> QED BY <1>2 DEF Logs

\* A commit that changes no difference leaves the sum.
LEMMA GStateSame ==
    ASSUME NEW dk, NEW dk1, NEW m, NEW b, NEW E, NEW W, Shape(dk, m, b, E, W),
           NEW b1, NEW E1, NEW W1, Shape(dk1, m, b1, E1, W1),
           \A k \in 0..m : MDirOn(dk1, W1[k]).delta = MDirOn(dk, W[k]).delta
    PROVE  GStateOn(dk1) = GStateOn(dk)
<1>1. \A k \in 0..m : Deltas(dk1, m, W1)[k] = Deltas(dk, m, W)[k]
  BY DEF Deltas
<1>2. \A g : g \in GStateOn(dk1) <=> g \in GStateOn(dk)
  <2> SUFFICES ASSUME NEW g PROVE g \in GStateOn(dk1) <=> g \in GStateOn(dk)
    OBVIOUS
  <2>1. Odd(Deltas(dk1, m, W1), 0..m, g) <=> Odd(Deltas(dk, m, W), 0..m, g)
    BY <1>1, OddSame
  <2> QED BY <2>1, GStateIs
<1> QED BY <1>2

\* One that adds X in one pair adds it to the sum.
LEMMA GStateXor ==
    ASSUME NEW dk, NEW dk1, NEW m, NEW b, NEW E, NEW W, Shape(dk, m, b, E, W),
           NEW b1, NEW E1, NEW W1, Shape(dk1, m, b1, E1, W1), NEW x \in 0..m, NEW X,
           \A k \in 0..m : k # x => MDirOn(dk1, W1[k]).delta = MDirOn(dk, W[k]).delta,
           MDirOn(dk1, W1[x]).delta = Xor(MDirOn(dk, W[x]).delta, X)
    PROVE  GStateOn(dk1) = Xor(GStateOn(dk), X)
<1> DEFINE D == Deltas(dk, m, W)
           D1 == Deltas(dk1, m, W1)
<1>1. \A k \in 0..m : k # x => D1[k] = D[k]
  BY DEF Deltas
<1>2. D1[x] = Xor(D[x], X)
  BY DEF Deltas
<1>3. IsFiniteSet(0..m)
  BY ShapeIs, Span
<1> HIDE DEF D, D1
<1>4. \A g : g \in GStateOn(dk1) <=> ~(g \in GStateOn(dk) <=> g \in X)
  <2> SUFFICES ASSUME NEW g PROVE g \in GStateOn(dk1) <=> ~(g \in GStateOn(dk) <=> g \in X)
    OBVIOUS
  <2> DEFINE K == 0..m
  <2>4. x \in K /\ IsFiniteSet(K) /\ \A k \in K : k # x => D1[k] = D[k]
    BY <1>1, <1>3
  <2> HIDE DEF K
  <2>1. Odd(D1, K, g) <=> ~(Odd(D, K, g) <=> g \in X)
    <3>1. g \in D1[x] <=> ~(g \in D[x] <=> g \in X)
      BY <1>2 DEF Xor
    <3>2. (Odd(D1, K, g) <=> Odd(D, K, g)) <=> (g \in D1[x] <=> g \in D[x])
      BY <2>4, OddXor
    <3> QED BY <3>1, <3>2
  <2>2. g \in GStateOn(dk1) <=> Odd(D1, 0..m, g)
    BY GStateIs DEF D1
  <2>3. g \in GStateOn(dk) <=> Odd(D, 0..m, g)
    BY GStateIs DEF D
  <2> QED BY <2>1, <2>2, <2>3 DEF K
<1> QED BY <1>4 DEF Xor

\* A pair that enters the list adds its difference.
LEMMA GStateEnter ==
    ASSUME NEW dk, NEW dk1, NEW m, NEW E, Shape(dk, m, m, E, E),
           NEW E1, Shape(dk1, m + 1, m + 1, E1, E1), NEW new,
           E1 = [k \in 0..(m + 1) |-> IF k = 0 THEN Root ELSE IF k = 1 THEN new ELSE E[k - 1]],
           \A k \in 0..m : k # 0 => MDirOn(dk1, E[k]).delta = MDirOn(dk, E[k]).delta,
           MDirOn(dk1, Root).delta = MDirOn(dk, Root).delta
    PROVE  GStateOn(dk1) = Xor(GStateOn(dk), MDirOn(dk1, new).delta)
<1> DEFINE D == Deltas(dk, m, E)
           D1 == Deltas(dk1, m + 1, E1)
           f == [k \in 0..m |-> IF k = 0 THEN 0 ELSE k + 1]
           T == { f[k] : k \in 0..m }
<1>1. m \in Nat /\ IsFiniteSet(0..m) /\ IsFiniteSet(T) /\ E[0] = Root
  <2>1. m \in Nat /\ IsFiniteSet(0..(m + 1)) /\ IsFiniteSet(0..m) /\ E[0] = Root
    BY ShapeIs, Span
  <2>2. T \in SUBSET (0..(m + 1))
    BY <2>1
  <2> HIDE DEF T
  <2> QED BY <2>1, <2>2, FS_Subset
<1>2. 0..(m + 1) = T \cup {1} /\ 1 \notin T
  <2>1. ASSUME NEW l \in 0..(m + 1), l # 1 PROVE l \in T
    <3>1. CASE l = 0
      <4>1. 0 \in 0..m /\ f[0] = l
        BY <1>1, <3>1
      <4> QED BY <4>1
    <3>2. CASE l # 0
      <4>1. l - 1 \in 0..m /\ l - 1 # 0 /\ (l - 1) + 1 = l
        BY <1>1, <2>1, <3>2
      <4>2. f[l - 1] = l
        BY <4>1
      <4> QED BY <4>1, <4>2
    <3> QED BY <3>1, <3>2
  <2>2. \A k \in 0..m : f[k] \in 0..(m + 1) /\ f[k] # 1
    BY <1>1
  <2>3. 1 \in 0..(m + 1)
    BY <1>1
  <2> HIDE DEF f
  <2> QED BY <2>1, <2>2, <2>3
<1>3. \A k, l \in 0..m : f[k] = f[l] => k = l
  BY <1>1
<1>4. \A k \in 0..m : D1[f[k]] = D[k]
  <2> SUFFICES ASSUME NEW k \in 0..m PROVE D1[f[k]] = D[k]
    OBVIOUS
  <2>1. CASE k = 0
    <3>1. f[k] = 0 /\ 0 \in 0..(m + 1) /\ E1[0] = Root
      BY <1>1, <2>1
    <3> QED BY <1>1, <2>1, <3>1 DEF Deltas
  <2>2. CASE k # 0
    <3>1. f[k] = k + 1 /\ k + 1 \in 0..(m + 1) /\ k + 1 # 0 /\ k + 1 # 1 /\ (k + 1) - 1 = k
      BY <1>1, <2>2
    <3>2. E1[k + 1] = E[k]
      BY <3>1
    <3> QED BY <2>2, <3>1, <3>2 DEF Deltas
  <2> QED BY <2>1, <2>2
<1>5. D1[1] = MDirOn(dk1, new).delta
  <2>1. 1 \in 0..(m + 1) /\ E1[1] = new
    BY <1>1
  <2> QED BY <2>1 DEF Deltas
<1> HIDE DEF D, D1, f
<1>6. \A g : g \in GStateOn(dk1) <=> ~(g \in GStateOn(dk) <=> g \in MDirOn(dk1, new).delta)
  <2> SUFFICES ASSUME NEW g
               PROVE  g \in GStateOn(dk1) <=> ~(g \in GStateOn(dk) <=> g \in MDirOn(dk1, new).delta)
    OBVIOUS
  <2> DEFINE K == 0..m
  <2>5. IsFiniteSet(K) /\ (\A k, l \in K : f[k] = f[l] => k = l) /\ \A k \in K : D1[f[k]] = D[k]
    BY <1>1, <1>3, <1>4
  <2>6. (\A k \in K : f[k] \in T) /\ \A t \in T : \E k \in K : f[k] = t
    OBVIOUS
  <2> HIDE DEF T, K
  <2>1. Odd(D1, T, g) <=> Odd(D, K, g)
    BY <2>5, <2>6, OddMap
  <2>2. Odd(D1, T \cup {1}, g) <=> ~(Odd(D1, T, g) <=> g \in D1[1])
    BY <1>1, <1>2, OddMore, Zenon
  <2>3. g \in GStateOn(dk1) <=> Odd(D1, 0..(m + 1), g)
    BY GStateIs DEF D1
  <2>4. g \in GStateOn(dk) <=> Odd(D, 0..m, g)
    BY GStateIs DEF D
  <2> QED BY <1>2, <1>5, <2>1, <2>2, <2>3, <2>4 DEF K
<1> QED BY <1>6 DEF Xor

-----------------------------------------------------------------------------
(* What a program finds                                                    *)

\* Where a directory is in the order of fs_init, and its position (-1: not made).
Index(d) == CHOOSE i \in 1..NDirs : DirSeq[i] = d
Pos(m, d) == IF d = Here THEN 0 ELSE IF Index(d) <= m THEN m + 1 - Index(d) ELSE -1

\* A directory has its position, or none while it is not made.
LEMMA PosIs ==
    ASSUME NEW m \in 0..NDirs, NEW d \in Dirs \cup {Here}
    PROVE  /\ Pos(m, d) \in 0..m \/ Pos(m, d) = -1
           /\ d # Here => Index(d) \in 1..NDirs /\ DirSeq[Index(d)] = d /\ d \in Dirs
           /\ Pos(m, d) = 0 <=> d = Here
           /\ Pos(m, d) = -1 <=> d # Here /\ Index(d) > m
<1>1. m \in Nat /\ NDirs \in Nat
  BY Consts
<1>2. ASSUME d # Here PROVE Index(d) \in 1..NDirs /\ DirSeq[Index(d)] = d /\ d \in Dirs
  <2>1. \E i \in 1..NDirs : DirSeq[i] = d
    BY <1>2, Consts
  <2> QED BY <1>2, <2>1 DEF Index
<1> QED BY <1>1, <1>2 DEF Pos

\* Two directories have two positions.
LEMMA PosInjective ==
    ASSUME NEW m \in 0..NDirs, NEW d \in Dirs \cup {Here}, NEW e \in Dirs \cup {Here},
           Pos(m, d) = Pos(m, e), Pos(m, d) # -1
    PROVE  d = e
<1>1. m \in Nat
  BY Consts
<1>2. CASE d = Here \/ e = Here
  BY <1>2, PosIs
<1>3. CASE d # Here /\ e # Here
  <2>1. Index(d) \in 1..NDirs /\ Index(e) \in 1..NDirs /\ DirSeq[Index(d)] = d /\ DirSeq[Index(e)] = e
    BY <1>3, PosIs
  <2>2. Index(d) = Index(e)
    BY <1>1, <1>3, <2>1, Consts DEF Pos
  <2> QED BY <2>1, <2>2
<1> QED BY <1>2, <1>3

\* Its pair, by the root.
EntryOf(dk, d) == IF d = Here THEN Root ELSE MDirOn(dk, Root).dirs[d]

\* A directory's entry in the root is the pair at its position.
LEMMA EntryIs ==
    ASSUME NEW dk, NEW m, NEW b, NEW E, NEW W, Shape(dk, m, b, E, W), NEW d \in Dirs \cup {Here}
    PROVE  EntryOf(dk, d) = IF Pos(m, d) = -1 THEN {} ELSE E[Pos(m, d)]
<1>1. m \in Nat /\ m \in 0..NDirs /\ E[0] = Root /\ NDirs \in Nat
  BY ShapeIs, Consts DEF Shape
<1>2. CASE d = Here
  BY <1>1, <1>2 DEF EntryOf, Pos
<1>3. CASE d # Here
  <2>1. Index(d) \in 1..NDirs /\ DirSeq[Index(d)] = d
    BY <1>1, <1>3, PosIs
  <2>2. CASE Index(d) <= m
    <3>1. Index(d) \in 1..m
      BY <1>1, <2>1, <2>2
    <3>2. MDirOn(dk, Root).dirs[d] = E[m + 1 - Index(d)]
      BY <2>1, <3>1, Entries
    <3>3. Pos(m, d) = m + 1 - Index(d) /\ Pos(m, d) # -1
      BY <1>1, <1>3, <2>2, <3>1 DEF Pos
    <3> QED BY <1>3, <3>2, <3>3 DEF EntryOf
  <2>3. CASE ~(Index(d) <= m)
    <3>1. Index(d) > m
      BY <1>1, <2>1, <2>3
    <3>2. MDirOn(dk, Root).dirs[d] = {}
      BY <2>1, <3>1 DEF Shape
    <3> QED BY <1>3, <2>3, <3>2 DEF EntryOf, Pos
  <2> QED BY <2>2, <2>3
<1> QED BY <1>2, <1>3

\* The file n at position k, unless a mark takes it away; and all of them, by path.
ViewAt(E, G, F, k, n) == IF Move(E[k], n) \in G THEN Absent ELSE F[k][n]
View(m, E, G, F) ==
    [x \in Paths |-> IF Pos(m, x[1]) = -1 THEN Absent ELSE ViewAt(E, G, F, Pos(m, x[1]), x[2])]
Files(dk, m, E) == [k \in 0..m |-> MDirOn(dk, E[k]).files]

\* At most one move, out of a pair that the list and the entries agree on.
MovesIn(G, m, E, W) ==
    \A mv \in G : G = {mv} /\ \E k \in 0..m, x \in Names : W[k] = E[k] /\ mv = Move(E[k], x)

\* A mark of a pair that overlaps an entry is a mark of the entry.
LEMMA MarkAt ==
    ASSUME NEW dk, NEW m, NEW b, NEW E, NEW W, Shape(dk, m, b, E, W),
           NEW G, MovesIn(G \ {Orphans}, m, E, W), NEW k \in 0..m, NEW n
    PROVE  /\ (\E g \in G : Same(g.pair, E[k]) /\ g.name = n) <=> Move(E[k], n) \in G
           /\ Move(E[k], n) # Orphans
<1>1. E[k] # {} /\ \A l \in 0..m : Same(E[l], E[k]) => l = k
  BY ShapeIs DEF Same, Apart
<1>2. Move(E[k], n) # Orphans /\ Move(E[k], n).pair = E[k] /\ Move(E[k], n).name = n
  BY <1>1 DEF Move, Orphans
<1>3. ASSUME NEW g \in G, Same(g.pair, E[k]), g.name = n PROVE g = Move(E[k], n)
  <2>1. g # Orphans
    BY <1>3 DEF Orphans, Same
  <2>2. PICK l \in 0..m, x \in Names : g = Move(E[l], x)
    BY <2>1 DEF MovesIn
  <2>3. l = k /\ x = n
    BY <1>1, <1>3, <2>2 DEF Move
  <2> QED BY <2>2, <2>3
<1>4. Same(E[k], E[k])
  BY <1>1 DEF Same
<1> QED BY <1>2, <1>3, <1>4

\* A path is a directory and a name.
LEMMA PathIs ==
    ASSUME NEW x \in Paths
    PROVE  x[1] \in Dirs \cup {Here} /\ x[2] \in Names /\ x = <<x[1], x[2]>>
BY DEF Paths

\* What a program finds, by position.
LEMMA DecodedIs ==
    ASSUME NEW dk, NEW m, NEW b, NEW E, NEW W, Shape(dk, m, b, E, W),
           MovesIn(GStateOn(dk) \ {Orphans}, m, E, W)
    PROVE  Decoded(dk) = View(m, E, GStateOn(dk), Files(dk, m, E))
<1> DEFINE G == GStateOn(dk)
           F == Files(dk, m, E)
<1>1. ~(dk[R0] = Null /\ dk[R1] = Null)
  <2>1. PICK b1, b2 \in Blocks : Root = {b1, b2} /\ dk[b1] # Null
    BY ShapeIs DEF Good, Beats
  <2> QED BY <2>1 DEF Root
<1>2. Decoded(dk) = [x \in Paths |->
          IF \/ EntryOf(dk, x[1]) = {}
             \/ \E g \in G : Same(g.pair, EntryOf(dk, x[1])) /\ g.name = x[2]
          THEN Absent
          ELSE MDirOn(dk, EntryOf(dk, x[1])).files[x[2]]]
  BY <1>1, Zenon DEF Decoded, EntryOf
<1> HIDE DEF G
<1>3. ASSUME NEW x \in Paths
      PROVE  (IF \/ EntryOf(dk, x[1]) = {}
                 \/ \E g \in G : Same(g.pair, EntryOf(dk, x[1])) /\ g.name = x[2]
              THEN Absent
              ELSE MDirOn(dk, EntryOf(dk, x[1])).files[x[2]])
             = IF Pos(m, x[1]) = -1 THEN Absent ELSE ViewAt(E, G, F, Pos(m, x[1]), x[2])
  <2>1. x[1] \in Dirs \cup {Here} /\ m \in 0..NDirs
    BY PathIs DEF Shape
  <2>2. EntryOf(dk, x[1]) = IF Pos(m, x[1]) = -1 THEN {} ELSE E[Pos(m, x[1])]
    BY <2>1, EntryIs
  <2>3. CASE Pos(m, x[1]) = -1
    BY <2>2, <2>3
  <2>4. CASE Pos(m, x[1]) # -1
    <3>1. Pos(m, x[1]) \in 0..m
      BY <2>1, <2>4, PosIs
    <3> DEFINE k == Pos(m, x[1])
    <3> HIDE DEF k
    <3>2. k \in 0..m /\ EntryOf(dk, x[1]) = E[k] /\ k # -1
      BY <2>2, <2>4, <3>1 DEF k
    <3>3. E[k] # {}
      BY <3>2, ShapeIs
    <3>4. (\E g \in G : Same(g.pair, E[k]) /\ g.name = x[2]) <=> Move(E[k], x[2]) \in G
      BY <3>2, MarkAt DEF G
    <3>5. F[k] = MDirOn(dk, E[k]).files
      BY <3>2 DEF Files
    <3> HIDE DEF F
    <3> QED BY <2>4, <3>2, <3>3, <3>4, <3>5 DEF k, ViewAt
  <2> QED BY <2>3, <2>4
<1> HIDE DEF F
<1> QED BY <1>2, <1>3, Zenon DEF View, F, G

\* The same file at each position, the same view.
LEMMA ViewSame ==
    ASSUME NEW m \in 0..NDirs, NEW E, NEW G, NEW F, NEW E1, NEW G1, NEW F1,
           \A k \in 0..m, n \in Names : ViewAt(E1, G1, F1, k, n) = ViewAt(E, G, F, k, n)
    PROVE  View(m, E1, G1, F1) = View(m, E, G, F)
<1>1. ASSUME NEW x \in Paths, Pos(m, x[1]) # -1
      PROVE  ViewAt(E1, G1, F1, Pos(m, x[1]), x[2]) = ViewAt(E, G, F, Pos(m, x[1]), x[2])
  <2>1. Pos(m, x[1]) \in 0..m /\ x[2] \in Names
    BY <1>1, PathIs, PosIs
  <2> QED BY <2>1
<1> QED BY <1>1 DEF View

\* A view has contents for each path.
LEMMA ViewType ==
    ASSUME NEW m \in 0..NDirs, NEW E, NEW G, NEW F, \A k \in 0..m : F[k] \in [Names -> Contents]
    PROVE  View(m, E, G, F) \in [Paths -> Contents]
<1>1. ASSUME NEW x \in Paths
      PROVE  (IF Pos(m, x[1]) = -1 THEN Absent ELSE ViewAt(E, G, F, Pos(m, x[1]), x[2])) \in Contents
  <2>1. Pos(m, x[1]) \in 0..m \/ Pos(m, x[1]) = -1
    BY PathIs, PosIs
  <2>2. x[2] \in Names
    BY PathIs
  <2> QED BY <2>1, <2>2 DEF ViewAt, Contents
<1> QED BY <1>1 DEF View

\* A new directory is empty: nothing else is found than before.
LEMMA ViewEnter ==
    ASSUME NEW m \in 0..NDirs, m < NDirs, NEW E, NEW G, NEW F, NEW E1, NEW G1, NEW F1,
           \A n \in Names : F1[1][n] = Absent,
           \A n \in Names : ViewAt(E1, G1, F1, 0, n) = ViewAt(E, G, F, 0, n),
           \A k \in 1..m, n \in Names : ViewAt(E1, G1, F1, k + 1, n) = ViewAt(E, G, F, k, n)
    PROVE  View(m + 1, E1, G1, F1) = View(m, E, G, F)
<1>0. m \in Nat /\ NDirs \in Nat /\ m + 1 \in 0..NDirs
  BY Consts
<1>1. ASSUME NEW x \in Paths
      PROVE  (IF Pos(m + 1, x[1]) = -1 THEN Absent ELSE ViewAt(E1, G1, F1, Pos(m + 1, x[1]), x[2]))
             = IF Pos(m, x[1]) = -1 THEN Absent ELSE ViewAt(E, G, F, Pos(m, x[1]), x[2])
  <2> DEFINE d == x[1]
             n == x[2]
  <2>1. d \in Dirs \cup {Here} /\ n \in Names
    BY PathIs
  <2> HIDE DEF d, n
  <2>2. CASE d = Here
    <3>1. Pos(m, d) = 0 /\ Pos(m + 1, d) = 0
      BY <2>2 DEF Pos
    <3> QED BY <2>1, <3>1 DEF d, n
  <2>3. CASE d # Here
    <3>1. Index(d) \in 1..NDirs
      BY <2>1, <2>3, PosIs
    <3>2. CASE Index(d) <= m
      <4>1. Pos(m, d) \in 1..m /\ Pos(m + 1, d) = Pos(m, d) + 1
        BY <1>0, <2>3, <3>1, <3>2 DEF Pos
      <4>2. Pos(m, d) # -1 /\ Pos(m, d) + 1 # -1
        BY <4>1
      <4> QED BY <2>1, <4>1, <4>2 DEF d, n
    <3>3. CASE Index(d) = m + 1
      <4>1. Pos(m, d) = -1 /\ Pos(m + 1, d) = 1
        BY <1>0, <2>3, <3>3 DEF Pos
      <4> QED BY <2>1, <4>1 DEF d, n, ViewAt
    <3>4. CASE ~(Index(d) <= m + 1)
      <4>1. Pos(m, d) = -1 /\ Pos(m + 1, d) = -1
        BY <1>0, <2>3, <3>1, <3>4 DEF Pos
      <4> QED BY <4>1 DEF d
    <3> QED BY <1>0, <3>1, <3>2, <3>3, <3>4
  <2> QED BY <2>2, <2>3
<1> QED BY <1>1 DEF View

-----------------------------------------------------------------------------
(* What the operations read, and what a commit leads to                    *)

\* The list has the pairs of its positions.
LEMMA ListIs ==
    ASSUME NEW dk, NEW m, NEW b, NEW E, NEW W, Shape(dk, m, b, E, W)
    PROVE  \A q : q \in ListOn(dk) <=> \E k \in 0..m : q = W[k]
<1>1. Frame(dk, m, E, W) /\ m \in Nat /\ m <= NDirs
  BY ShapeIs
<1>2. ListOn(dk) = { W[k] : k \in 0..m }
  BY <1>1, FrameIs
<1> QED BY <1>2

\* lfs_fs_parent finds the root, for each pair that overlaps an entry.
LEMMA ParentsIs ==
    ASSUME NEW m, NEW b, NEW E, NEW W, Shape(disk, m, b, E, W), NEW p
    PROVE  /\ Parents(p) \subseteq {Root}
           /\ \A k \in 1..m : Same(E[k], p) => Parents(p) = {Root}
<1>1. (\A q : q \in List <=> \E l \in 0..m : q = W[l])
  BY ListIs DEF List
<1>2. ASSUME NEW q \in Parents(p) PROVE q = Root
  <2>1. PICK k \in 0..m, d \in Dirs : q = W[k] /\ Same(MDir(q).dirs[d], p)
    BY <1>1, <1>2 DEF Parents
  <2>2. MDir(W[k]).dirs[d] # {}
    BY <2>1 DEF Same
  <2>3. k = 0
    BY <2>2, ShapeIs DEF Shape, Side, NoDirs, MDir
  <2> QED BY <2>1, <2>3, ShapeIs
<1>3. ASSUME NEW k \in 1..m, Same(E[k], p) PROVE Root \in Parents(p)
  <2>1. Root \in List
    BY <1>1, ShapeIs
  <2>2. DirSeq[m + 1 - k] \in Dirs /\ E[k] = MDir(Root).dirs[DirSeq[m + 1 - k]]
    BY Entries DEF MDir
  <2> QED BY <1>3, <2>1, <2>2 DEF Parents
<1> QED BY <1>2, <1>3

\* lfs_fs_pred finds the pair before.
LEMMA PredsIs ==
    ASSUME NEW m, NEW b, NEW E, NEW W, Shape(disk, m, b, E, W), NEW k \in 0..m, k < m
    PROVE  Preds(W[k + 1]) = {W[k]}
<1>1. (\A q : q \in List <=> \E l \in 0..m : q = W[l]) /\ m \in Nat
  BY ListIs, ShapeIs DEF List
<1>2. k + 1 \in 0..m
  BY <1>1
<1>3. \A l \in 0..m : MDir(W[l]).tail = After(W, l, m)
  BY DEF Shape, Frame, MDir
<1>4. ASSUME NEW q \in Preds(W[k + 1]) PROVE q = W[k]
  <2>1. PICK l \in 0..m : q = W[l] /\ Same(MDir(q).tail, W[k + 1])
    BY <1>1, <1>4 DEF Preds
  <2>2. Same(After(W, l, m), W[k + 1])
    BY <1>3, <2>1
  <2>3. l < m /\ Same(W[l + 1], W[k + 1])
    BY <2>2 DEF After, Same
  <2>4. l + 1 \in 0..m
    BY <1>1, <2>3
  <2>5. l + 1 = k + 1
    BY <1>2, <2>3, <2>4, ShapeIs DEF Same, Apart
  <2>6. l = k
    BY <1>1, <2>5
  <2> QED BY <2>1, <2>6
<1>5. W[k] \in Preds(W[k + 1])
  <2>1. Same(W[k + 1], W[k + 1])
    BY <1>2, ShapeIs DEF Same
  <2>2. MDir(W[k]).tail = W[k + 1]
    BY <1>3 DEF After
  <2> QED BY <1>1, <2>1, <2>2 DEF Preds
<1> QED BY <1>4, <1>5

\* The allocator spares the pairs of the entries and of the list.
LEMMA UsedIs ==
    ASSUME NEW m, NEW b, NEW E, NEW W, Shape(disk, m, b, E, W)
    PROVE  \A k \in 0..m : E[k] \subseteq Used /\ W[k] \subseteq Used
<1>1. (\A q : q \in List <=> \E l \in 0..m : q = W[l])
  BY ListIs DEF List
<1>2. \A k \in 0..m : W[k] \subseteq Used
  BY <1>1 DEF Used
<1>3. ASSUME NEW k \in 1..m PROVE E[k] \subseteq Used
  <2>1. Root \in List
    BY <1>1, ShapeIs
  <2>2. DirSeq[m + 1 - k] \in Dirs /\ E[k] = MDir(Root).dirs[DirSeq[m + 1 - k]]
    BY Entries DEF MDir
  <2> QED BY <2>1, <2>2 DEF Used
<1>4. E[0] = W[0] /\ 0 \in 0..m /\ \A k \in 0..m : k = 0 \/ k \in 1..m
  BY ShapeIs
<1> QED BY <1>2, <1>3, <1>4

\* A difference of sets of one kind is of that kind.
LEMMA XorIn ==
    ASSUME NEW S, NEW A \in SUBSET S, NEW B \in SUBSET S
    PROVE  Xor(A, B) \in SUBSET S
BY DEF Xor

\* What the disk is to note are marks.
LEMMA OnDiskIn ==
    ASSUME NEW g, g.move \in SUBSET Marks
    PROVE  OnDisk(g) \in SUBSET Marks
BY DEF OnDisk, Orphans, Marks

\* The block x of p is written; the pair of x and the newer block of p is.
WroteIn(dk1, p, x, c, g, gd, after) ==
    /\ Wrote(disk, dk1, p, x, c, Delta(p, g, gd))
    /\ disk' = Kept(dk1, Ram(after)) /\ gdisk' = OnDisk(g) /\ reloc' = after
WroteOut(dk1, p, x, c, gd) ==
    /\ Wrote(disk, dk1, {x, Newest(p)}, x, c, Xor(MDir(p).delta, gd))
    /\ disk' = Kept(dk1, {{x, Newest(p)}}) /\ gdisk' = gdisk /\ p # Root
    /\ reloc' = [at |-> "parent", old |-> p, new |-> {x, Newest(p)}, hasparent |-> FALSE]

\* A commit stays in its pair or goes to a new one.
LEMMA CommitCases ==
    ASSUME NEW p, NEW c \in Logs, NEW g, NEW gd, NEW after, Good(disk, p), disk \in Disks,
           p \cap Free = {}, Commit(p, c, g, gd, after),
           g.move \in SUBSET Marks, gd \in SUBSET Marks, gdisk \in SUBSET Marks
    PROVE  /\ gstate' = g /\ gdelta' = {}
           /\ \/ \E dk1 : \E x \in p : WroteIn(dk1, p, x, c, g, gd, after)
              \/ \E dk1 : \E x \in Free : WroteOut(dk1, p, x, c, gd)
<1> DEFINE cur == Newest(p)
           full == Delta(p, g, gd)
<1>1. PICK o \in p : p = {cur, o} /\ Beats(disk, cur, o)
  BY GoodIs DEF Newest
<1>2. p \subseteq Blocks /\ cur \in p /\ MDir(p) = disk[cur] /\ disk[cur].over \subseteq p
  BY GoodIs DEF Newest, MDir
<1>3. MDir(p).delta \in SUBSET Marks
  BY GoodLog DEF MDir, Logs
<1>4. full \in SUBSET Marks /\ Xor(MDir(p).delta, gd) \in SUBSET Marks
  <2>1. Xor(gdisk, OnDisk(g)) \in SUBSET Marks
    BY OnDiskIn, XorIn
  <2>2. Xor(gd, Xor(gdisk, OnDisk(g))) \in SUBSET Marks
    BY <2>1, XorIn
  <2> QED BY <1>3, <2>2, XorIn DEF Delta
<1>5. cur # o
  BY <1>1 DEF Beats
<1> HIDE DEF full
<1>6. /\ gstate' = g /\ gdelta' = {}
      /\ \/ /\ \/ Put(cur, c, full, Ram(after))
               \/ \E x \in p \ {cur} : PutOver(x, cur, c, full, Ram(after))
            /\ gdisk' = OnDisk(g)
            /\ reloc' = after /\ UNCHANGED flight
         \/ /\ p # Root
            /\ \E x \in Free :
                  /\ PutOver(x, cur, c, Xor(MDir(p).delta, gd), {{x, cur}})
                  /\ flight' = flight \cup {x}
                  /\ reloc' = [at |-> "parent", old |-> p, new |-> {x, cur},
                               hasparent |-> FALSE]
            /\ UNCHANGED gdisk
  BY DEF Commit, full
<1> HIDE DEF cur
<1>7. ASSUME Put(cur, c, full, Ram(after)), gdisk' = OnDisk(g), reloc' = after
      PROVE  \E dk1 : \E x \in p : WroteIn(dk1, p, x, c, g, gd, after)
  <2>1. PICK dk1 : dk1 = Behind(disk, cur, c, full)
    OBVIOUS
  <2>2. Wrote(disk, dk1, p, cur, c, full)
    BY <1>1, <1>2, <1>4, <2>1, PutWrites
  <2>3. disk' = Kept(dk1, Ram(after))
    BY <1>7, <2>1 DEF Put, Behind
  <2>4. WroteIn(dk1, p, cur, c, g, gd, after) /\ cur \in p
    BY <1>2, <1>7, <2>2, <2>3 DEF WroteIn, full
  <2> QED BY <2>4
<1>8. ASSUME NEW x \in p \ {cur}, PutOver(x, cur, c, full, Ram(after)), gdisk' = OnDisk(g), reloc' = after
      PROVE  \E dk1 : \E y \in p : WroteIn(dk1, p, y, c, g, gd, after)
  <2>1. p = {x, cur} /\ x # cur /\ x \in Blocks /\ cur \in Blocks
    BY <1>1, <1>2, <1>8
  <2>2. PICK dk1 : dk1 = Later(disk, x, cur, c, full)
    OBVIOUS
  <2>3. Wrote(disk, dk1, p, x, c, full)
    BY <1>4, <2>1, <2>2, PutOverWrites
  <2>4. disk' = Kept(dk1, Ram(after))
    BY <1>8, <2>2 DEF PutOver, Later
  <2>5. WroteIn(dk1, p, x, c, g, gd, after) /\ x \in p
    BY <1>8, <2>3, <2>4 DEF WroteIn, full
  <2> QED BY <2>5
<1>9. ASSUME NEW x \in Free, p # Root, PutOver(x, cur, c, Xor(MDir(p).delta, gd), {{x, cur}}),
             reloc' = [at |-> "parent", old |-> p, new |-> {x, cur}, hasparent |-> FALSE],
             gdisk' = gdisk
      PROVE  \E dk1 : \E y \in Free : WroteOut(dk1, p, y, c, gd)
  <2> DEFINE d == Xor(MDir(p).delta, gd)
  <2>0. d \in SUBSET Marks
    BY <1>4
  <2> HIDE DEF d
  <2>1. x # cur /\ x \in Blocks /\ cur \in Blocks
    BY <1>2, <1>9 DEF Free
  <2>2. PICK dk1 : dk1 = Later(disk, x, cur, c, d)
    OBVIOUS
  <2>3. Wrote(disk, dk1, {x, cur}, x, c, d)
    BY <2>0, <2>1, <2>2, PutOverWrites
  <2>4. disk' = Kept(dk1, {{x, cur}})
    BY <1>9, <2>2 DEF PutOver, Later, d
  <2>5. WroteOut(dk1, p, x, c, gd)
    BY <1>9, <2>3, <2>4 DEF WroteOut, d, cur
  <2> QED BY <2>5
<1>10. CASE \/ Put(cur, c, full, Ram(after)) /\ gdisk' = OnDisk(g) /\ reloc' = after
            \/ \E x \in p \ {cur} : PutOver(x, cur, c, full, Ram(after)) /\ gdisk' = OnDisk(g) /\ reloc' = after
  BY <1>6, <1>7, <1>8, <1>10
<1>11. CASE p # Root /\ gdisk' = gdisk
            /\ \E x \in Free :
                  /\ PutOver(x, cur, c, Xor(MDir(p).delta, gd), {{x, cur}})
                  /\ reloc' = [at |-> "parent", old |-> p, new |-> {x, cur}, hasparent |-> FALSE]
  <2>1. PICK x \in Free :
           /\ PutOver(x, cur, c, Xor(MDir(p).delta, gd), {{x, cur}})
           /\ reloc' = [at |-> "parent", old |-> p, new |-> {x, cur}, hasparent |-> FALSE]
    BY <1>11
  <2>2. \E dk1 : \E y \in Free : WroteOut(dk1, p, y, c, gd)
    BY <1>9, <1>11, <2>1
  <2> QED BY <1>6, <2>2
<1> QED BY <1>6, <1>10, <1>11

-----------------------------------------------------------------------------
(* A commit to a pair that the list and the entries agree on               *)

\* A commit to the pair at k has stayed there: its contents are new, and the
\* disk notes the state g.
Stayed(m, b1, E, W1, k, c, g) ==
    /\ Shape(disk', m, b1, E, W1)
    /\ gstate' = g /\ gdelta' = {} /\ gdisk' = OnDisk(g) /\ GStateOn(disk') = OnDisk(g)
    /\ reloc' = NoReloc
    /\ \A l \in 0..m : l # k => MDirOn(disk', E[l]) = MDirOn(disk, E[l])
    /\ MDirOn(disk', E[k]).files = c.files

\* A commit to the pair at k has moved it: nothing else has changed, and the new
\* pair is not linked.
MovedTo(m, b, E, W, k, c, g) ==
    /\ Shape(disk', m, b, E, W)
    /\ gstate' = g /\ gdelta' = {} /\ gdisk' = gdisk /\ GStateOn(disk') = GStateOn(disk)
    /\ reloc' = [at |-> "parent", old |-> E[k], new |-> reloc'.new, hasparent |-> FALSE]
    /\ Moving(disk', m, b, E, W, k, reloc'.new)
    /\ MDirOn(disk', reloc'.new).files = c.files
    /\ \A l \in 0..m : MDirOn(disk', E[l]) = MDirOn(disk, E[l])

\* What the disk believes and what lfs believes of it agree.
Agreed(m, b, E, W) ==
    /\ Shape(disk, m, b, E, W) /\ gdelta = {} /\ gdisk = GStateOn(disk)

\* Pending moves are marks, and not the one for orphans.
LEMMA MovesMarks ==
    ASSUME NEW dk, NEW m, NEW b, NEW E, NEW W, Shape(dk, m, b, E, W), NEW G, MovesIn(G, m, E, W)
    PROVE  G \in SUBSET Marks /\ Orphans \notin G
<1> SUFFICES ASSUME NEW mv \in G PROVE mv \in Marks /\ mv # Orphans
  OBVIOUS
<1>1. PICK k \in 0..m, x \in Names : mv = Move(E[k], x)
  BY DEF MovesIn
<1>2. E[k] \subseteq Blocks /\ E[k] # {}
  BY ShapeIs
<1> QED BY <1>1, <1>2 DEF Move, Marks, Orphans

\* Differences cancel.
LEMMA XorLaws ==
    ASSUME NEW A, NEW B
    PROVE  Xor({}, A) = A /\ Xor(A, {}) = A /\ Xor(A, Xor(A, B)) = B /\ Xor(A, A) = {}
BY DEF Xor

\* With nothing stolen, a commit adds what the disk does not believe yet.
LEMMA DeltaIs ==
    ASSUME NEW p, NEW g, gdelta = {}
    PROVE  Delta(p, g, gdelta) = Xor(MDir(p).delta, Xor(gdisk, OnDisk(g)))
BY XorLaws DEF Delta

\* A commit that stays in its pair and keeps its tail leaves the shape.
LEMMA Remains ==
    ASSUME NEW m, NEW b, NEW E, NEW W, Agreed(m, b, E, W), NEW k \in 0..m, W[k] = E[k],
           NEW c \in Logs, c.dirs = MDir(E[k]).dirs, c.tail = MDir(E[k]).tail,
           NEW g, g.move \in SUBSET Marks, gstate' = g, gdelta' = {},
           NEW dk1, NEW x \in E[k], WroteIn(dk1, E[k], x, c, g, gdelta, NoReloc)
    PROVE  Stayed(m, b, E, W, k, c, g)
<1> DEFINE full == Delta(E[k], g, gdelta)
<1>0. Shape(disk, m, b, E, W) /\ gdelta = {} /\ gdisk = GStateOn(disk)
  BY DEF Agreed
<1>1. full \in SUBSET Marks /\ full = Xor(MDir(E[k]).delta, Xor(gdisk, OnDisk(g)))
  <2>1. gdisk \in SUBSET Marks /\ MDir(E[k]).delta \in SUBSET Marks /\ OnDisk(g) \in SUBSET Marks
    BY <1>0, GStateMarks, ShapeIs, OnDiskIn DEF Logs, MDir
  <2>2. full = Xor(MDir(E[k]).delta, Xor(gdisk, OnDisk(g)))
    BY <1>0, DeltaIs
  <2> QED BY <2>1, <2>2, XorIn
<1> HIDE DEF full
<1>2. Wrote(disk, dk1, E[k], x, c, full) /\ disk' = Kept(dk1, {}) /\ gdisk' = OnDisk(g) /\ reloc' = NoReloc
  BY DEF WroteIn, full, Ram
<1>3. Shape(dk1, m, b, E, W)
  BY <1>0, <1>1, <1>2, Rewrites DEF MDir
<1>4. /\ Shape(disk', m, b, E, W)
      /\ \A l \in 0..m : Stays(dk1, disk', E[l]) /\ Stays(dk1, disk', W[l])
  BY <1>2, <1>3, Forgets
<1>5. \A l \in 0..m : l # k => Stays(disk, dk1, E[l]) /\ Stays(disk, dk1, W[l])
  BY <1>0, <1>2, Others
<1>6. MDirOn(dk1, E[k]).files = c.files /\ MDirOn(dk1, E[k]).delta = full
  BY <1>2, WroteIs
<1>7. \A l \in 0..m : l # k => MDirOn(disk', E[l]) = MDirOn(disk, E[l])
                               /\ MDirOn(disk', W[l]) = MDirOn(disk, W[l])
  BY <1>4, <1>5 DEF Stays
<1>8. MDirOn(disk', E[k]).files = c.files /\ MDirOn(disk', E[k]).delta = full
  BY <1>4, <1>6 DEF Stays
<1>9. GStateOn(disk') = OnDisk(g)
  <2>1. \A l \in 0..m : l # k => MDirOn(disk', W[l]).delta = MDirOn(disk, W[l]).delta
    BY <1>7
  <2>2. MDirOn(disk', W[k]).delta = Xor(MDirOn(disk, W[k]).delta, Xor(gdisk, OnDisk(g)))
    BY <1>1, <1>8 DEF MDir
  <2>3. GStateOn(disk') = Xor(GStateOn(disk), Xor(gdisk, OnDisk(g)))
    BY <1>0, <1>4, <2>1, <2>2, GStateXor
  <2> QED BY <1>0, <2>3, XorLaws
<1> QED BY <1>2, <1>4, <1>7, <1>8, <1>9 DEF Stayed

\* One that gives the pair at the break its new tail mends the list.
LEMMA Relinked ==
    ASSUME NEW m, NEW b, NEW E, NEW W, Agreed(m, b, E, W), NEW k, k = b,
           NEW c \in Logs, c.dirs = MDir(E[k]).dirs, c.tail = After(E, b, m),
           NEW g, g.move \in SUBSET Marks, gstate' = g, gdelta' = {},
           NEW dk1, NEW x \in E[k], WroteIn(dk1, E[k], x, c, g, gdelta, NoReloc)
    PROVE  Stayed(m, m, E, E, k, c, g)
<1> DEFINE full == Delta(E[k], g, gdelta)
<1>0. /\ Shape(disk, m, b, E, W) /\ gdelta = {} /\ gdisk = GStateOn(disk)
      /\ k \in 0..m /\ W[k] = E[k]
  BY ShapeIs DEF Agreed, Shape, Side
<1>1. full \in SUBSET Marks /\ full = Xor(MDir(E[k]).delta, Xor(gdisk, OnDisk(g)))
  <2>1. gdisk \in SUBSET Marks /\ MDir(E[k]).delta \in SUBSET Marks /\ OnDisk(g) \in SUBSET Marks
    BY <1>0, GStateMarks, ShapeIs, OnDiskIn DEF Logs, MDir
  <2>2. full = Xor(MDir(E[k]).delta, Xor(gdisk, OnDisk(g)))
    BY <1>0, DeltaIs
  <2> QED BY <2>1, <2>2, XorIn
<1> HIDE DEF full
<1>2. Wrote(disk, dk1, E[k], x, c, full) /\ disk' = Kept(dk1, {}) /\ gdisk' = OnDisk(g) /\ reloc' = NoReloc
  BY DEF WroteIn, full, Ram
<1>3. Shape(dk1, m, m, E, E)
  BY <1>0, <1>1, <1>2, Retails DEF MDir
<1>4. /\ Shape(disk', m, m, E, E)
      /\ \A l \in 0..m : Stays(dk1, disk', E[l])
  BY <1>2, <1>3, Forgets
<1>5. \A l \in 0..m : l # k => Stays(disk, dk1, E[l])
  BY <1>0, <1>2, Others
<1>6. MDirOn(dk1, E[k]).files = c.files /\ MDirOn(dk1, E[k]).delta = full
  BY <1>2, WroteIs
<1>7. \A l \in 0..m : l # k => MDirOn(disk', E[l]) = MDirOn(disk, E[l])
  BY <1>4, <1>5 DEF Stays
<1>8. MDirOn(disk', E[k]).files = c.files /\ MDirOn(disk', E[k]).delta = full
  BY <1>0, <1>4, <1>6 DEF Stays
<1>9. GStateOn(disk') = OnDisk(g)
  <2>0. \A l \in 0..m : MDirOn(disk, W[l]).delta = MDirOn(disk, E[l]).delta
    BY <1>0 DEF Shape, Side
  <2>1. \A l \in 0..m : l # k => MDirOn(disk', E[l]).delta = MDirOn(disk, W[l]).delta
    BY <1>7, <2>0
  <2>2. MDirOn(disk', E[k]).delta = Xor(MDirOn(disk, W[k]).delta, Xor(gdisk, OnDisk(g)))
    BY <1>0, <1>1, <1>8 DEF MDir
  <2>3. GStateOn(disk') = Xor(GStateOn(disk), Xor(gdisk, OnDisk(g)))
    BY <1>0, <1>4, <2>1, <2>2, GStateXor
  <2> QED BY <1>0, <2>3, XorLaws
<1> QED BY <1>2, <1>4, <1>7, <1>8, <1>9 DEF Stayed

\* One that moves its pair leaves the tree as it was, and a copy beside it.
LEMMA Departs ==
    ASSUME NEW m, NEW b, NEW E, NEW W, Agreed(m, b, E, W), NEW k \in 0..m, b \in {k, m}, W[k] = E[k],
           NEW c \in Logs, c.dirs = MDir(E[k]).dirs, c.tail = After(E, k, m),
           NEW g, gstate' = g, gdelta' = {},
           NEW dk1, NEW x \in Free, WroteOut(dk1, E[k], x, c, gdelta)
    PROVE  MovedTo(m, b, E, W, k, c, g)
<1> DEFINE cur == Newest(E[k])
           new == {x, cur}
           d == MDir(E[k]).delta
<1>0. /\ Shape(disk, m, b, E, W) /\ gdelta = {} /\ gdisk = GStateOn(disk)
      /\ m \in Nat /\ b \in Nat /\ b <= m /\ Good(disk, E[k])
  BY ShapeIs DEF Agreed
<1>1. d \in SUBSET Marks /\ Xor(d, gdelta) = d
  BY <1>0, ShapeIs, XorLaws DEF Logs, MDir
<1>2. /\ Wrote(disk, dk1, new, x, c, d) /\ disk' = Kept(dk1, {new}) /\ gdisk' = gdisk /\ E[k] # Root
      /\ reloc' = [at |-> "parent", old |-> E[k], new |-> new, hasparent |-> FALSE]
  BY <1>1 DEF WroteOut
<1>3. cur \in E[k] /\ cur = NewestOn(disk, E[k])
  BY <1>0, GoodIs DEF Newest
<1>4. \A l \in 0..m : x \notin E[l] /\ x \notin W[l]
  BY <1>0, UsedIs DEF Free
<1>5. k \in 1..b
  <2>1. k # 0
    BY <1>0, <1>2, ShapeIs
  <2> QED BY <1>0, <2>1
<1> HIDE DEF new, cur, d
<1>6. /\ Shape(dk1, m, b, E, W)
      /\ \A l \in 0..m : Stays(disk, dk1, E[l]) /\ Stays(disk, dk1, W[l])
  BY <1>0, <1>1, <1>2, <1>4, FreshWrite
<1>7. /\ Good(dk1, new) /\ NewestOn(dk1, new) = x
      /\ MDirOn(dk1, new).files = c.files /\ MDirOn(dk1, new).dirs = c.dirs
      /\ MDirOn(dk1, new).tail = c.tail /\ MDirOn(dk1, new).delta = d
  BY <1>2, WroteIs
<1>8. /\ Shape(disk', m, b, E, W)
      /\ \A l \in 0..m : Stays(dk1, disk', E[l]) /\ Stays(dk1, disk', W[l])
      /\ Stays(dk1, disk', new)
  BY <1>2, <1>6, <1>7, Forgets
<1>9. \A l \in 0..m : /\ MDirOn(disk', E[l]) = MDirOn(disk, E[l]) /\ MDirOn(disk', W[l]) = MDirOn(disk, W[l])
                      /\ NewestOn(disk', E[l]) = NewestOn(disk, E[l])
  BY <1>6, <1>8 DEF Stays
<1>10. GStateOn(disk') = GStateOn(disk)
  <2>1. \A l \in 0..m : MDirOn(disk', W[l]).delta = MDirOn(disk, W[l]).delta
    BY <1>9
  <2> QED BY <1>0, <1>8, <2>1, GStateSame
<1>11. Moving(disk', m, b, E, W, k, new)
  <2>1. \A l \in 0..m : l # k => new \cap (E[l] \cup W[l]) = {}
    BY <1>0, <1>3, <1>4 DEF new, Shape, Apart
  <2>2. Good(disk', new) /\ NewestOn(disk', new) = x /\ MDirOn(disk', new) = MDirOn(dk1, new)
    BY <1>7, <1>8 DEF Stays
  <2>3. NewestOn(disk', E[k]) \in new /\ x \notin E[k]
    BY <1>3, <1>4, <1>9 DEF new
  <2>4. NoDirs(disk', new)
    <3>1. k > 0
      BY <1>0, <1>5
    <3>2. NoDirs(disk, E[k])
      BY <1>0, <3>1 DEF Shape, Side
    <3> QED BY <1>7, <2>2, <3>2 DEF NoDirs, MDir
  <2>5. MDirOn(disk', new).delta = MDirOn(disk', E[k]).delta
    BY <1>7, <1>9, <2>2 DEF d, MDir
  <2> QED BY <1>5, <1>7, <2>1, <2>2, <2>3, <2>4, <2>5 DEF Moving
<1>12. MDirOn(disk', new).files = c.files
  BY <1>7, <1>8 DEF Stays
<1> QED BY <1>2, <1>8, <1>9, <1>10, <1>11, <1>12 DEF MovedTo

-----------------------------------------------------------------------------
(* The inductive invariant                                                 *)

\* What littlefs does while a pair that moved is being linked.
Movers == {"deorphan", "moved", "return"}

\* The entries once a pair that moved is in its entry, and what is found then.
ShownOn(rl, m, E) == [k \in 0..m |-> IF rl.at = "parent" /\ E[k] = rl.old THEN rl.new ELSE E[k]]
SoonOn(dk, rl, mv, m, E) == View(m, ShownOn(rl, m, E), mv, Files(dk, m, ShownOn(rl, m, E)))
Soon(m, E) == SoonOn(disk, reloc, gstate.move, m, E)

\* What is found once the call has committed.
Planned(m, E) ==
    View(m, E, task.g.move, [k \in 0..m |-> IF E[k] = task.pair THEN task.mdir.files
                                            ELSE MDir(E[k]).files])

\* Types; nothing is stolen from orphans, because there are none.
TypeRight == gstate \in [orphans : Nat, move : SUBSET Marks] /\ gdelta = {}

\* A pair that moved waits for its entry, or then for its place in the list.
RelocRight(m, b, E, W) ==
    \/ reloc = NoReloc
    \/ /\ task.k \in Movers
       /\ reloc.at = "parent"
       /\ \E j \in 0..m :
             /\ Moving(disk, m, b, E, W, j, reloc.new)
             /\ reloc = [at |-> "parent", old |-> E[j], new |-> reloc.new, hasparent |-> FALSE]
             /\ \A n \in Names : Move(E[j], n) \notin gstate.move
    \/ /\ task.k \in Movers
       /\ reloc.at = "pred"
       /\ b < m /\ gstate.orphans > 0
       /\ reloc = [at |-> "pred", old |-> W[b + 1], new |-> E[b + 1], hasparent |-> TRUE]

\* The disk notes one move, and that there is an orphan when there is one; lfs
\* knows what the disk notes.
MarksRight(m, b, E, W) ==
    /\ MovesIn(GStateOn(disk) \ {Orphans}, m, E, W)
    /\ MovesIn(gstate.move, m, E, W)
    /\ b < m => Orphans \in GStateOn(disk)
    /\ Mounted =>
          /\ task.k # "link" => gdisk = GStateOn(disk)
          /\ reloc.at # "parent" => gstate.move = gdisk \ {Orphans}
          /\ task.k \notin {"demove", "moved"} => gstate.move = {}

\* A directory that is made is complete but not yet in the tree.
LinkRight(m, E) ==
    task.k = "link" =>
        /\ task = [k |-> "link", i |-> m + 1, pair |-> task.pair] /\ m < NDirs
        /\ Good(disk, task.pair) /\ NoDirs(disk, task.pair)
        /\ MDir(task.pair).tail = MDir(Root).tail
        /\ \A n \in Names : MDir(task.pair).files[n] = Absent
        /\ \A k \in 0..m : task.pair \cap E[k] = {}
        /\ gdisk = {} /\ GStateOn(disk) = MDir(task.pair).delta /\ GStateOn(disk) \subseteq {Orphans}

\* The commit of a call is planned, and a rename's second with it.
CallRight(m, E) ==
    \E k \in 0..m :
        /\ task.pair = E[k] /\ task.mdir \in Logs
        /\ task.mdir.tail = MDir(E[k]).tail /\ task.mdir.dirs = MDir(E[k]).dirs
        /\ Planned(m, E) = Store!Changed
        /\ \/ task.g = Clean /\ task.then = [k |-> "return"]
           \/ \E l \in 0..m, n \in Names :
                 /\ l # k /\ task.g = [orphans |-> 0, move |-> {Move(E[l], n)}]
                 /\ task.then = [k |-> "moved", pair |-> E[l], name |-> n, mdir |-> MDir(E[l])]

\* What is known in each task.
TaskRight(m, b, E) ==
    /\ task.k \in {"off", "demove", "deorphan", "mkdir", "link", "idle", "call", "moved", "return"}
    /\ task.k = "off" => gstate = Clean /\ gdisk = {}
    /\ task.k = "demove" /\ b < m => gstate.orphans > 0
    /\ task.k = "deorphan" =>
          /\ task = [k |-> "deorphan", pass |-> task.pass, at |-> task.at] /\ task.pass \in {0, 1}
          /\ reloc = NoReloc /\ b < m => task.pass = 0 /\ task.at \in Root /\ gstate.orphans > 0
    /\ task.k \in {"mkdir", "link", "idle", "call"} => b = m /\ gstate = Clean
    /\ task.k = "mkdir" => task = [k |-> "mkdir", i |-> task.i] /\ task.i \in 1..NDirs /\ task.i <= m + 1
    /\ task.k \in {"idle", "call", "moved", "return"} => m = NDirs
    /\ task.k = "call" => CallRight(m, E)
    /\ task.k \in {"moved", "return"} =>
          /\ reloc = NoReloc => b = m
          /\ gstate.orphans = IF reloc.at = "pred" THEN 1 ELSE 0
    /\ task.k = "moved" /\ gstate.move # {} =>
          gstate.move = {Move(task.pair, task.name)} /\ task.mdir = MDir(task.pair)

\* A change that was asked for is what is found once all is linked.
DirRight(m, E) ==
    /\ dir = Decoded(disk)
    /\ IF task.k \in {"call", "moved", "return"} THEN want \in Store!Changes ELSE want = << >>
    /\ Mounted => Soon(m, E) = IF task.k \in {"moved", "return"} THEN Store!Changed ELSE dir

\* A tree is built: m directories are linked and the list leaves the entries E
\* for stale pairs, W, behind b.
At(m, b, E, W) ==
    /\ TypeRight
    /\ Shape(disk, m, b, E, W)
    /\ RelocRight(m, b, E, W)
    /\ MarksRight(m, b, E, W)
    /\ LinkRight(m, E)
    /\ TaskRight(m, b, E)
    /\ DirRight(m, E)

\* No file system yet.
Blank ==
    /\ disk = [b \in Blocks |-> Null] /\ dir = Absent /\ want = << >>
    /\ task = [k |-> "off"] /\ reloc = NoReloc
    /\ gstate = Clean /\ gdisk = {} /\ gdelta = {}

\* Not yet formatted, or a tree.
Inv == Blank \/ \E m, b, E, W : At(m, b, E, W)

-----------------------------------------------------------------------------
(* What is found after a commit                                            *)

\* The files of each pair, those at k replaced by f.
With1(m, E, k, f) == [l \in 0..m |-> IF l = k THEN f ELSE MDirOn(disk, E[l]).files]

\* The moves the disk is to note are those of the state.
LEMMA OnDiskMoves ==
    ASSUME NEW g, Orphans \notin g.move
    PROVE  OnDisk(g) \ {Orphans} = g.move /\ \A mv : mv # Orphans => (mv \in OnDisk(g) <=> mv \in g.move)
BY DEF OnDisk

\* A move is not the mark for orphans.
LEMMA MoveIs ==
    ASSUME NEW dk, NEW m, NEW b, NEW E, NEW W, Shape(dk, m, b, E, W), NEW k \in 0..m, NEW n
    PROVE  Move(E[k], n) # Orphans
<1>1. E[k] # {}
  BY ShapeIs
<1> QED BY <1>1 DEF Move, Orphans

\* When no entry waits for its pair, the entries are those shown.
LEMMA ShownSettled ==
    ASSUME NEW dk, NEW m, NEW b, NEW E, NEW W, Shape(dk, m, b, E, W), NEW rl, rl.at # "parent"
    PROVE  ShownOn(rl, m, E) = E
<1>1. E = [k \in 0..m |-> E[k]]
  BY DEF Shape, Frame
<1> QED BY <1>1 DEF ShownOn

\* Nothing to relink: what is found depends on the moves alone.
LEMMA FoundNow ==
    ASSUME NEW dk, NEW m, NEW b, NEW E, NEW W, Shape(dk, m, b, E, W), NEW rl, rl.at # "parent",
           NEW G, G = GStateOn(dk) \ {Orphans}, MovesIn(G, m, E, W)
    PROVE  /\ Decoded(dk) = View(m, E, G, Files(dk, m, E))
           /\ SoonOn(dk, rl, G, m, E) = Decoded(dk)
<1>1. Decoded(dk) = View(m, E, GStateOn(dk), Files(dk, m, E))
  BY DecodedIs
<1>2. ASSUME NEW k \in 0..m, NEW n \in Names
      PROVE  ViewAt(E, G, Files(dk, m, E), k, n) = ViewAt(E, GStateOn(dk), Files(dk, m, E), k, n)
  <2>1. Move(E[k], n) # Orphans
    BY MoveIs
  <2> QED BY <2>1 DEF ViewAt
<1>3. m \in 0..NDirs
  BY DEF Shape
<1>4. View(m, E, G, Files(dk, m, E)) = View(m, E, GStateOn(dk), Files(dk, m, E))
  BY <1>2, <1>3, ViewSame
<1>5. ShownOn(rl, m, E) = E
  BY ShownSettled
<1> QED BY <1>1, <1>4, <1>5 DEF SoonOn

\* What is found after a commit that stayed in its pair.
LEMMA StayedView ==
    ASSUME NEW m, NEW b1, NEW E, NEW W1, NEW k \in 0..m, NEW c \in Logs, NEW g,
           Stayed(m, b1, E, W1, k, c, g), MovesIn(g.move, m, E, W1)
    PROVE  /\ Decoded(disk') = View(m, E, g.move, With1(m, E, k, c.files))
           /\ SoonOn(disk', reloc', g.move, m, E) = Decoded(disk')
           /\ g.move = GStateOn(disk') \ {Orphans}
<1>1. Shape(disk', m, b1, E, W1) /\ GStateOn(disk') = OnDisk(g) /\ reloc' = NoReloc
  BY DEF Stayed
<1>2. g.move = GStateOn(disk') \ {Orphans}
  BY <1>1, MovesMarks, OnDiskMoves
<1>3. Files(disk', m, E) = With1(m, E, k, c.files)
  <2>1. \A l \in 0..m : MDirOn(disk', E[l]).files = IF l = k THEN c.files ELSE MDirOn(disk, E[l]).files
    BY DEF Stayed
  <2> QED BY <2>1 DEF Files, With1
<1>4. reloc'.at # "parent"
  BY <1>1 DEF NoReloc
<1>5. /\ Decoded(disk') = View(m, E, g.move, Files(disk', m, E))
      /\ SoonOn(disk', reloc', g.move, m, E) = Decoded(disk')
  BY <1>1, <1>2, <1>4, FoundNow
<1> QED BY <1>2, <1>3, <1>5

\* A pair that is not in the tree has no mark.
LEMMA NoMark ==
    ASSUME NEW dk, NEW m, NEW b, NEW E, NEW W, Shape(dk, m, b, E, W), NEW G, MovesIn(G, m, E, W),
           NEW j \in 0..m, NEW new, Moving(dk, m, b, E, W, j, new), NEW n
    PROVE  Move(new, n) \notin G
<1> SUFFICES ASSUME Move(new, n) \in G PROVE FALSE
  OBVIOUS
<1>1. PICK k \in 0..m, x \in Names : Move(new, n) = Move(E[k], x)
  BY DEF MovesIn
<1>2. new = E[k]
  BY <1>1 DEF Move
<1>3. new # {} /\ NewestOn(dk, new) \in new
  BY GoodIs DEF Moving
<1>4. k = j
  BY <1>2, <1>3 DEF Moving
<1> QED BY <1>2, <1>3, <1>4 DEF Moving

\* After one that moved its pair: now as before, and once it is linked the change.
LEMMA MovedView ==
    ASSUME NEW m, NEW b, NEW E, NEW W, NEW k \in 0..m, NEW c \in Logs, NEW g,
           Shape(disk, m, b, E, W), MovedTo(m, b, E, W, k, c, g), MovesIn(g.move, m, E, W),
           MovesIn(GStateOn(disk) \ {Orphans}, m, E, W),
           \A n \in Names : Move(E[k], n) \notin g.move
    PROVE  /\ Decoded(disk') = Decoded(disk)
           /\ SoonOn(disk', reloc', g.move, m, E) = View(m, E, g.move, With1(m, E, k, c.files))
<1> DEFINE new == reloc'.new
           S == ShownOn(reloc', m, E)
           F == Files(disk', m, S)
<1>1. /\ Shape(disk', m, b, E, W) /\ GStateOn(disk') = GStateOn(disk)
      /\ Moving(disk', m, b, E, W, k, new) /\ MDirOn(disk', new).files = c.files
      /\ \A l \in 0..m : MDirOn(disk', E[l]) = MDirOn(disk, E[l])
      /\ reloc'.at = "parent" /\ reloc'.old = E[k]
  <2>1. reloc' = [at |-> "parent", old |-> E[k], new |-> reloc'.new, hasparent |-> FALSE]
    BY DEF MovedTo
  <2>2. reloc'.at = "parent" /\ reloc'.old = E[k]
    BY <2>1
  <2> QED BY <2>2 DEF MovedTo
<1>2. Decoded(disk') = Decoded(disk)
  <2>1. Files(disk', m, E) = Files(disk, m, E)
    BY <1>1 DEF Files
  <2> QED BY <1>1, <2>1, DecodedIs
<1> HIDE DEF new
<1>3. \A l \in 0..m : S[l] = IF l = k THEN new ELSE E[l]
  <2>1. \A l \in 0..m : E[l] = E[k] <=> l = k
    BY ShapeIs DEF Apart
  <2> QED BY <1>1, <2>1 DEF ShownOn, new
<1>4. \A l \in 0..m : F[l] = With1(m, E, k, c.files)[l]
  BY <1>1, <1>3 DEF Files, With1
<1> HIDE DEF S, F
<1>5. ASSUME NEW l \in 0..m, NEW n \in Names
      PROVE  ViewAt(S, g.move, F, l, n) = ViewAt(E, g.move, With1(m, E, k, c.files), l, n)
  <2>1. Move(new, n) \notin g.move
    BY <1>1, NoMark
  <2> QED BY <1>3, <1>4, <2>1 DEF ViewAt
<1>6. m \in 0..NDirs
  BY DEF Shape
<1>7. View(m, S, g.move, F) = View(m, E, g.move, With1(m, E, k, c.files))
  BY <1>5, <1>6, ViewSame
<1> QED BY <1>2, <1>7 DEF SoonOn, S, F

-----------------------------------------------------------------------------
(* Format, mount, power loss, and the calls before they commit             *)

\* Each pair has contents for each name.
LEMMA FilesIn ==
    ASSUME NEW dk, NEW m, NEW b, NEW E, NEW W, Shape(dk, m, b, E, W)
    PROVE  \A k \in 0..m : MDirOn(dk, E[k]).files \in [Names -> Contents]
BY ShapeIs DEF Logs

\* A tree that is built is there for a program.
LEMMA DirThere ==
    ASSUME NEW m, NEW b, NEW E, NEW W, At(m, b, E, W)
    PROVE  dir \in [Paths -> Contents] /\ dir # Absent
<1>1. /\ Shape(disk, m, b, E, W) /\ m \in 0..NDirs
      /\ dir = View(m, E, GStateOn(disk), Files(disk, m, E))
  BY DecodedIs DEF At, MarksRight, DirRight, Shape
<1>2. \A k \in 0..m : Files(disk, m, E)[k] \in [Names -> Contents]
  BY <1>1, FilesIn DEF Files
<1>3. dir \in [Paths -> Contents]
  BY <1>1, <1>2, ViewType
<1> QED BY <1>3, TreeAssumption

\* Format builds an empty tree.
LEMMA KeepsFormat ==
    ASSUME Blank, Format, dir' = Decoded(disk')
    PROVE  /\ (\E m, b, E, W : At(m, b, E, W))'
           /\ dir' = [x \in Paths |-> Absent] /\ want' = want
<1> DEFINE E == [k \in 0..0 |-> Root]
           dk == disk'
<1>1. /\ dk = [disk EXCEPT ![R0] = Empty] /\ disk = [x \in Blocks |-> Null]
      /\ task' = [k |-> "off"] /\ reloc' = NoReloc /\ want' = << >> /\ want = << >>
      /\ gstate' = Clean /\ gdisk' = {} /\ gdelta' = {}
  BY DEF Blank, Format
<1>2. Empty \in Logs /\ Empty # Null
  <2>1. Empty \in Logs
    BY DEF Empty, Logs, Contents
  <2> QED BY <2>1, TreeAssumption
<1>3. dk[R0] = Empty /\ dk[R1] = Null /\ dk \in Disks
  BY <1>1, <1>2, Consts DEF Disks
<1>4. Beats(dk, R0, R1)
  BY <1>2, <1>3, Consts DEF Beats
<1>5. MDirOn(dk, Root) = Empty
  BY <1>3, <1>4, NewestIs DEF Root
<1>6. Good(dk, Root)
  BY <1>3, <1>4, Consts DEF Good, Root, Empty
<1>7. \A k \in 0..0 : k = 0 /\ E[k] = Root
  OBVIOUS
<1> HIDE DEF E, dk
<1>8. Frame(dk, 0, E, E)
  <2>1. E \in [0..0 -> SUBSET Blocks]
    BY Consts DEF E
  <2>2. After(E, 0, 0) = {} /\ MDirOn(dk, Root).tail = {}
    BY <1>5 DEF After, Empty
  <2>3. 0 \in 0..0 /\ 1..0 = {}
    OBVIOUS
  <2> QED BY <1>6, <1>7, <2>1, <2>2, <2>3 DEF Frame
<1>9. Shape(dk, 0, 0, E, E)
  <2>1. Apart(0, E, E)
    BY <1>7, Zenon DEF Apart
  <2>2. \A i \in 1..NDirs : MDirOn(dk, Root).dirs[DirSeq[i]] = {}
    BY <1>5, Consts DEF Empty
  <2>3. Side(dk, 0, 0, E, E, 0)
    <3>1. Same(Root, Root)
      BY DEF Same, Root
    <3> QED BY <1>7, <3>1 DEF Side
  <2> QED BY <1>3, <1>7, <1>8, <2>1, <2>2, <2>3, Consts DEF Shape
<1>10. GStateOn(dk) = {}
  <2>1. ASSUME NEW g \in GStateOn(dk) PROVE FALSE
    <3>1. PICK k \in 0..0 : g \in Deltas(dk, 0, E)[k]
      BY <1>9, GStateIs, OddIn
    <3> QED BY <1>5, <1>7, <3>1 DEF Deltas, Empty
  <2> QED BY <2>1
<1>11. MovesIn({}, 0, E, E)
  BY DEF MovesIn
<1>12. Decoded(dk) = [x \in Paths |-> Absent]
  <2>1. Decoded(dk) = View(0, E, GStateOn(dk), Files(dk, 0, E))
    BY <1>9, <1>10, <1>11, DecodedIs
  <2>2. \A k \in 0..0, n \in Names : ViewAt(E, GStateOn(dk), Files(dk, 0, E), k, n) = Absent
    BY <1>5, <1>7 DEF ViewAt, Files, Empty
  <2>3. 0 \in 0..NDirs
    BY Consts
  <2>4. \A x \in Paths : (IF Pos(0, x[1]) = -1 THEN Absent
                          ELSE ViewAt(E, GStateOn(dk), Files(dk, 0, E), Pos(0, x[1]), x[2])) = Absent
    BY <2>2, <2>3, PathIs, PosIs
  <2> QED BY <2>1, <2>4 DEF View
<1>13. At(0, 0, E, E)'
  <2>1. TypeRight'
    BY <1>1 DEF TypeRight, Clean
  <2>2. Shape(disk', 0, 0, E, E)
    BY <1>9 DEF dk
  <2>3. RelocRight(0, 0, E, E)'
    BY <1>1 DEF RelocRight
  <2>4. MarksRight(0, 0, E, E)'
    <3>1. gstate'.move = {} /\ GStateOn(disk') = {} /\ ~Mounted'
      BY <1>1, <1>10 DEF Clean, Mounted, dk
    <3>2. GStateOn(disk') \ {Orphans} = {}
      BY <3>1
    <3>3. MovesIn(GStateOn(disk') \ {Orphans}, 0, E, E) /\ MovesIn(gstate'.move, 0, E, E)
      BY <1>11, <3>1, <3>2
    <3> QED BY <3>1, <3>3 DEF MarksRight
  <2>5. LinkRight(0, E)'
    BY <1>1 DEF LinkRight
  <2>6. TaskRight(0, 0, E)'
    BY <1>1 DEF TaskRight
  <2>7. DirRight(0, E)'
    BY <1>1 DEF DirRight, Mounted
  <2> QED BY <2>1, <2>2, <2>3, <2>4, <2>5, <2>6, <2>7 DEF At
<1> QED BY <1>1, <1>12, <1>13 DEF dk

\* A mount reads what is noted.
LEMMA KeepsMount ==
    ASSUME NEW m, NEW b, NEW E, NEW W, At(m, b, E, W), Mount, dir' = Decoded(disk')
    PROVE  At(m, b, E, W)' /\ dir' = dir /\ want' = want
<1> DEFINE G == GStateOn(disk) \ {Orphans}
<1>1. /\ disk' = disk /\ reloc' = NoReloc /\ want' = want /\ gdelta' = {}
      /\ gdisk' = GStateOn(disk) /\ task' = [k |-> "demove"] /\ task.k = "off"
      /\ gstate' = [orphans |-> IF Orphans \in GStateOn(disk) THEN 1 ELSE 0, move |-> G]
  BY DEF Mount, Ready
<1>2. Shape(disk, m, b, E, W) /\ MovesIn(G, m, E, W) /\ dir = Decoded(disk) /\ want = << >>
  BY <1>1 DEF At, MarksRight, DirRight
<1>3. G \in SUBSET Marks
  BY <1>2, GStateMarks
<1>4. NoReloc.at # "parent"
  BY DEF NoReloc
<1>5. SoonOn(disk, NoReloc, G, m, E) = dir
  BY <1>2, <1>4, FoundNow
<1> HIDE DEF G
<1>6. gstate'.move = G /\ gstate'.orphans = IF Orphans \in GStateOn(disk) THEN 1 ELSE 0
  BY <1>1
<1>7. TypeRight'
  BY <1>1, <1>3 DEF TypeRight
<1>8. RelocRight(m, b, E, W)'
  BY <1>1 DEF RelocRight
<1>9. MarksRight(m, b, E, W)'
  BY <1>1, <1>2, <1>6 DEF MarksRight, At, G
<1>10. LinkRight(m, E)'
  BY <1>1 DEF LinkRight
<1>11. TaskRight(m, b, E)'
  <2>1. b < m => Orphans \in GStateOn(disk)
    BY DEF At, MarksRight
  <2> QED BY <1>1, <1>6, <2>1 DEF TaskRight
<1>12. DirRight(m, E)'
  BY <1>1, <1>2, <1>5, <1>6 DEF DirRight, Soon
<1> QED BY <1>1, <1>2, <1>7, <1>8, <1>9, <1>10, <1>11, <1>12 DEF At

\* A cut leaves the disk, which forgets only what no one reads.
LEMMA KeepsPowerLoss ==
    ASSUME NEW m, NEW b, NEW E, NEW W, At(m, b, E, W), PowerLoss, dir' = Decoded(disk')
    PROVE  At(m, b, E, W)' /\ dir' = dir /\ want' = << >>
<1>1. /\ disk' = Kept(disk, {}) /\ reloc' = NoReloc /\ want' = << >> /\ gdelta' = {}
      /\ gdisk' = {} /\ task' = [k |-> "off"] /\ gstate' = Clean
  BY DirThere DEF PowerLoss
<1>2. Shape(disk, m, b, E, W) /\ dir = Decoded(disk) /\ MovesIn(GStateOn(disk) \ {Orphans}, m, E, W)
      /\ (b < m => Orphans \in GStateOn(disk))
  BY DEF At, DirRight, MarksRight
<1>3. /\ Shape(disk', m, b, E, W)
      /\ \A k \in 0..m : Stays(disk, disk', E[k]) /\ Stays(disk, disk', W[k])
  BY <1>1, <1>2, Forgets
<1>4. GStateOn(disk') = GStateOn(disk)
  <2>1. \A k \in 0..m : MDirOn(disk', W[k]).delta = MDirOn(disk, W[k]).delta
    BY <1>3 DEF Stays
  <2> QED BY <1>2, <1>3, <2>1, GStateSame
<1>5. Decoded(disk') = Decoded(disk)
  <2>1. Files(disk', m, E) = Files(disk, m, E)
    BY <1>3 DEF Files, Stays
  <2> QED BY <1>2, <1>3, <1>4, <2>1, DecodedIs
<1>6. MovesIn({}, m, E, W)
  BY DEF MovesIn
<1>7. TypeRight'
  BY <1>1 DEF TypeRight, Clean
<1>8. RelocRight(m, b, E, W)'
  BY <1>1 DEF RelocRight
<1>9. MarksRight(m, b, E, W)'
  BY <1>1, <1>2, <1>4, <1>6 DEF MarksRight, Mounted, Clean
<1>10. LinkRight(m, E)'
  BY <1>1 DEF LinkRight
<1>11. TaskRight(m, b, E)'
  BY <1>1 DEF TaskRight
<1>12. DirRight(m, E)'
  BY <1>1 DEF DirRight, Mounted
<1> QED BY <1>1, <1>2, <1>3, <1>5, <1>7, <1>8, <1>9, <1>10, <1>11, <1>12 DEF At

\* When nothing is pending, a program finds the files of the pairs.
LEMMA Plain ==
    ASSUME NEW m, NEW b, NEW E, NEW W, At(m, b, E, W), task.k = "idle"
    PROVE  /\ reloc = NoReloc /\ b = m /\ m = NDirs /\ gstate = Clean /\ want = << >>
           /\ \A x \in Paths : /\ Pos(m, x[1]) \in 0..m /\ Pos(m, x[1]) # -1
                               /\ dir[x] = MDir(E[Pos(m, x[1])]).files[x[2]]
<1>1. /\ Shape(disk, m, b, E, W) /\ reloc = NoReloc /\ b = m /\ m = NDirs /\ gstate = Clean
      /\ want = << >> /\ dir = Soon(m, E)
  BY DEF At, TaskRight, DirRight, RelocRight, Movers, Mounted
<1>2. ShownOn(NoReloc, m, E) = E
  <2>1. NoReloc.at # "parent"
    BY DEF NoReloc
  <2> QED BY <1>1, <2>1, ShownSettled
<1>3. dir = View(m, E, {}, Files(disk, m, E))
  BY <1>1, <1>2 DEF Soon, SoonOn, Clean
<1>4. ASSUME NEW x \in Paths
      PROVE  Pos(m, x[1]) \in 0..m /\ Pos(m, x[1]) # -1
  <2>1. x[1] \in Dirs \cup {Here} /\ m \in 0..NDirs
    BY <1>1, PathIs, Consts
  <2>2. x[1] # Here => Index(x[1]) <= NDirs
    BY <2>1, PosIs, Consts
  <2> QED BY <1>1, <2>1, <2>2, PosIs, Consts
<1>5. ASSUME NEW x \in Paths
      PROVE  dir[x] = MDir(E[Pos(m, x[1])]).files[x[2]]
  BY <1>3, <1>4 DEF View, ViewAt, Files, MDir
<1> QED BY <1>1, <1>4, <1>5

\* A directory that is there is at its position.
LEMMA PairOf ==
    ASSUME NEW m, NEW b, NEW E, NEW W, Shape(disk, m, b, E, W), NEW d \in Dirs \cup {Here},
           DirPair(d) # {}
    PROVE  Pos(m, d) \in 0..m /\ Pos(m, d) # -1 /\ DirPair(d) = E[Pos(m, d)]
<1>1. DirPair(d) = EntryOf(disk, d) /\ m \in 0..NDirs
  BY DEF DirPair, EntryOf, MDir, Shape
<1>2. Pos(m, d) # -1 /\ DirPair(d) = E[Pos(m, d)]
  BY <1>1, EntryIs
<1> QED BY <1>1, <1>2, PosIs

\* A call that returns has made its change.
LEMMA KeepsReturn ==
    ASSUME NEW m, NEW b, NEW E, NEW W, At(m, b, E, W), Return, dir' = Decoded(disk')
    PROVE  /\ At(m, b, E, W)' /\ dir' = dir /\ want' = << >>
           /\ dir = Store!Changed /\ want \in Store!Changes
<1>1. /\ disk' = disk /\ reloc' = reloc /\ gdelta' = gdelta /\ gdisk' = gdisk /\ gstate' = gstate
      /\ task.k = "return" /\ reloc = NoReloc /\ task' = [k |-> "idle"] /\ want' = << >>
  BY DEF Return, Ready, Idle
<1>2. task'.k = "idle" /\ NoReloc.at = "none" /\ Mounted
  BY <1>1 DEF NoReloc, Mounted
<1>3. gstate = Clean
  <2>1. gstate.orphans = 0
    BY <1>1, <1>2 DEF At, TaskRight
  <2>2. gstate.move = {}
    BY <1>1, <1>2 DEF At, MarksRight
  <2> QED BY <2>1, <2>2 DEF At, TypeRight, Clean
<1>4. b = m /\ m = NDirs
  BY <1>1 DEF At, TaskRight
<1>5. gstate.move = GStateOn(disk) \ {Orphans}
  BY <1>1, <1>2 DEF At, MarksRight
<1>6. Soon(m, E) = Store!Changed /\ want \in Store!Changes /\ dir = Decoded(disk)
  BY <1>1, <1>2 DEF At, DirRight
<1>7. Soon(m, E) = dir
  <2>1. Shape(disk, m, b, E, W) /\ MovesIn(gstate.move, m, E, W)
    BY DEF At, MarksRight
  <2>2. reloc.at # "parent"
    BY <1>1, <1>2
  <2> QED BY <1>5, <1>6, <2>1, <2>2, FoundNow DEF Soon
<1>8. TypeRight'
  BY <1>1 DEF TypeRight, At
<1>9. RelocRight(m, b, E, W)'
  BY <1>1 DEF RelocRight
<1>10. MarksRight(m, b, E, W)'
  BY <1>1, <1>2, <1>3, <1>5 DEF MarksRight, At, Clean, Mounted
<1>11. LinkRight(m, E)'
  BY <1>2 DEF LinkRight
<1>12. TaskRight(m, b, E)'
  BY <1>1, <1>2, <1>3, <1>4 DEF TaskRight
<1>13. DirRight(m, E)'
  BY <1>1, <1>2, <1>6, <1>7 DEF DirRight, Soon
<1>14. Shape(disk, m, b, E, W)'
  BY <1>1 DEF At
<1> QED BY <1>1, <1>6, <1>7, <1>8, <1>9, <1>10, <1>11, <1>12, <1>13, <1>14 DEF At

\* What a call commits is all, or the second commit of a rename follows.
Follows(m, E, k, g, then) ==
    \/ g = Clean /\ then = [k |-> "return"]
    \/ \E l \in 0..m, n \in Names :
          /\ l # k /\ g = [orphans |-> 0, move |-> {Move(E[l], n)}]
          /\ then = [k |-> "moved", pair |-> E[l], name |-> n, mdir |-> MDir(E[l])]

\* A call is planned: by path, the contents of its commit are the change.
LEMMA Changing ==
    ASSUME NEW m, NEW b, NEW E, NEW W, At(m, b, E, W), task.k = "idle", dir' = Decoded(disk'),
           NEW k \in 0..m, NEW c \in Logs, c.tail = MDir(E[k]).tail, c.dirs = MDir(E[k]).dirs,
           NEW g, NEW then, NEW change \in Store!Changes, Begin(E[k], c, g, then, change),
           Follows(m, E, k, g, then),
           \A x \in Paths :
              (IF x \in DOMAIN change THEN change[x] ELSE dir[x])
              = IF Move(E[Pos(m, x[1])], x[2]) \in g.move THEN Absent
                ELSE IF Pos(m, x[1]) = k THEN c.files[x[2]] ELSE MDir(E[Pos(m, x[1])]).files[x[2]]
    PROVE  At(m, b, E, W)' /\ dir' = dir /\ want' = change /\ want = << >>
<1>1. /\ disk' = disk /\ reloc' = reloc /\ gdelta' = gdelta /\ gdisk' = gdisk /\ gstate' = gstate
      /\ task' = [k |-> "call", pair |-> E[k], mdir |-> c, g |-> g, then |-> then] /\ want' = change
  BY DEF Begin
<1>2. /\ task'.k = "call" /\ task'.pair = E[k] /\ task'.mdir = c /\ task'.g = g /\ task'.then = then
  BY <1>1
<1>3. /\ reloc = NoReloc /\ b = m /\ m = NDirs /\ gstate = Clean /\ want = << >>
      /\ \A x \in Paths : Pos(m, x[1]) \in 0..m /\ Pos(m, x[1]) # -1
  BY Plain
<1>4. Shape(disk, m, b, E, W) /\ dir = Decoded(disk) /\ Soon(m, E) = dir
  <2>1. Mounted
    BY DEF Mounted
  <2> QED BY <2>1 DEF At, DirRight
<1>5. dir' = dir
  BY <1>1, <1>4
<1>6. Planned(m, E)' = Store!Changed'
  <2> DEFINE F == [l \in 0..m |-> IF E[l] = E[k] THEN c.files ELSE MDir(E[l]).files]
  <2>1. Planned(m, E)' = View(m, E, g.move, F)
    <3>1. \A l \in 0..m : MDir(E[l])' = MDir(E[l])
      BY <1>1 DEF MDir
    <3> QED BY <1>2, <3>1 DEF Planned
  <2>2. \A l \in 0..m : F[l] = IF l = k THEN c.files ELSE MDir(E[l]).files
    <3>1. \A l \in 0..m : E[l] = E[k] <=> l = k
      BY <1>4, ShapeIs DEF Apart
    <3> QED BY <3>1
  <2> HIDE DEF F
  <2>3. ASSUME NEW x \in Paths
        PROVE  (IF Pos(m, x[1]) = -1 THEN Absent ELSE ViewAt(E, g.move, F, Pos(m, x[1]), x[2]))
               = IF x \in DOMAIN change THEN change[x] ELSE dir[x]
    <3>1. Pos(m, x[1]) \in 0..m /\ Pos(m, x[1]) # -1
      BY <1>3
    <3> QED BY <2>2, <3>1 DEF ViewAt
  <2> QED BY <1>1, <1>5, <2>1, <2>3 DEF View, Store!Changed
<1>7. CallRight(m, E)'
  <2>1. \A l \in 0..m : MDir(E[l])' = MDir(E[l])
    BY <1>1 DEF MDir
  <2> QED BY <1>2, <1>6, <2>1 DEF CallRight, Follows
<1>8. TypeRight'
  BY <1>1 DEF TypeRight, At
<1>9. RelocRight(m, b, E, W)'
  BY <1>1, <1>3 DEF RelocRight
<1>10. MarksRight(m, b, E, W)'
  BY <1>1, <1>2, <1>3 DEF MarksRight, At, Clean, Mounted
<1>11. LinkRight(m, E)'
  BY <1>2 DEF LinkRight
<1>12. TaskRight(m, b, E)'
  BY <1>1, <1>2, <1>3, <1>7 DEF TaskRight
<1>13. DirRight(m, E)'
  <2>1. Soon(m, E)' = dir'
    BY <1>1, <1>4 DEF Soon
  <2>2. want' \in Store!Changes'
    BY <1>1 DEF Store!Changes
  <2>3. dir' = Decoded(disk)'
    OBVIOUS
  <2> QED BY <1>2, <2>1, <2>2, <2>3 DEF DirRight
<1>14. Shape(disk, m, b, E, W)'
  BY <1>1, <1>4
<1> QED BY <1>1, <1>3, <1>5, <1>8, <1>9, <1>10, <1>11, <1>12, <1>13, <1>14 DEF At

\* A file is to be created, written or removed.
LEMMA KeepsFileCommit ==
    ASSUME NEW m, NEW b, NEW E, NEW W, At(m, b, E, W), dir' = Decoded(disk'),
           NEW d \in Dirs \cup {Here}, NEW n \in Names, NEW v \in Values \cup {0, Absent},
           FileCommit(d, n, v)
    PROVE  At(m, b, E, W)' /\ dir' = dir /\ want = << >> /\ want' \in Store!Changes
<1>1. /\ task.k = "idle" /\ DirPair(d) # {}
      /\ Begin(DirPair(d), With(DirPair(d), n, v), gstate, [k |-> "return"], [x \in {<<d, n>>} |-> v])
  BY DEF FileCommit, Call, Ready
<1>2. /\ Shape(disk, m, b, E, W) /\ gstate = Clean /\ Clean.move = {}
      /\ m \in 0..NDirs
      /\ \A x \in Paths : /\ Pos(m, x[1]) \in 0..m /\ Pos(m, x[1]) # -1
                          /\ dir[x] = MDir(E[Pos(m, x[1])]).files[x[2]]
  BY <1>1, Plain DEF At, Clean, Shape
<1> DEFINE k == Pos(m, d)
           c == With(E[k], n, v)
           change == [x \in {<<d, n>>} |-> v]
<1>3. k \in 0..m /\ DirPair(d) = E[k] /\ k # -1
  BY <1>1, <1>2, PairOf
<1> HIDE DEF k
<1>4. /\ c \in Logs /\ c.tail = MDir(E[k]).tail /\ c.dirs = MDir(E[k]).dirs
      /\ \A y \in Names : c.files[y] = IF y = n THEN v ELSE MDir(E[k]).files[y]
  <2>1. MDir(E[k]) \in Logs
    BY <1>2, <1>3, ShapeIs DEF MDir
  <2>2. v \in Contents
    BY DEF Contents
  <2> QED BY <2>1, <2>2 DEF With, Logs
<1> HIDE DEF c
<1>5. Begin(E[k], c, Clean, [k |-> "return"], change)
  BY <1>1, <1>2, <1>3 DEF c
<1>6. change \in Store!Changes
  <2>1. <<d, n>> \in Paths
    BY DEF Paths
  <2>2. {<<d, n>>} \in (SUBSET Paths) \ {{}}
    BY <2>1
  <2>3. change \in [{<<d, n>>} -> Values \cup {0, Absent}]
    OBVIOUS
  <2> QED BY <2>2, <2>3 DEF Store!Changes
<1>7. \A x : x \in DOMAIN change <=> x = <<d, n>>
  OBVIOUS
<1>8. \A x \in DOMAIN change : change[x] = v
  OBVIOUS
<1> HIDE DEF change
<1>9. ASSUME NEW x \in Paths
      PROVE  (IF x \in DOMAIN change THEN change[x] ELSE dir[x])
             = IF Move(E[Pos(m, x[1])], x[2]) \in Clean.move THEN Absent
               ELSE IF Pos(m, x[1]) = k THEN c.files[x[2]] ELSE MDir(E[Pos(m, x[1])]).files[x[2]]
  <2>1. x[1] \in Dirs \cup {Here} /\ x[2] \in Names /\ x = <<x[1], x[2]>>
    BY PathIs
  <2>2. Pos(m, x[1]) = k <=> x[1] = d
    BY <1>2, <1>3, <2>1, PosInjective DEF k
  <2> QED BY <1>2, <1>4, <1>7, <1>8, <2>1, <2>2
<1>a. Follows(m, E, k, Clean, [k |-> "return"])
  BY DEF Follows
<1>10. At(m, b, E, W)' /\ dir' = dir /\ want' = change /\ want = << >>
  BY <1>a,  <1>1, <1>3, <1>4, <1>5, <1>6, <1>9, Changing
<1> QED BY <1>6, <1>10 DEF Store!Changes

\* A file is to be renamed, in its directory or into another.
LEMMA KeepsRename ==
    ASSUME NEW m, NEW b, NEW E, NEW W, At(m, b, E, W), dir' = Decoded(disk'),
           NEW d \in Dirs \cup {Here}, NEW n \in Names, NEW e \in Dirs \cup {Here}, NEW n2 \in Names,
           Rename(d, n, e, n2)
    PROVE  At(m, b, E, W)' /\ dir' = dir /\ want = << >> /\ want' \in Store!Changes
<1>1. task.k = "idle" /\ DirPair(d) # {} /\ DirPair(e) # {} /\ FileOf(d, n) # Absent /\ FileOf(e, n2) = Absent
  BY DEF Rename, Call, Ready
<1>2. /\ Shape(disk, m, b, E, W) /\ gstate = Clean /\ Clean.move = {} /\ m \in 0..NDirs
      /\ \A x \in Paths : /\ Pos(m, x[1]) \in 0..m /\ Pos(m, x[1]) # -1
                          /\ dir[x] = MDir(E[Pos(m, x[1])]).files[x[2]]
  BY <1>1, Plain DEF At, Clean, Shape
<1> DEFINE l == Pos(m, d)
           k == Pos(m, e)
           v == FileOf(d, n)
           change == Renamed(d, n, e, n2)
<1>3. l \in 0..m /\ DirPair(d) = E[l] /\ l # -1 /\ k \in 0..m /\ DirPair(e) = E[k] /\ k # -1
  BY <1>1, <1>2, PairOf
<1>4. (d = e <=> k = l) /\ (E[k] = E[l] <=> k = l)
  <2>1. k = l => d = e
    BY <1>2, <1>3, PosInjective
  <2>2. E[k] = E[l] => k = l
    BY <1>2, <1>3, ShapeIs DEF Apart
  <2> QED BY <2>1, <2>2
<1>5. \A x \in Paths : (Pos(m, x[1]) = l <=> x[1] = d) /\ (Pos(m, x[1]) = k <=> x[1] = e)
  BY <1>2, <1>3, PathIs, PosInjective
<1> HIDE DEF l, k
<1>6. /\ MDir(E[k]) \in Logs /\ MDir(E[l]) \in Logs
      /\ v = MDir(E[l]).files[n] /\ v \in Contents /\ v # Absent /\ MDir(E[k]).files[n2] = Absent
  <2>1. MDir(E[k]) \in Logs /\ MDir(E[l]) \in Logs
    BY <1>2, <1>3, ShapeIs DEF MDir
  <2> QED BY <1>1, <1>3, <2>1 DEF FileOf, Logs
<1> HIDE DEF v
<1>7. <<d, n>> \in Paths /\ <<e, n2>> \in Paths /\ <<d, n>> # <<e, n2>>
  <2>1. <<d, n>> # <<e, n2>>
    BY <1>1 DEF FileOf
  <2> QED BY <2>1 DEF Paths
<1>8. change = [x \in {<<d, n>>, <<e, n2>>} |-> IF x = <<d, n>> THEN Absent ELSE v]
  BY DEF Renamed, v
<1>9. /\ \A x : x \in DOMAIN change <=> x = <<d, n>> \/ x = <<e, n2>>
      /\ change[<<d, n>>] = Absent /\ change[<<e, n2>>] = v
  BY <1>7, <1>8
<1>10. change \in Store!Changes
  <2>1. {<<d, n>>, <<e, n2>>} \in (SUBSET Paths) \ {{}}
    BY <1>7
  <2>2. change \in [{<<d, n>>, <<e, n2>>} -> Values \cup {0, Absent}]
    BY <1>6, <1>8 DEF Contents
  <2> QED BY <2>1, <2>2 DEF Store!Changes
<1>11. want' = change
  BY DEF Rename, Begin
<1> HIDE DEF change
<1>12. \A x \in Paths : x[1] \in Dirs \cup {Here} /\ x[2] \in Names /\ x = <<x[1], x[2]>>
  BY PathIs
<1>13. CASE k = l
  <2> DEFINE c == [With(E[k], n, Absent) EXCEPT !.files[n2] = v]
  <2>1. /\ c \in Logs /\ c.tail = MDir(E[k]).tail /\ c.dirs = MDir(E[k]).dirs
        /\ \A y \in Names : c.files[y] = IF y = n2 THEN v ELSE IF y = n THEN Absent ELSE MDir(E[k]).files[y]
    BY <1>6 DEF With, Logs, Contents
  <2>2. Begin(E[k], c, Clean, [k |-> "return"], change)
    <3>1. DirPair(d) = DirPair(e)
      BY <1>3, <1>13
    <3>2. Begin(DirPair(e), [With(DirPair(d), n, Absent) EXCEPT !.files[n2] = FileOf(d, n)],
                gstate, [k |-> "return"], Renamed(d, n, e, n2))
      BY <3>1 DEF Rename
    <3> QED BY <1>2, <1>3, <1>13, <3>2 DEF v, change
  <2> HIDE DEF c
  <2>3. ASSUME NEW x \in Paths
        PROVE  (IF x \in DOMAIN change THEN change[x] ELSE dir[x])
               = IF Move(E[Pos(m, x[1])], x[2]) \in Clean.move THEN Absent
                 ELSE IF Pos(m, x[1]) = k THEN c.files[x[2]] ELSE MDir(E[Pos(m, x[1])]).files[x[2]]
    <3>1. d = e
      BY <1>4, <1>13
    <3>2. CASE x[1] # e
      BY <1>2, <1>5, <1>9, <1>12, <3>1, <3>2
    <3>3. CASE x[1] = e
      <4>1. Pos(m, x[1]) = k /\ x[2] \in Names /\ x = <<e, x[2]>>
        BY <1>5, <1>12, <3>3
      <4>2. CASE x[2] = n2
        BY <1>2, <1>9, <2>1, <4>1, <4>2
      <4>3. CASE x[2] = n /\ x[2] # n2
        BY <1>2, <1>9, <2>1, <3>1, <4>1, <4>3
      <4>4. CASE x[2] # n /\ x[2] # n2
        <5>1. x \notin DOMAIN change
          BY <1>9, <4>1, <4>4
        <5> QED BY <1>2, <2>1, <4>1, <4>4, <5>1
      <4> QED BY <4>2, <4>3, <4>4
    <3> QED BY <3>2, <3>3
  <2>4. At(m, b, E, W)' /\ dir' = dir /\ want' = change /\ want = << >>
    <3>1. Follows(m, E, k, Clean, [k |-> "return"])
      BY DEF Follows
    <3> QED BY <1>1, <1>3, <1>10, <2>1, <2>2, <2>3, <3>1, Changing
  <2> QED BY <1>10, <2>4 DEF Store!Changes
<1>14. CASE k # l
  <2> DEFINE c == With(E[k], n2, v)
             g == [orphans |-> 0, move |-> {Move(E[l], n)}]
             then == [k |-> "moved", pair |-> E[l], name |-> n, mdir |-> MDir(E[l])]
  <2>1. /\ c \in Logs /\ c.tail = MDir(E[k]).tail /\ c.dirs = MDir(E[k]).dirs
        /\ \A y \in Names : c.files[y] = IF y = n2 THEN v ELSE MDir(E[k]).files[y]
    BY <1>6 DEF With, Logs, Contents
  <2>2. Begin(E[k], c, g, then, change)
    <3>1. DirPair(d) # DirPair(e)
      BY <1>3, <1>4, <1>14
    <3>2. [gstate EXCEPT !.move = {Move(DirPair(d), n)}] = g
      <4>1. gstate = [orphans |-> 0, move |-> {}]
        BY <1>2 DEF Clean
      <4>2. [gstate EXCEPT !.move = {Move(E[l], n)}] = [orphans |-> 0, move |-> {Move(E[l], n)}]
        BY <4>1
      <4> QED BY <1>3, <4>2
    <3>3. Begin(DirPair(e), With(DirPair(e), n2, FileOf(d, n)),
                [gstate EXCEPT !.move = {Move(DirPair(d), n)}],
                [k |-> "moved", pair |-> DirPair(d), name |-> n, mdir |-> MDir(DirPair(d))],
                Renamed(d, n, e, n2))
      BY <3>1 DEF Rename
    <3> QED BY <1>3, <3>2, <3>3 DEF v, change
  <2>3. \A y \in 0..m : \A z : Move(E[y], z) \in g.move <=> y = l /\ z = n
    <3>1. \A y \in 0..m : E[y] = E[l] => y = l
      BY <1>2, <1>3, ShapeIs DEF Apart
    <3> QED BY <3>1 DEF Move
  <2>4. \E l1 \in 0..m, n1 \in Names :
           /\ l1 # k /\ g = [orphans |-> 0, move |-> {Move(E[l1], n1)}]
           /\ then = [k |-> "moved", pair |-> E[l1], name |-> n1, mdir |-> MDir(E[l1])]
    BY <1>3, <1>14
  <2> HIDE DEF c, g, then
  <2>5. ASSUME NEW x \in Paths
        PROVE  (IF x \in DOMAIN change THEN change[x] ELSE dir[x])
               = IF Move(E[Pos(m, x[1])], x[2]) \in g.move THEN Absent
                 ELSE IF Pos(m, x[1]) = k THEN c.files[x[2]] ELSE MDir(E[Pos(m, x[1])]).files[x[2]]
    <3>1. d # e /\ Pos(m, x[1]) \in 0..m
      BY <1>2, <1>4, <1>14
    <3>2. Move(E[Pos(m, x[1])], x[2]) \in g.move <=> x = <<d, n>>
      BY <1>5, <1>12, <2>3, <3>1
    <3>3. CASE x = <<d, n>>
      BY <1>9, <3>2, <3>3
    <3>4. CASE x = <<e, n2>>
      BY <1>5, <1>7, <1>9, <1>12, <2>1, <3>2, <3>4
    <3>5. CASE x # <<d, n>> /\ x # <<e, n2>>
      <4>1. x \notin DOMAIN change /\ dir[x] = MDir(E[Pos(m, x[1])]).files[x[2]]
        BY <1>2, <1>9, <3>5
      <4>2. CASE Pos(m, x[1]) = k
        <5>1. x[2] # n2 /\ x[2] \in Names
          BY <1>5, <1>12, <3>5, <4>2
        <5> QED BY <2>1, <3>2, <3>5, <4>1, <4>2, <5>1
      <4>3. CASE Pos(m, x[1]) # k
        BY <3>2, <3>5, <4>1, <4>3
      <4> QED BY <4>2, <4>3
    <3> QED BY <3>3, <3>4, <3>5
  <2>6. At(m, b, E, W)' /\ dir' = dir /\ want' = change /\ want = << >>
    <3>1. Follows(m, E, k, g, then)
      BY <2>4 DEF Follows
    <3>2. k \in 0..m
      BY <1>3
    <3>3. \A x \in Paths :
             (IF x \in DOMAIN change THEN change[x] ELSE dir[x])
             = IF Move(E[Pos(m, x[1])], x[2]) \in g.move THEN Absent
               ELSE IF Pos(m, x[1]) = k THEN c.files[x[2]] ELSE MDir(E[Pos(m, x[1])]).files[x[2]]
      BY <2>5
    <3>4. c \in Logs /\ c.tail = MDir(E[k]).tail /\ c.dirs = MDir(E[k]).dirs
      BY <2>1
    <3>5. At(m, b, E, W) /\ task.k = "idle" /\ dir' = Decoded(disk')
      BY <1>1
    <3> QED BY <1>10, <2>2, <3>1, <3>2, <3>3, <3>4, <3>5, Changing, SMTT(60)
  <2> QED BY <1>10, <2>6 DEF Store!Changes
<1> QED BY <1>13, <1>14

-----------------------------------------------------------------------------
(* What a commit leaves of the invariant                                   *)

\* States that can be noted.
GStates == [orphans : Nat, move : SUBSET Marks]

\* All but what the task and the program make of it.
Base(m, b, E, W) ==
    /\ TypeRight /\ Shape(disk, m, b, E, W) /\ RelocRight(m, b, E, W)
    /\ MarksRight(m, b, E, W) /\ LinkRight(m, E)

\* Tasks that follow a commit.
Settlers == {"deorphan", "mkdir", "idle", "moved", "return"}

\* The invariant after a commit that stayed in its pair, but for the task.
LEMMA Settles ==
    ASSUME NEW m, NEW b1, NEW E, NEW W1, NEW k \in 0..m, NEW c \in Logs, NEW g \in GStates,
           Stayed(m, b1, E, W1, k, c, g), MovesIn(g.move, m, E, W1),
           b1 < m => Orphans \in OnDisk(g),
           task'.k \in Settlers,
           task'.k # "moved" => g.move = {}
    PROVE  /\ Base(m, b1, E, W1)' /\ reloc' = NoReloc /\ gstate' = g
           /\ Soon(m, E)' = Decoded(disk')
           /\ Decoded(disk') = View(m, E, g.move, With1(m, E, k, c.files))
<1>1. /\ Shape(disk', m, b1, E, W1) /\ gstate' = g /\ gdelta' = {} /\ gdisk' = OnDisk(g)
      /\ GStateOn(disk') = OnDisk(g) /\ reloc' = NoReloc
  BY DEF Stayed
<1>2. /\ Decoded(disk') = View(m, E, g.move, With1(m, E, k, c.files))
      /\ SoonOn(disk', reloc', g.move, m, E) = Decoded(disk')
      /\ g.move = GStateOn(disk') \ {Orphans}
  BY StayedView
<1>3. TypeRight'
  BY <1>1 DEF TypeRight, GStates
<1>4. RelocRight(m, b1, E, W1)'
  BY <1>1 DEF RelocRight
<1>5. MarksRight(m, b1, E, W1)'
  BY <1>1, <1>2 DEF MarksRight, Settlers
<1>6. LinkRight(m, E)'
  BY DEF LinkRight, Settlers
<1>7. Soon(m, E)' = Decoded(disk')
  BY <1>1, <1>2 DEF Soon
<1> QED BY <1>1, <1>2, <1>3, <1>4, <1>5, <1>6, <1>7 DEF Base

\* The same after one that moved its pair, which then waits for its entry.
LEMMA Wanders ==
    ASSUME NEW m, NEW b, NEW E, NEW W, NEW k \in 0..m, NEW c \in Logs, NEW g \in GStates,
           Shape(disk, m, b, E, W), MovesIn(GStateOn(disk) \ {Orphans}, m, E, W),
           gdisk = GStateOn(disk), b < m => Orphans \in GStateOn(disk),
           MovedTo(m, b, E, W, k, c, g), MovesIn(g.move, m, E, W),
           \A n \in Names : Move(E[k], n) \notin g.move,
           task'.k \in Movers, task'.k # "moved" => g.move = {}
    PROVE  /\ Base(m, b, E, W)' /\ reloc' # NoReloc /\ reloc'.at = "parent" /\ gstate' = g
           /\ Soon(m, E)' = View(m, E, g.move, With1(m, E, k, c.files))
           /\ Decoded(disk') = Decoded(disk)
<1>1. /\ Shape(disk', m, b, E, W) /\ gstate' = g /\ gdelta' = {} /\ gdisk' = gdisk
      /\ GStateOn(disk') = GStateOn(disk) /\ Moving(disk', m, b, E, W, k, reloc'.new)
      /\ reloc' = [at |-> "parent", old |-> E[k], new |-> reloc'.new, hasparent |-> FALSE]
  BY DEF MovedTo
<1>2. reloc'.at = "parent" /\ reloc' # NoReloc
  BY <1>1 DEF NoReloc
<1>3. /\ Decoded(disk') = Decoded(disk)
      /\ SoonOn(disk', reloc', g.move, m, E) = View(m, E, g.move, With1(m, E, k, c.files))
  BY MovedView
<1>4. TypeRight'
  BY <1>1 DEF TypeRight, GStates
<1>5. RelocRight(m, b, E, W)'
  <2>1. \E j \in 0..m :
             /\ Moving(disk', m, b, E, W, j, reloc'.new)
             /\ reloc' = [at |-> "parent", old |-> E[j], new |-> reloc'.new, hasparent |-> FALSE]
             /\ \A n \in Names : Move(E[j], n) \notin gstate'.move
    BY <1>1
  <2> QED BY <1>2, <2>1 DEF RelocRight
<1>6. MarksRight(m, b, E, W)'
  BY <1>1, <1>2 DEF MarksRight, Movers
<1>7. LinkRight(m, E)'
  BY DEF LinkRight, Movers
<1>8. Soon(m, E)' = SoonOn(disk', reloc', g.move, m, E)
  BY <1>1 DEF Soon
<1> QED BY <1>1, <1>2, <1>3, <1>4, <1>5, <1>6, <1>7, <1>8 DEF Base

\* What a commit makes of a move out of its own pair.
LEMMA FixedIs ==
    ASSUME NEW m, NEW b, NEW E, NEW W, Shape(disk, m, b, E, W), NEW k \in 0..m,
           NEW c \in Logs, NEW g \in GStates, MovesIn(g.move, m, E, W)
    PROVE  /\ MoveFixed(E[k], c, g) \in Logs
           /\ MoveFixed(E[k], c, g).tail = c.tail /\ MoveFixed(E[k], c, g).dirs = c.dirs
           /\ \A n \in Names : MoveFixed(E[k], c, g).files[n]
                               = IF Move(E[k], n) \in g.move THEN Absent ELSE c.files[n]
           /\ WithoutMove(E[k], g) \in GStates /\ WithoutMove(E[k], g).orphans = g.orphans
           /\ WithoutMove(E[k], g).move \subseteq g.move
           /\ MovesIn(WithoutMove(E[k], g).move, m, E, W)
           /\ \A n \in Names : Move(E[k], n) \notin WithoutMove(E[k], g).move
           /\ \A l \in 0..m, n \in Names : l # k =>
                 (Move(E[l], n) \in WithoutMove(E[k], g).move <=> Move(E[l], n) \in g.move)
<1> DEFINE here == { mv \in g.move : Same(mv.pair, E[k]) }
           fix  == [n \in Names |-> IF \E mv \in here : mv.name = n THEN Absent ELSE c.files[n]]
           left == { mv \in g.move : ~Same(mv.pair, E[k]) }
<1>1. \A l \in 0..m : E[l] # {} /\ (Same(E[l], E[k]) => l = k)
  BY ShapeIs DEF Same, Apart
<1>2. Orphans \notin g.move /\ g.move \ {Orphans} = g.move
  BY MovesMarks
<1>3. \A n \in Names : (\E mv \in here : mv.name = n) <=> Move(E[k], n) \in g.move
  <2>1. ASSUME NEW n \in Names
        PROVE  (\E mv \in g.move : Same(mv.pair, E[k]) /\ mv.name = n) <=> Move(E[k], n) \in g.move
    <3> DEFINE G == g.move
    <3>1. MovesIn(G \ {Orphans}, m, E, W)
      BY <1>2
    <3> HIDE DEF G
    <3>2. (\E mv \in G : Same(mv.pair, E[k]) /\ mv.name = n) <=> Move(E[k], n) \in G
      BY <3>1, MarkAt
    <3> QED BY <3>2 DEF G
  <2> QED BY <2>1
<1>4. \A l \in 0..m, n \in Names : Same(Move(E[l], n).pair, E[k]) <=> l = k
  BY <1>1 DEF Same, Move
<1>5. MoveFixed(E[k], c, g) = [c EXCEPT !.files = fix]
  BY DEF MoveFixed
<1>6. fix \in [Names -> Contents]
  BY DEF Logs, Contents
<1>7. \A n \in Names : fix[n] = IF Move(E[k], n) \in g.move THEN Absent ELSE c.files[n]
  BY <1>3
<1> HIDE DEF here, fix
<1>8. /\ MoveFixed(E[k], c, g) \in Logs /\ MoveFixed(E[k], c, g).files = fix
      /\ MoveFixed(E[k], c, g).tail = c.tail /\ MoveFixed(E[k], c, g).dirs = c.dirs
  BY <1>5, <1>6 DEF Logs
<1>9. WithoutMove(E[k], g) = [g EXCEPT !.move = left]
  BY DEF WithoutMove
<1>10. left \subseteq g.move
  OBVIOUS
<1>11. \A l \in 0..m, n \in Names : Move(E[l], n) \in left <=> Move(E[l], n) \in g.move /\ l # k
  BY <1>4
<1> HIDE DEF left
<1>12. WithoutMove(E[k], g) \in GStates /\ WithoutMove(E[k], g).orphans = g.orphans
       /\ WithoutMove(E[k], g).move = left
  BY <1>9, <1>10 DEF GStates
<1>13. MovesIn(left, m, E, W)
  <2> SUFFICES ASSUME NEW mv \in left
               PROVE  left = {mv} /\ \E l \in 0..m, x \in Names : W[l] = E[l] /\ mv = Move(E[l], x)
    BY DEF MovesIn
  <2>1. g.move = {mv} /\ \E l \in 0..m, x \in Names : W[l] = E[l] /\ mv = Move(E[l], x)
    BY <1>10 DEF MovesIn
  <2> QED BY <1>10, <2>1
<1> QED BY <1>7, <1>8, <1>10, <1>11, <1>12, <1>13

\* Making a pending move changes nothing that is found.
LEMMA ViewFixed ==
    ASSUME NEW m, NEW b, NEW E, NEW W, Shape(disk, m, b, E, W), NEW k \in 0..m,
           NEW c \in Logs, NEW g \in GStates, MovesIn(g.move, m, E, W)
    PROVE  View(m, E, WithoutMove(E[k], g).move, With1(m, E, k, MoveFixed(E[k], c, g).files))
           = View(m, E, g.move, With1(m, E, k, c.files))
<1> DEFINE G == WithoutMove(E[k], g).move
           f == MoveFixed(E[k], c, g).files
<1>1. /\ \A n \in Names : f[n] = IF Move(E[k], n) \in g.move THEN Absent ELSE c.files[n]
      /\ \A n \in Names : Move(E[k], n) \notin G
      /\ \A l \in 0..m, n \in Names : l # k => (Move(E[l], n) \in G <=> Move(E[l], n) \in g.move)
  BY FixedIs
<1> HIDE DEF G, f
<1>2. ASSUME NEW l \in 0..m, NEW n \in Names
      PROVE  ViewAt(E, G, With1(m, E, k, f), l, n) = ViewAt(E, g.move, With1(m, E, k, c.files), l, n)
  BY <1>1 DEF ViewAt, With1
<1>3. m \in 0..NDirs
  BY DEF Shape
<1>4. View(m, E, G, With1(m, E, k, f)) = View(m, E, g.move, With1(m, E, k, c.files))
  BY <1>2, <1>3, ViewSame
<1> QED BY <1>4 DEF G, f

-----------------------------------------------------------------------------
(* The repair after a mount                                                *)

\* The pair of an entry can be committed to.
LEMMA PairIs ==
    ASSUME NEW m, NEW b, NEW E, NEW W, Shape(disk, m, b, E, W), NEW k \in 0..m
    PROVE  /\ Good(disk, E[k]) /\ disk \in Disks /\ E[k] \cap Free = {} /\ MDir(E[k]) \in Logs
           /\ Newest(E[k]) \in E[k]
           /\ W[k] = E[k] => MDir(E[k]).tail = After(W, k, m)
<1>1. Good(disk, E[k]) /\ disk \in Disks /\ MDir(E[k]) \in Logs
  BY ShapeIs DEF MDir
<1>2. E[k] \cap Free = {}
  BY UsedIs DEF Free
<1>3. Newest(E[k]) \in E[k]
  BY <1>1, GoodIs DEF Newest
<1>4. W[k] = E[k] => MDir(E[k]).tail = After(W, k, m)
  BY DEF Shape, Frame, MDir
<1> QED BY <1>1, <1>2, <1>3, <1>4

\* When no entry waits for its pair, what is found is the files less the moves.
LEMMA Presently ==
    ASSUME NEW m, NEW b, NEW E, NEW W, Shape(disk, m, b, E, W), reloc.at # "parent"
    PROVE  Soon(m, E) = View(m, E, gstate.move, Files(disk, m, E))
<1>1. ShownOn(reloc, m, E) = E
  BY ShownSettled
<1> QED BY <1>1 DEF Soon, SoonOn

\* A move that a cut left is made up for.
LEMMA KeepsDemove ==
    ASSUME NEW m, NEW b, NEW E, NEW W, At(m, b, E, W), Demove, dir' = Decoded(disk'),
           ~(Moves /\ gstate.orphans > 0)
    PROVE  At(m, b, E, W)' /\ dir' = dir /\ want' = want
<1>1. task.k = "demove" /\ reloc = NoReloc /\ Mounted /\ NoReloc.at = "none" /\ want' = want /\ want = << >>
  <2>1. task.k = "demove" /\ reloc = NoReloc /\ Mounted /\ NoReloc.at = "none"
    BY DEF Demove, Ready, NoReloc, Mounted
  <2>2. want' = want
    BY DEF Demove, Quiet
  <2> QED BY <2>1, <2>2 DEF At, DirRight
<1>2. /\ Shape(disk, m, b, E, W) /\ gstate \in GStates /\ gdelta = {}
      /\ MovesIn(gstate.move, m, E, W) /\ MovesIn(GStateOn(disk) \ {Orphans}, m, E, W)
      /\ gdisk = GStateOn(disk) /\ gstate.move = gdisk \ {Orphans}
      /\ b < m => Orphans \in GStateOn(disk) /\ gstate.orphans > 0
      /\ b \in Nat /\ m \in Nat /\ b <= m
  <2>1. TypeRight /\ MarksRight(m, b, E, W) /\ TaskRight(m, b, E) /\ Shape(disk, m, b, E, W)
    BY DEF At
  <2>2. b \in Nat /\ m \in Nat /\ b <= m
    BY <2>1, ShapeIs
  <2> QED BY <1>1, <2>1, <2>2 DEF TypeRight, MarksRight, TaskRight, GStates
<1>3. Soon(m, E) = dir /\ dir = Decoded(disk) /\ Soon(m, E) = View(m, E, gstate.move, Files(disk, m, E))
  <2>1. Soon(m, E) = View(m, E, gstate.move, Files(disk, m, E))
    BY <1>1, <1>2, Presently
  <2> QED BY <1>1, <2>1 DEF At, DirRight
<1>4. /\ task' = [k |-> "deorphan", pass |-> 0, at |-> Newest(Root)] /\ Newest(Root) \in Root
      /\ task'.k = "deorphan" /\ task'.pass = 0 /\ task'.at = Newest(Root)
  <2>1. Good(disk, Root)
    BY <1>2, ShapeIs
  <2>2. Newest(Root) \in Root
    BY <2>1, GoodIs DEF Newest
  <2> QED BY <2>2 DEF Demove
<1>5. ASSUME Base(m, b, E, W)', (reloc' = NoReloc /\ b < m) => gstate'.orphans > 0,
             Soon(m, E)' = dir', dir' = dir
      PROVE  At(m, b, E, W)' /\ dir' = dir /\ want' = want
  <2>1. TaskRight(m, b, E)'
    BY <1>4, <1>5 DEF TaskRight
  <2>2. DirRight(m, E)'
    BY <1>1, <1>4, <1>5 DEF DirRight, Mounted
  <2> QED BY <1>1, <1>5, <2>1, <2>2 DEF At, Base
<1>6. CASE gdisk \ {Orphans} = {}
  <2>1. /\ disk' = disk /\ gstate' = gstate /\ gdisk' = gdisk /\ gdelta' = gdelta /\ reloc' = reloc
    BY <1>6 DEF Demove, Quiet
  <2>2. Base(m, b, E, W)'
    <3>1. RelocRight(m, b, E, W)' /\ LinkRight(m, E)' /\ TypeRight'
      BY <1>1, <1>2, <1>4, <2>1 DEF RelocRight, LinkRight, TypeRight, GStates
    <3>2. MarksRight(m, b, E, W)'
      BY <1>1, <1>2, <1>6, <2>1 DEF MarksRight
    <3> QED BY <1>2, <2>1, <3>1, <3>2 DEF Base
  <2>3. Soon(m, E)' = Soon(m, E)
    BY <2>1 DEF Soon
  <2> QED BY <1>2, <1>3, <1>5, <2>1, <2>2, <2>3
<1>7. CASE gdisk \ {Orphans} # {}
  <2>1. PICK mv \in gdisk \ {Orphans} :
           Commit(mv.pair, [MDir(mv.pair) EXCEPT !.files[mv.name] = Absent],
                  [gstate EXCEPT !.move = {}], gdelta, NoReloc)
    BY <1>7 DEF Demove
  <2>2. PICK k \in 0..m, n \in Names : W[k] = E[k] /\ mv = Move(E[k], n)
    BY <1>2, <2>1 DEF MovesIn
  <2>3. mv.pair = E[k] /\ mv.name = n /\ gstate.move = {Move(E[k], n)}
    BY <1>2, <2>1, <2>2 DEF MovesIn, Move
  <2>a. PICK c : c = [MDir(E[k]) EXCEPT !.files[n] = Absent]
    OBVIOUS
  <2>b. PICK g : g = [gstate EXCEPT !.move = {}]
    OBVIOUS
  <2>4. Commit(E[k], c, g, gdelta, NoReloc)
    BY <2>1, <2>3, <2>a, <2>b
  <2>5. /\ Good(disk, E[k]) /\ disk \in Disks /\ E[k] \cap Free = {} /\ MDir(E[k]) \in Logs
        /\ MDir(E[k]).tail = After(W, k, m)
    BY <1>2, <2>2, PairIs
  <2>6. /\ c \in Logs /\ c.dirs = MDir(E[k]).dirs /\ c.tail = MDir(E[k]).tail
        /\ \A x \in Names : c.files[x] = IF x = n THEN Absent ELSE MDir(E[k]).files[x]
    BY <2>5, <2>a DEF Logs, Contents
  <2>7. g \in GStates /\ g.move = {} /\ g.orphans = gstate.orphans
    BY <1>2, <2>b DEF GStates
  <2>8. MovesIn({}, m, E, W)
    BY DEF MovesIn
  <2>9. View(m, E, {}, With1(m, E, k, c.files)) = dir
    <3>1. \A l \in 0..m : E[l] = E[k] <=> l = k
      BY <1>2, ShapeIs DEF Apart
    <3>2. ASSUME NEW l \in 0..m, NEW x \in Names
          PROVE  ViewAt(E, {}, With1(m, E, k, c.files), l, x)
                 = ViewAt(E, gstate.move, Files(disk, m, E), l, x)
      <4>1. Move(E[l], x) = Move(E[k], n) <=> l = k /\ x = n
        BY <3>1 DEF Move
      <4> QED BY <2>3, <2>6, <4>1 DEF ViewAt, With1, Files, MDir
    <3>3. m \in 0..NDirs
      BY <1>2 DEF Shape
    <3>4. View(m, E, {}, With1(m, E, k, c.files)) = View(m, E, gstate.move, Files(disk, m, E))
      BY <3>2, <3>3, ViewSame
    <3> QED BY <1>3, <3>4
  <2>10. /\ gstate' = g /\ gdelta' = {}
         /\ \/ \E dk1 : \E x \in E[k] : WroteIn(dk1, E[k], x, c, g, gdelta, NoReloc)
            \/ \E dk1 : \E x \in Free : WroteOut(dk1, E[k], x, c, gdelta)
    <3>1. gdelta \in SUBSET Marks /\ gdisk \in SUBSET Marks /\ g.move \in SUBSET Marks
      BY <1>2, <2>7, GStateMarks DEF GStates
    <3> QED BY <2>4, <2>5, <2>6, <3>1, CommitCases
  <2>11. Agreed(m, b, E, W) /\ g.move \in SUBSET Marks
    BY <1>2, <2>7 DEF Agreed
  <2>12. CASE \E dk1 : \E x \in E[k] : WroteIn(dk1, E[k], x, c, g, gdelta, NoReloc)
    <3>1. Stayed(m, b, E, W, k, c, g)
      BY <2>2, <2>6, <2>10, <2>11, <2>12, Remains
    <3>2. /\ Base(m, b, E, W)' /\ reloc' = NoReloc /\ gstate' = g
          /\ Soon(m, E)' = Decoded(disk')
          /\ Decoded(disk') = View(m, E, g.move, With1(m, E, k, c.files))
      <4>1. /\ b < m => Orphans \in OnDisk(g)
            /\ task'.k \in Settlers /\ MovesIn(g.move, m, E, W)
            /\ task'.k # "moved" => g.move = {}
            /\ c \in Logs /\ g \in GStates
        BY <1>2, <1>4, <2>6, <2>7, <2>8 DEF OnDisk, Settlers
      <4> QED BY <3>1, <4>1, Settles
    <3> QED BY <1>2, <1>5, <2>7, <2>9, <3>2
  <2>13. CASE \E dk1 : \E x \in Free : WroteOut(dk1, E[k], x, c, gdelta)
    <3>1. reloc'.at = "parent" /\ reloc'.new # {}
      <4>1. PICK dk1 : \E x \in Free : WroteOut(dk1, E[k], x, c, gdelta)
        BY <2>13
      <4>2. PICK x \in Free : WroteOut(dk1, E[k], x, c, gdelta)
        BY <4>1
      <4>3. reloc' = [at |-> "parent", old |-> E[k], new |-> {x, Newest(E[k])}, hasparent |-> FALSE]
        BY <4>2 DEF WroteOut
      <4>4. reloc'.at = "parent" /\ reloc'.new = {x, Newest(E[k])}
        BY <4>3
      <4> QED BY <4>4
    <3>2. b = m
      <4>1. Moves
        BY <1>1, <3>1 DEF Moves, NoReloc
      <4>2. ~(gstate.orphans > 0)
        BY <4>1
      <4> QED BY <1>2, <4>2
    <3>3. W = E
      BY <1>2, <3>2, Whole
    <3>4. c.tail = After(E, k, m)
      BY <2>5, <2>6, <3>3
    <3>5. MovedTo(m, b, E, W, k, c, g)
      BY <2>2, <2>6, <2>10, <2>11, <2>13, <3>2, <3>4, Departs
    <3>6. \A x \in Names : Move(E[k], x) \notin g.move
      BY <2>7
    <3>7. /\ Base(m, b, E, W)' /\ reloc' # NoReloc /\ reloc'.at = "parent" /\ gstate' = g
          /\ Soon(m, E)' = View(m, E, g.move, With1(m, E, k, c.files))
          /\ Decoded(disk') = Decoded(disk)
      BY <1>2, <1>4, <2>6, <2>7, <2>8, <3>5, <3>6, Wanders DEF Movers
    <3> QED BY <1>3, <1>5, <2>7, <2>9, <3>7
  <2> QED BY <2>10, <2>12, <2>13
<1> QED BY <1>6, <1>7

\* Moves are out of pairs of the entries.
LEMMA MovesHere ==
    ASSUME NEW m, NEW E, NEW W, NEW G, MovesIn(G, m, E, W)
    PROVE  MovesIn(G, m, E, E)
<1> SUFFICES ASSUME NEW mv \in G
             PROVE  G = {mv} /\ \E k \in 0..m, x \in Names : E[k] = E[k] /\ mv = Move(E[k], x)
  BY DEF MovesIn
<1>1. G = {mv} /\ \E k \in 0..m, x \in Names : W[k] = E[k] /\ mv = Move(E[k], x)
  BY DEF MovesIn
<1> QED BY <1>1

\* A commit after which the list and the entries agree, when the pair stays;
\* what is found once the pair is linked is the same when it moves.
LEMMA Commits ==
    ASSUME NEW m, NEW b, NEW E, NEW W, Agreed(m, b, E, W),
           MovesIn(GStateOn(disk) \ {Orphans}, m, E, W), b < m => Orphans \in GStateOn(disk),
           NEW k \in 0..m, W[k] = E[k], b \in {k, m},
           NEW c \in Logs, c.dirs = MDir(E[k]).dirs, c.tail = After(E, k, m),
           NEW g \in GStates, MovesIn(g.move, m, E, W), \A n \in Names : Move(E[k], n) \notin g.move,
           Commit(E[k], c, g, gdelta, NoReloc),
           task'.k \in Movers, task'.k # "moved" => g.move = {}
    PROVE  /\ gstate' = g
           /\ Soon(m, E)' = View(m, E, g.move, With1(m, E, k, c.files))
           /\ \A l \in 0..m : l # k => MDirOn(disk', E[l]) = MDirOn(disk, E[l])
           /\ \/ Base(m, m, E, E)' /\ reloc' = NoReloc /\ Decoded(disk') = Soon(m, E)'
              \/ Base(m, b, E, W)' /\ reloc' # NoReloc /\ reloc'.at = "parent" /\ Decoded(disk') = Decoded(disk)
<1>1. /\ Shape(disk, m, b, E, W) /\ gdelta = {} /\ gdisk = GStateOn(disk)
      /\ g.move \in SUBSET Marks /\ m \in Nat
  BY ShapeIs DEF Agreed, GStates
<1>2. /\ Good(disk, E[k]) /\ disk \in Disks /\ E[k] \cap Free = {}
      /\ gdelta \in SUBSET Marks /\ gdisk \in SUBSET Marks
  BY <1>1, PairIs, GStateMarks
<1>3. /\ gstate' = g /\ gdelta' = {}
      /\ \/ \E dk1 : \E x \in E[k] : WroteIn(dk1, E[k], x, c, g, gdelta, NoReloc)
         \/ \E dk1 : \E x \in Free : WroteOut(dk1, E[k], x, c, gdelta)
  BY <1>1, <1>2, CommitCases
<1>4. CASE \E dk1 : \E x \in E[k] : WroteIn(dk1, E[k], x, c, g, gdelta, NoReloc)
  <2>1. PICK dk1 : \E x \in E[k] : WroteIn(dk1, E[k], x, c, g, gdelta, NoReloc)
    BY <1>4
  <2>2. PICK x \in E[k] : WroteIn(dk1, E[k], x, c, g, gdelta, NoReloc)
    BY <2>1
  <2>3. Stayed(m, m, E, E, k, c, g)
    <3>1. CASE b = m
      <4>1. W = E
        BY <1>1, <3>1, Whole
      <4>2. c.tail = MDir(E[k]).tail
        BY <1>1, <4>1, PairIs
      <4>3. Stayed(m, b, E, W, k, c, g)
        BY <1>1, <1>3, <2>2, <4>2, Remains
      <4> QED BY <3>1, <4>1, <4>3
    <3>2. CASE b # m
      <4>1. k = b /\ c.tail = After(E, b, m)
        BY <3>2
      <4> QED BY <1>1, <1>3, <2>2, <4>1, Relinked
    <3> QED BY <3>1, <3>2
  <2>4. MovesIn(g.move, m, E, E) /\ task'.k \in Settlers
    BY MovesHere DEF Movers, Settlers
  <2>5. m < m => Orphans \in OnDisk(g)
    BY <1>1
  <2>6. /\ Base(m, m, E, E)' /\ reloc' = NoReloc /\ gstate' = g
        /\ Soon(m, E)' = Decoded(disk')
        /\ Decoded(disk') = View(m, E, g.move, With1(m, E, k, c.files))
    BY <2>3, <2>4, <2>5, Settles
  <2>7. \A l \in 0..m : l # k => MDirOn(disk', E[l]) = MDirOn(disk, E[l])
    BY <2>3 DEF Stayed
  <2> QED BY <2>6, <2>7
<1>5. CASE \E dk1 : \E x \in Free : WroteOut(dk1, E[k], x, c, gdelta)
  <2>1. PICK dk1 : \E x \in Free : WroteOut(dk1, E[k], x, c, gdelta)
    BY <1>5
  <2>2. PICK x \in Free : WroteOut(dk1, E[k], x, c, gdelta)
    BY <2>1
  <2>3. MovedTo(m, b, E, W, k, c, g)
    BY <1>3, <2>2, Departs
  <2>4. Shape(disk, m, b, E, W) /\ gdisk = GStateOn(disk)
    BY <1>1
  <2>5. /\ Base(m, b, E, W)' /\ reloc' # NoReloc /\ reloc'.at = "parent" /\ gstate' = g
        /\ Soon(m, E)' = View(m, E, g.move, With1(m, E, k, c.files))
        /\ Decoded(disk') = Decoded(disk)
    BY <2>3, <2>4, Wanders
  <2>6. \A l \in 0..m : MDirOn(disk', E[l]) = MDirOn(disk, E[l])
    BY <2>3 DEF MovedTo
  <2> QED BY <2>5, <2>6
<1> QED BY <1>3, <1>4, <1>5

\* What is found when one file of entry k is another one.
LEMMA ViewOne ==
    ASSUME NEW m, NEW b, NEW E, NEW W, Shape(disk, m, b, E, W), NEW k \in 0..m, NEW f, NEW G,
           \A n \in Names : f[n] = MDir(E[k]).files[n]
    PROVE  View(m, E, G, With1(m, E, k, f)) = View(m, E, G, Files(disk, m, E))
<1>1. ASSUME NEW l \in 0..m, NEW n \in Names
      PROVE  ViewAt(E, G, With1(m, E, k, f), l, n) = ViewAt(E, G, Files(disk, m, E), l, n)
  BY DEF ViewAt, With1, Files, MDir
<1>2. m \in 0..NDirs
  BY DEF Shape
<1> QED BY <1>1, <1>2, ViewSame

\* A move is made: what is found does not change.
LEMMA ViewTaken ==
    ASSUME NEW m, NEW b, NEW E, NEW W, Shape(disk, m, b, E, W), NEW k \in 0..m, NEW n, NEW G,
           G = {Move(E[k], n)}, NEW f,
           \A x \in Names : f[x] = IF x = n THEN Absent ELSE MDir(E[k]).files[x]
    PROVE  View(m, E, {}, With1(m, E, k, f)) = View(m, E, G, Files(disk, m, E))
<1>1. \A l \in 0..m : E[l] = E[k] <=> l = k
  BY ShapeIs DEF Apart
<1>2. ASSUME NEW l \in 0..m, NEW x \in Names
      PROVE  ViewAt(E, {}, With1(m, E, k, f), l, x) = ViewAt(E, G, Files(disk, m, E), l, x)
  <2>1. Move(E[l], x) = Move(E[k], n) <=> l = k /\ x = n
    BY <1>1 DEF Move
  <2> QED BY <2>1 DEF ViewAt, With1, Files, MDir
<1>3. m \in 0..NDirs
  BY DEF Shape
<1> QED BY <1>2, <1>3, ViewSame

\* A pair of the list whose place in the list is out of date is the one behind
\* the break, and every pair has its entry.
LEMMA BadIs ==
    ASSUME NEW m, NEW b, NEW E, NEW W, Shape(disk, m, b, E, W)
    PROVE  /\ \A i \in 0..(Longest - 1), pass \in {0, 1} :
                 Walk(disk, Root)[i + 1] # {} /\ Bad(pass, Walk(disk, Root)[i + 1])
                 => pass = 0 /\ b <= i /\ i < m
           /\ b < m => /\ b \in 0..(Longest - 1) /\ Walk(disk, Root)[b] = E[b]
                       /\ Walk(disk, Root)[b + 1] = W[b + 1] /\ W[b + 1] # {}
                       /\ Bad(0, W[b + 1])
                       /\ \A d \in Dirs : Same(MDir(Root).dirs[d], W[b + 1]) => MDir(Root).dirs[d] = E[b + 1]
<1>1. /\ m \in Nat /\ b \in Nat /\ b <= m /\ m <= NDirs /\ Frame(disk, m, E, W) /\ Apart(m, E, W)
      /\ \A k \in 0..m : E[k] # {} /\ W[k] # {}
      /\ \A k \in 0..m : Side(disk, m, b, E, W, k)
      /\ Longest \in Nat /\ m < Longest
  <2>1. NDirs \in Nat /\ Longest \in Nat /\ NDirs < Longest
    BY Consts
  <2>2. m \in Nat /\ m <= NDirs
    BY ShapeIs
  <2>3. m < Longest
    BY <2>1, <2>2
  <2>4. \A k \in 0..m : Side(disk, m, b, E, W, k)
    BY DEF Shape
  <2>5. /\ b \in Nat /\ b <= m /\ Frame(disk, m, E, W) /\ Apart(m, E, W)
        /\ \A k \in 0..m : E[k] # {} /\ W[k] # {}
    BY ShapeIs
  <2> QED BY <2>1, <2>2, <2>3, <2>4, <2>5
<1>2. \A k \in 0..Longest : Walk(disk, Root)[k] = IF k <= m THEN W[k] ELSE {}
  BY <1>1, FrameWalk
<1>3. \A k \in 0..m : /\ k <= b => W[k] = E[k]
                      /\ Same(W[k], E[k]) /\ Same(E[k], W[k])
  BY <1>1 DEF Side, Same
<1>4. \A k \in 1..m : Parents(W[k]) = {Root}
  <2> SUFFICES ASSUME NEW k \in 1..m PROVE Parents(W[k]) = {Root}
    OBVIOUS
  <2>1. Same(E[k], W[k])
    BY <1>1, <1>3
  <2> QED BY <2>1, ParentsIs
<1>5. \A k \in 1..m : \E d \in Dirs : MDir(Root).dirs[d] = E[k]
  BY Entries DEF MDir
<1>6. \A d \in Dirs : MDir(Root).dirs[d] = {} \/ \E k \in 1..m : MDir(Root).dirs[d] = E[k]
  <2> SUFFICES ASSUME NEW d \in Dirs
               PROVE  MDir(Root).dirs[d] = {} \/ \E k \in 1..m : MDir(Root).dirs[d] = E[k]
    OBVIOUS
  <2>1. PICK i \in 1..NDirs : d = DirSeq[i]
    BY Consts
  <2>2. CASE i > m
    BY <2>1, <2>2 DEF Shape, MDir
  <2>3. CASE ~(i > m)
    <3>1. i \in 1..m
      BY <1>1, <2>3
    <3> QED BY <2>1, <3>1, Entries DEF MDir
  <2> QED BY <2>2, <2>3
<1>7. ASSUME NEW i \in 0..(Longest - 1), NEW pass \in {0, 1},
             Walk(disk, Root)[i + 1] # {}, Bad(pass, Walk(disk, Root)[i + 1])
      PROVE  pass = 0 /\ b <= i /\ i < m
  <2>1. i + 1 \in 0..Longest /\ i \in Nat
    BY <1>1
  <2>2. i + 1 <= m /\ Walk(disk, Root)[i + 1] = W[i + 1] /\ i + 1 \in 1..m
    BY <1>1, <1>2, <1>7, <2>1
  <2>3. Parents(W[i + 1]) = {Root}
    BY <1>4, <2>2
  <2>4. pass = 0 /\ \A d \in Dirs : MDir(Root).dirs[d] # W[i + 1]
    BY <1>7, <2>2, <2>3 DEF Bad
  <2>5. W[i + 1] # E[i + 1]
    BY <1>5, <2>2, <2>4
  <2>6. ~(i + 1 <= b)
    BY <1>1, <1>3, <2>2, <2>5
  <2> QED BY <1>1, <2>1, <2>2, <2>4, <2>6
<1>8. ASSUME b < m
      PROVE  /\ b \in 0..(Longest - 1) /\ Walk(disk, Root)[b] = E[b]
             /\ Walk(disk, Root)[b + 1] = W[b + 1] /\ W[b + 1] # {}
             /\ Bad(0, W[b + 1])
             /\ \A d \in Dirs : Same(MDir(Root).dirs[d], W[b + 1]) => MDir(Root).dirs[d] = E[b + 1]
  <2>1. b \in 0..(Longest - 1) /\ b \in 0..m /\ b + 1 \in 1..m /\ b + 1 \in 0..m /\ b + 1 \in 0..Longest /\ b \in 0..Longest
    BY <1>1, <1>8
  <2>2. Walk(disk, Root)[b] = W[b] /\ W[b] = E[b] /\ Walk(disk, Root)[b + 1] = W[b + 1] /\ W[b + 1] # {}
    BY <1>1, <1>2, <1>3, <2>1
  <2>3. W[b + 1] # E[b + 1]
    BY <1>8 DEF Shape
  <2>4. \A k \in 0..m : Same(E[k], W[b + 1]) => k = b + 1
    BY <1>1, <2>1 DEF Apart, Same
  <2>5. ASSUME NEW d \in Dirs, Same(MDir(Root).dirs[d], W[b + 1]) PROVE MDir(Root).dirs[d] = E[b + 1]
    <3>1. MDir(Root).dirs[d] # {}
      BY <2>5 DEF Same
    <3>2. PICK k \in 1..m : MDir(Root).dirs[d] = E[k]
      BY <1>6, <3>1
    <3>3. k \in 0..m
      BY <1>1
    <3> QED BY <2>4, <2>5, <3>2, <3>3
  <2>6. \A d \in Dirs : MDir(Root).dirs[d] # W[b + 1]
    <3> SUFFICES ASSUME NEW d \in Dirs, MDir(Root).dirs[d] = W[b + 1] PROVE FALSE
      OBVIOUS
    <3>1. Same(MDir(Root).dirs[d], W[b + 1])
      BY <2>2 DEF Same
    <3> QED BY <2>3, <2>5, <3>1
  <2>7. Bad(0, W[b + 1])
    <3>1. Parents(W[b + 1]) = {Root}
      BY <1>4, <2>1
    <3> QED BY <2>6, <3>1 DEF Bad
  <2> QED BY <2>1, <2>2, <2>5, <2>7
<1> QED BY <1>7, <1>8

\* What there is to repair, of the walk that is at a pair of the list.
Broken(pass, at) ==
    { i \in 0..(Longest - 1) : /\ Walk(disk, Root)[i + 1] # {}
                               /\ \E j \in 0..i : at \in Walk(disk, Root)[j]
                               /\ Bad(pass, Walk(disk, Root)[i + 1]) }

\* Only the break is to be repaired, and the first pass finds it.
LEMMA BrokenIs ==
    ASSUME NEW m, NEW b, NEW E, NEW W, Shape(disk, m, b, E, W), NEW pass \in {0, 1}, NEW at
    PROVE  /\ \A i \in Broken(pass, at) : pass = 0 /\ b <= i /\ i < m
           /\ b < m /\ pass = 0 /\ at \in Root => b \in Broken(pass, at)
<1>1. \A i \in Broken(pass, at) : pass = 0 /\ b <= i /\ i < m
  BY BadIs DEF Broken
<1>2. ASSUME b < m, pass = 0, at \in Root PROVE b \in Broken(pass, at)
  <2>1. b \in 0..(Longest - 1) /\ Walk(disk, Root)[b + 1] = W[b + 1] /\ W[b + 1] # {} /\ Bad(0, W[b + 1])
    BY <1>2, BadIs
  <2>2. 0 \in 0..b /\ Walk(disk, Root)[0] = Root
    <3>1. b \in Nat
      BY ShapeIs
    <3> QED BY <3>1, Walks
  <2>3. \E j \in 0..b : at \in Walk(disk, Root)[j]
    BY <1>2, <2>2
  <2> QED BY <1>2, <2>1, <2>3 DEF Broken
<1> QED BY <1>1, <1>2

\* The list is mended where a cut left it, or nothing is to be done.
LEMMA KeepsDeorphan ==
    ASSUME NEW m, NEW b, NEW E, NEW W, At(m, b, E, W), Deorphan, dir' = Decoded(disk')
    PROVE  /\ At(m, b, E, W)' \/ At(m, m, E, E)'
           /\ dir' = dir /\ want' = want
<1>1. task.k = "deorphan" /\ reloc = NoReloc /\ Mounted /\ NoReloc.at = "none"
  BY DEF Deorphan, Ready, NoReloc, Mounted
<1>2. /\ Shape(disk, m, b, E, W) /\ gstate \in GStates /\ gdelta = {}
      /\ gdisk = GStateOn(disk) /\ gstate.move = gdisk \ {Orphans} /\ gstate.move = {}
      /\ b < m => Orphans \in GStateOn(disk)
      /\ task = [k |-> "deorphan", pass |-> task.pass, at |-> task.at] /\ task.pass \in {0, 1}
      /\ b < m => task.pass = 0 /\ task.at \in Root /\ gstate.orphans > 0
      /\ want = << >> /\ dir = Decoded(disk) /\ Soon(m, E) = dir
  <2>1. TypeRight /\ MarksRight(m, b, E, W) /\ TaskRight(m, b, E) /\ Shape(disk, m, b, E, W) /\ DirRight(m, E)
    BY DEF At
  <2>2. gdisk = GStateOn(disk) /\ gstate.move = gdisk \ {Orphans} /\ gstate.move = {}
        /\ (b < m => Orphans \in GStateOn(disk))
    BY <1>1, <2>1 DEF MarksRight
  <2>3. /\ task = [k |-> "deorphan", pass |-> task.pass, at |-> task.at] /\ task.pass \in {0, 1}
        /\ b < m => task.pass = 0 /\ task.at \in Root /\ gstate.orphans > 0
    BY <1>1, <2>1 DEF TaskRight
  <2>4. want = << >> /\ dir = Decoded(disk) /\ Soon(m, E) = dir
    BY <1>1, <2>1 DEF DirRight
  <2> QED BY <2>1, <2>2, <2>3, <2>4 DEF TypeRight, GStates
<1>3. m \in Nat /\ b \in Nat /\ b <= m
  BY <1>2, ShapeIs
<1>4. MovesIn({}, m, E, W) /\ MovesIn(GStateOn(disk) \ {Orphans}, m, E, W) /\ MovesIn(gstate.move, m, E, W)
  BY <1>2 DEF MovesIn
<1> DEFINE I == Broken(task.pass, task.at)
<1>5. /\ \A i \in I : task.pass = 0 /\ b <= i /\ i < m
      /\ b < m => b \in I
  BY <1>2, BrokenIs
<1>6. IF gstate.orphans = 0 THEN task' = [k |-> "mkdir", i |-> 1] /\ Quiet
      ELSE IF I # {}
      THEN LET i == CHOOSE x \in I : \A y \in I : x <= y
               q == Walk(disk, Root)[i]
               t == Walk(disk, Root)[i + 1]
           IN  /\ task' = [task EXCEPT !.at = Newest(q)]
               /\ UNCHANGED want
               /\ IF task.pass = 0
                  THEN \E d \in Dirs :
                         /\ Same(MDir(Root).dirs[d], t)
                         /\ Commit(q, MoveFixed(q, [MDir(q) EXCEPT !.tail = MDir(Root).dirs[d]], gstate),
                                   WithoutMove(q, gstate), gdelta, NoReloc)
                  ELSE Commit(q, [MDir(q) EXCEPT !.tail = MDir(t).tail],
                              gstate, Xor(gdelta, MDir(t).delta), NoReloc)
      ELSE IF task.pass = 0
      THEN task' = [task EXCEPT !.pass = 1, !.at = Newest(Root)] /\ Quiet
      ELSE /\ gstate' = [gstate EXCEPT !.orphans = 0]
           /\ task' = [k |-> "mkdir", i |-> 1]
           /\ UNCHANGED <<disk, gdisk, gdelta, flight, reloc, want>>
  BY DEF Deorphan, I, Broken
<1> HIDE DEF I
<1>7. ASSUME disk' = disk, gdisk' = gdisk, gdelta' = gdelta, reloc' = reloc, want' = want,
             gstate' \in GStates, gstate'.move = {}, b = m,
             task'.k \in {"mkdir", "deorphan"}, TaskRight(m, b, E)'
      PROVE  At(m, b, E, W)' /\ dir' = dir /\ want' = want
  <2>1. TypeRight' /\ RelocRight(m, b, E, W)' /\ LinkRight(m, E)' /\ Shape(disk, m, b, E, W)'
    BY <1>1, <1>2, <1>7 DEF TypeRight, RelocRight, LinkRight, GStates
  <2>2. MarksRight(m, b, E, W)'
    BY <1>2, <1>3, <1>4, <1>7 DEF MarksRight
  <2>3. DirRight(m, E)'
    <3>1. Soon(m, E)' = Soon(m, E)
      BY <1>2, <1>7 DEF Soon
    <3> QED BY <1>2, <1>7, <3>1 DEF DirRight
  <2> QED BY <1>2, <1>7, <2>1, <2>2, <2>3 DEF At
<1>8. CASE gstate.orphans = 0
  <2>1. /\ task' = [k |-> "mkdir", i |-> 1] /\ task'.k = "mkdir" /\ task'.i = 1
        /\ disk' = disk /\ gstate' = gstate /\ gdisk' = gdisk /\ gdelta' = gdelta /\ reloc' = reloc /\ want' = want
    BY <1>6, <1>8 DEF Quiet
  <2>2. b = m
    BY <1>2, <1>3, <1>8
  <2>3. gstate = Clean
    BY <1>2, <1>8 DEF GStates, Clean
  <2>4. TaskRight(m, b, E)'
    BY <1>3, <2>1, <2>2, <2>3, Consts DEF TaskRight
  <2> QED BY <1>2, <1>7, <2>1, <2>2, <2>4
<1>9. CASE gstate.orphans # 0 /\ I = {} /\ task.pass = 0
  <2>1. /\ task' = [k |-> "deorphan", pass |-> 1, at |-> Newest(Root)]
        /\ disk' = disk /\ gstate' = gstate /\ gdisk' = gdisk /\ gdelta' = gdelta /\ reloc' = reloc /\ want' = want
    <3>1. task' = [task EXCEPT !.pass = 1, !.at = Newest(Root)] /\ Quiet
      BY <1>6, <1>9
    <3>2. PICK p0, a0 : task = [k |-> "deorphan", pass |-> p0, at |-> a0]
      BY <1>2
    <3>3. task' = [k |-> "deorphan", pass |-> 1, at |-> Newest(Root)]
      BY <3>1, <3>2
    <3> QED BY <3>1, <3>3 DEF Quiet
  <2>2. task'.k = "deorphan" /\ task'.pass = 1 /\ task'.at = Newest(Root)
    BY <2>1
  <2>3. b = m
    BY <1>3, <1>5, <1>9
  <2>4. TaskRight(m, b, E)'
    BY <1>3, <2>1, <2>2, <2>3 DEF TaskRight
  <2> QED BY <1>2, <1>7, <2>1, <2>2, <2>3, <2>4
<1>10. CASE gstate.orphans # 0 /\ I = {} /\ task.pass # 0
  <2>1. /\ task' = [k |-> "mkdir", i |-> 1] /\ task'.k = "mkdir" /\ task'.i = 1
        /\ gstate' = [gstate EXCEPT !.orphans = 0]
        /\ disk' = disk /\ gdisk' = gdisk /\ gdelta' = gdelta /\ reloc' = reloc /\ want' = want
    BY <1>6, <1>10
  <2>2. b = m
    BY <1>2, <1>3, <1>10
  <2>3. gstate' = Clean
    BY <1>2, <2>1 DEF GStates, Clean
  <2>4. gstate' \in GStates /\ gstate'.move = {}
    BY <2>3 DEF GStates, Clean
  <2>5. TaskRight(m, b, E)'
    BY <1>3, <2>1, <2>2, <2>3, Consts DEF TaskRight
  <2> QED BY <1>7, <2>1, <2>2, <2>4, <2>5
<1>11. CASE gstate.orphans # 0 /\ I # {}
  <2>1. PICK i1 \in I : TRUE
    BY <1>11
  <2>2. task.pass = 0 /\ b < m /\ b \in I
    <3>1. task.pass = 0 /\ b <= i1 /\ i1 < m
      BY <1>5, <2>1
    <3>2. i1 \in Nat
      BY <2>1, Consts DEF I, Broken
    <3>3. b < m
      BY <1>3, <3>1, <3>2
    <3> QED BY <1>5, <3>1, <3>3
  <2> DEFINE i == CHOOSE x \in I : \A y \in I : x <= y
  <2>3. i = b
    <3>1. \A y \in I : b <= y /\ y \in Nat
      BY <1>5, Consts DEF I, Broken
    <3>2. i \in I /\ \A y \in I : i <= y
      BY <2>2, <3>1
    <3> HIDE DEF i
    <3>3. i \in Nat /\ b <= i /\ i <= b
      BY <2>2, <3>1, <3>2
    <3> QED BY <1>3, <3>3
  <2>4. /\ task' = [task EXCEPT !.at = Newest(Walk(disk, Root)[i])] /\ want' = want
        /\ \E d \in Dirs :
              /\ Same(MDir(Root).dirs[d], Walk(disk, Root)[i + 1])
              /\ Commit(Walk(disk, Root)[i],
                        MoveFixed(Walk(disk, Root)[i], [MDir(Walk(disk, Root)[i]) EXCEPT !.tail = MDir(Root).dirs[d]], gstate),
                        WithoutMove(Walk(disk, Root)[i], gstate), gdelta, NoReloc)
    BY <1>6, <1>11, <2>2
  <2> HIDE DEF i
  <2>5. /\ Walk(disk, Root)[b] = E[b] /\ Walk(disk, Root)[b + 1] = W[b + 1]
        /\ \A d \in Dirs : Same(MDir(Root).dirs[d], W[b + 1]) => MDir(Root).dirs[d] = E[b + 1]
    BY <1>2, <2>2, BadIs
  <2>6. /\ task' = [task EXCEPT !.at = Newest(E[b])]
        /\ Commit(E[b], MoveFixed(E[b], [MDir(E[b]) EXCEPT !.tail = E[b + 1]], gstate),
                  WithoutMove(E[b], gstate), gdelta, NoReloc)
    BY <2>3, <2>4, <2>5
  <2>7. task'.k = "deorphan" /\ task' = [k |-> "deorphan", pass |-> 0, at |-> task'.at] /\ task'.pass = 0
    <3>1. task' = [k |-> "deorphan", pass |-> 0, at |-> Newest(E[b])]
      BY <1>2, <2>2, <2>6
    <3>2. task'.at = Newest(E[b])
      BY <3>1
    <3> QED BY <3>1, <3>2
  <2>8. PICK k : k = b
    OBVIOUS
  <2>9. k \in 0..m /\ b \in {k, m} /\ W[k] = E[k] /\ E[b] = E[k]
    <3>1. b \in 0..m
      BY <1>3
    <3>2. W[b] = E[b]
      BY <1>2, <3>1 DEF Shape, Side
    <3> QED BY <2>8, <3>1, <3>2
  <2>10. PICK c0 : c0 = [MDir(E[k]) EXCEPT !.tail = E[b + 1]]
    OBVIOUS
  <2>11. MDir(E[k]) \in Logs
    BY <1>2, <2>9, PairIs
  <2>12. E[b + 1] \subseteq Blocks /\ After(E, k, m) = E[b + 1]
    <3>1. b + 1 \in 0..m
      BY <1>3, <2>2
    <3> QED BY <1>2, <2>2, <2>8, <3>1, ShapeIs DEF After
  <2>13. /\ c0 \in Logs /\ c0.tail = After(E, k, m) /\ c0.dirs = MDir(E[k]).dirs
         /\ c0.files = MDir(E[k]).files
    BY <2>10, <2>11, <2>12 DEF Logs
  <2>14. PICK c : c = MoveFixed(E[k], c0, gstate)
    OBVIOUS
  <2>15. PICK g : g = WithoutMove(E[k], gstate)
    OBVIOUS
  <2>16. Commit(E[k], c, g, gdelta, NoReloc)
    BY <2>6, <2>9, <2>10, <2>14, <2>15
  <2>17. /\ c \in Logs /\ c.tail = After(E, k, m) /\ c.dirs = MDir(E[k]).dirs
         /\ \A n \in Names : c.files[n] = MDir(E[k]).files[n]
         /\ g \in GStates /\ g.move = {}
    <3> DEFINE g0 == gstate
    <3>1. g0 \in GStates /\ MovesIn(g0.move, m, E, W)
      BY <1>2, <1>4
    <3> HIDE DEF g0
    <3>2. /\ MoveFixed(E[k], c0, g0) \in Logs
          /\ MoveFixed(E[k], c0, g0).tail = c0.tail /\ MoveFixed(E[k], c0, g0).dirs = c0.dirs
          /\ \A n \in Names : MoveFixed(E[k], c0, g0).files[n]
                              = IF Move(E[k], n) \in g0.move THEN Absent ELSE c0.files[n]
          /\ WithoutMove(E[k], g0) \in GStates
          /\ WithoutMove(E[k], g0).move \subseteq g0.move
      BY <1>2, <2>9, <2>13, <3>1, FixedIs
    <3>3. g0.move = {}
      BY <1>2 DEF g0
    <3> QED BY <2>13, <2>14, <2>15, <3>2, <3>3 DEF g0
  <2>18. MovesIn(g.move, m, E, W) /\ \A n \in Names : Move(E[k], n) \notin g.move
    BY <1>4, <2>17
  <2>19. Agreed(m, b, E, W) /\ (b < m => Orphans \in GStateOn(disk))
         /\ task'.k \in Movers /\ (task'.k # "moved" => g.move = {})
         /\ c \in Logs /\ c.tail = After(E, k, m) /\ c.dirs = MDir(E[k]).dirs /\ g \in GStates
    BY <1>2, <2>7, <2>17 DEF Agreed, Movers
  <2>20. /\ gstate' = g
         /\ Soon(m, E)' = View(m, E, g.move, With1(m, E, k, c.files))
         /\ \A l \in 0..m : l # k => MDirOn(disk', E[l]) = MDirOn(disk, E[l])
         /\ \/ Base(m, m, E, E)' /\ reloc' = NoReloc /\ Decoded(disk') = Soon(m, E)'
            \/ Base(m, b, E, W)' /\ reloc' # NoReloc /\ reloc'.at = "parent" /\ Decoded(disk') = Decoded(disk)
    BY <1>4, <2>9, <2>16, <2>18, <2>19, Commits
  <2>21. Soon(m, E)' = dir
    <3>1. View(m, E, g.move, With1(m, E, k, c.files)) = View(m, E, g.move, Files(disk, m, E))
      BY <1>2, <2>9, <2>17, ViewOne
    <3>2. reloc.at # "parent"
      BY <1>1
    <3>3. Soon(m, E) = View(m, E, gstate.move, Files(disk, m, E))
      BY <1>2, <3>2, Presently
    <3> QED BY <1>2, <2>17, <2>20, <3>1, <3>3
  <2>22. dir' = dir /\ want' = want
    BY <1>2, <2>4, <2>20, <2>21
  <2>23. DirRight(m, E)'
    BY <1>2, <2>7, <2>21, <2>22 DEF DirRight
  <2>24. CASE Base(m, m, E, E)'
    <3>1. TaskRight(m, m, E)'
      BY <1>3, <2>7 DEF TaskRight
    <3> QED BY <2>22, <2>23, <2>24, <3>1 DEF At, Base
  <2>25. CASE Base(m, b, E, W)' /\ reloc' # NoReloc
    <3>1. TaskRight(m, b, E)'
      BY <2>7, <2>25 DEF TaskRight
    <3> QED BY <2>22, <2>23, <2>25, <3>1 DEF At, Base
  <2> QED BY <2>20, <2>24, <2>25
<1> QED BY <1>8, <1>9, <1>10, <1>11

-----------------------------------------------------------------------------
(* The two commits of a call                                               *)

\* Made or not yet made, the change is the same.
LEMMA ChangedTwice ==
    ASSUME want' = want, dir' \in {dir, Store!Changed}
    PROVE  Store!Changed' = Store!Changed
BY DEF Store!Changed

\* The first commit of a call makes the change, unless its pair moves.
LEMMA KeepsFirstCommit ==
    ASSUME NEW m, NEW b, NEW E, NEW W, At(m, b, E, W), FirstCommit, dir' = Decoded(disk')
    PROVE  /\ At(m, b, E, W)' \/ At(m, m, E, E)'
           /\ want \in Store!Changes /\ dir' \in {dir, Store!Changed} /\ want' = want
<1>1. /\ task.k = "call" /\ reloc = NoReloc /\ Mounted /\ NoReloc.at = "none"
      /\ Commit(task.pair, task.mdir, task.g, gdelta, NoReloc)
      /\ task' = task.then /\ want' = want
  BY DEF FirstCommit, Ready, NoReloc, Mounted
<1>2. /\ Shape(disk, m, b, E, W) /\ gdelta = {} /\ gdisk = GStateOn(disk)
      /\ MovesIn(GStateOn(disk) \ {Orphans}, m, E, W) /\ b = m /\ m = NDirs /\ CallRight(m, E)
      /\ want \in Store!Changes /\ dir = Decoded(disk)
  <2>1. MarksRight(m, b, E, W) /\ TaskRight(m, b, E) /\ Shape(disk, m, b, E, W) /\ DirRight(m, E) /\ gdelta = {}
    BY DEF At, TypeRight
  <2>2. gdisk = GStateOn(disk) /\ MovesIn(GStateOn(disk) \ {Orphans}, m, E, W)
    BY <1>1, <2>1 DEF MarksRight
  <2>3. b = m /\ m = NDirs /\ CallRight(m, E)
    BY <1>1, <2>1 DEF TaskRight
  <2>4. want \in Store!Changes /\ dir = Decoded(disk)
    BY <1>1, <2>1 DEF DirRight
  <2> QED BY <2>1, <2>2, <2>3, <2>4
<1>3. W = E /\ m \in Nat
  BY <1>2, Whole, ShapeIs
<1>4. PICK k \in 0..m :
        /\ task.pair = E[k] /\ task.mdir \in Logs
        /\ task.mdir.tail = MDir(E[k]).tail /\ task.mdir.dirs = MDir(E[k]).dirs
        /\ Planned(m, E) = Store!Changed
        /\ \/ task.g = Clean /\ task.then = [k |-> "return"]
           \/ \E l \in 0..m, n \in Names :
                 /\ l # k /\ task.g = [orphans |-> 0, move |-> {Move(E[l], n)}]
                 /\ task.then = [k |-> "moved", pair |-> E[l], name |-> n, mdir |-> MDir(E[l])]
  BY <1>2 DEF CallRight
<1>5. PICK c : c = task.mdir
  OBVIOUS
<1>6. PICK g : g = task.g
  OBVIOUS
<1>7. \A l \in 0..m : E[l] = E[k] <=> l = k
  BY <1>2, ShapeIs DEF Apart
<1>8. View(m, E, g.move, With1(m, E, k, c.files)) = Store!Changed
  <2>1. [l \in 0..m |-> IF E[l] = task.pair THEN task.mdir.files ELSE MDir(E[l]).files]
        = With1(m, E, k, c.files)
    BY <1>4, <1>5, <1>7 DEF With1, MDir
  <2> QED BY <1>4, <1>6, <2>1 DEF Planned
<1>10. /\ g \in GStates /\ g.orphans = 0 /\ MovesIn(g.move, m, E, W)
       /\ \A n \in Names : Move(E[k], n) \notin g.move
       /\ task'.k \in {"return", "moved"} /\ (task'.k # "moved" => g.move = {})
       /\ task'.k = "moved" => \E l \in 0..m : l # k /\ task'.pair = E[l] /\ g.move = {Move(task'.pair, task'.name)}
                                               /\ task'.mdir = MDir(E[l])
  <2>1. CASE task.g = Clean /\ task.then = [k |-> "return"]
    <3>1. g.orphans = 0 /\ g.move = {} /\ g \in GStates /\ task'.k = "return"
      BY <1>1, <1>6, <2>1 DEF Clean, GStates
    <3> QED BY <3>1 DEF MovesIn
  <2>2. CASE \E l \in 0..m, n \in Names :
                 /\ l # k /\ task.g = [orphans |-> 0, move |-> {Move(E[l], n)}]
                 /\ task.then = [k |-> "moved", pair |-> E[l], name |-> n, mdir |-> MDir(E[l])]
    <3>1. PICK l \in 0..m, n \in Names :
                 /\ l # k /\ task.g = [orphans |-> 0, move |-> {Move(E[l], n)}]
                 /\ task.then = [k |-> "moved", pair |-> E[l], name |-> n, mdir |-> MDir(E[l])]
      BY <2>2
    <3>2. g.orphans = 0 /\ g.move = {Move(E[l], n)} /\ task'.k = "moved" /\ task'.pair = E[l]
          /\ task'.name = n /\ task'.mdir = MDir(E[l])
      BY <1>1, <1>6, <3>1
    <3>3. Move(E[l], n) \in Marks
      <4>1. E[l] \subseteq Blocks
        BY <1>2, ShapeIs
      <4> QED BY <4>1 DEF Move, Marks
    <3>4. g \in GStates
      <4>1. g = [orphans |-> 0, move |-> {Move(E[l], n)}]
        BY <1>6, <3>1
      <4> QED BY <3>3, <4>1 DEF GStates
    <3>5. MovesIn({Move(E[l], n)}, m, E, W)
      BY <1>3 DEF MovesIn
    <3>6. \A x \in Names : Move(E[k], x) # Move(E[l], n)
      BY <1>7, <3>1 DEF Move
    <3> QED BY <3>1, <3>2, <3>4, <3>5, <3>6
  <2> QED BY <1>4, <2>1, <2>2
<1>11. /\ gstate' = g
       /\ Soon(m, E)' = View(m, E, g.move, With1(m, E, k, c.files))
       /\ \A l \in 0..m : l # k => MDirOn(disk', E[l]) = MDirOn(disk, E[l])
       /\ \/ Base(m, m, E, E)' /\ reloc' = NoReloc /\ Decoded(disk') = Soon(m, E)'
          \/ Base(m, b, E, W)' /\ reloc' # NoReloc /\ reloc'.at = "parent" /\ Decoded(disk') = Decoded(disk)
  <2>1. /\ Agreed(m, b, E, W) /\ MovesIn(GStateOn(disk) \ {Orphans}, m, E, W)
        /\ (b < m => Orphans \in GStateOn(disk)) /\ W[k] = E[k] /\ b \in {k, m}
    BY <1>2, <1>3 DEF Agreed
  <2>2. c \in Logs /\ c.dirs = MDir(E[k]).dirs /\ c.tail = After(E, k, m)
    <3>1. MDir(E[k]).tail = After(W, k, m)
      BY <1>2, <1>3, PairIs
    <3> QED BY <1>3, <1>4, <1>5, <3>1
  <2>3. Commit(E[k], c, g, gdelta, NoReloc)
    BY <1>1, <1>4, <1>5, <1>6
  <2>4. g \in GStates /\ MovesIn(g.move, m, E, W) /\ (\A n \in Names : Move(E[k], n) \notin g.move)
        /\ task'.k \in Movers /\ (task'.k # "moved" => g.move = {})
    BY <1>10 DEF Movers
  <2> QED BY <2>1, <2>2, <2>3, <2>4, Commits
<1>12. dir' \in {dir, Store!Changed} /\ Soon(m, E)' = Store!Changed
  BY <1>2, <1>8, <1>11
<1>13. Store!Changed' = Store!Changed
  BY <1>1, <1>12, ChangedTwice
<1>14. DirRight(m, E)'
  <2>1. want' \in Store!Changes'
    BY <1>1, <1>2 DEF Store!Changes
  <2> QED BY <1>10, <1>12, <1>13, <2>1 DEF DirRight
<1>15. task'.k = "moved" /\ gstate'.move # {} =>
          gstate'.move = {Move(task'.pair, task'.name)} /\ task'.mdir = MDir(task.pair)'
  BY <1>10, <1>11 DEF MDir
<1>16. CASE Base(m, m, E, E)' /\ reloc' = NoReloc
  <2>1. TaskRight(m, m, E)'
    BY <1>1, <1>2, <1>10, <1>11, <1>15, <1>16 DEF TaskRight
  <2> QED BY <1>1, <1>2, <1>12, <1>14, <1>16, <2>1 DEF At, Base
<1>17. CASE Base(m, b, E, W)' /\ reloc' # NoReloc /\ reloc'.at = "parent"
  <2>1. TaskRight(m, b, E)'
    BY <1>2, <1>10, <1>11, <1>15, <1>17 DEF TaskRight
  <2> QED BY <1>1, <1>2, <1>12, <1>14, <1>17, <2>1 DEF At, Base
<1> QED BY <1>11, <1>16, <1>17

\* The second commit of a rename takes away the entry that the mark hides.
LEMMA KeepsMoved ==
    ASSUME NEW m, NEW b, NEW E, NEW W, At(m, b, E, W), Moved, dir' = Decoded(disk')
    PROVE  /\ At(m, b, E, W)' \/ At(m, m, E, E)'
           /\ want \in Store!Changes /\ dir' \in {dir, Store!Changed} /\ want' = want
<1>1. /\ task.k = "moved" /\ reloc = NoReloc /\ Mounted /\ NoReloc.at = "none"
      /\ task' = [k |-> "return"] /\ task'.k = "return" /\ want' = want
  <2>1. task' = [k |-> "return"] /\ want' = want
    BY DEF Moved, Quiet
  <2>2. task'.k = "return"
    BY <2>1
  <2> QED BY <2>1, <2>2 DEF Moved, Ready, NoReloc, Mounted
<1>2. /\ Shape(disk, m, b, E, W) /\ gdelta = {} /\ gdisk = GStateOn(disk) /\ gstate \in GStates
      /\ MovesIn(GStateOn(disk) \ {Orphans}, m, E, W) /\ b = m /\ m = NDirs
      /\ MovesIn(gstate.move, m, E, W) /\ gstate.move = gdisk \ {Orphans} /\ gstate.orphans = 0
      /\ gstate.move # {} => gstate.move = {Move(task.pair, task.name)} /\ task.mdir = MDir(task.pair)
      /\ want \in Store!Changes /\ dir = Decoded(disk) /\ Soon(m, E) = Store!Changed
  <2>1. /\ MarksRight(m, b, E, W) /\ TaskRight(m, b, E) /\ Shape(disk, m, b, E, W) /\ DirRight(m, E)
        /\ gdelta = {} /\ gstate \in GStates
    BY DEF At, TypeRight, GStates
  <2>2. /\ gdisk = GStateOn(disk) /\ MovesIn(GStateOn(disk) \ {Orphans}, m, E, W)
        /\ MovesIn(gstate.move, m, E, W) /\ gstate.move = gdisk \ {Orphans}
    BY <1>1, <2>1 DEF MarksRight
  <2>3. /\ b = m /\ m = NDirs /\ gstate.orphans = 0
        /\ gstate.move # {} => gstate.move = {Move(task.pair, task.name)} /\ task.mdir = MDir(task.pair)
    BY <1>1, <2>1 DEF TaskRight
  <2>4. want \in Store!Changes /\ dir = Decoded(disk) /\ Soon(m, E) = Store!Changed
    BY <1>1, <2>1 DEF DirRight
  <2> QED BY <2>1, <2>2, <2>3, <2>4
<1>3. W = E /\ m \in Nat
  BY <1>2, Whole, ShapeIs
<1>4. CASE gstate.move = {}
  <2>1. /\ disk' = disk /\ gdisk' = gdisk /\ gdelta' = gdelta /\ gstate' = gstate /\ reloc' = reloc
    BY <1>4 DEF Moved, Quiet
  <2>2. TypeRight' /\ RelocRight(m, b, E, W)' /\ LinkRight(m, E)' /\ Shape(disk, m, b, E, W)'
    BY <1>1, <1>2, <2>1 DEF TypeRight, RelocRight, LinkRight, GStates
  <2>3. MarksRight(m, b, E, W)'
    BY <1>1, <1>2, <1>3, <1>4, <2>1 DEF MarksRight
  <2>4. TaskRight(m, b, E)'
    BY <1>1, <1>2, <2>1 DEF TaskRight
  <2>5. Soon(m, E)' = Soon(m, E) /\ Store!Changed' = Store!Changed /\ dir' = dir /\ want' \in Store!Changes'
    BY <1>1, <1>2, <2>1, ChangedTwice DEF Soon, Store!Changes
  <2>6. DirRight(m, E)'
    BY <1>1, <1>2, <2>1, <2>5 DEF DirRight
  <2> QED BY <1>1, <1>2, <2>2, <2>3, <2>4, <2>5, <2>6 DEF At
<1>5. CASE gstate.move # {}
  <2>1. PICK k \in 0..m, n \in Names : W[k] = E[k] /\ Move(task.pair, task.name) = Move(E[k], n)
    BY <1>2, <1>5 DEF MovesIn
  <2>2. task.pair = E[k] /\ task.name = n /\ task.mdir = MDir(E[k]) /\ gstate.move = {Move(E[k], n)}
    BY <1>2, <1>5, <2>1 DEF Move
  <2>3. PICK c : c = [MDir(E[k]) EXCEPT !.files[n] = Absent]
    OBVIOUS
  <2>4. PICK g : g = [gstate EXCEPT !.move = {}]
    OBVIOUS
  <2>5. Commit(E[k], c, g, gdelta, NoReloc)
    BY <1>5, <2>2, <2>3, <2>4 DEF Moved
  <2>6. MDir(E[k]) \in Logs /\ MDir(E[k]).tail = After(E, k, m)
    BY <1>2, <1>3, <2>1, PairIs
  <2>7. /\ c \in Logs /\ c.dirs = MDir(E[k]).dirs /\ c.tail = After(E, k, m)
        /\ \A x \in Names : c.files[x] = IF x = n THEN Absent ELSE MDir(E[k]).files[x]
    BY <2>3, <2>6 DEF Logs, Contents
  <2>8. g \in GStates /\ g.move = {} /\ g.orphans = 0
    BY <1>2, <2>4 DEF GStates
  <2>9. View(m, E, {}, With1(m, E, k, c.files)) = Store!Changed
    <3>1. View(m, E, {}, With1(m, E, k, c.files)) = View(m, E, gstate.move, Files(disk, m, E))
      BY <1>2, <2>2, <2>7, ViewTaken
    <3>2. reloc.at # "parent"
      BY <1>1
    <3>3. Soon(m, E) = View(m, E, gstate.move, Files(disk, m, E))
      BY <1>2, <3>2, Presently
    <3> QED BY <1>2, <3>1, <3>3
  <2>10. /\ gstate' = g
         /\ Soon(m, E)' = View(m, E, g.move, With1(m, E, k, c.files))
         /\ \A l \in 0..m : l # k => MDirOn(disk', E[l]) = MDirOn(disk, E[l])
         /\ \/ Base(m, m, E, E)' /\ reloc' = NoReloc /\ Decoded(disk') = Soon(m, E)'
            \/ Base(m, b, E, W)' /\ reloc' # NoReloc /\ reloc'.at = "parent" /\ Decoded(disk') = Decoded(disk)
    <3>1. /\ Agreed(m, b, E, W) /\ MovesIn(GStateOn(disk) \ {Orphans}, m, E, W)
          /\ (b < m => Orphans \in GStateOn(disk)) /\ W[k] = E[k] /\ b \in {k, m}
      BY <1>2, <1>3 DEF Agreed
    <3>2. c \in Logs /\ c.dirs = MDir(E[k]).dirs /\ c.tail = After(E, k, m)
      BY <2>7
    <3>3. g \in GStates /\ MovesIn(g.move, m, E, W) /\ (\A x \in Names : Move(E[k], x) \notin g.move)
          /\ task'.k \in Movers /\ (task'.k # "moved" => g.move = {})
      BY <1>1, <2>8 DEF Movers, MovesIn
    <3> QED BY <2>5, <3>1, <3>2, <3>3, Commits
  <2>11. dir' \in {dir, Store!Changed} /\ Soon(m, E)' = Store!Changed
    BY <1>2, <2>8, <2>9, <2>10
  <2>12. Store!Changed' = Store!Changed
    BY <1>1, <2>11, ChangedTwice
  <2>13. DirRight(m, E)'
    <3>1. want' \in Store!Changes'
      BY <1>1, <1>2 DEF Store!Changes
    <3> QED BY <1>1, <2>11, <2>12, <3>1 DEF DirRight
  <2>14. CASE Base(m, m, E, E)' /\ reloc' = NoReloc
    <3>1. TaskRight(m, m, E)'
      BY <1>1, <1>2, <2>8, <2>10, <2>14 DEF TaskRight
    <3> QED BY <1>1, <1>2, <2>11, <2>13, <2>14, <3>1 DEF At, Base
  <2>15. CASE Base(m, b, E, W)' /\ reloc' # NoReloc /\ reloc'.at = "parent"
    <3>1. TaskRight(m, b, E)'
      BY <1>1, <1>2, <2>8, <2>10, <2>15 DEF TaskRight
    <3> QED BY <1>1, <1>2, <2>11, <2>13, <2>15, <3>1 DEF At, Base
  <2> QED BY <2>10, <2>14, <2>15
<1> QED BY <1>4, <1>5

-----------------------------------------------------------------------------
(* A pair that moved is linked: first in its entry, then in the list       *)

\* The predecessor learns of the pair that moved, and may move itself.
LEMMA KeepsFixPred ==
    ASSUME NEW m, NEW b, NEW E, NEW W, At(m, b, E, W), FixPred, dir' = Decoded(disk')
    PROVE  /\ At(m, b, E, W)' \/ At(m, m, E, E)'
           /\ want' = want /\ dir' \in {dir, Soon(m, E)}
           /\ Soon(m, E) # dir => want \in Store!Changes /\ Soon(m, E) = Store!Changed
<1>1. reloc.at = "pred" /\ reloc # NoReloc /\ task' = task /\ want' = want /\ Mounted
  <2>1. reloc.at = "pred" /\ task' = task /\ want' = want
    BY DEF FixPred
  <2>2. reloc # NoReloc
    BY <2>1 DEF NoReloc
  <2>3. task.k # "off"
    BY <2>1, <2>2 DEF At, RelocRight, Movers
  <2> QED BY <2>1, <2>2, <2>3 DEF Mounted
<1>2. /\ task.k \in Movers /\ b < m /\ gstate.orphans > 0
      /\ reloc = [at |-> "pred", old |-> W[b + 1], new |-> E[b + 1], hasparent |-> TRUE]
  BY <1>1 DEF At, RelocRight
<1>3. reloc.old = W[b + 1] /\ reloc.new = E[b + 1] /\ reloc.hasparent
  BY <1>2
<1>4. /\ Shape(disk, m, b, E, W) /\ gdelta = {} /\ gdisk = GStateOn(disk) /\ gstate \in GStates
      /\ MovesIn(GStateOn(disk) \ {Orphans}, m, E, W) /\ Orphans \in GStateOn(disk)
      /\ MovesIn(gstate.move, m, E, W)
      /\ task.k # "moved" => gstate.move = {}
      /\ dir = Decoded(disk) /\ TaskRight(m, b, E) /\ DirRight(m, E)
  <2>1. /\ MarksRight(m, b, E, W) /\ TaskRight(m, b, E) /\ Shape(disk, m, b, E, W) /\ DirRight(m, E)
        /\ gdelta = {} /\ gstate \in GStates
    BY DEF At, TypeRight, GStates
  <2>2. /\ gdisk = GStateOn(disk) /\ MovesIn(GStateOn(disk) \ {Orphans}, m, E, W)
        /\ MovesIn(gstate.move, m, E, W) /\ Orphans \in GStateOn(disk)
        /\ task.k # "moved" => gstate.move = {}
    BY <1>1, <1>2, <2>1 DEF MarksRight, Movers
  <2> QED BY <2>1, <2>2 DEF DirRight
<1>5. m \in Nat /\ b \in Nat /\ b <= m /\ b \in 0..m /\ b + 1 \in 0..m
  <2>1. m \in Nat /\ b \in Nat /\ b <= m
    BY <1>4, ShapeIs
  <2> QED BY <1>2, <2>1
<1>6. PICK k : k = b
  OBVIOUS
<1>7. k \in 0..m /\ W[k] = E[k] /\ b \in {k, m} /\ After(E, k, m) = E[b + 1] /\ E[b + 1] \subseteq Blocks
  <2>1. W[b] = E[b]
    BY <1>4, <1>5 DEF Shape, Side
  <2>2. E[b + 1] \subseteq Blocks
    BY <1>4, <1>5, ShapeIs
  <2> QED BY <1>2, <1>5, <1>6, <2>1, <2>2 DEF After
<1>8. Preds(reloc.old) = {E[k]}
  <2>1. Preds(W[b + 1]) = {W[b]}
    BY <1>2, <1>4, <1>5, PredsIs
  <2> QED BY <1>3, <1>6, <1>7, <2>1
<1>9. PICK c0 : c0 = [MDir(E[k]) EXCEPT !.tail = E[b + 1]]
  OBVIOUS
<1>10. PICK g0 : g0 = [gstate EXCEPT !.orphans = @ - 1]
  OBVIOUS
<1>11. PICK c : c = MoveFixed(E[k], c0, g0)
  OBVIOUS
<1>12. PICK g : g = WithoutMove(E[k], g0)
  OBVIOUS
<1>13. Commit(E[k], c, g, gdelta, NoReloc)
  <2>1. \E q \in Preds(reloc.old) :
              LET c1 == [MDir(q) EXCEPT !.tail = reloc.new]
                  g1 == IF reloc.hasparent /\ gstate.orphans > 0
                        THEN [gstate EXCEPT !.orphans = @ - 1] ELSE gstate
              IN  Commit(q, MoveFixed(q, c1, g1), WithoutMove(q, g1), gdelta, NoReloc)
    BY <1>8 DEF FixPred
  <2>2. Commit(E[k], MoveFixed(E[k], [MDir(E[k]) EXCEPT !.tail = E[b + 1]], [gstate EXCEPT !.orphans = @ - 1]),
               WithoutMove(E[k], [gstate EXCEPT !.orphans = @ - 1]), gdelta, NoReloc)
    BY <1>2, <1>3, <1>8, <2>1
  <2> QED BY <1>9, <1>10, <1>11, <1>12, <2>2
<1>14. /\ c0 \in Logs /\ c0.tail = After(E, k, m) /\ c0.dirs = MDir(E[k]).dirs
       /\ c0.files = MDir(E[k]).files
  <2>1. MDir(E[k]) \in Logs
    BY <1>4, <1>7, PairIs
  <2> QED BY <1>7, <1>9, <2>1 DEF Logs
<1>15. g0 \in GStates /\ g0.move = gstate.move /\ g0.orphans = gstate.orphans - 1
  BY <1>2, <1>4, <1>10 DEF GStates
<1>16. /\ c \in Logs /\ c.tail = After(E, k, m) /\ c.dirs = MDir(E[k]).dirs
       /\ g \in GStates /\ g.orphans = g0.orphans /\ g.move \subseteq g0.move
       /\ MovesIn(g.move, m, E, W) /\ \A n \in Names : Move(E[k], n) \notin g.move
  <2>1. MovesIn(g0.move, m, E, W) /\ Shape(disk, m, b, E, W) /\ c0 \in Logs /\ g0 \in GStates /\ k \in 0..m
    BY <1>4, <1>7, <1>14, <1>15
  <2>2. MoveFixed(E[k], c0, g0) \in Logs
    BY <2>1, FixedIs
  <2>5. MoveFixed(E[k], c0, g0).tail = c0.tail /\ MoveFixed(E[k], c0, g0).dirs = c0.dirs
    BY <2>1, FixedIs
  <2>6. WithoutMove(E[k], g0) \in GStates
    BY <2>1, FixedIs
  <2>7. WithoutMove(E[k], g0).orphans = g0.orphans
    BY <2>1, FixedIs
  <2>8. WithoutMove(E[k], g0).move \subseteq g0.move
    BY <2>1, FixedIs
  <2>3. MovesIn(WithoutMove(E[k], g0).move, m, E, W)
    BY <2>1, FixedIs
  <2>4. \A n \in Names : Move(E[k], n) \notin WithoutMove(E[k], g0).move
    BY <2>1, FixedIs
  <2> QED BY <1>11, <1>12, <1>14, <2>2, <2>3, <2>4, <2>5, <2>6, <2>7, <2>8
<1>17. View(m, E, g.move, With1(m, E, k, c.files)) = Soon(m, E)
  <2>1. MovesIn(g0.move, m, E, W)
    BY <1>4, <1>15
  <2>2. View(m, E, g.move, With1(m, E, k, c.files)) = View(m, E, g0.move, With1(m, E, k, c0.files))
    BY <1>4, <1>7, <1>11, <1>12, <1>14, <1>15, <2>1, ViewFixed
  <2>3. View(m, E, g0.move, With1(m, E, k, c0.files)) = View(m, E, g0.move, Files(disk, m, E))
    BY <1>4, <1>7, <1>14, ViewOne
  <2>4. reloc.at # "parent"
    BY <1>1
  <2>5. Soon(m, E) = View(m, E, gstate.move, Files(disk, m, E))
    BY <1>4, <2>4, Presently
  <2> QED BY <1>15, <2>2, <2>3, <2>5
<1>18. /\ gstate' = g
       /\ Soon(m, E)' = View(m, E, g.move, With1(m, E, k, c.files))
       /\ \A l \in 0..m : l # k => MDirOn(disk', E[l]) = MDirOn(disk, E[l])
       /\ \/ Base(m, m, E, E)' /\ reloc' = NoReloc /\ Decoded(disk') = Soon(m, E)'
          \/ Base(m, b, E, W)' /\ reloc' # NoReloc /\ reloc'.at = "parent" /\ Decoded(disk') = Decoded(disk)
  <2>1. /\ Agreed(m, b, E, W) /\ MovesIn(GStateOn(disk) \ {Orphans}, m, E, W)
        /\ (b < m => Orphans \in GStateOn(disk)) /\ W[k] = E[k] /\ b \in {k, m} /\ k \in 0..m
    BY <1>4, <1>7 DEF Agreed
  <2>2. c \in Logs /\ c.dirs = MDir(E[k]).dirs /\ c.tail = After(E, k, m)
    BY <1>16
  <2>3. g \in GStates /\ MovesIn(g.move, m, E, W) /\ (\A n \in Names : Move(E[k], n) \notin g.move)
        /\ task'.k \in Movers /\ (task'.k # "moved" => g.move = {})
    BY <1>1, <1>2, <1>4, <1>15, <1>16
  <2> QED BY <1>13, <2>1, <2>2, <2>3, Commits
<1>19. dir' \in {dir, Soon(m, E)} /\ Soon(m, E)' = Soon(m, E)
  BY <1>4, <1>17, <1>18
<1>20. /\ task.k \in {"moved", "return"} => want \in Store!Changes /\ Soon(m, E) = Store!Changed
       /\ task.k = "deorphan" => Soon(m, E) = dir /\ want = << >>
  BY <1>1, <1>4 DEF DirRight
<1>21. DirRight(m, E)'
  <2>1. CASE task.k = "deorphan"
    BY <1>1, <1>19, <1>20, <2>1 DEF DirRight
  <2>2. CASE task.k \in {"moved", "return"}
    <3>1. Store!Changed' = Store!Changed
      BY <1>1, <1>19, <1>20, <2>2, ChangedTwice
    <3>2. want' \in Store!Changes'
      BY <1>1, <1>20, <2>2 DEF Store!Changes
    <3> QED BY <1>1, <1>19, <1>20, <2>2, <3>1, <3>2 DEF DirRight
  <2> QED BY <1>2, <2>1, <2>2 DEF Movers
<1>22. task.k = "moved" /\ g.move # {} => g.move = {Move(task.pair, task.name)} /\ task.mdir = MDir(task.pair)'
  <2> SUFFICES ASSUME task.k = "moved", g.move # {}
               PROVE  g.move = {Move(task.pair, task.name)} /\ task.mdir = MDir(task.pair)'
    OBVIOUS
  <2>1. gstate.move = {Move(task.pair, task.name)} /\ task.mdir = MDir(task.pair)
    BY <1>4, <1>15, <1>16 DEF TaskRight
  <2>2. g.move = {Move(task.pair, task.name)}
    BY <1>15, <1>16, <2>1
  <2>3. PICK l \in 0..m, n \in Names : Move(task.pair, task.name) = Move(E[l], n)
    BY <1>16, <2>2 DEF MovesIn
  <2>4. task.pair = E[l] /\ l # k
    BY <1>16, <2>2, <2>3 DEF Move
  <2> QED BY <1>1, <1>18, <2>1, <2>2, <2>4 DEF MDir
<1>23. task.k \in {"moved", "return"} => m = NDirs /\ g.orphans = 0
  BY <1>1, <1>2, <1>4, <1>15, <1>16 DEF TaskRight
<1>24. task.k = "deorphan" => task = [k |-> "deorphan", pass |-> task.pass, at |-> task.at] /\ task.pass \in {0, 1}
  BY <1>4 DEF TaskRight
<1>25. CASE Base(m, m, E, E)' /\ reloc' = NoReloc
  <2>1. TaskRight(m, m, E)'
    <3>1. reloc'.at # "pred"
      BY <1>25 DEF NoReloc
    <3> QED BY <1>1, <1>2, <1>5, <1>18, <1>22, <1>23, <1>24, <3>1 DEF TaskRight, Movers
  <2> QED BY <1>1, <1>19, <1>20, <1>2, <1>21, <1>25, <2>1 DEF At, Base, Movers
<1>26. CASE Base(m, b, E, W)' /\ reloc' # NoReloc /\ reloc'.at = "parent"
  <2>1. TaskRight(m, b, E)'
    BY <1>1, <1>2, <1>18, <1>22, <1>23, <1>24, <1>26 DEF TaskRight, Movers
  <2> QED BY <1>1, <1>19, <1>20, <1>2, <1>21, <1>26, <2>1 DEF At, Base, Movers
<1> QED BY <1>18, <1>25, <1>26

\* The record of a pair that moved, once the root knows it.
LEMMA Told ==
    ASSUME NEW p, NEW q, NEW f, NEW t
    PROVE  [[at |-> "parent", old |-> p, new |-> q, hasparent |-> f] EXCEPT !.at = "pred", !.hasparent = t]
           = [at |-> "pred", old |-> p, new |-> q, hasparent |-> t]
<1>1. [[at |-> "parent", old |-> p, new |-> q, hasparent |-> f] EXCEPT !.at = "pred"]
      = [at |-> "pred", old |-> p, new |-> q, hasparent |-> f]
  OBVIOUS
<1>2. [[at |-> "pred", old |-> p, new |-> q, hasparent |-> f] EXCEPT !.hasparent = t]
      = [at |-> "pred", old |-> p, new |-> q, hasparent |-> t]
  OBVIOUS
<1> QED BY <1>1, <1>2, Zenon

\* The root learns of the pair that moved; now its contents are found.
LEMMA KeepsFixParent ==
    ASSUME NEW m, NEW b, NEW E, NEW W, At(m, b, E, W), FixParent, dir' = Decoded(disk')
    PROVE  /\ \E b1, E1 : At(m, b1, E1, W)'
           /\ want' = want /\ dir' \in {dir, Soon(m, E)}
           /\ Soon(m, E) # dir => want \in Store!Changes /\ Soon(m, E) = Store!Changed
<1>1. reloc.at = "parent" /\ reloc # NoReloc /\ task' = task /\ want' = want /\ Mounted
  <2>1. reloc.at = "parent" /\ task' = task /\ want' = want
    BY DEF FixParent
  <2>2. reloc # NoReloc
    BY <2>1 DEF NoReloc
  <2>3. task.k # "off"
    BY <2>1, <2>2 DEF At, RelocRight, Movers
  <2> QED BY <2>1, <2>2, <2>3 DEF Mounted
<1>2. PICK j \in 0..m :
        /\ Moving(disk, m, b, E, W, j, reloc.new)
        /\ reloc = [at |-> "parent", old |-> E[j], new |-> reloc.new, hasparent |-> FALSE]
        /\ \A n \in Names : Move(E[j], n) \notin gstate.move
  BY <1>1 DEF At, RelocRight
<1>3. PICK new : new = reloc.new
  OBVIOUS
<1>4. reloc.old = E[j] /\ reloc.hasparent = FALSE /\ Moving(disk, m, b, E, W, j, new)
      /\ reloc = [at |-> "parent", old |-> E[j], new |-> new, hasparent |-> FALSE]
  BY <1>2, <1>3
<1>5. /\ Shape(disk, m, b, E, W) /\ gdelta = {} /\ gdisk = GStateOn(disk) /\ gstate \in GStates
      /\ MovesIn(gstate.move, m, E, W) /\ task.k \in Movers
      /\ task.k # "moved" => gstate.move = {}
      /\ dir = Decoded(disk) /\ TaskRight(m, b, E) /\ DirRight(m, E)
  <2>1. /\ MarksRight(m, b, E, W) /\ TaskRight(m, b, E) /\ Shape(disk, m, b, E, W) /\ DirRight(m, E)
        /\ gdelta = {} /\ gstate \in GStates /\ task.k \in Movers
    BY <1>1 DEF At, TypeRight, GStates, RelocRight
  <2>2. /\ gdisk = GStateOn(disk) /\ MovesIn(gstate.move, m, E, W)
        /\ task.k # "moved" => gstate.move = {}
    BY <1>1, <2>1 DEF MarksRight, Movers
  <2> QED BY <2>1, <2>2 DEF DirRight
<1>6. m \in Nat /\ b \in Nat /\ b <= m /\ j \in 1..m /\ 0 \in 0..m /\ E[0] = Root /\ W[0] = Root
  <2>1. m \in Nat /\ b \in Nat /\ b <= m /\ 0 \in 0..m /\ E[0] = Root /\ W[0] = Root
    BY <1>5, ShapeIs
  <2>2. j \in 1..b
    BY <1>4 DEF Moving
  <2> QED BY <2>1, <2>2
<1>7. Parents(reloc.old) = {Root}
  <2>1. Same(E[j], E[j])
    BY <1>2, <1>5, ShapeIs DEF Same
  <2> QED BY <1>4, <1>5, <1>6, <2>1, ParentsIs
<1> DEFINE B == [d \in Dirs |-> IF Same(MDir(Root).dirs[d], E[j]) THEN new ELSE MDir(Root).dirs[d]]
<1>8. PICK c0 : c0 = [MDir(Root) EXCEPT !.dirs = B]
  OBVIOUS
<1>9. PICK g0 : g0 = [gstate EXCEPT !.orphans = @ + 1]
  OBVIOUS
<1>10. PICK c : c = MoveFixed(Root, c0, g0)
  OBVIOUS
<1>11. PICK g : g = WithoutMove(Root, g0)
  OBVIOUS
<1>12. PICK after : after = [at |-> "pred", old |-> E[j], new |-> new, hasparent |-> TRUE]
  OBVIOUS
<1>13. Commit(Root, c, g, gdelta, after)
  <2>1. LET c1 == [MDir(Root) EXCEPT !.dirs =
                         [d \in Dirs |-> IF Same(@[d], reloc.old) THEN reloc.new ELSE @[d]]]
            g1 == [gstate EXCEPT !.orphans = @ + 1]
        IN  Commit(Root, MoveFixed(Root, c1, g1), WithoutMove(Root, g1), gdelta,
                   [reloc EXCEPT !.at = "pred", !.hasparent = TRUE])
    BY <1>7 DEF FixParent
  <2>2. [MDir(Root) EXCEPT !.dirs =
             [d \in Dirs |-> IF Same(@[d], reloc.old) THEN reloc.new ELSE @[d]]] = c0
    BY <1>3, <1>4, <1>8
  <2>3. [reloc EXCEPT !.at = "pred", !.hasparent = TRUE] = after
    <3>1. reloc = [at |-> "parent", old |-> E[j], new |-> new, hasparent |-> FALSE]
      BY <1>4
    <3> QED BY <1>12, <3>1, Told, Zenon
  <2> QED BY <1>9, <1>10, <1>11, <2>1, <2>2, <2>3
<1>14. MDir(Root) \in Logs /\ Good(disk, Root) /\ disk \in Disks /\ Root \cap Free = {}
       /\ Good(disk, new) /\ new \subseteq Blocks
  <2>1. MDir(E[0]) \in Logs /\ Good(disk, E[0]) /\ disk \in Disks /\ E[0] \cap Free = {}
    BY <1>5, <1>6, PairIs
  <2>2. Good(disk, new)
    BY <1>4 DEF Moving
  <2> QED BY <1>6, <2>1, <2>2, GoodIs
<1>15. /\ c0 \in Logs /\ c0.tail = MDir(Root).tail /\ c0.files = MDir(Root).files
       /\ c0.dirs = B
  <2>1. B \in [Dirs -> SUBSET Blocks]
    BY <1>14 DEF Logs
  <2> HIDE DEF B
  <2> QED BY <1>8, <1>14, <2>1 DEF Logs
<1>16. g0 \in GStates /\ g0.move = gstate.move /\ g0.orphans = gstate.orphans + 1
  BY <1>5, <1>9 DEF GStates
<1>17. /\ c \in Logs /\ c.tail = MDir(Root).tail /\ c.dirs = B
       /\ \A n \in Names : c.files[n] = IF Move(Root, n) \in gstate.move THEN Absent ELSE MDir(Root).files[n]
       /\ g \in GStates /\ g.orphans = g0.orphans /\ g.move \subseteq g0.move
       /\ MovesIn(g.move, m, E, W) /\ (\A n \in Names : Move(Root, n) \notin g.move)
       /\ \A l \in 0..m, n \in Names : l # 0 => (Move(E[l], n) \in g.move <=> Move(E[l], n) \in gstate.move)
  <2> HIDE DEF B
  <2>0. PICK k : k = 0
    OBVIOUS
  <2>1. MovesIn(g0.move, m, E, W) /\ Shape(disk, m, b, E, W) /\ c0 \in Logs /\ g0 \in GStates /\ k \in 0..m
    BY <1>5, <1>6, <1>15, <1>16, <2>0
  <2>2. MoveFixed(E[k], c0, g0) \in Logs
    BY <2>1, FixedIs
  <2>3. MoveFixed(E[k], c0, g0).tail = c0.tail /\ MoveFixed(E[k], c0, g0).dirs = c0.dirs
    BY <2>1, FixedIs
  <2>4. \A n \in Names : MoveFixed(E[k], c0, g0).files[n]
                         = IF Move(E[k], n) \in g0.move THEN Absent ELSE c0.files[n]
    BY <2>1, FixedIs
  <2>5. WithoutMove(E[k], g0) \in GStates
    BY <2>1, FixedIs
  <2>6. WithoutMove(E[k], g0).orphans = g0.orphans
    BY <2>1, FixedIs
  <2>7. WithoutMove(E[k], g0).move \subseteq g0.move
    BY <2>1, FixedIs
  <2>8. MovesIn(WithoutMove(E[k], g0).move, m, E, W)
    BY <2>1, FixedIs
  <2>9. \A n \in Names : Move(E[k], n) \notin WithoutMove(E[k], g0).move
    BY <2>1, FixedIs
  <2>10. \A l \in 0..m, n \in Names : l # k =>
             (Move(E[l], n) \in WithoutMove(E[k], g0).move <=> Move(E[l], n) \in g0.move)
    BY <2>1, FixedIs
  <2>11. E[k] = Root /\ c = MoveFixed(E[k], c0, g0) /\ g = WithoutMove(E[k], g0)
    BY <1>6, <1>10, <1>11, <2>0
  <2>12. c \in Logs /\ c.tail = MDir(Root).tail /\ c.dirs = B
    BY <1>15, <2>2, <2>3, <2>11
  <2>13. \A n \in Names : c.files[n] = IF Move(Root, n) \in gstate.move THEN Absent ELSE MDir(Root).files[n]
    BY <1>15, <1>16, <2>4, <2>11
  <2>14. g \in GStates /\ g.orphans = g0.orphans /\ g.move \subseteq g0.move /\ MovesIn(g.move, m, E, W)
    BY <2>5, <2>6, <2>7, <2>8, <2>11
  <2>15. \A n \in Names : Move(Root, n) \notin g.move
    BY <2>9, <2>11
  <2>16. \A l \in 0..m, n \in Names : l # 0 => (Move(E[l], n) \in g.move <=> Move(E[l], n) \in gstate.move)
    BY <1>16, <2>0, <2>10, <2>11
  <2> QED BY <2>12, <2>13, <2>14, <2>15, <2>16
<1> HIDE DEF B
<1>18. PICK dk1 : \E x \in Root : WroteIn(dk1, Root, x, c, g, gdelta, after)
  <2>1. gdelta \in SUBSET Marks /\ gdisk \in SUBSET Marks /\ g.move \in SUBSET Marks
    BY <1>5, <1>17, GStateMarks DEF GStates
  <2>2. \/ \E dk1 : \E x \in Root : WroteIn(dk1, Root, x, c, g, gdelta, after)
        \/ \E dk1 : \E x \in Free : WroteOut(dk1, Root, x, c, gdelta)
    BY <1>13, <1>14, <1>17, <2>1, CommitCases
  <2>3. ~\E dk1 : \E x \in Free : WroteOut(dk1, Root, x, c, gdelta)
    BY DEF WroteOut
  <2> QED BY <2>2, <2>3
<1>19. PICK x \in Root : WroteIn(dk1, Root, x, c, g, gdelta, after)
  BY <1>18
<1>20. PICK full : full = Delta(Root, g, gdelta)
  OBVIOUS
<1>21. full \in SUBSET Marks /\ full = Xor(MDir(Root).delta, Xor(gdisk, OnDisk(g)))
  <2>1. gdisk \in SUBSET Marks /\ MDir(Root).delta \in SUBSET Marks /\ OnDisk(g) \in SUBSET Marks
    <3>1. g.move \in SUBSET Marks
      BY <1>17 DEF GStates
    <3> QED BY <1>5, <1>14, <3>1, GStateMarks, OnDiskIn DEF Logs
  <2>2. full = Xor(MDir(Root).delta, Xor(gdisk, OnDisk(g)))
    BY <1>5, <1>20, DeltaIs
  <2> QED BY <2>1, <2>2, XorIn
<1>22. /\ Wrote(disk, dk1, Root, x, c, full) /\ disk' = Kept(dk1, {new}) /\ gdisk' = OnDisk(g) /\ reloc' = after
       /\ gstate' = g /\ gdelta' = {}
  <2>1. Ram(after) = {new}
    <3>1. after # NoReloc /\ after.new = new
      BY <1>12 DEF NoReloc
    <3> QED BY <3>1 DEF Ram
  <2>2. gstate' = g /\ gdelta' = {}
    BY <1>13 DEF Commit
  <2> QED BY <1>19, <1>20, <2>1, <2>2 DEF WroteIn
<1>23. PICK E1 : E1 = [E EXCEPT ![j] = new]
  OBVIOUS
<1>24. DOMAIN E = 0..m
  BY <1>5 DEF Shape, Frame
<1>25. \A l \in 0..m : E1[l] = IF l = j THEN new ELSE E[l]
  BY <1>23, <1>24
<1>26. /\ Shape(dk1, m, j - 1, E1, W) /\ Stays(disk, dk1, new)
       /\ \A l \in 0..m : l # 0 => Stays(disk, dk1, E[l]) /\ Stays(disk, dk1, W[l])
  <2>1. \A d \in Dirs : c.dirs[d] = IF Same(MDirOn(disk, Root).dirs[d], E[j]) THEN new
                                    ELSE MDirOn(disk, Root).dirs[d]
    BY <1>17 DEF B, MDir
  <2>2. c.tail = MDirOn(disk, Root).tail /\ c \in Logs /\ Shape(disk, m, b, E, W)
    BY <1>5, <1>17 DEF MDir
  <2>3. Moving(disk, m, b, E, W, j, new) /\ Wrote(disk, dk1, Root, x, c, full) /\ full \in SUBSET Marks
    BY <1>4, <1>21, <1>22
  <2>4. Shape(dk1, m, j - 1, E1, W)
    BY <1>23, <2>1, <2>2, <2>3, Reenters
  <2>5. Stays(disk, dk1, new)
    <3>1. x \notin new
      BY <1>4, <1>6 DEF Moving
    <3> QED BY <1>14, <1>22, <3>1 DEF Wrote
  <2>6. \A l \in 0..m : l # 0 => Stays(disk, dk1, E[l]) /\ Stays(disk, dk1, W[l])
    BY <1>5, <1>6, <1>22, Others
  <2> QED BY <2>4, <2>5, <2>6
<1>27. /\ Shape(disk', m, j - 1, E1, W)
       /\ \A l \in 0..m : Stays(dk1, disk', E1[l]) /\ Stays(dk1, disk', W[l])
  <2>1. \A r \in {new} : Good(dk1, r)
    BY <1>26 DEF Stays
  <2>2. PICK b1 : b1 = j - 1
    OBVIOUS
  <2>3. Shape(dk1, m, b1, E1, W)
    BY <1>26, <2>2
  <2>4. PICK ram : ram = {new}
    OBVIOUS
  <2>5. \A r \in ram : Good(dk1, r)
    BY <2>1, <2>4
  <2>6. /\ Shape(Kept(dk1, ram), m, b1, E1, W)
        /\ \A l \in 0..m : Stays(dk1, Kept(dk1, ram), E1[l]) /\ Stays(dk1, Kept(dk1, ram), W[l])
    BY <2>3, <2>5, Forgets
  <2> QED BY <1>22, <2>2, <2>4, <2>6
<1>28. \A l \in 0..m : l # 0 => /\ MDirOn(disk', E1[l]) = MDirOn(disk, E1[l])
                                /\ MDirOn(disk', W[l]) = MDirOn(disk, W[l])
  <2> SUFFICES ASSUME NEW l \in 0..m, l # 0
               PROVE  /\ MDirOn(disk', E1[l]) = MDirOn(disk, E1[l])
                      /\ MDirOn(disk', W[l]) = MDirOn(disk, W[l])
    OBVIOUS
  <2>1. Stays(disk, dk1, W[l]) /\ Stays(disk, dk1, E1[l])
    BY <1>25, <1>26
  <2>2. Stays(dk1, disk', W[l]) /\ Stays(dk1, disk', E1[l])
    BY <1>27
  <2> QED BY <2>1, <2>2 DEF Stays
<1>29. MDirOn(disk', Root).files = c.files /\ MDirOn(disk', Root).delta = full
  <2>1. MDirOn(dk1, Root).files = c.files /\ MDirOn(dk1, Root).delta = full
    BY <1>17, <1>22, WroteIs
  <2>2. Stays(dk1, disk', Root)
    BY <1>6, <1>27
  <2> QED BY <2>1, <2>2 DEF Stays
<1>30. GStateOn(disk') = OnDisk(g)
  <2>1. \A l \in 0..m : l # 0 => MDirOn(disk', W[l]).delta = MDirOn(disk, W[l]).delta
    BY <1>28
  <2>2. MDirOn(disk', W[0]).delta = Xor(MDirOn(disk, W[0]).delta, Xor(gdisk, OnDisk(g)))
    BY <1>6, <1>21, <1>29 DEF MDir
  <2>3. GStateOn(disk') = Xor(GStateOn(disk), Xor(gdisk, OnDisk(g)))
    <3>1. Shape(disk, m, b, E, W) /\ Shape(disk', m, j - 1, E1, W) /\ 0 \in 0..m
      BY <1>5, <1>6, <1>27
    <3> QED BY <2>1, <2>2, <3>1, GStateXor
  <2> QED BY <1>5, <2>3, XorLaws
<1>31. MovesIn(g.move, m, E1, W) /\ Orphans \notin g.move
  <2>1. Orphans \notin g.move
    BY <1>5, <1>17, MovesMarks
  <2>2. ASSUME NEW mv \in g.move
        PROVE  g.move = {mv} /\ \E l \in 0..m, n \in Names : W[l] = E1[l] /\ mv = Move(E1[l], n)
    <3>1. g.move = {mv} /\ \E l \in 0..m, n \in Names : W[l] = E[l] /\ mv = Move(E[l], n)
      BY <1>17 DEF MovesIn
    <3>2. PICK l \in 0..m, n \in Names : W[l] = E[l] /\ mv = Move(E[l], n)
      BY <3>1
    <3>3. l # j
      BY <1>2, <1>16, <1>17, <3>2
    <3> QED BY <1>25, <3>1, <3>2, <3>3
  <2> QED BY <2>1, <2>2 DEF MovesIn
<1>32. g.orphans > 0 /\ OnDisk(g) \ {Orphans} = g.move /\ Orphans \in OnDisk(g)
  <2>1. gstate.orphans \in Nat /\ g.orphans = gstate.orphans + 1
    BY <1>5, <1>16, <1>17 DEF GStates
  <2>2. g.orphans > 0
    BY <2>1
  <2> QED BY <1>31, <2>2 DEF OnDisk
<1>33. reloc'.at = "pred" /\ reloc' # NoReloc
  BY <1>12, <1>22 DEF NoReloc
<1>34. /\ Decoded(disk') = View(m, E1, g.move, Files(disk', m, E1))
       /\ SoonOn(disk', reloc', g.move, m, E1) = Decoded(disk')
  <2>1. GStateOn(disk') \ {Orphans} = g.move
    BY <1>30, <1>32
  <2>2. reloc'.at # "parent"
    BY <1>33
  <2> QED BY <1>27, <1>31, <2>1, <2>2, FoundNow
<1>35. View(m, E1, g.move, Files(disk', m, E1)) = Soon(m, E)
  <2>1. ShownOn(reloc, m, E) = E1
    <3>1. \A l \in 0..m : E[l] = E[j] <=> l = j
      BY <1>2, <1>5, ShapeIs DEF Apart
    <3>2. E1 = [l \in 0..m |-> E1[l]]
      BY <1>23, <1>24
    <3>3. \A l \in 0..m : (IF reloc.at = "parent" /\ E[l] = reloc.old THEN reloc.new ELSE E[l]) = E1[l]
      BY <1>1, <1>3, <1>4, <1>25, <3>1
    <3> QED BY <3>2, <3>3 DEF ShownOn
  <2>2. Soon(m, E) = View(m, E1, gstate.move, Files(disk, m, E1))
    BY <2>1 DEF Soon, SoonOn
  <2>3. ASSUME NEW l \in 0..m, NEW n \in Names
        PROVE  ViewAt(E1, g.move, Files(disk', m, E1), l, n)
               = ViewAt(E1, gstate.move, Files(disk, m, E1), l, n)
    <3>1. CASE l = 0
      <4>1. E1[l] = Root
        BY <1>6, <1>25, <3>1
      <4>2. Move(Root, n) \notin g.move
        BY <1>17
      <4>3. Files(disk', m, E1)[l][n] = IF Move(Root, n) \in gstate.move THEN Absent ELSE MDir(Root).files[n]
        BY <1>17, <1>29, <4>1 DEF Files
      <4>4. Files(disk, m, E1)[l] = MDir(Root).files
        BY <4>1 DEF Files, MDir
      <4> QED BY <4>1, <4>2, <4>3, <4>4 DEF ViewAt
    <3>2. CASE l # 0
      <4>1. Files(disk', m, E1)[l] = Files(disk, m, E1)[l]
        BY <1>28, <3>2 DEF Files
      <4>2. Move(E1[l], n) \in g.move <=> Move(E1[l], n) \in gstate.move
        <5>1. CASE l = j
          <6>1. E1[l] = new
            BY <1>25, <5>1
          <6>2. Move(new, n) \notin gstate.move
            BY <1>4, <1>5, NoMark
          <6> QED BY <1>16, <1>17, <6>1, <6>2
        <5>2. CASE l # j
          <6>1. E1[l] = E[l]
            BY <1>25, <5>2
          <6> QED BY <1>17, <3>2, <6>1
        <5> QED BY <5>1, <5>2
      <4> QED BY <4>1, <4>2 DEF ViewAt
    <3> QED BY <3>1, <3>2
  <2>4. m \in 0..NDirs
    BY <1>5 DEF Shape
  <2>5. View(m, E1, g.move, Files(disk', m, E1)) = View(m, E1, gstate.move, Files(disk, m, E1))
    BY <2>3, <2>4, ViewSame
  <2> QED BY <2>2, <2>5
<1>36. PICK b1 : b1 = j - 1
  OBVIOUS
<1>37. b1 < m /\ b1 + 1 = j /\ E1[b1 + 1] = new /\ W[b1 + 1] = E[j]
  <2>1. b1 < m /\ b1 + 1 = j
    BY <1>6, <1>36
  <2>2. W[j] = E[j]
    <3>1. j \in 1..b
      BY <1>4 DEF Moving
    <3> QED BY <1>2, <1>5, <1>6, <3>1 DEF Shape, Side
  <2> QED BY <1>25, <2>1, <2>2
<1>38. Base(m, b1, E1, W)'
  <2>1. TypeRight'
    BY <1>17, <1>22 DEF TypeRight, GStates
  <2>2. Shape(disk, m, b1, E1, W)'
    BY <1>27, <1>36
  <2>3. RelocRight(m, b1, E1, W)'
    BY <1>1, <1>5, <1>12, <1>22, <1>32, <1>33, <1>37 DEF RelocRight
  <2>4. MarksRight(m, b1, E1, W)'
    BY <1>1, <1>5, <1>17, <1>16, <1>22, <1>30, <1>31, <1>32 DEF MarksRight
  <2>5. LinkRight(m, E1)'
    BY <1>1, <1>5 DEF LinkRight, Movers
  <2> QED BY <2>1, <2>2, <2>3, <2>4, <2>5 DEF Base
<1>39. Soon(m, E1)' = Soon(m, E) /\ dir' = Soon(m, E)
  BY <1>22, <1>34, <1>35 DEF Soon
<1>40. /\ task.k \in {"moved", "return"} => want \in Store!Changes /\ Soon(m, E) = Store!Changed
       /\ task.k = "deorphan" => Soon(m, E) = dir /\ want = << >>
  BY <1>1, <1>5 DEF DirRight
<1>41. DirRight(m, E1)'
  <2>1. CASE task.k = "deorphan"
    BY <1>1, <1>39, <1>40, <2>1 DEF DirRight
  <2>2. CASE task.k \in {"moved", "return"}
    <3>1. Store!Changed' = Store!Changed
      BY <1>1, <1>39, <1>40, <2>2, ChangedTwice
    <3>2. want' \in Store!Changes'
      BY <1>1, <1>40, <2>2 DEF Store!Changes
    <3> QED BY <1>1, <1>39, <1>40, <2>2, <3>1, <3>2 DEF DirRight
  <2> QED BY <1>5, <2>1, <2>2 DEF Movers
<1>42. task.k = "moved" /\ g.move # {} => g.move = {Move(task.pair, task.name)} /\ task.mdir = MDir(task.pair)'
  <2> SUFFICES ASSUME task.k = "moved", g.move # {}
               PROVE  g.move = {Move(task.pair, task.name)} /\ task.mdir = MDir(task.pair)'
    OBVIOUS
  <2>1. gstate.move = {Move(task.pair, task.name)} /\ task.mdir = MDir(task.pair)
    BY <1>5, <1>16, <1>17 DEF TaskRight
  <2>2. g.move = {Move(task.pair, task.name)}
    BY <1>16, <1>17, <2>1
  <2>3. PICK l \in 0..m, n \in Names : Move(task.pair, task.name) = Move(E1[l], n)
    BY <1>31, <2>2 DEF MovesIn
  <2>4. task.pair = E1[l] /\ l # 0
    <3>1. task.pair = E1[l]
      BY <2>3 DEF Move
    <3>2. l # 0
      BY <1>6, <1>17, <1>25, <2>2, <2>3
    <3> QED BY <3>1, <3>2
  <2> QED BY <1>1, <1>28, <2>1, <2>2, <2>4 DEF MDir
<1>43. task.k \in {"moved", "return"} => m = NDirs /\ g.orphans = 1
  BY <1>1, <1>5, <1>16, <1>17 DEF TaskRight
<1>44. task.k = "deorphan" => task = [k |-> "deorphan", pass |-> task.pass, at |-> task.at] /\ task.pass \in {0, 1}
  BY <1>5 DEF TaskRight
<1>45. TaskRight(m, b1, E1)'
  BY <1>1, <1>5, <1>22, <1>33, <1>42, <1>43, <1>44 DEF TaskRight, Movers
<1>46. At(m, b1, E1, W)'
  BY <1>38, <1>41, <1>45 DEF At, Base
<1> QED BY <1>1, <1>5, <1>39, <1>40, <1>46 DEF Movers

-----------------------------------------------------------------------------
(* Making the directories                                                  *)

\* Nothing is noted but that there may have been an orphan.
LEMMA Making ==
    ASSUME NEW m, NEW b, NEW E, NEW W, At(m, b, E, W), task.k \in {"mkdir", "link"}
    PROVE  /\ Shape(disk, m, m, E, E) /\ b = m /\ W = E
           /\ gstate = Clean /\ gdelta = {} /\ reloc = NoReloc /\ want = << >> /\ dir = Decoded(disk)
           /\ GStateOn(disk) \ {Orphans} = {} /\ MovesIn({}, m, E, E)
           /\ GStateOn(disk) \in SUBSET Marks
           /\ task.k = "mkdir" => gdisk = GStateOn(disk)
<1>1. b = m /\ gstate = Clean /\ Shape(disk, m, b, E, W)
  BY DEF At, TaskRight
<1>2. reloc = NoReloc
  BY DEF At, RelocRight, Movers
<1>3. W = E
  BY <1>1, Whole
<1>4. Mounted /\ NoReloc.at # "parent" /\ Clean.move = {}
  BY DEF Mounted, NoReloc, Clean
<1>5. gdelta = {} /\ want = << >> /\ dir = Decoded(disk) /\ (task.k = "mkdir" => gdisk = GStateOn(disk))
      /\ gdisk \ {Orphans} = {}
  BY <1>1, <1>2, <1>4 DEF At, TypeRight, DirRight, MarksRight
<1>6. GStateOn(disk) \in SUBSET Marks
  BY <1>1, GStateMarks
<1>7. MovesIn({}, m, E, E)
  BY DEF MovesIn
<1>8. GStateOn(disk) \ {Orphans} = {}
  <2>1. CASE task.k = "mkdir"
    BY <1>5, <2>1
  <2>2. CASE task.k = "link"
    BY <2>2 DEF At, LinkRight
  <2> QED BY <2>1, <2>2
<1> QED BY <1>1, <1>2, <1>3, <1>5, <1>6, <1>7, <1>8

\* A pair for a new directory is written, or the directory is there.
LEMMA KeepsMkdir ==
    ASSUME NEW m, NEW b, NEW E, NEW W, At(m, b, E, W), Mkdir, dir' = Decoded(disk')
    PROVE  At(m, b, E, W)' /\ dir' = dir /\ want' = want
<1>1. /\ task.k = "mkdir" /\ reloc' = NoReloc /\ want' = << >> /\ want = << >> /\ reloc = NoReloc
      /\ NoReloc.at = "none" /\ Clean.move = {} /\ Clean \in [orphans : Nat, move : SUBSET Marks]
      /\ Mounted /\ OnDisk(Clean) = {}
  <2>1. task.k = "mkdir" /\ reloc' = reloc /\ want' = want
    BY DEF Mkdir, Ready
  <2>2. want = << >> /\ reloc = NoReloc
    BY <2>1, Making
  <2>3. OnDisk(Clean) = {} /\ Clean.move = {} /\ Clean \in [orphans : Nat, move : SUBSET Marks]
    BY DEF OnDisk, Clean
  <2> QED BY <2>1, <2>2, <2>3 DEF Mounted, NoReloc
<1>2. /\ Shape(disk, m, m, E, E) /\ b = m /\ W = E
      /\ gstate = Clean /\ gdelta = {} /\ dir = Decoded(disk)
      /\ GStateOn(disk) \ {Orphans} = {} /\ MovesIn({}, m, E, E)
      /\ GStateOn(disk) \in SUBSET Marks /\ gdisk = GStateOn(disk)
  BY <1>1, Making
<1>3. PICK i : i = task.i
  OBVIOUS
<1>4. /\ i \in 1..NDirs /\ i <= m + 1 /\ task = [k |-> "mkdir", i |-> i] /\ m \in 0..NDirs
      /\ NDirs \in Nat
  BY <1>1, <1>2, <1>3, Consts DEF At, TaskRight, Shape
<1>5. DirPair(DirSeq[i]) # {} <=> i <= m
  <2>1. DirPair(DirSeq[i]) = MDirOn(disk, Root).dirs[DirSeq[i]]
    <3>1. DirSeq[i] \in Dirs
      BY <1>4, Consts
    <3>2. DirSeq[i] # Here
      BY <3>1, TreeAssumption
    <3> QED BY <3>2 DEF DirPair, MDir
  <2>2. CASE i <= m
    <3>1. i \in 1..m /\ m + 1 - i \in 0..m
      BY <1>4, <2>2
    <3>2. MDirOn(disk, Root).dirs[DirSeq[i]] = E[m + 1 - i]
      BY <1>2, <3>1, Entries
    <3>3. E[m + 1 - i] # {}
      BY <1>2, <3>1, ShapeIs
    <3> QED BY <2>1, <2>2, <3>2, <3>3
  <2>3. CASE ~(i <= m)
    <3>1. i > m
      BY <1>4, <2>3
    <3> QED BY <1>2, <1>4, <2>1, <2>3, <3>1 DEF Shape
  <2> QED BY <2>2, <2>3
<1>6. CASE i <= m
  <2>1. /\ disk' = disk /\ gstate' = gstate /\ gdisk' = gdisk /\ gdelta' = gdelta /\ task' = MkdirNext
    BY <1>3, <1>5, <1>6 DEF Mkdir
  <2>2. \/ task' = [k |-> "idle"] /\ m = NDirs
        \/ task' = [k |-> "mkdir", i |-> i + 1] /\ i + 1 \in 1..NDirs /\ i + 1 <= m + 1
    BY <1>3, <1>4, <1>6, <2>1 DEF MkdirNext, Idle, NDirs
  <2>3. task'.k \in {"idle", "mkdir"} /\ Mounted'
    BY <2>2 DEF Mounted
  <2>4. TypeRight' /\ Shape(disk, m, b, E, W)' /\ RelocRight(m, b, E, W)' /\ LinkRight(m, E)'
    BY <1>1, <1>2, <2>1, <2>3 DEF TypeRight, RelocRight, LinkRight
  <2>5. MarksRight(m, b, E, W)'
    <3>1. /\ gstate'.move = {} /\ GStateOn(disk') \ {Orphans} = {} /\ gdisk' \ {Orphans} = {}
          /\ gdisk' = GStateOn(disk') /\ task'.k # "link"
      BY <1>1, <1>2, <2>1, <2>3
    <3>2. MovesIn(gstate'.move, m, E, W) /\ MovesIn(GStateOn(disk') \ {Orphans}, m, E, W)
      BY <1>2, <3>1
    <3>3. ~(b < m)
      BY <1>2, <1>4
    <3> QED BY <2>3, <3>1, <3>2, <3>3 DEF MarksRight
  <2>6. TaskRight(m, b, E)'
    <3>1. CASE task' = [k |-> "idle"] /\ m = NDirs
      BY <1>1, <1>2, <2>1, <3>1 DEF TaskRight
    <3>2. CASE task' = [k |-> "mkdir", i |-> i + 1] /\ i + 1 \in 1..NDirs /\ i + 1 <= m + 1
      BY <1>1, <1>2, <2>1, <3>2 DEF TaskRight
    <3> QED BY <2>2, <3>1, <3>2
  <2>7. DirRight(m, E)'
    <3>1. Soon(m, E) = dir
      BY <1>1 DEF At, DirRight
    <3> QED BY <1>1, <1>2, <2>1, <2>3, <3>1 DEF DirRight, Soon
  <2> QED BY <1>1, <1>2, <2>1, <2>4, <2>5, <2>6, <2>7 DEF At
<1>7. CASE ~(i <= m)
  <2>1. PICK x \in Blocks \ Used, y \in Blocks \ Used :
          /\ x # y
          /\ PutOver(x, y, [Empty EXCEPT !.tail = MDir(Root).tail],
                     Xor(gdelta, Xor(gdisk, OnDisk(gstate))), {{x, y}})
          /\ gdisk' = OnDisk(gstate) /\ gdelta' = {}
          /\ task' = [k |-> "link", i |-> task.i, pair |-> {x, y}]
          /\ gstate' = gstate
    BY <1>3, <1>5, <1>7 DEF Mkdir
  <2>2. PICK c : c = [Empty EXCEPT !.tail = MDir(Root).tail]
    OBVIOUS
  <2>3. PICK delta : delta = gdisk
    OBVIOUS
  <2>4. Xor(gdelta, Xor(gdisk, OnDisk(gstate))) = delta
    BY <1>1, <1>2, <2>3, XorLaws
  <2>5. PICK p : p = {x, y}
    OBVIOUS
  <2>6. PICK dk1 : dk1 = Later(disk, x, y, c, delta)
    OBVIOUS
  <2>7. /\ disk' = Kept(dk1, {p}) /\ gdisk' = {} /\ gdelta' = {} /\ gstate' = Clean
        /\ task' = [k |-> "link", i |-> i, pair |-> p]
    BY <1>1, <1>2, <1>3, <2>1, <2>2, <2>4, <2>5, <2>6 DEF PutOver, Later
  <2>8. MDir(Root).tail \in SUBSET Blocks /\ disk \in Disks
    BY <1>2, ShapeIs DEF Logs, MDir
  <2>9. c \in Logs /\ c.tail = MDir(Root).tail /\ c.dirs = [d \in Dirs |-> {}] /\ c.files = [n \in Names |-> Absent]
    BY <2>2, <2>8 DEF Empty, Logs, Contents
  <2>10. delta \in SUBSET Marks
    BY <1>2, <2>3
  <2>11. Wrote(disk, dk1, p, x, c, delta)
    BY <2>1, <2>5, <2>6, <2>8, <2>9, <2>10, PutOverWrites
  <2>12. \A k \in 0..m : E[k] \subseteq Used
    BY <1>2, UsedIs
  <2>13. \A k \in 0..m : x \notin E[k] /\ p \cap E[k] = {}
    BY <2>1, <2>5, <2>12
  <2>14. /\ Shape(dk1, m, m, E, E)
         /\ \A k \in 0..m : Stays(disk, dk1, E[k])
    BY <1>2, <2>9, <2>10, <2>11, <2>13, FreshWrite
  <2>15. PICK ram : ram = {p}
    OBVIOUS
  <2>16. \A r \in ram : Good(dk1, r)
    BY <2>11, <2>15 DEF Wrote
  <2>17. /\ Shape(Kept(dk1, ram), m, m, E, E)
         /\ \A k \in 0..m : Stays(dk1, Kept(dk1, ram), E[k])
         /\ \A r \in ram : Stays(dk1, Kept(dk1, ram), r)
    BY <2>14, <2>16, Forgets
  <2>18. /\ Shape(disk', m, m, E, E) /\ Stays(dk1, disk', p)
         /\ \A k \in 0..m : MDirOn(disk', E[k]) = MDirOn(disk, E[k])
    BY <2>7, <2>14, <2>15, <2>17 DEF Stays
  <2>19. /\ Good(disk', p) /\ MDirOn(disk', p).files = c.files /\ MDirOn(disk', p).dirs = c.dirs
         /\ MDirOn(disk', p).tail = c.tail /\ MDirOn(disk', p).delta = delta
    BY <2>9, <2>11, <2>18, WroteIs DEF Stays
  <2>20. GStateOn(disk') = GStateOn(disk)
    BY <1>2, <2>18, GStateSame
  <2>21. Decoded(disk') = Decoded(disk)
    <3>1. Files(disk', m, E) = Files(disk, m, E)
      BY <2>18 DEF Files
    <3>2. MovesIn(GStateOn(disk) \ {Orphans}, m, E, E) /\ MovesIn(GStateOn(disk') \ {Orphans}, m, E, E)
      BY <1>2, <2>20
    <3> QED BY <1>2, <2>18, <2>20, <3>1, <3>2, DecodedIs
  <2>22. i = m + 1 /\ m < NDirs
    BY <1>4, <1>7
  <2>23. task' = [k |-> "link", i |-> m + 1, pair |-> p] /\ task'.k = "link" /\ task'.pair = p /\ Mounted'
    BY <2>7, <2>22 DEF Mounted
  <2>24. MDirOn(disk', Root).tail = MDirOn(disk, Root).tail
    BY <1>2, <2>18, ShapeIs
  <2>25. LinkRight(m, E)'
    <3>1. Good(disk', p) /\ NoDirs(disk', p)
      BY <2>9, <2>19 DEF NoDirs
    <3>2. MDirOn(disk', p).tail = MDirOn(disk', Root).tail
      BY <2>9, <2>19, <2>24 DEF MDir
    <3>3. \A n \in Names : MDirOn(disk', p).files[n] = Absent
      BY <2>9, <2>19
    <3>4. GStateOn(disk') = MDirOn(disk', p).delta /\ GStateOn(disk') \subseteq {Orphans}
      BY <1>2, <2>3, <2>19, <2>20
    <3> QED BY <2>7, <2>13, <2>22, <2>23, <3>1, <3>2, <3>3, <3>4 DEF LinkRight, MDir
  <2>26. TypeRight' /\ RelocRight(m, b, E, W)'
    BY <1>1, <2>7 DEF TypeRight, RelocRight
  <2>27. MarksRight(m, b, E, W)'
    <3>1. gstate'.move = {} /\ GStateOn(disk') \ {Orphans} = {} /\ gdisk' \ {Orphans} = {}
      BY <1>1, <1>2, <2>7, <2>20
    <3>2. MovesIn(gstate'.move, m, E, W) /\ MovesIn(GStateOn(disk') \ {Orphans}, m, E, W)
      BY <1>2, <3>1
    <3>3. ~(b < m)
      BY <1>2, <1>4
    <3> QED BY <2>23, <3>1, <3>2, <3>3 DEF MarksRight
  <2>28. TaskRight(m, b, E)'
    BY <1>1, <1>2, <2>7, <2>23 DEF TaskRight
  <2>29. DirRight(m, E)'
    <3>1. reloc'.at # "parent" /\ GStateOn(disk') \ {Orphans} = {}
      BY <1>1, <1>2, <2>20
    <3>2. PICK G : G = GStateOn(disk') \ {Orphans}
      OBVIOUS
    <3>3. MovesIn(G, m, E, E)
      BY <1>2, <3>1, <3>2
    <3>4. SoonOn(disk', reloc', G, m, E) = Decoded(disk')
      BY <2>18, <3>1, <3>2, <3>3, FoundNow
    <3>5. Soon(m, E)' = Decoded(disk')
      BY <1>1, <2>7, <3>1, <3>2, <3>4 DEF Soon
    <3> QED BY <1>1, <2>23, <3>5 DEF DirRight
  <2> QED BY <1>1, <1>2, <2>18, <2>21, <2>25, <2>26, <2>27, <2>28, <2>29 DEF At
<1> QED BY <1>6, <1>7

\* The new directory enters the tree.
LEMMA KeepsLink ==
    ASSUME NEW m, NEW b, NEW E, NEW W, At(m, b, E, W), Link, dir' = Decoded(disk')
    PROVE  /\ \E E1 : At(m + 1, m + 1, E1, E1)'
           /\ dir' = dir /\ want' = want
<1>1. /\ task.k = "link" /\ want' = << >> /\ want = << >> /\ reloc = NoReloc
      /\ NoReloc.at = "none" /\ Clean.move = {} /\ Clean \in [orphans : Nat, move : SUBSET Marks]
      /\ OnDisk(Clean) = {} /\ task' = MkdirNext
  <2>1. task.k = "link" /\ want' = want /\ task' = MkdirNext
    BY DEF Link, Ready
  <2>2. want = << >> /\ reloc = NoReloc
    BY <2>1, Making
  <2>3. OnDisk(Clean) = {} /\ Clean.move = {} /\ Clean \in [orphans : Nat, move : SUBSET Marks]
    BY DEF OnDisk, Clean
  <2> QED BY <2>1, <2>2, <2>3 DEF NoReloc
<1>2. /\ Shape(disk, m, m, E, E) /\ b = m /\ W = E
      /\ gstate = Clean /\ gdelta = {} /\ dir = Decoded(disk)
      /\ GStateOn(disk) \ {Orphans} = {} /\ MovesIn({}, m, E, E)
      /\ GStateOn(disk) \in SUBSET Marks
  BY <1>1, Making
<1>3. PICK new : new = task.pair
  OBVIOUS
<1>4. /\ task = [k |-> "link", i |-> m + 1, pair |-> new] /\ m < NDirs
      /\ Good(disk, new) /\ NoDirs(disk, new)
      /\ MDirOn(disk, new).tail = MDirOn(disk, Root).tail
      /\ \A n \in Names : MDirOn(disk, new).files[n] = Absent
      /\ \A k \in 0..m : new \cap E[k] = {}
      /\ gdisk = {} /\ GStateOn(disk) = MDirOn(disk, new).delta
  BY <1>1, <1>3 DEF At, LinkRight, MDir
<1>5. /\ m \in Nat /\ m \in 0..NDirs /\ 0 \in 0..m /\ E[0] = Root /\ NDirs \in Nat /\ m + 1 \in 1..NDirs
      /\ MDir(Root) \in Logs /\ Good(disk, Root) /\ disk \in Disks /\ Root \cap Free = {}
  <2>1. m \in Nat /\ 0 \in 0..m /\ E[0] = Root /\ m \in 0..NDirs /\ NDirs \in Nat
    BY <1>2, ShapeIs, Consts DEF Shape
  <2>2. MDir(E[0]) \in Logs /\ Good(disk, E[0]) /\ disk \in Disks /\ E[0] \cap Free = {}
    BY <1>2, <2>1, PairIs
  <2> QED BY <1>4, <2>1, <2>2
<1>6. new \in SUBSET Blocks /\ DirSeq[m + 1] \in Dirs
  BY <1>4, <1>5, GoodIs, Consts
<1>7. PICK d : d = DirSeq[m + 1]
  OBVIOUS
<1>8. PICK c : c = [MDir(Root) EXCEPT !.dirs[d] = new, !.tail = new]
  OBVIOUS
<1>9. /\ c \in Logs /\ c.tail = new /\ c.files = MDir(Root).files
      /\ c.dirs = [MDir(Root).dirs EXCEPT ![d] = new]
  BY <1>5, <1>6, <1>7, <1>8 DEF Logs
<1>10. Commit(Root, c, gstate, gdelta, NoReloc)
  <2>1. DirSeq[task.i] = d /\ task.pair = new
    BY <1>3, <1>4, <1>7
  <2> QED BY <1>8, <2>1 DEF Link
<1>11. PICK dk1 : \E x \in Root : WroteIn(dk1, Root, x, c, gstate, gdelta, NoReloc)
  <2>1. gdelta \in SUBSET Marks /\ gdisk \in SUBSET Marks /\ gstate.move \in SUBSET Marks
    BY <1>1, <1>2, <1>4
  <2>2. \/ \E dk1 : \E x \in Root : WroteIn(dk1, Root, x, c, gstate, gdelta, NoReloc)
        \/ \E dk1 : \E x \in Free : WroteOut(dk1, Root, x, c, gdelta)
    BY <1>5, <1>9, <1>10, <2>1, CommitCases
  <2>3. ~\E dk1 : \E x \in Free : WroteOut(dk1, Root, x, c, gdelta)
    BY DEF WroteOut
  <2> QED BY <2>2, <2>3
<1>12. PICK x \in Root : WroteIn(dk1, Root, x, c, gstate, gdelta, NoReloc)
  BY <1>11
<1>13. PICK full : full = MDir(Root).delta
  OBVIOUS
<1>14. full \in SUBSET Marks /\ Delta(Root, gstate, gdelta) = full
  <2>1. Delta(Root, gstate, gdelta) = Xor(MDir(Root).delta, Xor(gdisk, OnDisk(gstate)))
    BY <1>2, DeltaIs
  <2>2. Xor(gdisk, OnDisk(gstate)) = {}
    BY <1>1, <1>2, <1>4, XorLaws
  <2>3. Delta(Root, gstate, gdelta) = full
    BY <1>13, <2>1, <2>2, XorLaws
  <2> QED BY <1>5, <1>13, <2>3 DEF Logs
<1>15. /\ Wrote(disk, dk1, Root, x, c, full) /\ disk' = Kept(dk1, {}) /\ gdisk' = {} /\ reloc' = NoReloc
       /\ gstate' = Clean /\ gdelta' = {}
  <2>1. Ram(NoReloc) = {}
    BY DEF Ram
  <2>2. gstate' = gstate /\ gdelta' = {}
    BY <1>10 DEF Commit
  <2> QED BY <1>1, <1>2, <1>12, <1>14, <2>1, <2>2 DEF WroteIn
<1>16. PICK E1 : E1 = [k \in 0..(m + 1) |-> IF k = 0 THEN Root ELSE IF k = 1 THEN new ELSE E[k - 1]]
  OBVIOUS
<1>17. /\ Shape(dk1, m + 1, m + 1, E1, E1) /\ Stays(disk, dk1, new)
       /\ \A l \in 0..m : l # 0 => Stays(disk, dk1, E[l])
  <2>1. c.dirs = [MDirOn(disk, Root).dirs EXCEPT ![DirSeq[m + 1]] = new]
    BY <1>7, <1>9 DEF MDir
  <2>2. Unlinked(disk, m, E, new)
    BY <1>4 DEF Unlinked
  <2>3. Links(disk, m, c, new)
    BY <1>9, <2>1 DEF Links
  <2>4. Joined(m, E, new, E1)
    BY <1>16 DEF Joined
  <2>5. Shape(disk, m, m, E, E) /\ m < NDirs /\ full \in SUBSET Marks /\ c \in Logs /\ Wrote(disk, dk1, Root, x, c, full)
    BY <1>2, <1>4, <1>9, <1>14, <1>15
  <2> QED BY <2>2, <2>3, <2>4, <2>5, Enters
<1>18. /\ Shape(disk', m + 1, m + 1, E1, E1)
       /\ \A k \in 0..(m + 1) : Stays(dk1, disk', E1[k])
  <2>1. PICK l : l = m + 1
    OBVIOUS
  <2>2. Shape(dk1, l, l, E1, E1)
    BY <1>17, <2>1
  <2>3. PICK ram : ram = {}
    OBVIOUS
  <2>4. \A r \in ram : Good(dk1, r)
    BY <2>3
  <2>5. /\ Shape(Kept(dk1, ram), l, l, E1, E1)
        /\ \A k \in 0..l : Stays(dk1, Kept(dk1, ram), E1[k])
    BY <2>2, <2>4, Forgets
  <2> QED BY <1>15, <2>1, <2>3, <2>5
<1>19. /\ E1[0] = Root /\ E1[1] = new /\ 1 \in 0..(m + 1) /\ 0 \in 0..(m + 1)
       /\ \A k \in 1..m : E1[k + 1] = E[k] /\ k + 1 \in 0..(m + 1) /\ k \in 0..m /\ k # 0
  BY <1>5, <1>16
<1>20. /\ MDirOn(disk', Root).files = MDir(Root).files /\ MDirOn(disk', Root).delta = full
       /\ MDirOn(disk', new) = MDirOn(disk, new)
       /\ \A k \in 1..m : MDirOn(disk', E[k]) = MDirOn(disk, E[k])
  <2>1. MDirOn(dk1, Root).files = c.files /\ MDirOn(dk1, Root).delta = full
    BY <1>9, <1>15, WroteIs
  <2>2. Stays(dk1, disk', Root) /\ Stays(dk1, disk', new) /\ \A k \in 1..m : Stays(dk1, disk', E[k])
    BY <1>18, <1>19
  <2>3. \A k \in 1..m : Stays(disk, dk1, E[k])
    BY <1>17, <1>19
  <2> QED BY <1>9, <1>17, <2>1, <2>2, <2>3 DEF Stays
<1>21. GStateOn(disk') = {}
  <2>1. \A k \in 0..m : k # 0 => MDirOn(disk', E[k]).delta = MDirOn(disk, E[k]).delta
    <3>1. \A k \in 0..m : k # 0 => k \in 1..m
      BY <1>5
    <3> QED BY <1>20, <3>1
  <2>2. MDirOn(disk', Root).delta = MDirOn(disk, Root).delta
    BY <1>13, <1>20 DEF MDir
  <2>3. GStateOn(disk') = Xor(GStateOn(disk), MDirOn(disk', new).delta)
    BY <1>2, <1>16, <1>18, <2>1, <2>2, GStateEnter
  <2> QED BY <1>4, <1>20, <2>3, XorLaws
<1>22. MovesIn({}, m + 1, E1, E1)
  BY DEF MovesIn
<1>23. /\ Decoded(disk') = View(m + 1, E1, {}, Files(disk', m + 1, E1))
       /\ SoonOn(disk', NoReloc, {}, m + 1, E1) = Decoded(disk')
  <2>1. PICK l : l = m + 1
    OBVIOUS
  <2>2. Shape(disk', l, l, E1, E1) /\ MovesIn({}, l, E1, E1)
    BY <1>18, <1>22, <2>1
  <2>3. {} = GStateOn(disk') \ {Orphans}
    BY <1>21
  <2>4. NoReloc.at # "parent"
    BY <1>1
  <2>5. Decoded(disk') = View(l, E1, {}, Files(disk', l, E1))
    BY <2>2, <2>3, <2>4, FoundNow
  <2>6. SoonOn(disk', NoReloc, {}, l, E1) = Decoded(disk')
    BY <2>2, <2>3, <2>4, FoundNow
  <2> QED BY <2>1, <2>5, <2>6
<1>24. dir = View(m, E, {}, Files(disk, m, E))
  <2>1. {} = GStateOn(disk) \ {Orphans} /\ NoReloc.at # "parent"
    BY <1>1, <1>2
  <2>2. Shape(disk, m, m, E, E) /\ MovesIn({}, m, E, E)
    BY <1>2
  <2>3. Decoded(disk) = View(m, E, {}, Files(disk, m, E))
    BY <2>1, <2>2, FoundNow
  <2> QED BY <1>2, <2>3
<1>25. View(m + 1, E1, {}, Files(disk', m + 1, E1)) = View(m, E, {}, Files(disk, m, E))
  <2>1. PICK F1 : F1 = Files(disk', m + 1, E1)
    OBVIOUS
  <2>2. PICK F : F = Files(disk, m, E)
    OBVIOUS
  <2>3. \A n \in Names : F1[1][n] = Absent
    BY <1>4, <1>19, <1>20, <2>1 DEF Files
  <2>4. F1[0] = F[0]
    BY <1>5, <1>19, <1>20, <2>1, <2>2 DEF Files, MDir
  <2>5. \A k \in 1..m : F1[k + 1] = F[k]
    BY <1>19, <1>20, <2>1, <2>2 DEF Files
  <2>6. \A n \in Names : ViewAt(E1, {}, F1, 0, n) = ViewAt(E, {}, F, 0, n)
    BY <2>4 DEF ViewAt
  <2>7. \A k \in 1..m, n \in Names : ViewAt(E1, {}, F1, k + 1, n) = ViewAt(E, {}, F, k, n)
    BY <2>5 DEF ViewAt
  <2> QED BY <1>4, <1>5, <2>1, <2>2, <2>3, <2>6, <2>7, ViewEnter
<1>26. dir' = dir
  BY <1>23, <1>24, <1>25
<1>27. PICK l : l = m + 1
  OBVIOUS
<1>28. \/ task' = [k |-> "idle"] /\ l = NDirs
       \/ task' = [k |-> "mkdir", i |-> l + 1] /\ l + 1 \in 1..NDirs
  <2>1. task.i = m + 1
    BY <1>4
  <2> QED BY <1>1, <1>5, <1>27, <2>1 DEF MkdirNext, Idle, NDirs
<1>29. task'.k \in {"idle", "mkdir"} /\ Mounted'
  BY <1>28 DEF Mounted
<1>30. TypeRight' /\ RelocRight(l, l, E1, E1)' /\ LinkRight(l, E1)' /\ Shape(disk, l, l, E1, E1)'
  BY <1>1, <1>15, <1>18, <1>27, <1>29 DEF TypeRight, RelocRight, LinkRight
<1>31. MarksRight(l, l, E1, E1)'
  <2>1. /\ gstate'.move = {} /\ GStateOn(disk') \ {Orphans} = {} /\ gdisk' \ {Orphans} = {}
        /\ gdisk' = GStateOn(disk') /\ task'.k # "link"
    BY <1>1, <1>15, <1>21, <1>29
  <2>2. MovesIn(gstate'.move, l, E1, E1) /\ MovesIn(GStateOn(disk') \ {Orphans}, l, E1, E1)
    BY <1>22, <1>27, <2>1
  <2>3. ~(l < l)
    BY <1>5, <1>27
  <2> QED BY <1>29, <2>1, <2>2, <2>3 DEF MarksRight
<1>32. TaskRight(l, l, E1)'
  <2>1. CASE task' = [k |-> "idle"] /\ l = NDirs
    BY <1>15, <2>1 DEF TaskRight
  <2>2. CASE task' = [k |-> "mkdir", i |-> l + 1] /\ l + 1 \in 1..NDirs
    BY <1>5, <1>15, <1>27, <2>2 DEF TaskRight
  <2> QED BY <1>28, <2>1, <2>2
<1>33. DirRight(l, E1)'
  <2>1. Soon(l, E1)' = Decoded(disk')
    BY <1>1, <1>15, <1>23, <1>27 DEF Soon
  <2> QED BY <1>1, <1>29, <2>1 DEF DirRight
<1>34. At(l, l, E1, E1)'
  BY <1>30, <1>31, <1>32, <1>33 DEF At
<1> QED BY <1>1, <1>26, <1>27, <1>34

-----------------------------------------------------------------------------
(* Every step                                                              *)

\* A step of DirStore, or none.
StoreStep == [Store!Next]_<<dir, want, Mounted>>

\* A step that makes the change or none is one of the store.
LEMMA MakesOrNot ==
    ASSUME want' = want, Mounted' = Mounted, want \in Store!Changes => Mounted,
           dir' = dir \/ (want \in Store!Changes /\ dir' = Store!Changed)
    PROVE  StoreStep
BY DEF StoreStep, Store!Next, Store!Make, Store!NoChange

\* A change is asked for only while the file system is mounted.
LEMMA AskedMounted ==
    ASSUME NEW m, NEW b, NEW E, NEW W, At(m, b, E, W), want \in Store!Changes
    PROVE  Mounted
<1>1. want # << >>
  BY DEF Store!Changes
<1> QED BY <1>1 DEF At, DirRight, Mounted

\* Only a mount and a power loss change that.
LEMMA StaysMounted ==
    ASSUME NEW m, NEW b, NEW E, NEW W, At(m, b, E, W), Step, ~Format, ~Mount, ~PowerLoss
    PROVE  Mounted' = Mounted
<1>1. CASE Demove
  BY <1>1 DEF Demove, Ready, Mounted
<1>2. CASE Deorphan
  <2>1. task.k = "deorphan" /\ task = [k |-> "deorphan", pass |-> task.pass, at |-> task.at]
    BY <1>2 DEF Deorphan, Ready, At, TaskRight
  <2>2. \/ \E x : task' = [task EXCEPT !.at = x]
        \/ \E x, y : task' = [task EXCEPT !.pass = x, !.at = y]
        \/ task' = [k |-> "mkdir", i |-> 1]
    BY <1>2, Zenon DEF Deorphan
  <2>3. \A x, y : /\ [task EXCEPT !.at = x].k = "deorphan"
                  /\ [task EXCEPT !.pass = x, !.at = y].k = "deorphan"
    BY <2>1
  <2>4. task'.k \in {"deorphan", "mkdir"}
    <3>1. CASE \E x : task' = [task EXCEPT !.at = x]
      BY <2>3, <3>1
    <3>2. CASE \E x, y : task' = [task EXCEPT !.pass = x, !.at = y]
      BY <2>3, <3>2
    <3>3. CASE task' = [k |-> "mkdir", i |-> 1]
      BY <3>3
    <3> QED BY <2>2, <3>1, <3>2, <3>3, Zenon
  <2> QED BY <2>1, <2>4 DEF Mounted
<1>3. CASE Mkdir \/ Link
  <2>1. MkdirNext.k \in {"idle", "mkdir"}
    BY DEF MkdirNext, Idle
  <2>2. task' = MkdirNext \/ \E p : task' = [k |-> "link", i |-> task.i, pair |-> p]
    BY <1>3, Zenon DEF Mkdir, Link
  <2>3. task'.k \in {"idle", "mkdir", "link"}
    BY <2>1, <2>2
  <2> QED BY <1>3, <2>3 DEF Mkdir, Link, Ready, Mounted
<1>4. CASE FixParent \/ FixPred
  BY <1>4 DEF FixParent, FixPred, Mounted
<1>5. CASE FirstCommit
  <2>1. task.k = "call" /\ task' = task.then
    BY <1>5 DEF FirstCommit, Ready
  <2>2. CallRight(m, E)
    BY <2>1 DEF At, TaskRight
  <2>3. \/ task.then = [k |-> "return"]
        \/ \E p, n, c : task.then = [k |-> "moved", pair |-> p, name |-> n, mdir |-> c]
    BY <2>2, Zenon DEF CallRight
  <2>4. task.then.k \in {"return", "moved"}
    <3>1. CASE task.then = [k |-> "return"]
      BY <3>1
    <3>2. ASSUME NEW p, NEW n, NEW c,
                 task.then = [k |-> "moved", pair |-> p, name |-> n, mdir |-> c]
          PROVE  task.then.k = "moved"
      BY <3>2
    <3> QED BY <2>3, <3>1, <3>2
  <2> QED BY <2>1, <2>4 DEF Mounted
<1>6. CASE Moved \/ Return
  BY <1>6 DEF Moved, Return, Ready, Idle, Mounted
<1>7. ASSUME NEW d, NEW n, NEW v, FileCommit(d, n, v)
      PROVE  Mounted' = Mounted
  BY <1>7 DEF FileCommit, Call, Ready, Begin, Mounted
<1>8. ASSUME NEW d, NEW n, NEW e, NEW n2, Rename(d, n, e, n2)
      PROVE  Mounted' = Mounted
  BY <1>8 DEF Rename, Call, Ready, Begin, Mounted
<1> QED BY <1>1, <1>2, <1>3, <1>4, <1>5, <1>6, <1>7, <1>8, Zenon DEF Step

\* What is not yet formatted can only be formatted.
LEMMA BlankStep ==
    ASSUME Blank, Step, dir' = Decoded(disk')
    PROVE  Inv' /\ StoreStep
<1>1. task.k = "off" /\ reloc.at = "none" /\ dir = Absent /\ want = << >>
  BY DEF Blank, NoReloc
<1>2. Format
  BY <1>1 DEF Step, Mount, Demove, Deorphan, Mkdir, Link, FixParent, FixPred, FirstCommit, Moved,
              Return, PowerLoss, FileCommit, Rename, Call, Ready
<1>3. (\E m, b, E, W : At(m, b, E, W))' /\ dir' = [x \in Paths |-> Absent] /\ want' = want
  BY <1>2, KeepsFormat
<1>4. Mounted' = Mounted
  BY <1>1, <1>2 DEF Format, Mounted
<1>5. StoreStep
  BY <1>1, <1>3, <1>4 DEF StoreStep, Store!Next, Store!Format, Store!NoDir
<1> QED BY <1>3, <1>5 DEF Inv

\* Each step of a tree that is built keeps the invariant, and is one of the
\* store or none; a coincidence apart.
LEMMA TreeStep ==
    ASSUME NEW m, NEW b, NEW E, NEW W, At(m, b, E, W), Step, dir' = Decoded(disk'),
           ~Coincidence
    PROVE  Inv' /\ StoreStep
<1>1. dir # Absent
  BY DirThere
<1>2. CASE Format
  BY <1>1, <1>2 DEF Format
<1>3. CASE Mount
  <2>1. At(m, b, E, W)' /\ dir' = dir /\ want' = want
    BY <1>3, KeepsMount
  <2>2. Mounted = FALSE /\ Mounted' = TRUE
    BY <1>3 DEF Mount, Ready, Mounted
  <2> QED BY <2>1, <2>2 DEF Inv, StoreStep, Store!Next, Store!PowerOn
<1>4. CASE PowerLoss
  <2>1. At(m, b, E, W)' /\ dir' = dir /\ want' = << >>
    BY <1>4, KeepsPowerLoss
  <2>2. Mounted = TRUE /\ Mounted' = FALSE
    BY <1>4 DEF PowerLoss, Mounted
  <2> QED BY <2>1, <2>2 DEF Inv, StoreStep, Store!Next, Store!PowerLoss, Store!NoChange
<1>5. SUFFICES ASSUME Mounted' = Mounted PROVE Inv' /\ StoreStep
  BY <1>2, <1>3, <1>4, StaysMounted
<1>6. ASSUME want' = want, dir' = dir \/ (want \in Store!Changes /\ dir' = Store!Changed)
      PROVE  StoreStep
  BY <1>5, <1>6, AskedMounted, MakesOrNot
<1>7. CASE Demove
  <2>1. ~(Moves /\ gstate.orphans > 0)
    BY <1>7 DEF Demove, Ready, Coincidence
  <2>2. At(m, b, E, W)' /\ dir' = dir /\ want' = want
    BY <1>7, <2>1, KeepsDemove
  <2> QED BY <1>6, <2>2 DEF Inv
<1>8. CASE Deorphan
  <2>1. (At(m, b, E, W)' \/ At(m, m, E, E)') /\ dir' = dir /\ want' = want
    BY <1>8, KeepsDeorphan
  <2> QED BY <1>6, <2>1 DEF Inv
<1>9. CASE Mkdir
  <2>1. At(m, b, E, W)' /\ dir' = dir /\ want' = want
    BY <1>9, KeepsMkdir
  <2> QED BY <1>6, <2>1 DEF Inv
<1>10. CASE Link
  <2>1. (\E E1 : At(m + 1, m + 1, E1, E1)') /\ dir' = dir /\ want' = want
    BY <1>10, KeepsLink
  <2> QED BY <1>6, <2>1 DEF Inv
<1>11. CASE FixParent
  <2>1. (\E b1, E1 : At(m, b1, E1, W)') /\ want' = want /\ dir' \in {dir, Soon(m, E)}
        /\ (Soon(m, E) # dir => want \in Store!Changes /\ Soon(m, E) = Store!Changed)
    BY <1>11, KeepsFixParent
  <2> QED BY <1>6, <2>1 DEF Inv
<1>12. CASE FixPred
  <2>1. (At(m, b, E, W)' \/ At(m, m, E, E)') /\ want' = want /\ dir' \in {dir, Soon(m, E)}
        /\ (Soon(m, E) # dir => want \in Store!Changes /\ Soon(m, E) = Store!Changed)
    BY <1>12, KeepsFixPred
  <2> QED BY <1>6, <2>1 DEF Inv
<1>13. CASE FirstCommit
  <2>1. (At(m, b, E, W)' \/ At(m, m, E, E)')
        /\ want \in Store!Changes /\ dir' \in {dir, Store!Changed} /\ want' = want
    BY <1>13, KeepsFirstCommit
  <2> QED BY <1>6, <2>1 DEF Inv
<1>14. CASE Moved
  <2>1. (At(m, b, E, W)' \/ At(m, m, E, E)')
        /\ want \in Store!Changes /\ dir' \in {dir, Store!Changed} /\ want' = want
    BY <1>14, KeepsMoved
  <2> QED BY <1>6, <2>1 DEF Inv
<1>15. CASE Return
  <2>1. /\ At(m, b, E, W)' /\ dir' = dir /\ want' = << >>
        /\ dir = Store!Changed /\ want \in Store!Changes
    BY <1>15, KeepsReturn
  <2>2. Mounted
    BY <2>1, AskedMounted
  <2> QED BY <1>5, <2>1, <2>2 DEF Inv, StoreStep, Store!Next, Store!Return, Store!NoChange
<1>16. ASSUME At(m, b, E, W)', dir' = dir, want = << >>, want' \in Store!Changes, Ready("idle")
       PROVE  Inv' /\ StoreStep
  <2>1. Mounted
    BY <1>16 DEF Ready, Mounted
  <2> QED BY <1>1, <1>5, <1>16, <2>1
          DEF Inv, StoreStep, Store!Next, Store!Ask, Store!NoDir, Store!NoChange
<1>17. ASSUME NEW d \in Dirs \cup {Here}, NEW n \in Names, NEW v \in Values \cup {0, Absent},
              FileCommit(d, n, v)
       PROVE  Inv' /\ StoreStep
  <2>1. At(m, b, E, W)' /\ dir' = dir /\ want = << >> /\ want' \in Store!Changes
    BY <1>17, KeepsFileCommit
  <2> QED BY <1>16, <1>17, <2>1 DEF FileCommit, Call
<1>18. ASSUME NEW d \in Dirs \cup {Here}, NEW n \in Names,
              NEW e \in Dirs \cup {Here}, NEW n2 \in Names, Rename(d, n, e, n2)
       PROVE  Inv' /\ StoreStep
  <2>1. At(m, b, E, W)' /\ dir' = dir /\ want = << >> /\ want' \in Store!Changes
    BY <1>18, KeepsRename
  <2> QED BY <1>16, <1>18, <2>1 DEF Rename, Call
<1> QED BY <1>2, <1>3, <1>4, <1>7, <1>8, <1>9, <1>10, <1>11, <1>12, <1>13, <1>14, <1>15, <1>17, <1>18
        DEF Step

\* So is each step.
LEMMA Steps ==
    ASSUME Coincide = FALSE, Inv, [Next]_vars
    PROVE  Inv' /\ StoreStep
<1>1. CASE UNCHANGED vars
  <2>1. Inv'
    <3>1. CASE Blank
      BY <1>1, <3>1 DEF Inv, Blank, vars
    <3>2. ASSUME NEW m, NEW b, NEW E, NEW W, At(m, b, E, W) PROVE Inv'
      <4>1. At(m, b, E, W)'
        <5>1. /\ disk' = disk /\ gstate' = gstate /\ gdisk' = gdisk /\ gdelta' = gdelta
              /\ task' = task /\ reloc' = reloc /\ want' = want /\ dir' = dir
          BY <1>1 DEF vars
        <5>2. TypeRight' /\ Shape(disk, m, b, E, W)'
          BY <3>2, <5>1 DEF At, TypeRight
        <5>3. RelocRight(m, b, E, W)'
          BY <3>2, <5>1 DEF At, RelocRight
        <5>4. MarksRight(m, b, E, W)'
          BY <3>2, <5>1 DEF At, MarksRight, Mounted
        <5>5. LinkRight(m, E)'
          BY <3>2, <5>1 DEF At, LinkRight, MDir
        <5>6. CallRight(m, E)' <=> CallRight(m, E)
          <6>1. Planned(m, E)' = Planned(m, E)
            BY <5>1 DEF Planned, MDir
          <6>2. Store!Changed' = Store!Changed
            BY <5>1 DEF Store!Changed
          <6> QED BY <5>1, <6>1, <6>2 DEF CallRight, MDir
        <5>7. TaskRight(m, b, E)'
          BY <3>2, <5>1, <5>6 DEF At, TaskRight, MDir
        <5>8. DirRight(m, E)'
          <6>1. Store!Changed' = Store!Changed /\ Soon(m, E)' = Soon(m, E)
            BY <5>1 DEF Store!Changed, Soon
          <6>2. want' \in Store!Changes' <=> want \in Store!Changes
            BY <5>1 DEF Store!Changes
          <6> QED BY <3>2, <5>1, <6>1, <6>2 DEF At, DirRight, Mounted
        <5> QED BY <5>2, <5>3, <5>4, <5>5, <5>7, <5>8 DEF At
      <4> QED BY <4>1 DEF Inv
    <3> QED BY <3>1, <3>2 DEF Inv
  <2>2. Mounted' = Mounted
    BY <1>1 DEF vars, Mounted
  <2> QED BY <1>1, <2>1, <2>2 DEF StoreStep, vars
<1>2. CASE Next
  <2>1. Step /\ dir' = Decoded(disk') /\ ~Coincidence
    BY <1>2 DEF Next
  <2> QED BY <2>1, BlankStep, TreeStep DEF Inv
<1> QED BY <1>1, <1>2

-----------------------------------------------------------------------------
(* What the invariant says                                                 *)

\* With nothing under way, tree and list agree.
LEMMA InvTree == Inv => RecoveredTree
<1> SUFFICES ASSUME Inv, Ready("idle") PROVE RecoveredTree
  BY DEF RecoveredTree
<1>1. task.k = "idle" /\ ~Blank
  BY DEF Ready, Blank
<1>2. PICK m, b, E, W : At(m, b, E, W)
  BY <1>1 DEF Inv
<1>3. b = m /\ m = NDirs /\ gstate = Clean /\ Shape(disk, m, b, E, W)
  BY <1>1, <1>2, Plain DEF At
<1>4. W = E
  BY <1>3, Whole
<1>5. /\ m \in Nat /\ m \in 0..NDirs /\ Frame(disk, m, E, W) /\ 0 \in 0..m /\ E[0] = Root
      /\ \A k, l \in 0..m : Same(E[k], E[l]) => k = l
      /\ \A k \in 0..m : E[k] # {}
  <2>1. Apart(m, E, W) /\ \A k \in 0..m : E[k] # {}
    BY <1>3, ShapeIs
  <2>2. \A k, l \in 0..m : Same(E[k], E[l]) => k = l
    BY <1>4, <2>1 DEF Apart, Same
  <2>3. m \in Nat /\ Frame(disk, m, E, W) /\ 0 \in 0..m /\ E[0] = Root
    BY <1>3, ShapeIs
  <2> QED BY <1>3, <2>1, <2>2, <2>3 DEF Shape
<1>6. ASSUME NEW d \in Dirs \cup {Here}
      PROVE  Pos(m, d) \in 0..m /\ Pos(m, d) # -1 /\ DirPair(d) = E[Pos(m, d)]
  <2>1. Pos(m, d) # -1 /\ Pos(m, d) \in 0..m
    <3>1. d # Here => ~(Index(d) > m)
      BY <1>3, <1>5, PosIs, Consts
    <3> QED BY <1>5, <3>1, PosIs
  <2>2. EntryOf(disk, d) = E[Pos(m, d)]
    BY <1>3, <2>1, EntryIs
  <2> QED BY <2>1, <2>2 DEF DirPair, EntryOf, MDir
<1>7. ASSUME NEW d \in Dirs \cup {Here}, NEW e \in Dirs \cup {Here}
      PROVE  DirPair(d) # {} /\ (Same(DirPair(d), DirPair(e)) => d = e)
  <2>1. DirPair(d) # {}
    BY <1>5, <1>6
  <2>2. Same(DirPair(d), DirPair(e)) => Pos(m, d) = Pos(m, e)
    BY <1>5, <1>6
  <2> QED BY <1>5, <1>6, <2>1, <2>2, PosInjective
<1>8. ASSUME NEW i \in 0..Longest, NEW j \in 0..Longest, Same(Walk(disk, Root)[i], Walk(disk, Root)[j])
      PROVE  i = j
  <2>1. \A k \in 0..Longest : Walk(disk, Root)[k] = IF k <= m THEN E[k] ELSE {}
    BY <1>3, <1>4, <1>5, FrameWalk, Consts
  <2>2. i <= m /\ j <= m
    BY <1>8, <2>1 DEF Same
  <2>3. i \in 0..m /\ j \in 0..m
    BY <1>5, <2>2, Consts
  <2> QED BY <1>5, <1>8, <2>1, <2>2, <2>3
<1>9. List = {Root} \cup { DirPair(d) : d \in Dirs }
  <2>1. \A q : q \in List <=> \E k \in 0..m : q = E[k]
    BY <1>3, <1>4, ListIs DEF List
  <2>2. ASSUME NEW k \in 0..m PROVE E[k] \in {Root} \cup { DirPair(d) : d \in Dirs }
    <3>1. CASE k = 0
      BY <1>5, <3>1
    <3>2. CASE k # 0
      <4>1. k \in 1..m
        BY <1>5, <3>2
      <4>2. DirSeq[m + 1 - k] \in Dirs /\ E[k] = MDirOn(disk, Root).dirs[DirSeq[m + 1 - k]]
        BY <1>3, <4>1, Entries
      <4>3. DirPair(DirSeq[m + 1 - k]) = E[k]
        BY <4>2, TreeAssumption DEF DirPair, MDir
      <4> QED BY <4>2, <4>3
    <3> QED BY <3>1, <3>2
  <2>3. ASSUME NEW d \in Dirs PROVE DirPair(d) \in List
    BY <1>6, <2>1
  <2>4. Root \in List
    BY <1>5, <2>1
  <2> QED BY <2>1, <2>2, <2>3, <2>4
<1> QED BY <1>3, <1>7, <1>8, <1>9 DEF RecoveredTree

\* What lfs believes of the disk is its sum.
LEMMA InvGState == Inv => GStateRight
<1> SUFFICES ASSUME Inv, Mounted PROVE GStateRight
  BY DEF GStateRight
<1>1. ~Blank
  BY DEF Blank, Mounted
<1>2. PICK m, b, E, W : At(m, b, E, W)
  BY <1>1 DEF Inv
<1>3. gdelta = {}
  BY <1>2 DEF At, TypeRight
<1>4. CASE task.k = "link"
  <2>1. gdisk = {} /\ GStateOn(disk) = MDir(task.pair).delta
    BY <1>2, <1>4 DEF At, LinkRight
  <2> QED BY <1>3, <1>4, <2>1, XorLaws DEF GStateRight
<1>5. CASE task.k # "link"
  <2>1. gdisk = GStateOn(disk)
    BY <1>2, <1>5 DEF At, MarksRight
  <2> QED BY <1>3, <1>5, <2>1, XorLaws DEF GStateRight
<1> QED BY <1>4, <1>5

\* The mdir that waits for its second commit is current.
LEMMA InvMoved == Inv => OldMDirCurrent
<1> SUFFICES ASSUME Inv, Ready("moved"), gstate.move # {} PROVE OldMDirCurrent
  BY DEF OldMDirCurrent
<1>1. task.k = "moved" /\ ~Blank
  BY DEF Ready, Blank
<1>2. PICK m, b, E, W : At(m, b, E, W)
  BY <1>1 DEF Inv
<1>3. gstate.move = {Move(task.pair, task.name)} /\ task.mdir = MDir(task.pair)
  BY <1>1, <1>2 DEF At, TaskRight
<1>4. PICK l \in 0..m, n \in Names : W[l] = E[l] /\ Move(task.pair, task.name) = Move(E[l], n)
  BY <1>2, <1>3 DEF At, MarksRight, MovesIn
<1>5. task.pair = W[l]
  BY <1>4 DEF Move
<1>6. task.pair \in List
  BY <1>2, <1>5, ListIs DEF At, List
<1> QED BY <1>3, <1>6 DEF OldMDirCurrent

\* While nothing is asked for, nothing changes.
LEMMA RepairStep ==
    ASSUME Inv, StoreStep, Mounted, task.k \in {"demove", "deorphan"}
    PROVE  dir' = dir
<1>1. ~Blank
  BY DEF Blank, Mounted
<1>2. PICK m, b, E, W : At(m, b, E, W)
  BY <1>1 DEF Inv
<1>3. want = << >> /\ dir # Absent
  BY <1>2, DirThere DEF At, DirRight
<1>4. want \notin Store!Changes
  BY <1>3 DEF Store!Changes
<1> QED BY <1>3, <1>4 DEF StoreStep, Store!Next, Store!Format, Store!NoDir, Store!Ask,
           Store!Make, Store!Return, Store!PowerLoss, Store!PowerOn

\* At first the disk is blank.
LEMMA InvInit == Init => Inv
BY DEF Init, Inv, Blank, Clean

\* The invariant holds for ever.
LEMMA TreeAlways == ASSUME Coincide = FALSE PROVE Spec => []Inv
<1>1. Inv /\ [Next]_vars => Inv'
  BY Steps
<1> QED BY <1>1, InvInit, PTL DEF Spec

\* For all blocks, directories, files and contents: after recovery, whatever was
\* cut before, the entries of the root and the list of pairs agree and nothing
\* is left to repair; if no pair that demove commits to is tired while the
\* relinking of another is due, as in all of these theorems.
THEOREM TreeRecovered == ASSUME Coincide = FALSE PROVE Spec => []RecoveredTree
BY TreeAlways, InvTree, PTL

\* For all of them: what lfs believes of the global state is what a mount would
\* sum up from the pairs, in every step of a commit, a relocation or a repair.
THEOREM TreeGState == ASSUME Coincide = FALSE PROVE Spec => []GStateRight
BY TreeAlways, InvGState, PTL

\* For all of them: the mdir that the second commit of a rename was given before
\* the first is the one on the disk.
THEOREM TreeOldMDir == ASSUME Coincide = FALSE PROVE Spec => []OldMDirCurrent
BY TreeAlways, InvMoved, PTL

\* For all of them: a change of a file, a rename between two directories
\* included, happens as a whole or not at all, whenever the power goes and
\* whichever pairs move, and it has happened when the call returns.
THEOREM TreeImplementsStore == ASSUME Coincide = FALSE PROVE Spec => ImplementsStore
<1>1. Init => Store!Init
  <2> SUFFICES ASSUME Init PROVE Store!Init
    OBVIOUS
  <2>1. Mounted = FALSE
    BY DEF Init, Mounted
  <2> QED BY <2>1 DEF Init, Store!Init, Store!NoDir, Store!NoChange
<1>2. Inv /\ [Next]_vars => [Store!Next]_<<dir, want, Mounted>>
  BY Steps DEF StoreStep
<1> QED BY <1>1, <1>2, TreeAlways, PTL DEF Spec, ImplementsStore, Store!Spec

\* For all of them: the repair after a mount changes nothing a program can see.
THEOREM TreeRepair == ASSUME Coincide = FALSE PROVE Spec => RepairChangesNothing
<1>1. Inv /\ [Next]_vars => [Mounted /\ task.k \in {"demove", "deorphan"} => dir' = dir]_vars
  BY Steps, RepairStep
<1> QED BY <1>1, TreeAlways, PTL DEF Spec, RepairChangesNothing
=============================================================================
