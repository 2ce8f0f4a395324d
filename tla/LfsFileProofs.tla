--------------------------- MODULE LfsFileProofs ---------------------------
(***************************************************************************)
(* The allocator of littlefs hands out no block that something needs, and  *)
(* says that the disk is full only when it is: for every number of blocks, *)
(* every size of its window and every set of files.                        *)
(***************************************************************************)
EXTENDS LfsFile, FiniteSetTheorems, TLAPS

-----------------------------------------------------------------------------
(* Blocks of a window                                                      *)

\* The blocks follow each other in a circle; the one at offset o of a window.
Wrap(y) == y % N
At(l, o) == Wrap(l.start + o)

\* A window: what was looked at since the last checkpoint and what is left of the
\* window are together no more than the disk.
Looks == [start : Blocks, next : Nat, size : Nat, ckpoint : 0..N, used : SUBSET Nat]

Window(l) ==
    /\ l \in Looks
    /\ l.size <= Lookahead /\ l.size <= N
    /\ l.next <= l.size /\ l.size - l.next <= l.ckpoint
    /\ l.used \subseteq 0..(l.size - 1)

\* Between two calls the window stands at a free block or at its end.
Eager(l) == l.next \notin l.used

\* What is free in the window is needed by no one.
Fresh(l, needed) == \A o \in Ahead(l) : At(l, o) \notin needed

\* What is used in the window is needed by someone.
Accurate(l, needed) == \A o \in l.next..(l.size - 1) : o \in l.used => At(l, o) \in needed

\* The free blocks, all of them before the checkpoint comes around.
Unseen(l, needed) ==
    \A x \in Blocks \ needed : \E i \in 0..(l.ckpoint - 1) : Wrap(l.start + l.next + i) = x

\* Going around the disk at most twice.
LEMMA Around ==
    ASSUME NEW y \in 0..(3 * N - 1)
    PROVE  /\ Wrap(y) \in 0..(N - 1)
           /\ Wrap(y) = IF y < N THEN y ELSE IF y < 2 * N THEN y - N ELSE y - 2 * N
BY FileAssumption DEF Wrap

\* A window may start where another ended.
LEMMA StartsBehind ==
    ASSUME NEW a \in 0..(2 * N - 1), NEW i \in 0..(N - 1)
    PROVE  Wrap(Wrap(a) + i) = Wrap(a + i)
<1>1. a \in 0..(3 * N - 1) /\ a + i \in 0..(3 * N - 1)
  BY FileAssumption
<1>2. Wrap(a) \in 0..(N - 1) /\ Wrap(a) = IF a < N THEN a ELSE a - N
  BY <1>1, Around, FileAssumption
<1>3. Wrap(a) + i \in 0..(3 * N - 1)
  BY <1>2, FileAssumption
<1>4. Wrap(Wrap(a) + i) = IF Wrap(a) + i < N THEN Wrap(a) + i ELSE Wrap(a) + i - N
  BY <1>2, <1>3, Around, FileAssumption
<1>5. Wrap(a + i) = IF a + i < N THEN a + i ELSE IF a + i < 2 * N THEN a + i - N ELSE a + i - 2 * N
  BY <1>1, Around, FileAssumption
<1> QED BY <1>2, <1>4, <1>5, FileAssumption

\* The blocks of a window are different.
LEMMA BlocksDiffer ==
    ASSUME NEW l, Window(l), NEW o \in 0..(l.size - 1), NEW p \in 0..(l.size - 1)
    PROVE  At(l, o) \in Blocks /\ (o # p => At(l, o) # At(l, p))
<1>1. /\ l.start \in 0..(N - 1) /\ o \in 0..(N - 1) /\ p \in 0..(N - 1)
      /\ l.size \in Nat /\ l.size <= N
  BY FileAssumption DEF Window, Looks, Blocks
<1>2. l.start + o \in 0..(3 * N - 1) /\ l.start + p \in 0..(3 * N - 1)
  BY <1>1, FileAssumption
<1>3. At(l, o) \in Blocks /\ At(l, o) = IF l.start + o < N THEN l.start + o ELSE l.start + o - N
  BY <1>1, <1>2, Around, FileAssumption DEF At, Blocks
<1>4. At(l, p) = IF l.start + p < N THEN l.start + p ELSE l.start + p - N
  BY <1>1, <1>2, Around, FileAssumption DEF At
<1> QED BY <1>1, <1>3, <1>4, FileAssumption

\* From any block the whole disk can be reached.
LEMMA Reached ==
    ASSUME NEW l, Window(l), l.ckpoint = N
    PROVE  \A needed : Unseen(l, needed)
<1> SUFFICES ASSUME NEW x \in Blocks
             PROVE  \E i \in 0..(N - 1) : Wrap(l.start + l.next + i) = x
  BY DEF Unseen
<1> DEFINE a == l.start + l.next
           p == Wrap(a)
           i == IF x >= p THEN x - p ELSE x - p + N
<1>1. a \in 0..(2 * N - 1)
  BY FileAssumption DEF Window, Looks, Blocks
<1> HIDE DEF a
<1>2. p \in 0..(N - 1)
  <2>1. a \in 0..(3 * N - 1)
    BY <1>1, FileAssumption
  <2> QED BY <2>1, Around
<1> HIDE DEF p
<1>3. x \in 0..(N - 1) /\ i \in 0..(N - 1)
  BY <1>2, FileAssumption DEF Blocks
<1>4. Wrap(p + i) = Wrap(a + i)
  BY <1>1, <1>3, StartsBehind DEF p
<1>5. p + i \in 0..(3 * N - 1) /\ (p + i = x \/ p + i = x + N)
  BY <1>2, <1>3, FileAssumption
<1>6. Wrap(p + i) = x
  BY <1>3, <1>5, Around, FileAssumption
<1> QED BY <1>3, <1>4, <1>6 DEF a

\* The least of a set of offsets.
LEMMA LeastOffset ==
    ASSUME NEW T \in SUBSET Nat, T # {}
    PROVE  Min(T) \in T /\ \A y \in T : Min(T) <= y
<1>1. PICK x \in T : \A y \in T : ~ (<<y, x>> \in OpToRel(<, Nat))
  BY NatLessThanWellFounded, WFMin
<1>2. ASSUME NEW y \in T
      PROVE  x <= y
  <2>1. ~(<<y, x>> \in OpToRel(<, Nat))
    BY <1>1
  <2>2. <<y, x>> \in Nat \X Nat
    OBVIOUS
  <2>3. ~(y < x)
    BY <2>1, <2>2 DEF OpToRel
  <2> QED BY <2>3
<1> QED BY <1>2 DEF Min

-----------------------------------------------------------------------------
(* The steps of lfs_alloc                                                  *)

\* Going on within the window.
LEMMA SkipStays ==
    ASSUME NEW l, Window(l), NEW o \in l.next..l.size
    PROVE  LET t == Skip(l, o)
           IN  /\ Window(t) /\ t.start = l.start /\ t.size = l.size /\ t.next = o
               /\ t.ckpoint = l.ckpoint - (o - l.next)
               /\ t.used = l.used \ (0..(o - 1))
               /\ Ahead(t) = Ahead(l) \ (0..(o - 1))
<1> DEFINE c == l.ckpoint - (o - l.next)
           u == l.used \ (0..(o - 1))
           t == [l EXCEPT !.next = o, !.ckpoint = c, !.used = u]
<1>1. Skip(l, o) = t
  BY Zenon DEF Skip
<1>2. /\ l \in Looks /\ l.next \in Nat /\ l.size \in Nat /\ l.ckpoint \in 0..N /\ o \in Nat
      /\ l.used \in SUBSET Nat /\ l.start \in Blocks
  BY DEF Window, Looks
<1>3. c \in 0..N /\ u \in SUBSET Nat
  BY <1>2, FileAssumption DEF Window
<1> HIDE DEF c, u
<1>4. /\ t \in Looks /\ t.start = l.start /\ t.size = l.size /\ t.next = o
      /\ t.ckpoint = c /\ t.used = u
  BY <1>2, <1>3 DEF Looks
<1> HIDE DEF t
<1>5. Window(t)
  <2>1. l.size <= Lookahead /\ l.size <= N /\ o <= l.size /\ l.size - o <= c
    BY <1>2 DEF Window, c
  <2>2. u \subseteq 0..(l.size - 1)
    BY DEF Window, u
  <2> QED BY <1>2, <1>4, <2>1, <2>2 DEF Window
<1>6. Ahead(t) = Ahead(l) \ (0..(o - 1))
  BY <1>2, <1>4 DEF Ahead, u
<1> QED BY <1>1, <1>4, <1>5, <1>6 DEF c, u

\* The block that is taken was free, and it is not handed out again.
LEMMA TakeFree ==
    ASSUME NEW l, Window(l), NEW needed, Fresh(l, needed), Ahead(l) # {}
    PROVE  LET r == Take(l)
           IN  /\ r = [l |-> r.l, b |-> r.b]
               /\ r.b \in Blocks \ needed
               /\ Window(r.l) /\ Eager(r.l) /\ Fresh(r.l, needed \cup {r.b})
<1> DEFINE o == Min(Ahead(l))
           rest == Ahead(l) \ {o}
           n == IF rest = {} THEN l.size ELSE Min(rest)
           t == Skip(l, n)
           b == At(l, o)
<1>1. Take(l) = [l |-> t, b |-> b]
  BY Zenon DEF Take, At, Wrap
<1>2. l.next \in Nat /\ l.size \in Nat /\ l.next <= l.size /\ l.used \subseteq 0..(l.size - 1)
  BY DEF Window, Looks
<1>3. Ahead(l) \in SUBSET Nat /\ Ahead(l) \subseteq l.next..(l.size - 1)
  BY <1>2 DEF Ahead
<1>4. o \in Ahead(l) /\ \A y \in Ahead(l) : o <= y
  BY <1>3, LeastOffset
<1> HIDE DEF o
<1>5. rest # {} => Min(rest) \in rest /\ \A y \in rest : Min(rest) <= y
  BY <1>3, LeastOffset
<1>6. /\ n \in l.next..l.size /\ o < n
      /\ n = l.size \/ n \in Ahead(l)
      /\ \A y \in rest : y >= n
  BY <1>2, <1>3, <1>4, <1>5
<1> HIDE DEF n
<1>7. /\ Window(t) /\ t.start = l.start /\ t.size = l.size /\ t.next = n
      /\ t.used = l.used \ (0..(n - 1)) /\ Ahead(t) = Ahead(l) \ (0..(n - 1))
  BY <1>6, SkipStays
<1> HIDE DEF t
<1>8. Eager(t)
  BY <1>2, <1>6, <1>7 DEF Eager, Ahead
<1>9. b \in Blocks \ needed
  BY <1>2, <1>3, <1>4, BlocksDiffer DEF Fresh
<1>10. Fresh(t, needed \cup {b})
  <2> SUFFICES ASSUME NEW p \in Ahead(t)
               PROVE  At(t, p) \notin needed \cup {b}
    BY DEF Fresh
  <2>1. p \in Ahead(l) /\ p # o /\ o \in 0..(l.size - 1) /\ p \in 0..(l.size - 1)
    BY <1>2, <1>3, <1>4, <1>6, <1>7
  <2>2. At(t, p) = At(l, p)
    BY <1>7 DEF At
  <2>3. At(l, p) \notin needed
    BY <2>1 DEF Fresh
  <2>4. At(l, p) # b
    BY <2>1, BlocksDiffer
  <2> QED BY <2>2, <2>3, <2>4
<1> QED BY <1>1, <1>7, <1>8, <1>9, <1>10

\* A new window behind one that is used up, no larger than the checkpoint allows.
LEMMA ScanShows ==
    ASSUME NEW l, Window(l), l.next = l.size, l.ckpoint > 0, NEW needed
    PROVE  LET t == ScanFrom(l, needed)
           IN  /\ Window(t) /\ t.next = 0 /\ t.size >= 1
               /\ t.start = Wrap(l.start + l.next) /\ t.ckpoint = l.ckpoint
               /\ Fresh(t, needed) /\ Accurate(t, needed)
<1> DEFINE start == Wrap(l.start + l.next)
           T == {Lookahead, l.ckpoint}
           size == Min(T)
           used == { o \in 0..(size - 1) : Wrap(start + o) \in needed }
           t == [l EXCEPT !.start = start, !.next = 0, !.size = size, !.used = used]
<1>1. ScanFrom(l, needed) = t
  BY Zenon DEF ScanFrom, Wrap
<1>2. /\ l \in Looks /\ l.next \in Nat /\ l.size \in Nat /\ l.ckpoint \in 0..N
      /\ l.start \in 0..(N - 1) /\ l.next <= N
  BY FileAssumption DEF Window, Looks, Blocks
<1>3. start \in Blocks
  <2>1. l.start + l.next \in 0..(3 * N - 1)
    BY <1>2, FileAssumption
  <2> QED BY <2>1, Around DEF Blocks
<1>4. size \in T /\ \A y \in T : size <= y
  <2>1. T \in SUBSET Nat /\ T # {}
    BY <1>2, FileAssumption
  <2> HIDE DEF T
  <2> QED BY <2>1, LeastOffset
<1> HIDE DEF start, size
<1>5. size \in Nat /\ size >= 1 /\ size <= Lookahead /\ size <= l.ckpoint /\ size <= N
  BY <1>2, <1>4, FileAssumption
<1>6. used \in SUBSET Nat /\ used \subseteq 0..(size - 1)
  BY <1>5
<1>7. \A o \in 0..(size - 1) : o \in used <=> Wrap(start + o) \in needed
  OBVIOUS
<1> HIDE DEF used
<1>8. /\ t \in Looks /\ t.start = start /\ t.next = 0 /\ t.size = size
      /\ t.ckpoint = l.ckpoint /\ t.used = used
  BY <1>2, <1>3, <1>5, <1>6 DEF Looks
<1> HIDE DEF t
<1>9. Window(t)
  BY <1>2, <1>5, <1>6, <1>8 DEF Window
<1>10. Fresh(t, needed) /\ Accurate(t, needed)
  BY <1>5, <1>6, <1>7, <1>8 DEF Fresh, Accurate, Ahead, At
<1> QED BY <1>1, <1>5, <1>8, <1>9, <1>10 DEF start

-----------------------------------------------------------------------------
(* lfs_alloc: a walk of N+1 steps                                          *)

Result == [l : Looks, b : Blocks \cup {NoBlock}]

\* What holds after k steps of the walk that began at window l: a block was found, or
\* the walk has gone on and what is left of the disk has become less.
Walked(r, k, l, needed) ==
    /\ r \in Result /\ Window(r.l) /\ Fresh(r.l, needed \cup {r.b})
    /\ r.b # NoBlock => r.b \notin needed /\ Eager(r.l)
    /\ r.b = NoBlock /\ l.ckpoint = N => Unseen(r.l, needed)
    /\ r.b = NoBlock /\ k = 0 => r.l = l
    /\ r.b = NoBlock /\ k > 0 =>
          /\ Accurate(r.l, needed) /\ r.l.ckpoint <= N + 1 - k
          /\ \/ r.l.next = 0 /\ r.l.size >= 1
             \/ r.l.next = r.l.size /\ r.l.ckpoint = 0

\* No offset of a window lies at NoBlock.
LEMMA FreshNone ==
    ASSUME NEW l, Window(l), NEW needed
    PROVE  Fresh(l, needed) <=> Fresh(l, needed \cup {NoBlock})
<1>1. \A o \in Ahead(l) : o \in 0..(l.size - 1)
  BY DEF Ahead, Window, Looks
<1>2. \A o \in Ahead(l) : At(l, o) # NoBlock
  BY <1>1, BlocksDiffer DEF NoBlock, Blocks
<1> QED BY <1>2 DEF Fresh

\* The rest of a window holds no free block: what is unseen lies behind it.
LEMMA PassedOver ==
    ASSUME NEW l, Window(l), NEW needed, Unseen(l, needed), Accurate(l, needed), Ahead(l) = {}
    PROVE  Unseen(Skip(l, l.size), needed)
<1> DEFINE t == Skip(l, l.size)
<1>1. /\ l.start \in 0..(N - 1) /\ l.next \in Nat /\ l.size \in Nat /\ l.ckpoint \in 0..N
      /\ l.next <= l.size
  BY FileAssumption DEF Window, Looks, Blocks
<1>2. /\ t.start = l.start /\ t.next = l.size /\ t.ckpoint = l.ckpoint - (l.size - l.next)
  BY <1>1, SkipStays
<1> SUFFICES ASSUME NEW x \in Blocks \ needed
             PROVE  \E i \in 0..(t.ckpoint - 1) : Wrap(t.start + t.next + i) = x
  BY DEF Unseen
<1> HIDE DEF t
<1>3. PICK i \in 0..(l.ckpoint - 1) : Wrap(l.start + l.next + i) = x
  BY DEF Unseen
<1>4. i >= l.size - l.next
  <2> SUFFICES ASSUME i < l.size - l.next PROVE FALSE
    BY <1>1
  <2>1. l.next + i \in l.next..(l.size - 1)
    BY <1>1, <1>3
  <2>2. l.next + i \in l.used
    BY <2>1 DEF Ahead
  <2>3. At(l, l.next + i) = x
    <3>1. l.start + (l.next + i) = l.start + l.next + i
      BY <1>1, <1>3
    <3> QED BY <1>3, <3>1 DEF At
  <2> QED BY <2>1, <2>2, <2>3 DEF Accurate
<1>5. i - (l.size - l.next) \in 0..(t.ckpoint - 1)
  BY <1>1, <1>2, <1>3, <1>4
<1>6. t.start + t.next + (i - (l.size - l.next)) = l.start + l.next + i
  BY <1>1, <1>2, <1>3
<1> QED BY <1>3, <1>5, <1>6

\* The next window begins where the last one ended: the same blocks are unseen.
LEMMA ScannedBehind ==
    ASSUME NEW l, Window(l), l.next = l.size, l.ckpoint > 0, NEW needed, Unseen(l, needed)
    PROVE  Unseen(ScanFrom(l, needed), needed)
<1> DEFINE t == ScanFrom(l, needed)
<1>1. /\ l.start \in 0..(N - 1) /\ l.next \in Nat /\ l.next <= N /\ l.ckpoint \in 0..N
  BY FileAssumption DEF Window, Looks, Blocks
<1>2. t.start = Wrap(l.start + l.next) /\ t.next = 0 /\ t.ckpoint = l.ckpoint
  BY ScanShows
<1> SUFFICES ASSUME NEW x \in Blocks \ needed
             PROVE  \E i \in 0..(t.ckpoint - 1) : Wrap(t.start + t.next + i) = x
  BY DEF Unseen
<1> HIDE DEF t
<1>3. PICK i \in 0..(l.ckpoint - 1) : Wrap(l.start + l.next + i) = x
  BY DEF Unseen
<1>4. l.start + l.next \in 0..(2 * N - 1) /\ i \in 0..(N - 1)
  BY <1>1, <1>3, FileAssumption
<1>5. Wrap(Wrap(l.start + l.next) + i) = x
  BY <1>3, <1>4, StartsBehind
<1>6. Wrap(l.start + l.next) \in 0..(N - 1)
  BY <1>4, Around, FileAssumption
<1>7. t.start + t.next + i = Wrap(l.start + l.next) + i
  BY <1>2, <1>3, <1>6
<1> QED BY <1>2, <1>3, <1>5, <1>7

\* One step of the walk.
LEMMA WalksOn ==
    ASSUME NEW l, Window(l), Eager(l), NEW needed, NEW k \in 0..N, NEW r, Walked(r, k, l, needed)
    PROVE  Walked(AllocStep(r, needed), k + 1, l, needed)
<1>1. /\ r \in Result /\ Window(r.l) /\ k \in Nat /\ k + 1 # 0
  BY DEF Walked
<1>2. CASE r.b # NoBlock
  <2>1. AllocStep(r, needed) = r
    BY <1>2 DEF AllocStep
  <2> QED BY <1>1, <1>2, <2>1 DEF Walked
<1>3. CASE r.b = NoBlock /\ Ahead(r.l) # {}
  <2> DEFINE a == Take(r.l)
  <2>1. AllocStep(r, needed) = a
    BY <1>3 DEF AllocStep
  <2>2. Fresh(r.l, needed)
    BY <1>1, <1>3, FreshNone DEF Walked
  <2>3. /\ a = [l |-> a.l, b |-> a.b] /\ a.b \in Blocks \ needed
        /\ Window(a.l) /\ Eager(a.l) /\ Fresh(a.l, needed \cup {a.b})
    BY <1>1, <1>3, <2>2, TakeFree
  <2> HIDE DEF a
  <2>4. a \in Result /\ a.b # NoBlock
    <3>1. a.l \in Looks /\ a.b \in Blocks \cup {NoBlock} /\ a.b # NoBlock
      BY <2>3 DEF Window, Blocks, NoBlock
    <3> QED BY <2>3, <3>1 DEF Result
  <2> QED BY <2>1, <2>3, <2>4 DEF Walked
<1>4. CASE r.b = NoBlock /\ Ahead(r.l) = {}
  <2> DEFINE s == r.l
             t == Skip(s, s.size)
             u == IF t.ckpoint <= 0 THEN t ELSE ScanFrom(t, needed)
             a == [r EXCEPT !.l = u]
  <2>1. AllocStep(r, needed) = a
    BY <1>4, Zenon DEF AllocStep
  <2>2. /\ s.next \in Nat /\ s.size \in Nat /\ s.ckpoint \in 0..N /\ s.next <= s.size
        /\ s.size - s.next <= s.ckpoint
    BY <1>1 DEF Window, Looks
  <2>3. k = 0 => s.next = s.size
    <3> SUFFICES ASSUME k = 0, s.next < s.size PROVE FALSE
      BY <2>2
    <3>1. s = l
      BY <1>4 DEF Walked
    <3>2. s.next \in s.next..(s.size - 1) /\ s.next \notin s.used
      BY <2>2, <3>1 DEF Eager
    <3> QED BY <1>4, <3>2 DEF Ahead
  <2>4. Accurate(s, needed)
    <3>1. CASE k = 0
      BY <2>2, <2>3, <3>1 DEF Accurate
    <3>2. CASE k > 0
      BY <1>4, <3>2 DEF Walked
    <3> QED BY <1>1, <3>1, <3>2
  <2>5. /\ Window(t) /\ t.next = s.size /\ t.size = s.size
        /\ t.ckpoint = s.ckpoint - (s.size - s.next) /\ Ahead(t) = Ahead(s) \ (0..(s.size - 1))
    <3>1. s.size \in s.next..s.size
      BY <2>2
    <3> QED BY <1>1, <3>1, SkipStays
  <2>6. l.ckpoint = N => Unseen(t, needed)
    BY <1>1, <1>4, <2>4, PassedOver DEF Walked
  <2> HIDE DEF t
  <2>7. t.ckpoint \in 0..N /\ t.ckpoint <= N + 1 - (k + 1)
    <3>1. CASE k = 0
      BY <2>2, <2>3, <2>5, <3>1, FileAssumption
    <3>2. CASE k > 0
      <4>1. /\ s.ckpoint <= N + 1 - k
            /\ (s.next = 0 /\ s.size >= 1) \/ (s.next = s.size /\ s.ckpoint = 0)
        BY <1>4, <3>2 DEF Walked
      <4>2. k \in Nat /\ k <= N /\ N \in Nat
        BY FileAssumption
      <4>3. s.ckpoint - (s.size - s.next) <= N - k
        BY <2>2, <4>1, <4>2
      <4> QED BY <2>2, <2>5, <4>2, <4>3
    <3> QED BY <1>1, <3>1, <3>2
  <2>8. /\ Window(u) /\ Fresh(u, needed) /\ Accurate(u, needed) /\ u.ckpoint = t.ckpoint
        /\ (u.next = 0 /\ u.size >= 1) \/ (u.next = u.size /\ u.ckpoint = 0)
        /\ l.ckpoint = N => Unseen(u, needed)
    <3>1. CASE t.ckpoint <= 0
      <4>1. u = t /\ t.ckpoint = 0 /\ Ahead(t) = {} /\ t.next = t.size
        BY <1>4, <2>5, <2>7, <3>1
      <4>2. t.size \in Nat
        BY <2>5, <2>2
      <4>3. Accurate(t, needed)
        BY <4>1, <4>2 DEF Accurate
      <4> QED BY <2>5, <2>6, <4>1, <4>3 DEF Fresh
    <3>2. CASE t.ckpoint > 0
      <4>1. u = ScanFrom(t, needed)
        BY <2>7, <3>2
      <4> QED BY <2>5, <2>6, <3>2, <4>1, ScanShows, ScannedBehind
    <3> QED BY <2>7, <3>1, <3>2
  <2> HIDE DEF u
  <2>9. a \in Result /\ a.l = u /\ a.b = NoBlock
    BY <1>1, <1>4, <2>8 DEF Result, Window
  <2>10. Fresh(u, needed \cup {NoBlock})
    BY <2>8, FreshNone
  <2> HIDE DEF a
  <2> QED BY <1>1, <2>1, <2>7, <2>8, <2>9, <2>10 DEF Walked
<1> QED BY <1>2, <1>3, <1>4

\* A walk of n steps.
IsWalk(f, l, needed, n) ==
    /\ f = [k \in 0..n |-> f[k]]
    /\ f[0] = [l |-> l, b |-> NoBlock]
    /\ \A k \in 1..n : f[k] = AllocStep(f[k - 1], needed)

\* The recursion of Alloc is one: there are walks of every length.
LEMMA WalkExists ==
    ASSUME NEW l, NEW needed
    PROVE  \A n \in Nat : \E f : IsWalk(f, l, needed, n)
<1> SUFFICES ASSUME NEW n0 \in Nat, ~ \E f : IsWalk(f, l, needed, n0) PROVE FALSE
  OBVIOUS
<1> DEFINE T == { n \in Nat : ~ \E f : IsWalk(f, l, needed, n) }
<1>1. PICK n \in T : \A m \in T : ~ (<<m, n>> \in OpToRel(<, Nat))
  BY NatLessThanWellFounded, WFMin
<1>2. n \in Nat /\ ~ \E f : IsWalk(f, l, needed, n)
  OBVIOUS
<1>3. CASE n = 0
  <2> DEFINE f == [k \in 0..0 |-> [l |-> l, b |-> NoBlock]]
  <2>1. IsWalk(f, l, needed, 0)
    BY DEF IsWalk
  <2> QED BY <1>2, <1>3, <2>1
<1>4. CASE n # 0
  <2>1. n - 1 \in Nat /\ n - 1 < n
    BY <1>2, <1>4
  <2>2. n - 1 \notin T
    BY <1>1, <1>2, <2>1 DEF OpToRel
  <2>3. PICK g : IsWalk(g, l, needed, n - 1)
    BY <2>1, <2>2
  <2> DEFINE f == [k \in 0..n |-> IF k = n THEN AllocStep(g[n - 1], needed) ELSE g[k]]
  <2>4. f[0] = [l |-> l, b |-> NoBlock]
    BY <1>2, <1>4, <2>3 DEF IsWalk
  <2>5. ASSUME NEW k \in 1..n
        PROVE  f[k] = AllocStep(f[k - 1], needed)
    <3>1. /\ k - 1 \in 0..n /\ k - 1 # n /\ k \in 0..n /\ n - 1 # n /\ n - 1 \in 0..n
          /\ k # n => k \in 1..(n - 1)
      BY <1>2
    <3>2. f[k - 1] = g[k - 1]
      BY <3>1, Zenon
    <3>3. CASE k = n
      BY <3>1, <3>2, <3>3, Zenon
    <3>4. CASE k # n
      <4>1. f[k] = g[k]
        BY <3>1, <3>4, Zenon
      <4>2. g[k] = AllocStep(g[k - 1], needed)
        BY <2>3, <3>1, <3>4, Zenon DEF IsWalk
      <4> QED BY <3>2, <4>1, <4>2, Zenon
    <3> QED BY <3>3, <3>4
  <2>6. IsWalk(f, l, needed, n)
    BY <2>4, <2>5, Zenon DEF IsWalk
  <2> QED BY <1>2, <2>6
<1> QED BY <1>3, <1>4

\* Alloc is the end of a walk of N+1 steps.
LEMMA AllocWalks ==
    ASSUME NEW l, NEW needed
    PROVE  \E f : IsWalk(f, l, needed, N + 1) /\ Alloc(l, needed) = f[N + 1]
<1> DEFINE P(f) == f = [k \in 0..(N + 1) |->
                          IF k = 0 THEN [l |-> l, b |-> NoBlock]
                          ELSE AllocStep(f[k - 1], needed)]
           F == CHOOSE f : P(f)
<1>1. \E f : P(f)
  <2>1. PICK f : IsWalk(f, l, needed, N + 1)
    <3>1. N + 1 \in Nat
      BY FileAssumption
    <3> QED BY <3>1, WalkExists, Zenon
  <2>2. f = [k \in 0..(N + 1) |-> f[k]]
    BY <2>1, Zenon DEF IsWalk
  <2>3. ASSUME NEW k \in 0..(N + 1)
        PROVE  f[k] = IF k = 0 THEN [l |-> l, b |-> NoBlock] ELSE AllocStep(f[k - 1], needed)
    <3>1. k = 0 \/ (k # 0 /\ k \in 1..(N + 1))
      BY FileAssumption
    <3> QED BY <2>1, <3>1, Zenon DEF IsWalk
  <2>4. f = [k \in 0..(N + 1) |-> IF k = 0 THEN [l |-> l, b |-> NoBlock]
                                  ELSE AllocStep(f[k - 1], needed)]
    BY <2>2, <2>3, Zenon
  <2> QED BY <2>4
<1>2. P(F)
  BY <1>1, Zenon
<1>3. Alloc(l, needed) = F[N + 1]
  BY Zenon DEF Alloc
<1> HIDE DEF F
<1>4. IsWalk(F, l, needed, N + 1)
  <2>1. 0 \in 0..(N + 1) /\ \A k \in 1..(N + 1) : k \in 0..(N + 1) /\ k # 0
    BY FileAssumption
  <2>2. F = [k \in 0..(N + 1) |-> F[k]]
    BY <1>2
  <2>3. F[0] = [l |-> l, b |-> NoBlock]
    BY <1>2, <2>1, Zenon
  <2>4. \A k \in 1..(N + 1) : F[k] = AllocStep(F[k - 1], needed)
    BY <1>2, <2>1, Zenon
  <2> QED BY <2>2, <2>3, <2>4, Zenon DEF IsWalk
<1> QED BY <1>3, <1>4

\* Every step of a walk keeps Walked.
LEMMA WalkKeeps ==
    ASSUME NEW l, Window(l), Eager(l), NEW needed, Fresh(l, needed),
           NEW f, IsWalk(f, l, needed, N + 1)
    PROVE  \A k \in 0..(N + 1) : Walked(f[k], k, l, needed)
<1>1. Walked(f[0], 0, l, needed)
  <2> DEFINE r == [l |-> l, b |-> NoBlock]
  <2>1. f[0] = r
    BY DEF IsWalk
  <2>2. r \in Result /\ r.l = l /\ r.b = NoBlock
    BY DEF Result, Window
  <2> HIDE DEF r
  <2> QED BY <2>1, <2>2, FreshNone, Reached DEF Walked
<1> SUFFICES ASSUME NEW k0 \in 0..(N + 1), ~Walked(f[k0], k0, l, needed) PROVE FALSE
  OBVIOUS
<1> DEFINE T == { k \in 0..(N + 1) : ~Walked(f[k], k, l, needed) }
<1>2. T \in SUBSET Nat /\ T # {}
  BY FileAssumption
<1>3. PICK k \in T : \A y \in T : k <= y
  <2> HIDE DEF T
  <2> QED BY <1>2, LeastOffset
<1>4. k \in 1..(N + 1) /\ ~Walked(f[k], k, l, needed)
  BY <1>1, FileAssumption
<1>5. k - 1 \in 0..N /\ k - 1 \in 0..(N + 1) /\ k - 1 < k /\ (k - 1) + 1 = k
  BY <1>4, FileAssumption
<1>6. Walked(f[k - 1], k - 1, l, needed)
  <2>1. k - 1 \notin T
    BY <1>3, <1>5
  <2> QED BY <1>5, <2>1
<1>7. f[k] = AllocStep(f[k - 1], needed)
  BY <1>4 DEF IsWalk
<1>8. Walked(f[k], (k - 1) + 1, l, needed)
  BY <1>5, <1>6, <1>7, WalksOn
<1> QED BY <1>4, <1>5, <1>8

\* lfs_alloc returns a block that no one needs, and NOSPC after a checkpoint only
\* when every block is needed.
LEMMA AllocRight ==
    ASSUME NEW l, Window(l), Eager(l), NEW needed, Fresh(l, needed)
    PROVE  LET a == Alloc(l, needed)
           IN  /\ a.b \in Blocks \cup {NoBlock}
               /\ Window(a.l) /\ Eager(a.l) /\ Fresh(a.l, needed \cup {a.b})
               /\ a.b # NoBlock => a.b \notin needed
               /\ a.b = NoBlock /\ l.ckpoint = N => Blocks \subseteq needed
<1> DEFINE a == Alloc(l, needed)
<1>1. PICK f : IsWalk(f, l, needed, N + 1) /\ a = f[N + 1]
  BY AllocWalks
<1> HIDE DEF a
<1>2. N + 1 \in 0..(N + 1) /\ N + 1 > 0
  BY FileAssumption
<1>3. Walked(a, N + 1, l, needed)
  BY <1>1, <1>2, WalkKeeps
<1>4. a \in Result /\ Window(a.l) /\ Fresh(a.l, needed \cup {a.b})
  BY <1>3 DEF Walked
<1>5. /\ a.l.next \in Nat /\ a.l.size \in Nat /\ a.l.ckpoint \in 0..N
      /\ a.l.size - a.l.next <= a.l.ckpoint /\ a.l.used \subseteq 0..(a.l.size - 1)
  BY <1>4 DEF Window, Looks
<1>6. a.b = NoBlock => a.l.next = a.l.size /\ a.l.ckpoint = 0
  <2> SUFFICES ASSUME a.b = NoBlock PROVE a.l.next = a.l.size /\ a.l.ckpoint = 0
    OBVIOUS
  <2>1. /\ a.l.ckpoint <= N + 1 - (N + 1)
        /\ (a.l.next = 0 /\ a.l.size >= 1) \/ (a.l.next = a.l.size /\ a.l.ckpoint = 0)
    BY <1>2, <1>3 DEF Walked
  <2> QED BY <1>5, <2>1, FileAssumption
<1>7. Eager(a.l)
  <2>1. CASE a.b = NoBlock
    BY <1>5, <1>6, <2>1 DEF Eager
  <2>2. CASE a.b # NoBlock
    BY <1>3, <2>2 DEF Walked
  <2> QED BY <2>1, <2>2
<1>8. a.b = NoBlock /\ l.ckpoint = N => Blocks \subseteq needed
  BY <1>3, <1>6 DEF Walked, Unseen
<1>9. a.b # NoBlock => a.b \notin needed
  BY <1>3 DEF Walked
<1>10. a.b \in Blocks \cup {NoBlock}
  BY <1>4 DEF Result
<1> QED BY <1>4, <1>7, <1>8, <1>9, <1>10 DEF a

-----------------------------------------------------------------------------
(* The inductive invariant                                                 *)

Handle == [open : BOOLEAN, name : Names \cup {Absent}, blocks : Seq(Blocks),
           inline : BOOLEAN, dirty : BOOLEAN, writing : BOOLEAN, erred : BOOLEAN,
           gone : BOOLEAN]

Types ==
    /\ pair \in SUBSET Blocks /\ Cardinality(pair) = 2
    /\ files \in [Names -> Seq(Blocks) \cup {Absent}]
    /\ w \in Handle /\ mounted \in BOOLEAN

\* What the directories use, and what files and the upload do.
Dirs == {0, 1} \cup pair
FileBlocks == UNION { ToSet(files[n]) : n \in Present }
Data == FileBlocks \cup ToSet(w.blocks)

DataOwned ==
    /\ IsInjective(w.blocks)
    /\ \A n \in Present : IsInjective(files[n]) /\ ToSet(files[n]) \cap ToSet(w.blocks) = {}
    /\ \A n, x \in Present : n # x => ToSet(files[n]) \cap ToSet(files[x]) = {}

DirsOwned == pair \cap {0, 1} = {} /\ Data \cap Dirs = {}

\* The window stands between two calls, and what it shows as free is.
WindowInv == Window(la) /\ Eager(la) /\ Fresh(la, Dirs \cup Data)

\* lfs_fs_traverse sees every block of the upload, and its entry exists as long as it
\* is not marked as gone.
HandleInv ==
    /\ ~w.open => w.blocks = << >>
    /\ w.open => w.name \in Names
    /\ w.blocks # << >> => ~w.inline /\ (w.dirty \/ w.writing)
    /\ w.open /\ ~w.gone => w.name \in Present \/ want = Change(w.name, << >>)

\* The change being committed is that of a call.
Creates(n) == n \notin Present /\ want = Change(n, << >>)
Closes == w.open /\ ~w.gone /\ ~w.writing /\ w.name \in Present /\ want = Change(w.name, w.blocks)
Deletes(n) == n \in Present /\ want = Change(n, Absent)
Renames(n, n2) ==
    /\ n \in Present /\ n2 \notin Present
    /\ want = [x \in {n, n2} |-> IF x = n THEN Absent ELSE files[n]]

WantInv ==
    \/ want = NoChange
    \/ Closes
    \/ \E n \in Names : \/ Creates(n)
                        \/ Deletes(n)
                        \/ \E n2 \in Names : Renames(n, n2)

FileInv ==
    Types /\ DataOwned /\ DirsOwned /\ WindowInv /\ HandleInv /\ WantInv /\ full = FALSE

-----------------------------------------------------------------------------
(* What the invariant gives                                                *)

\* An empty file has no blocks.
LEMMA NoBlocks == << >> \in Seq(Blocks) /\ ToSet(<< >>) = {} /\ IsInjective(<< >>)
BY DEF ToSet, IsInjective

\* A file with one more block.
LEMMA OneMore ==
    ASSUME NEW s \in Seq(Blocks), NEW b \in Blocks
    PROVE  /\ Append(s, b) \in Seq(Blocks) /\ Append(s, b) # << >>
           /\ ToSet(Append(s, b)) = ToSet(s) \cup {b}
           /\ IsInjective(s) /\ b \notin ToSet(s) => IsInjective(Append(s, b))
<1> DEFINE t == Append(s, b)
<1>1. /\ t \in Seq(Blocks) /\ Len(t) = Len(s) + 1 /\ Len(s) \in Nat
      /\ DOMAIN s = 1..Len(s) /\ DOMAIN t = 1..(Len(s) + 1)
      /\ t[Len(s) + 1] = b /\ \A i \in 1..Len(s) : t[i] = s[i]
  OBVIOUS
<1> HIDE DEF t
<1>2. \A i \in 1..(Len(s) + 1) : i \in 1..Len(s) \/ i = Len(s) + 1
  BY <1>1
<1>3. \A i \in 1..Len(s) : i \in 1..(Len(s) + 1) /\ i # Len(s) + 1
  BY <1>1
<1>4. Len(s) + 1 \in 1..(Len(s) + 1)
  BY <1>1
<1>5. ToSet(t) = ToSet(s) \cup {b}
  BY <1>1, <1>2, <1>3, <1>4 DEF ToSet
<1>6. IsInjective(s) /\ b \notin ToSet(s) => IsInjective(t)
  BY <1>1, <1>2, <1>3, <1>4 DEF ToSet, IsInjective
<1>7. t # << >>
  BY <1>1
<1> QED BY <1>1, <1>5, <1>6, <1>7 DEF t

\* The blocks in the tree.
LEMMA TreeBlocks == InTree = Dirs \cup FileBlocks
BY Zenon DEF InTree, Dirs, FileBlocks

\* What lfs_fs_traverse sees is what is needed, and nothing of it lies off the disk.
LEMMA UsedIsNeeded ==
    ASSUME Types, HandleInv
    PROVE  Used(w) = Dirs \cup Data /\ Used(w) \subseteq Blocks
<1>1. InHandle(w) = ToSet(w.blocks)
  BY NoBlocks DEF InHandle, HandleInv
<1>2. Used(w) = Dirs \cup Data
  BY <1>1, TreeBlocks DEF Used, Data
<1>3. \A s \in Seq(Blocks) : ToSet(s) \subseteq Blocks
  BY DEF ToSet
<1>4. \A n \in Present : files[n] \in Seq(Blocks)
  BY DEF Present, Types
<1>5. w.blocks \in Seq(Blocks) /\ pair \subseteq Blocks /\ {0, 1} \subseteq Blocks
  BY FileAssumption DEF Types, Handle, Blocks
<1>6. Data \subseteq Blocks
  <2>1. FileBlocks \subseteq Blocks
    BY <1>3, <1>4, Zenon DEF FileBlocks
  <2> QED BY <1>3, <1>5, <2>1 DEF Data
<1> QED BY <1>2, <1>5, <1>6 DEF Dirs

\* The two ways to say that every block has one owner.
LEMMA OwnedAlone ==
    ASSUME DataOwned, DirsOwned
    PROVE  BlocksOwned
<1>1. ToSet(w.blocks) \cap InTree = {}
  <2>1. ToSet(w.blocks) \cap FileBlocks = {}
    BY Zenon DEF DataOwned, FileBlocks
  <2> QED BY <2>1, TreeBlocks DEF DirsOwned, Data
<1>2. ASSUME NEW n \in Present
      PROVE  Alone(files[n], {0, 1} \cup pair \cup UNION { ToSet(files[x]) : x \in Present \ {n} })
  <2>1. ToSet(files[n]) \cap Dirs = {}
    <3>1. ToSet(files[n]) \subseteq FileBlocks
      BY Zenon DEF FileBlocks
    <3> QED BY <3>1 DEF DirsOwned, Data
  <2>2. \A x \in Present \ {n} : ToSet(files[n]) \cap ToSet(files[x]) = {}
    BY DEF DataOwned
  <2>3. IsInjective(files[n])
    BY DEF DataOwned
  <2> QED BY <2>1, <2>2, <2>3 DEF Alone, Dirs
<1> QED BY <1>1, <1>2 DEF BlocksOwned, Alone, DataOwned, DirsOwned

\* A window of which nothing was looked at yet.
LEMMA DropEmpty ==
    ASSUME NEW b \in Blocks
    PROVE  Window(Drop(b)) /\ Eager(Drop(b)) /\ \A needed : Fresh(Drop(b), needed)
<1>1. Drop(b) \in Looks
  BY FileAssumption DEF Drop, Looks
<1>2. Window(Drop(b)) /\ Eager(Drop(b)) /\ Ahead(Drop(b)) = {}
  BY <1>1, FileAssumption DEF Drop, Window, Eager, Ahead
<1> QED BY <1>2 DEF Fresh

\* A handle that is not open.
LEMMA ClosedHandle == Closed \in Handle
BY NoBlocks DEF Closed, Handle

\* A pair of blocks has two.
LEMMA TwoBlocks ==
    ASSUME NEW a, NEW b, a # b
    PROVE  Cardinality({a, b}) = 2
<1>1. IsFiniteSet({a}) /\ Cardinality({a}) = 1
  BY FS_Singleton
<1>2. Cardinality({a} \cup {b}) = 2
  BY <1>1, FS_AddElement
<1>3. {a} \cup {b} = {a, b}
  OBVIOUS
<1> QED BY <1>2, <1>3

\* A change of one entry.
LEMMA OneChange ==
    ASSUME NEW n, NEW v
    PROVE  /\ DOMAIN Change(n, v) = {n} /\ Change(n, v)[n] = v /\ Change(n, v) # NoChange
BY DEF Change, NoChange

-----------------------------------------------------------------------------
(* The actions                                                             *)

\* The state at power-on.
LEMMA FileInit == Init => FileInv
<1> SUFFICES ASSUME Init PROVE FileInv
  OBVIOUS
<1>1. Cardinality({2, 3}) = 2 /\ {2, 3} \in SUBSET Blocks
  <2>1. {2, 3} \subseteq Blocks
    BY FileAssumption DEF Blocks
  <2>2. 2 # 3
    OBVIOUS
  <2> QED BY <2>1, <2>2, TwoBlocks, Zenon
<1>2. Present = {} /\ w.blocks = << >> /\ ~w.open
  BY DEF Init, Present, Closed
<1>3. Data = {}
  BY <1>2, NoBlocks DEF Data, FileBlocks
<1>4. Types
  BY <1>1, ClosedHandle DEF Init, Types
<1>5. DataOwned /\ DirsOwned
  BY <1>2, <1>3, NoBlocks DEF Init, DataOwned, DirsOwned
<1>6. WindowInv
  <2>1. 0 \in Blocks
    BY FileAssumption DEF Blocks
  <2> QED BY <2>1, DropEmpty DEF Init, WindowInv
<1>7. HandleInv /\ WantInv /\ full = FALSE
  BY <1>2 DEF Init, HandleInv, WantInv
<1> QED BY <1>4, <1>5, <1>6, <1>7 DEF FileInv

\* Entries and blocks stay what they are: nothing more is needed.
LEMMA SameData ==
    ASSUME files' = files, pair' = pair, w'.blocks = w.blocks
    PROVE  /\ Present' = Present /\ Data' = Data /\ Dirs' = Dirs
           /\ DataOwned => DataOwned'
           /\ DirsOwned => DirsOwned'
<1>1. Present' = Present
  BY DEF Present
<1>2. Data' = Data /\ Dirs' = Dirs
  BY <1>1 DEF Data, FileBlocks, Dirs
<1>3. DataOwned => DataOwned'
  BY <1>1 DEF DataOwned
<1> QED BY <1>1, <1>2, <1>3 DEF DirsOwned

\* Mounting begins a new window.
LEMMA MountKeeps == FileInv /\ Mount => FileInv'
<1> SUFFICES ASSUME FileInv, Mount PROVE FileInv'
  OBVIOUS
<1>1. files' = files /\ pair' = pair /\ w' = w /\ full' = full /\ want' = want
  BY DEF Mount
<1>2. /\ Present' = Present /\ Data' = Data /\ Dirs' = Dirs /\ DataOwned' /\ DirsOwned'
  BY <1>1, SameData DEF FileInv
<1>3. WindowInv'
  BY DropEmpty DEF Mount, WindowInv
<1>4. Types' /\ HandleInv'
  BY <1>1, <1>2 DEF FileInv, Types, HandleInv, Mount
<1>5. WantInv'
  BY <1>1, <1>2 DEF FileInv, WantInv, Closes, Creates, Deletes, Renames
<1> QED BY <1>1, <1>2, <1>3, <1>4, <1>5 DEF FileInv

\* Losing the power forgets the upload and the window.
LEMMA PowerLossKeeps == FileInv /\ PowerLoss => FileInv'
<1> SUFFICES ASSUME FileInv, PowerLoss PROVE FileInv'
  OBVIOUS
<1>1. /\ files' = files /\ pair' = pair /\ w' = Closed /\ full' = full /\ want' = NoChange
      /\ la' = Drop(0) /\ mounted' = FALSE
  BY DEF PowerLoss
<1>2. Present' = Present /\ w'.blocks = << >> /\ ~w'.open
  BY <1>1 DEF Present, Closed
<1>3. Data' \subseteq Data /\ Dirs' = Dirs
  BY <1>1, <1>2, NoBlocks DEF Data, FileBlocks, Dirs
<1>4. DataOwned'
  BY <1>1, <1>2, NoBlocks DEF FileInv, DataOwned
<1>5. DirsOwned'
  BY <1>1, <1>3 DEF FileInv, DirsOwned
<1>6. WindowInv'
  <2>1. 0 \in Blocks
    BY FileAssumption DEF Blocks
  <2> QED BY <1>1, <2>1, DropEmpty DEF WindowInv
<1>7. Types' /\ HandleInv' /\ WantInv'
  BY <1>1, <1>2, ClosedHandle DEF FileInv, Types, HandleInv, WantInv
<1> QED BY <1>1, <1>4, <1>5, <1>6, <1>7 DEF FileInv

\* A call that only asks for a change, or changes flags of the handle.
LEMMA CallKeeps ==
    ASSUME FileInv, Ready, w' \in Handle, w'.blocks = w.blocks, HandleInv', WantInv',
           UNCHANGED <<pair, files, la, mounted, full>>
    PROVE  FileInv'
<1>1. /\ Present' = Present /\ Data' = Data /\ Dirs' = Dirs /\ DataOwned' /\ DirsOwned'
  BY SameData DEF FileInv
<1>2. Types' /\ WindowInv'
  BY <1>1 DEF FileInv, Types, WindowInv
<1> QED BY <1>1, <1>2 DEF FileInv

\* fs_begin_write.
LEMMA OpenKeeps == ASSUME FileInv, NEW n \in Names, Open(n) PROVE FileInv'
<1>1. PICK c \in BOOLEAN : c = (n \in Present)
  <2>1. CASE n \in Present
    <3>1. TRUE = (n \in Present)
      BY <2>1
    <3> QED BY <3>1
  <2>2. CASE n \notin Present
    <3>1. FALSE = (n \in Present)
      BY <2>2
    <3> QED BY <3>1
  <2> QED BY <2>1, <2>2
<1> DEFINE t == [Closed EXCEPT !.open = TRUE, !.name = n, !.dirty = c]
<1>2. w' = t
  BY <1>1, Zenon DEF Open
<1>3. t \in Handle /\ t.open /\ t.name = n /\ t.blocks = << >> /\ ~t.gone
  BY NoBlocks DEF Closed, Handle
<1> HIDE DEF t
<1>4. /\ Ready /\ ~w.open /\ UNCHANGED <<pair, files, la, mounted, full>>
      /\ want' = IF n \in Present THEN NoChange ELSE Change(n, << >>)
  BY DEF Open
<1>5. Present' = Present
  BY <1>4 DEF Present
<1>6. HandleInv'
  BY <1>2, <1>3, <1>4, <1>5 DEF HandleInv
<1>7. WantInv'
  BY <1>4, <1>5 DEF WantInv, Creates
<1>8. w.blocks = << >>
  BY <1>4 DEF FileInv, HandleInv
<1> QED BY <1>2, <1>3, <1>4, <1>6, <1>7, <1>8, CallKeeps

\* fs_write, while the file is in its entry.
LEMMA WriteInlineKeeps == FileInv /\ WriteInline => FileInv'
<1> SUFFICES ASSUME FileInv, WriteInline PROVE FileInv'
  OBVIOUS
<1>1. /\ Ready /\ w.open /\ w.inline /\ UNCHANGED <<pair, files, la, mounted, full>> /\ want' = want
      /\ w' = [w EXCEPT !.writing = TRUE] /\ want = NoChange
  BY DEF WriteInline, Ready
<1>2. w \in Handle
  BY DEF FileInv, Types
<1>3. /\ w' \in Handle /\ w'.open = w.open /\ w'.blocks = w.blocks /\ w'.name = w.name
      /\ w'.gone = w.gone
  BY <1>1, <1>2 DEF Handle
<1>4. Present' = Present
  BY <1>1 DEF Present
<1>5. w.blocks = << >>
  BY <1>1 DEF FileInv, HandleInv
<1>6. HandleInv'
  BY <1>1, <1>3, <1>4, <1>5 DEF FileInv, HandleInv
<1>7. WantInv'
  BY <1>1 DEF WantInv
<1> QED BY <1>1, <1>3, <1>6, <1>7, CallKeeps

\* fs_end_write and fs_abort_write, up to the commit.
LEMMA CloseKeeps == FileInv /\ Close => FileInv'
<1> SUFFICES ASSUME FileInv, Close PROVE FileInv'
  OBVIOUS
<1>1. /\ Ready /\ w.open /\ UNCHANGED <<pair, files, la, mounted, full>> /\ want = NoChange
  BY DEF Close, Ready
<1>2. w \in Handle /\ w.name \in Names /\ Present' = Present
  BY <1>1 DEF FileInv, Types, HandleInv, Present
<1>3. CASE w.erred \/ w.gone \/ ~(w.dirty \/ w.writing)
  <2>1. w' = Closed /\ want' = NoChange
    BY <1>1, <1>3 DEF Close
  <2>2. w'.blocks = << >> /\ ~w'.open /\ w' \in Handle
    BY <2>1, ClosedHandle DEF Closed
  <2>3. Data' \subseteq Data /\ Dirs' = Dirs
    BY <1>1, <1>2, <2>2, NoBlocks DEF Data, FileBlocks, Dirs
  <2>4. DataOwned' /\ DirsOwned'
    BY <1>1, <1>2, <2>2, <2>3, NoBlocks DEF FileInv, DataOwned, DirsOwned
  <2>5. WindowInv'
    BY <1>1, <2>3 DEF FileInv, WindowInv, Fresh
  <2>6. Types' /\ HandleInv' /\ WantInv'
    BY <1>1, <2>1, <2>2 DEF FileInv, Types, HandleInv, WantInv
  <2> QED BY <1>1, <2>4, <2>5, <2>6 DEF FileInv
<1>4. CASE ~w.gone /\ ~w.erred /\ (w.dirty \/ w.writing)
  <2>1. w' = [w EXCEPT !.writing = FALSE, !.dirty = TRUE] /\ want' = Change(w.name, w.blocks)
    BY <1>4 DEF Close
  <2>2. /\ w' \in Handle /\ w'.open = w.open /\ w'.blocks = w.blocks /\ w'.name = w.name
        /\ w'.gone = w.gone /\ w'.inline = w.inline /\ w'.dirty /\ ~w'.writing
    BY <1>2, <2>1 DEF Handle
  <2>3. w.name \in Present
    BY <1>1, <1>4, OneChange DEF FileInv, HandleInv
  <2>4. HandleInv'
    BY <1>1, <1>2, <2>2, <2>3 DEF FileInv, HandleInv
  <2>5. WantInv'
    BY <1>1, <1>2, <1>4, <2>1, <2>2, <2>3 DEF WantInv, Closes
  <2> QED BY <1>1, <2>2, <2>4, <2>5, CallKeeps
<1> QED BY <1>3, <1>4

\* fs_delete and fs_rename, up to the commit.
LEMMA AskKeeps ==
    ASSUME FileInv,
           (\E n \in Names : Delete(n)) \/ (\E n, n2 \in Names : Rename(n, n2))
    PROVE  FileInv'
<1>1. Ready /\ want = NoChange /\ w' = w /\ UNCHANGED <<pair, files, la, mounted, full>>
  BY DEF Delete, Rename, Ready
<1>2. Present' = Present
  BY <1>1 DEF Present
<1>3. WantInv'
  BY <1>1, <1>2 DEF Delete, Rename, WantInv, Deletes, Renames
<1>4. HandleInv'
  BY <1>1, <1>2, OneChange DEF FileInv, HandleInv
<1> QED BY <1>1, <1>3, <1>4, CallKeeps DEF FileInv, Types

\* A checkpoint makes the whole disk eligible again.
LEMMA CkpointFull ==
    ASSUME NEW l, Window(l)
    PROVE  LET t == Ckpoint(l)
           IN  /\ Window(t) /\ t.ckpoint = N
               /\ Eager(l) => Eager(t)
               /\ \A needed : Fresh(l, needed) => Fresh(t, needed)
<1> DEFINE t == Ckpoint(l)
<1>1. l \in Looks /\ l.size - l.next <= N
  BY FileAssumption DEF Window, Looks
<1>2. N \in 0..N
  BY FileAssumption
<1>3. /\ t \in Looks /\ t.ckpoint = N /\ t.start = l.start /\ t.next = l.next
      /\ t.size = l.size /\ t.used = l.used
  BY <1>1, <1>2 DEF Ckpoint, Looks
<1> HIDE DEF t
<1>4. Window(t)
  BY <1>1, <1>3 DEF Window
<1>5. Ahead(t) = Ahead(l) /\ \A o : At(t, o) = At(l, o)
  BY <1>3 DEF Ahead, At
<1> QED BY <1>3, <1>4, <1>5 DEF Eager, Fresh, t

\* fs_write, a block at a time.
LEMMA WriteBlockKeeps == FileInv /\ WriteBlock => FileInv'
<1> SUFFICES ASSUME FileInv, WriteBlock PROVE FileInv'
  OBVIOUS
<1> DEFINE c == Ckpoint(la)
           a == Alloc(c, Used(w))
<1>1. /\ Ready /\ want = NoChange /\ w.open /\ UNCHANGED <<pair, files, mounted, want>>
      /\ a.b = NoBlock => /\ w' = [w EXCEPT !.erred = TRUE]
                          /\ la' = a.l /\ full' = (Used(w) # Blocks)
      /\ a.b # NoBlock => /\ w' = [w EXCEPT !.blocks = Append(w.blocks, a.b), !.inline = FALSE,
                                           !.writing = TRUE]
                          /\ la' = Ckpoint(a.l) /\ full' = FALSE
  BY DEF WriteBlock, Ready
<1>2. /\ Types /\ DataOwned /\ DirsOwned /\ HandleInv /\ full = FALSE
      /\ Window(la) /\ Eager(la) /\ Fresh(la, Dirs \cup Data)
  BY DEF FileInv, WindowInv
<1>3. Used(w) = Dirs \cup Data /\ Used(w) \subseteq Blocks
  BY <1>2, UsedIsNeeded
<1>4. Window(c) /\ c.ckpoint = N /\ Eager(c) /\ Fresh(c, Used(w))
  BY <1>2, <1>3, CkpointFull
<1> HIDE DEF c
<1>5. /\ a.b \in Blocks \cup {NoBlock}
      /\ Window(a.l) /\ Eager(a.l) /\ Fresh(a.l, Used(w) \cup {a.b})
      /\ a.b # NoBlock => a.b \notin Used(w)
      /\ a.b = NoBlock => Blocks \subseteq Used(w)
  BY <1>4, AllocRight
<1> HIDE DEF a
<1>6. /\ w \in Handle /\ Present' = Present /\ Dirs' = Dirs /\ FileBlocks' = FileBlocks
  BY <1>1, <1>2 DEF Types, Present, Dirs, FileBlocks
<1>7. WantInv'
  BY <1>1 DEF WantInv
<1>8. CASE a.b = NoBlock
  <2>1. /\ w' \in Handle /\ w'.open = w.open /\ w'.blocks = w.blocks /\ w'.name = w.name
        /\ w'.gone = w.gone /\ w'.inline = w.inline /\ w'.dirty = w.dirty
        /\ w'.writing = w.writing
    BY <1>1, <1>6, <1>8 DEF Handle
  <2>2. Data' = Data /\ DataOwned' /\ DirsOwned'
    BY <1>1, <1>2, <2>1, SameData
  <2>3. WindowInv'
    BY <1>1, <1>3, <1>5, <1>6, <1>8, <2>2 DEF WindowInv, Fresh
  <2>4. HandleInv'
    BY <1>1, <1>2, <1>6, <2>1 DEF HandleInv
  <2>5. full' = FALSE
    BY <1>1, <1>3, <1>5, <1>8
  <2>6. Types'
    BY <1>1, <1>2, <2>1 DEF Types
  <2> QED BY <1>7, <2>2, <2>3, <2>4, <2>5, <2>6 DEF FileInv
<1>9. CASE a.b # NoBlock
  <2> DEFINE s == Append(w.blocks, a.b)
  <2>1. w.blocks \in Seq(Blocks) /\ a.b \in Blocks
    BY <1>5, <1>6, <1>9 DEF Handle
  <2>2. a.b \notin Dirs \cup Data
    BY <1>3, <1>5, <1>9
  <2>3. /\ s \in Seq(Blocks) /\ s # << >> /\ ToSet(s) = ToSet(w.blocks) \cup {a.b} /\ IsInjective(s)
    BY <1>2, <2>1, <2>2, OneMore DEF Data, DataOwned
  <2>4. w' = [w EXCEPT !.blocks = s, !.inline = FALSE, !.writing = TRUE] /\ la' = Ckpoint(a.l)
        /\ full' = FALSE
    BY <1>1, <1>9
  <2> HIDE DEF s
  <2>5. /\ w' \in Handle /\ w'.open = w.open /\ w'.blocks = s /\ w'.name = w.name
        /\ w'.gone = w.gone /\ ~w'.inline /\ w'.writing
    BY <1>6, <2>3, <2>4 DEF Handle
  <2>6. Data' = Data \cup {a.b}
    BY <1>6, <2>3, <2>5 DEF Data
  <2>7. DataOwned'
    <3>1. \A n \in Present : a.b \notin ToSet(files[n])
      BY <2>2, Zenon DEF Data, FileBlocks
    <3> QED BY <1>1, <1>2, <1>6, <2>3, <2>5, <3>1 DEF DataOwned
  <2>8. DirsOwned'
    BY <1>1, <1>2, <1>6, <2>2, <2>6 DEF DirsOwned
  <2>9. WindowInv'
    <3>1. Fresh(a.l, (Dirs \cup Data)')
      BY <1>3, <1>5, <1>6, <2>6 DEF Fresh
    <3>2. Window(la') /\ Eager(la') /\ Fresh(la', (Dirs \cup Data)')
      BY <1>5, <2>4, <3>1, CkpointFull
    <3> QED BY <3>2 DEF WindowInv
  <2>10. HandleInv'
    BY <1>1, <1>2, <1>6, <2>5 DEF HandleInv
  <2>11. Types'
    BY <1>1, <1>2, <2>5 DEF Types
  <2> QED BY <1>7, <2>4, <2>7, <2>8, <2>9, <2>10, <2>11 DEF FileInv
<1> QED BY <1>8, <1>9

\* What a commit leaves, besides the directory itself.
Settled ==
    /\ files' \in [Names -> Seq(Blocks) \cup {Absent}] /\ w' \in Handle
    /\ DataOwned' /\ Data' \subseteq Data /\ HandleInv' /\ WantInv'

\* The entry of a new file.
LEMMA CreatesSettles ==
    ASSUME FileInv, Committed, NEW n \in Names, Creates(n)
    PROVE  Settled
<1>1. DOMAIN want = {n} /\ want[n] = << >> /\ n \notin Present /\ want' = NoChange
  BY OneChange DEF Creates, Committed
<1>2. << >> # Absent /\ << >> \in Seq(Blocks)
  <2>1. << >> \in Seq(0..(N - 1))
    OBVIOUS
  <2> QED BY <2>1, FileAssumption DEF Blocks
<1>3. /\ files \in [Names -> Seq(Blocks) \cup {Absent}] /\ w \in Handle
  BY DEF FileInv, Types
<1>4. files' = [x \in Names |-> IF x = n THEN << >> ELSE files[x]]
  BY <1>1 DEF Committed
<1>5. Present' = Present \cup {n}
  BY <1>2, <1>4 DEF Present
<1>6. w' = w
  BY <1>1, <1>2 DEF Committed
<1>7. \A x \in Present' : IF x = n THEN files'[x] = << >> ELSE x \in Present /\ files'[x] = files[x]
  BY <1>4, <1>5 DEF Present
<1>8. DataOwned'
  BY <1>6, <1>7, NoBlocks DEF FileInv, DataOwned
<1>9. Data' \subseteq Data
  <2>1. FileBlocks' \subseteq FileBlocks
    BY <1>7, NoBlocks DEF FileBlocks
  <2> QED BY <1>6, <2>1 DEF Data
<1>10. HandleInv'
  <2>1. want = Change(w.name, << >>) => w.name = n
    BY <1>1, OneChange
  <2> QED BY <1>5, <1>6, <2>1 DEF FileInv, HandleInv
<1>11. files' \in [Names -> Seq(Blocks) \cup {Absent}]
  BY <1>2, <1>3, <1>4
<1>12. WantInv'
  BY <1>1 DEF WantInv
<1> QED BY <1>3, <1>6, <1>8, <1>9, <1>10, <1>11, <1>12 DEF Settled

\* The end of an upload: its blocks go from the handle to the entry.
LEMMA ClosesSettles ==
    ASSUME FileInv, Committed, Closes
    PROVE  Settled
<1> DEFINE n == w.name
<1>1. DOMAIN want = {n} /\ want[n] = w.blocks /\ n \in Present /\ n \in Names /\ want' = NoChange
  BY OneChange DEF Closes, Committed, Present
<1>2. /\ files \in [Names -> Seq(Blocks) \cup {Absent}] /\ w \in Handle
      /\ w.blocks \in Seq(Blocks) /\ w.blocks # Absent
  BY FileAssumption DEF FileInv, Types, Handle, Blocks
<1>3. w' = Closed
  BY <1>1, <1>2 DEF Committed, Closes
<1>4. files' = [x \in Names |-> IF x = n THEN w.blocks ELSE files[x]]
  BY <1>1 DEF Committed
<1>5. Present' = Present
  BY <1>1, <1>2, <1>4 DEF Present
<1>6. \A x \in Present : files'[x] = IF x = n THEN w.blocks ELSE files[x]
  BY <1>4 DEF Present
<1>7. w'.blocks = << >> /\ ~w'.open /\ w' \in Handle
  BY <1>3, ClosedHandle DEF Closed
<1>8. DataOwned'
  BY <1>5, <1>6, <1>7, NoBlocks DEF FileInv, DataOwned
<1>9. Data' \subseteq Data
  <2>1. \A x \in Present : ToSet(files'[x]) \subseteq Data
    BY <1>6 DEF Data, FileBlocks
  <2> QED BY <1>5, <1>7, <2>1, NoBlocks DEF Data, FileBlocks
<1>10. HandleInv' /\ WantInv'
  BY <1>1, <1>7 DEF HandleInv, WantInv
<1>11. files' \in [Names -> Seq(Blocks) \cup {Absent}]
  BY <1>2, <1>4
<1> QED BY <1>7, <1>8, <1>9, <1>10, <1>11 DEF Settled

\* An upload whose entry goes away keeps its blocks.
LEMMA EntryGoes ==
    ASSUME FileInv, Committed, want # NoChange, NEW n \in Names, n \in DOMAIN want,
           want[n] = Absent, \A x \in DOMAIN want \ {n} : x \notin Present,
           want # Change(w.name, << >>), Present \ {n} \subseteq Present'
    PROVE  w' \in Handle /\ w'.blocks = w.blocks /\ HandleInv'
<1> DEFINE g == [w EXCEPT !.gone = TRUE]
<1>1. w \in Handle
  BY DEF FileInv, Types
<1>2. /\ g \in Handle /\ g.open = w.open /\ g.blocks = w.blocks /\ g.name = w.name /\ g.gone
      /\ g.inline = w.inline /\ g.dirty = w.dirty /\ g.writing = w.writing
  BY <1>1 DEF Handle
<1>3. /\ w' = w \/ w' = g
      /\ w.open /\ ~w.gone /\ w.name = n => w' = g
  BY DEF Committed, Closes
<1> QED BY <1>1, <1>2, <1>3 DEF FileInv, HandleInv

\* fs_delete: the blocks of the file are free.
LEMMA DeletesSettles ==
    ASSUME FileInv, Committed, NEW n \in Names, Deletes(n)
    PROVE  Settled
<1>1. DOMAIN want = {n} /\ want[n] = Absent /\ n \in Present /\ want' = NoChange
  BY OneChange DEF Deletes, Committed
<1>2. Absent # << >>
  <2>1. << >> \in Seq(0..(N - 1))
    OBVIOUS
  <2> QED BY <2>1, FileAssumption
<1>3. files \in [Names -> Seq(Blocks) \cup {Absent}]
  BY DEF FileInv, Types
<1>4. files' = [x \in Names |-> IF x = n THEN Absent ELSE files[x]]
  BY <1>1 DEF Committed
<1>5. Present' = Present \ {n} /\ \A x \in Present' : x \in Present /\ files'[x] = files[x]
  BY <1>4 DEF Present
<1>6. want # Change(w.name, << >>) /\ want # NoChange
  <2>1. DOMAIN Change(w.name, << >>) = {w.name} /\ Change(w.name, << >>)[w.name] = << >>
    BY OneChange
  <2>2. ASSUME want = Change(w.name, << >>) PROVE FALSE
    <3>1. n = w.name
      BY <1>1, <2>1, <2>2, Zenon
    <3> QED BY <1>1, <1>2, <2>1, <2>2, <3>1, Zenon
  <2> QED BY <2>2 DEF Committed
<1>7. w' \in Handle /\ w'.blocks = w.blocks /\ HandleInv'
  BY <1>1, <1>5, <1>6, EntryGoes
<1>8. DataOwned'
  BY <1>5, <1>7 DEF FileInv, DataOwned
<1>9. Data' \subseteq Data
  <2>1. FileBlocks' \subseteq FileBlocks
    BY <1>5 DEF FileBlocks
  <2> QED BY <1>7, <2>1 DEF Data
<1>10. files' \in [Names -> Seq(Blocks) \cup {Absent}] /\ WantInv'
  BY <1>1, <1>3, <1>4 DEF WantInv
<1> QED BY <1>7, <1>8, <1>9, <1>10 DEF Settled

\* fs_rename: the blocks go from one entry to another.
LEMMA RenamesSettles ==
    ASSUME FileInv, Committed, NEW n \in Names, NEW n2 \in Names, Renames(n, n2)
    PROVE  Settled
<1>1. /\ DOMAIN want = {n, n2} /\ n # n2 /\ want[n] = Absent /\ want[n2] = files[n]
      /\ n \in Present /\ n2 \notin Present /\ want' = NoChange
  BY DEF Renames, Committed
<1>2. files \in [Names -> Seq(Blocks) \cup {Absent}] /\ files[n] # Absent
  BY <1>1 DEF FileInv, Types, Present
<1>3. files' = [x \in Names |-> IF x = n THEN Absent ELSE IF x = n2 THEN files[n] ELSE files[x]]
  BY <1>1 DEF Committed
<1>4. /\ Present' = (Present \ {n}) \cup {n2}
      /\ \A x \in Present' : files'[x] = IF x = n2 THEN files[n] ELSE files[x]
  BY <1>1, <1>2, <1>3 DEF Present
<1>5. want # Change(w.name, << >>) /\ want # NoChange
  <2>1. DOMAIN Change(w.name, << >>) = {w.name}
    BY OneChange, Zenon
  <2>2. ASSUME want = Change(w.name, << >>) PROVE FALSE
    <3>1. {n, n2} = {w.name}
      BY <1>1, <2>1, <2>2, Zenon
    <3> QED BY <1>1, <3>1
  <2> QED BY <2>2 DEF Committed
<1>6. w' \in Handle /\ w'.blocks = w.blocks /\ HandleInv'
  BY <1>1, <1>4, <1>5, EntryGoes
<1>7. DataOwned'
  <2>1. \A x \in Present' : IsInjective(files'[x]) /\ ToSet(files'[x]) \cap ToSet(w.blocks) = {}
    BY <1>1, <1>4 DEF FileInv, DataOwned
  <2>2. \A x, y \in Present' : x # y => ToSet(files'[x]) \cap ToSet(files'[y]) = {}
    BY <1>1, <1>4 DEF FileInv, DataOwned
  <2> QED BY <1>6, <2>1, <2>2 DEF FileInv, DataOwned
<1>8. Data' \subseteq Data
  <2>1. \A x \in Present' : ToSet(files'[x]) \subseteq FileBlocks
    BY <1>1, <1>4 DEF FileBlocks
  <2>2. FileBlocks' \subseteq FileBlocks
    BY <2>1 DEF FileBlocks
  <2> QED BY <1>6, <2>2 DEF Data
<1>9. files' \in [Names -> Seq(Blocks) \cup {Absent}] /\ WantInv'
  BY <1>1, <1>2, <1>3 DEF WantInv
<1> QED BY <1>6, <1>7, <1>8, <1>9 DEF Settled

\* Whatever call it was.
LEMMA CommittedSettles == FileInv /\ Committed => Settled
<1> SUFFICES ASSUME FileInv, Committed PROVE Settled
  OBVIOUS
<1>1. want # NoChange /\ WantInv
  BY DEF Committed, FileInv
<1> QED BY <1>1, CreatesSettles, ClosesSettles, DeletesSettles, RenamesSettles DEF WantInv

\* The commit where the directory is.
LEMMA CommitKeeps == FileInv /\ Commit => FileInv'
<1> SUFFICES ASSUME FileInv, Commit PROVE FileInv'
  OBVIOUS
<1>1. Settled /\ pair' = pair /\ la' = la /\ mounted' = mounted /\ full' = full
  BY CommittedSettles DEF Commit
<1>2. Dirs' = Dirs
  BY <1>1 DEF Dirs
<1>3. Types' /\ WindowInv' /\ DirsOwned'
  BY <1>1, <1>2 DEF FileInv, Types, WindowInv, DirsOwned, Settled, Fresh
<1> QED BY <1>1, <1>3 DEF FileInv, Settled

\* The commit that moves the directory to a new block.
LEMMA CommitRelocatedKeeps == FileInv /\ CommitRelocated => FileInv'
<1> SUFFICES ASSUME FileInv, CommitRelocated PROVE FileInv'
  OBVIOUS
<1> DEFINE a == Alloc(la, Used(w))
<1>1. /\ Settled /\ a.b # NoBlock /\ la' = a.l /\ mounted' = mounted /\ full' = full
      /\ \E b \in pair : pair' = {b, a.b}
  BY CommittedSettles DEF CommitRelocated
<1>2. PICK b \in pair : pair' = {b, a.b}
  BY <1>1
<1>3. Used(w) = Dirs \cup Data /\ Used(w) \subseteq Blocks
  BY UsedIsNeeded DEF FileInv
<1>4. /\ a.b \in Blocks /\ a.b \notin Dirs \cup Data
      /\ Window(a.l) /\ Eager(a.l) /\ Fresh(a.l, Dirs \cup Data \cup {a.b})
  BY <1>1, <1>3, AllocRight DEF FileInv, WindowInv
<1> HIDE DEF a
<1>5. b # a.b /\ pair' \in SUBSET Blocks /\ Cardinality(pair') = 2
  BY <1>2, <1>4, TwoBlocks DEF FileInv, Types, Dirs
<1>6. Types'
  BY <1>1, <1>5 DEF FileInv, Types, Settled
<1>7. Dirs' \subseteq Dirs \cup {a.b} /\ Data' \subseteq Data
  BY <1>1, <1>2 DEF Dirs, Settled
<1>8. DirsOwned'
  BY <1>2, <1>4, <1>7 DEF FileInv, DirsOwned, Dirs
<1>9. WindowInv'
  BY <1>1, <1>4, <1>7 DEF WindowInv, Fresh
<1> QED BY <1>1, <1>6, <1>8, <1>9 DEF FileInv, Settled

-----------------------------------------------------------------------------
(* The theorems                                                            *)

\* The invariant: for every disk, window and set of files, however uploads, deletions,
\* renames, moves of the directory and power losses follow each other.
THEOREM FileInvariant == Spec => []FileInv
<1>1. Init => FileInv
  BY FileInit
<1>2. FileInv /\ [Next]_vars => FileInv'
  <2> SUFFICES ASSUME FileInv, [Next]_vars PROVE FileInv'
    OBVIOUS
  <2>1. CASE UNCHANGED vars
    <3>1. /\ files' = files /\ pair' = pair /\ w' = w /\ full' = full /\ want' = want
          /\ la' = la /\ mounted' = mounted
      BY <2>1 DEF vars
    <3>2. Present' = Present /\ Data' = Data /\ Dirs' = Dirs /\ DataOwned' /\ DirsOwned'
      BY <3>1, SameData DEF FileInv
    <3>3. Types' /\ HandleInv' /\ WindowInv'
      BY <3>1, <3>2 DEF FileInv, Types, HandleInv, WindowInv
    <3>4. WantInv'
      BY <3>1, <3>2 DEF FileInv, WantInv, Closes, Creates, Deletes, Renames
    <3> QED BY <3>1, <3>2, <3>3, <3>4 DEF FileInv
  <2>2. CASE Mount \/ PowerLoss
    BY <2>2, MountKeeps, PowerLossKeeps
  <2>3. CASE WriteInline \/ WriteBlock \/ Close
    BY <2>3, WriteInlineKeeps, WriteBlockKeeps, CloseKeeps
  <2>4. CASE Commit \/ CommitRelocated
    BY <2>4, CommitKeeps, CommitRelocatedKeeps
  <2>5. CASE \E n \in Names : Open(n)
    BY <2>5, OpenKeeps
  <2>6. CASE (\E n \in Names : Delete(n)) \/ (\E n, n2 \in Names : Rename(n, n2))
    BY <2>6, AskKeeps
  <2> QED BY <2>1, <2>2, <2>3, <2>4, <2>5, <2>6 DEF Next
<1> QED BY <1>1, <1>2, PTL DEF Spec

\* Types; the checkpoint, an unsigned number in the code, never wraps below zero.
THEOREM FileTyped == Spec => []TypeOK
<1>1. FileInv => TypeOK
  <2> SUFFICES ASSUME FileInv PROVE TypeOK
    OBVIOUS
  <2>1. Types /\ Window(la) /\ full = FALSE
    BY DEF FileInv, WindowInv
  <2>2. la.start \in Blocks /\ la.ckpoint \in 0..N /\ la.used \subseteq 0..(la.size - 1)
    BY <2>1 DEF Window, Looks
  <2>3. la.size \in 0..Lookahead /\ la.next \in 0..la.size
    BY <2>1, FileAssumption DEF Window, Looks
  <2> QED BY <2>1, <2>2, <2>3 DEF Types, TypeOK
<1> QED BY <1>1, FileInvariant, PTL

\* No block is handed out while a directory, a file or the upload needs it, although
\* the window may have been filled long before.
THEOREM OneOwner == Spec => []BlocksOwned
<1>1. FileInv => BlocksOwned
  BY OwnedAlone DEF FileInv
<1> QED BY <1>1, FileInvariant, PTL

\* lfs_alloc reports a full disk to an upload only when every block is in use.
THEOREM FullIsFull == Spec => []NoSpaceTrue
<1>1. FileInv => NoSpaceTrue
  BY DEF FileInv, NoSpaceTrue
<1> QED BY <1>1, FileInvariant, PTL
=============================================================================
