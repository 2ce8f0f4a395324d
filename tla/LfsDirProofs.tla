---------------------------- MODULE LfsDirProofs ----------------------------
(***************************************************************************)
(* A littlefs directory keeps every promise of DirStore, whatever names it *)
(* has, however many commits fit into a block, wherever the power goes;    *)
(* because the three ways the code reads a log of tags, each with its own  *)
(* correction of ids, agree with the log replayed from its start.          *)
(***************************************************************************)
EXTENDS LfsDir, FiniteSetTheorems, TLAPS

Tags  == [type : {"create", "delete", "name", "struct"}, id : Nat, val : Nat]
Files == [name : Nat, val : Nat]

-----------------------------------------------------------------------------
(* Reading a log tag by tag                                                *)

\* What holds of 0 and of the next number with each number holds of all.
LEMMA Induction ==
    ASSUME NEW S, 0 \in S, \A k \in Nat : k \in S => k + 1 \in S
    PROVE  Nat \subseteq S
<1> SUFFICES ASSUME Nat \ S # {} PROVE FALSE
  OBVIOUS
<1> DEFINE T == Nat \ S
<1>1. PICK x \in T : \A y \in T : ~ (<<y, x>> \in OpToRel(<, Nat))
  BY NatLessThanWellFounded, WFMin
<1>2. x \in Nat /\ x \notin S /\ x # 0
  OBVIOUS
<1>3. x - 1 \in Nat /\ x - 1 < x /\ (x - 1) + 1 = x
  BY <1>2
<1>4. x - 1 \notin T
  BY <1>1, <1>2, <1>3 DEF OpToRel
<1> QED BY <1>2, <1>3, <1>4

\* Two readers that start alike and do the same with each tag find the same.
LEMMA Agree ==
    ASSUME NEW f, NEW g, NEW n \in Nat, f[0] = g[0],
           \A k \in 1..n : f[k - 1] = g[k - 1] => f[k] = g[k]
    PROVE  \A k \in 0..n : f[k] = g[k]
<1> DEFINE S == { k \in Nat : k <= n => f[k] = g[k] }
<1>1. 0 \in S
  OBVIOUS
<1>2. ASSUME NEW k \in Nat, k \in S PROVE k + 1 \in S
  <2> SUFFICES ASSUME k + 1 <= n PROVE f[k + 1] = g[k + 1]
    OBVIOUS
  <2>1. k + 1 \in 1..n /\ (k + 1) - 1 = k /\ k <= n
    OBVIOUS
  <2> QED BY <1>2, <2>1
<1> HIDE DEF S
<1>3. Nat \subseteq S
  BY <1>1, <1>2, Induction
<1> QED BY <1>3 DEF S

\* A reader: its state is b first and follows the steps.
Runs(f, steps, b) == f[0] = b /\ \A k \in 1..Len(steps) : f[k] = steps[k][f[k - 1]]

\* There is a reader for any steps.
LEMMA RunExists ==
    ASSUME NEW X, NEW b \in X, NEW steps \in Seq([X -> X])
    PROVE  \E f \in [0..Len(steps) -> X] : Runs(f, steps, b)
<1> DEFINE Starts(f, n) == f[0] = b /\ \A k \in 1..n : f[k] = steps[k][f[k - 1]]
           S == { n \in Nat : n <= Len(steps) => \E f \in [0..n -> X] : Starts(f, n) }
<1>1. 0 \in S
  <2>1. [k \in 0..0 |-> b] \in [0..0 -> X] /\ Starts([k \in 0..0 |-> b], 0)
    OBVIOUS
  <2> QED BY <2>1
<1>2. ASSUME NEW n \in Nat, n \in S PROVE n + 1 \in S
  <2> SUFFICES ASSUME n + 1 <= Len(steps) PROVE \E f \in [0..(n + 1) -> X] : Starts(f, n + 1)
    OBVIOUS
  <2>1. PICK g \in [0..n -> X] : Starts(g, n)
    BY <1>2
  <2> DEFINE f == [k \in 0..(n + 1) |-> IF k = n + 1 THEN steps[n + 1][g[n]] ELSE g[k]]
  <2>2. steps[n + 1] \in [X -> X] /\ g[n] \in X
    OBVIOUS
  <2>3. f \in [0..(n + 1) -> X]
    <3>1. ASSUME NEW k \in 0..(n + 1), k # n + 1 PROVE k \in 0..n
      BY <3>1
    <3> QED BY <2>2, <3>1
  <2>4. f[0] = b
    BY <2>1
  <2>5. ASSUME NEW k \in 1..(n + 1) PROVE f[k] = steps[k][f[k - 1]]
    <3>1. /\ k - 1 \in 0..(n + 1) /\ k - 1 # n + 1 /\ k \in 0..(n + 1)
          /\ k # n + 1 => k \in 1..n
          /\ k = n + 1 => k - 1 = n
      OBVIOUS
    <3>2. f[k - 1] = g[k - 1]
      BY <3>1
    <3> QED BY <2>1, <3>1, <3>2
  <2> HIDE DEF f
  <2> QED BY <2>3, <2>4, <2>5
<1> HIDE DEF S
<1>3. Nat \subseteq S
  BY <1>1, <1>2, Induction
<1>4. Len(steps) \in S
  BY <1>3
<1> QED BY <1>4 DEF S, Runs

Matches == [found : BOOLEAN, id : Int, count : Int]

\* What lfs_dir_fetchmatch makes of a match at each kind of tag.
Does(r, n, s, tag) ==
    LET count == IF tag.id >= s.count THEN tag.id + 1 ELSE s.count
    IN  /\ r \in Matches
        /\ tag.type = "create" =>
             /\ r.found = s.found /\ r.count = s.count + 1
             /\ r.id = IF s.id # NoId /\ tag.id <= s.id THEN s.id + 1 ELSE s.id
        /\ tag.type = "delete" =>
             /\ r.found <=> s.found /\ tag.id # s.id
             /\ r.count = s.count - 1
             /\ r.id = IF s.id # NoId /\ tag.id < s.id THEN s.id - 1 ELSE s.id
        /\ tag.type = "struct" => r = s
        /\ tag.type = "name" =>
              r = IF tag.val = n THEN [found |-> TRUE, id |-> tag.id, count |-> count]
                  ELSE IF tag.id = s.id THEN [found |-> FALSE, id |-> NoId, count |-> count]
                  ELSE IF tag.val > n /\ tag.id <= s.id
                       THEN [found |-> FALSE, id |-> tag.id, count |-> count]
                  ELSE [found |-> s.found, id |-> s.id, count |-> count]

\* FindStep is that.
LEMMA FindSteps ==
    ASSUME NEW n, NEW s \in Matches, NEW tag \in Tags
    PROVE  Does(FindStep(n, s, tag), n, s, tag)
<1>1. s = [found |-> s.found, id |-> s.id, count |-> s.count]
  BY DEF Matches
<1>2. /\ s.found \in BOOLEAN /\ s.id \in Int /\ s.count \in Int
      /\ tag.id \in Nat /\ NoId = 1023
  BY DEF Matches, Tags, NoId
<1> DEFINE killed == tag.type = "delete" /\ tag.id = s.id
           best   == IF killed THEN [s EXCEPT !.found = FALSE]
                     ELSE IF s.id = NoId THEN s
                     ELSE [s EXCEPT !.id = Moved(tag, @)]
           count  == IF tag.type = "name" /\ tag.id >= s.count THEN tag.id + 1
                     ELSE IF IsSplice(tag) THEN s.count + Splice(tag)
                     ELSE s.count
           r      == FindStep(n, s, tag)
<1> SUFFICES Does(r, n, s, tag)
  OBVIOUS
<1>3. r = IF tag.type # "name" THEN [best EXCEPT !.count = count]
          ELSE IF tag.val = n THEN [found |-> TRUE, id |-> tag.id, count |-> count]
          ELSE IF tag.id = best.id THEN [found |-> FALSE, id |-> NoId, count |-> count]
          ELSE IF tag.val > n /\ tag.id <= best.id
               THEN [found |-> FALSE, id |-> tag.id, count |-> count]
          ELSE [best EXCEPT !.count = count]
  BY Zenon DEF FindStep
<1>4. ASSUME tag.type = "create"
      PROVE  /\ count = s.count + 1
             /\ best = [found |-> s.found, count |-> s.count,
                        id |-> IF s.id # NoId /\ tag.id <= s.id THEN s.id + 1 ELSE s.id]
  BY <1>1, <1>2, <1>4 DEF IsSplice, Splice, Moved
<1>5. ASSUME tag.type = "delete", tag.id = s.id
      PROVE  /\ count = s.count - 1
             /\ best \in Matches /\ ~best.found /\ best.id = s.id
  BY <1>1, <1>2, <1>5 DEF IsSplice, Splice, Matches
<1>6. ASSUME tag.type = "delete", tag.id # s.id
      PROVE  /\ count = s.count - 1
             /\ best = [found |-> s.found, count |-> s.count,
                        id |-> IF s.id # NoId /\ tag.id < s.id THEN s.id - 1 ELSE s.id]
  BY <1>1, <1>2, <1>6 DEF IsSplice, Splice, Moved
<1>7. ASSUME tag.type \in {"struct", "name"}
      PROVE  /\ count = IF tag.type = "name" /\ tag.id >= s.count THEN tag.id + 1 ELSE s.count
             /\ best = s
  BY <1>1, <1>2, <1>7 DEF IsSplice, Moved
<1> HIDE DEF best, count, r
<1>8. CASE tag.type = "create"
  BY <1>2, <1>3, <1>4, <1>8 DEF Matches, Does
<1>9. CASE tag.type = "delete" /\ tag.id = s.id
  <2>1. tag.type # "name"
    BY <1>9
  <2>2. r = [best EXCEPT !.count = count]
    BY <1>3, <2>1, Zenon
  <2>3. best \in Matches /\ ~best.found /\ best.id = s.id /\ count = s.count - 1 /\ count \in Int
    BY <1>2, <1>5, <1>9
  <2>4. r \in Matches /\ r.found = best.found /\ r.id = best.id /\ r.count = count
    BY <2>2, <2>3 DEF Matches
  <2> QED BY <1>2, <1>9, <2>3, <2>4 DEF Does
<1>10. CASE tag.type = "delete" /\ tag.id # s.id
  BY <1>2, <1>3, <1>6, <1>10 DEF Matches, Does
<1>11. CASE tag.type = "struct"
  BY <1>1, <1>2, <1>3, <1>7, <1>11 DEF Matches, Does
<1>12. CASE tag.type = "name"
  <2>1. count \in Int /\ count = IF tag.id >= s.count THEN tag.id + 1 ELSE s.count
    BY <1>2, <1>7, <1>12
  <2> QED BY <1>1, <1>2, <1>3, <1>7, <1>12, <2>1 DEF Matches, Does
<1> QED BY <1>8, <1>9, <1>10, <1>11, <1>12 DEF Tags

\* lfs_dir_fetchmatch goes forwards.
LEMMA ScanRuns ==
    ASSUME NEW n, NEW log \in Seq(Tags)
    PROVE  \E f : /\ f[0] = NoMatch
                  /\ \A k \in 1..Len(log) : f[k] = FindStep(n, f[k - 1], log[k])
                  /\ Scan(log, n) = f[Len(log)]
<1> DEFINE steps == [k \in 1..Len(log) |-> [s \in Matches |-> FindStep(n, s, log[k])]]
           P(f)  == f = [k \in 0..Len(log) |->
                           IF k = 0 THEN NoMatch ELSE FindStep(n, f[k - 1], log[k])]
           F     == CHOOSE f : P(f)
<1>1. NoMatch \in Matches /\ steps \in Seq([Matches -> Matches]) /\ Len(steps) = Len(log)
  <2>1. NoMatch \in Matches
    BY DEF NoMatch, NoId, Matches
  <2>2. steps \in Seq([Matches -> Matches]) /\ Len(steps) = Len(log)
    <3>1. ASSUME NEW k \in 1..Len(log)
          PROVE  [s \in Matches |-> FindStep(n, s, log[k])] \in [Matches -> Matches]
      BY FindSteps DEF Does
    <3> QED BY <3>1
  <2> QED BY <2>1, <2>2
<1>2. PICK f \in [0..Len(log) -> Matches] : Runs(f, steps, NoMatch)
  BY <1>1, RunExists
<1>3. P(f)
  <2>1. ASSUME NEW k \in 0..Len(log)
        PROVE  f[k] = IF k = 0 THEN NoMatch ELSE FindStep(n, f[k - 1], log[k])
    <3>1. CASE k = 0
      BY <1>2, <3>1 DEF Runs
    <3>2. CASE k # 0
      <4>1. k \in 1..Len(log) /\ k - 1 \in 0..Len(log)
        BY <3>2
      <4>2. f[k] = steps[k][f[k - 1]] /\ f[k - 1] \in Matches
        BY <1>1, <1>2, <4>1 DEF Runs
      <4> QED BY <3>2, <4>1, <4>2, Zenon
    <3> QED BY <3>1, <3>2
  <2>2. f = [k \in 0..Len(log) |-> f[k]]
    OBVIOUS
  <2> QED BY <2>1, <2>2, Zenon
<1>4. P(F)
  BY <1>3, Zenon
<1>5. Scan(log, n) = F[Len(log)]
  BY Zenon DEF Scan
<1>6. F[0] = NoMatch /\ \A k \in 1..Len(log) : F[k] = FindStep(n, F[k - 1], log[k])
  <2>1. 0 \in 0..Len(log) /\ \A k \in 1..Len(log) : k \in 0..Len(log) /\ k # 0
    OBVIOUS
  <2> HIDE DEF F
  <2> QED BY <1>4, <2>1, Zenon
<1> QED BY <1>5, <1>6, Zenon

\* One tag more is one step more.
LEMMA ScanAppend ==
    ASSUME NEW n, NEW log \in Seq(Tags), NEW tag \in Tags
    PROVE  /\ Scan(<< >>, n) = NoMatch
           /\ Scan(Append(log, tag), n) = FindStep(n, Scan(log, n), tag)
<1>1. Scan(<< >>, n) = NoMatch
  <2> DEFINE empty == << >>
  <2>1. empty \in Seq(Tags) /\ Len(empty) = 0
    OBVIOUS
  <2> HIDE DEF empty
  <2>2. PICK f : /\ f[0] = NoMatch
                 /\ \A k \in 1..Len(empty) : f[k] = FindStep(n, f[k - 1], empty[k])
                 /\ Scan(empty, n) = f[Len(empty)]
    BY <2>1, ScanRuns, Zenon
  <2>3. Scan(empty, n) = NoMatch
    BY <2>1, <2>2, Zenon
  <2> QED BY <2>3 DEF empty
<1> DEFINE more == Append(log, tag)
<1>2. /\ more \in Seq(Tags) /\ Len(more) = Len(log) + 1 /\ Len(log) \in Nat
      /\ more[Len(log) + 1] = tag /\ \A k \in 1..Len(log) : more[k] = log[k]
  OBVIOUS
<1> HIDE DEF more
<1>3. PICK f : /\ f[0] = NoMatch
               /\ \A k \in 1..Len(log) : f[k] = FindStep(n, f[k - 1], log[k])
               /\ Scan(log, n) = f[Len(log)]
  BY ScanRuns, Zenon
<1>4. PICK g : /\ g[0] = NoMatch
               /\ \A k \in 1..Len(more) : g[k] = FindStep(n, g[k - 1], more[k])
               /\ Scan(more, n) = g[Len(more)]
  BY <1>2, ScanRuns, Zenon
<1>5. \A k \in 1..Len(log) : k \in 1..Len(more)
  BY <1>2
<1>6. \A k \in 1..Len(log) : f[k - 1] = g[k - 1] => f[k] = g[k]
  BY <1>2, <1>3, <1>4, <1>5, Zenon
<1>7. \A k \in 0..Len(log) : f[k] = g[k]
  <2>1. f[0] = g[0] /\ Len(log) \in Nat
    BY <1>2, <1>3, <1>4, Zenon
  <2> QED BY <1>6, <2>1, Agree, Zenon
<1>8. Len(log) \in 0..Len(log) /\ Len(more) \in 1..Len(more) /\ Len(more) - 1 = Len(log)
  BY <1>2
<1>9. Scan(more, n) = FindStep(n, Scan(log, n), tag)
  BY <1>2, <1>3, <1>4, <1>7, <1>8, Zenon
<1> QED BY <1>1, <1>9 DEF more

-----------------------------------------------------------------------------
(* The log replayed                                                        *)

\* A file more, a file less, or a new part of one.
Replays(r, d, tag) ==
    LET at == tag.id + 1
    IN  /\ r \in Seq(Files)
        /\ tag.type = "create" /\ tag.id <= Len(d) =>
             /\ Len(r) = Len(d) + 1
             /\ \A i \in 1..Len(r) : r[i] = IF i < at THEN d[i]
                                         ELSE IF i = at THEN [name |-> 0, val |-> 0]
                                         ELSE d[i - 1]
        /\ tag.type = "delete" /\ Len(d) # 0 =>
             /\ Len(r) = Len(d) - 1
             /\ \A i \in 1..Len(r) : r[i] = IF i < at THEN d[i] ELSE d[i + 1]
        /\ tag.type \in {"name", "struct"} =>
             /\ Len(r) = IF at <= Len(d) THEN Len(d) ELSE at
             /\ \A i \in 1..Len(r) :
                   /\ r[i].name = IF i = at /\ tag.type = "name" THEN tag.val
                                  ELSE IF i <= Len(d) THEN d[i].name ELSE 0
                   /\ r[i].val = IF i = at /\ tag.type = "struct" THEN tag.val
                                 ELSE IF i <= Len(d) THEN d[i].val ELSE 0

\* A function on 1..n is a sequence.
LEMMA SeqMade ==
    ASSUME NEW S, NEW n \in Nat, NEW r, r = [i \in 1..n |-> r[i]], \A i \in 1..n : r[i] \in S
    PROVE  r \in Seq(S) /\ Len(r) = n
OBVIOUS

\* Replay is that.
LEMMA ReplaySteps ==
    ASSUME NEW d \in Seq(Files), NEW tag \in Tags
    PROVE  Replays(Replay(d, tag), d, tag)
<1> DEFINE r    == Replay(d, tag)
           at   == tag.id + 1
           none == [name |-> 0, val |-> 0]
           size == IF at <= Len(d) THEN Len(d) ELSE at
<1> SUFFICES Replays(r, d, tag)
  OBVIOUS
<1>1. /\ at \in Nat /\ at >= 1 /\ tag.val \in Nat /\ Len(d) \in Nat /\ size \in Nat
      /\ none \in Files
  BY DEF Tags, Files
<1>2. \A i \in 1..Len(d) : d[i] \in Files
  OBVIOUS
<1>3. CASE tag.type = "create"
  <2>1. r = [i \in 1..(Len(d) + 1) |-> IF i < at THEN (IF i <= Len(d) THEN d[i] ELSE none)
                                        ELSE IF i = at THEN none ELSE d[i - 1]]
    BY <1>3 DEF Replay
  <2> HIDE DEF none, r
  <2>2. ASSUME NEW i \in 1..(Len(d) + 1)
        PROVE  /\ r[i] \in Files
               /\ tag.id <= Len(d) => r[i] = IF i < at THEN d[i] ELSE IF i = at THEN none ELSE d[i - 1]
    <3>1. /\ i <= Len(d) => i \in 1..Len(d)
          /\ i # at /\ ~(i < at) => i - 1 \in 1..Len(d)
          /\ tag.id <= Len(d) /\ i < at => i <= Len(d)
      BY <1>1 DEF Tags
    <3> QED BY <1>1, <1>2, <2>1, <3>1
  <2>3. r \in Seq(Files) /\ Len(r) = Len(d) + 1
    <3>1. Len(d) + 1 \in Nat /\ r = [i \in 1..(Len(d) + 1) |-> r[i]]
      BY <1>1, <2>1
    <3> QED BY <2>2, <3>1, SeqMade
  <2> QED BY <1>1, <1>3, <2>2, <2>3 DEF Replays, none
<1>4. CASE tag.type = "delete"
  <2>1. r = [i \in 1..(Len(d) - 1) |-> IF i < at THEN d[i] ELSE d[i + 1]]
    BY <1>4 DEF Replay
  <2> HIDE DEF r
  <2>2. CASE Len(d) = 0
    <3>1. r = << >>
      BY <2>1, <2>2
    <3> QED BY <1>4, <2>2, <3>1 DEF Replays
  <2>3. CASE Len(d) # 0
    <3>1. ASSUME NEW i \in 1..(Len(d) - 1) PROVE r[i] \in Files
      BY <1>1, <1>2, <2>1
    <3>2. r \in Seq(Files) /\ Len(r) = Len(d) - 1
      BY <1>1, <2>1, <2>3, <3>1
    <3> QED BY <1>1, <1>4, <2>1, <3>2 DEF Replays
  <2> QED BY <2>2, <2>3
<1>5. CASE tag.type = "name"
  <2>1. r = [i \in 1..size |->
                IF i = at THEN [name |-> tag.val,
                                val  |-> (IF i <= Len(d) THEN d[i] ELSE none).val]
                ELSE IF i <= Len(d) THEN d[i] ELSE none]
    BY <1>5 DEF Replay
  <2> HIDE DEF r
  <2>2. ASSUME NEW i \in 1..size
        PROVE  /\ r[i] \in Files
               /\ r[i].name = IF i = at THEN tag.val ELSE IF i <= Len(d) THEN d[i].name ELSE 0
               /\ r[i].val = IF i <= Len(d) THEN d[i].val ELSE 0
    BY <1>1, <1>2, <2>1 DEF Files
  <2>3. r = [i \in 1..size |-> r[i]]
    BY <2>1
  <2>4. r \in Seq(Files) /\ Len(r) = size
    <3> HIDE DEF size
    <3> QED BY <1>1, <2>2, <2>3, SeqMade
  <2> QED BY <1>5, <2>2, <2>4 DEF Replays
<1>6. CASE tag.type = "struct"
  <2>1. r = [i \in 1..size |->
                IF i = at THEN [name |-> (IF i <= Len(d) THEN d[i] ELSE none).name,
                                val  |-> tag.val]
                ELSE IF i <= Len(d) THEN d[i] ELSE none]
    BY <1>6 DEF Replay
  <2> HIDE DEF r
  <2>2. ASSUME NEW i \in 1..size
        PROVE  /\ r[i] \in Files
               /\ r[i].name = IF i <= Len(d) THEN d[i].name ELSE 0
               /\ r[i].val = IF i = at THEN tag.val ELSE IF i <= Len(d) THEN d[i].val ELSE 0
    BY <1>1, <1>2, <2>1 DEF Files
  <2>3. r = [i \in 1..size |-> r[i]]
    BY <2>1
  <2>4. r \in Seq(Files) /\ Len(r) = size
    <3> HIDE DEF size
    <3> QED BY <1>1, <2>2, <2>3, SeqMade
  <2> QED BY <1>6, <2>2, <2>4 DEF Replays
<1> QED BY <1>3, <1>4, <1>5, <1>6 DEF Tags

\* The reference goes forwards.
LEMMA ReplayRuns ==
    ASSUME NEW log \in Seq(Tags)
    PROVE  \E f : /\ f[0] = << >>
                  /\ \A k \in 1..Len(log) : f[k] = Replay(f[k - 1], log[k])
                  /\ Replayed(log) = f[Len(log)]
<1> DEFINE steps == [k \in 1..Len(log) |-> [s \in Seq(Files) |-> Replay(s, log[k])]]
           P(f)  == f = [k \in 0..Len(log) |->
                           IF k = 0 THEN << >> ELSE Replay(f[k - 1], log[k])]
           F     == CHOOSE f : P(f)
<1>1. << >> \in Seq(Files) /\ steps \in Seq([Seq(Files) -> Seq(Files)]) /\ Len(steps) = Len(log)
  <2>1. ASSUME NEW k \in 1..Len(log)
        PROVE  [s \in Seq(Files) |-> Replay(s, log[k])] \in [Seq(Files) -> Seq(Files)]
    <3>1. ASSUME NEW s \in Seq(Files) PROVE Replay(s, log[k]) \in Seq(Files)
      <4>1. Replays(Replay(s, log[k]), s, log[k])
        BY ReplaySteps
      <4> QED BY <4>1, Zenon DEF Replays
    <3> QED BY <3>1
  <2>2. << >> \in Seq(Files)
    OBVIOUS
  <2> QED BY <2>1, <2>2
<1>2. PICK f \in [0..Len(log) -> Seq(Files)] : Runs(f, steps, << >>)
  BY <1>1, RunExists
<1>3. P(f)
  <2>1. ASSUME NEW k \in 0..Len(log)
        PROVE  f[k] = IF k = 0 THEN << >> ELSE Replay(f[k - 1], log[k])
    <3>1. CASE k = 0
      BY <1>2, <3>1 DEF Runs
    <3>2. CASE k # 0
      <4>1. k \in 1..Len(log) /\ k - 1 \in 0..Len(log)
        BY <3>2
      <4>2. f[k] = steps[k][f[k - 1]] /\ f[k - 1] \in Seq(Files)
        BY <1>1, <1>2, <4>1 DEF Runs
      <4> QED BY <3>2, <4>1, <4>2, Zenon
    <3> QED BY <3>1, <3>2
  <2>2. f = [k \in 0..Len(log) |-> f[k]]
    OBVIOUS
  <2> QED BY <2>1, <2>2, Zenon
<1>4. P(F)
  BY <1>3, Zenon
<1>5. Replayed(log) = F[Len(log)]
  BY Zenon DEF Replayed
<1>6. F[0] = << >> /\ \A k \in 1..Len(log) : F[k] = Replay(F[k - 1], log[k])
  <2>1. 0 \in 0..Len(log) /\ \A k \in 1..Len(log) : k \in 0..Len(log) /\ k # 0
    OBVIOUS
  <2> HIDE DEF F
  <2> QED BY <1>4, <2>1, Zenon
<1> QED BY <1>5, <1>6, Zenon

\* One tag more is one step more.
LEMMA ReplayAppend ==
    ASSUME NEW log \in Seq(Tags), NEW tag \in Tags
    PROVE  /\ Replayed(<< >>) = << >>
           /\ Replayed(Append(log, tag)) = Replay(Replayed(log), tag)
<1>1. Replayed(<< >>) = << >>
  <2> DEFINE empty == << >>
  <2>1. empty \in Seq(Tags) /\ Len(empty) = 0
    OBVIOUS
  <2> HIDE DEF empty
  <2>2. PICK f : /\ f[0] = << >>
                 /\ \A k \in 1..Len(empty) : f[k] = Replay(f[k - 1], empty[k])
                 /\ Replayed(empty) = f[Len(empty)]
    BY <2>1, ReplayRuns, Zenon
  <2>3. Replayed(empty) = << >>
    BY <2>1, <2>2, Zenon
  <2> QED BY <2>3 DEF empty
<1> DEFINE more == Append(log, tag)
<1>2. /\ more \in Seq(Tags) /\ Len(more) = Len(log) + 1 /\ Len(log) \in Nat
      /\ more[Len(log) + 1] = tag /\ \A k \in 1..Len(log) : more[k] = log[k]
  OBVIOUS
<1> HIDE DEF more
<1>3. PICK f : /\ f[0] = << >>
               /\ \A k \in 1..Len(log) : f[k] = Replay(f[k - 1], log[k])
               /\ Replayed(log) = f[Len(log)]
  BY ReplayRuns, Zenon
<1>4. PICK g : /\ g[0] = << >>
               /\ \A k \in 1..Len(more) : g[k] = Replay(g[k - 1], more[k])
               /\ Replayed(more) = g[Len(more)]
  BY <1>2, ReplayRuns, Zenon
<1>5. \A k \in 1..Len(log) : k \in 1..Len(more)
  BY <1>2
<1>6. \A k \in 1..Len(log) : f[k - 1] = g[k - 1] => f[k] = g[k]
  BY <1>2, <1>3, <1>4, <1>5, Zenon
<1>7. \A k \in 0..Len(log) : f[k] = g[k]
  <2>1. f[0] = g[0] /\ Len(log) \in Nat
    BY <1>2, <1>3, <1>4, Zenon
  <2> QED BY <1>6, <2>1, Agree, Zenon
<1>8. Len(log) \in 0..Len(log) /\ Len(more) \in 1..Len(more) /\ Len(more) - 1 = Len(log)
  BY <1>2
<1>9. Replayed(more) = Replay(Replayed(log), tag)
  BY <1>2, <1>3, <1>4, <1>7, <1>8, Zenon
<1> QED BY <1>1, <1>9 DEF more

-----------------------------------------------------------------------------
(* The file an open handle stands for                                      *)

\* fixmlist goes through the tags of the commit.
LEMMA HeldRuns ==
    ASSUME NEW id \in Int, NEW log \in Seq(Tags)
    PROVE  \E f : /\ f[0] = id
                  /\ \A k \in 1..Len(log) : f[k] = HeldStep(f[k - 1], log[k])
                  /\ HeldId(id, log) = f[Len(log)]
<1> DEFINE steps == [k \in 1..Len(log) |-> [s \in Int |-> HeldStep(s, log[k])]]
           P(f)  == f = [k \in 0..Len(log) |->
                           IF k = 0 THEN id ELSE HeldStep(f[k - 1], log[k])]
           F     == CHOOSE f : P(f)
<1>1. id \in Int /\ steps \in Seq([Int -> Int]) /\ Len(steps) = Len(log)
  <2>1. ASSUME NEW k \in 1..Len(log)
        PROVE  [s \in Int |-> HeldStep(s, log[k])] \in [Int -> Int]
    BY DEF HeldStep, Moved, Splice, Tags
  <2> QED BY <2>1
<1>2. PICK f \in [0..Len(log) -> Int] : Runs(f, steps, id)
  BY <1>1, RunExists
<1>3. P(f)
  <2>1. ASSUME NEW k \in 0..Len(log)
        PROVE  f[k] = IF k = 0 THEN id ELSE HeldStep(f[k - 1], log[k])
    <3>1. CASE k = 0
      BY <1>2, <3>1 DEF Runs
    <3>2. CASE k # 0
      <4>1. k \in 1..Len(log) /\ k - 1 \in 0..Len(log)
        BY <3>2
      <4>2. f[k] = steps[k][f[k - 1]] /\ f[k - 1] \in Int
        BY <1>1, <1>2, <4>1 DEF Runs
      <4> QED BY <3>2, <4>1, <4>2, Zenon
    <3> QED BY <3>1, <3>2
  <2>2. f = [k \in 0..Len(log) |-> f[k]]
    OBVIOUS
  <2> QED BY <2>1, <2>2, Zenon
<1>4. P(F)
  BY <1>3, Zenon
<1>5. HeldId(id, log) = F[Len(log)]
  BY Zenon DEF HeldId
<1>6. F[0] = id /\ \A k \in 1..Len(log) : F[k] = HeldStep(F[k - 1], log[k])
  <2>1. 0 \in 0..Len(log) /\ \A k \in 1..Len(log) : k \in 0..Len(log) /\ k # 0
    OBVIOUS
  <2> HIDE DEF F
  <2> QED BY <1>4, <2>1, Zenon
<1> QED BY <1>5, <1>6, Zenon

\* One tag more is one step more.
LEMMA HeldAppend ==
    ASSUME NEW id \in Int, NEW log \in Seq(Tags), NEW tag \in Tags
    PROVE  /\ HeldId(id, << >>) = id
           /\ HeldId(id, Append(log, tag)) = HeldStep(HeldId(id, log), tag)
<1>1. HeldId(id, << >>) = id
  <2> DEFINE empty == << >>
  <2>1. empty \in Seq(Tags) /\ Len(empty) = 0
    OBVIOUS
  <2> HIDE DEF empty
  <2>2. PICK f : /\ f[0] = id
                 /\ \A k \in 1..Len(empty) : f[k] = HeldStep(f[k - 1], empty[k])
                 /\ HeldId(id, empty) = f[Len(empty)]
    BY <2>1, HeldRuns, Zenon
  <2>3. HeldId(id, empty) = id
    BY <2>1, <2>2, Zenon
  <2> QED BY <2>3 DEF empty
<1> DEFINE more == Append(log, tag)
<1>2. /\ more \in Seq(Tags) /\ Len(more) = Len(log) + 1 /\ Len(log) \in Nat
      /\ more[Len(log) + 1] = tag /\ \A k \in 1..Len(log) : more[k] = log[k]
  OBVIOUS
<1> HIDE DEF more
<1>3. PICK f : /\ f[0] = id
               /\ \A k \in 1..Len(log) : f[k] = HeldStep(f[k - 1], log[k])
               /\ HeldId(id, log) = f[Len(log)]
  BY HeldRuns, Zenon
<1>4. PICK g : /\ g[0] = id
               /\ \A k \in 1..Len(more) : g[k] = HeldStep(g[k - 1], more[k])
               /\ HeldId(id, more) = g[Len(more)]
  BY <1>2, HeldRuns, Zenon
<1>5. \A k \in 1..Len(log) : k \in 1..Len(more)
  BY <1>2
<1>6. \A k \in 1..Len(log) : f[k - 1] = g[k - 1] => f[k] = g[k]
  BY <1>2, <1>3, <1>4, <1>5, Zenon
<1>7. \A k \in 0..Len(log) : f[k] = g[k]
  <2>1. f[0] = g[0] /\ Len(log) \in Nat
    BY <1>2, <1>3, <1>4, Zenon
  <2> QED BY <1>6, <2>1, Agree, Zenon
<1>8. Len(log) \in 0..Len(log) /\ Len(more) \in 1..Len(more) /\ Len(more) - 1 = Len(log)
  BY <1>2
<1>9. HeldId(id, more) = HeldStep(HeldId(id, log), tag)
  BY <1>2, <1>3, <1>4, <1>7, <1>8, Zenon
<1> QED BY <1>1, <1>9 DEF more

-----------------------------------------------------------------------------
(* Reading a file                                                          *)

Found == [Nat -> Tags \cup {NoTag}]

\* lfs_dir_getslice, seen from the start of the log.
LEMMA GotRuns ==
    ASSUME NEW type, NEW log \in Seq(Tags)
    PROVE  \E f : /\ f[0] = NothingYet
                  /\ \A k \in 1..Len(log) : f[k] = GetStep(type, f[k - 1], log[k])
                  /\ Got(log, type) = f[Len(log)]
<1> DEFINE steps == [k \in 1..Len(log) |-> [s \in Found |-> GetStep(type, s, log[k])]]
           P(f)  == f = [k \in 0..Len(log) |->
                           IF k = 0 THEN NothingYet ELSE GetStep(type, f[k - 1], log[k])]
           F     == CHOOSE f : P(f)
<1>1. NothingYet \in Found /\ steps \in Seq([Found -> Found]) /\ Len(steps) = Len(log)
  <2>1. ASSUME NEW got \in Found, NEW tag \in Tags PROVE GetStep(type, got, tag) \in Found
    <3>1. ASSUME NEW id \in Nat, IsSplice(tag), tag.id <= id, ~(tag.type = "create" /\ tag.id = id)
          PROVE  id - Splice(tag) \in Nat
      BY <3>1 DEF IsSplice, Splice, Tags
    <3> QED BY <3>1 DEF GetStep, Found
  <2>2. ASSUME NEW k \in 1..Len(log)
        PROVE  [s \in Found |-> GetStep(type, s, log[k])] \in [Found -> Found]
    BY <2>1
  <2>3. NothingYet \in Found
    BY DEF NothingYet, Found
  <2> QED BY <2>2, <2>3
<1>2. PICK f \in [0..Len(log) -> Found] : Runs(f, steps, NothingYet)
  BY <1>1, RunExists
<1>3. P(f)
  <2>1. ASSUME NEW k \in 0..Len(log)
        PROVE  f[k] = IF k = 0 THEN NothingYet ELSE GetStep(type, f[k - 1], log[k])
    <3>1. CASE k = 0
      BY <1>2, <3>1 DEF Runs
    <3>2. CASE k # 0
      <4>1. k \in 1..Len(log) /\ k - 1 \in 0..Len(log)
        BY <3>2
      <4>2. f[k] = steps[k][f[k - 1]] /\ f[k - 1] \in Found
        BY <1>1, <1>2, <4>1 DEF Runs
      <4> QED BY <3>2, <4>1, <4>2, Zenon
    <3> QED BY <3>1, <3>2
  <2>2. f = [k \in 0..Len(log) |-> f[k]]
    OBVIOUS
  <2> QED BY <2>1, <2>2, Zenon
<1>4. P(F)
  BY <1>3, Zenon
<1>5. Got(log, type) = F[Len(log)]
  BY Zenon DEF Got
<1>6. F[0] = NothingYet /\ \A k \in 1..Len(log) : F[k] = GetStep(type, F[k - 1], log[k])
  <2>1. 0 \in 0..Len(log) /\ \A k \in 1..Len(log) : k \in 0..Len(log) /\ k # 0
    OBVIOUS
  <2> HIDE DEF F
  <2> QED BY <1>4, <2>1, Zenon
<1> QED BY <1>5, <1>6, Zenon

\* One tag more is one step more.
LEMMA GotAppend ==
    ASSUME NEW type, NEW log \in Seq(Tags), NEW tag \in Tags
    PROVE  /\ Got(<< >>, type) = NothingYet
           /\ Got(Append(log, tag), type) = GetStep(type, Got(log, type), tag)
<1>1. Got(<< >>, type) = NothingYet
  <2> DEFINE empty == << >>
  <2>1. empty \in Seq(Tags) /\ Len(empty) = 0
    OBVIOUS
  <2> HIDE DEF empty
  <2>2. PICK f : /\ f[0] = NothingYet
                 /\ \A k \in 1..Len(empty) : f[k] = GetStep(type, f[k - 1], empty[k])
                 /\ Got(empty, type) = f[Len(empty)]
    BY <2>1, GotRuns, Zenon
  <2>3. Got(empty, type) = NothingYet
    BY <2>1, <2>2, Zenon
  <2> QED BY <2>3 DEF empty
<1> DEFINE more == Append(log, tag)
<1>2. /\ more \in Seq(Tags) /\ Len(more) = Len(log) + 1 /\ Len(log) \in Nat
      /\ more[Len(log) + 1] = tag /\ \A k \in 1..Len(log) : more[k] = log[k]
  OBVIOUS
<1> HIDE DEF more
<1>3. PICK f : /\ f[0] = NothingYet
               /\ \A k \in 1..Len(log) : f[k] = GetStep(type, f[k - 1], log[k])
               /\ Got(log, type) = f[Len(log)]
  BY GotRuns, Zenon
<1>4. PICK g : /\ g[0] = NothingYet
               /\ \A k \in 1..Len(more) : g[k] = GetStep(type, g[k - 1], more[k])
               /\ Got(more, type) = g[Len(more)]
  BY <1>2, GotRuns, Zenon
<1>5. \A k \in 1..Len(log) : k \in 1..Len(more)
  BY <1>2
<1>6. \A k \in 1..Len(log) : f[k - 1] = g[k - 1] => f[k] = g[k]
  BY <1>2, <1>3, <1>4, <1>5, Zenon
<1>7. \A k \in 0..Len(log) : f[k] = g[k]
  <2>1. f[0] = g[0] /\ Len(log) \in Nat
    BY <1>2, <1>3, <1>4, Zenon
  <2> QED BY <1>6, <2>1, Agree, Zenon
<1>8. Len(log) \in 0..Len(log) /\ Len(more) \in 1..Len(more) /\ Len(more) - 1 = Len(log)
  BY <1>2
<1>9. Got(more, type) = GetStep(type, Got(log, type), tag)
  BY <1>2, <1>3, <1>4, <1>7, <1>8, Zenon
<1> QED BY <1>1, <1>9 DEF more

-----------------------------------------------------------------------------
(* Compacting the log                                                      *)

Slots == Tags \cup {NoTag}

\* What a later tag leaves of a tag.
LEMMA FilterIn ==
    ASSUME NEW f \in Slots, NEW tag \in Tags
    PROVE  /\ FilterStep(f, tag) \in Slots
           /\ f = NoTag => FilterStep(f, tag) = NoTag
           /\ f # NoTag =>
                FilterStep(f, tag) =
                    IF tag.id = f.id /\ tag.type \in {f.type, "delete"} THEN NoTag
                    ELSE Tag(f.type, Moved(tag, f.id), f.val)
<1>1. CASE f = NoTag
  BY <1>1 DEF FilterStep, Slots
<1>2. CASE f # NoTag
  <2>1. f \in Tags /\ f = [type |-> f.type, id |-> f.id, val |-> f.val]
    BY <1>2 DEF Slots, Tags
  <2>2. ASSUME ~(tag.id = f.id /\ tag.type \in {f.type, "delete"})
        PROVE  Moved(tag, f.id) \in Nat
    BY <2>1, <2>2 DEF Moved, IsSplice, Splice, Tags
  <2> QED BY <1>2, <2>1, <2>2 DEF FilterStep, Tag, Slots, Tags
<1> QED BY <1>1, <1>2

\* lfs_dir_traverse_filter meets each later tag.
LEMMA KeptRuns ==
    ASSUME NEW log \in Seq(Tags)
    PROVE  \E f : /\ f[0] = << >>
                  /\ \A k \in 1..Len(log) : f[k] = KeptStep(f[k - 1], log[k])
                  /\ Kept(log) = f[Len(log)]
<1> DEFINE steps == [k \in 1..Len(log) |-> [s \in Seq(Slots) |-> KeptStep(s, log[k])]]
           P(f)  == f = [k \in 0..Len(log) |->
                           IF k = 0 THEN << >> ELSE KeptStep(f[k - 1], log[k])]
           F     == CHOOSE f : P(f)
<1>1. << >> \in Seq(Slots) /\ steps \in Seq([Seq(Slots) -> Seq(Slots)]) /\ Len(steps) = Len(log)
  <2>1. ASSUME NEW kept \in Seq(Slots), NEW tag \in Tags PROVE KeptStep(kept, tag) \in Seq(Slots)
    <3>1. ASSUME NEW f \in Slots PROVE FilterStep(f, tag) \in Slots
      BY <3>1, FilterIn
    <3>2. [k \in DOMAIN kept |-> FilterStep(kept[k], tag)] \in Seq(Slots)
      BY <3>1
    <3> QED BY <3>2 DEF KeptStep, Slots
  <2>2. ASSUME NEW k \in 1..Len(log)
        PROVE  [s \in Seq(Slots) |-> KeptStep(s, log[k])] \in [Seq(Slots) -> Seq(Slots)]
    BY <2>1
  <2> QED BY <2>2
<1>2. PICK f \in [0..Len(log) -> Seq(Slots)] : Runs(f, steps, << >>)
  BY <1>1, RunExists
<1>3. P(f)
  <2>1. ASSUME NEW k \in 0..Len(log)
        PROVE  f[k] = IF k = 0 THEN << >> ELSE KeptStep(f[k - 1], log[k])
    <3>1. CASE k = 0
      BY <1>2, <3>1 DEF Runs
    <3>2. CASE k # 0
      <4>1. k \in 1..Len(log) /\ k - 1 \in 0..Len(log)
        BY <3>2
      <4>2. f[k] = steps[k][f[k - 1]] /\ f[k - 1] \in Seq(Slots)
        BY <1>1, <1>2, <4>1 DEF Runs
      <4> QED BY <3>2, <4>1, <4>2, Zenon
    <3> QED BY <3>1, <3>2
  <2>2. f = [k \in 0..Len(log) |-> f[k]]
    OBVIOUS
  <2> QED BY <2>1, <2>2, Zenon
<1>4. P(F)
  BY <1>3, Zenon
<1>5. Kept(log) = F[Len(log)]
  BY Zenon DEF Kept
<1>6. F[0] = << >> /\ \A k \in 1..Len(log) : F[k] = KeptStep(F[k - 1], log[k])
  <2>1. 0 \in 0..Len(log) /\ \A k \in 1..Len(log) : k \in 0..Len(log) /\ k # 0
    OBVIOUS
  <2> HIDE DEF F
  <2> QED BY <1>4, <2>1, Zenon
<1> QED BY <1>5, <1>6, Zenon

\* One tag more is one step more.
LEMMA KeptAppend ==
    ASSUME NEW log \in Seq(Tags), NEW tag \in Tags
    PROVE  /\ Kept(<< >>) = << >>
           /\ Kept(Append(log, tag)) = KeptStep(Kept(log), tag)
<1>1. Kept(<< >>) = << >>
  <2> DEFINE empty == << >>
  <2>1. empty \in Seq(Tags) /\ Len(empty) = 0
    OBVIOUS
  <2> HIDE DEF empty
  <2>2. PICK f : /\ f[0] = << >>
                 /\ \A k \in 1..Len(empty) : f[k] = KeptStep(f[k - 1], empty[k])
                 /\ Kept(empty) = f[Len(empty)]
    BY <2>1, KeptRuns, Zenon
  <2>3. Kept(empty) = << >>
    BY <2>1, <2>2, Zenon
  <2> QED BY <2>3 DEF empty
<1> DEFINE more == Append(log, tag)
<1>2. /\ more \in Seq(Tags) /\ Len(more) = Len(log) + 1 /\ Len(log) \in Nat
      /\ more[Len(log) + 1] = tag /\ \A k \in 1..Len(log) : more[k] = log[k]
  OBVIOUS
<1> HIDE DEF more
<1>3. PICK f : /\ f[0] = << >>
               /\ \A k \in 1..Len(log) : f[k] = KeptStep(f[k - 1], log[k])
               /\ Kept(log) = f[Len(log)]
  BY KeptRuns, Zenon
<1>4. PICK g : /\ g[0] = << >>
               /\ \A k \in 1..Len(more) : g[k] = KeptStep(g[k - 1], more[k])
               /\ Kept(more) = g[Len(more)]
  BY <1>2, KeptRuns, Zenon
<1>5. \A k \in 1..Len(log) : k \in 1..Len(more)
  BY <1>2
<1>6. \A k \in 1..Len(log) : f[k - 1] = g[k - 1] => f[k] = g[k]
  BY <1>2, <1>3, <1>4, <1>5, Zenon
<1>7. \A k \in 0..Len(log) : f[k] = g[k]
  <2>1. f[0] = g[0] /\ Len(log) \in Nat
    BY <1>2, <1>3, <1>4, Zenon
  <2> QED BY <1>6, <2>1, Agree, Zenon
<1>8. Len(log) \in 0..Len(log) /\ Len(more) \in 1..Len(more) /\ Len(more) - 1 = Len(log)
  BY <1>2
<1>9. Kept(more) = KeptStep(Kept(log), tag)
  BY <1>2, <1>3, <1>4, <1>7, <1>8, Zenon
<1> QED BY <1>1, <1>9 DEF more

\* lfs_dir_traverse hands on what the filter leaves.
LEMMA WrittenRuns ==
    ASSUME NEW log \in Seq(Slots)
    PROVE  \E f : /\ f[0] = << >>
                  /\ \A k \in 1..Len(log) : f[k] = WrittenStep(f[k - 1], log[k])
                  /\ Written(log) = f[Len(log)]
<1> DEFINE steps == [k \in 1..Len(log) |-> [s \in Seq(Tags) |-> WrittenStep(s, log[k])]]
           P(f)  == f = [k \in 0..Len(log) |->
                           IF k = 0 THEN << >> ELSE WrittenStep(f[k - 1], log[k])]
           F     == CHOOSE f : P(f)
<1>1. << >> \in Seq(Tags) /\ steps \in Seq([Seq(Tags) -> Seq(Tags)]) /\ Len(steps) = Len(log)
  <2>1. ASSUME NEW k \in 1..Len(log)
        PROVE  [s \in Seq(Tags) |-> WrittenStep(s, log[k])] \in [Seq(Tags) -> Seq(Tags)]
    BY DEF WrittenStep, Slots
  <2> QED BY <2>1
<1>2. PICK f \in [0..Len(log) -> Seq(Tags)] : Runs(f, steps, << >>)
  BY <1>1, RunExists
<1>3. P(f)
  <2>1. ASSUME NEW k \in 0..Len(log)
        PROVE  f[k] = IF k = 0 THEN << >> ELSE WrittenStep(f[k - 1], log[k])
    <3>1. CASE k = 0
      BY <1>2, <3>1 DEF Runs
    <3>2. CASE k # 0
      <4>1. k \in 1..Len(log) /\ k - 1 \in 0..Len(log)
        BY <3>2
      <4>2. f[k] = steps[k][f[k - 1]] /\ f[k - 1] \in Seq(Tags)
        BY <1>1, <1>2, <4>1 DEF Runs
      <4> QED BY <3>2, <4>1, <4>2, Zenon
    <3> QED BY <3>1, <3>2
  <2>2. f = [k \in 0..Len(log) |-> f[k]]
    OBVIOUS
  <2> QED BY <2>1, <2>2, Zenon
<1>4. P(F)
  BY <1>3, Zenon
<1>5. Written(log) = F[Len(log)]
  BY Zenon DEF Written
<1>6. F[0] = << >> /\ \A k \in 1..Len(log) : F[k] = WrittenStep(F[k - 1], log[k])
  <2>1. 0 \in 0..Len(log) /\ \A k \in 1..Len(log) : k \in 0..Len(log) /\ k # 0
    OBVIOUS
  <2> HIDE DEF F
  <2> QED BY <1>4, <2>1, Zenon
<1> QED BY <1>5, <1>6, Zenon

\* One tag more is one step more.
LEMMA WrittenAppend ==
    ASSUME NEW log \in Seq(Slots), NEW tag \in Slots
    PROVE  /\ Written(<< >>) = << >>
           /\ Written(Append(log, tag)) = WrittenStep(Written(log), tag)
<1>1. Written(<< >>) = << >>
  <2> DEFINE empty == << >>
  <2>1. empty \in Seq(Slots) /\ Len(empty) = 0
    OBVIOUS
  <2> HIDE DEF empty
  <2>2. PICK f : /\ f[0] = << >>
                 /\ \A k \in 1..Len(empty) : f[k] = WrittenStep(f[k - 1], empty[k])
                 /\ Written(empty) = f[Len(empty)]
    BY <2>1, WrittenRuns, Zenon
  <2>3. Written(empty) = << >>
    BY <2>1, <2>2, Zenon
  <2> QED BY <2>3 DEF empty
<1> DEFINE more == Append(log, tag)
<1>2. /\ more \in Seq(Slots) /\ Len(more) = Len(log) + 1 /\ Len(log) \in Nat
      /\ more[Len(log) + 1] = tag /\ \A k \in 1..Len(log) : more[k] = log[k]
  OBVIOUS
<1> HIDE DEF more
<1>3. PICK f : /\ f[0] = << >>
               /\ \A k \in 1..Len(log) : f[k] = WrittenStep(f[k - 1], log[k])
               /\ Written(log) = f[Len(log)]
  BY WrittenRuns, Zenon
<1>4. PICK g : /\ g[0] = << >>
               /\ \A k \in 1..Len(more) : g[k] = WrittenStep(g[k - 1], more[k])
               /\ Written(more) = g[Len(more)]
  BY <1>2, WrittenRuns, Zenon
<1>5. \A k \in 1..Len(log) : k \in 1..Len(more)
  BY <1>2
<1>6. \A k \in 1..Len(log) : f[k - 1] = g[k - 1] => f[k] = g[k]
  BY <1>2, <1>3, <1>4, <1>5, Zenon
<1>7. \A k \in 0..Len(log) : f[k] = g[k]
  <2>1. f[0] = g[0] /\ Len(log) \in Nat
    BY <1>2, <1>3, <1>4, Zenon
  <2> QED BY <1>6, <2>1, Agree, Zenon
<1>8. Len(log) \in 0..Len(log) /\ Len(more) \in 1..Len(more) /\ Len(more) - 1 = Len(log)
  BY <1>2
<1>9. Written(more) = WrittenStep(Written(log), tag)
  BY <1>2, <1>3, <1>4, <1>7, <1>8, Zenon
<1> QED BY <1>1, <1>9 DEF more

-----------------------------------------------------------------------------
(* The log of a block                                                      *)

Logs == Seq(Tags)

\* The commits of a block, one after the other.
LEMMA FlatRuns ==
    ASSUME NEW log \in Seq(Logs)
    PROVE  \E f : /\ f[0] = << >>
                  /\ \A k \in 1..Len(log) : f[k] = f[k - 1] \o log[k]
                  /\ FlattenSeq(log) = f[Len(log)]
<1> DEFINE steps == [k \in 1..Len(log) |-> [s \in Logs |-> s \o log[k]]]
           P(f)  == f = [k \in 1..Len(log) |-> IF k = 1 THEN log[k] ELSE f[k - 1] \o log[k]]
           F     == CHOOSE f : P(f)
<1>1. << >> \in Logs /\ steps \in Seq([Logs -> Logs]) /\ Len(steps) = Len(log)
  <2>1. ASSUME NEW k \in 1..Len(log)
        PROVE  [s \in Logs |-> s \o log[k]] \in [Logs -> Logs]
    BY DEF Logs
  <2> QED BY <2>1 DEF Logs
<1>2. PICK f \in [0..Len(log) -> Logs] : Runs(f, steps, << >>)
  BY <1>1, RunExists
<1>3. \A k \in 1..Len(log) : f[k] = f[k - 1] \o log[k] /\ k - 1 \in 0..Len(log)
  <2>1. ASSUME NEW k \in 1..Len(log) PROVE f[k] = f[k - 1] \o log[k] /\ k - 1 \in 0..Len(log)
    <3>1. steps[k] = [s \in Logs |-> s \o log[k]] /\ k - 1 \in 0..Len(log)
      OBVIOUS
    <3> HIDE DEF steps
    <3>2. f[k] = steps[k][f[k - 1]] /\ f[k - 1] \in Logs
      BY <1>1, <1>2, <3>1 DEF Runs
    <3> QED BY <3>1, <3>2, Zenon
  <2> QED BY <2>1, Zenon
<1>4. f[0] = << >>
  BY <1>2 DEF Runs
<1>5. CASE Len(log) = 0
  BY <1>3, <1>4, <1>5 DEF FlattenSeq
<1>6. CASE Len(log) # 0
  <2> DEFINE g == [k \in 1..Len(log) |-> f[k]]
  <2>1. P(g)
    <3>1. ASSUME NEW k \in 1..Len(log)
          PROVE  f[k] = IF k = 1 THEN log[k] ELSE g[k - 1] \o log[k]
      <4>1. CASE k = 1
        <5>1. << >> \o log[k] = log[k]
          BY DEF Logs
        <5>2. k - 1 = 0
          BY <4>1
        <5> QED BY <1>3, <1>4, <4>1, <5>1, <5>2, Zenon
      <4>2. CASE k # 1
        <5>1. k - 1 \in 1..Len(log)
          BY <4>2
        <5> QED BY <1>3, <4>2, <5>1, Zenon
      <4> QED BY <4>1, <4>2
    <3> QED BY <3>1, Zenon
  <2>2. P(F)
    <3> HIDE DEF g
    <3> QED BY <2>1, Zenon
  <2>3. FlattenSeq(log) = F[Len(log)]
    BY <1>6, Zenon DEF FlattenSeq
  <2> DEFINE h0 == [k \in 0..Len(log) |-> IF k = 0 THEN << >> ELSE F[k]]
  <2>4. \A k \in 1..Len(log) : F[k] = IF k = 1 THEN log[k] ELSE F[k - 1] \o log[k]
    <3> HIDE DEF F
    <3> QED BY <2>2, Zenon
  <2>5. h0[0] = << >> /\ \A k \in 1..Len(log) : h0[k] = F[k]
    OBVIOUS
  <2>6. Len(log) \in 1..Len(log)
    BY <1>6
  <2>7. ASSUME NEW k \in 1..Len(log) PROVE h0[k] = h0[k - 1] \o log[k]
    <3>1. CASE k = 1
      <4>1. << >> \o log[k] = log[k]
        BY DEF Logs
      <4>2. k - 1 = 0
        BY <3>1
      <4> HIDE DEF h0, F
      <4> QED BY <2>4, <2>5, <3>1, <4>1, <4>2, Zenon
    <3>2. CASE k # 1
      <4>1. k - 1 \in 1..Len(log)
        BY <3>2
      <4> HIDE DEF h0, F
      <4> QED BY <2>4, <2>5, <3>2, <4>1, Zenon
    <3> QED BY <3>1, <3>2
  <2> HIDE DEF h0, F
  <2> QED BY <2>3, <2>5, <2>6, <2>7, Zenon
<1> QED BY <1>5, <1>6

\* A commit more is its tags more.
LEMMA FlatAppend ==
    ASSUME NEW log \in Seq(Logs), NEW tag \in Logs
    PROVE  /\ FlattenSeq(<< >>) = << >>
           /\ FlattenSeq(Append(log, tag)) = FlattenSeq(log) \o tag
<1>1. FlattenSeq(<< >>) = << >>
  <2> DEFINE empty == << >>
  <2>1. empty \in Seq(Logs) /\ Len(empty) = 0
    OBVIOUS
  <2> HIDE DEF empty
  <2>2. PICK f : /\ f[0] = << >>
                 /\ \A k \in 1..Len(empty) : f[k] = f[k - 1] \o empty[k]
                 /\ FlattenSeq(empty) = f[Len(empty)]
    BY <2>1, FlatRuns, Zenon
  <2>3. FlattenSeq(empty) = << >>
    BY <2>1, <2>2, Zenon
  <2> QED BY <2>3 DEF empty
<1> DEFINE more == Append(log, tag)
<1>2. /\ more \in Seq(Logs) /\ Len(more) = Len(log) + 1 /\ Len(log) \in Nat
      /\ more[Len(log) + 1] = tag /\ \A k \in 1..Len(log) : more[k] = log[k]
  OBVIOUS
<1> HIDE DEF more
<1>3. PICK f : /\ f[0] = << >>
               /\ \A k \in 1..Len(log) : f[k] = f[k - 1] \o log[k]
               /\ FlattenSeq(log) = f[Len(log)]
  BY FlatRuns, Zenon
<1>4. PICK g : /\ g[0] = << >>
               /\ \A k \in 1..Len(more) : g[k] = g[k - 1] \o more[k]
               /\ FlattenSeq(more) = g[Len(more)]
  BY <1>2, FlatRuns, Zenon
<1>5. \A k \in 1..Len(log) : k \in 1..Len(more)
  BY <1>2
<1>6. \A k \in 1..Len(log) : f[k - 1] = g[k - 1] => f[k] = g[k]
  BY <1>2, <1>3, <1>4, <1>5, Zenon
<1>7. \A k \in 0..Len(log) : f[k] = g[k]
  <2>1. f[0] = g[0] /\ Len(log) \in Nat
    BY <1>2, <1>3, <1>4, Zenon
  <2> QED BY <1>6, <2>1, Agree, Zenon
<1>8. Len(log) \in 0..Len(log) /\ Len(more) \in 1..Len(more) /\ Len(more) - 1 = Len(log)
  BY <1>2
<1>9. FlattenSeq(more) = FlattenSeq(log) \o tag
  BY <1>2, <1>3, <1>4, <1>7, <1>8, Zenon
<1> QED BY <1>1, <1>9 DEF more

-----------------------------------------------------------------------------
(* Looking for a name                                                      *)

\* The files' names, in the order of their ids; 0 is not named yet.
NamesOf(F) == [i \in 1..Len(F) |-> F[i].name]

\* The named files of the first N are in the order of their names.
Ordered(a, N) == \A i, j \in 1..N : i < j /\ a[i] # 0 /\ a[j] # 0 => a[i] < a[j]

\* The file with the name n among N names, or its place, before the next name.
Place(found, id, n, a, N) ==
    /\ n \in Nat \ {0} /\ found \in BOOLEAN /\ id \in Int
    /\ found => id \in 0..(N - 1) /\ a[id + 1] = n
    /\ ~found => /\ id = NoId \/ id \in 0..N
                 /\ id < N => a[id + 1] > n
                 /\ \A i \in 1..N : IF i <= id THEN a[i] < n ELSE a[i] = 0 \/ a[i] > n

\* b is a with a file more at p; with the file at p less; with a name for p.
Inserted(b, a, p, N) ==
    /\ N \in Nat /\ N < NoId /\ a \in [1..N -> Nat] /\ p \in 0..N
    /\ \A i \in 1..(N + 1) : b[i] = IF i <= p THEN a[i] ELSE IF i = p + 1 THEN 0 ELSE a[i - 1]
Removed(b, a, p, N) ==
    /\ N \in Nat /\ N <= NoId /\ a \in [1..N -> Nat \ {0}] /\ p \in 0..(N - 1) /\ Ordered(a, N)
    /\ \A i \in 1..(N - 1) : b[i] = IF i <= p THEN a[i] ELSE a[i + 1]
Renamed(b, a, p, v, N, M) ==
    /\ N \in Nat /\ M \in Nat /\ M < NoId /\ a \in [1..N -> Nat] /\ b \in [1..M -> Nat]
    /\ p \in Nat /\ v \in Nat \ {0} /\ (p < N => a[p + 1] = 0) /\ Ordered(b, M)
    /\ M = IF p < N THEN N ELSE p + 1
    /\ \A i \in 1..M : b[i] = IF i = p + 1 THEN v ELSE IF i <= N THEN a[i] ELSE 0

\* A new file at p moves the places from p on.
LEMMA PlaceCreate ==
    ASSUME NEW N, NEW a, NEW b, NEW n, NEW found, NEW id, NEW p,
           NEW r, r = IF id # NoId /\ p <= id THEN id + 1 ELSE id,
           Inserted(b, a, p, N), Place(found, id, n, a, N)
    PROVE  Place(found, r, n, b, N + 1)
<1> USE DEF Inserted
<1>1. /\ NoId = 1023 /\ n \in Nat \ {0} /\ found \in BOOLEAN /\ id \in Int /\ r \in Int
      /\ N \in Nat /\ N < NoId /\ a \in [1..N -> Nat] /\ p \in 0..N
  BY DEF NoId, Place
<1>2. ASSUME found PROVE r \in 0..N /\ b[r + 1] = n
  <2>1. id \in 0..(N - 1) /\ a[id + 1] = n
    BY <1>2 DEF Place
  <2> QED BY <1>1, <2>1
<1>3. ASSUME ~found
      PROVE  /\ r = NoId \/ r \in 0..(N + 1)
             /\ r < N + 1 => b[r + 1] > n
             /\ \A i \in 1..(N + 1) : IF i <= r THEN b[i] < n ELSE b[i] = 0 \/ b[i] > n
  <2>1. /\ id = NoId \/ id \in 0..N
        /\ id < N => a[id + 1] > n
        /\ \A i \in 1..N : IF i <= id THEN a[i] < n ELSE a[i] = 0 \/ a[i] > n
    BY <1>3 DEF Place
  <2>2. r = NoId \/ r \in 0..(N + 1)
    BY <1>1, <2>1
  <2>3. r < N + 1 => b[r + 1] > n
    BY <1>1, <2>1
  <2>4. ASSUME NEW i \in 1..(N + 1) PROVE IF i <= r THEN b[i] < n ELSE b[i] = 0 \/ b[i] > n
    <3>1. CASE i <= p
      BY <1>1, <2>1, <3>1
    <3>2. CASE i = p + 1
      BY <1>1, <2>1, <3>2
    <3>3. CASE i > p + 1
      <4>1. i - 1 \in 1..N /\ b[i] = a[i - 1]
        BY <3>3
      <4> QED BY <1>1, <2>1, <3>3, <4>1
    <3> QED BY <3>1, <3>2, <3>3
  <2> QED BY <2>2, <2>3, <2>4
<1> QED BY <1>2, <1>3, <1>1 DEF Place

\* A file less moves the places behind it; its name has the place it had.
LEMMA PlaceDelete ==
    ASSUME NEW N, NEW a, NEW b, NEW n, NEW found, NEW id, NEW p,
           NEW still \in BOOLEAN, still <=> found /\ p # id,
           NEW r, r = IF id # NoId /\ p < id THEN id - 1 ELSE id,
           Removed(b, a, p, N), Place(found, id, n, a, N)
    PROVE  Place(still, r, n, b, N - 1)
<1> USE DEF Removed
<1>1. /\ NoId = 1023 /\ n \in Nat \ {0} /\ found \in BOOLEAN /\ id \in Int /\ r \in Int
      /\ N \in Nat /\ N <= NoId /\ a \in [1..N -> Nat \ {0}] /\ p \in 0..(N - 1)
  BY DEF NoId, Place
<1>2. \A i, j \in 1..N : i < j => a[i] < a[j]
  BY DEF Ordered
<1>3. ASSUME found, p # id PROVE r \in 0..(N - 2) /\ b[r + 1] = n
  <2>1. id \in 0..(N - 1) /\ a[id + 1] = n
    BY <1>3 DEF Place
  <2> QED BY <1>1, <1>3, <2>1
<1>4. ASSUME ~(found /\ p # id)
      PROVE  /\ r = NoId \/ r \in 0..(N - 1)
             /\ \A i \in 1..(N - 1) : IF i <= r THEN b[i] < n ELSE b[i] > n
  <2>1. CASE found
    <3>1. id = p /\ p + 1 \in 1..N /\ a[p + 1] = n /\ r = p
      BY <1>4, <2>1 DEF Place
    <3>2. ASSUME NEW i \in 1..(N - 1) PROVE IF i <= p THEN b[i] < n ELSE b[i] > n
      <4>1. i \in 1..N /\ i + 1 \in 1..N
        OBVIOUS
      <4>2. CASE i <= p
        <5>1. i < p + 1 /\ b[i] = a[i]
          BY <4>2
        <5> QED BY <1>2, <3>1, <4>1, <4>2, <5>1
      <4>3. CASE i > p
        <5>1. p + 1 < i + 1 /\ b[i] = a[i + 1]
          BY <4>3
        <5>2. a[p + 1] < a[i + 1]
          BY <1>2, <3>1, <4>1, <5>1
        <5> QED BY <3>1, <4>1, <4>3, <5>1, <5>2
      <4> QED BY <4>2, <4>3
    <3> QED BY <3>1, <3>2
  <2>2. CASE ~found
    <3>1. /\ id = NoId \/ id \in 0..N
          /\ \A i \in 1..N : IF i <= id THEN a[i] < n ELSE a[i] > n
      BY <2>2 DEF Place
    <3>2. r = NoId \/ r \in 0..(N - 1)
      BY <1>1, <3>1, <1>4, <2>2, <1>2 DEF Place
    <3>3. ASSUME NEW i \in 1..(N - 1) PROVE IF i <= r THEN b[i] < n ELSE b[i] > n
      <4>1. i \in 1..N /\ i + 1 \in 1..N
        OBVIOUS
      <4>2. CASE i <= p
        BY <1>1, <3>1, <4>1, <4>2
      <4>3. CASE i > p
        BY <1>1, <3>1, <4>1, <4>3
      <4> QED BY <4>2, <4>3
    <3> QED BY <3>2, <3>3
  <2> QED BY <2>1, <2>2
<1>5. ASSUME ~(found /\ p # id), r < N - 1 PROVE b[r + 1] > n
  <2>1. r + 1 \in 1..(N - 1) /\ ~(r + 1 <= r)
    BY <1>1, <1>4, <1>5
  <2> QED BY <1>4, <1>5, <2>1
<1> QED BY <1>3, <1>4, <1>5 DEF Place

\* What the match found, id becomes when it meets the name v of the file at p.
Meets(now, r, found, id, n, v, p, N) ==
    /\ now \in BOOLEAN /\ (p < N \/ id # N)
    /\ v = n => now /\ r = p
    /\ v # n /\ p # id /\ v > n /\ p <= id => ~now /\ r = p
    /\ v # n /\ p # id /\ ~(v > n /\ p <= id) => (now <=> found) /\ r = id

\* A name for a file at p that had none, or for one behind all others.
LEMMA PlaceName ==
    ASSUME NEW N, NEW M, NEW a, NEW b, NEW n, NEW v, NEW p, NEW found, NEW id,
           Renamed(b, a, p, v, N, M), Place(found, id, n, a, N),
           NEW now, NEW r, Meets(now, r, found, id, n, v, p, N)
    PROVE  Place(now, r, n, b, M)
<1> USE DEF Renamed
<1>0. n \in Nat \ {0} /\ found \in BOOLEAN /\ id \in Int /\ now \in BOOLEAN /\ (p < N \/ id # N)
  BY DEF Place, Meets
<1>1. /\ N \in Nat /\ M \in Nat /\ M < NoId /\ a \in [1..N -> Nat] /\ b \in [1..M -> Nat]
      /\ v \in Nat \ {0} /\ p \in Nat
      /\ NoId = 1023 /\ p + 1 \in 1..M /\ b[p + 1] = v /\ 1..N \subseteq 1..M
  BY DEF NoId
<1>2. ASSUME v = n PROVE Place(TRUE, p, n, b, M)
  BY <1>0, <1>1, <1>2 DEF Place
<1>3. p # id
  BY <1>0, <1>1 DEF Place
<1>4. ASSUME NEW i \in 1..M, b[i] # 0
      PROVE  (i < p + 1 => b[i] < v) /\ (i > p + 1 => b[i] > v)
  BY <1>0, <1>1, <1>4 DEF Ordered
<1>5. CASE found
  <2>1. id \in 0..(N - 1) /\ a[id + 1] = n /\ b[id + 1] = n
    BY <1>0, <1>1, <1>3, <1>5 DEF Place
  <2>2. id + 1 \in 1..M /\ (p < id => n > v)
    BY <1>0, <1>1, <1>4, <2>1
  <2>3. v # n => (now <=> found) /\ r = id
    BY <1>0, <1>1, <1>3, <1>5, <2>1, <2>2 DEF Meets
  <2>4. v # n => Place(now, r, n, b, M)
    BY <1>0, <1>1, <1>5, <2>1, <2>3 DEF Place
  <2>5. v = n => Place(now, r, n, b, M)
    BY <1>0, <1>1, <1>2 DEF Meets, Place
  <2> QED BY <2>4, <2>5
<1>6. CASE ~found
  <2>1. /\ id = NoId \/ id \in 0..N
        /\ id < N => a[id + 1] > n
        /\ \A i \in 1..N : IF i <= id THEN a[i] < n ELSE a[i] = 0 \/ a[i] > n
    BY <1>6 DEF Place
  <2>2. ASSUME v > n, p <= id, NEW i \in 1..M
        PROVE  IF i <= p THEN b[i] < n ELSE b[i] = 0 \/ b[i] > n
    <3>1. CASE i = p + 1
      BY <1>0, <1>1, <2>2, <3>1
    <3>2. CASE i # p + 1
      BY <1>0, <1>1, <1>3, <1>4, <2>1, <2>2, <3>2
    <3> QED BY <3>1, <3>2
  <2>3. ASSUME v # n, ~(v > n /\ p <= id)
        PROVE  /\ id = NoId \/ id \in 0..M
               /\ id < M => b[id + 1] > n
               /\ \A i \in 1..M : IF i <= id THEN b[i] < n ELSE b[i] = 0 \/ b[i] > n
    <3>1. id = NoId \/ id \in 0..N
      BY <1>0, <1>1, <2>1
    <3>2. id < M => id < N
      BY <1>0, <1>1, <2>1
    <3>3. id < M => b[id + 1] > n
      BY <1>0, <1>1, <1>3, <2>1, <3>2
    <3>4. ASSUME p > id PROVE v > n
      <4>1. id < N /\ id + 1 \in 1..M /\ id + 1 < p + 1 /\ b[id + 1] > n
        BY <1>0, <1>1, <2>1, <3>3, <3>4
      <4>2. b[id + 1] # 0 /\ b[id + 1] \in Nat
        BY <1>0, <1>1, <4>1
      <4>3. b[id + 1] < v
        BY <1>4, <4>1, <4>2
      <4> QED BY <1>0, <1>1, <4>1, <4>2, <4>3
    <3>5. ASSUME NEW i \in 1..M PROVE IF i <= id THEN b[i] < n ELSE b[i] = 0 \/ b[i] > n
      <4>1. CASE i = p + 1
        BY <1>0, <1>1, <1>3, <2>3, <3>4, <4>1
      <4>2. CASE i # p + 1
        BY <1>0, <1>1, <2>1, <4>2
      <4> QED BY <4>1, <4>2
    <3> QED BY <1>0, <1>1, <3>1, <3>3, <3>5
  <2>4. p < M
    BY <1>0, <1>1
  <2>5. id # N => id # M
    BY <1>0, <1>1, <2>1
  <2>6. b[p + 1] > n \/ ~(v > n)
    BY <1>0, <1>1
  <2>7. CASE v = n
    BY <1>0, <1>1, <1>2, <2>7 DEF Meets, Place
  <2>8. CASE v # n /\ v > n /\ p <= id
    <3>1. ~now /\ r = p
      BY <1>0, <1>3, <2>8 DEF Meets
    <3> QED BY <1>0, <1>1, <2>2, <2>4, <2>6, <2>8, <3>1 DEF Place
  <2>9. CASE v # n /\ ~(v > n /\ p <= id)
    <3>1. ~now /\ r = id
      BY <1>3, <1>6, <2>9 DEF Meets
    <3> QED BY <1>0, <1>1, <2>3, <2>5, <2>9, <3>1 DEF Place
  <2> QED BY <2>7, <2>8, <2>9
<1> QED BY <1>5, <1>6

\* A match in a directory.
Placed(s, n, F) == /\ s \in Matches /\ s.count = Len(F)
                   /\ Place(s.found, s.id, n, NamesOf(F), Len(F))

\* What littlefs may do to a directory: each tag at its file, files named once.
Suits(tag, F, G) ==
    /\ tag \in Tags /\ Len(G) < NoId
    /\ tag.type = "create" => tag.id <= Len(F)
    /\ tag.type = "delete" => tag.id < Len(F) /\ \A i \in 1..Len(F) : F[i].name # 0
    /\ tag.type = "name"   => /\ tag.val # 0 /\ Ordered(NamesOf(G), Len(G))
                              /\ tag.id < Len(F) => F[tag.id + 1].name = 0
    /\ tag.type = "struct" => tag.id < Len(F) /\ F[tag.id + 1].name # 0

\* The names of a directory are numbers.
LEMMA Named ==
    ASSUME NEW F \in Seq(Files)
    PROVE  /\ Len(F) \in Nat /\ NamesOf(F) \in [1..Len(F) -> Nat]
           /\ \A i \in 1..Len(F) : NamesOf(F)[i] = F[i].name /\ F[i].name \in Nat /\ F[i].val \in Nat
<1>1. ASSUME NEW i \in 1..Len(F) PROVE F[i].name \in Nat /\ F[i].val \in Nat
  <2>1. F[i] \in Files
    OBVIOUS
  <2> QED BY <2>1 DEF Files
<1> QED BY <1>1 DEF NamesOf

\* What Replays says of the names alone.
LEMMA NamesReplayed ==
    ASSUME NEW F \in Seq(Files), NEW G \in Seq(Files), NEW tag \in Tags,
           Replays(G, F, tag), Suits(tag, F, G), Ordered(NamesOf(F), Len(F)), Len(F) < NoId
    PROVE  /\ tag.type = "create" => /\ Len(G) = Len(F) + 1
                                     /\ Inserted(NamesOf(G), NamesOf(F), tag.id, Len(F))
           /\ tag.type = "delete" => /\ Len(G) = Len(F) - 1
                                     /\ Removed(NamesOf(G), NamesOf(F), tag.id, Len(F))
           /\ tag.type = "name" =>
                 Renamed(NamesOf(G), NamesOf(F), tag.id, tag.val, Len(F), Len(G))
           /\ tag.type = "struct" => Len(G) = Len(F) /\ NamesOf(G) = NamesOf(F)
<1> USE DEF Inserted, Removed, Renamed
<1>1. /\ Len(F) \in Nat /\ Len(G) \in Nat /\ tag.id \in Nat /\ tag.val \in Nat /\ NoId = 1023
      /\ NamesOf(F) \in [1..Len(F) -> Nat] /\ NamesOf(G) \in [1..Len(G) -> Nat]
      /\ \A i \in 1..Len(F) : NamesOf(F)[i] = F[i].name
      /\ \A i \in 1..Len(G) : NamesOf(G)[i] = G[i].name
  BY Named DEF Tags, NoId
<1>2. CASE tag.type = "create"
  <2>1. /\ Len(G) = Len(F) + 1 /\ tag.id <= Len(F)
        /\ \A i \in 1..Len(G) : G[i] = IF i < tag.id + 1 THEN F[i]
                                       ELSE IF i = tag.id + 1 THEN [name |-> 0, val |-> 0]
                                       ELSE F[i - 1]
    BY <1>2 DEF Replays, Suits
  <2>2. ASSUME NEW i \in 1..(Len(F) + 1)
        PROVE  NamesOf(G)[i] = IF i <= tag.id THEN NamesOf(F)[i]
                               ELSE IF i = tag.id + 1 THEN 0 ELSE NamesOf(F)[i - 1]
    <3>1. /\ i <= tag.id => i \in 1..Len(F) /\ i < tag.id + 1
          /\ i > tag.id + 1 => i - 1 \in 1..Len(F) /\ ~(i < tag.id + 1)
          /\ i \in 1..Len(G)
      BY <1>1, <2>1
    <3>2. NamesOf(G)[i] = G[i].name
      BY <1>1, <3>1
    <3>3. CASE i <= tag.id
      BY <1>1, <2>1, <3>1, <3>2, <3>3
    <3>4. CASE i = tag.id + 1
      BY <1>1, <2>1, <3>1, <3>2, <3>4
    <3>5. CASE i > tag.id + 1
      <4>1. G[i] = F[i - 1] /\ i - 1 \in 1..Len(F) /\ ~(i <= tag.id) /\ i # tag.id + 1
        BY <1>1, <2>1, <3>1, <3>5
      <4> QED BY <1>1, <3>2, <4>1, Zenon
    <3> QED BY <1>1, <3>3, <3>4, <3>5
  <2>3. tag.id \in 0..Len(F)
    BY <1>1, <2>1
  <2> HIDE DEF Removed, Renamed
  <2> QED BY <1>1, <1>2, <2>1, <2>2, <2>3
<1>3. CASE tag.type = "delete"
  <2>1. /\ Len(G) = Len(F) - 1 /\ tag.id < Len(F)
        /\ \A i \in 1..Len(G) : G[i] = IF i < tag.id + 1 THEN F[i] ELSE F[i + 1]
    BY <1>1, <1>3 DEF Replays, Suits
  <2>2. ASSUME NEW i \in 1..(Len(F) - 1)
        PROVE  NamesOf(G)[i] = IF i <= tag.id THEN NamesOf(F)[i] ELSE NamesOf(F)[i + 1]
    <3>1. i \in 1..Len(F) /\ i + 1 \in 1..Len(F) /\ (i <= tag.id <=> i < tag.id + 1)
      BY <1>1, <2>1
    <3>2. i \in 1..Len(G) /\ NamesOf(G)[i] = G[i].name
      BY <1>1, <2>1
    <3>3. CASE i <= tag.id
      BY <1>1, <2>1, <3>1, <3>2, <3>3
    <3>4. CASE ~(i <= tag.id)
      <4>1. G[i] = F[i + 1]
        BY <2>1, <3>1, <3>2, <3>4
      <4> QED BY <1>1, <3>1, <3>2, <3>4, <4>1, Zenon
    <3> QED BY <3>3, <3>4
  <2>3. \A i \in 1..Len(F) : NamesOf(F)[i] # 0
    <3>1. \A i \in 1..Len(F) : F[i].name # 0
      BY <1>3 DEF Suits
    <3> QED BY <1>1, <3>1, Zenon
  <2>4. tag.id \in 0..(Len(F) - 1) /\ Len(F) <= NoId
    BY <1>1, <2>1
  <2>5. NamesOf(F) \in [1..Len(F) -> Nat \ {0}]
    BY <1>1, <2>3
  <2>6. Removed(NamesOf(G), NamesOf(F), tag.id, Len(F))
    BY <1>1, <2>2, <2>4, <2>5
  <2> QED BY <1>3, <2>1, <2>6
<1>4. CASE tag.type = "name"
  <2>1. /\ Len(G) = IF tag.id < Len(F) THEN Len(F) ELSE tag.id + 1
        /\ \A i \in 1..Len(G) : G[i].name = IF i = tag.id + 1 THEN tag.val
                                            ELSE IF i <= Len(F) THEN F[i].name ELSE 0
    BY <1>1, <1>4 DEF Replays
  <2>2. /\ tag.val \in Nat \ {0} /\ Ordered(NamesOf(G), Len(G)) /\ Len(G) < NoId
        /\ tag.id < Len(F) => F[tag.id + 1].name = 0
    BY <1>1, <1>4 DEF Suits
  <2>3. tag.id < Len(F) => NamesOf(F)[tag.id + 1] = 0
    BY <1>1, <2>2
  <2>4. ASSUME NEW i \in 1..Len(G)
        PROVE  NamesOf(G)[i] = IF i = tag.id + 1 THEN tag.val
                               ELSE IF i <= Len(F) THEN NamesOf(F)[i] ELSE 0
    <3>1. NamesOf(G)[i] = G[i].name /\ (i <= Len(F) => NamesOf(F)[i] = F[i].name)
      BY <1>1
    <3> QED BY <2>1, <3>1, Zenon
  <2>5. Renamed(NamesOf(G), NamesOf(F), tag.id, tag.val, Len(F), Len(G))
    BY <1>1, <2>1, <2>2, <2>3, <2>4
  <2> QED BY <1>4, <2>5
<1>5. CASE tag.type = "struct"
  <2>1. /\ Len(G) = Len(F)
        /\ \A i \in 1..Len(G) : G[i].name = F[i].name
    BY <1>1, <1>5 DEF Replays, Suits
  <2>2. NamesOf(G) = NamesOf(F)
    BY <2>1 DEF NamesOf
  <2> QED BY <1>5, <2>1, <2>2
<1> QED BY <1>2, <1>3, <1>4, <1>5 DEF Tags

\* lfs_dir_fetchmatch is right after a tag when it was before.
LEMMA PlacedAfter ==
    ASSUME NEW F \in Seq(Files), NEW G \in Seq(Files), NEW tag, NEW n \in Nat \ {0}, NEW s,
           Replays(G, F, tag), Suits(tag, F, G), Placed(s, n, F),
           Ordered(NamesOf(F), Len(F)), Len(F) < NoId,
           tag.type = "name" => tag.id < Len(F) \/ s.id # Len(F)
    PROVE  /\ Placed(FindStep(n, s, tag), n, G)
           /\ tag.type \in {"name", "struct"} /\ s.id # Len(F) =>
                 FindStep(n, s, tag).id # Len(G)
<1> DEFINE a == NamesOf(F)
           b == NamesOf(G)
           p == tag.id
           N == Len(F)
           M == Len(G)
           found == s.found
           id == s.id
           r == FindStep(n, s, tag)
<1>1. tag \in Tags /\ p \in Nat /\ s \in Matches /\ s.count \in Int /\ s.count = N
  BY DEF Suits, Placed, Tags, Matches
<1>2. Place(found, id, n, a, N)
  BY DEF Placed
<1>3. r \in Matches /\ r.found \in BOOLEAN /\ Does(r, n, s, tag)
  BY <1>1, FindSteps DEF Does, Matches
<1>4. N \in Nat /\ M \in Nat
  BY Named
<1>5. /\ tag.type = "create" => M = N + 1 /\ Inserted(b, a, p, N)
      /\ tag.type = "delete" => M = N - 1 /\ Removed(b, a, p, N)
      /\ tag.type = "name" => Renamed(b, a, p, tag.val, N, M)
      /\ tag.type = "struct" => M = N /\ b = a
  BY <1>1, NamesReplayed
<1>6. tag.type = "name" => p < N \/ id # N
  OBVIOUS
<1>7. SUFFICES /\ r.count = M /\ Place(r.found, r.id, n, b, M)
               /\ tag.type \in {"name", "struct"} /\ id # N => r.id # M
  BY <1>3 DEF Placed
<1> HIDE DEF a, b, p, r, N, M, found, id
<1>8. CASE tag.type = "create"
  <2>1. /\ r.found = found /\ r.count = s.count + 1
        /\ r.id = IF id # NoId /\ p <= id THEN id + 1 ELSE id
    BY <1>3, <1>8 DEF Does, p, found, id
  <2>2. Inserted(b, a, p, N)
    BY <1>5, <1>8
  <2>3. Place(found, r.id, n, b, N + 1)
    BY <1>2, <2>1, <2>2, PlaceCreate, Zenon
  <2> QED BY <1>1, <1>4, <1>5, <1>8, <2>1, <2>3
<1>9. CASE tag.type = "delete"
  <2>1. /\ r.found <=> found /\ p # id
        /\ r.count = s.count - 1
        /\ r.id = IF id # NoId /\ p < id THEN id - 1 ELSE id
    BY <1>3, <1>9 DEF Does, p, found, id
  <2>2. Removed(b, a, p, N)
    BY <1>5, <1>9
  <2>3. Place(r.found, r.id, n, b, N - 1)
    BY <1>2, <1>3, <2>1, <2>2, PlaceDelete, Zenon
  <2> QED BY <1>1, <1>4, <1>5, <1>9, <2>1, <2>3
<1>10. CASE tag.type = "struct"
  <2>1. r = s
    BY <1>3, <1>10 DEF Does
  <2> QED BY <1>1, <1>2, <1>5, <1>10, <2>1 DEF found, id
<1>11. CASE tag.type = "name"
  <2> DEFINE count == IF p >= s.count THEN p + 1 ELSE s.count
  <2>1. r = IF tag.val = n THEN [found |-> TRUE, id |-> p, count |-> count]
            ELSE IF p = id THEN [found |-> FALSE, id |-> NoId, count |-> count]
            ELSE IF tag.val > n /\ p <= id THEN [found |-> FALSE, id |-> p, count |-> count]
            ELSE [found |-> found, id |-> id, count |-> count]
    BY <1>3, <1>11 DEF Does, p, found, id
  <2>2. Renamed(b, a, p, tag.val, N, M)
    BY <1>5, <1>11
  <2>3. count = M
    BY <1>1, <1>4, <2>2 DEF Renamed
  <2> HIDE DEF count
  <2>4. r.count = M
    BY <2>1, <2>3
  <2>5. tag.val = n => r.found /\ r.id = p
    BY <2>1
  <2>6. tag.val # n /\ p # id /\ tag.val > n /\ p <= id => ~r.found /\ r.id = p
    BY <2>1
  <2>7. tag.val # n /\ p # id /\ ~(tag.val > n /\ p <= id) => (r.found <=> found) /\ r.id = id
    BY <2>1
  <2>8. Meets(r.found, r.id, found, id, n, tag.val, p, N)
    BY <1>3, <1>6, <1>11, <2>5, <2>6, <2>7 DEF Meets
  <2>9. Place(r.found, r.id, n, b, M)
    BY <1>2, <2>2, <2>8, PlaceName, Zenon
  <2>10. id # N => r.id # M
    BY <1>2, <1>4, <2>2, <2>8 DEF Place, Renamed, Meets, NoId
  <2> QED BY <1>11, <2>4, <2>9, <2>10
<1> QED BY <1>1, <1>8, <1>9, <1>10, <1>11 DEF Tags

-----------------------------------------------------------------------------
(* Reading a file, and the file an open handle stands for                  *)

\* What the log has for each id is what the file with that id holds.
Holds(got, F) == \A id \in Nat : got[id].val = IF id < Len(F) THEN F[id + 1].val ELSE 0

\* lfs_dir_getslice is right after a tag when it was before.
LEMMA HoldsAfter ==
    ASSUME NEW F \in Seq(Files), NEW G \in Seq(Files), NEW tag, NEW got,
           Replays(G, F, tag), Suits(tag, F, G), Holds(got, F)
    PROVE  Holds(GetStep("struct", got, tag), G)
<1>1. /\ tag \in Tags /\ tag.id \in Nat /\ tag.val \in Nat /\ Len(F) \in Nat /\ Len(G) \in Nat
  BY DEF Suits, Tags
<1>2. \A id \in Nat : id < Len(F) => id + 1 \in 1..Len(F)
  BY <1>1
<1> SUFFICES ASSUME NEW id \in Nat
             PROVE  GetStep("struct", got, tag)[id].val = IF id < Len(G) THEN G[id + 1].val ELSE 0
  BY DEF Holds
<1>3. GetStep("struct", got, tag)[id] =
          IF IsSplice(tag) /\ tag.id <= id
          THEN IF tag.type = "create" /\ tag.id = id THEN NoTag ELSE got[id - Splice(tag)]
          ELSE IF tag.type = "struct" /\ tag.id = id THEN tag
          ELSE got[id]
  BY DEF GetStep
<1>4. CASE tag.type = "create"
  <2>1. /\ tag.id <= Len(F) /\ Len(G) = Len(F) + 1
        /\ \A i \in 1..Len(G) : G[i] = IF i < tag.id + 1 THEN F[i]
                                       ELSE IF i = tag.id + 1 THEN [name |-> 0, val |-> 0]
                                       ELSE F[i - 1]
    BY <1>4 DEF Replays, Suits
  <2>2. GetStep("struct", got, tag)[id] = IF tag.id = id THEN NoTag
                                          ELSE IF tag.id <= id THEN got[id - 1] ELSE got[id]
    BY <1>1, <1>3, <1>4 DEF IsSplice, Splice
  <2>3. id + 1 - 1 = id /\ (id < Len(G) => id + 1 \in 1..Len(G))
    BY <1>1
  <2>4. CASE id < tag.id
    <3>1. id < Len(F) /\ id < Len(G) /\ G[id + 1] = F[id + 1] /\ ~(tag.id <= id)
      BY <1>1, <2>1, <2>3, <2>4
    <3> QED BY <2>2, <3>1 DEF Holds
  <2>5. CASE id = tag.id
    <3>1. id < Len(G) /\ G[id + 1] = [name |-> 0, val |-> 0]
      BY <1>1, <2>1, <2>3, <2>5
    <3> QED BY <2>2, <2>5, <3>1 DEF NoTag
  <2>6. CASE id > tag.id
    <3>1. id - 1 \in Nat /\ (id < Len(G) <=> id - 1 < Len(F)) /\ id - 1 + 1 = id
      BY <1>1, <2>1, <2>6
    <3>2. id < Len(G) => G[id + 1] = F[id]
      BY <1>1, <2>1, <2>3, <2>6
    <3>3. got[id - 1].val = IF id - 1 < Len(F) THEN F[id].val ELSE 0
      BY <3>1 DEF Holds
    <3>4. GetStep("struct", got, tag)[id] = got[id - 1]
      BY <1>1, <2>2, <2>6
    <3> QED BY <3>1, <3>2, <3>3, <3>4
  <2> QED BY <1>1, <2>4, <2>5, <2>6
<1>5. CASE tag.type = "delete"
  <2>1. /\ tag.id < Len(F) /\ Len(G) = Len(F) - 1
        /\ \A i \in 1..Len(G) : G[i] = IF i < tag.id + 1 THEN F[i] ELSE F[i + 1]
    BY <1>1, <1>5 DEF Replays, Suits
  <2>2. GetStep("struct", got, tag)[id] = IF tag.id <= id THEN got[id + 1] ELSE got[id]
    BY <1>1, <1>3, <1>5 DEF IsSplice, Splice
  <2>3. id < Len(G) => id + 1 \in 1..Len(G)
    BY <1>1
  <2>4. CASE id < tag.id
    <3>1. id < Len(F) /\ (id < Len(G) => G[id + 1] = F[id + 1]) /\ ~(tag.id <= id) /\ id < Len(G)
      BY <1>1, <2>1, <2>3, <2>4
    <3> QED BY <2>2, <3>1 DEF Holds
  <2>5. CASE tag.id <= id
    <3>1. id + 1 \in Nat /\ (id < Len(G) <=> id + 1 < Len(F))
      BY <1>1, <2>1
    <3>2. id < Len(G) => G[id + 1] = F[id + 1 + 1]
      BY <1>1, <2>1, <2>3, <2>5
    <3>3. got[id + 1].val = IF id + 1 < Len(F) THEN F[id + 1 + 1].val ELSE 0
      BY <3>1 DEF Holds
    <3> QED BY <2>2, <2>5, <3>1, <3>2, <3>3
  <2> QED BY <1>1, <2>4, <2>5
<1>6. CASE tag.type \in {"name", "struct"}
  <2>1. /\ Len(G) = IF tag.id + 1 <= Len(F) THEN Len(F) ELSE tag.id + 1
        /\ \A i \in 1..Len(G) : G[i].val = IF i = tag.id + 1 /\ tag.type = "struct" THEN tag.val
                                           ELSE IF i <= Len(F) THEN F[i].val ELSE 0
    BY <1>6 DEF Replays
  <2>2. GetStep("struct", got, tag)[id] = IF tag.type = "struct" /\ tag.id = id THEN tag ELSE got[id]
    BY <1>1, <1>3, <1>6 DEF IsSplice
  <2>3. /\ id < Len(G) => id + 1 \in 1..Len(G)
        /\ id < Len(F) => id < Len(G)
        /\ id = tag.id => id < Len(G)
        /\ (id + 1 <= Len(F) <=> id < Len(F)) /\ (id + 1 = tag.id + 1 <=> tag.id = id)
    BY <1>1, <2>1
  <2>4. got[id].val = IF id < Len(F) THEN F[id + 1].val ELSE 0
    BY DEF Holds
  <2> QED BY <2>1, <2>2, <2>3, <2>4
<1> QED BY <1>1, <1>4, <1>5, <1>6 DEF Tags

\* An id is that of the file with a name, or the file is gone.
StandsFor(id, F, n) == id = -1 \/ (id \in 0..(Len(F) - 1) /\ F[id + 1].name = n)

\* fixmlist lets a handle follow its file.
LEMMA HeldAfter ==
    ASSUME NEW F \in Seq(Files), NEW G \in Seq(Files), NEW tag, NEW n \in Nat \ {0}, NEW id,
           Replays(G, F, tag), Suits(tag, F, G), StandsFor(id, F, n)
    PROVE  StandsFor(HeldStep(id, tag), G, n)
<1>1. /\ tag \in Tags /\ tag.id \in Nat /\ Len(F) \in Nat /\ Len(G) \in Nat
  BY DEF Suits, Tags
<1>2. CASE id = -1
  BY <1>1, <1>2 DEF StandsFor, HeldStep, Moved
<1>3. CASE id # -1
  <2>1. id \in 0..(Len(F) - 1) /\ F[id + 1].name = n /\ id + 1 \in 1..Len(F)
    BY <1>1, <1>3 DEF StandsFor
  <2>2. CASE tag.type = "create"
    <3>1. /\ tag.id <= Len(F) /\ Len(G) = Len(F) + 1
          /\ \A i \in 1..Len(G) : G[i] = IF i < tag.id + 1 THEN F[i]
                                         ELSE IF i = tag.id + 1 THEN [name |-> 0, val |-> 0]
                                         ELSE F[i - 1]
      BY <2>2 DEF Replays, Suits
    <3>2. HeldStep(id, tag) = IF tag.id <= id THEN id + 1 ELSE id
      BY <1>1, <2>1, <2>2 DEF HeldStep, Moved, IsSplice, Splice
    <3>3. tag.id <= id => id + 2 \in 1..Len(G) /\ G[id + 2] = F[id + 1]
      BY <1>1, <2>1, <3>1
    <3>4. ~(tag.id <= id) => id + 1 \in 1..Len(G) /\ G[id + 1] = F[id + 1]
      BY <1>1, <2>1, <3>1
    <3> QED BY <1>1, <2>1, <3>1, <3>2, <3>3, <3>4 DEF StandsFor
  <2>3. CASE tag.type = "delete"
    <3>1. /\ tag.id < Len(F) /\ Len(G) = Len(F) - 1
          /\ \A i \in 1..Len(G) : G[i] = IF i < tag.id + 1 THEN F[i] ELSE F[i + 1]
      BY <1>1, <2>3 DEF Replays, Suits
    <3>2. HeldStep(id, tag) = IF tag.id = id THEN -1 ELSE IF tag.id <= id THEN id - 1 ELSE id
      BY <1>1, <2>1, <2>3 DEF HeldStep, Moved, IsSplice, Splice
    <3>3. tag.id < id => id \in 1..Len(G) /\ G[id] = F[id + 1]
      BY <1>1, <2>1, <3>1
    <3>4. ~(tag.id <= id) => id + 1 \in 1..Len(G) /\ G[id + 1] = F[id + 1]
      BY <1>1, <2>1, <3>1
    <3> QED BY <1>1, <2>1, <3>1, <3>2, <3>3, <3>4 DEF StandsFor
  <2>4. CASE tag.type \in {"name", "struct"}
    <3>1. /\ Len(G) = IF tag.id + 1 <= Len(F) THEN Len(F) ELSE tag.id + 1
          /\ \A i \in 1..Len(G) : G[i].name = IF i = tag.id + 1 /\ tag.type = "name" THEN tag.val
                                              ELSE IF i <= Len(F) THEN F[i].name ELSE 0
      BY <2>4 DEF Replays
    <3>2. HeldStep(id, tag) = id
      BY <1>1, <2>1, <2>4 DEF HeldStep, Moved, IsSplice
    <3>3. tag.type = "name" /\ tag.id < Len(F) => F[tag.id + 1].name = 0
      BY DEF Suits
    <3>4. ~(tag.type = "name" /\ id + 1 = tag.id + 1)
      BY <1>1, <2>1, <3>3
    <3>5. id + 1 \in 1..Len(G) /\ id \in 0..(Len(G) - 1) /\ id + 1 <= Len(F)
      BY <1>1, <2>1, <3>1
    <3>6. G[id + 1].name = F[id + 1].name
      BY <3>1, <3>4, <3>5
    <3> QED BY <2>1, <3>2, <3>5, <3>6 DEF StandsFor
  <2> QED BY <1>1, <2>2, <2>3, <2>4 DEF Tags
<1> QED BY <1>2, <1>3

-----------------------------------------------------------------------------
(* Compacting the log                                                      *)

\* The tags K that a compaction writes are those of the files F: each file's name
\* once, then its contents, if it has any.
Tagged(K, k, type, id) == K[k].type = type /\ K[k].id = id
Matching(K, F) == \A k \in 1..Len(K) :
    /\ K[k].type \in {"noop", "name", "struct"}
    /\ K[k].type = "name" => K[k].id < Len(F) /\ K[k].val = F[K[k].id + 1].name /\ K[k].val # 0
    /\ K[k].type = "struct" => K[k].id < Len(F) /\ K[k].val = F[K[k].id + 1].val
NamedFirst(K) == \A k \in 1..Len(K) :
    K[k].type = "struct" => \E l \in 1..Len(K) : l < k /\ Tagged(K, l, "name", K[k].id)
Once(K) == \A k, l \in 1..Len(K) :
    K[k].type # "noop" /\ K[k].type = K[l].type /\ K[k].id = K[l].id => k = l
Covers(K, F) == \A i \in 1..Len(F) :
    /\ F[i].name # 0 => \E k \in 1..Len(K) : Tagged(K, k, "name", i - 1)
    /\ F[i].val # 0 => \E k \in 1..Len(K) : Tagged(K, k, "struct", i - 1)
Lists(K, F) == K \in Seq(Slots) /\ Matching(K, F) /\ NamedFirst(K) /\ Once(K) /\ Covers(K, F)

\* A kept tag has a natural number for its id.
LEMMA SlotIds ==
    ASSUME NEW K \in Seq(Slots)
    PROVE  /\ Len(K) \in Nat
           /\ \A k \in 1..Len(K) : K[k].id \in Nat /\ K[k].val \in Nat /\ K[k] \in Slots
<1>1. ASSUME NEW k \in 1..Len(K) PROVE K[k].id \in Nat /\ K[k].val \in Nat /\ K[k] \in Slots
  <2>1. K[k] \in Slots
    OBVIOUS
  <2> QED BY <2>1 DEF Slots, Tags, NoTag, NoId
<1> QED BY <1>1

\* mv gives the files of F that live their ids in G, and their tags go with them.
FilesMove(F, G, live, mv) ==
    /\ \A id \in live : /\ id \in Nat /\ id < Len(F) /\ mv[id] \in Nat /\ mv[id] < Len(G)
                         /\ G[mv[id] + 1] = F[id + 1]
    /\ \A id, jd \in live : mv[id] = mv[jd] => id = jd
    /\ \A i \in 1..Len(G) : G[i].name # 0 \/ G[i].val # 0 => \E id \in live : mv[id] = i - 1
TagsMove(K, L, live, mv) ==
    /\ L \in Seq(Slots) /\ Len(L) = Len(K) + 1 /\ L[Len(K) + 1].type = "noop"
    /\ \A k \in 1..Len(K) : IF K[k].type # "noop" /\ K[k].id \in live
                             THEN /\ L[k].type = K[k].type /\ L[k].val = K[k].val
                                  /\ L[k].id = mv[K[k].id]
                             ELSE L[k].type = "noop"

\* When files only move, or go, with their tags, the tags are still theirs.
LEMMA ListsMoved ==
    ASSUME NEW F \in Seq(Files), NEW G \in Seq(Files), NEW K, NEW L, NEW live, NEW mv,
           FilesMove(F, G, live, mv), TagsMove(K, L, live, mv), Lists(K, F)
    PROVE  Lists(L, G)
<1> USE DEF FilesMove, TagsMove
<1>1. /\ K \in Seq(Slots) /\ Matching(K, F) /\ NamedFirst(K) /\ Once(K) /\ Covers(K, F)
      /\ Len(K) \in Nat /\ Len(F) \in Nat /\ Len(G) \in Nat
  BY DEF Lists
<1>2. \A k \in 1..Len(L) : k \in 1..Len(K) \/ k = Len(K) + 1
  BY <1>1
<1>3. \A k \in 1..Len(K) : k \in 1..Len(L)
  BY <1>1
<1>4. ASSUME NEW k \in 1..Len(L), L[k].type # "noop"
      PROVE  /\ k \in 1..Len(K) /\ K[k].id \in live /\ K[k].type # "noop" /\ K[k].id \in Nat
             /\ L[k].type = K[k].type /\ L[k].val = K[k].val /\ L[k].id = mv[K[k].id]
  BY <1>1, <1>2, <1>4, SlotIds
<1>5. Matching(L, G)
  <2>1. ASSUME NEW k \in 1..Len(L), L[k].type # "noop"
        PROVE  /\ L[k].type \in {"name", "struct"} /\ L[k].id < Len(G)
               /\ L[k].type = "name" => L[k].val = G[L[k].id + 1].name /\ L[k].val # 0
               /\ L[k].type = "struct" => L[k].val = G[L[k].id + 1].val
    <3>1. /\ k \in 1..Len(K) /\ K[k].id \in live /\ K[k].type # "noop"
          /\ L[k].type = K[k].type /\ L[k].val = K[k].val /\ L[k].id = mv[K[k].id]
      BY <1>4, <2>1
    <3>2. G[L[k].id + 1] = F[K[k].id + 1] /\ L[k].id < Len(G)
      BY <3>1
    <3>3. /\ K[k].type \in {"noop", "name", "struct"}
          /\ K[k].type = "name" => K[k].val = F[K[k].id + 1].name /\ K[k].val # 0
          /\ K[k].type = "struct" => K[k].val = F[K[k].id + 1].val
      BY <1>1, <3>1 DEF Matching
    <3> QED BY <3>1, <3>2, <3>3
  <2> QED BY <2>1 DEF Matching
<1>6. NamedFirst(L)
  <2> SUFFICES ASSUME NEW k \in 1..Len(L), L[k].type = "struct"
               PROVE  \E l \in 1..Len(L) : l < k /\ Tagged(L, l, "name", L[k].id)
    BY DEF NamedFirst
  <2>1. k \in 1..Len(K) /\ K[k].id \in live /\ K[k].type = "struct" /\ L[k].id = mv[K[k].id]
    BY <1>4
  <2>2. PICK l \in 1..Len(K) : l < k /\ Tagged(K, l, "name", K[k].id)
    BY <1>1, <2>1 DEF NamedFirst
  <2>3. L[l].type = "name" /\ L[l].id = mv[K[k].id]
    BY <2>1, <2>2 DEF Tagged
  <2> QED BY <1>3, <2>1, <2>2, <2>3 DEF Tagged
<1>7. Once(L)
  <2> SUFFICES ASSUME NEW k \in 1..Len(L), NEW l \in 1..Len(L),
                      L[k].type # "noop", L[k].type = L[l].type, L[k].id = L[l].id
               PROVE  k = l
    BY DEF Once
  <2>1. /\ k \in 1..Len(K) /\ K[k].id \in live /\ K[k].type # "noop"
        /\ L[k].type = K[k].type /\ L[k].id = mv[K[k].id]
    BY <1>4
  <2>2. /\ l \in 1..Len(K) /\ K[l].id \in live
        /\ L[l].type = K[l].type /\ L[l].id = mv[K[l].id]
    BY <1>4
  <2>3. K[k].id = K[l].id /\ K[k].type = K[l].type
    BY <2>1, <2>2
  <2> QED BY <1>1, <2>1, <2>2, <2>3 DEF Once
<1>8. Covers(L, G)
  <2>1. ASSUME NEW i \in 1..Len(G), G[i].name # 0
        PROVE  \E k \in 1..Len(L) : Tagged(L, k, "name", i - 1)
    <3>1. PICK id \in live : mv[id] = i - 1
      BY <2>1
    <3>2. id + 1 \in 1..Len(F) /\ F[id + 1].name # 0 /\ id + 1 - 1 = id
      BY <1>1, <2>1, <3>1
    <3>3. PICK k \in 1..Len(K) : Tagged(K, k, "name", id + 1 - 1)
      BY <1>1, <3>2 DEF Covers
    <3>4. K[k].type = "name" /\ K[k].id = id
      BY <3>2, <3>3 DEF Tagged
    <3>5. k \in 1..Len(L) /\ L[k].type = "name" /\ L[k].id = i - 1
      BY <1>3, <3>1, <3>4
    <3> QED BY <3>5 DEF Tagged
  <2>2. ASSUME NEW i \in 1..Len(G), G[i].val # 0
        PROVE  \E k \in 1..Len(L) : Tagged(L, k, "struct", i - 1)
    <3>1. PICK id \in live : mv[id] = i - 1
      BY <2>2
    <3>2. id + 1 \in 1..Len(F) /\ F[id + 1].val # 0 /\ id + 1 - 1 = id
      BY <1>1, <2>2, <3>1
    <3>3. PICK k \in 1..Len(K) : Tagged(K, k, "struct", id + 1 - 1)
      BY <1>1, <3>2 DEF Covers
    <3>4. K[k].type = "struct" /\ K[k].id = id
      BY <3>2, <3>3 DEF Tagged
    <3>5. k \in 1..Len(L) /\ L[k].type = "struct" /\ L[k].id = i - 1
      BY <1>3, <3>1, <3>4
    <3> QED BY <3>5 DEF Tagged
  <2> QED BY <2>1, <2>2 DEF Covers
<1> QED BY <1>5, <1>6, <1>7, <1>8 DEF Lists

\* What a tag more makes of the tags kept so far.
LEMMA KeptFields ==
    ASSUME NEW K \in Seq(Slots), NEW tag \in Tags
    PROVE  LET L == KeptStep(K, tag)
           IN  /\ L \in Seq(Slots) /\ Len(L) = Len(K) + 1
               /\ L[Len(K) + 1] = IF IsSplice(tag) THEN NoTag ELSE tag
               /\ \A k \in 1..Len(K) : L[k] = FilterStep(K[k], tag)
<1> DEFINE old == [k \in DOMAIN K |-> FilterStep(K[k], tag)]
           new == IF IsSplice(tag) THEN NoTag ELSE tag
<1>1. ASSUME NEW k \in 1..Len(K) PROVE FilterStep(K[k], tag) \in Slots
  <2>1. K[k] \in Slots
    OBVIOUS
  <2> QED BY <2>1, FilterIn
<1>2. old \in Seq(Slots) /\ Len(old) = Len(K) /\ \A k \in 1..Len(K) : old[k] = FilterStep(K[k], tag)
  BY <1>1
<1>3. new \in Slots /\ Len(K) \in Nat
  BY DEF Slots
<1> HIDE DEF old, new
<1>4. /\ Append(old, new) \in Seq(Slots) /\ Len(Append(old, new)) = Len(K) + 1
      /\ Append(old, new)[Len(K) + 1] = new
      /\ \A k \in 1..Len(K) : Append(old, new)[k] = old[k]
  BY <1>2, <1>3
<1>5. KeptStep(K, tag) = Append(old, new)
  BY DEF KeptStep, old, new
<1> QED BY <1>2, <1>4, <1>5 DEF new

\* The same by the parts of a kept tag: dropped, or with the id it has now.
LEMMA KeptParts ==
    ASSUME NEW f \in Slots, NEW tag \in Tags, f.type \in {"noop", "name", "struct"}
    PROVE  LET g == FilterStep(f, tag)
           IN  IF f.type = "noop" \/ (tag.id = f.id /\ tag.type \in {f.type, "delete"})
               THEN g.type = "noop"
               ELSE g.type = f.type /\ g.id = Moved(tag, f.id) /\ g.val = f.val
<1>1. f.type = "noop" <=> f = NoTag
  BY DEF Slots, Tags, NoTag
<1>2. CASE f = NoTag
  BY <1>1, <1>2, FilterIn DEF NoTag
<1>3. CASE f # NoTag
  BY <1>1, <1>3, FilterIn DEF NoTag, Tag
<1> QED BY <1>2, <1>3

\* lfs_dir_traverse keeps the right tags after a tag when it did before.
LEMMA ListsAfter ==
    ASSUME NEW F \in Seq(Files), NEW G \in Seq(Files), NEW tag, NEW K,
           Replays(G, F, tag), Suits(tag, F, G), Lists(K, F)
    PROVE  Lists(KeptStep(K, tag), G)
<1> DEFINE L == KeptStep(K, tag)
<1>1. /\ tag \in Tags /\ tag.id \in Nat /\ tag.val \in Nat /\ Len(F) \in Nat /\ Len(G) \in Nat
      /\ tag.type \in {"create", "delete", "name", "struct"}
  BY DEF Suits, Tags
<1>2. /\ K \in Seq(Slots) /\ Matching(K, F) /\ NamedFirst(K) /\ Once(K) /\ Covers(K, F)
      /\ Len(K) \in Nat
  BY DEF Lists
<1>3. /\ L \in Seq(Slots) /\ Len(L) = Len(K) + 1
      /\ L[Len(K) + 1] = IF IsSplice(tag) THEN NoTag ELSE tag
      /\ \A k \in 1..Len(K) : L[k] = FilterStep(K[k], tag)
  BY <1>1, <1>2, KeptFields
<1>4. \A k \in 1..Len(K) : IF K[k].type = "noop" \/ (tag.id = K[k].id /\ tag.type \in {K[k].type, "delete"})
                           THEN L[k].type = "noop"
                           ELSE /\ L[k].type = K[k].type /\ L[k].id = Moved(tag, K[k].id)
                                /\ L[k].val = K[k].val
  <2>1. ASSUME NEW k \in 1..Len(K)
        PROVE  IF K[k].type = "noop" \/ (tag.id = K[k].id /\ tag.type \in {K[k].type, "delete"})
               THEN L[k].type = "noop"
               ELSE L[k].type = K[k].type /\ L[k].id = Moved(tag, K[k].id) /\ L[k].val = K[k].val
    <3>1. K[k] \in Slots /\ K[k].type \in {"noop", "name", "struct"} /\ L[k] = FilterStep(K[k], tag)
      BY <1>2, <1>3 DEF Matching
    <3> HIDE DEF L
    <3> QED BY <1>1, <3>1, KeptParts
  <2> QED BY <2>1
<1>5. \A k \in 1..Len(K) : K[k].id \in Nat /\ (K[k].type # "noop" => K[k].id < Len(F))
  BY <1>2, SlotIds DEF Matching
<1> HIDE DEF L
<1>6. CASE tag.type = "create"
  <2> DEFINE live == 0..(Len(F) - 1)
             mv == [id \in live |-> IF tag.id <= id THEN id + 1 ELSE id]
  <2>1. /\ tag.id <= Len(F) /\ Len(G) = Len(F) + 1
        /\ \A i \in 1..Len(G) : G[i] = IF i < tag.id + 1 THEN F[i]
                                       ELSE IF i = tag.id + 1 THEN [name |-> 0, val |-> 0]
                                       ELSE F[i - 1]
    BY <1>6 DEF Replays, Suits
  <2>2. ASSUME NEW id \in live
        PROVE  /\ id \in Nat /\ id < Len(F) /\ mv[id] \in Nat /\ mv[id] < Len(G)
               /\ G[mv[id] + 1] = F[id + 1]
    <3>1. CASE tag.id <= id
      <4>1. mv[id] = id + 1 /\ mv[id] + 1 \in 1..Len(G) /\ ~(mv[id] + 1 < tag.id + 1)
            /\ mv[id] + 1 # tag.id + 1 /\ mv[id] + 1 - 1 = id + 1
        BY <1>1, <2>1, <3>1
      <4> QED BY <1>1, <2>1, <4>1
    <3>2. CASE ~(tag.id <= id)
      <4>1. mv[id] = id /\ id + 1 \in 1..Len(G) /\ id + 1 < tag.id + 1 /\ id < Len(G)
        BY <1>1, <2>1, <3>2
      <4> QED BY <1>1, <2>1, <4>1
    <3> QED BY <3>1, <3>2
  <2>3. \A id, jd \in live : mv[id] = mv[jd] => id = jd
    BY <1>1
  <2>4. ASSUME NEW i \in 1..Len(G), G[i].name # 0 \/ G[i].val # 0
        PROVE  \E id \in live : mv[id] = i - 1
    <3>1. CASE i < tag.id + 1
      <4>1. i - 1 \in live /\ mv[i - 1] = i - 1
        BY <1>1, <2>1, <3>1
      <4> QED BY <4>1
    <3>2. CASE i = tag.id + 1
      BY <2>1, <2>4, <3>2
    <3>3. CASE i > tag.id + 1
      <4>1. i - 2 \in live /\ mv[i - 2] = i - 1
        BY <1>1, <2>1, <3>3
      <4> QED BY <4>1
    <3> QED BY <1>1, <3>1, <3>2, <3>3
  <2>5. L[Len(K) + 1].type = "noop"
    BY <1>3, <1>6 DEF IsSplice, NoTag
  <2>6. ASSUME NEW k \in 1..Len(K)
        PROVE  IF K[k].type # "noop" /\ K[k].id \in live
               THEN L[k].type = K[k].type /\ L[k].val = K[k].val /\ L[k].id = mv[K[k].id]
               ELSE L[k].type = "noop"
    <3>1. K[k].id \in Nat /\ (K[k].type # "noop" => K[k].id \in live)
      BY <1>1, <1>5
    <3>2. K[k].type \in {"noop", "name", "struct"}
      BY <1>2 DEF Matching
    <3>3. K[k].id \in live => mv[K[k].id] = Moved(tag, K[k].id)
      BY <1>1, <1>6, <3>1 DEF Moved, IsSplice, Splice
    <3>4. tag.type \notin {K[k].type, "delete"}
      BY <1>6, <3>2
    <3> HIDE DEF live, mv
    <3> QED BY <1>4, <3>1, <3>2, <3>3, <3>4
  <2> HIDE DEF live, mv
  <2>7. FilesMove(F, G, live, mv)
    BY <2>2, <2>3, <2>4 DEF FilesMove
  <2>8. TagsMove(K, L, live, mv)
    BY <1>3, <2>5, <2>6 DEF TagsMove
  <2>9. Lists(L, G)
    BY <2>7, <2>8, ListsMoved
  <2> QED BY <2>9 DEF L
<1>7. CASE tag.type = "delete"
  <2> DEFINE live == (0..(Len(F) - 1)) \ {tag.id}
             mv == [id \in live |-> IF tag.id <= id THEN id - 1 ELSE id]
  <2>1. /\ tag.id < Len(F) /\ Len(G) = Len(F) - 1
        /\ \A i \in 1..Len(G) : G[i] = IF i < tag.id + 1 THEN F[i] ELSE F[i + 1]
    BY <1>1, <1>7 DEF Replays, Suits
  <2>2. ASSUME NEW id \in live
        PROVE  /\ id \in Nat /\ id < Len(F) /\ mv[id] \in Nat /\ mv[id] < Len(G)
               /\ G[mv[id] + 1] = F[id + 1]
    <3>1. CASE tag.id <= id
      <4>1. mv[id] = id - 1 /\ mv[id] + 1 \in 1..Len(G) /\ ~(mv[id] + 1 < tag.id + 1)
            /\ mv[id] + 1 + 1 = id + 1
        BY <1>1, <2>1, <3>1
      <4> QED BY <1>1, <2>1, <4>1
    <3>2. CASE ~(tag.id <= id)
      <4>1. mv[id] = id /\ id + 1 \in 1..Len(G) /\ id + 1 < tag.id + 1 /\ id < Len(G)
        BY <1>1, <2>1, <3>2
      <4> QED BY <1>1, <2>1, <4>1
    <3> QED BY <3>1, <3>2
  <2>3. \A id, jd \in live : mv[id] = mv[jd] => id = jd
    BY <1>1
  <2>4. ASSUME NEW i \in 1..Len(G)
        PROVE  \E id \in live : mv[id] = i - 1
    <3>1. CASE i < tag.id + 1
      <4>1. i - 1 \in live /\ mv[i - 1] = i - 1
        BY <1>1, <2>1, <3>1
      <4> QED BY <4>1
    <3>2. CASE ~(i < tag.id + 1)
      <4>1. i \in live /\ mv[i] = i - 1
        BY <1>1, <2>1, <3>2
      <4> QED BY <4>1
    <3> QED BY <1>1, <3>1, <3>2
  <2>5. L[Len(K) + 1].type = "noop"
    BY <1>3, <1>7 DEF IsSplice, NoTag
  <2>6. ASSUME NEW k \in 1..Len(K)
        PROVE  IF K[k].type # "noop" /\ K[k].id \in live
               THEN L[k].type = K[k].type /\ L[k].val = K[k].val /\ L[k].id = mv[K[k].id]
               ELSE L[k].type = "noop"
    <3>1. K[k].id \in Nat /\ (K[k].type # "noop" => (K[k].id \in live <=> K[k].id # tag.id))
      BY <1>1, <1>5
    <3>2. K[k].type \in {"noop", "name", "struct"}
      BY <1>2 DEF Matching
    <3>3. K[k].id \in live => mv[K[k].id] = Moved(tag, K[k].id)
      BY <1>1, <1>7, <3>1 DEF Moved, IsSplice, Splice
    <3>4. tag.type \in {K[k].type, "delete"}
      BY <1>7
    <3> HIDE DEF live, mv
    <3> QED BY <1>4, <3>1, <3>2, <3>3, <3>4
  <2> HIDE DEF live, mv
  <2>7. FilesMove(F, G, live, mv)
    BY <2>2, <2>3, <2>4 DEF FilesMove
  <2>8. TagsMove(K, L, live, mv)
    BY <1>3, <2>5, <2>6 DEF TagsMove
  <2>9. Lists(L, G)
    BY <2>7, <2>8, ListsMoved
  <2> QED BY <2>9 DEF L
<1>8. CASE tag.type \in {"name", "struct"}
  <2> DEFINE last == Len(K) + 1
  <2>1. /\ Len(G) = IF tag.id + 1 <= Len(F) THEN Len(F) ELSE tag.id + 1
        /\ \A i \in 1..Len(G) :
              /\ G[i].name = IF i = tag.id + 1 /\ tag.type = "name" THEN tag.val
                             ELSE IF i <= Len(F) THEN F[i].name ELSE 0
              /\ G[i].val = IF i = tag.id + 1 /\ tag.type = "struct" THEN tag.val
                            ELSE IF i <= Len(F) THEN F[i].val ELSE 0
    BY <1>8 DEF Replays
  <2>2. /\ tag.type = "name" => tag.val # 0 /\ (tag.id < Len(F) => F[tag.id + 1].name = 0)
        /\ tag.type = "struct" => tag.id < Len(F) /\ F[tag.id + 1].name # 0
    BY DEF Suits
  <2>3. L[last] = tag /\ last \in 1..Len(L) /\ \A k \in 1..Len(L) : k \in 1..Len(K) \/ k = last
    BY <1>2, <1>3, <1>8 DEF IsSplice
  <2>4. \A k \in 1..Len(K) : /\ k \in 1..Len(L) /\ k < last
                             /\ K[k].type \in {"noop", "name", "struct"}
                             /\ IF K[k].type = "noop" \/ (K[k].id = tag.id /\ K[k].type = tag.type)
                                THEN L[k].type = "noop"
                                ELSE /\ L[k].type = K[k].type /\ L[k].id = K[k].id
                                     /\ L[k].val = K[k].val
    <3>1. ASSUME NEW k \in 1..Len(K)
          PROVE  /\ K[k].type \in {"noop", "name", "struct"}
                 /\ IF K[k].type = "noop" \/ (K[k].id = tag.id /\ K[k].type = tag.type)
                    THEN L[k].type = "noop"
                    ELSE L[k].type = K[k].type /\ L[k].id = K[k].id /\ L[k].val = K[k].val
      <4>1. K[k].type \in {"noop", "name", "struct"} /\ Moved(tag, K[k].id) = K[k].id
        BY <1>2, <1>8 DEF Matching, Moved, IsSplice
      <4>2. tag.type \in {K[k].type, "delete"} <=> K[k].type = tag.type
        BY <1>8
      <4> QED BY <1>4, <4>1, <4>2
    <3>2. \A k \in 1..Len(K) : k \in 1..Len(L) /\ k < last
      BY <1>2, <1>3
    <3> QED BY <3>1, <3>2
  <2> HIDE DEF last
  <2>5. ASSUME NEW k \in 1..Len(K), K[k].type = "name", tag.type = "name"
        PROVE  K[k].id # tag.id
    BY <1>2, <2>2, <2>5 DEF Matching
  <2>6. Matching(L, G)
    <3>1. ASSUME NEW k \in 1..Len(K), L[k].type # "noop"
          PROVE  /\ L[k].type \in {"name", "struct"} /\ L[k].id < Len(G)
                 /\ L[k].type = "name" => L[k].val = G[L[k].id + 1].name /\ L[k].val # 0
                 /\ L[k].type = "struct" => L[k].val = G[L[k].id + 1].val
      <4>1. /\ K[k].type \in {"name", "struct"} /\ ~(K[k].id = tag.id /\ K[k].type = tag.type)
            /\ L[k].type = K[k].type /\ L[k].id = K[k].id /\ L[k].val = K[k].val
        BY <2>4, <3>1
      <4>2. /\ K[k].id \in Nat /\ K[k].id < Len(F)
            /\ K[k].type = "name" => K[k].val = F[K[k].id + 1].name /\ K[k].val # 0
            /\ K[k].type = "struct" => K[k].val = F[K[k].id + 1].val
        BY <1>2, <1>5, <4>1 DEF Matching
      <4>3. /\ K[k].id < Len(G) /\ K[k].id + 1 \in 1..Len(G) /\ K[k].id + 1 <= Len(F)
            /\ K[k].id + 1 = tag.id + 1 <=> K[k].id = tag.id
        BY <1>1, <2>1, <4>2
      <4>4. /\ K[k].type = "name" => G[K[k].id + 1].name = F[K[k].id + 1].name
            /\ K[k].type = "struct" => G[K[k].id + 1].val = F[K[k].id + 1].val
        BY <2>1, <4>1, <4>3
      <4> QED BY <4>1, <4>2, <4>3, <4>4
    <3>2. /\ tag.id < Len(G) /\ tag.id + 1 \in 1..Len(G)
          /\ tag.type = "name" => tag.val = G[tag.id + 1].name /\ tag.val # 0
          /\ tag.type = "struct" => tag.val = G[tag.id + 1].val
      BY <1>1, <2>1, <2>2
    <3> QED BY <1>8, <2>3, <3>1, <3>2 DEF Matching
  <2>7. NamedFirst(L)
    <3>1. ASSUME NEW k \in 1..Len(K), L[k].type = "struct"
          PROVE  \E l \in 1..Len(L) : l < k /\ Tagged(L, l, "name", L[k].id)
      <4>1. K[k].type = "struct" /\ L[k].id = K[k].id
        BY <2>4, <3>1
      <4>2. PICK l \in 1..Len(K) : l < k /\ Tagged(K, l, "name", K[k].id)
        BY <1>2, <4>1 DEF NamedFirst
      <4>3. K[l].type = "name" /\ K[l].id = K[k].id
        BY <4>2 DEF Tagged
      <4>4. L[l].type = "name" /\ L[l].id = K[k].id /\ l \in 1..Len(L)
        BY <2>4, <2>5, <4>3
      <4> QED BY <4>1, <4>2, <4>4 DEF Tagged
    <3>2. ASSUME tag.type = "struct"
          PROVE  \E l \in 1..Len(L) : l < last /\ Tagged(L, l, "name", tag.id)
      <4>1. tag.id + 1 \in 1..Len(F) /\ F[tag.id + 1].name # 0 /\ tag.id + 1 - 1 = tag.id
        BY <1>1, <2>2, <3>2
      <4> DEFINE i == tag.id + 1
      <4> HIDE DEF i
      <4>2. i \in 1..Len(F) /\ F[i].name # 0 /\ i - 1 = tag.id
        BY <1>1, <2>2, <3>2 DEF i
      <4>5. \E k \in 1..Len(K) : Tagged(K, k, "name", i - 1)
        BY <1>2, <4>2, Zenon DEF Covers
      <4>6. PICK l \in 1..Len(K) : Tagged(K, l, "name", i - 1)
        BY <4>5
      <4>3. K[l].type = "name" /\ K[l].id = tag.id
        BY <4>2, <4>6 DEF Tagged
      <4>4. L[l].type = "name" /\ L[l].id = tag.id /\ l \in 1..Len(L) /\ l < last
        BY <2>4, <3>2, <4>3
      <4> QED BY <4>4 DEF Tagged
    <3> QED BY <2>3, <3>1, <3>2 DEF NamedFirst
  <2>8. Once(L)
    <3> SUFFICES ASSUME NEW k \in 1..Len(L), NEW l \in 1..Len(L),
                        L[k].type # "noop", L[k].type = L[l].type, L[k].id = L[l].id
                 PROVE  k = l
      BY DEF Once
    <3>1. ASSUME NEW j \in 1..Len(K), L[j].type # "noop"
          PROVE  ~(L[j].type = tag.type /\ L[j].id = tag.id)
      BY <2>4, <3>1
    <3>2. CASE k = last \/ l = last
      BY <2>3, <3>1, <3>2
    <3>3. CASE k # last /\ l # last
      <4>1. k \in 1..Len(K) /\ l \in 1..Len(K)
        BY <2>3, <3>3
      <4>2. /\ K[k].type # "noop" /\ L[k].type = K[k].type /\ L[k].id = K[k].id
            /\ L[l].type = K[l].type /\ L[l].id = K[l].id
        BY <2>4, <4>1
      <4> QED BY <1>2, <4>1, <4>2 DEF Once
    <3> QED BY <3>2, <3>3
  <2>9. Covers(L, G)
    <3> SUFFICES ASSUME NEW i \in 1..Len(G)
                 PROVE  /\ G[i].name # 0 => \E k \in 1..Len(L) : Tagged(L, k, "name", i - 1)
                        /\ G[i].val # 0 => \E k \in 1..Len(L) : Tagged(L, k, "struct", i - 1)
      BY DEF Covers
    <3>1. i - 1 = tag.id <=> i = tag.id + 1
      BY <1>1
    <3>2. ASSUME NEW type \in {"name", "struct"}, i = tag.id + 1, tag.type = type
          PROVE  \E k \in 1..Len(L) : Tagged(L, k, type, i - 1)
      BY <2>3, <3>1, <3>2 DEF Tagged
    <3>3. ASSUME NEW type \in {"name", "struct"}, ~(i = tag.id + 1 /\ tag.type = type),
                 NEW k \in 1..Len(K), Tagged(K, k, type, i - 1)
          PROVE  Tagged(L, k, type, i - 1) /\ k \in 1..Len(L)
      BY <2>4, <3>1, <3>3 DEF Tagged
    <3>4. ASSUME G[i].name # 0 PROVE \E k \in 1..Len(L) : Tagged(L, k, "name", i - 1)
      <4>1. CASE i = tag.id + 1 /\ tag.type = "name"
        BY <3>2, <4>1
      <4>2. CASE ~(i = tag.id + 1 /\ tag.type = "name")
        <5>1. i \in 1..Len(F) /\ F[i].name # 0
          BY <1>1, <2>1, <3>4, <4>2
        <5>2. PICK k \in 1..Len(K) : Tagged(K, k, "name", i - 1)
          BY <1>2, <5>1 DEF Covers
        <5> QED BY <3>3, <4>2, <5>2
      <4> QED BY <4>1, <4>2
    <3>5. ASSUME G[i].val # 0 PROVE \E k \in 1..Len(L) : Tagged(L, k, "struct", i - 1)
      <4>1. CASE i = tag.id + 1 /\ tag.type = "struct"
        BY <3>2, <4>1
      <4>2. CASE ~(i = tag.id + 1 /\ tag.type = "struct")
        <5>1. i \in 1..Len(F) /\ F[i].val # 0
          BY <1>1, <2>1, <3>5, <4>2
        <5>2. PICK k \in 1..Len(K) : Tagged(K, k, "struct", i - 1)
          BY <1>2, <5>1 DEF Covers
        <5> QED BY <3>3, <4>2, <5>2
      <4> QED BY <4>1, <4>2
    <3> QED BY <3>4, <3>5
  <2>10. Lists(L, G)
    BY <1>3, <2>6, <2>7, <2>8, <2>9 DEF Lists
  <2> QED BY <2>10 DEF L
<1> QED BY <1>1, <1>6, <1>7, <1>8 DEF L

-----------------------------------------------------------------------------
(* A log that reads well                                                   *)

\* Every reader of the log L finds the files F.
Reads(L, F) ==
    /\ L \in Logs /\ F \in Seq(Files) /\ Replayed(L) = F
    /\ Ordered(NamesOf(F), Len(F)) /\ Len(F) < NoId
    /\ \A n \in Nat \ {0} : Placed(Scan(L, n), n, F)
    /\ Holds(Got(L, "struct"), F)
    /\ Lists(Kept(L), F)

\* No match waits for a file behind all others.
Ends(L, F) == \A n \in Nat \ {0} : Scan(L, n).id # Len(F)

\* An empty log is an empty directory.
LEMMA ReadsNothing == Reads(<< >>, << >>) /\ Ends(<< >>, << >>)
<1> DEFINE E == << >>
<1>1. E \in Seq(Tags) /\ E \in Seq(Files) /\ E \in Seq(Slots) /\ Len(E) = 0
  OBVIOUS
<1>2. NoTag \in Tags \cup {NoTag} /\ [type |-> "name", id |-> 0, val |-> 0] \in Tags
  BY DEF Tags
<1>3. Replayed(E) = E
  BY <1>1, <1>2, ReplayAppend, Zenon
<1>4. \A n : Scan(E, n) = NoMatch
  BY <1>1, <1>2, ScanAppend, Zenon
<1>5. Got(E, "struct") = NothingYet
  BY <1>1, <1>2, GotAppend, Zenon
<1>6. Kept(E) = E
  BY <1>1, <1>2, KeptAppend, Zenon
<1> HIDE DEF E
<1>7. \A n \in Nat \ {0} : Placed(Scan(E, n), n, E) /\ Scan(E, n).id # Len(E)
  <2>1. NoMatch \in Matches /\ NoMatch.count = 0 /\ NoMatch.id = NoId /\ ~NoMatch.found /\ NoId = 1023
        /\ NoMatch.found \in BOOLEAN
    BY DEF NoMatch, NoId, Matches
  <2>2. ASSUME NEW n \in Nat \ {0} PROVE Place(NoMatch.found, NoMatch.id, n, NamesOf(E), 0)
    BY <2>1 DEF Place
  <2> QED BY <1>1, <1>4, <2>1, <2>2 DEF Placed
<1>8. Holds(NothingYet, E)
  BY <1>1 DEF Holds, NothingYet, NoTag
<1>9. Lists(E, E)
  BY <1>1 DEF Lists, Matching, NamedFirst, Once, Covers
<1>10. Ordered(NamesOf(E), Len(E)) /\ Len(E) < NoId
  BY <1>1 DEF Ordered, NoId
<1>11. Reads(E, E)
  BY <1>1, <1>3, <1>5, <1>6, <1>7, <1>8, <1>9, <1>10 DEF Reads, Logs
<1> QED BY <1>7, <1>11 DEF E, Ends

\* The order of the names after a tag.
LEMMA OrderedAfter ==
    ASSUME NEW F \in Seq(Files), NEW G \in Seq(Files), NEW tag \in Tags,
           Replays(G, F, tag), Suits(tag, F, G), Ordered(NamesOf(F), Len(F)), Len(F) < NoId
    PROVE  Ordered(NamesOf(G), Len(G))
<1> DEFINE a == NamesOf(F)
           b == NamesOf(G)
           N == Len(F)
           p == tag.id
<1>1. /\ tag.type = "create" => Len(G) = N + 1 /\ Inserted(b, a, p, N)
      /\ tag.type = "delete" => Len(G) = N - 1 /\ Removed(b, a, p, N)
      /\ tag.type = "struct" => Len(G) = N /\ b = a
  BY NamesReplayed
<1>2. tag.type = "name" => Ordered(b, Len(G))
  BY DEF Suits
<1>3. Ordered(a, N)
  OBVIOUS
<1> SUFFICES Ordered(b, Len(G))
  OBVIOUS
<1> HIDE DEF a, b, N, p
<1>4. CASE tag.type = "create"
  <2>1. /\ N \in Nat /\ p \in 0..N /\ Len(G) = N + 1 /\ a \in [1..N -> Nat]
        /\ \A i \in 1..(N + 1) : b[i] = IF i <= p THEN a[i] ELSE IF i = p + 1 THEN 0 ELSE a[i - 1]
    BY <1>1, <1>4 DEF Inserted
  <2>2. ASSUME NEW i \in 1..(N + 1), NEW j \in 1..(N + 1), i < j, b[i] # 0, b[j] # 0
        PROVE  b[i] < b[j]
    <3> DEFINE src(k) == IF k <= p THEN k ELSE k - 1
    <3>1. i # p + 1 /\ j # p + 1 /\ p \in Int
      BY <2>1, <2>2
    <3>2. /\ src(i) \in 1..N /\ src(j) \in 1..N /\ src(i) < src(j)
      BY <2>1, <2>2, <3>1
    <3>3. b[i] = a[src(i)] /\ b[j] = a[src(j)]
      BY <2>1, <3>1
    <3> HIDE DEF src
    <3> QED BY <1>3, <2>2, <3>2, <3>3 DEF Ordered
  <2> QED BY <2>1, <2>2 DEF Ordered
<1>5. CASE tag.type = "delete"
  <2>1. /\ N \in Nat /\ p \in 0..(N - 1) /\ Len(G) = N - 1 /\ a \in [1..N -> Nat \ {0}]
        /\ \A i \in 1..(N - 1) : b[i] = IF i <= p THEN a[i] ELSE a[i + 1]
    BY <1>1, <1>5 DEF Removed
  <2>2. ASSUME NEW i \in 1..(N - 1), NEW j \in 1..(N - 1), i < j
        PROVE  b[i] < b[j]
    <3> DEFINE src(k) == IF k <= p THEN k ELSE k + 1
    <3>2. /\ src(i) \in 1..N /\ src(j) \in 1..N /\ src(i) < src(j)
      BY <2>1, <2>2
    <3>3. b[i] = a[src(i)] /\ b[j] = a[src(j)]
      BY <2>1
    <3> HIDE DEF src
    <3>4. a[src(i)] # 0 /\ a[src(j)] # 0
      BY <2>1, <3>2
    <3> QED BY <1>3, <3>2, <3>3, <3>4 DEF Ordered
  <2> QED BY <2>1, <2>2 DEF Ordered
<1>6. CASE tag.type \in {"name", "struct"}
  BY <1>1, <1>2, <1>3, <1>6
<1> QED BY <1>4, <1>5, <1>6 DEF Tags

\* A log that reads well does so with a tag more.
LEMMA ReadsAfter ==
    ASSUME NEW L, NEW F, NEW tag, NEW G, G = Replay(F, tag), Reads(L, F), Suits(tag, F, G),
           tag.type = "name" => tag.id < Len(F) \/ Ends(L, F)
    PROVE  /\ Reads(Append(L, tag), G)
           /\ tag.type \in {"name", "struct"} /\ Ends(L, F) => Ends(Append(L, tag), G)
<1> DEFINE M == Append(L, tag)
<1>1. /\ L \in Seq(Tags) /\ F \in Seq(Files) /\ tag \in Tags /\ Replayed(L) = F /\ M \in Seq(Tags)
      /\ Ordered(NamesOf(F), Len(F)) /\ Len(F) < NoId /\ Len(G) < NoId
  BY DEF Reads, Suits, Logs
<1>2. Replays(G, F, tag) /\ G \in Seq(Files)
  <2>1. Replays(G, F, tag)
    BY <1>1, ReplaySteps, Zenon
  <2> QED BY <2>1 DEF Replays
<1>3. Ordered(NamesOf(G), Len(G))
  BY <1>1, <1>2, OrderedAfter, Zenon
<1>4. Replayed(M) = G
  BY <1>1, ReplayAppend, Zenon
<1>5. ASSUME NEW n \in Nat \ {0}
      PROVE  /\ Placed(Scan(M, n), n, G)
             /\ tag.type \in {"name", "struct"} /\ Ends(L, F) => Scan(M, n).id # Len(G)
  <2> DEFINE s == Scan(L, n)
             r == FindStep(n, s, tag)
  <2>1. Placed(s, n, F) /\ Scan(M, n) = r
    BY <1>1, ScanAppend, Zenon DEF Reads
  <2>2. Ends(L, F) => s.id # Len(F)
    BY Zenon DEF Ends
  <2>3. tag.type = "name" => tag.id < Len(F) \/ s.id # Len(F)
    BY <2>2, Zenon
  <2> HIDE DEF s
  <2>4. /\ Placed(r, n, G)
        /\ tag.type \in {"name", "struct"} /\ s.id # Len(F) => r.id # Len(G)
    BY <1>1, <1>2, <2>1, <2>3, PlacedAfter, Zenon
  <2> HIDE DEF r
  <2> QED BY <2>1, <2>2, <2>4, Zenon
<1>6. Holds(Got(M, "struct"), G)
  <2>1. Got(M, "struct") = GetStep("struct", Got(L, "struct"), tag)
    BY <1>1, GotAppend, Zenon
  <2>2. Holds(Got(L, "struct"), F)
    BY DEF Reads
  <2> QED BY <1>1, <1>2, <2>1, <2>2, HoldsAfter, Zenon
<1>7. Lists(Kept(M), G)
  <2>1. Kept(M) = KeptStep(Kept(L), tag)
    BY <1>1, KeptAppend, Zenon
  <2>2. Lists(Kept(L), F)
    BY DEF Reads
  <2> QED BY <1>1, <1>2, <2>1, <2>2, ListsAfter, Zenon
<1> HIDE DEF M
<1>8. Reads(M, G)
  BY <1>1, <1>2, <1>3, <1>4, <1>5, <1>6, <1>7 DEF Reads, Logs
<1>9. tag.type \in {"name", "struct"} /\ Ends(L, F) => Ends(M, G)
  BY <1>5 DEF Ends
<1> QED BY <1>8, <1>9 DEF M

\* The tags A make the files G of the files F, and a handle follows its file.
Leads(L, F, A, G) ==
    /\ A \in Logs /\ Reads(L \o A, G)
    /\ \A id \in Int, n \in Nat \ {0} :
          StandsFor(id, F, n) => StandsFor(HeldId(id, A), G, n) /\ HeldId(id, A) \in Int

\* No tag makes no change.
LEMMA LeadsNowhere ==
    ASSUME NEW L, NEW F, Reads(L, F)
    PROVE  Leads(L, F, << >>, F)
<1>1. L \in Seq(Tags)
  BY DEF Reads, Logs
<1>2. << >> \in Seq(Tags) /\ L \o << >> = L
  BY <1>1
<1>3. ASSUME NEW id \in Int PROVE HeldId(id, << >>) = id
  <2>1. [type |-> "name", id |-> 0, val |-> 0] \in Tags
    BY DEF Tags
  <2> QED BY <1>2, <2>1, HeldAppend, Zenon
<1> QED BY <1>2, <1>3 DEF Leads, Logs

\* Logs with the same tags are the same.
LEMMA SameTags ==
    ASSUME NEW S, NEW s \in Seq(S), NEW t \in Seq(S), Len(s) = Len(t),
           \A i \in 1..Len(s) : s[i] = t[i]
    PROVE  s = t
OBVIOUS

\* A tag behind tags.
LEMMA AppendBehind ==
    ASSUME NEW L \in Seq(Tags), NEW A \in Seq(Tags), NEW tag \in Tags
    PROVE  Append(L \o A, tag) = L \o Append(A, tag) /\ Append(A, tag) \in Seq(Tags)
<1> DEFINE l == Append(L \o A, tag)
           r == L \o Append(A, tag)
<1>1. l \in Seq(Tags) /\ r \in Seq(Tags) /\ Len(l) = Len(L) + Len(A) + 1 /\ Len(r) = Len(l)
  OBVIOUS
<1>2. ASSUME NEW i \in 1..Len(l) PROVE l[i] = r[i]
  <2>1. CASE i <= Len(L)
    BY <1>1, <2>1
  <2>2. CASE i > Len(L) /\ i <= Len(L) + Len(A)
    BY <1>1, <2>2
  <2>3. CASE i = Len(L) + Len(A) + 1
    BY <1>1, <2>3
  <2> QED BY <1>1, <2>1, <2>2, <2>3
<1> HIDE DEF l, r
<1>4. l = r
  BY <1>1, <1>2, SameTags, Zenon
<1>5. Append(A, tag) \in Seq(Tags)
  OBVIOUS
<1> QED BY <1>4, <1>5 DEF l, r

\* One tag after the other.
LEMMA LeadsFurther ==
    ASSUME NEW L, NEW F, NEW A, NEW G, NEW tag, NEW H, Reads(L, F), Leads(L, F, A, G),
           H = Replay(G, tag), Suits(tag, G, H), tag.type = "name" => tag.id < Len(G)
    PROVE  Leads(L, F, Append(A, tag), H)
<1>1. A \in Seq(Tags) /\ tag \in Tags /\ Reads(L \o A, G)
  BY DEF Leads, Suits, Logs
<1>2. L \in Seq(Tags) /\ G \in Seq(Files)
  BY <1>1 DEF Reads, Logs
<1>3. Replays(H, G, tag) /\ H \in Seq(Files)
  <2>1. Replays(H, G, tag)
    BY <1>1, <1>2, ReplaySteps, Zenon
  <2> QED BY <2>1 DEF Replays
<1>4. Reads(Append(L \o A, tag), H)
  BY <1>1, ReadsAfter, Zenon
<1>5. Append(L \o A, tag) = L \o Append(A, tag) /\ Append(A, tag) \in Seq(Tags)
  BY <1>1, <1>2, AppendBehind, Zenon
<1>6. ASSUME NEW id \in Int, NEW n \in Nat \ {0}, StandsFor(id, F, n)
      PROVE  StandsFor(HeldId(id, Append(A, tag)), H, n) /\ HeldId(id, Append(A, tag)) \in Int
  <2>1. StandsFor(HeldId(id, A), G, n) /\ HeldId(id, A) \in Int
    BY <1>6 DEF Leads
  <2>2. HeldId(id, Append(A, tag)) = HeldStep(HeldId(id, A), tag)
    BY <1>1, HeldAppend, Zenon
  <2>3. StandsFor(HeldStep(HeldId(id, A), tag), H, n)
    BY <1>2, <1>3, <2>1, HeldAfter, Zenon
  <2>4. HeldStep(HeldId(id, A), tag) \in Int
    BY <1>1, <2>1 DEF HeldStep, Moved, IsSplice, Splice, Tags
  <2> QED BY <2>2, <2>3, <2>4, Zenon
<1> QED BY <1>4, <1>5, <1>6 DEF Leads, Logs

-----------------------------------------------------------------------------
(* The files of a directory between two commits                            *)

\* All files are named, with different names in their order, and hold values.
Tidy(F) == /\ F \in Seq(Files)
           /\ \A i \in 1..Len(F) : F[i].name \in Names /\ F[i].val \in Values \cup {0}
           /\ \A i, j \in 1..Len(F) : i < j => F[i].name < F[j].name

\* Where a file with the name n belongs.
Spot(p, n, F) == /\ p \in 0..Len(F)
                 /\ \A i \in 1..Len(F) : IF i <= p THEN F[i].name < n ELSE F[i].name > n

\* A file more at p; the file at p less; the file at p with new contents.
With(F, p, n, v) == [i \in 1..(Len(F) + 1) |->
    IF i <= p THEN F[i] ELSE IF i = p + 1 THEN [name |-> n, val |-> v] ELSE F[i - 1]]
Without(F, p) == [i \in 1..(Len(F) - 1) |-> IF i <= p THEN F[i] ELSE F[i + 1]]
Rewritten(F, p, v) == [i \in 1..Len(F) |->
    IF i = p + 1 THEN [name |-> F[i].name, val |-> v] ELSE F[i]]

\* Files with different names are no more than the names.
LEMMA TidyShort ==
    ASSUME NEW F, Tidy(F)
    PROVE  /\ Len(F) \in Nat /\ Len(F) < NoId /\ Ordered(NamesOf(F), Len(F))
           /\ \A i \in 1..Len(F) : F[i].name \in Nat \ {0} /\ F[i].val \in Nat
<1>1. F \in Seq(Files) /\ Len(F) \in Nat /\ Names \subseteq Nat \ {0} /\ Values \subseteq Nat
  BY DirAssumption DEF Tidy
<1>2. \A i \in 1..Len(F) : F[i].name \in Nat \ {0} /\ F[i].val \in Nat /\ F[i].name \in Names
  <2>1. ASSUME NEW i \in 1..Len(F)
        PROVE  F[i].name \in Names /\ F[i].val \in Values \cup {0}
    BY DEF Tidy
  <2>2. Names \subseteq Nat \ {0} /\ Values \cup {0} \subseteq Nat
    BY <1>1
  <2> QED BY <2>1, <2>2
<1>3. \A i, j \in 1..Len(F) : i < j => F[i].name < F[j].name
  BY DEF Tidy
<1>4. Ordered(NamesOf(F), Len(F))
  BY <1>1, <1>3 DEF Ordered, NamesOf
<1>5. Len(F) <= Cardinality(Names)
  <2> DEFINE f == [i \in 1..Len(F) |-> F[i].name]
  <2>1. f \in [1..Len(F) -> Names]
    BY <1>2
  <2>2. ASSUME NEW i \in 1..Len(F), NEW j \in 1..Len(F), f[i] = f[j] PROVE i = j
    <3>1. ~(i < j) /\ ~(j < i)
      BY <1>2, <1>3, <2>2
    <3> QED BY <3>1
  <2> HIDE DEF f
  <2>3. f \in Injection(1..Len(F), Names)
    BY <2>1, <2>2 DEF Injection, IsInjective
  <2>4. Cardinality(1..Len(F)) <= Cardinality(Names)
    BY <2>3, DirAssumption, FS_Injection, Zenon
  <2>5. 1 \in Int /\ Len(F) \in Int
    BY <1>1
  <2>6. Cardinality(1..Len(F)) = IF 1 > Len(F) THEN 0 ELSE Len(F) - 1 + 1
    BY <2>5, FS_Interval, Zenon
  <2>7. Cardinality(1..Len(F)) = Len(F)
    BY <1>1, <2>6
  <2> QED BY <2>4, <2>7
<1>6. Cardinality(Names) \in Nat /\ Cardinality(Names) < NoId /\ NoId = 1023
  BY DirAssumption, FS_CardinalityType DEF NoId
<1> QED BY <1>1, <1>2, <1>4, <1>5, <1>6

\* They stay tidy.
LEMMA TidyWith ==
    ASSUME NEW F, Tidy(F), NEW n \in Names, NEW v \in Values \cup {0}, NEW p, Spot(p, n, F)
    PROVE  Tidy(With(F, p, n, v)) /\ Len(With(F, p, n, v)) = Len(F) + 1
<1> DEFINE G == With(F, p, n, v)
           N == Len(F)
           new == [name |-> n, val |-> v]
<1>1. /\ F \in Seq(Files) /\ N \in Nat /\ p \in 0..N /\ n \in Nat /\ v \in Nat
      /\ \A i \in 1..N : F[i] \in Files /\ F[i].name \in Nat
      /\ \A i \in 1..N : F[i].name \in Names /\ F[i].val \in Values \cup {0}
      /\ \A i, j \in 1..N : i < j => F[i].name < F[j].name
      /\ \A i \in 1..N : IF i <= p THEN F[i].name < n ELSE F[i].name > n
  BY DirAssumption, TidyShort DEF Tidy, Spot
<1>2. new \in Files /\ new.name = n /\ new.val = v
  BY <1>1 DEF Files
<1>3. G = [i \in 1..(N + 1) |-> IF i <= p THEN F[i] ELSE IF i = p + 1 THEN new ELSE F[i - 1]]
  BY DEF With
<1> SUFFICES Tidy(G) /\ Len(G) = N + 1
  OBVIOUS
<1> HIDE DEF G, new
<1>4. ASSUME NEW i \in 1..(N + 1)
      PROVE  /\ i < p + 1 => i \in 1..N /\ i <= p /\ G[i] = F[i]
             /\ i = p + 1 => G[i] = new
             /\ i > p + 1 => i - 1 \in 1..N /\ ~(i - 1 <= p) /\ G[i] = F[i - 1]
             /\ i < p + 1 \/ i = p + 1 \/ i > p + 1
  <2>1. G[i] = IF i <= p THEN F[i] ELSE IF i = p + 1 THEN new ELSE F[i - 1]
    BY <1>3
  <2>2. i < p + 1 => i \in 1..N /\ i <= p
    BY <1>1
  <2>3. i = p + 1 => ~(i <= p)
    BY <1>1
  <2>4. i > p + 1 => i - 1 \in 1..N /\ ~(i - 1 <= p) /\ ~(i <= p) /\ i # p + 1
    BY <1>1
  <2>5. i < p + 1 \/ i = p + 1 \/ i > p + 1
    BY <1>1
  <2> QED BY <2>1, <2>2, <2>3, <2>4, <2>5
<1>5. ASSUME NEW i \in 1..(N + 1)
      PROVE  G[i] \in Files /\ G[i].name \in Names /\ G[i].val \in Values \cup {0}
  BY <1>1, <1>2, <1>4
<1>6. G \in Seq(Files) /\ Len(G) = N + 1
  BY <1>1, <1>3, <1>5
<1>7. ASSUME NEW i \in 1..(N + 1), NEW j \in 1..(N + 1), i < j
      PROVE  G[i].name < G[j].name
  <2>1. CASE j < p + 1
    <3>1. i < p + 1
      BY <1>1, <1>7, <2>1
    <3>2. i \in 1..N /\ j \in 1..N /\ G[i] = F[i] /\ G[j] = F[j]
      BY <1>4, <2>1, <3>1
    <3> QED BY <1>1, <1>7, <3>2, Zenon
  <2>2. CASE j = p + 1
    <3>1. i < p + 1
      BY <1>1, <1>7, <2>2
    <3>2. i \in 1..N /\ i <= p /\ G[i] = F[i] /\ G[j] = new
      BY <1>4, <2>2, <3>1
    <3> QED BY <1>1, <1>2, <3>2, Zenon
  <2>3. CASE j > p + 1 /\ i < p + 1
    <3>1. i \in 1..N /\ j - 1 \in 1..N /\ G[i] = F[i] /\ G[j] = F[j - 1]
      BY <1>4, <2>3
    <3>2. i < j - 1
      BY <1>1, <2>3
    <3> QED BY <1>1, <3>1, <3>2, Zenon
  <2>4. CASE j > p + 1 /\ i = p + 1
    BY <1>1, <1>2, <1>4, <2>4
  <2>5. CASE j > p + 1 /\ i > p + 1
    <3>1. i - 1 \in 1..N /\ j - 1 \in 1..N /\ G[i] = F[i - 1] /\ G[j] = F[j - 1]
      BY <1>4, <2>5
    <3>2. i - 1 < j - 1
      BY <1>7
    <3> QED BY <1>1, <3>1, <3>2, Zenon
  <2> QED BY <1>4, <2>1, <2>2, <2>3, <2>4, <2>5
<1> QED BY <1>5, <1>6, <1>7 DEF Tidy

\* They stay tidy.
LEMMA TidyWithout ==
    ASSUME NEW F, Tidy(F), NEW p \in 0..(Len(F) - 1)
    PROVE  Tidy(Without(F, p)) /\ Len(Without(F, p)) = Len(F) - 1
<1> DEFINE G == Without(F, p)
           N == Len(F)
           src(i) == IF i <= p THEN i ELSE i + 1
<1>1. /\ F \in Seq(Files) /\ N \in Nat /\ p \in 0..(N - 1)
      /\ \A i \in 1..N : F[i] \in Files
      /\ \A i \in 1..N : F[i].name \in Names /\ F[i].val \in Values \cup {0}
      /\ \A i, j \in 1..N : i < j => F[i].name < F[j].name
  BY TidyShort DEF Tidy
<1>2. ASSUME NEW i \in 1..(N - 1) PROVE src(i) \in 1..N /\ G[i] = F[src(i)]
  <2>1. i <= p => i \in 1..N
    BY <1>1
  <2> QED BY <1>1, <2>1 DEF Without
<1>3. ASSUME NEW i \in 1..(N - 1), NEW j \in 1..(N - 1), i < j PROVE src(i) < src(j)
  BY <1>1, <1>3
<1>4. N - 1 \in Nat /\ G = [i \in 1..(N - 1) |-> G[i]]
  BY <1>1 DEF Without
<1> HIDE DEF G, src
<1>5. G \in Seq(Files) /\ Len(G) = N - 1
  BY <1>1, <1>2, <1>4, SeqMade
<1> HIDE DEF N
<1>6. Tidy(G)
  BY <1>1, <1>2, <1>3, <1>5 DEF Tidy
<1> QED BY <1>5, <1>6 DEF G, N

\* They stay tidy.
LEMMA TidyRewritten ==
    ASSUME NEW F, Tidy(F), NEW p, NEW v \in Values \cup {0}
    PROVE  Tidy(Rewritten(F, p, v)) /\ Len(Rewritten(F, p, v)) = Len(F)
<1> DEFINE G == Rewritten(F, p, v)
           N == Len(F)
<1>1. /\ F \in Seq(Files) /\ N \in Nat /\ v \in Nat
      /\ \A i \in 1..N : F[i] \in Files /\ F[i].name \in Nat
      /\ \A i \in 1..N : F[i].name \in Names /\ F[i].val \in Values \cup {0}
      /\ \A i, j \in 1..N : i < j => F[i].name < F[j].name
  BY DirAssumption, TidyShort DEF Tidy
<1>2. ASSUME NEW i \in 1..N
      PROVE  G[i] \in Files /\ G[i].name = F[i].name /\ G[i].val \in Values \cup {0}
  BY <1>1 DEF Rewritten, Files
<1>3. G = [i \in 1..N |-> G[i]]
  BY DEF Rewritten
<1> HIDE DEF G
<1>4. G \in Seq(Files) /\ Len(G) = N
  BY <1>1, <1>2, <1>3, SeqMade
<1> HIDE DEF N
<1>5. Tidy(G)
  BY <1>1, <1>2, <1>4 DEF Tidy
<1> QED BY <1>4, <1>5 DEF G, N

\* What a program finds in the files, by name (Decoded).
Ids(F, n) == { i \in DOMAIN F : F[i].name = n }
Contents(F) == [n \in Names |-> IF Ids(F, n) = {} THEN Absent ELSE F[CHOOSE i \in Ids(F, n) : TRUE].val]

\* It is what the one file with the name holds.
LEMMA ContentsRight ==
    ASSUME NEW F, Tidy(F), NEW n \in Names
    PROVE  /\ \A i \in 1..Len(F) : F[i].name = n => Contents(F)[n] = F[i].val
           /\ (\A i \in 1..Len(F) : F[i].name # n) => Contents(F)[n] = Absent
           /\ Contents(F)[n] \in Values \cup {0, Absent}
<1>1. /\ F \in Seq(Files) /\ DOMAIN F = 1..Len(F) /\ Len(F) \in Nat
      /\ \A i \in 1..Len(F) : F[i].name \in Nat /\ F[i].val \in Values \cup {0}
      /\ \A i, j \in 1..Len(F) : i < j => F[i].name < F[j].name
  BY TidyShort DEF Tidy
<1>2. Contents(F)[n] = IF Ids(F, n) = {} THEN Absent ELSE F[CHOOSE i \in Ids(F, n) : TRUE].val
  BY DEF Contents
<1>3. ASSUME NEW i \in 1..Len(F), F[i].name = n PROVE Contents(F)[n] = F[i].val
  <2>1. Ids(F, n) # {}
    BY <1>1, <1>3 DEF Ids
  <2>2. \A j \in Ids(F, n) : j = i
    <3> SUFFICES ASSUME NEW j \in 1..Len(F), F[j].name = n PROVE j = i
      BY <1>1 DEF Ids
    <3>1. ~(i < j) /\ ~(j < i)
      BY <1>1, <1>3
    <3> QED BY <3>1
  <2>3. (CHOOSE j \in Ids(F, n) : TRUE) = i
    BY <2>1, <2>2
  <2> QED BY <1>2, <2>1, <2>3
<1>4. ASSUME \A i \in 1..Len(F) : F[i].name # n PROVE Contents(F)[n] = Absent
  BY <1>1, <1>2, <1>4 DEF Ids
<1>5. Contents(F)[n] \in Values \cup {0, Absent}
  BY <1>1, <1>3, <1>4
<1> QED BY <1>3, <1>4, <1>5

\* What a change by name makes of the contents (Changed of DirStore).
Made(C, change) == [n \in Names |-> IF n \in DOMAIN change THEN change[n] ELSE C[n]]
Brings(F, change, G) == Contents(G) = Made(Contents(F), change)

\* A file more.
LEMMA ContentsWith ==
    ASSUME NEW F, Tidy(F), NEW n \in Names, NEW v \in Values \cup {0}, NEW p, Spot(p, n, F)
    PROVE  Brings(F, Change(n, v), With(F, p, n, v))
<1> DEFINE G == With(F, p, n, v)
           N == Len(F)
           change == [x \in {n} |-> v]
<1>1. /\ Tidy(G) /\ Len(G) = N + 1 /\ N \in Nat /\ p \in 0..N /\ n \in Nat
      /\ \A i \in 1..N : IF i <= p THEN F[i].name < n ELSE F[i].name > n
      /\ \A i \in 1..N : F[i].name \in Nat
  BY DirAssumption, TidyWith, TidyShort DEF Spot
<1>2. p + 1 \in 1..Len(G) /\ G[p + 1].name = n /\ G[p + 1].val = v
  BY <1>1 DEF With
<1>3. \A i \in 1..N : /\ F[i].name # n
                      /\ IF i <= p THEN i \in 1..Len(G) /\ G[i] = F[i]
                         ELSE i + 1 \in 1..Len(G) /\ G[i + 1] = F[i]
  <2>1. ASSUME NEW i \in 1..N
        PROVE  IF i <= p THEN i \in 1..Len(G) /\ G[i] = F[i]
               ELSE i + 1 \in 1..Len(G) /\ G[i + 1] = F[i]
    <3>1. CASE i <= p
      <4>1. i \in 1..(N + 1)
        OBVIOUS
      <4> QED BY <1>1, <3>1, <4>1 DEF With
    <3>2. CASE ~(i <= p)
      <4>1. i + 1 \in 1..(N + 1) /\ ~(i + 1 <= p) /\ i + 1 # p + 1 /\ i + 1 - 1 = i
        BY <1>1, <3>2
      <4> QED BY <1>1, <3>2, <4>1 DEF With
    <3> QED BY <3>1, <3>2
  <2> QED BY <1>1, <2>1
<1>4. ASSUME NEW i \in 1..Len(G), i # p + 1 PROVE \E j \in 1..N : G[i] = F[j]
  <2>1. CASE i <= p
    BY <1>1, <1>3, <2>1
  <2>2. CASE ~(i <= p)
    <3>1. i - 1 \in 1..N /\ ~(i - 1 <= p) /\ i - 1 + 1 = i
      BY <1>1, <1>4, <2>2
    <3> QED BY <1>3, <3>1
  <2> QED BY <2>1, <2>2
<1> HIDE DEF G
<1>5. ASSUME NEW x \in Names PROVE Contents(G)[x] = IF x = n THEN v ELSE Contents(F)[x]
  <2>1. CASE x = n
    BY <1>1, <1>2, <2>1, ContentsRight
  <2>2. CASE x # n /\ \E j \in 1..N : F[j].name = x
    <3>1. PICK j \in 1..N : F[j].name = x
      BY <2>2
    <3>2. PICK i \in 1..Len(G) : G[i] = F[j]
      BY <1>3
    <3>3. Contents(F)[x] = F[j].val
      BY <3>1, ContentsRight
    <3>4. Contents(G)[x] = G[i].val
      BY <1>1, <3>1, <3>2, ContentsRight
    <3> QED BY <2>2, <3>2, <3>3, <3>4
  <2>3. CASE x # n /\ ~\E j \in 1..N : F[j].name = x
    <3>1. \A i \in 1..Len(G) : G[i].name # x
      BY <1>2, <1>4, <2>3
    <3>2. Contents(F)[x] = Absent
      BY <2>3, ContentsRight
    <3>3. Contents(G)[x] = Absent
      BY <1>1, <3>1, ContentsRight, Zenon
    <3> QED BY <2>3, <3>2, <3>3
  <2> QED BY <2>1, <2>2, <2>3
<1>6. Contents(G) = [x \in Names |-> Contents(G)[x]]
  BY DEF Contents
<1>7. Contents(G) = Made(Contents(F), change)
  <2>1. \A x \in Names : Contents(G)[x] = IF x \in DOMAIN change THEN change[x] ELSE Contents(F)[x]
    BY <1>5
  <2> HIDE DEF change
  <2> QED BY <1>6, <2>1, Zenon DEF Made
<1> QED BY <1>7 DEF G, Brings, Change

\* A file less.
LEMMA ContentsWithout ==
    ASSUME NEW F, Tidy(F), NEW p \in 0..(Len(F) - 1)
    PROVE  Brings(F, Change(F[p + 1].name, Absent), Without(F, p))
<1> DEFINE G == Without(F, p)
           N == Len(F)
           n == F[p + 1].name
           change == [x \in {n} |-> Absent]
<1>1. /\ Tidy(G) /\ Len(G) = N - 1 /\ N \in Nat /\ p + 1 \in 1..N /\ n \in Names
      /\ \A i, j \in 1..N : i < j => F[i].name < F[j].name
      /\ \A i \in 1..N : F[i].name \in Nat
  BY TidyWithout, TidyShort DEF Tidy
<1>2. ASSUME NEW i \in 1..N, i # p + 1
      PROVE  F[i].name # n /\ \E j \in 1..Len(G) : G[j] = F[i]
  <2>1. F[i].name # n
    <3>1. i < p + 1 \/ p + 1 < i
      BY <1>1, <1>2
    <3> QED BY <1>1, <3>1
  <2>2. CASE i <= p
    <3>1. i \in 1..Len(G) /\ G[i] = F[i]
      BY <1>1, <2>2 DEF Without
    <3> QED BY <2>1, <3>1
  <2>3. CASE ~(i <= p)
    <3>1. i - 1 \in 1..(N - 1) /\ ~(i - 1 <= p) /\ i - 1 + 1 = i
      BY <1>1, <1>2, <2>3
    <3>2. i - 1 \in 1..Len(G) /\ G[i - 1] = F[i]
      BY <1>1, <3>1 DEF Without
    <3> QED BY <2>1, <3>2
  <2> QED BY <2>2, <2>3
<1>3. ASSUME NEW i \in 1..Len(G) PROVE \E j \in 1..N : j # p + 1 /\ G[i] = F[j]
  <2>1. CASE i <= p
    <3>1. i \in 1..N /\ G[i] = F[i] /\ i # p + 1
      BY <1>1, <2>1 DEF Without
    <3> QED BY <3>1
  <2>2. CASE ~(i <= p)
    <3>1. i + 1 \in 1..N /\ G[i] = F[i + 1] /\ i + 1 # p + 1
      BY <1>1, <2>2 DEF Without
    <3> QED BY <3>1
  <2> QED BY <2>1, <2>2
<1> HIDE DEF G, n
<1>4. ASSUME NEW x \in Names PROVE Contents(G)[x] = IF x = n THEN Absent ELSE Contents(F)[x]
  <2>1. CASE x = n
    <3>1. \A i \in 1..Len(G) : G[i].name # x
      BY <1>2, <1>3, <2>1
    <3>2. Contents(G)[x] = Absent
      BY <1>1, <3>1, ContentsRight, Zenon
    <3> QED BY <2>1, <3>2
  <2>2. CASE x # n /\ \E j \in 1..N : F[j].name = x
    <3>1. PICK j \in 1..N : F[j].name = x
      BY <2>2
    <3>2. PICK i \in 1..Len(G) : G[i] = F[j]
      BY <1>2, <2>2, <3>1 DEF n
    <3>3. Contents(F)[x] = F[j].val
      BY <3>1, ContentsRight
    <3>4. Contents(G)[x] = G[i].val
      BY <1>1, <3>1, <3>2, ContentsRight
    <3> QED BY <2>2, <3>2, <3>3, <3>4
  <2>3. CASE x # n /\ ~\E j \in 1..N : F[j].name = x
    <3>1. \A i \in 1..Len(G) : G[i].name # x
      BY <1>3, <2>3
    <3>2. Contents(F)[x] = Absent
      BY <2>3, ContentsRight
    <3>3. Contents(G)[x] = Absent
      BY <1>1, <3>1, ContentsRight, Zenon
    <3> QED BY <2>3, <3>2, <3>3
  <2> QED BY <2>1, <2>2, <2>3
<1>5. Contents(G) = [x \in Names |-> Contents(G)[x]]
  BY DEF Contents
<1>6. Contents(G) = Made(Contents(F), change)
  <2>1. \A x \in Names : Contents(G)[x] = IF x \in DOMAIN change THEN change[x] ELSE Contents(F)[x]
    BY <1>4
  <2> HIDE DEF change
  <2> QED BY <1>5, <2>1, Zenon DEF Made
<1> QED BY <1>6 DEF G, n, Brings, Change

\* A file written.
LEMMA ContentsRewritten ==
    ASSUME NEW F, Tidy(F), NEW p \in 0..(Len(F) - 1), NEW v \in Values \cup {0}
    PROVE  Brings(F, Change(F[p + 1].name, v), Rewritten(F, p, v))
<1> DEFINE G == Rewritten(F, p, v)
           N == Len(F)
           n == F[p + 1].name
           change == [x \in {n} |-> v]
<1>1. /\ Tidy(G) /\ Len(G) = N /\ N \in Nat /\ p + 1 \in 1..N /\ n \in Names
      /\ \A i, j \in 1..N : i < j => F[i].name < F[j].name
      /\ \A i \in 1..N : F[i].name \in Nat
  BY TidyRewritten, TidyShort DEF Tidy
<1>2. ASSUME NEW i \in 1..N
      PROVE  G[i].name = F[i].name /\ G[i].val = IF i = p + 1 THEN v ELSE F[i].val
  BY DEF Rewritten
<1>3. ASSUME NEW i \in 1..N, F[i].name = n PROVE i = p + 1
  <2>1. ~(i < p + 1) /\ ~(p + 1 < i)
    BY <1>1, <1>3
  <2> QED BY <1>1, <2>1
<1>4. F[p + 1].name = n
  OBVIOUS
<1> HIDE DEF G, n
<1>5. ASSUME NEW x \in Names PROVE Contents(G)[x] = IF x = n THEN v ELSE Contents(F)[x]
  <2>1. CASE \E j \in 1..N : F[j].name = x
    <3>1. PICK j \in 1..N : F[j].name = x
      BY <2>1
    <3>2. Contents(F)[x] = F[j].val
      BY <3>1, ContentsRight
    <3>3. Contents(G)[x] = G[j].val
      BY <1>1, <1>2, <3>1, ContentsRight
    <3>4. j = p + 1 <=> x = n
      BY <1>3, <1>4, <3>1
    <3> QED BY <1>2, <3>1, <3>2, <3>3, <3>4
  <2>2. CASE ~\E j \in 1..N : F[j].name = x
    <3>1. \A i \in 1..Len(G) : G[i].name # x
      BY <1>1, <1>2, <2>2
    <3>2. Contents(F)[x] = Absent
      BY <2>2, ContentsRight
    <3>3. Contents(G)[x] = Absent
      BY <1>1, <3>1, ContentsRight, Zenon
    <3>4. x # n
      BY <1>1, <1>4, <2>2
    <3> QED BY <3>2, <3>3, <3>4
  <2> QED BY <2>1, <2>2
<1>6. Contents(G) = [x \in Names |-> Contents(G)[x]]
  BY DEF Contents
<1>7. Contents(G) = Made(Contents(F), change)
  <2>1. \A x \in Names : Contents(G)[x] = IF x \in DOMAIN change THEN change[x] ELSE Contents(F)[x]
    BY <1>5
  <2> HIDE DEF change
  <2> QED BY <1>6, <2>1, Zenon DEF Made
<1> QED BY <1>7 DEF G, n, Brings, Change

-----------------------------------------------------------------------------
(* What littlefs finds, and what it appends for each change                *)

\* lfs_dir_find finds the file with a name, or its place.
LEMMA FindRight ==
    ASSUME NEW L, NEW F, Reads(L, F), Tidy(F), NEW n \in Nat \ {0}
    PROVE  /\ Find(L, n).count = Len(F) /\ Find(L, n).found \in BOOLEAN /\ Find(L, n).id \in Nat
           /\ Find(L, n).found => /\ Find(L, n).id \in 0..(Len(F) - 1)
                                  /\ F[Find(L, n).id + 1].name = n
           /\ ~Find(L, n).found => Spot(Find(L, n).id, n, F)
<1> DEFINE s == Scan(L, n)
           r == Find(L, n)
           N == Len(F)
<1>1. /\ N \in Nat /\ N < NoId /\ NoId = 1023
      /\ \A i \in 1..N : NamesOf(F)[i] = F[i].name /\ F[i].name \in Nat \ {0}
  <2>1. /\ N \in Nat /\ N < NoId /\ \A i \in 1..N : F[i].name \in Nat \ {0}
    BY TidyShort
  <2>2. \A i \in 1..N : NamesOf(F)[i] = F[i].name
    BY DEF NamesOf
  <2>3. NoId = 1023
    BY DEF NoId
  <2> QED BY <2>1, <2>2, <2>3
<1>2. s \in Matches /\ s.count = N /\ Place(s.found, s.id, n, NamesOf(F), N)
  BY DEF Reads, Placed
<1>3. r = [s EXCEPT !.id = IF s.id < s.count THEN s.id ELSE s.count]
  BY Zenon DEF Find
<1> SUFFICES /\ r.count = N /\ r.found \in BOOLEAN /\ r.id \in Nat
             /\ r.found => r.id \in 0..(N - 1) /\ F[r.id + 1].name = n
             /\ ~r.found => Spot(r.id, n, F)
  OBVIOUS
<1> HIDE DEF r, s
<1>4. /\ r.count = N /\ r.found = s.found /\ r.found \in BOOLEAN
      /\ r.id = IF s.id < N THEN s.id ELSE N
  BY <1>2, <1>3 DEF Matches
<1>5. CASE r.found
  <2>1. s.id \in 0..(N - 1) /\ NamesOf(F)[s.id + 1] = n
    BY <1>2, <1>4, <1>5 DEF Place
  <2> QED BY <1>1, <1>4, <1>5, <2>1
<1>6. CASE ~r.found
  <2>1. /\ s.id = NoId \/ s.id \in 0..N
        /\ \A i \in 1..N : IF i <= s.id THEN NamesOf(F)[i] < n ELSE NamesOf(F)[i] = 0 \/ NamesOf(F)[i] > n
    BY <1>2, <1>4, <1>6 DEF Place
  <2>2. r.id \in 0..N /\ \A i \in 1..N : i <= r.id <=> i <= s.id
    BY <1>1, <1>4, <2>1
  <2>3. \A i \in 1..N : IF i <= r.id THEN F[i].name < n ELSE F[i].name > n
    <3>1. ASSUME NEW i \in 1..N PROVE IF i <= r.id THEN F[i].name < n ELSE F[i].name > n
      <4>1. IF i <= s.id THEN NamesOf(F)[i] < n ELSE NamesOf(F)[i] = 0 \/ NamesOf(F)[i] > n
        BY <2>1
      <4>2. NamesOf(F)[i] = F[i].name /\ F[i].name # 0 /\ (i <= r.id <=> i <= s.id)
        BY <1>1, <2>2
      <4> QED BY <4>1, <4>2
    <3> QED BY <3>1
  <2>4. Spot(r.id, n, F)
    BY <2>2, <2>3 DEF Spot
  <2> QED BY <1>4, <1>6, <2>2, <2>4
<1> QED BY <1>5, <1>6

\* The order of the names when there is a new one.
LEMMA OrderedWith ==
    ASSUME NEW F, Tidy(F), NEW n \in Nat \ {0}, NEW p, Spot(p, n, F), NEW G,
           Len(G) = Len(F) + 1,
           \A i \in 1..Len(G) : G[i].name = IF i <= p THEN F[i].name ELSE IF i = p + 1 THEN n
                                            ELSE F[i - 1].name
    PROVE  Ordered(NamesOf(G), Len(G))
<1> DEFINE N == Len(F)
<1>1. /\ N \in Nat /\ p \in 0..N
      /\ \A i \in 1..N : IF i <= p THEN F[i].name < n ELSE F[i].name > n
      /\ \A i \in 1..N : F[i].name \in Nat
      /\ \A i, j \in 1..N : i < j => F[i].name < F[j].name
  BY TidyShort DEF Tidy, Spot
<1> HIDE DEF N
<1>2. Len(G) = N + 1
  BY DEF N
<1>3. ASSUME NEW i \in 1..(N + 1), NEW j \in 1..(N + 1), i < j PROVE G[i].name < G[j].name
  <2>0. /\ G[i].name = IF i <= p THEN F[i].name ELSE IF i = p + 1 THEN n ELSE F[i - 1].name
        /\ G[j].name = IF j <= p THEN F[j].name ELSE IF j = p + 1 THEN n ELSE F[j - 1].name
    BY <1>2
  <2>1. CASE j <= p
    <3>1. i \in 1..N /\ j \in 1..N /\ i <= p
      BY <1>1, <1>3, <2>1
    <3> QED BY <1>1, <1>3, <2>0, <2>1, <3>1, Zenon
  <2>2. CASE j = p + 1
    <3>1. i \in 1..N /\ i <= p /\ ~(j <= p)
      BY <1>1, <1>3, <2>2
    <3> QED BY <1>1, <2>0, <2>2, <3>1, Zenon
  <2>3. CASE j > p + 1
    <3>1. j - 1 \in 1..N /\ ~(j - 1 <= p) /\ ~(j <= p) /\ j # p + 1
      BY <1>1, <2>3
    <3>2. CASE i <= p
      <4>1. i \in 1..N /\ i < j - 1
        BY <1>1, <2>3, <3>2
      <4> QED BY <1>1, <2>0, <3>1, <3>2, <4>1, Zenon
    <3>3. CASE i = p + 1
      <4>1. ~(i <= p)
        BY <1>1, <3>3
      <4>2. G[i].name = n /\ G[j].name = F[j - 1].name
        BY <2>0, <3>1, <3>3, <4>1, Zenon
      <4>3. F[j - 1].name > n
        BY <1>1, <3>1, Zenon
      <4> QED BY <1>1, <3>1, <4>2, <4>3
    <3>4. CASE i > p + 1
      <4>1. i - 1 \in 1..N /\ i - 1 < j - 1 /\ ~(i <= p) /\ i # p + 1
        BY <1>1, <1>3, <3>4
      <4> QED BY <1>1, <2>0, <3>1, <4>1, Zenon
    <3> QED BY <1>1, <3>2, <3>3, <3>4
  <2> QED BY <1>1, <2>1, <2>2, <2>3
<1> QED BY <1>2, <1>3 DEF Ordered, NamesOf

\* What is appended for a new file: its creation, its name and its contents.
LEMMA LeadsWith ==
    ASSUME NEW L, NEW F, Reads(L, F), NEW A, NEW G, Leads(L, F, A, G), Tidy(G),
           NEW n \in Names, NEW v \in Values \cup {0}, NEW p, Spot(p, n, G)
    PROVE  Leads(L, F, Append(Append(Append(A, Tag("create", p, 0)), Tag("name", p, n)),
                              Tag("struct", p, v)),
                 With(G, p, n, v))
<1> DEFINE t1 == Tag("create", p, 0)
           t2 == Tag("name", p, n)
           t3 == Tag("struct", p, v)
           G1 == Replay(G, t1)
           G2 == Replay(G1, t2)
           G3 == Replay(G2, t3)
           N  == Len(G)
           none == [name |-> 0, val |-> 0]
<1>1. /\ G \in Seq(Files) /\ N \in Nat /\ p \in 0..N /\ p \in Nat /\ n \in Nat \ {0} /\ v \in Nat
      /\ \A i \in 1..N : G[i].name \in Nat /\ G[i].val \in Nat /\ G[i] = [name |-> G[i].name, val |-> G[i].val]
  <2>1. \A i \in 1..N : G[i] \in Files
    BY DEF Tidy
  <2>2. G \in Seq(Files) /\ N \in Nat /\ p \in 0..N
    BY TidyShort DEF Tidy, Spot
  <2>3. n \in Nat \ {0} /\ v \in Nat
    BY DirAssumption
  <2>4. \A i \in 1..N : G[i].name \in Nat /\ G[i].val \in Nat /\ G[i] = [name |-> G[i].name, val |-> G[i].val]
    BY <2>1 DEF Files
  <2> QED BY <2>2, <2>3, <2>4
<1>2. t1 \in Tags /\ t2 \in Tags /\ t3 \in Tags
  BY <1>1 DEF Tags, Tag
<1>3. /\ t1.type = "create" /\ t1.id = p
      /\ t2.type = "name" /\ t2.id = p /\ t2.val = n
      /\ t3.type = "struct" /\ t3.id = p /\ t3.val = v
  BY DEF Tag
<1>4. N + 1 < NoId /\ NoId = 1023
  <2>1. Tidy(With(G, p, n, v)) /\ Len(With(G, p, n, v)) = N + 1
    BY TidyWith
  <2> QED BY <2>1, TidyShort DEF NoId
<1> HIDE DEF t1, t2, t3, N
<1>5. /\ G1 \in Seq(Files) /\ Len(G1) = N + 1
      /\ \A i \in 1..(N + 1) : G1[i] = IF i <= p THEN G[i] ELSE IF i = p + 1 THEN none ELSE G[i - 1]
  <2>1. Replays(G1, G, t1)
    BY <1>1, <1>2, ReplaySteps, Zenon
  <2>2. \A i \in Int : i < p + 1 <=> i <= p
    BY <1>1
  <2> HIDE DEF G1
  <2>3. /\ G1 \in Seq(Files) /\ Len(G1) = N + 1
        /\ \A i \in 1..Len(G1) : G1[i] = IF i < p + 1 THEN G[i] ELSE IF i = p + 1 THEN none ELSE G[i - 1]
    BY <1>1, <1>3, <2>1 DEF Replays, N
  <2> QED BY <2>2, <2>3
<1> HIDE DEF G1
<1>6. /\ G2 \in Seq(Files) /\ Len(G2) = N + 1
      /\ \A i \in 1..(N + 1) : /\ G2[i].name = IF i = p + 1 THEN n ELSE G1[i].name
                               /\ G2[i].val = G1[i].val
  <2>1. Replays(G2, G1, t2)
    BY <1>2, <1>5, ReplaySteps, Zenon
  <2> HIDE DEF G2
  <2> QED BY <1>1, <1>3, <1>5, <2>1 DEF Replays
<1> HIDE DEF G2
<1>7. /\ G3 \in Seq(Files) /\ Len(G3) = N + 1
      /\ \A i \in 1..(N + 1) : /\ G3[i].name = G2[i].name
                               /\ G3[i].val = IF i = p + 1 THEN v ELSE G2[i].val
  <2>1. Replays(G3, G2, t3)
    BY <1>2, <1>6, ReplaySteps, Zenon
  <2> HIDE DEF G3
  <2> QED BY <1>1, <1>3, <1>6, <2>1 DEF Replays
<1> HIDE DEF G3
<1>8. p + 1 \in 1..(N + 1) /\ ~(p + 1 <= p) /\ p < N + 1
  BY <1>1
<1>9. G1[p + 1].name = 0
  BY <1>5, <1>8
<1>10. G2[p + 1].name = n
  BY <1>6, <1>8
<1>11. \A i \in 1..Len(G2) : G2[i].name = IF i <= p THEN G[i].name ELSE IF i = p + 1 THEN n
                                          ELSE G[i - 1].name
  BY <1>1, <1>5, <1>6, <1>8
<1>12. Ordered(NamesOf(G2), Len(G2))
  <2>1. Len(G2) = Len(G) + 1
    BY <1>6 DEF N
  <2> QED BY <1>1, <1>11, <2>1, OrderedWith, Zenon
<1>13. Suits(t1, G, G1)
  BY <1>1, <1>2, <1>3, <1>4, <1>5 DEF Suits, N
<1>14. Suits(t2, G1, G2)
  BY <1>1, <1>2, <1>3, <1>4, <1>6, <1>9, <1>12 DEF Suits
<1>15. Suits(t3, G2, G3)
  BY <1>1, <1>2, <1>3, <1>4, <1>6, <1>7, <1>8, <1>10 DEF Suits
<1>16. Leads(L, F, Append(A, t1), G1)
  <2>1. t1.type # "name"
    BY <1>3
  <2> QED BY <1>13, <2>1, LeadsFurther, Zenon DEF G1
<1>17. Leads(L, F, Append(Append(A, t1), t2), G2)
  <2>1. t2.id < Len(G1)
    BY <1>3, <1>5, <1>8
  <2> QED BY <1>14, <1>16, <2>1, LeadsFurther, Zenon DEF G2
<1>18. Leads(L, F, Append(Append(Append(A, t1), t2), t3), G3)
  <2>1. t3.type # "name"
    BY <1>3
  <2> QED BY <1>15, <1>17, <2>1, LeadsFurther, Zenon DEF G3
<1>19. G3 = With(G, p, n, v)
  <2>1. ASSUME NEW i \in 1..(N + 1)
        PROVE  G3[i] = IF i <= p THEN G[i] ELSE IF i = p + 1 THEN [name |-> n, val |-> v] ELSE G[i - 1]
    <3>1. G3[i] \in Files
      BY <1>7
    <3>2. G3[i] = [name |-> G3[i].name, val |-> G3[i].val]
      BY <3>1 DEF Files
    <3>3. CASE i <= p
      <4>1. i \in 1..N /\ i # p + 1
        BY <1>1, <3>3
      <4>2. G3[i].name = G[i].name /\ G3[i].val = G[i].val
        BY <1>5, <1>6, <1>7, <3>3, <4>1
      <4> QED BY <1>1, <3>2, <3>3, <4>1, <4>2, Zenon
    <3>4. CASE i = p + 1
      <4>1. G3[i].name = n /\ G3[i].val = v
        BY <1>6, <1>7, <3>4
      <4> QED BY <1>8, <3>2, <3>4, <4>1, Zenon
    <3>5. CASE i > p + 1
      <4>1. i - 1 \in 1..N /\ i # p + 1 /\ ~(i <= p)
        BY <1>1, <3>5
      <4>2. G3[i].name = G[i - 1].name /\ G3[i].val = G[i - 1].val
        BY <1>5, <1>6, <1>7, <4>1
      <4> QED BY <1>1, <3>2, <4>1, <4>2, Zenon
    <3> QED BY <1>1, <3>3, <3>4, <3>5
  <2>2. G3 = [i \in 1..(N + 1) |-> G3[i]]
    BY <1>7
  <2> QED BY <2>1, <2>2, Zenon DEF With, N
<1> QED BY <1>18, <1>19 DEF t1, t2, t3

\* What is appended for a file less: its deletion.
LEMMA LeadsWithout ==
    ASSUME NEW L, NEW F, Reads(L, F), NEW A, NEW G, Leads(L, F, A, G), Tidy(G),
           NEW p \in 0..(Len(G) - 1)
    PROVE  Leads(L, F, Append(A, Tag("delete", p, 0)), Without(G, p))
<1> DEFINE t == Tag("delete", p, 0)
           H == Replay(G, t)
           N == Len(G)
<1>1. /\ G \in Seq(Files) /\ N \in Nat /\ N < NoId /\ NoId = 1023 /\ p \in Nat /\ p < N
      /\ \A i \in 1..N : G[i].name # 0
  BY TidyShort DEF Tidy, NoId
<1>2. t \in Tags /\ t.type = "delete" /\ t.id = p
  BY <1>1 DEF Tags, Tag
<1> HIDE DEF t, N
<1>3. Replays(H, G, t)
  BY <1>1, <1>2, ReplaySteps, Zenon
<1> HIDE DEF H
<1>4. /\ H \in Seq(Files) /\ Len(H) = N - 1
      /\ \A i \in 1..Len(H) : H[i] = IF i < p + 1 THEN G[i] ELSE G[i + 1]
  BY <1>1, <1>2, <1>3 DEF Replays, N
<1>5. Suits(t, G, H)
  BY <1>1, <1>2, <1>4 DEF Suits, N
<1>6. Leads(L, F, Append(A, t), H)
  <2>1. t.type # "name"
    BY <1>2
  <2> QED BY <1>5, <2>1, LeadsFurther, Zenon DEF H
<1>7. H = Without(G, p)
  <2>1. H = [i \in 1..(N - 1) |-> H[i]]
    BY <1>4
  <2>2. ASSUME NEW i \in 1..(N - 1) PROVE H[i] = IF i <= p THEN G[i] ELSE G[i + 1]
    <3>1. i \in 1..Len(H) /\ (i < p + 1 <=> i <= p)
      BY <1>1, <1>4
    <3> QED BY <1>4, <3>1, Zenon
  <2> QED BY <2>1, <2>2, Zenon DEF Without, N
<1> QED BY <1>6, <1>7 DEF t

\* What is appended for a file written.
LEMMA LeadsRewritten ==
    ASSUME NEW L, NEW F, Reads(L, F), NEW A, NEW G, Leads(L, F, A, G), Tidy(G),
           NEW p \in 0..(Len(G) - 1), NEW v \in Values
    PROVE  Leads(L, F, Append(A, Tag("struct", p, v)), Rewritten(G, p, v))
<1> DEFINE t == Tag("struct", p, v)
           H == Replay(G, t)
           N == Len(G)
<1>1. /\ G \in Seq(Files) /\ N \in Nat /\ N < NoId /\ NoId = 1023 /\ p \in Nat /\ p < N
      /\ p + 1 \in 1..N /\ v \in Nat /\ \A i \in 1..N : G[i].name # 0
  BY TidyShort, DirAssumption DEF Tidy, NoId
<1>2. t \in Tags /\ t.type = "struct" /\ t.id = p /\ t.val = v
  BY <1>1 DEF Tags, Tag
<1>3. \A i \in 1..N : G[i] = [name |-> G[i].name, val |-> G[i].val]
  <2>1. ASSUME NEW i \in 1..N PROVE G[i] = [name |-> G[i].name, val |-> G[i].val]
    <3>1. G[i] \in Files
      BY <1>1
    <3> QED BY <3>1 DEF Files
  <2> QED BY <2>1
<1> HIDE DEF t, N
<1>4. Replays(H, G, t)
  BY <1>1, <1>2, ReplaySteps, Zenon
<1> HIDE DEF H
<1>5. /\ H \in Seq(Files) /\ Len(H) = N
      /\ \A i \in 1..N : H[i].name = G[i].name /\ H[i].val = IF i = p + 1 THEN v ELSE G[i].val
  BY <1>1, <1>2, <1>4 DEF Replays, N
<1>6. Suits(t, G, H)
  BY <1>1, <1>2, <1>5 DEF Suits, N
<1>7. Leads(L, F, Append(A, t), H)
  <2>1. t.type # "name"
    BY <1>2
  <2> QED BY <1>6, <2>1, LeadsFurther, Zenon DEF H
<1>8. H = Rewritten(G, p, v)
  <2>1. H = [i \in 1..N |-> H[i]]
    BY <1>5
  <2>2. ASSUME NEW i \in 1..N
        PROVE  H[i] = IF i = p + 1 THEN [name |-> G[i].name, val |-> v] ELSE G[i]
    <3>1. H[i] \in Files
      BY <1>5
    <3>2. H[i] = [name |-> H[i].name, val |-> H[i].val]
      BY <3>1 DEF Files
    <3>3. H[i].name = G[i].name /\ H[i].val = IF i = p + 1 THEN v ELSE G[i].val
      BY <1>5
    <3> QED BY <1>3, <3>2, <3>3, Zenon
  <2> QED BY <2>1, <2>2, Zenon DEF Rewritten, N
<1> QED BY <1>7, <1>8 DEF t

-----------------------------------------------------------------------------
(* A compaction keeps the files                                            *)

\* Whether the first k kept tags have one of this type for this id.
Had(K, k, type, id) == \E l \in 1..k : Tagged(K, l, type, id)

\* What the first k kept tags K of the files F make: the files D, with the parts
\* that they have.
Part(D, K, k, F) ==
    /\ D \in Seq(Files) /\ Len(D) <= Len(F)
    /\ \A i \in 1..Len(D) : /\ D[i].name = IF Had(K, k, "name", i - 1) THEN F[i].name ELSE 0
                            /\ D[i].val = IF Had(K, k, "struct", i - 1) THEN F[i].val ELSE 0
    /\ \A l \in 1..k : K[l].type # "noop" => K[l].id < Len(D)

\* Each tag kept suits what the ones before it make.
LEMMA KeptSuits ==
    ASSUME NEW F, Tidy(F), NEW K, Lists(K, F), NEW k \in 1..Len(K), K[k].type # "noop",
           NEW D, Part(D, K, k - 1, F), NEW E, E = Replay(D, K[k])
    PROVE  K[k] \in Tags /\ Suits(K[k], D, E) /\ Part(E, K, k, F)
<1> DEFINE tag == K[k]
           N == Len(F)
<1>1. /\ K \in Seq(Slots) /\ Matching(K, F) /\ NamedFirst(K) /\ Once(K) /\ Len(K) \in Nat
      /\ k \in 1..Len(K) /\ k \in Nat /\ k - 1 \in Nat
  BY DEF Lists
<1>2. /\ tag \in Tags /\ tag.type \in {"name", "struct"} /\ tag.id \in Nat /\ tag.val \in Nat
      /\ tag.id < N
      /\ tag.type = "name" => tag.val = F[tag.id + 1].name /\ tag.val # 0
      /\ tag.type = "struct" => tag.val = F[tag.id + 1].val
  <2>1. K[k] \in Slots
    BY <1>1
  <2> QED BY <1>1, <2>1 DEF Matching, Slots, NoTag, Tags
<1>3. /\ N \in Nat /\ N < NoId /\ NoId = 1023 /\ F \in Seq(Files)
      /\ \A i \in 1..N : F[i].name \in Nat \ {0} /\ F[i].val \in Nat
      /\ Ordered(NamesOf(F), N)
  BY TidyShort DEF NoId, Tidy
<1>4. /\ D \in Seq(Files) /\ Len(D) \in Nat /\ Len(D) <= N
      /\ \A i \in 1..Len(D) : /\ D[i].name = IF Had(K, k - 1, "name", i - 1) THEN F[i].name ELSE 0
                              /\ D[i].val = IF Had(K, k - 1, "struct", i - 1) THEN F[i].val ELSE 0
      /\ \A l \in 1..(k - 1) : K[l].type # "noop" => K[l].id < Len(D)
  BY DEF Part
<1>5. /\ E \in Seq(Files)
      /\ Len(E) = IF tag.id + 1 <= Len(D) THEN Len(D) ELSE tag.id + 1
      /\ \A i \in 1..Len(E) :
            /\ E[i].name = IF i = tag.id + 1 /\ tag.type = "name" THEN tag.val
                           ELSE IF i <= Len(D) THEN D[i].name ELSE 0
            /\ E[i].val = IF i = tag.id + 1 /\ tag.type = "struct" THEN tag.val
                          ELSE IF i <= Len(D) THEN D[i].val ELSE 0
  <2>1. Replays(E, D, tag)
    BY <1>2, <1>4, ReplaySteps, Zenon
  <2> QED BY <1>2, <2>1 DEF Replays
<1> HIDE DEF tag, N
\* Had with one tag more.
<1>6. ASSUME NEW type, NEW id
      PROVE  Had(K, k, type, id) <=> Had(K, k - 1, type, id) \/ (tag.type = type /\ tag.id = id)
  <2>1. 1..k = 1..(k - 1) \cup {k}
    BY <1>1
  <2> QED BY <2>1 DEF Had, Tagged, tag
<1>7. ~Had(K, k - 1, tag.type, tag.id)
  <2> SUFFICES ASSUME NEW l \in 1..(k - 1), Tagged(K, l, tag.type, tag.id) PROVE FALSE
    BY DEF Had
  <2>1. l \in 1..Len(K) /\ l # k
    BY <1>1
  <2>2. K[l].type = K[k].type /\ K[l].id = K[k].id /\ K[k].type # "noop"
    BY DEF Tagged, tag
  <2> QED BY <1>1, <2>1, <2>2, Zenon DEF Once
<1>8. ASSUME NEW type \in {"name", "struct"}, NEW id \in Nat, Had(K, k - 1, type, id)
      PROVE  id < Len(D)
  <2>1. PICK l \in 1..(k - 1) : Tagged(K, l, type, id)
    BY <1>8 DEF Had
  <2>2. K[l].type # "noop" /\ K[l].id = id
    BY <2>1 DEF Tagged
  <2> QED BY <1>4, <2>2
<1>9. ASSUME NEW i \in 1..Len(E)
      PROVE  /\ i \in 1..N /\ i - 1 \in Nat /\ (i - 1 = tag.id <=> i = tag.id + 1)
             /\ i <= Len(D) => i \in 1..Len(D)
             /\ ~(i <= Len(D)) => ~(i - 1 < Len(D))
  BY <1>2, <1>3, <1>4, <1>5
<1>10. ASSUME NEW i \in 1..Len(E)
       PROVE  /\ E[i].name = IF Had(K, k, "name", i - 1) THEN F[i].name ELSE 0
              /\ E[i].val = IF Had(K, k, "struct", i - 1) THEN F[i].val ELSE 0
  <2>1. /\ E[i].name = IF i = tag.id + 1 /\ tag.type = "name" THEN tag.val
                       ELSE IF i <= Len(D) THEN D[i].name ELSE 0
        /\ E[i].val = IF i = tag.id + 1 /\ tag.type = "struct" THEN tag.val
                      ELSE IF i <= Len(D) THEN D[i].val ELSE 0
    BY <1>5
  <2>2. i <= Len(D) => /\ D[i].name = IF Had(K, k - 1, "name", i - 1) THEN F[i].name ELSE 0
                       /\ D[i].val = IF Had(K, k - 1, "struct", i - 1) THEN F[i].val ELSE 0
    BY <1>4, <1>9
  <2>3. ~(i <= Len(D)) => ~Had(K, k - 1, "name", i - 1) /\ ~Had(K, k - 1, "struct", i - 1)
    BY <1>8, <1>9
  <2>4. /\ Had(K, k, "name", i - 1) <=> Had(K, k - 1, "name", i - 1) \/ (tag.type = "name" /\ tag.id = i - 1)
        /\ Had(K, k, "struct", i - 1) <=> Had(K, k - 1, "struct", i - 1) \/ (tag.type = "struct" /\ tag.id = i - 1)
    BY <1>6
  <2>5. i = tag.id + 1 => /\ tag.type = "name" => tag.val = F[i].name
                          /\ tag.type = "struct" => tag.val = F[i].val
    BY <1>2
  <2>6. i - 1 = tag.id <=> i = tag.id + 1
    BY <1>9
  <2> QED BY <2>1, <2>2, <2>3, <2>4, <2>5, <2>6
<1>11. Len(E) \in Nat /\ Len(E) <= N /\ tag.id < Len(E) /\ Len(D) <= Len(E)
  BY <1>2, <1>3, <1>4, <1>5
<1>12. \A l \in 1..k : K[l].type # "noop" => K[l].id < Len(E)
  <2>1. ASSUME NEW l \in 1..k, K[l].type # "noop" PROVE K[l].id < Len(E)
    <3>1. CASE l = k
      BY <1>11, <3>1 DEF tag
    <3>2. CASE l # k
      <4>1. l \in 1..(k - 1) /\ l \in 1..Len(K)
        BY <1>1, <3>2
      <4>2. K[l].id < Len(D) /\ K[l].id \in Nat
        BY <1>1, <1>4, <2>1, <4>1, SlotIds
      <4> QED BY <1>4, <1>11, <4>2
    <3> QED BY <3>1, <3>2
  <2> QED BY <2>1
<1>13. Part(E, K, k, F)
  BY <1>5, <1>10, <1>11, <1>12 DEF Part, N
<1>14. ASSUME tag.type = "name"
       PROVE  Ordered(NamesOf(E), Len(E)) /\ (tag.id < Len(D) => D[tag.id + 1].name = 0)
  <2>1. \A i, j \in 1..N : i < j => F[i].name < F[j].name
    BY DEF Tidy, N
  <2>2. \A i \in 1..Len(E) : NamesOf(E)[i] # 0 => NamesOf(E)[i] = F[i].name /\ i \in 1..N
    BY <1>9, <1>10 DEF NamesOf
  <2>3. Ordered(NamesOf(E), Len(E))
    BY <2>1, <2>2 DEF Ordered
  <2>4. ASSUME tag.id < Len(D) PROVE D[tag.id + 1].name = 0
    <3> DEFINE i == tag.id + 1
    <3>1. i \in 1..Len(D) /\ i - 1 = tag.id
      <4>1. tag.id \in Nat /\ Len(D) \in Nat
        BY <1>2, <1>4
      <4> QED BY <2>4, <4>1
    <3> HIDE DEF i
    <3>2. D[i].name = 0
      BY <1>4, <1>7, <1>14, <3>1
    <3> QED BY <3>2 DEF i
  <2> QED BY <2>3, <2>4
<1>15. ASSUME tag.type = "struct"
       PROVE  tag.id < Len(D) /\ D[tag.id + 1].name # 0
  <2>1. PICK l \in 1..Len(K) : l < k /\ Tagged(K, l, "name", tag.id)
    BY <1>1, <1>15 DEF NamedFirst, tag
  <2>2. l \in 1..(k - 1)
    BY <1>1, <2>1
  <2>3. Had(K, k - 1, "name", tag.id)
    BY <2>1, <2>2 DEF Had
  <2>4. tag.id < Len(D)
    BY <1>2, <1>8, <2>3
  <2> DEFINE i == tag.id + 1
  <2>5. i \in 1..Len(D) /\ i \in 1..N /\ i - 1 = tag.id
    <3>1. tag.id \in Nat /\ N \in Nat /\ Len(D) \in Nat /\ Len(D) <= N
      BY <1>2, <1>3, <1>4
    <3> QED BY <2>4, <3>1
  <2> HIDE DEF i
  <2>6. D[i].name = F[i].name
    BY <1>4, <2>3, <2>5
  <2>7. D[i].name # 0
    BY <1>3, <2>5, <2>6
  <2> QED BY <2>4, <2>7 DEF i
<1>16. Suits(tag, D, E)
  BY <1>2, <1>3, <1>11, <1>14, <1>15 DEF Suits
<1> QED BY <1>2, <1>13, <1>16 DEF tag

\* What a compaction writes reads as the files the log had.
LEMMA CompactedReads ==
    ASSUME NEW L, NEW F, Reads(L, F), Tidy(F)
    PROVE  Reads(Compacted(L), F)
<1> DEFINE K == Kept(L)
           N == Len(F)
<1>1. Lists(K, F)
  BY DEF Reads
<1>2. K \in Seq(Slots) /\ Len(K) \in Nat /\ Matching(K, F) /\ Covers(K, F) /\ Len(K) \in 0..Len(K)
  BY <1>1 DEF Lists
<1>3. F \in Seq(Files) /\ N \in Nat /\ \A i \in 1..N : F[i].name \in Nat \ {0} /\ F[i].val \in Nat
  BY TidyShort DEF Tidy
<1> HIDE DEF K, N
<1>4. PICK f : /\ f[0] = << >>
               /\ \A k \in 1..Len(K) : f[k] = WrittenStep(f[k - 1], K[k])
               /\ Written(K) = f[Len(K)]
  BY <1>2, WrittenRuns, Zenon
<1> DEFINE Well(k) == /\ Reads(f[k], Replayed(f[k])) /\ Ends(f[k], Replayed(f[k]))
                      /\ Part(Replayed(f[k]), K, k, F)
           S == { k \in Nat : k <= Len(K) => Well(k) }
<1>5. Well(0)
  <2>1. Reads(<< >>, << >>) /\ Ends(<< >>, << >>)
    BY ReadsNothing
  <2>2. Replayed(<< >>) = << >>
    BY <2>1 DEF Reads
  <2>3. Part(<< >>, K, 0, F)
    <3>1. << >> \in Seq(Files) /\ Len(<< >>) = 0
      OBVIOUS
    <3> QED BY <1>3, <3>1 DEF Part, N
  <2> QED BY <1>4, <2>1, <2>2, <2>3
<1>6. ASSUME NEW k \in 1..Len(K), Well(k - 1) PROVE Well(k)
  <2> DEFINE W == f[k - 1]
             D == Replayed(W)
             E == Replay(D, K[k])
  <2>1. Reads(W, D) /\ Ends(W, D) /\ Part(D, K, k - 1, F) /\ f[k] = WrittenStep(W, K[k])
    BY <1>4, <1>6
  <2> HIDE DEF W, D, E, Well
  <2>2. CASE K[k].type = "noop"
    <3>1. K[k] = NoTag
      <4>1. K[k] \in Slots
        BY <1>2
      <4> QED BY <2>2, <4>1 DEF Slots, Tags
    <3>2. f[k] = W
      BY <2>1, <3>1 DEF WrittenStep
    <3>3. \A id : \A type \in {"name", "struct"} : Had(K, k, type, id) <=> Had(K, k - 1, type, id)
      <4>1. 1..k = 1..(k - 1) \cup {k}
        BY <1>2
      <4> QED BY <2>2, <4>1 DEF Had, Tagged
    <3>4. \A l \in 1..k : l = k \/ l \in 1..(k - 1)
      BY <1>2
    <3>5. Part(D, K, k, F)
      BY <2>1, <2>2, <3>3, <3>4 DEF Part
    <3> QED BY <2>1, <3>2, <3>5 DEF Well, D
  <2>3. CASE K[k].type # "noop"
    <3>1. K[k] \in Tags /\ Suits(K[k], D, E) /\ Part(E, K, k, F)
      BY <1>1, <2>1, <2>3, KeptSuits, Zenon DEF E
    <3>2. K[k] # NoTag /\ K[k].type \in {"name", "struct"}
      BY <1>2, <2>3 DEF NoTag, Matching
    <3>3. f[k] = Append(W, K[k])
      BY <2>1, <3>2 DEF WrittenStep
    <3>4. Reads(f[k], E) /\ Ends(f[k], E)
      <4>1. E = Replay(D, K[k])
        BY DEF E
      <4>2. K[k].type = "name" => K[k].id < Len(D) \/ Ends(W, D)
        BY <2>1
      <4>3. /\ Reads(Append(W, K[k]), E)
            /\ K[k].type \in {"name", "struct"} /\ Ends(W, D) => Ends(Append(W, K[k]), E)
        BY <2>1, <3>1, <4>1, <4>2, ReadsAfter, Zenon
      <4> QED BY <2>1, <3>2, <3>3, <4>3
    <3>5. Replayed(f[k]) = E
      BY <3>4 DEF Reads
    <3> QED BY <3>1, <3>4, <3>5 DEF Well
  <2> QED BY <2>2, <2>3
<1>7. 0 \in S
  BY <1>5
<1>8. ASSUME NEW k \in Nat, k \in S PROVE k + 1 \in S
  <2> SUFFICES ASSUME k + 1 <= Len(K) PROVE Well(k + 1)
    OBVIOUS
  <2>1. k + 1 \in 1..Len(K) /\ (k + 1) - 1 = k /\ k <= Len(K)
    BY <1>2
  <2>2. Well((k + 1) - 1)
    BY <1>8, <2>1
  <2> HIDE DEF Well
  <2> QED BY <1>6, <2>1, <2>2
<1> HIDE DEF S
<1>9. Nat \subseteq S
  BY <1>7, <1>8, Induction
<1>10. Well(Len(K))
  BY <1>2, <1>9 DEF S
<1> DEFINE D == Replayed(f[Len(K)])
<1>11. Reads(f[Len(K)], D) /\ Part(D, K, Len(K), F)
  BY <1>10
<1> HIDE DEF D, Well
<1>12. D = F
  <2>1. /\ D \in Seq(Files) /\ Len(D) \in Nat /\ Len(D) <= N
        /\ \A i \in 1..Len(D) : /\ D[i].name = IF Had(K, Len(K), "name", i - 1) THEN F[i].name ELSE 0
                                /\ D[i].val = IF Had(K, Len(K), "struct", i - 1) THEN F[i].val ELSE 0
        /\ \A l \in 1..Len(K) : K[l].type # "noop" => K[l].id < Len(D)
    BY <1>11 DEF Part, N
  <2>2. ASSUME NEW i \in 1..N
        PROVE  /\ Had(K, Len(K), "name", i - 1)
               /\ F[i].val # 0 => Had(K, Len(K), "struct", i - 1)
    BY <1>2, <1>3, <2>2 DEF Covers, Had, N
  <2>3. Len(D) = N
    <3>1. CASE N = 0
      BY <2>1, <3>1
    <3>2. CASE N # 0
      <4>1. N \in 1..N
        BY <1>3, <3>2
      <4>2. PICK l \in 1..Len(K) : Tagged(K, l, "name", N - 1)
        BY <2>2, <4>1 DEF Had
      <4>3. N - 1 < Len(D)
        BY <2>1, <4>2 DEF Tagged
      <4> QED BY <1>3, <2>1, <4>3
    <3> QED BY <3>1, <3>2
  <2>4. ASSUME NEW i \in 1..Len(D) PROVE D[i] = F[i]
    <3>1. D[i] \in Files /\ F[i] \in Files /\ i \in 1..N
      BY <1>3, <2>1, <2>3 DEF N
    <3>2. D[i].name = F[i].name /\ D[i].val = F[i].val
      BY <2>1, <2>2, <3>1
    <3> QED BY <3>1, <3>2 DEF Files
  <2> QED BY <1>3, <2>1, <2>3, <2>4, SameTags DEF N
<1> QED BY <1>4, <1>11, <1>12 DEF Compacted, K

-----------------------------------------------------------------------------
(* The pair of blocks                                                      *)

Revisions == 0..(Revs - 1)
Blocks == [rev : Revisions, commits : Seq(Logs), tail : {"erased", "junk"}]
MDirs  == [cur : 0..1, n : Nat, rev : Revisions, erased : BOOLEAN]

\* The commits of the block i are the directory: the other block has none, or is
\* one revision older.
Current(fl, i) == /\ fl \in [0..1 -> Blocks] /\ i \in 0..1 /\ Valid(fl[i])
                  /\ Valid(fl[1 - i]) => fl[i].rev = (fl[1 - i].rev + 1) % Revs

\* The block i has a good log of the files F.
Clean(fl, i, F) == Current(fl, i) /\ Reads(FlattenSeq(fl[i].commits), F) /\ Tidy(F)

\* The next revision is the later one, also when the counter wraps.
LEMMA LaterNext ==
    ASSUME NEW a \in Revisions
    PROVE  /\ (a + 1) % Revs \in Revisions
           /\ Later((a + 1) % Revs, a) /\ ~Later(a, (a + 1) % Revs)
<1>1. Revs \in Nat /\ Revs >= 3 /\ a \in 0..(Revs - 1)
  BY DirAssumption DEF Revisions
<1> DEFINE half == (Revs - 1) \div 2
<1>2. half \in Int /\ 1 <= half /\ half < Revs - 1
  BY <1>1
<1> HIDE DEF half
<1>3. CASE a + 1 < Revs
  <2>1. (a + 1) % Revs = a + 1
    BY <1>1, <1>3
  <2>2. (a + 1 - a) % Revs = 1
    <3>1. a + 1 - a = 1 /\ 1 % Revs = 1
      BY <1>1
    <3> QED BY <3>1
  <2>3. (a - (a + 1)) % Revs = Revs - 1
    <3>1. a - (a + 1) = -1 /\ (-1) % Revs = Revs - 1
      BY <1>1
    <3> QED BY <3>1
  <2> QED BY <1>1, <1>2, <1>3, <2>1, <2>2, <2>3 DEF Later, Revisions, half
<1>4. CASE a + 1 = Revs
  <2>1. (a + 1) % Revs = 0
    BY <1>1, <1>4
  <2>2. (0 - a) % Revs = 1
    <3>1. 0 - a = 1 - Revs /\ (1 - Revs) % Revs = 1
      BY <1>1, <1>4
    <3> QED BY <3>1
  <2>3. (a - 0) % Revs = Revs - 1
    <3>1. a - 0 = Revs - 1 /\ (Revs - 1) % Revs = Revs - 1
      BY <1>1, <1>4
    <3> QED BY <3>1
  <2> QED BY <1>1, <1>2, <2>1, <2>2, <2>3 DEF Later, Revisions, half
<1> QED BY <1>1, <1>3, <1>4

\* lfs_dir_fetchmatch takes that block.
LEMMA FetchCurrent ==
    ASSUME NEW fl, NEW i, Current(fl, i)
    PROVE  /\ Fetch(fl).cur = i /\ Fetch(fl).n = Len(fl[i].commits) /\ Fetch(fl).rev = fl[i].rev
           /\ Fetch(fl).erased <=> fl[i].tail = "erased"
           /\ Fetch(fl) \in MDirs
           /\ ~Corrupt(fl)
<1> DEFINE r   == IF Later(fl[1].rev, fl[0].rev) THEN 1 ELSE 0
           cur == IF Valid(fl[r]) THEN r ELSE 1 - r
<1>1. /\ i \in 0..1 /\ fl[0] \in Blocks /\ fl[1] \in Blocks /\ fl[i] \in Blocks
      /\ fl[0].rev \in Revisions /\ fl[1].rev \in Revisions
  BY DEF Current, Blocks
<1>2. cur = i
  <2>1. CASE Valid(fl[1 - i])
    <3>1. fl[i].rev = (fl[1 - i].rev + 1) % Revs
      BY <2>1 DEF Current
    <3>2. CASE i = 0
      <4>1. fl[0].rev = (fl[1].rev + 1) % Revs /\ Valid(fl[0])
        BY <3>1, <3>2 DEF Current
      <4>2. ~Later(fl[1].rev, fl[0].rev)
        BY <1>1, <4>1, LaterNext
      <4> QED BY <3>2, <4>1, <4>2
    <3>3. CASE i = 1
      <4>1. fl[1].rev = (fl[0].rev + 1) % Revs /\ Valid(fl[1])
        BY <3>1, <3>3 DEF Current
      <4>2. Later(fl[1].rev, fl[0].rev)
        BY <1>1, <4>1, LaterNext
      <4> QED BY <3>3, <4>1, <4>2
    <3> QED BY <1>1, <3>2, <3>3
  <2>2. CASE ~Valid(fl[1 - i])
    <3>1. Valid(fl[i]) /\ r \in {0, 1}
      BY DEF Current
    <3>2. r = i \/ r = 1 - i
      BY <1>1, <3>1
    <3> HIDE DEF r
    <3>3. i # 1 - i /\ 1 - (1 - i) = i
      BY <1>1
    <3> QED BY <2>2, <3>1, <3>2, <3>3
  <2> QED BY <2>1, <2>2
<1>3. Fetch(fl) = [cur |-> cur, n |-> Len(fl[cur].commits), rev |-> fl[cur].rev,
                   erased |-> fl[cur].tail = "erased"]
  BY Zenon DEF Fetch
<1> HIDE DEF cur, r
<1>4. Len(fl[i].commits) \in Nat /\ fl[i].rev \in Revisions
  BY <1>1 DEF Blocks
<1>5. ~Corrupt(fl)
  BY <1>1 DEF Corrupt, Current
<1> DEFINE e == fl[i].tail = "erased"
<1>6. Fetch(fl) = [cur |-> i, n |-> Len(fl[i].commits), rev |-> fl[i].rev, erased |-> e]
  BY <1>2, <1>3, Zenon
<1>7. e \in BOOLEAN
  OBVIOUS
<1> HIDE DEF e
<1>8. /\ Fetch(fl).cur = i /\ Fetch(fl).n = Len(fl[i].commits) /\ Fetch(fl).rev = fl[i].rev
      /\ Fetch(fl).erased <=> e
  BY <1>6, <1>7
<1>9. Fetch(fl) \in MDirs
  BY <1>1, <1>4, <1>6, <1>7 DEF MDirs
<1> QED BY <1>5, <1>8, <1>9 DEF e

\* An mdir that has all commits of its block has its log.
LEMMA WholeLog ==
    ASSUME NEW fl \in [0..1 -> Blocks], NEW mm, mm.cur \in 0..1, mm.n = Len(fl[mm.cur].commits)
    PROVE  /\ SubSeq(fl[mm.cur].commits, 1, mm.n) = fl[mm.cur].commits
           /\ Log(fl, mm) = FlattenSeq(fl[mm.cur].commits)
<1> DEFINE c == fl[mm.cur].commits
<1>1. c \in Seq(Logs)
  <2>1. fl[mm.cur] \in Blocks
    OBVIOUS
  <2> QED BY <2>1 DEF Blocks
<1> HIDE DEF c
<1>2. SubSeq(c, 1, Len(c)) = c
  BY <1>1
<1>3. mm.n = Len(c)
  BY DEF c
<1>4. SubSeq(c, 1, mm.n) = c
  BY <1>2, <1>3
<1>5. Log(fl, mm) = FlattenSeq(SubSeq(c, 1, mm.n))
  BY Zenon DEF Log, c
<1> QED BY <1>4, <1>5 DEF c

\* A program finds the files of the good log.
LEMMA CleanDecoded ==
    ASSUME NEW fl, NEW i, NEW F, Clean(fl, i, F)
    PROVE  /\ ~Corrupt(fl) /\ Fetch(fl).cur = i /\ Fetch(fl) \in MDirs
           /\ Log(fl, Fetch(fl)) = FlattenSeq(fl[i].commits)
           /\ Reads(Log(fl, Fetch(fl)), F) /\ Replayed(Log(fl, Fetch(fl))) = F
           /\ Decoded(fl) = Contents(F)
<1>1. Current(fl, i) /\ fl \in [0..1 -> Blocks] /\ i \in 0..1 /\ Reads(FlattenSeq(fl[i].commits), F)
  BY DEF Clean, Current
<1>2. /\ ~Corrupt(fl) /\ Fetch(fl).cur = i /\ Fetch(fl).n = Len(fl[i].commits)
      /\ Fetch(fl) \in MDirs
  BY <1>1, FetchCurrent, Zenon
<1>3. Log(fl, Fetch(fl)) = FlattenSeq(fl[i].commits)
  BY <1>1, <1>2, WholeLog
<1>4. Replayed(Log(fl, Fetch(fl))) = F
  BY <1>1, <1>3 DEF Reads
<1>5. Decoded(fl) = Contents(F)
  <2> DEFINE R == Replayed(Log(fl, Fetch(fl)))
  <2>1. Decoded(fl) = [n \in Names |-> IF Ids(R, n) = {} THEN Absent
                                       ELSE R[CHOOSE j \in Ids(R, n) : TRUE].val]
    BY <1>2, Zenon DEF Decoded, Ids
  <2> QED BY <1>4, <2>1, Zenon DEF Contents
<1> QED BY <1>1, <1>2, <1>3, <1>4, <1>5

\* Nothing but the tail of the directory's block, and a cut of the other.
Spared(fl2, fl, i) ==
    /\ fl2 \in [0..1 -> Blocks]
    /\ fl2[i].commits = fl[i].commits /\ fl2[i].rev = fl[i].rev
    /\ fl2[1 - i] = fl[1 - i] \/ fl2[1 - i].commits = << >>

\* That does nothing to the directory.
LEMMA CleanKept ==
    ASSUME NEW fl, NEW i, NEW F, Clean(fl, i, F), NEW fl2, Spared(fl2, fl, i)
    PROVE  Clean(fl2, i, F)
<1>1. Valid(fl[i]) /\ i \in 0..1 /\ fl2 \in [0..1 -> Blocks]
  BY DEF Clean, Current, Spared
<1>2. Valid(fl2[i])
  BY <1>1 DEF Valid, Spared
<1>3. Valid(fl2[1 - i]) => fl2[i].rev = (fl2[1 - i].rev + 1) % Revs
  BY DEF Spared, Valid, Clean, Current
<1>4. Reads(FlattenSeq(fl2[i].commits), F) /\ Tidy(F)
  BY DEF Clean, Spared
<1> QED BY <1>1, <1>2, <1>3, <1>4 DEF Clean, Current

-----------------------------------------------------------------------------
(* The changes of a directory                                              *)

\* An mdir that is up to date.
Follows(fl, mm, F) ==
    /\ Clean(fl, mm.cur, F) /\ mm \in MDirs
    /\ mm.n = Len(fl[mm.cur].commits) /\ mm.rev = fl[mm.cur].rev

\* A commit of the tags as, which makes the change of the files F, so that they are G.
Underway(fl, mm, as, change, F, G) ==
    /\ Follows(fl, mm, F)
    /\ Leads(Log(fl, mm), F, as, G) /\ Tidy(G)
    /\ Brings(F, change, G)

\* Its log is good.
LEMMA FollowsLog ==
    ASSUME NEW fl, NEW mm, NEW F, Follows(fl, mm, F)
    PROVE  /\ fl \in [0..1 -> Blocks] /\ mm.cur \in 0..1 /\ Tidy(F)
           /\ Log(fl, mm) = FlattenSeq(fl[mm.cur].commits) /\ Log(fl, mm) = Log(fl, Fetch(fl))
           /\ SubSeq(fl[mm.cur].commits, 1, mm.n) = fl[mm.cur].commits
           /\ Reads(Log(fl, mm), F) /\ Log(fl, mm) \in Seq(Tags)
<1>1. /\ Clean(fl, mm.cur, F) /\ fl \in [0..1 -> Blocks] /\ mm.cur \in 0..1
      /\ mm.n = Len(fl[mm.cur].commits) /\ Tidy(F)
  BY DEF Follows, Clean, Current
<1>2. /\ Log(fl, mm) = FlattenSeq(fl[mm.cur].commits)
      /\ SubSeq(fl[mm.cur].commits, 1, mm.n) = fl[mm.cur].commits
  BY <1>1, WholeLog
<1>3. Log(fl, Fetch(fl)) = FlattenSeq(fl[mm.cur].commits)
  BY <1>1, CleanDecoded, Zenon
<1>4. Reads(Log(fl, mm), F)
  BY <1>1, <1>2 DEF Clean
<1>5. Log(fl, mm) \in Seq(Tags)
  BY <1>4 DEF Reads, Logs
<1> QED BY <1>1, <1>2, <1>3, <1>4, <1>5, Zenon

\* What lfs_dir_fetch makes is up to date.
LEMMA FetchFollows ==
    ASSUME NEW fl, NEW i, NEW F, Clean(fl, i, F)
    PROVE  /\ Follows(fl, Fetch(fl), F) /\ Fetch(fl).cur = i
           /\ Fetch(fl).erased => fl[Fetch(fl).cur].tail = "erased"
<1>1. /\ Fetch(fl).cur = i /\ Fetch(fl).n = Len(fl[i].commits) /\ Fetch(fl).rev = fl[i].rev
      /\ Fetch(fl).erased <=> fl[i].tail = "erased"
      /\ Fetch(fl) \in MDirs
  <2>1. Current(fl, i)
    BY DEF Clean
  <2> QED BY <2>1, FetchCurrent, Zenon
<1> QED BY <1>1 DEF Follows

\* t is s with e behind.
Longer(S, s, t, e) == /\ s \in Seq(S) /\ t \in Seq(S) /\ e \in S
                      /\ Len(t) = Len(s) + 1 /\ t[Len(t)] = e
                      /\ \A i \in 1..Len(s) : t[i] = s[i]

\* Append makes it.
LEMMA AppendLonger ==
    ASSUME NEW S, NEW s, NEW t, NEW e, Longer(S, s, t, e)
    PROVE  Append(s, e) = t
<1> DEFINE u == Append(s, e)
<1>1. /\ s \in Seq(S) /\ t \in Seq(S) /\ e \in S
      /\ Len(t) = Len(s) + 1 /\ t[Len(t)] = e
      /\ \A i \in 1..Len(s) : t[i] = s[i]
  BY DEF Longer
<1>2. u \in Seq(S) /\ Len(u) = Len(t) /\ Len(s) \in Nat
  BY <1>1
<1>3. \A i \in 1..Len(u) : u[i] = t[i]
  BY <1>1
<1> HIDE DEF u
<1>4. u = t
  BY <1>1, <1>2, <1>3, SameTags
<1> QED BY <1>4 DEF u

\* One tag after the other makes a list of tags.
LEMMA TagList ==
    ASSUME NEW S, NEW a \in S, NEW b \in S, NEW c \in S, NEW d \in S
    PROVE  /\ Append(<< >>, a) = << a >>
           /\ Append(Append(Append(<< >>, a), b), c) = << a, b, c >>
           /\ Append(Append(Append(Append(<< >>, a), b), c), d) = << a, b, c, d >>
<1>1. Append(<< >>, a) = << a >>
  OBVIOUS
<1>2. Append(<< a >>, b) = << a, b >>
  <2>1. Longer(S, << a >>, << a, b >>, b)
    BY DEF Longer
  <2> QED BY <2>1, AppendLonger, Zenon
<1>3. Append(<< a, b >>, c) = << a, b, c >>
  <2>1. Longer(S, << a, b >>, << a, b, c >>, c)
    BY DEF Longer
  <2> QED BY <2>1, AppendLonger, Zenon
<1>4. Append(<< a, b, c >>, d) = << a, b, c, d >>
  <2>1. Longer(S, << a, b, c >>, << a, b, c, d >>, d)
    BY DEF Longer
  <2> QED BY <2>1, AppendLonger, Zenon
<1> QED BY <1>1, <1>2, <1>3, <1>4, Zenon

\* No change at all.
LEMMA NothingUnderway ==
    ASSUME NEW fl, NEW mm, NEW F, Follows(fl, mm, F)
    PROVE  Underway(fl, mm, << >>, NoChange, F, F)
<1>1. Reads(Log(fl, mm), F) /\ Tidy(F)
  BY FollowsLog
<1>2. Leads(Log(fl, mm), F, << >>, F)
  BY <1>1, LeadsNowhere, Zenon
<1>3. Brings(F, NoChange, F)
  <2>1. DOMAIN NoChange = {}
    BY DEF NoChange
  <2>2. Contents(F) = [n \in Names |-> Contents(F)[n]]
    BY DEF Contents
  <2> QED BY <2>1, <2>2 DEF Made, Brings
<1> QED BY <1>1, <1>2, <1>3 DEF Underway

\* A new file is created empty at its place.
LEMMA CreateUnderway ==
    ASSUME NEW fl, NEW mm, NEW F, Follows(fl, mm, F), NEW n \in Names,
           ~Find(Log(fl, mm), n).found
    PROVE  \E G : /\ Underway(fl, mm, CreateAttrs(Log(fl, mm), n), Change(n, 0), F, G)
                  /\ StandsFor(Find(Log(fl, mm), n).id, G, n)
<1> DEFINE L == Log(fl, mm)
           p == Find(L, n).id
           G == With(F, p, n, 0)
<1>1. Reads(L, F) /\ Tidy(F) /\ n \in Nat \ {0} /\ 0 \in Values \cup {0}
  BY FollowsLog, DirAssumption
<1>2. Spot(p, n, F)
  BY <1>1, FindRight, Zenon
<1>3. Leads(L, F, << >>, F)
  BY <1>1, LeadsNowhere, Zenon
<1>4. Tidy(G) /\ Len(G) = Len(F) + 1
  BY <1>1, <1>2, TidyWith, Zenon
<1>5. Brings(F, Change(n, 0), G)
  BY <1>1, <1>2, ContentsWith, Zenon
<1>6. Leads(L, F, CreateAttrs(L, n), G)
  <2>1. Leads(L, F, Append(Append(Append(<< >>, Tag("create", p, 0)), Tag("name", p, n)),
                           Tag("struct", p, 0)), G)
    BY <1>1, <1>2, <1>3, LeadsWith, Zenon
  <2>2. CreateAttrs(L, n) = << Tag("create", p, 0), Tag("name", p, n), Tag("struct", p, 0) >>
    BY Zenon DEF CreateAttrs
  <2>3. p \in Nat /\ n \in Nat
    BY <1>1, <1>2, TidyShort DEF Spot
  <2>4. /\ Tag("create", p, 0) \in Tags /\ Tag("name", p, n) \in Tags
        /\ Tag("struct", p, 0) \in Tags
    BY <2>3 DEF Tag, Tags
  <2> QED BY <2>1, <2>2, <2>4, TagList, Zenon
<1>7. StandsFor(p, G, n)
  <2>1. p \in 0..Len(F) /\ Len(F) \in Nat
    BY <1>1, <1>2, TidyShort DEF Spot
  <2>2. p + 1 \in 1..(Len(F) + 1) /\ ~(p + 1 <= p) /\ p \in 0..(Len(G) - 1)
    BY <1>4, <2>1
  <2>3. G[p + 1].name = n
    BY <2>2 DEF With
  <2> HIDE DEF G
  <2> QED BY <2>2, <2>3 DEF StandsFor
<1> HIDE DEF G
<1>8. Underway(fl, mm, CreateAttrs(L, n), Change(n, 0), F, G)
  BY <1>4, <1>5, <1>6 DEF Underway
<1> QED BY <1>7, <1>8

\* A file is removed.
LEMMA RemoveUnderway ==
    ASSUME NEW fl, NEW mm, NEW F, Follows(fl, mm, F), NEW n \in Names,
           Find(Log(fl, mm), n).found
    PROVE  \E G : Underway(fl, mm, RemoveAttrs(Log(fl, mm), n), Change(n, Absent), F, G)
<1> DEFINE L == Log(fl, mm)
           p == Find(L, n).id
           G == Without(F, p)
<1>1. Reads(L, F) /\ Tidy(F) /\ n \in Nat \ {0}
  BY FollowsLog, DirAssumption
<1>2. p \in 0..(Len(F) - 1) /\ F[p + 1].name = n
  BY <1>1, FindRight, Zenon
<1>3. Leads(L, F, << >>, F)
  BY <1>1, LeadsNowhere, Zenon
<1>4. Tidy(G)
  BY <1>1, <1>2, TidyWithout, Zenon
<1>5. Brings(F, Change(n, Absent), G)
  <2>1. Brings(F, Change(F[p + 1].name, Absent), G)
    BY <1>1, <1>2, ContentsWithout, Zenon
  <2> QED BY <1>2, <2>1, Zenon
<1>6. Leads(L, F, RemoveAttrs(L, n), G)
  <2>1. Leads(L, F, Append(<< >>, Tag("delete", p, 0)), G)
    BY <1>1, <1>2, <1>3, LeadsWithout, Zenon
  <2>2. RemoveAttrs(L, n) = << Tag("delete", p, 0) >>
    BY Zenon DEF RemoveAttrs
  <2>3. Append(<< >>, Tag("delete", p, 0)) = << Tag("delete", p, 0) >>
    OBVIOUS
  <2> QED BY <2>1, <2>2, <2>3, Zenon
<1> HIDE DEF G
<1>7. Underway(fl, mm, RemoveAttrs(L, n), Change(n, Absent), F, G)
  BY <1>4, <1>5, <1>6 DEF Underway
<1> QED BY <1>7

\* A file is written.
LEMMA WriteUnderway ==
    ASSUME NEW fl, NEW mm, NEW F, Follows(fl, mm, F), NEW n, NEW v \in Values,
           NEW id \in Nat, StandsFor(id, F, n)
    PROVE  \E G : Underway(fl, mm, << Tag("struct", id, v) >>, Change(n, v), F, G)
<1> DEFINE L == Log(fl, mm)
           G == Rewritten(F, id, v)
<1>1. Reads(L, F) /\ Tidy(F) /\ v \in Values \cup {0}
  BY FollowsLog
<1>2. id \in 0..(Len(F) - 1) /\ F[id + 1].name = n
  BY DEF StandsFor
<1>3. Leads(L, F, << >>, F)
  BY <1>1, LeadsNowhere, Zenon
<1>4. Tidy(G)
  BY <1>1, <1>2, TidyRewritten, Zenon
<1>5. Brings(F, Change(n, v), G)
  <2>1. Brings(F, Change(F[id + 1].name, v), G)
    BY <1>1, <1>2, ContentsRewritten, Zenon
  <2> QED BY <1>2, <2>1, Zenon
<1>6. Leads(L, F, << Tag("struct", id, v) >>, G)
  <2>1. Leads(L, F, Append(<< >>, Tag("struct", id, v)), G)
    BY <1>1, <1>2, <1>3, LeadsRewritten, Zenon
  <2>2. Append(<< >>, Tag("struct", id, v)) = << Tag("struct", id, v) >>
    OBVIOUS
  <2> QED BY <2>1, <2>2, Zenon
<1> HIDE DEF G
<1>7. Underway(fl, mm, << Tag("struct", id, v) >>, Change(n, v), F, G)
  BY <1>4, <1>5, <1>6 DEF Underway
<1> QED BY <1>7

\* A file is renamed: its contents get the new name, and the old one goes.
LEMMA RenameUnderway ==
    ASSUME NEW fl, NEW mm, NEW F, Follows(fl, mm, F), NEW n \in Names, NEW n2 \in Names, n # n2,
           Find(Log(fl, mm), n).found, ~Find(Log(fl, mm), n2).found
    PROVE  \E G : Underway(fl, mm, RenameAttrs(Log(fl, mm), n, n2),
                           [x \in {n, n2} |-> IF x = n THEN Absent ELSE Contents(F)[n]], F, G)
<1> DEFINE L == Log(fl, mm)
           q == Find(L, n).id
           p == Find(L, n2).id
           r == IF p <= q THEN q + 1 ELSE q
           v == F[q + 1].val
           H == With(F, p, n2, v)
           G == Without(H, r)
           N == Len(F)
           change == [x \in {n, n2} |-> IF x = n THEN Absent ELSE Contents(F)[n]]
<1>1. /\ Reads(L, F) /\ Tidy(F) /\ n \in Nat \ {0} /\ n2 \in Nat \ {0} /\ N \in Nat
      /\ Holds(Got(L, "struct"), F)
  <2>1. n \in Nat \ {0} /\ n2 \in Nat \ {0}
    BY DirAssumption
  <2>2. Reads(L, F) /\ Tidy(F)
    BY FollowsLog, Zenon
  <2> QED BY <2>1, <2>2, TidyShort DEF Reads
<1>2. q \in 0..(N - 1) /\ F[q + 1].name = n
  BY <1>1, FindRight, Zenon
<1>3. Spot(p, n2, F) /\ p \in 0..N
  BY <1>1, FindRight, Zenon DEF Spot
<1>4. q + 1 \in 1..N /\ v \in Values \cup {0} /\ q \in Nat /\ q < N
  BY <1>1, <1>2 DEF Tidy
<1>5. Get(L, "struct", q).val = v
  BY <1>1, <1>4 DEF Get, Holds
<1>6. Leads(L, F, << >>, F)
  BY <1>1, LeadsNowhere, Zenon
<1> HIDE DEF p, q, v
<1>7. Tidy(H) /\ Len(H) = N + 1
  BY <1>1, <1>3, <1>4, TidyWith, Zenon
<1>8. Brings(F, Change(n2, v), H)
  BY <1>1, <1>3, <1>4, ContentsWith, Zenon
<1> DEFINE t1 == Tag("create", p, 0)
           t2 == Tag("name", p, n2)
           t3 == Tag("struct", p, v)
           t4 == Tag("delete", r, 0)
<1>9. Leads(L, F, Append(Append(Append(<< >>, t1), t2), t3), H)
  BY <1>1, <1>3, <1>4, <1>6, LeadsWith, Zenon
<1>10. r \in 0..(Len(H) - 1) /\ H[r + 1].name = n
  <2>1. CASE p <= q
    <3> DEFINE i == r + 1
    <3>1. i \in 1..(N + 1) /\ ~(i <= p) /\ i # p + 1 /\ i - 1 = q + 1
      BY <1>3, <1>4, <2>1
    <3>2. r \in 0..N
      BY <1>1, <1>3, <1>4, <2>1
    <3> HIDE DEF r, i
    <3>3. H[i] = F[q + 1]
      BY <3>1 DEF With
    <3>4. H[r + 1] = F[q + 1]
      BY <3>3, Zenon DEF i
    <3> HIDE DEF H
    <3>5. r \in 0..(Len(H) - 1)
      BY <1>1, <1>7, <3>2
    <3> QED BY <1>2, <3>4, <3>5
  <2>2. CASE ~(p <= q)
    <3>1. r = q /\ q + 1 \in 1..(N + 1) /\ q + 1 <= p
      BY <1>3, <1>4, <2>2
    <3>2. H[q + 1] = F[q + 1]
      BY <3>1 DEF With
    <3>3. q \in 0..N
      BY <1>1, <1>4
    <3> QED BY <1>2, <1>7, <3>1, <3>2, <3>3
  <2> QED BY <2>1, <2>2
<1>11. RenameAttrs(L, n, n2) = << t1, t2, t3, t4 >>
  BY <1>5, Zenon DEF RenameAttrs, p, q
<1> HIDE DEF r, H
<1>12. Leads(L, F, Append(Append(Append(Append(<< >>, t1), t2), t3), t4), G)
  BY <1>1, <1>7, <1>9, <1>10, LeadsWithout, Zenon
<1>13. Leads(L, F, RenameAttrs(L, n, n2), G)
  <2>1. r \in Nat /\ p \in Nat /\ v \in Nat /\ n2 \in Nat
    BY <1>1, <1>3, <1>4, <1>7, <1>10, DirAssumption
  <2>2. t1 \in Tags /\ t2 \in Tags /\ t3 \in Tags /\ t4 \in Tags
    BY <2>1 DEF Tag, Tags
  <2> HIDE DEF t1, t2, t3, t4, G
  <2>3. Append(Append(Append(Append(<< >>, t1), t2), t3), t4) = << t1, t2, t3, t4 >>
    BY <2>2, TagList
  <2> HIDE DEF L
  <2> QED BY <1>11, <1>12, <2>3
<1>14. Tidy(G)
  BY <1>7, <1>10, TidyWithout, Zenon
<1>15. Brings(F, change, G)
  <2>1. Brings(H, Change(n, Absent), G)
    <3>1. Brings(H, Change(H[r + 1].name, Absent), G)
      BY <1>7, <1>10, ContentsWithout, Zenon
    <3> QED BY <1>10, <3>1, Zenon
  <2>2. Contents(F)[n] = v
    BY <1>1, <1>2, <1>4, ContentsRight DEF v
  <2> HIDE DEF G
  <2>3. ASSUME NEW x \in Names
        PROVE  Contents(G)[x] = IF x \in DOMAIN change THEN change[x] ELSE Contents(F)[x]
    <3>1. Contents(G)[x] = IF x = n THEN Absent ELSE Contents(H)[x]
      BY <2>1 DEF Made, Brings, Change
    <3>2. Contents(H)[x] = IF x = n2 THEN v ELSE Contents(F)[x]
      BY <1>8 DEF Made, Brings, Change
    <3> QED BY <2>2, <3>1, <3>2
  <2>4. Contents(G) = [x \in Names |-> Contents(G)[x]]
    BY DEF Contents
  <2> HIDE DEF change
  <2> QED BY <2>3, <2>4, Zenon DEF Made, Brings
<1> HIDE DEF G, change, L
<1>16. Underway(fl, mm, RenameAttrs(L, n, n2), change, F, G)
  BY <1>13, <1>14, <1>15 DEF Underway, L
<1> QED BY <1>16 DEF change, L

-----------------------------------------------------------------------------
(* What a commit does to the flash                                         *)

\* One block of the pair is another one.
Swapped(fl2, fl, i, b) == /\ fl2 \in [0..1 -> Blocks] /\ i \in 0..1
                          /\ fl2[i] = b /\ fl2[1 - i] = fl[1 - i]

\* The tags are appended behind the last commit.
LEMMA AppendedClean ==
    ASSUME NEW fl, NEW mm, NEW as, NEW change, NEW F, NEW G, Underway(fl, mm, as, change, F, G),
           NEW b \in Blocks, b.rev = fl[mm.cur].rev, b.tail = fl[mm.cur].tail,
           b.commits = Append(SubSeq(fl[mm.cur].commits, 1, mm.n), as),
           NEW fl2, Swapped(fl2, fl, mm.cur, b)
    PROVE  Clean(fl2, mm.cur, G) /\ Len(fl2[mm.cur].commits) = mm.n + 1
<1> DEFINE c == fl[mm.cur].commits
           i == mm.cur
<1>1. /\ fl \in [0..1 -> Blocks] /\ i \in 0..1 /\ fl[i] \in Blocks /\ Current(fl, i)
      /\ c \in Seq(Logs) /\ mm.n = Len(c) /\ as \in Logs
      /\ Reads(Log(fl, mm) \o as, G) /\ Tidy(G)
      /\ SubSeq(c, 1, mm.n) = c /\ Log(fl, mm) = FlattenSeq(c)
  <2>1. Follows(fl, mm, F) /\ as \in Logs /\ Reads(Log(fl, mm) \o as, G) /\ Tidy(G)
    BY DEF Underway, Leads
  <2>2. /\ fl \in [0..1 -> Blocks] /\ mm.cur \in 0..1
        /\ Log(fl, mm) = FlattenSeq(fl[mm.cur].commits)
        /\ SubSeq(fl[mm.cur].commits, 1, mm.n) = fl[mm.cur].commits
    BY <2>1, FollowsLog, Zenon
  <2>3. mm.n = Len(c) /\ Current(fl, i)
    BY <2>1 DEF Follows, Clean
  <2>4. fl[i] \in Blocks
    BY <2>2
  <2>5. c \in Seq(Logs)
    BY <2>4 DEF Blocks
  <2> QED BY <2>1, <2>2, <2>3, <2>4, <2>5
<1>2. b.commits = Append(c, as)
  BY <1>1
<1> HIDE DEF c
<1>3. FlattenSeq(b.commits) = Log(fl, mm) \o as
  BY <1>1, <1>2, FlatAppend
<1>4. Len(b.commits) = mm.n + 1 /\ b.commits # << >>
  <2>1. Len(Append(c, as)) = Len(c) + 1 /\ Len(c) \in Nat
    BY <1>1
  <2>2. Len(Append(c, as)) # 0 /\ Len(<< >>) = 0
    BY <2>1
  <2> QED BY <1>1, <1>2, <2>1, <2>2
<1> HIDE DEF i
<1>5. fl2 \in [0..1 -> Blocks] /\ fl2[i] = b /\ fl2[1 - i] = fl[1 - i]
  BY DEF Swapped, i
<1>6. Current(fl2, i)
  <2>1. Valid(fl[1 - i]) => fl[i].rev = (fl[1 - i].rev + 1) % Revs
    BY <1>1 DEF Current
  <2>2. b.rev = fl[i].rev
    BY DEF i
  <2> QED BY <1>1, <1>4, <1>5, <2>1, <2>2 DEF Current, Valid
<1>7. Reads(FlattenSeq(fl2[i].commits), G)
  BY <1>1, <1>3, <1>5
<1> QED BY <1>1, <1>4, <1>5, <1>6, <1>7 DEF Clean, i

\* The files G that the log L reads as, compacted into a block b.
Programmed(L, G, fl, i, b) ==
    /\ Reads(L, G) /\ Tidy(G) /\ fl \in [0..1 -> Blocks] /\ i \in 0..1
    /\ b \in Blocks /\ b.commits = << Compacted(L) >>
    /\ Valid(fl[i]) => b.rev = (fl[i].rev + 1) % Revs

\* It is the directory when it takes the place of the other block.
LEMMA ProgrammedClean ==
    ASSUME NEW L, NEW G, NEW fl, NEW i, NEW b, Programmed(L, G, fl, i, b),
           NEW fl2, Swapped(fl2, fl, 1 - i, b)
    PROVE  Clean(fl2, 1 - i, G) /\ Len(fl2[1 - i].commits) = 1
<1> DEFINE C == Compacted(L)
           o == 1 - i
<1>1. Reads(C, G) /\ Tidy(G)
  <2>1. Reads(L, G) /\ Tidy(G)
    BY DEF Programmed
  <2> QED BY <2>1, CompactedReads, Zenon
<1>2. C \in Logs
  BY <1>1 DEF Reads
<1> HIDE DEF C
<1>3. FlattenSeq(<< C >>) = C
  <2> DEFINE e == << >>
  <2>1. e \in Seq(Logs) /\ Append(e, C) = << C >> /\ << >> \o C = C
    BY <1>2 DEF Logs
  <2>2. FlattenSeq(Append(e, C)) = FlattenSeq(e) \o C /\ FlattenSeq(<< >>) = << >>
    BY <1>2, <2>1, FlatAppend, Zenon
  <2> QED BY <2>1, <2>2
<1>4. b.commits = << C >> /\ Len(b.commits) = 1 /\ b.commits # << >>
  BY DEF C, Programmed
<1>5. /\ fl \in [0..1 -> Blocks] /\ i \in 0..1 /\ o \in 0..1 /\ 1 - o = i
      /\ Valid(fl[i]) => b.rev = (fl[i].rev + 1) % Revs
  BY DEF Programmed
<1> HIDE DEF o
<1>6. fl2 \in [0..1 -> Blocks] /\ fl2[o] = b /\ fl2[1 - o] = fl[1 - o]
  BY DEF Swapped, o
<1>7. Current(fl2, o)
  BY <1>4, <1>5, <1>6 DEF Current, Valid
<1>8. Reads(FlattenSeq(fl2[o].commits), G)
  BY <1>1, <1>3, <1>4, <1>6
<1> QED BY <1>1, <1>4, <1>6, <1>7, <1>8 DEF Clean, o

-----------------------------------------------------------------------------
(* The inductive invariant                                                 *)

Handles == [id : Int, name : Nat, m : MDirs, open : BOOLEAN, fresh : BOOLEAN]

\* The open file stands for its entry of the files F, or for none.
Standing(hh, F) == hh.open => /\ hh.name \in Names /\ hh.id \in Int
                              /\ StandsFor(hh.id, F, hh.name)

\* The mdir that it carries is up to date.
Carried(fl, hh, F) == hh.open => /\ ~hh.fresh /\ Follows(fl, hh.m, F)
                                 /\ hh.m.erased => fl[hh.m.cur].tail = "erased"

\* The power is off.
Dark == /\ fmt = 0 /\ attrs = << >> /\ h = NoFile /\ want = NoChange
        /\ Corrupt(flash) \/ \E i, F : Clean(flash, i, F)

\* No change is under way.
Waiting == /\ fmt = 0 /\ attrs = << >> /\ want = NoChange
           /\ \E i, F : Clean(flash, i, F) /\ Standing(h, F) /\ Carried(flash, h, F)

\* lfs_format writes the first block.
Formatting == /\ fmt = 2 /\ attrs = << >> /\ h = NoFile /\ want = NoChange
              /\ Corrupt(flash) /\ m.cur = 0 /\ m.n = 0 /\ ~m.erased

\* lfs_format writes the second block.
Doubling == /\ fmt = 1 /\ attrs = << >> /\ h = NoFile /\ want = NoChange /\ ~m.erased
            /\ \E F : Underway(flash, m, << >>, NoChange, F, F)

\* A change is being committed; the handle that the change opens is at its new
\* place already.
Committing ==
    /\ fmt = 0 /\ want \in Store!Changes
    /\ \E F, G : /\ Underway(flash, m, attrs, want, F, G)
                 /\ IF h.fresh THEN Standing(h, G) ELSE Standing(h, F)
    /\ pc = "commit" /\ m.erased => flash[m.cur].tail = "erased"

DirInv == /\ flash \in [0..1 -> Blocks] /\ h \in Handles /\ m \in MDirs
          /\ dir = Decoded(flash)
          /\ \/ pc = "off" /\ Dark
             \/ pc = "idle" /\ Waiting
             \/ pc \in {"commit", "program"} /\ (Formatting \/ Doubling \/ Committing)

LEMMA NoHandle == NoFile \in Handles /\ NoFile.m \in MDirs /\ NoFile.open = FALSE
<1>1. 0 \in Revisions
  BY DirAssumption DEF Revisions
<1> QED BY <1>1 DEF NoFile, Handles, MDirs

LEMMA DirInit == Init => DirInv
<1> SUFFICES ASSUME Init PROVE DirInv
  OBVIOUS
<1>1. flash \in [0..1 -> Blocks]
  <2>1. << >> \in Seq(Logs) /\ Blank \subseteq Revisions
    BY DirAssumption DEF Revisions
  <2>2. ASSUME NEW b \in [rev : Blank, commits : {<< >>}, tail : {"junk"}]
        PROVE  b \in Blocks
    BY <2>1 DEF Blocks
  <2> QED BY <2>2 DEF Init
<1>2. Corrupt(flash)
  BY DEF Init, Corrupt, Valid
<1>3. h \in Handles /\ m \in MDirs
  BY NoHandle DEF Init
<1> QED BY <1>1, <1>2, <1>3 DEF Init, DirInv, Dark

-----------------------------------------------------------------------------
(* The steps                                                               *)

\* What the program finds in the directory is what the good log holds.
LEMMA DirContents ==
    ASSUME DirInv, NEW i, NEW F, Clean(flash, i, F)
    PROVE  dir = Contents(F) /\ dir # Absent /\ i = Fetch(flash).cur
<1>1. Decoded(flash) = Contents(F) /\ Fetch(flash).cur = i /\ Tidy(F)
  BY CleanDecoded DEF Clean
<1>2. Contents(F) \in [Names -> Values \cup {0, Absent}]
  <2>1. \A n \in Names : Contents(F)[n] \in Values \cup {0, Absent}
    BY <1>1, ContentsRight
  <2>2. Contents(F) = [n \in Names |-> Contents(F)[n]]
    BY DEF Contents
  <2> QED BY <2>1, <2>2
<1> QED BY <1>1, <1>2, DirAssumption DEF DirInv

\* A call of the program begins a change.
LEMMA CallKeeps ==
    ASSUME DirInv, NEW mm, NEW as, NEW change, Call(mm, as, change), dir' = Decoded(flash'),
           NEW F, NEW G, Underway(flash, mm, as, change, F, G), change \in Store!Changes,
           h' \in Handles, IF h'.fresh THEN Standing(h', G) ELSE Standing(h', F),
           mm.erased => flash[mm.cur].tail = "erased"
    PROVE  DirInv' /\ Store!Ask
<1>1. /\ pc = "idle" /\ pc' = "commit" /\ m' = mm /\ attrs' = as /\ want' = change
      /\ flash' = flash /\ fmt' = fmt
  BY DEF Call
<1>2. fmt = 0 /\ want = NoChange /\ flash \in [0..1 -> Blocks] /\ dir = Decoded(flash)
  BY <1>1 DEF DirInv, Waiting
<1>3. mm \in MDirs
  BY DEF Underway, Follows
<1>4. \E F1, G1 : /\ Underway(flash', m', attrs', want', F1, G1)
                  /\ IF h'.fresh THEN Standing(h', G1) ELSE Standing(h', F1)
  BY <1>1
<1>5. Committing'
  BY <1>1, <1>2, <1>4 DEF Committing, Store!Changes
<1>6. DirInv'
  BY <1>1, <1>2, <1>3, <1>5 DEF DirInv
<1>7. Store!Ask
  <2>1. dir # Absent
    <3>1. Clean(flash, mm.cur, F)
      BY DEF Underway, Follows
    <3> QED BY <3>1, DirContents
  <2>2. dir' = dir /\ want' = change /\ pc # "off" /\ pc' # "off"
    BY <1>1, <1>2
  <2> QED BY <1>2, <2>1, <2>2 DEF Store!Ask, Store!NoDir, Store!NoChange, NoChange
<1> QED BY <1>6, <1>7

\* A change is done; the handle follows it.
LEMMA ChangeDone ==
    ASSUME DirInv, pc # "off", fmt = 0, want \in Store!Changes, NEW mm, Committed(mm),
           dir' = Decoded(flash'), flash' \in [0..1 -> Blocks],
           NEW F, NEW G, Underway(flash, m, attrs, want, F, G),
           IF h.fresh THEN Standing(h, G) ELSE Standing(h, F),
           Follows(flash', mm, G), mm.erased => flash'[mm.cur].tail = "erased"
    PROVE  DirInv' /\ Store!Make
<1>1. /\ m' = NoFile.m /\ fmt' = 0 /\ pc' = "idle" /\ attrs' = << >> /\ want' = NoChange
      /\ h' = IF ~h.open THEN NoFile
              ELSE [h EXCEPT !.m = mm, !.fresh = FALSE,
                             !.id = IF h.fresh THEN @ ELSE HeldId(@, attrs)]
  BY DEF Committed
<1>2. Clean(flash, m.cur, F) /\ Clean(flash', mm.cur, G) /\ mm \in MDirs
  BY DEF Underway, Follows
<1>3. h' \in Handles /\ Standing(h', G) /\ Carried(flash', h', G)
  <2>1. CASE ~h.open
    BY <1>1, <2>1, NoHandle DEF Standing, Carried
  <2>2. CASE h.open
    <3> DEFINE id == IF h.fresh THEN h.id ELSE HeldId(h.id, attrs)
    <3>1. h \in Handles /\ h.name \in Names /\ h.id \in Int /\ Names \subseteq Nat \ {0}
      BY <2>2, DirAssumption DEF Standing, DirInv
    <3>2. id \in Int /\ StandsFor(id, G, h.name)
      <4>1. CASE h.fresh
        BY <2>2, <3>1, <4>1 DEF Standing
      <4>2. CASE ~h.fresh
        <5>1. StandsFor(h.id, F, h.name)
          BY <2>2, <4>2 DEF Standing
        <5>2. StandsFor(HeldId(h.id, attrs), G, h.name) /\ HeldId(h.id, attrs) \in Int
          BY <3>1, <5>1 DEF Underway, Leads
        <5> QED BY <4>2, <5>2
      <4> QED BY <4>1, <4>2
    <3> HIDE DEF id
    <3>3. h' = [h EXCEPT !.m = mm, !.fresh = FALSE, !.id = id]
      BY <1>1, <2>2 DEF id
    <3>4. /\ h'.id = id /\ h'.name = h.name /\ h'.m = mm /\ ~h'.fresh
          /\ h' \in Handles
      BY <1>2, <3>1, <3>2, <3>3 DEF Handles
    <3> QED BY <3>1, <3>2, <3>4 DEF Standing, Carried
  <2> QED BY <2>1, <2>2
<1>4. Waiting'
  BY <1>1, <1>2, <1>3 DEF Waiting
<1>5. DirInv'
  BY <1>1, <1>3, <1>4, NoHandle DEF DirInv
<1>6. Store!Make
  <2>1. dir = Contents(F)
    BY <1>2, DirContents
  <2>2. dir' = Contents(G)
    BY <1>2, CleanDecoded
  <2>3. Contents(G) = Made(Contents(F), want)
    BY DEF Underway, Brings
  <2>4. dir' = [n \in Names |-> IF n \in DOMAIN want THEN want[n] ELSE dir[n]]
    BY <2>1, <2>2, <2>3, Zenon DEF Made
  <2>5. pc' # "off"
    BY <1>1
  <2> QED BY <1>1, <2>4, <2>5 DEF Store!Make, Store!Changed, Store!NoChange, NoChange
<1> QED BY <1>5, <1>6

\* lfs_mount, and lfs_format when there is nothing to mount.
LEMMA MountKeeps ==
    ASSUME DirInv, Mount, dir' = Decoded(flash')
    PROVE  DirInv' /\ Store!PowerOn
<1>1. /\ pc = "off" /\ flash' = flash /\ attrs' = attrs /\ h' = h /\ want' = want
      /\ dir = Decoded(flash) /\ Dark /\ flash \in [0..1 -> Blocks]
  BY DEF Mount, DirInv
<1>2. CASE Corrupt(flash)
  <2>1. /\ m' = [cur |-> 0, n |-> 0, rev |-> Align(flash[0].rev), erased |-> FALSE]
        /\ pc' = "commit" /\ fmt' = 2
    BY <1>2 DEF Mount
  <2>2. Align(flash[0].rev) \in Revisions
    <3>1. flash[0] \in Blocks
      BY <1>1
    <3>2. flash[0].rev \in Int /\ Revs \in Nat /\ Revs >= 3 /\ Cycles \in Nat \ {0}
      BY <3>1, DirAssumption DEF Blocks, Revisions
    <3>3. ((flash[0].rev + Cycles - 1) \div Cycles) * Cycles \in Int
      BY <3>2
    <3> QED BY <3>2, <3>3 DEF Align, Revisions
  <2>3. m' \in MDirs /\ m'.cur = 0 /\ m'.n = 0 /\ ~m'.erased
    BY <2>1, <2>2 DEF MDirs
  <2>4. Formatting'
    BY <1>1, <1>2, <2>1, <2>3 DEF Formatting, Dark, Corrupt
  <2>5. Store!PowerOn
    BY <1>1, <2>1 DEF Store!PowerOn
  <2> QED BY <1>1, <2>1, <2>3, <2>4, <2>5, NoHandle DEF DirInv, Dark
<1>3. CASE ~Corrupt(flash)
  <2>1. pc' = "idle" /\ fmt' = fmt /\ m' = m
    BY <1>3 DEF Mount
  <2>2. Waiting'
    BY <1>1, <1>3, <2>1, NoHandle DEF Waiting, Dark, Standing, Carried
  <2>3. Store!PowerOn
    BY <1>1, <2>1 DEF Store!PowerOn
  <2> QED BY <1>1, <2>1, <2>2, <2>3, NoHandle DEF DirInv, Dark
<1> QED BY <1>2, <1>3

\* Between the calls, a fetch gives an mdir that is up to date.
LEMMA Rest ==
    ASSUME DirInv, pc = "idle"
    PROVE  \E F : /\ Follows(flash, Dir, F) /\ Standing(h, F) /\ Carried(flash, h, F)
                  /\ Dir.erased => flash[Dir.cur].tail = "erased"
                  /\ dir = Contents(F)
<1>1. PICK i, F : Clean(flash, i, F) /\ Standing(h, F) /\ Carried(flash, h, F)
  BY DEF DirInv, Waiting
<1>2. Follows(flash, Dir, F) /\ (Dir.erased => flash[Dir.cur].tail = "erased")
  BY <1>1, FetchFollows DEF Dir
<1>3. dir = Contents(F)
  BY <1>1, DirContents
<1> QED BY <1>1, <1>2, <1>3

\* A change of one name is a change.
LEMMA OneName ==
    ASSUME NEW n \in Names, NEW v \in Values \cup {0, Absent}
    PROVE  Change(n, v) \in Store!Changes
<1>1. Change(n, v) \in [{n} -> Values \cup {0, Absent}]
  BY DEF Change
<1>2. {n} \in (SUBSET Names) \ {{}}
  OBVIOUS
<1> QED BY <1>1, <1>2 DEF Store!Changes

\* A handle that nothing moved still stands where it did.
LEMMA CreateKeeps ==
    ASSUME DirInv, NEW n \in Names, FileCreate(n), dir' = Decoded(flash')
    PROVE  DirInv' /\ Store!Ask
<1> DEFINE L == Log(flash, Dir)
           id == Find(L, n).id
<1>1. /\ ~h.open /\ ~Find(L, n).found /\ Call(Dir, CreateAttrs(L, n), Change(n, 0))
      /\ h' = [id |-> id, name |-> n, m |-> Dir, open |-> TRUE, fresh |-> TRUE]
  BY DEF FileCreate, Has
<1>2. PICK F : Follows(flash, Dir, F) /\ (Dir.erased => flash[Dir.cur].tail = "erased")
  BY <1>1, Rest DEF Call
<1>3. PICK G : /\ Underway(flash, Dir, CreateAttrs(L, n), Change(n, 0), F, G)
               /\ StandsFor(id, G, n)
  BY <1>1, <1>2, CreateUnderway, Zenon
<1>4. n \in Nat \ {0} /\ id \in Int /\ Dir \in MDirs
  <2>1. n \in Nat \ {0}
    BY DirAssumption
  <2>2. Reads(L, F) /\ Tidy(F)
    BY <1>2, FollowsLog, Zenon
  <2>3. id \in Nat
    BY <2>1, <2>2, FindRight, Zenon
  <2> QED BY <1>2, <2>1, <2>3 DEF Follows
<1> HIDE DEF id
<1>5. h' \in Handles /\ h'.fresh /\ Standing(h', G)
  BY <1>1, <1>3, <1>4 DEF Handles, Standing
<1>6. Change(n, 0) \in Store!Changes
  BY OneName
<1> QED BY <1>1, <1>2, <1>3, <1>5, <1>6, CallKeeps

LEMMA OpenKeeps ==
    ASSUME DirInv, NEW n \in Names, FileOpen(n), dir' = Decoded(flash')
    PROVE  DirInv' /\ UNCHANGED <<dir, want, pc>>
<1> DEFINE L == Log(flash, Dir)
           id == Find(L, n).id
<1>1. /\ pc = "idle" /\ Find(L, n).found
      /\ h' = [id |-> id, name |-> n, m |-> Dir, open |-> TRUE, fresh |-> FALSE]
      /\ flash' = flash /\ m' = m /\ attrs' = attrs /\ pc' = pc /\ fmt' = fmt /\ want' = want
      /\ dir = Decoded(flash)
  BY DEF FileOpen, Has, DirInv
<1>2. PICK F : Follows(flash, Dir, F) /\ (Dir.erased => flash[Dir.cur].tail = "erased")
  BY <1>1, Rest
<1>3. id \in Int /\ StandsFor(id, F, n) /\ Dir \in MDirs /\ n \in Nat
  <2>1. n \in Nat \ {0}
    BY DirAssumption
  <2>2. Reads(L, F) /\ Tidy(F)
    BY <1>2, FollowsLog, Zenon
  <2>3. id \in Nat /\ id \in 0..(Len(F) - 1) /\ F[id + 1].name = n
    BY <1>1, <2>1, <2>2, FindRight, Zenon
  <2> QED BY <1>2, <2>1, <2>3 DEF Follows, StandsFor
<1> HIDE DEF id
<1>4. h' \in Handles /\ Standing(h', F) /\ Carried(flash, h', F)
  BY <1>1, <1>2, <1>3 DEF Handles, Standing, Carried
<1>5. Waiting'
  <2>1. Clean(flash', Dir.cur, F)
    BY <1>1, <1>2 DEF Follows
  <2>2. \E i, F1 : Clean(flash', i, F1) /\ Standing(h', F1) /\ Carried(flash', h', F1)
    BY <1>1, <1>4, <2>1
  <2>3. fmt' = 0 /\ attrs' = << >> /\ want' = NoChange
    BY <1>1 DEF DirInv, Waiting
  <2> QED BY <2>2, <2>3 DEF Waiting
<1> QED BY <1>1, <1>4, <1>5 DEF DirInv

\* The tags go to the pair that the handle remembers.
LEMMA CloseKeeps ==
    ASSUME DirInv, NEW v \in Values, FileClose(v), dir' = Decoded(flash')
    PROVE  DirInv' /\ (Store!Ask \/ UNCHANGED <<dir, want, pc>>)
<1>1. h.open /\ h' = NoFile /\ pc = "idle"
  BY DEF FileClose, Call
<1>2. PICK F : /\ Follows(flash, Dir, F) /\ Standing(h, F) /\ Carried(flash, h, F)
  BY <1>1, Rest
<1>3. /\ h' \in Handles /\ ~h'.open
  BY <1>1, NoHandle
<1>4. \A F1 : Standing(h', F1) /\ Carried(flash', h', F1)
  BY <1>3 DEF Standing, Carried
<1>5. CASE h.id >= 0
  <2>1. Call(h.m, << Tag("struct", h.id, v) >>, Change(h.name, v))
    BY <1>5 DEF FileClose
  <2>2. /\ Follows(flash, h.m, F)
        /\ h.m.erased => flash[h.m.cur].tail = "erased"
        /\ h.id \in Nat /\ StandsFor(h.id, F, h.name) /\ h.name \in Names
    BY <1>1, <1>2, <1>5 DEF Standing, Carried
  <2>3. PICK G : Underway(flash, h.m, << Tag("struct", h.id, v) >>, Change(h.name, v), F, G)
    BY <2>2, WriteUnderway, Zenon
  <2>4. Change(h.name, v) \in Store!Changes
    BY <2>2, OneName
  <2> QED BY <1>3, <1>4, <2>1, <2>2, <2>3, <2>4, CallKeeps
<1>6. CASE ~(h.id >= 0)
  <2>1. flash' = flash /\ m' = m /\ attrs' = attrs /\ pc' = pc /\ fmt' = fmt /\ want' = want
    BY <1>6 DEF FileClose
  <2>2. Waiting'
    <3>1. Clean(flash', Dir.cur, F)
      BY <1>2, <2>1 DEF Follows
    <3>2. \E i, F1 : Clean(flash', i, F1) /\ Standing(h', F1) /\ Carried(flash', h', F1)
      BY <1>4, <3>1
    <3>3. fmt' = 0 /\ attrs' = << >> /\ want' = NoChange
      BY <1>1, <2>1 DEF DirInv, Waiting
    <3> QED BY <3>2, <3>3 DEF Waiting
  <2> QED BY <1>1, <1>3, <2>1, <2>2 DEF DirInv
<1> QED BY <1>5, <1>6

LEMMA RemoveKeeps ==
    ASSUME DirInv, NEW n \in Names, FileRemove(n), dir' = Decoded(flash')
    PROVE  DirInv' /\ Store!Ask
<1> DEFINE L == Log(flash, Dir)
<1>1. /\ Find(L, n).found /\ Call(Dir, RemoveAttrs(L, n), Change(n, Absent)) /\ h' = h
  BY DEF FileRemove, Has
<1>2. PICK F : /\ Follows(flash, Dir, F) /\ Standing(h, F) /\ Carried(flash, h, F)
               /\ Dir.erased => flash[Dir.cur].tail = "erased"
  BY <1>1, Rest DEF Call
<1>3. PICK G : Underway(flash, Dir, RemoveAttrs(L, n), Change(n, Absent), F, G)
  BY <1>1, <1>2, RemoveUnderway, Zenon
<1>4. h' \in Handles /\ IF h'.fresh THEN Standing(h', G) ELSE Standing(h', F)
  BY <1>1, <1>2 DEF Standing, Carried, DirInv
<1>5. Change(n, Absent) \in Store!Changes
  BY OneName
<1> QED BY <1>1, <1>2, <1>3, <1>4, <1>5, CallKeeps

LEMMA RenameKeeps ==
    ASSUME DirInv, NEW n \in Names, NEW n2 \in Names, FileRename(n, n2), dir' = Decoded(flash')
    PROVE  DirInv' /\ Store!Ask
<1> DEFINE L == Log(flash, Dir)
           change == [x \in {n, n2} |-> IF x = n THEN Absent ELSE dir[n]]
<1>1. /\ n # n2 /\ Find(L, n).found /\ ~Find(L, n2).found
      /\ Call(Dir, RenameAttrs(L, n, n2), change) /\ h' = h
  BY DEF FileRename, Has
<1>2. PICK F : /\ Follows(flash, Dir, F) /\ Standing(h, F) /\ Carried(flash, h, F)
               /\ Dir.erased => flash[Dir.cur].tail = "erased"
               /\ dir = Contents(F)
  BY <1>1, Rest DEF Call
<1>3. PICK G : Underway(flash, Dir, RenameAttrs(L, n, n2), change, F, G)
  <2>1. change = [x \in {n, n2} |-> IF x = n THEN Absent ELSE Contents(F)[n]]
    BY <1>2
  <2> HIDE DEF change
  <2>2. \E G : Underway(flash, Dir, RenameAttrs(L, n, n2),
                        [x \in {n, n2} |-> IF x = n THEN Absent ELSE Contents(F)[n]], F, G)
    BY <1>1, <1>2, RenameUnderway, Zenon
  <2> QED BY <2>1, <2>2, Zenon
<1>4. h' \in Handles /\ IF h'.fresh THEN Standing(h', G) ELSE Standing(h', F)
  BY <1>1, <1>2 DEF Standing, Carried, DirInv
<1>5. change \in Store!Changes
  <2>1. Tidy(F)
    BY <1>2, FollowsLog, Zenon
  <2>2. dir[n] \in Values \cup {0, Absent}
    BY <1>2, <2>1, ContentsRight
  <2>3. change \in [{n, n2} -> Values \cup {0, Absent}]
    BY <2>2
  <2>4. {n, n2} \in (SUBSET Names) \ {{}}
    OBVIOUS
  <2> HIDE DEF change
  <2> QED BY <2>3, <2>4 DEF Store!Changes
<1> HIDE DEF change
<1> QED BY <1>1, <1>2, <1>3, <1>4, <1>5, CallKeeps

\* The commit goes behind the last one.
LEMMA AppendKeeps ==
    ASSUME DirInv, CommitAppend, dir' = Decoded(flash')
    PROVE  DirInv' /\ Store!Make
<1> DEFINE mm == [m EXCEPT !.n = @ + 1]
           b == Appended(flash[m.cur])
<1>1. /\ pc = "commit" /\ m.erased /\ Committed(mm)
      /\ flash' = [flash EXCEPT ![m.cur] = Appended(@)]
      /\ m \in MDirs /\ flash \in [0..1 -> Blocks]
  BY DEF CommitAppend, DirInv
<1>2. Committing
  BY <1>1 DEF DirInv, Formatting, Doubling
<1>3. PICK F, G : /\ Underway(flash, m, attrs, want, F, G)
                  /\ IF h.fresh THEN Standing(h, G) ELSE Standing(h, F)
  BY <1>2 DEF Committing
<1>4. /\ fmt = 0 /\ want \in Store!Changes /\ flash[m.cur].tail = "erased" /\ m.cur \in 0..1
      /\ flash[m.cur] \in Blocks /\ m.n \in Nat /\ m.rev \in Revisions
      /\ attrs \in Logs /\ m.n = Len(flash[m.cur].commits) /\ m.rev = flash[m.cur].rev
  BY <1>1, <1>2, <1>3 DEF Committing, MDirs, Underway, Leads, Follows
<1>5. /\ b \in Blocks /\ b.rev = flash[m.cur].rev /\ b.tail = flash[m.cur].tail
      /\ b.commits = Append(SubSeq(flash[m.cur].commits, 1, m.n), attrs)
  <2>1. SubSeq(flash[m.cur].commits, 1, m.n) = flash[m.cur].commits
    BY <1>1, <1>4, WholeLog
  <2>2. Append(SubSeq(flash[m.cur].commits, 1, m.n), attrs) \in Seq(Logs)
    <3>1. flash[m.cur].commits \in Seq(Logs)
      BY <1>4 DEF Blocks
    <3> QED BY <1>4, <2>1, <3>1
  <2> QED BY <1>4, <2>2 DEF Appended, Blocks
<1>6. flash' = [flash EXCEPT ![m.cur] = b]
  BY <1>1
<1> HIDE DEF b
<1>7. Swapped(flash', flash, m.cur, b)
  BY <1>1, <1>4, <1>5, <1>6 DEF Swapped
<1>8. Clean(flash', m.cur, G) /\ Len(flash'[m.cur].commits) = m.n + 1
  BY <1>3, <1>5, <1>7, AppendedClean, Zenon
<1>9. /\ mm \in MDirs /\ mm.cur = m.cur /\ mm.n = m.n + 1 /\ mm.rev = m.rev
      /\ mm.erased <=> m.erased
  BY <1>1 DEF MDirs
<1> HIDE DEF mm
<1>10. flash'[m.cur].rev = m.rev /\ flash'[m.cur].tail = "erased"
  BY <1>4, <1>5, <1>7 DEF Swapped
<1>11. Follows(flash', mm, G) /\ flash'[mm.cur].tail = "erased"
  BY <1>8, <1>9, <1>10 DEF Follows
<1>12. flash' \in [0..1 -> Blocks]
  BY <1>7 DEF Swapped
<1> QED BY <1>1, <1>3, <1>4, <1>11, <1>12, ChangeDone

\* Nothing of the directory is in the block that is erased.
LEMMA EraseKeeps ==
    ASSUME DirInv, Erase, dir' = Decoded(flash')
    PROVE  DirInv' /\ UNCHANGED <<dir, want, pc # "off">>
<1> DEFINE i == m.cur
           e == [rev |-> Revs - 1, commits |-> << >>, tail |-> "erased"]
<1>1. /\ pc = "commit" /\ pc' = "program" /\ m' = m /\ attrs' = attrs /\ h' = h
      /\ fmt' = fmt /\ want' = want
      /\ m \in MDirs /\ h \in Handles /\ flash \in [0..1 -> Blocks] /\ i \in 0..1
      /\ dir = Decoded(flash)
  BY DEF Erase, DirInv, MDirs
<1>2. PICK t \in {flash[i].tail} \cup (IF m.erased THEN {"junk"} ELSE {}) :
          flash' = [flash EXCEPT ![i].tail = t, ![1 - i] = e]
  BY DEF Erase
<1>3. flash[i] \in Blocks /\ flash[i].tail \in {"erased", "junk"} /\ t \in {"erased", "junk"}
  <2>1. flash[i] \in Blocks
    BY <1>1
  <2>2. flash[i].tail \in {"erased", "junk"}
    BY <2>1 DEF Blocks
  <2> QED BY <1>2, <2>1, <2>2
<1>4. e \in Blocks /\ e.commits = << >>
  <2>1. << >> \in Seq(Logs) /\ Revs - 1 \in Revisions
    BY DirAssumption DEF Revisions
  <2> QED BY <2>1 DEF Blocks
<1> DEFINE b == [flash[i] EXCEPT !.tail = t]
<1>5. b \in Blocks /\ b.commits = flash[i].commits /\ b.rev = flash[i].rev
  BY <1>3 DEF Blocks
<1>6. flash' = [flash EXCEPT ![i] = b, ![1 - i] = e]
  BY <1>1, <1>2, Zenon
<1> HIDE DEF b, e, i
<1>7. flash' \in [0..1 -> Blocks] /\ flash'[i] = b /\ flash'[1 - i] = e
  BY <1>1, <1>4, <1>5, <1>6
<1>8. Spared(flash', flash, i)
  BY <1>4, <1>5, <1>7 DEF Spared
<1>9. CASE Formatting
  <2>1. Valid(flash'[i]) <=> Valid(flash[i])
    BY <1>5, <1>7 DEF Valid
  <2>2. ~Valid(flash'[1 - i])
    BY <1>4, <1>7 DEF Valid
  <2>3. Corrupt(flash) /\ i = 0
    BY <1>9 DEF Formatting, i
  <2>4. Corrupt(flash')
    <3>1. ~Valid(flash'[0]) /\ ~Valid(flash'[1])
      BY <2>1, <2>2, <2>3 DEF Corrupt
    <3>2. \A j \in 0..1 : j = 0 \/ j = 1
      OBVIOUS
    <3> QED BY <3>1, <3>2 DEF Corrupt
  <2>5. Formatting'
    BY <1>1, <1>9, <2>4 DEF Formatting
  <2>6. dir' = dir
    BY <1>1, <2>3, <2>4, Zenon DEF Decoded
  <2> QED BY <1>1, <1>7, <2>5, <2>6 DEF DirInv
\* The mdir of the commit is still up to date.
<1>10. ASSUME NEW F, Follows(flash, m, F)
       PROVE  Follows(flash', m, F) /\ Log(flash', m) = Log(flash, m) /\ dir' = dir
  <2>1. Clean(flash, i, F) /\ m.n = Len(flash[i].commits) /\ m.rev = flash[i].rev
    BY <1>10 DEF Follows, i
  <2>2. Clean(flash', i, F)
    BY <1>8, <2>1, CleanKept
  <2>3. Decoded(flash) = Contents(F) /\ Decoded(flash') = Contents(F)
    BY <2>1, <2>2, CleanDecoded
  <2>4. Log(flash', m) = Log(flash, m)
    BY <1>5, <1>7 DEF Log, i
  <2> QED BY <1>1, <1>5, <1>7, <2>1, <2>2, <2>3, <2>4 DEF Follows, i
<1>11. ASSUME NEW as, NEW change, NEW F, NEW G, Underway(flash, m, as, change, F, G)
       PROVE  Underway(flash', m, as, change, F, G) /\ dir' = dir
  <2>1. /\ Follows(flash, m, F) /\ Leads(Log(flash, m), F, as, G) /\ Tidy(G)
        /\ Brings(F, change, G)
    BY <1>11 DEF Underway
  <2>2. Follows(flash', m, F) /\ Log(flash', m) = Log(flash, m) /\ dir' = dir
    BY <1>10, <2>1
  <2> QED BY <2>1, <2>2 DEF Underway
<1>12. CASE Doubling
  <2>1. PICK F : Underway(flash, m, << >>, NoChange, F, F)
    BY <1>12 DEF Doubling
  <2>2. Underway(flash', m', << >>, NoChange, F, F) /\ dir' = dir
    BY <1>1, <1>11, <2>1
  <2>3. Doubling'
    BY <1>1, <1>12, <2>2 DEF Doubling
  <2> QED BY <1>1, <1>7, <2>2, <2>3 DEF DirInv
<1>13. CASE Committing
  <2>1. PICK F, G : /\ Underway(flash, m, attrs, want, F, G)
                    /\ IF h.fresh THEN Standing(h, G) ELSE Standing(h, F)
    BY <1>13 DEF Committing
  <2>2. Underway(flash', m', attrs', want', F, G) /\ dir' = dir
    BY <1>1, <1>11, <2>1
  <2>3. Committing'
    <3>1. fmt' = 0 /\ want' \in Store!Changes /\ pc' # "commit"
      BY <1>1, <1>13 DEF Committing
    <3>2. \E F1, G1 : /\ Underway(flash', m', attrs', want', F1, G1)
                      /\ IF h'.fresh THEN Standing(h', G1) ELSE Standing(h', F1)
      BY <1>1, <2>1, <2>2
    <3> QED BY <3>1, <3>2 DEF Committing, Store!Changes
  <2> QED BY <1>1, <1>7, <2>2, <2>3 DEF DirInv
<1> QED BY <1>1, <1>9, <1>12, <1>13 DEF DirInv

\* No file at all.
LEMMA NoFiles == Tidy(<< >>) /\ Contents(<< >>) = [n \in Names |-> Absent]
<1> DEFINE e == << >>
<1>1. e \in Seq(Files) /\ Len(e) = 0 /\ DOMAIN e = {}
  OBVIOUS
<1> HIDE DEF e
<1>2. Tidy(e)
  BY <1>1 DEF Tidy
<1>3. Contents(e) = [n \in Names |-> Absent]
  <2>1. \A n : Ids(e, n) = {}
    BY <1>1 DEF Ids
  <2> QED BY <2>1 DEF Contents
<1> QED BY <1>2, <1>3 DEF e

\* The files, compacted, in the other block.
LEMMA ProgramKeeps ==
    ASSUME DirInv, Program, dir' = Decoded(flash')
    PROVE  DirInv' /\ (Store!Format \/ Store!Make \/ UNCHANGED <<dir, want, pc # "off">>)
<1> DEFINE i == m.cur
           o == 1 - i
           L == Log(flash, m) \o attrs
           rev == (m.rev + 1) % Revs
           b == [rev |-> rev, commits |-> << Compacted(L) >>, tail |-> "erased"]
           mm == [m EXCEPT !.cur = o, !.n = 1, !.rev = rev]
<1>1. /\ pc = "program" /\ Committed(mm) /\ flash' = [flash EXCEPT ![o] = b]
      /\ m \in MDirs /\ h \in Handles /\ flash \in [0..1 -> Blocks] /\ i \in 0..1
      /\ dir = Decoded(flash) /\ m.rev \in Revisions
  BY DEF Program, DirInv, MDirs
<1>2. o \in 0..1 /\ 1 - o = i /\ rev \in Revisions
  BY <1>1, LaterNext
<1>3. /\ mm \in MDirs /\ mm.cur = o /\ mm.n = 1 /\ mm.rev = rev
      /\ mm.erased <=> m.erased
  BY <1>1, <1>2 DEF MDirs
<1> HIDE DEF mm, L, rev, o
\* Whatever the log, the pair is up to date.
<1>4. ASSUME NEW G, Reads(L, G), Tidy(G), Valid(flash[i]) => flash[i].rev = m.rev
      PROVE  /\ Clean(flash', o, G) /\ Follows(flash', mm, G) /\ flash'[mm.cur].tail = "erased"
             /\ flash' \in [0..1 -> Blocks]
  <2>1. Compacted(L) \in Logs
    <3>1. Reads(Compacted(L), G)
      BY <1>4, CompactedReads, Zenon
    <3> QED BY <3>1 DEF Reads
  <2>2. << Compacted(L) >> \in Seq(Logs)
    BY <2>1
  <2>3. b \in Blocks /\ b.rev = rev /\ b.commits = << Compacted(L) >> /\ b.tail = "erased"
    BY <1>2, <2>2 DEF Blocks
  <2>4. Valid(flash[i]) => b.rev = (flash[i].rev + 1) % Revs
    BY <1>4, <2>3 DEF rev
  <2> HIDE DEF b
  <2>5. Swapped(flash', flash, o, b)
    BY <1>1, <1>2, <2>3 DEF Swapped
  <2>6. Clean(flash', o, G) /\ Len(flash'[o].commits) = 1
    <3> HIDE DEF i
    <3>1. Swapped(flash', flash, 1 - i, b)
      BY <2>5 DEF o
    <3>2. Clean(flash', 1 - i, G) /\ Len(flash'[1 - i].commits) = 1
      <4>1. Programmed(L, G, flash, i, b)
        BY <1>1, <1>4, <2>3, <2>4 DEF Programmed
      <4> QED BY <3>1, <4>1, ProgrammedClean, Zenon
    <3> QED BY <3>2 DEF o
  <2>7. flash'[o] = b /\ flash' \in [0..1 -> Blocks]
    BY <2>5 DEF Swapped
  <2> QED BY <1>3, <2>3, <2>6, <2>7 DEF Follows
<1> HIDE DEF b
<1>5. CASE Formatting
  <2>1. /\ fmt = 2 /\ attrs = << >> /\ h = NoFile /\ want = NoChange /\ ~m.erased
        /\ m.cur = 0 /\ m.n = 0 /\ Corrupt(flash)
    BY <1>5 DEF Formatting
  <2>2. ~Valid(flash[i]) /\ flash[i].commits = << >>
    BY <2>1 DEF Corrupt, Valid
  <2>3. L = << >>
    <3>1. SubSeq(<< >>, 1, 0) = << >> /\ << >> \o << >> = << >>
      OBVIOUS
    <3>2. << >> \in Seq(Logs) /\ << >> \in Logs
      BY DEF Logs
    <3>3. FlattenSeq(<< >>) = << >>
      BY <3>2, FlatAppend, Zenon
    <3> QED BY <2>1, <2>2, <3>1, <3>3 DEF L, Log
  <2>4. Reads(L, << >>) /\ Tidy(<< >>)
    BY <2>3, ReadsNothing, NoFiles
  <2>5. Clean(flash', o, << >>) /\ Follows(flash', mm, << >>) /\ flash' \in [0..1 -> Blocks]
    BY <1>4, <2>2, <2>4
  <2>6. m' = mm /\ fmt' = 1 /\ pc' = "commit" /\ h' = NoFile /\ attrs' = << >> /\ want' = NoChange
    BY <1>1, <2>1, NoHandle DEF Committed
  <2>7. Doubling'
    <3>1. Underway(flash', m', << >>, NoChange, << >>, << >>)
      BY <2>5, <2>6, NothingUnderway
    <3> QED BY <1>3, <2>1, <2>6, <3>1 DEF Doubling
  <2>8. Store!Format
    <3>1. dir = Absent
      BY <1>1, <2>1 DEF Decoded
    <3>2. dir' = Contents(<< >>)
      BY <2>5, CleanDecoded
    <3> QED BY <1>1, <2>1, <2>6, <3>1, <3>2, NoFiles DEF Store!Format, Store!NoDir
  <2> QED BY <1>3, <2>5, <2>6, <2>7, <2>8, NoHandle DEF DirInv
<1>6. CASE Doubling
  <2>1. /\ fmt = 1 /\ attrs = << >> /\ h = NoFile /\ want = NoChange
    BY <1>6 DEF Doubling
  <2>2. PICK F : Underway(flash, m, << >>, NoChange, F, F)
    BY <1>6 DEF Doubling
  <2>3. Reads(L, F) /\ Tidy(F) /\ Clean(flash, i, F) /\ flash[i].rev = m.rev
    BY <2>1, <2>2 DEF Underway, Leads, Follows, L
  <2>4. Clean(flash', o, F) /\ flash' \in [0..1 -> Blocks]
    BY <1>4, <2>3
  <2>5. m' = NoFile.m /\ fmt' = 0 /\ pc' = "idle" /\ h' = NoFile /\ attrs' = << >> /\ want' = NoChange
    BY <1>1, <2>1, NoHandle DEF Committed
  <2>6. Waiting'
    BY <2>4, <2>5, NoHandle DEF Waiting, Standing, Carried
  <2>7. dir' = dir /\ want' = want
    <3>1. Decoded(flash) = Contents(F) /\ Decoded(flash') = Contents(F)
      BY <2>3, <2>4, CleanDecoded
    <3> QED BY <1>1, <2>1, <2>5, <3>1
  <2> QED BY <2>4, <2>5, <2>6, <2>7, NoHandle DEF DirInv
<1>7. CASE Committing
  <2>1. PICK F, G : /\ Underway(flash, m, attrs, want, F, G)
                    /\ IF h.fresh THEN Standing(h, G) ELSE Standing(h, F)
    BY <1>7 DEF Committing
  <2>2. Reads(L, G) /\ Tidy(G) /\ flash[i].rev = m.rev
    BY <2>1 DEF Underway, Leads, Follows, L
  <2>3. Follows(flash', mm, G) /\ flash'[mm.cur].tail = "erased" /\ flash' \in [0..1 -> Blocks]
    BY <1>4, <2>2
  <2>4. fmt = 0 /\ want \in Store!Changes
    BY <1>7 DEF Committing
  <2> QED BY <1>1, <2>1, <2>3, <2>4, ChangeDone
<1> QED BY <1>1, <1>5, <1>6, <1>7 DEF DirInv

\* A cut leaves the directory as it was.
LEMMA PowerKeeps ==
    ASSUME DirInv, PowerLoss, dir' = Decoded(flash')
    PROVE  DirInv' /\ Store!PowerLoss
<1> DEFINE i == m.cur
<1>1. /\ pc # "off" /\ flash' \in Remains /\ m' = NoFile.m /\ attrs' = << >> /\ h' = NoFile
      /\ pc' = "off" /\ fmt' = 0 /\ want' = NoChange
      /\ m \in MDirs /\ flash \in [0..1 -> Blocks] /\ i \in 0..1 /\ 1 - i \in 0..1 /\ 1 - i # i
      /\ dir = Decoded(flash) /\ m.rev \in Revisions
  BY DEF PowerLoss, DirInv, MDirs
<1>2. PICK t \in {flash[i].tail} \cup (IF Appending THEN {"junk"} ELSE {}),
           b \in IF Writing THEN Cut(flash[1 - i]) ELSE {flash[1 - i]} : flash' = Left(t, b)
  BY <1>1 DEF Remains
<1>3. flash[i] \in Blocks /\ flash[1 - i] \in Blocks /\ t \in {"erased", "junk"}
  <2>1. flash[i] \in Blocks /\ flash[1 - i] \in Blocks
    BY <1>1
  <2>2. flash[i].tail \in {"erased", "junk"}
    BY <2>1 DEF Blocks
  <2> QED BY <1>2, <2>1, <2>2
<1>4. b \in Blocks /\ (b = flash[1 - i] \/ b.commits = << >>)
  <2>1. CASE b = flash[1 - i]
    BY <1>3, <2>1
  <2>2. CASE b # flash[1 - i]
    <3>1. PICK r \in {m.rev, m.rev + 1} :
                b = [rev |-> r % Revs, commits |-> << >>, tail |-> "junk"]
      BY <1>2, <2>2 DEF Cut
    <3>2. r % Revs \in Revisions /\ << >> \in Seq(Logs)
      BY <1>1, DirAssumption DEF Revisions
    <3> QED BY <3>1, <3>2 DEF Blocks
  <2> QED BY <2>1, <2>2
<1> DEFINE c == [flash[i] EXCEPT !.tail = t]
<1>5. c \in Blocks /\ c.commits = flash[i].commits /\ c.rev = flash[i].rev
  BY <1>3 DEF Blocks
<1>6. flash' \in [0..1 -> Blocks] /\ flash'[i] = c /\ flash'[1 - i] = b
  BY <1>1, <1>2, <1>4, <1>5 DEF Left
<1> HIDE DEF c
<1>7. Spared(flash', flash, i)
  BY <1>4, <1>5, <1>6 DEF Spared
<1>8. dir' = dir /\ (Corrupt(flash') \/ \E j, F : Clean(flash', j, F))
  <2>1. ASSUME NEW F, Clean(flash, i, F)
        PROVE  dir' = dir /\ \E j, F1 : Clean(flash', j, F1)
    <3>1. Clean(flash', i, F)
      BY <1>7, <2>1, CleanKept
    <3>2. Decoded(flash) = Contents(F) /\ Decoded(flash') = Contents(F)
      BY <2>1, <3>1, CleanDecoded
    <3> QED BY <1>1, <3>1, <3>2
  <2>2. CASE pc = "idle"
    <3>1. b = flash[1 - i] /\ t = flash[i].tail
      BY <1>2, <2>2 DEF Writing, Appending
    <3>2. c = flash[i]
      BY <1>3, <3>1 DEF c, Blocks
    <3>3. \A j \in 0..1 : j = i \/ j = 1 - i
      BY <1>1
    <3>4. flash' = flash
      BY <1>1, <1>6, <3>1, <3>2, <3>3
    <3> QED BY <1>1, <2>2, <3>4 DEF DirInv, Waiting
  <2>3. CASE Formatting
    <3>1. \A j \in 0..1 : flash'[j].commits = << >>
      <4>1. \A j \in 0..1 : j = i \/ j = 1 - i
        BY <1>1
      <4>2. \A j \in 0..1 : flash[j].commits = << >>
        BY <2>3 DEF Formatting, Corrupt, Valid
      <4> QED BY <1>1, <1>4, <1>5, <1>6, <4>1, <4>2
    <3>2. Corrupt(flash') /\ Corrupt(flash)
      BY <2>3, <3>1 DEF Formatting, Corrupt, Valid
    <3> QED BY <1>1, <3>2, Zenon DEF Decoded
  <2>4. CASE Doubling \/ Committing
    <3>1. PICK F : Clean(flash, i, F)
      BY <2>4 DEF Doubling, Committing, Underway, Follows
    <3> QED BY <2>1, <3>1
  <2> QED BY <1>1, <2>2, <2>3, <2>4 DEF DirInv
<1>9. Dark'
  BY <1>1, <1>8 DEF Dark
<1> QED BY <1>1, <1>6, <1>8, <1>9, NoHandle DEF DirInv, Store!PowerLoss, Store!NoChange, NoChange

\* Whoever steps, the directory stays good, and what is found in it is what the
\* atomic directory holds.
LEMMA DirStep ==
    ASSUME DirInv, [Next]_vars
    PROVE  DirInv' /\ [Store!Next]_<<dir, want, pc # "off">>
<1>1. CASE UNCHANGED vars
  <2>1. /\ flash' = flash /\ m' = m /\ attrs' = attrs /\ h' = h /\ pc' = pc /\ fmt' = fmt
        /\ want' = want /\ dir' = dir /\ UNCHANGED <<dir, want, pc # "off">>
    BY <1>1 DEF vars
  <2> QED BY <2>1 DEF DirInv, Dark, Waiting, Formatting, Doubling, Committing, Store!Changes
<1>2. CASE Next
  <2>1. Step /\ dir' = Decoded(flash')
    BY <1>2 DEF Next
  <2>2. CASE Mount
    BY <2>1, <2>2, MountKeeps DEF Store!Next
  <2>3. CASE CommitAppend
    BY <2>1, <2>3, AppendKeeps DEF Store!Next
  <2>4. CASE Erase
    BY <2>1, <2>4, EraseKeeps
  <2>5. CASE Program
    BY <2>1, <2>5, ProgramKeeps DEF Store!Next
  <2>6. CASE PowerLoss
    BY <2>1, <2>6, PowerKeeps DEF Store!Next
  <2>7. ASSUME NEW n \in Names, FileCreate(n) \/ FileOpen(n) \/ FileRemove(n)
        PROVE  DirInv' /\ [Store!Next]_<<dir, want, pc # "off">>
    BY <2>1, <2>7, CreateKeeps, OpenKeeps, RemoveKeeps DEF Store!Next
  <2>8. ASSUME NEW n \in Names, NEW n2 \in Names, FileRename(n, n2)
        PROVE  DirInv' /\ [Store!Next]_<<dir, want, pc # "off">>
    BY <2>1, <2>8, RenameKeeps DEF Store!Next
  <2>9. ASSUME NEW v \in Values, FileClose(v)
        PROVE  DirInv' /\ [Store!Next]_<<dir, want, pc # "off">>
    BY <2>1, <2>9, CloseKeeps DEF Store!Next
  <2> QED BY <2>1, <2>2, <2>3, <2>4, <2>5, <2>6, <2>7, <2>8, <2>9 DEF Step
<1> QED BY <1>1, <1>2

\* A directory that is there has a good log.
LEMMA DirGood ==
    ASSUME DirInv, ~Corrupt(flash)
    PROVE  \E i, F : Clean(flash, i, F)
BY DEF DirInv, Dark, Waiting, Formatting, Doubling, Committing, Underway, Follows

\* A name is found where its file is, with its contents, or has its place.
LookedUp(log, files, n) ==
    LET s == Find(log, n)
    IN  /\ s.count = Len(files)
        /\ IF \E i \in DOMAIN files : files[i].name = n
           THEN /\ s.found /\ files[s.id + 1].name = n
                /\ Get(log, "struct", s.id).val = files[s.id + 1].val
           ELSE ~s.found /\ s.id = Cardinality({i \in DOMAIN files : files[i].name < n})

LEMMA LookupAgrees ==
    ASSUME NEW L, NEW F, Reads(L, F), Tidy(F), NEW n \in Names
    PROVE  LookedUp(L, F, n)
<1> DEFINE s == Find(L, n)
           p == s.id
<1>1. /\ n \in Nat \ {0} /\ Len(F) \in Nat /\ DOMAIN F = 1..Len(F)
      /\ \A i \in 1..Len(F) : F[i].name \in Nat
  BY TidyShort, DirAssumption DEF Tidy
<1>2. /\ s.count = Len(F) /\ p \in Nat
      /\ s.found => p \in 0..(Len(F) - 1) /\ F[p + 1].name = n
      /\ ~s.found => Spot(p, n, F)
  BY <1>1, FindRight, Zenon
<1>3. \A id \in Nat : Get(L, "struct", id).val = IF id < Len(F) THEN F[id + 1].val ELSE 0
  BY DEF Reads, Holds, Get
<1> HIDE DEF p, s
<1>4. CASE \E i \in DOMAIN F : F[i].name = n
  <2>1. s.found
    BY <1>1, <1>2, <1>4 DEF Spot
  <2>2. p \in Nat /\ p < Len(F) /\ F[p + 1].name = n
    BY <1>1, <1>2, <2>1
  <2>3. Get(L, "struct", p).val = F[p + 1].val
    BY <1>3, <2>2
  <2> QED BY <1>2, <1>4, <2>1, <2>2, <2>3 DEF s, p, LookedUp
<1>5. CASE ~\E i \in DOMAIN F : F[i].name = n
  <2>1. ~s.found
    <3> SUFFICES ASSUME s.found PROVE FALSE
      OBVIOUS
    <3>1. p + 1 \in 1..Len(F) /\ F[p + 1].name = n
      BY <1>1, <1>2
    <3> QED BY <1>1, <1>5, <3>1
  <2>2. {i \in DOMAIN F : F[i].name < n} = 1..p
    BY <1>1, <1>2, <2>1 DEF Spot
  <2>3. Cardinality(1..p) = p
    <3>1. p \in Int /\ 1 \in Int
      BY <1>2
    <3>2. Cardinality(1..p) = IF 1 > p THEN 0 ELSE p - 1 + 1
      BY <3>1, FS_Interval
    <3> QED BY <1>2, <3>2
  <2> QED BY <1>2, <1>5, <2>1, <2>2, <2>3 DEF s, p, LookedUp
<1> QED BY <1>4, <1>5

\* Lookups agree with the replay of the log.
LEMMA DirLookup == DirInv => LookupRight
<1> SUFFICES ASSUME DirInv, ~Corrupt(flash)
             PROVE  LookupRight
  BY DEF LookupRight
<1> DEFINE L == Log(flash, Fetch(flash))
           R == Replayed(L)
<1>1. PICK i, F : Clean(flash, i, F)
  BY DirGood
<1>2. Reads(L, R) /\ Tidy(R)
  <2>1. Reads(L, F) /\ R = F /\ Tidy(F)
    BY <1>1, CleanDecoded DEF Clean
  <2> QED BY <2>1
<1> HIDE DEF R
<1>3. \A a, b \in DOMAIN R : a < b => R[a].name < R[b].name
  BY <1>2 DEF Tidy
<1> HIDE DEF L
<1>4. \A n \in Names : LookedUp(L, R, n)
  BY <1>2, LookupAgrees, Zenon
<1> QED BY <1>3, <1>4, Zenon DEF LookupRight, LookedUp, L, R

\* Two mdirs that are up to date differ in erased at most.
LEMMA SameMDir ==
    ASSUME NEW a \in MDirs, NEW b \in MDirs, a.cur = b.cur, a.n = b.n, a.rev = b.rev
    PROVE  [a EXCEPT !.erased = FALSE] = [b EXCEPT !.erased = FALSE]
BY DEF MDirs

\* The handle of an open file is good between the calls.
LEMMA DirHandle == DirInv => HandleFresh
<1> SUFFICES ASSUME DirInv, pc = "idle", h.open, h.id >= 0
             PROVE  HandleFresh
  BY DEF HandleFresh
<1>1. PICK F : Follows(flash, Dir, F) /\ Standing(h, F) /\ Carried(flash, h, F)
  BY Rest
<1>2. /\ Follows(flash, h.m, F) /\ (h.m.erased => flash[h.m.cur].tail = "erased")
      /\ StandsFor(h.id, F, h.name) /\ h.id \in Int
  BY <1>1 DEF Standing, Carried
<1>3. Clean(flash, h.m.cur, F) /\ Clean(flash, Dir.cur, F)
  BY <1>1, <1>2 DEF Follows
<1>4. h.m.cur = Dir.cur
  BY <1>3, DirContents DEF Dir
<1>5. h.m \in MDirs /\ Dir \in MDirs /\ h.m.n = Dir.n /\ h.m.rev = Dir.rev
  BY <1>1, <1>2, <1>4 DEF Follows
<1>6. [h.m EXCEPT !.erased = FALSE] = [Fetch(flash) EXCEPT !.erased = FALSE]
  BY <1>4, <1>5, SameMDir, Zenon DEF Dir
<1>7. h.id < Len(Replayed(Log(flash, Fetch(flash))))
  <2>1. Replayed(Log(flash, Fetch(flash))) = F /\ Len(F) \in Nat
    BY <1>3, CleanDecoded, TidyShort DEF Clean
  <2> QED BY <1>2, <2>1 DEF StandsFor
<1> QED BY <1>2, <1>6, <1>7 DEF HandleFresh

\* DirInv holds always.
LEMMA DirAlways == Spec => []DirInv
<1>1. DirInv /\ [Next]_vars => DirInv'
  BY DirStep
<1> QED BY <1>1, DirInit, PTL DEF Spec

\* For all names, contents and revisions: lfs_dir_find and lfs_dir_get agree with the
\* log replayed from its start, on every log that littlefs writes, through
\* compactions and power losses.
THEOREM DirLookupRight == Spec => []LookupRight
BY DirAlways, DirLookup, PTL

\* For all names, contents and revisions: the pair and the id that an open file
\* carries are the ones that a fetch would give, whatever others change meanwhile.
THEOREM DirHandleFresh == Spec => []HandleFresh
BY DirAlways, DirHandle, PTL

\* For all names, contents and revisions: each change of a directory happens as a
\* whole or not at all, and only a power loss ends it without its effect: when the
\* call returns it is on the flash; and a directory is never lost.
THEOREM DirImplementsStore == Spec => ImplementsStore
<1>1. Init => Store!Init
  <2> SUFFICES ASSUME Init PROVE Store!Init
    OBVIOUS
  <2>1. Corrupt(flash)
    BY DEF Init, Corrupt, Valid
  <2>2. dir = Absent
    BY <2>1 DEF Init, Decoded
  <2>3. (pc # "off") = FALSE
    BY DEF Init
  <2> QED BY <2>2, <2>3 DEF Init, Store!Init, Store!NoDir, Store!NoChange, NoChange
<1>2. DirInv /\ [Next]_vars => [Store!Next]_<<dir, want, pc # "off">>
  BY DirStep
<1> QED BY <1>1, <1>2, DirAlways, PTL DEF Spec, ImplementsStore, Store!Spec
=============================================================================
