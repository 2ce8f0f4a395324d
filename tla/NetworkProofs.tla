--------------------------- MODULE NetworkProofs ---------------------------
(***************************************************************************)
(* The receive ring keeps its frames in order and never gets stuck, for    *)
(* every number of slots; no two hosts hold one address, for every set of  *)
(* hosts and every size of the lease table.                                *)
(***************************************************************************)
EXTENDS Network, FiniteSetTheorems, TLAPS

-----------------------------------------------------------------------------
(* The ring                                                                *)

\* What TinyUSB hands over: the questions of the USB host.
Frames == [mac : {UsbHost}, type : {"discover", "request"}, req : 0..Leases \cup {NoAddr}]

\* The slots from a up to, and not including, b, around the end of the ring.
Between(a, b) == { s \in Slot : IF a <= b THEN a <= s /\ s < b ELSE a <= s \/ s < b }

RingTypeOK ==
    rx \in [data : [Slot -> Frames \cup {NoFrame}], taken : SUBSET Slot, w : Slot, r : Slot,
            pc : {"idle", "take", "input", "clear", "renew"}, at : Slot, cut : BOOLEAN,
            frame : Frames \cup {NoFrame}, crossed : 0..MaxCrossed]

\* Where usb_ncm_poll goes on to read, whichever way r is read.
Reads == IF rx.pc = "clear" THEN {After(rx.at), After(rx.r)} ELSE {rx.r}

\* The interrupt finds room all the way from w to x, or usb_ncm_poll, starting at
\* x, finds frames all the way to w.
RoomOrFrames(x) ==
    \/ Between(rx.w, x) \cap rx.taken = {}
    \/ Slot \ Between(rx.w, x) \subseteq rx.taken

\* The frames wait from x to w, or in every slot.
Queued(x) == rx.taken = Between(x, rx.w) \/ (x = rx.w /\ rx.taken = Slot)

TurnInv == \A x \in Reads : RoomOrFrames(x)

QueueInv ==
    ~rx.cut => /\ \A x \in Reads : Queued(x)
               /\ rx.pc = "clear" => rx.at = rx.r
               /\ rx.pc \in {"take", "input"} => rx.r \in rx.taken

\* While main fills a slot, the interrupt has not come, or has filled the same
\* slot, or a reset has emptied the ring.
RenewInv ==
    IF rx.pc = "renew"
      THEN \/ rx.crossed = 0 /\ rx.w = rx.at /\ rx.at \notin rx.taken
           \/ rx.crossed = 1 /\ rx.w = After(rx.at) /\ rx.at \in rx.taken
           \/ /\ rx.cut /\ rx.r = 0 /\ rx.taken \subseteq {0}
              /\ rx.crossed = 0 => rx.w = 0 /\ rx.taken = {}
      ELSE rx.crossed = 0

RingInv == RingTypeOK /\ TurnInv /\ QueueInv /\ RenewInv

\* The slot after the last is the first.
LEMMA AfterSlot ==
    ASSUME NEW i \in Slot
    PROVE  After(i) \in Slot /\ After(i) = IF i + 1 = RxN THEN 0 ELSE i + 1
BY RingAssumption DEF Slot, After

\* What the interrupt writes.
LEMMA RecvWrites ==
    ASSUME RingTypeOK, NEW f \in Frames, RecvCb(f)
    PROVE  /\ rx.w \notin rx.taken
           /\ rx.pc = "renew" => rx.crossed < MaxCrossed
           /\ rx'.data = [rx.data EXCEPT ![rx.w] = f]
           /\ rx'.taken = rx.taken \cup {rx.w}
           /\ rx'.w = After(rx.w)
           /\ UNCHANGED <<rx.r, rx.pc, rx.at, rx.cut>>
           /\ rx'.frame \in {f, rx.frame}
           /\ rx'.crossed = IF rx.pc = "renew" THEN rx.crossed + 1 ELSE rx.crossed
           /\ RingTypeOK'
<1> DEFINE d == [rx.data EXCEPT ![rx.w] = f]
           n == IF rx.pc = "renew" THEN rx.crossed + 1 ELSE rx.crossed
<1>1. /\ rx.w \notin rx.taken
      /\ rx.pc = "renew" => rx.crossed < MaxCrossed
  BY DEF RecvCb
<1>2. PICK last \in {f, rx.frame} :
        rx' = [rx EXCEPT !.data = d, !.taken = rx.taken \cup {rx.w}, !.w = After(rx.w),
                         !.frame = last, !.crossed = n]
  <2>1. PICK last \in IF rx.pc = "renew" /\ rx.w = rx.at THEN {f, rx.frame} ELSE {rx.frame} :
          rx' = [rx EXCEPT !.data = d, !.taken = rx.taken \cup {rx.w}, !.w = After(rx.w),
                           !.frame = last, !.crossed = n]
    BY Zenon DEF RecvCb
  <2> QED BY <2>1
<1>3. d \in [Slot -> Frames \cup {NoFrame}] /\ After(rx.w) \in Slot
  BY AfterSlot DEF RingTypeOK
<1>4. n \in 0..MaxCrossed
  BY <1>1, RingAssumption DEF RingTypeOK
<1> HIDE DEF d, n
<1>5. /\ rx'.data = d
      /\ rx'.taken = rx.taken \cup {rx.w}
      /\ rx'.w = After(rx.w)
      /\ UNCHANGED <<rx.r, rx.pc, rx.at, rx.cut>>
      /\ rx'.frame = last /\ rx'.crossed = n
      /\ RingTypeOK'
  BY <1>2, <1>3, <1>4 DEF RingTypeOK
<1> QED BY <1>1, <1>5 DEF d, n

\* A frame goes to a free slot w, and w steps on: whoever reads from x finds it,
\* in its turn or at once.
LEMMA FillKeepsTurn ==
    ASSUME RingTypeOK, rx.w \notin rx.taken, NEW x \in Slot,
           rx'.taken = rx.taken \cup {rx.w}, rx'.w = After(rx.w)
    PROVE  /\ RoomOrFrames(x) => RoomOrFrames(x)'
           /\ Queued(x) => Queued(x)'
<1>1. /\ rx.w \in Slot /\ rx.taken \subseteq Slot
      /\ After(rx.w) = IF rx.w + 1 = RxN THEN 0 ELSE rx.w + 1
  BY AfterSlot DEF RingTypeOK
<1>2. RoomOrFrames(x) => RoomOrFrames(x)'
  BY <1>1, RingAssumption DEF RoomOrFrames, Between, Slot
<1>3. Queued(x) => Queued(x)'
  BY <1>1, RingAssumption DEF Queued, Between, Slot
<1> QED BY <1>2, <1>3

\* The interrupt keeps the invariant of the ring, if it comes once at most while
\* main fills a slot.
LEMMA RecvKeepsRing ==
    ASSUME MaxCrossed <= 1, RingInv, NEW f \in Frames, RecvCb(f)
    PROVE  RingInv'
<1>1. /\ rx.w \notin rx.taken
      /\ rx.pc = "renew" => rx.crossed < MaxCrossed
      /\ rx'.taken = rx.taken \cup {rx.w}
      /\ rx'.w = After(rx.w)
      /\ UNCHANGED <<rx.r, rx.pc, rx.at, rx.cut>>
      /\ rx'.crossed = IF rx.pc = "renew" THEN rx.crossed + 1 ELSE rx.crossed
      /\ RingTypeOK'
  BY RecvWrites DEF RingInv
<1>2. Reads' = Reads /\ Reads \subseteq Slot
  BY <1>1, AfterSlot DEF RingInv, RingTypeOK, Reads
<1>3. \A x \in Reads : (RoomOrFrames(x) => RoomOrFrames(x)') /\ (Queued(x) => Queued(x)')
  BY <1>1, <1>2, FillKeepsTurn DEF RingInv
<1>4. RenewInv'
  <2>1. CASE rx.pc = "renew"
    <3>1. rx.crossed = 0 /\ rx'.crossed = 1
      BY <1>1, <2>1, RingAssumption DEF RingInv, RingTypeOK
    <3> QED BY <1>1, <2>1, <3>1 DEF RingInv, RenewInv
  <2>2. CASE rx.pc # "renew"
    BY <1>1, <2>2 DEF RingInv, RenewInv
  <2> QED BY <2>1, <2>2
<1> QED BY <1>1, <1>2, <1>3, <1>4 DEF RingInv, TurnInv, QueueInv

\* What a reset writes.
LEMMA ResetWrites ==
    ASSUME RingTypeOK, InitCb
    PROVE  /\ rx'.taken = {} /\ rx'.w = 0 /\ rx'.r = 0
           /\ rx'.cut <=> rx.pc # "idle"
           /\ UNCHANGED <<rx.data, rx.pc, rx.at, rx.frame, rx.crossed>>
           /\ RingTypeOK'
<1>1. PICK b \in BOOLEAN : b = (rx.pc # "idle")
  OBVIOUS
<1>2. rx' = [rx EXCEPT !.taken = {}, !.w = 0, !.r = 0, !.cut = b]
  BY <1>1, Zenon DEF InitCb
<1>3. 0 \in Slot
  BY RingAssumption DEF Slot
<1>4. /\ rx'.taken = {} /\ rx'.w = 0 /\ rx'.r = 0 /\ rx'.cut = b
      /\ UNCHANGED <<rx.data, rx.pc, rx.at, rx.frame, rx.crossed>>
      /\ RingTypeOK'
  BY <1>2, <1>3 DEF RingTypeOK
<1> QED BY <1>1, <1>4

\* A reset empties the ring; what it finds usb_ncm_poll in the middle of goes on.
LEMMA ResetKeepsRing ==
    ASSUME RingInv, InitCb
    PROVE  RingInv'
<1>1. /\ rx'.taken = {} /\ rx'.w = 0 /\ rx'.r = 0
      /\ rx'.cut <=> rx.pc # "idle"
      /\ UNCHANGED <<rx.data, rx.pc, rx.at, rx.frame, rx.crossed>>
      /\ RingTypeOK'
  BY ResetWrites DEF RingInv
<1>2. TurnInv'
  BY <1>1 DEF TurnInv, RoomOrFrames
<1>3. QueueInv'
  <2>1. Between(0, 0) = {}
    BY DEF Between, Slot
  <2>2. Queued(0)'
    BY <1>1, <2>1 DEF Queued
  <2> QED BY <1>1, <2>2 DEF QueueInv, Reads
<1>4. RenewInv'
  BY <1>1 DEF RingInv, RenewInv
<1> QED BY <1>1, <1>2, <1>3, <1>4 DEF RingInv

\* What main writes when it begins to fill a slot, ...
LEMMA RenewBeginWrites ==
    ASSUME RingTypeOK, NEW f \in Frames, RenewBegin(f)
    PROVE  /\ rx.pc = "idle" /\ rx.w \notin rx.taken
           /\ rx'.pc = "renew" /\ rx'.at = rx.w /\ rx'.frame = f
           /\ UNCHANGED <<rx.data, rx.taken, rx.w, rx.r, rx.cut, rx.crossed>>
           /\ RingTypeOK'
BY DEF RenewBegin, RingTypeOK

\* ... and when it has.
LEMMA RenewEndWrites ==
    ASSUME RingTypeOK, RenewEnd
    PROVE  /\ rx.pc = "renew" /\ rx'.pc = "idle" /\ rx'.crossed = 0
           /\ rx'.data = [rx.data EXCEPT ![rx.at] = rx.frame]
           /\ rx'.taken = rx.taken \cup {rx.at}
           /\ rx'.w = After(rx.at)
           /\ UNCHANGED <<rx.r, rx.cut>>
           /\ RingTypeOK'
<1> DEFINE d == [rx.data EXCEPT ![rx.at] = rx.frame]
<1>1. /\ rx.pc = "renew"
      /\ rx' = [rx EXCEPT !.data = d, !.taken = rx.taken \cup {rx.at}, !.w = After(rx.at),
                          !.pc = "idle", !.at = 0, !.frame = NoFrame, !.crossed = 0]
  BY Zenon DEF RenewEnd
<1>2. /\ d \in [Slot -> Frames \cup {NoFrame}] /\ After(rx.at) \in Slot
      /\ 0 \in Slot /\ 0 \in 0..MaxCrossed
  BY AfterSlot, RingAssumption DEF RingTypeOK, Slot
<1> HIDE DEF d
<1>3. /\ rx'.pc = "idle" /\ rx'.crossed = 0 /\ rx'.data = d
      /\ rx'.taken = rx.taken \cup {rx.at} /\ rx'.w = After(rx.at)
      /\ UNCHANGED <<rx.r, rx.cut>>
      /\ RingTypeOK'
  BY <1>1, <1>2 DEF RingTypeOK
<1> QED BY <1>1, <1>3 DEF d

\* Main fills the slot that it found free; what the interrupt has put there, or a
\* reset emptied, leaves a ring that goes on.
LEMMA RenewKeepsRing ==
    ASSUME RingInv, RenewEnd \/ \E f \in Frames : RenewBegin(f)
    PROVE  RingInv'
<1>1. CASE RenewEnd
  <2>1. /\ rx.pc = "renew" /\ rx'.pc = "idle" /\ rx'.crossed = 0
        /\ rx'.taken = rx.taken \cup {rx.at}
        /\ rx'.w = After(rx.at)
        /\ UNCHANGED <<rx.r, rx.cut>>
        /\ RingTypeOK'
    BY <1>1, RenewEndWrites DEF RingInv
  <2>2. Reads = {rx.r} /\ Reads' = {rx.r} /\ rx.r \in Slot /\ rx.at \in Slot
    BY <2>1 DEF Reads, RingInv, RingTypeOK
  <2>3. RenewInv'
    BY <2>1 DEF RenewInv
  <2>4. CASE rx.w = rx.at /\ rx.at \notin rx.taken
    BY <2>1, <2>2, <2>3, <2>4, FillKeepsTurn DEF RingInv, TurnInv, QueueInv
  <2>5. CASE rx.w = After(rx.at) /\ rx.at \in rx.taken
    <3>1. UNCHANGED <<rx.taken, rx.w>>
      BY <2>1, <2>5
    <3> QED BY <2>1, <2>2, <2>3, <3>1
            DEF RingInv, TurnInv, QueueInv, RoomOrFrames, Queued
  <2>6. CASE rx.cut /\ rx.r = 0 /\ rx.taken \subseteq {0}
    <3>1. After(rx.at) = IF rx.at + 1 = RxN THEN 0 ELSE rx.at + 1
      BY <2>2, AfterSlot
    <3>2. RoomOrFrames(0)'
      BY <2>1, <2>2, <2>6, <3>1 DEF RoomOrFrames, Between, Slot
    <3> QED BY <2>1, <2>2, <2>3, <2>6, <3>2 DEF RingInv, TurnInv, QueueInv
  <2> QED BY <2>1, <2>4, <2>5, <2>6 DEF RingInv, RenewInv
<1>2. ASSUME NEW f \in Frames, RenewBegin(f)
      PROVE  RingInv'
  <2>1. /\ rx.pc = "idle" /\ rx.w \notin rx.taken
        /\ rx'.pc = "renew" /\ rx'.at = rx.w
        /\ UNCHANGED <<rx.taken, rx.w, rx.r, rx.cut, rx.crossed>>
        /\ RingTypeOK'
    BY <1>2, RenewBeginWrites DEF RingInv
  <2>2. RenewInv'
    BY <2>1 DEF RingInv, RenewInv
  <2> QED BY <2>1, <2>2 DEF RingInv, TurnInv, QueueInv, Reads, RoomOrFrames, Queued
<1> QED BY <1>1, <1>2

\* The steps by which usb_ncm_poll empties a slot.
Drain == PollTake \/ PollInput \/ PollClear \/ PollNext

\* What they write.
LEMMA DrainWrites ==
    ASSUME RingTypeOK, Drain
    PROVE  /\ RingTypeOK' /\ rx.pc # "renew" /\ rx'.pc # "renew"
           /\ UNCHANGED <<rx.data, rx.w, rx.cut, rx.frame, rx.crossed>>
           /\ rx'.taken \subseteq rx.taken
<1>1. CASE PollTake \/ PollInput
  <2>1. PICK p \in {"take", "input"} : rx' = [rx EXCEPT !.pc = p]
    BY <1>1 DEF PollTake, PollInput
  <2> QED BY <1>1, <2>1 DEF RingTypeOK, PollTake, PollInput
<1>2. CASE PollClear
  <2>1. rx.pc = "input" /\ rx' = [rx EXCEPT !.pc = "clear", !.at = rx.r, !.taken = rx.taken \ {rx.r}]
    BY <1>2, Zenon DEF PollClear
  <2> QED BY <2>1 DEF RingTypeOK
<1>3. CASE PollNext
  <2>1. PICK i \in {rx.at, rx.r} : rx' = [rx EXCEPT !.pc = "idle", !.at = 0, !.r = After(i)]
    BY <1>3 DEF PollNext
  <2>2. After(i) \in Slot /\ 0 \in Slot /\ rx.pc = "clear"
    BY <1>3, AfterSlot, RingAssumption DEF RingTypeOK, Slot, PollNext
  <2> QED BY <2>1, <2>2 DEF RingTypeOK
<1> QED BY <1>1, <1>2, <1>3 DEF Drain

\* They keep the invariant of the ring.
LEMMA DrainKeepsRing ==
    ASSUME RingInv, Drain
    PROVE  RingInv'
<1>0. /\ RingTypeOK' /\ rx.pc # "renew" /\ rx'.pc # "renew"
      /\ UNCHANGED <<rx.w, rx.cut, rx.crossed>>
  BY DrainWrites DEF RingInv
<1>r. RenewInv'
  BY <1>0 DEF RingInv, RenewInv
<1> SUFFICES TurnInv' /\ QueueInv'
  BY <1>0, <1>r DEF RingInv
<1> USE DEF RingInv
<1>1. CASE PollTake \/ PollInput
  <2>1. PICK p \in {"take", "input"} : rx' = [rx EXCEPT !.pc = p]
    BY <1>1 DEF PollTake, PollInput
  <2>2. /\ rx'.pc = p /\ UNCHANGED <<rx.taken, rx.r, rx.at>>
    BY <2>1 DEF RingTypeOK
  <2>3. rx.pc # "clear" /\ (rx.pc = "take" \/ rx.r \in rx.taken)
    BY <1>1 DEF PollTake, PollInput
  <2> QED BY <1>0, <2>2, <2>3 DEF TurnInv, QueueInv, Reads, RoomOrFrames, Queued
<1>2. CASE PollClear
  <2>1. rx.pc = "input" /\ rx' = [rx EXCEPT !.pc = "clear", !.at = rx.r, !.taken = rx.taken \ {rx.r}]
    BY <1>2, Zenon DEF PollClear
  <2>2. /\ rx'.pc = "clear" /\ rx'.at = rx.r /\ rx'.taken = rx.taken \ {rx.r}
        /\ UNCHANGED rx.r
    BY <2>1 DEF RingTypeOK
  <2>3. Reads' = {After(rx.r)} /\ Reads = {rx.r}
    BY <2>1, <2>2 DEF Reads
  <2>4. /\ rx.r \in Slot /\ rx.w \in Slot /\ rx.taken \subseteq Slot
        /\ After(rx.r) = IF rx.r + 1 = RxN THEN 0 ELSE rx.r + 1
    BY AfterSlot DEF RingTypeOK
  <2>5. RoomOrFrames(rx.r) => RoomOrFrames(After(rx.r))'
    BY <1>0, <2>2, <2>4, RingAssumption DEF RoomOrFrames, Between, Slot
  <2>6. Queued(rx.r) /\ rx.r \in rx.taken => Queued(After(rx.r))'
    BY <1>0, <2>2, <2>4, RingAssumption DEF Queued, Between, Slot
  <2> QED BY <1>0, <2>1, <2>2, <2>3, <2>5, <2>6 DEF TurnInv, QueueInv
<1>3. CASE PollNext
  <2>1. PICK i \in {rx.at, rx.r} : rx' = [rx EXCEPT !.pc = "idle", !.at = 0, !.r = After(i)]
    BY <1>3 DEF PollNext
  <2>2. rx'.pc = "idle" /\ rx'.r = After(i) /\ UNCHANGED rx.taken
    BY <2>1 DEF RingTypeOK
  <2>3. Reads' \subseteq Reads
    BY <1>3, <2>2 DEF Reads, PollNext
  <2> QED BY <1>0, <2>2, <2>3 DEF TurnInv, QueueInv, RoomOrFrames, Queued
<1> QED BY <1>1, <1>2, <1>3 DEF Drain

\* An empty ring satisfies it.
LEMMA RingInitHolds == RingInit => RingInv
<1> SUFFICES ASSUME RingInit PROVE RingInv
  OBVIOUS
<1>1. 0 \in Slot
  BY RingAssumption DEF Slot
<1>2. Between(0, 0) = {}
  BY DEF Between, Slot
<1> QED BY <1>1, <1>2, RingAssumption DEF RingInit, RingInv, RingTypeOK, TurnInv, QueueInv,
           RenewInv, Reads, RoomOrFrames, Queued

\* Sums and differences of slots around the ring.
LEMMA RoundTheRing ==
    ASSUME NEW a \in Slot, NEW b \in Slot
    PROVE  /\ (a + b) % RxN = IF a + b < RxN THEN a + b ELSE a + b - RxN
           /\ (b - a) % RxN = IF a <= b THEN b - a ELSE b - a + RxN
BY RingAssumption DEF Slot

\* How many numbers there are from a to before b.
LEMMA IntervalCount ==
    ASSUME NEW a \in Int, NEW b \in Int, a <= b
    PROVE  IsFiniteSet(a..(b - 1)) /\ Cardinality(a..(b - 1)) = b - a
<1>1. b - 1 \in Int
  OBVIOUS
<1>2. /\ IsFiniteSet(a..(b - 1))
      /\ Cardinality(a..(b - 1)) = IF a > b - 1 THEN 0 ELSE (b - 1) - a + 1
  BY <1>1, FS_Interval
<1> QED BY <1>2

\* As many slots lie from a up to b as it takes to step from a to b.
LEMMA BetweenCount ==
    ASSUME NEW a \in Slot, NEW b \in Slot
    PROVE  Cardinality(Between(a, b)) = IF a <= b THEN b - a ELSE b - a + RxN
<1> USE RingAssumption DEF Slot
<1>1. CASE a <= b
  <2>1. Between(a, b) = a..(b - 1)
    BY <1>1 DEF Between
  <2>2. Cardinality(a..(b - 1)) = b - a
    BY <1>1, IntervalCount
  <2> QED BY <1>1, <2>1, <2>2
<1>2. CASE b < a
  <2> DEFINE L == 0..(b - 1)
             H == a..(RxN - 1)
  <2>1. Between(a, b) = L \cup H /\ L \cap H = {}
    BY <1>2 DEF Between
  <2>2. IsFiniteSet(L) /\ Cardinality(L) = b - 0
    BY <1>2, IntervalCount
  <2>3. IsFiniteSet(H) /\ Cardinality(H) = RxN - a
    BY <1>2, IntervalCount
  <2> HIDE DEF L, H
  <2>4. Cardinality(L \cup H) = Cardinality(L) + Cardinality(H) - Cardinality({})
    BY <2>1, <2>2, <2>3, FS_Union
  <2> QED BY <1>2, <2>1, <2>2, <2>3, <2>4, FS_EmptySet
<1> QED BY <1>1, <1>2

\* A queue from x on is what RingAligned says of it.
LEMMA QueuedAligned ==
    ASSUME RingTypeOK, NEW x \in Slot, Queued(x)
    PROVE  /\ (rx.w - x) % RxN = Cardinality(rx.taken) % RxN
           /\ \A k \in 0..(Cardinality(rx.taken) - 1) : (x + k) % RxN \in rx.taken
<1> DEFINE n == Cardinality(rx.taken)
<1>1. rx.w \in Slot
  BY DEF RingTypeOK
<1>2. CASE rx.taken = Between(x, rx.w)
  <2>1. n = IF x <= rx.w THEN rx.w - x ELSE rx.w - x + RxN
    BY <1>1, <1>2, BetweenCount
  <2>2. n = (rx.w - x) % RxN
    BY <1>1, <2>1, RoundTheRing
  <2>3. n \in Slot
    BY <1>1, <2>1, RingAssumption DEF Slot
  <2>4. ASSUME NEW k \in 0..(n - 1)
        PROVE  (x + k) % RxN \in rx.taken
    <3>1. k \in Slot
      BY <2>3, RingAssumption DEF Slot
    <3>2. (x + k) % RxN = IF x + k < RxN THEN x + k ELSE x + k - RxN
      BY <3>1, RoundTheRing
    <3> QED BY <1>1, <1>2, <2>1, <3>2, RingAssumption DEF Slot, Between
  <2>5. n % RxN = n
    BY <2>3, RingAssumption DEF Slot
  <2> QED BY <2>2, <2>4, <2>5
<1>3. CASE x = rx.w /\ rx.taken = Slot
  <2>1. n = RxN - 0
    <3>1. RxN \in Int /\ 0 <= RxN
      BY RingAssumption
    <3>2. Cardinality(0..(RxN - 1)) = RxN - 0
      BY <3>1, IntervalCount
    <3> QED BY <1>3, <3>2 DEF Slot
  <2>2. (rx.w - x) % RxN = 0 /\ RxN % RxN = 0
    BY <1>1, <1>3, RingAssumption DEF Slot
  <2>3. \A k \in Nat : (x + k) % RxN \in Slot
    BY RingAssumption DEF Slot
  <2> QED BY <1>3, <2>1, <2>2, <2>3, RingAssumption
<1> QED BY <1>2, <1>3 DEF Queued

\* The invariant gives the alignment of the two ends of the ring.
LEMMA RingInvAligned == RingInv => RingAligned
<1> SUFFICES ASSUME RingInv, ~rx.cut
             PROVE  LET r == IF rx.pc = "clear" THEN After(rx.r) ELSE rx.r
                    IN  /\ (rx.w - r) % RxN = Cardinality(rx.taken) % RxN
                        /\ \A k \in 0..(Cardinality(rx.taken) - 1) : (r + k) % RxN \in rx.taken
  BY DEF RingAligned
<1> DEFINE r == IF rx.pc = "clear" THEN After(rx.r) ELSE rx.r
<1>1. r \in Slot
  BY AfterSlot DEF RingInv, RingTypeOK
<1>2. Queued(r)
  BY DEF RingInv, QueueInv, Reads
<1> QED BY <1>1, <1>2, QueuedAligned DEF RingInv

\* It also says that a full ring has a frame for the reader.
LEMMA RingInvMoves == RingInv => RingNeverStuck
<1> SUFFICES ASSUME RingInv, rx.pc = "idle", rx.w \in rx.taken
             PROVE  rx.r \in rx.taken
  BY DEF RingNeverStuck
<1>1. RoomOrFrames(rx.r) /\ rx.r \in Slot /\ rx.w \in Slot
  BY DEF RingInv, TurnInv, RingTypeOK, Reads
<1>2. rx.r \notin Between(rx.w, rx.r)
  BY <1>1 DEF Between, Slot
<1>3. rx.w # rx.r => rx.w \in Between(rx.w, rx.r)
  BY <1>1 DEF Between, Slot
<1> QED BY <1>1, <1>2, <1>3 DEF RoomOrFrames

-----------------------------------------------------------------------------
(* The addresses                                                           *)

Addresses == 0..Leases \cup {NoAddr}
Messages == [mac : Clients, type : {"discover", "request"}, req : Addresses]

NetTypeOK ==
    /\ lease \in [Slots -> Clients \cup {Nobody}]
    /\ link \in {"usb", "ap"}
    /\ host \in [Clients -> [st : {"off", "discover", "request", "bound"}, addr : Addresses]]
    /\ brought \subseteq Clients
    /\ evicted \in BOOLEAN

\* The ring is for USB and the other hosts are on SoftAP.
LinkInv ==
    /\ link = "ap" => rx.pc = "idle" /\ rx.taken = {}
    /\ link = "usb" => \A c \in Clients \ {UsbHost} : host[c].st = "off"

\* usb_ncm_poll hands over a frame that came, also when a reset has made it read
\* another slot than it looked at: the first frame ever went to slot 0.
FrameInv ==
    /\ \A x \in rx.taken : rx.data[x] \in Frames
    /\ rx.pc \in {"take", "input"} => rx.data[rx.r] \in Frames
    /\ rx.pc = "renew" => rx.frame \in Frames
    /\ \/ rx.data[0] \in Frames
       \/ /\ rx.taken = {} /\ rx.w = 0
          /\ rx.pc = "idle" \/ (rx.pc = "renew" /\ rx.at = 0)

\* A host that has asked only for addresses that this table gave it has its address
\* alone among such hosts, and no other of them can be given it.
ApartInv ==
    /\ \A c \in Clients : host[c].st = "bound" => host[c].addr \in Slots
    /\ link = "ap" /\ ~evicted =>
         \A c \in Clients \ brought : host[c].addr \in Slots =>
             /\ lease[host[c].addr] \in {c} \cup brought
             /\ \A d \in Clients \ brought : c # d => host[d].addr # host[c].addr

NetInv == RingTypeOK /\ NetTypeOK /\ LinkInv /\ FrameInv /\ ApartInv

\* Emptying a slot leaves its bytes.
LEMMA DrainKeepsFrames ==
    ASSUME RingTypeOK, FrameInv, Drain
    PROVE  FrameInv'
<1>1. /\ UNCHANGED <<rx.data, rx.w>> /\ rx'.taken \subseteq rx.taken
      /\ rx.pc # "renew" /\ rx'.pc # "renew"
  BY DrainWrites
<1>2. rx'.pc \in {"take", "input"} =>
        rx'.r = rx.r /\ (rx.r \in rx.taken \/ rx.pc \in {"take", "input"})
  BY DEF Drain, PollTake, PollInput, PollClear, PollNext, RingTypeOK
<1>3. rx.pc # "idle" \/ rx.taken # {}
  BY DEF Drain, PollTake, PollInput, PollClear, PollNext
<1> QED BY <1>1, <1>2, <1>3 DEF FrameInv

\* A slot is filled with a frame, by the interrupt or by main.
LEMMA FillKeepsFrames ==
    ASSUME RingTypeOK, FrameInv,
           RenewEnd \/ \E f \in Frames : RecvCb(f) \/ RenewBegin(f)
    PROVE  FrameInv'
<1>0. /\ rx.data \in [Slot -> Frames \cup {NoFrame}] /\ rx.taken \subseteq Slot
      /\ rx.w \in Slot /\ rx.at \in Slot /\ 0 \in Slot
  BY RingAssumption DEF RingTypeOK, Slot
<1>1. CASE RenewEnd
  BY <1>0, <1>1, RenewEndWrites DEF FrameInv
<1>2. ASSUME NEW f \in Frames, RecvCb(f)
      PROVE  FrameInv'
  <2>1. /\ rx'.data = [rx.data EXCEPT ![rx.w] = f]
        /\ rx'.taken = rx.taken \cup {rx.w}
        /\ UNCHANGED <<rx.r, rx.pc, rx.at>>
        /\ rx'.frame \in {f, rx.frame}
    BY <1>2, RecvWrites
  <2> QED BY <1>0, <1>2, <2>1 DEF FrameInv
<1>3. ASSUME NEW f \in Frames, RenewBegin(f)
      PROVE  FrameInv'
  BY <1>3, RenewBeginWrites DEF FrameInv
<1> QED BY <1>1, <1>2, <1>3

\* A nonempty set of naturals has a least element.
LEMMA LeastNatural ==
    ASSUME NEW T \in SUBSET Nat, T # {}
    PROVE  Min(T) \in T
<1>1. PICK x \in T : \A y \in T : ~ (<<y, x>> \in OpToRel(<, Nat))
  BY NatLessThanWellFounded, WFMin
<1>2. ASSUME NEW y \in T
      PROVE  x <= y
  <2>1. ~(<<y, x>> \in OpToRel(<, Nat))
    BY <1>1
  <2>2. <<y, x>> \in Nat \X Nat
    OBVIOUS
  <2>3. ~(y < x)
    BY <2>1, <2>2 DEF OpToRel
  <2> QED BY <2>3
<1> QED BY <1>2 DEF Min

\* The slot a message gets: the one it names, else the client's own or an empty
\* one, unless the client evicts another.
LEMMA GivenSlot ==
    ASSUME NEW l \in [Slots -> Clients \cup {Nobody}], NEW m \in Messages
    PROVE  /\ Given(l, m) \in Slots
           /\ Named(m) => Given(l, m) = m.req
           /\ ~Named(m) /\ (\E i \in Slots : l[i] = m.mac) => l[Given(l, m)] = m.mac
           /\ ~Named(m) /\ ~Evicts(l, m) => l[Given(l, m)] \in {m.mac, Nobody}
<1> DEFINE mine  == { i \in Slots : l[i] = m.mac }
           empty == { i \in Slots : l[i] = Nobody }
<1>1. mine \in SUBSET Nat /\ empty \in SUBSET Nat /\ 0 \in Slots
  BY DhcpAssumption DEF Slots
<1>2. (mine # {} => Min(mine) \in mine) /\ (empty # {} => Min(empty) \in empty)
  BY <1>1, LeastNatural
<1>3. SlotFor(l, m.mac) = IF mine # {} THEN Min(mine) ELSE IF empty # {} THEN Min(empty) ELSE 0
  BY DEF SlotFor
<1> HIDE DEF mine, empty
<1>4. mine \subseteq Slots /\ empty \subseteq Slots
  BY DEF mine, empty
<1>5. SlotFor(l, m.mac) \in Slots
  BY <1>1, <1>2, <1>3, <1>4
<1>6. mine # {} => l[SlotFor(l, m.mac)] = m.mac
  BY <1>2, <1>3 DEF mine
<1>7. mine = {} /\ empty # {} => l[SlotFor(l, m.mac)] = Nobody
  BY <1>2, <1>3 DEF empty
<1>8. mine = {} /\ empty = {} => \A i \in Slots : l[i] \notin {m.mac, Nobody}
  BY DEF mine, empty
<1>9. (\E i \in Slots : l[i] = m.mac) => mine # {}
  BY DEF mine
<1> QED BY <1>5, <1>6, <1>7, <1>8, <1>9 DEF Given, Named, Evicts

\* The second coming of a message changes nothing: the slot it was given is the
\* one it gets again.
LEMMA TwiceIsOnce ==
    ASSUME NEW l \in [Slots -> Clients \cup {Nobody}], NEW m \in Messages
    PROVE  HandleTwice(l, m) = [l EXCEPT ![Given(l, m)] = m.mac]
<1> DEFINE g  == Given(l, m)
           l1 == [l EXCEPT ![g] = m.mac]
           g1 == Given(l1, m)
<1>1. g \in Slots /\ m.mac \in Clients
  BY GivenSlot DEF Messages
<1>2. l1 \in [Slots -> Clients \cup {Nobody}]
  BY <1>1
<1>3. HandleTwice(l, m) = [l1 EXCEPT ![g1] = m.mac]
  BY DEF HandleTwice, HandleBootp
<1>4. g1 \in Slots /\ l1[g] = m.mac
  BY <1>1, <1>2, GivenSlot
<1>5. CASE Named(m)
  <2>1. g1 = m.req /\ g = m.req
    BY <1>2, <1>5, GivenSlot
  <2> QED BY <1>1, <1>2, <1>3, <2>1
<1>6. CASE ~Named(m)
  <2>1. l1[g1] = m.mac
    BY <1>1, <1>2, <1>4, <1>6, GivenSlot
  <2> HIDE DEF l1, g1
  <2>2. [l1 EXCEPT ![g1] = m.mac] = l1
    BY <1>2, <1>4, <2>1
  <2> QED BY <1>3, <2>2 DEF l1
<1> QED BY <1>5, <1>6

\* What the host that sent m does when it hears the answer: nothing, or it takes
\* the address.
LEMMA ToldHost ==
    ASSUME NetTypeOK, NEW m \in Messages, NEW addr \in Slots, Told(m, addr)
    PROVE  \/ UNCHANGED host
           \/ \E st \in {"request", "bound"} :
                 host' = [host EXCEPT ![m.mac] = [st |-> st, addr |-> addr]]
BY DEF Told, Become

\* The server answers a question m that host m.mac asks.
LEMMA ServeKeepsAddresses ==
    ASSUME NetTypeOK, ApartInv, NEW m \in Messages, NEW heard \in BOOLEAN,
           m.req \in Slots /\ m.type = "request" => m.req = host[m.mac].addr \/ link = "usb",
           Serve(m, heard), UNCHANGED <<link, brought>>
    PROVE  /\ NetTypeOK' /\ ApartInv'
           /\ \A c \in Clients : c # m.mac => host'[c] = host[c]
<1> DEFINE g == Given(lease, m)
<1>1. g \in Slots /\ m.mac \in Clients /\ Slots \subseteq Addresses
  BY GivenSlot, DhcpAssumption DEF NetTypeOK, Messages, Slots, Addresses
<1>2. lease' = [lease EXCEPT ![g] = m.mac]
  BY TwiceIsOnce DEF Serve, NetTypeOK
<1>3. evicted' = (evicted \/ Evicts(lease, m))
  BY DEF Serve
<1>4. \/ UNCHANGED host
      \/ \E st \in {"request", "bound"} :
            host' = [host EXCEPT ![m.mac] = [st |-> st, addr |-> g]]
  BY <1>1, ToldHost DEF Serve
<1>5. Named(m) => g = m.req /\ m.req \in Slots /\ m.type = "request"
  BY GivenSlot DEF NetTypeOK, Named
<1>6. ~Named(m) /\ ~Evicts(lease, m) => lease[g] \in {m.mac, Nobody}
  BY GivenSlot DEF NetTypeOK
<1> HIDE DEF g
<1>7. NetTypeOK'
  <2>1. lease' \in [Slots -> Clients \cup {Nobody}]
    BY <1>1, <1>2 DEF NetTypeOK
  <2>2. host' \in [Clients -> [st : {"off", "discover", "request", "bound"}, addr : Addresses]]
    BY <1>1, <1>4 DEF NetTypeOK
  <2>3. evicted' \in BOOLEAN
    BY <1>3
  <2> QED BY <2>1, <2>2, <2>3 DEF NetTypeOK
<1>8. \A c \in Clients : host'[c] = host[c] \/ (c = m.mac /\ host'[c].addr = g)
  BY <1>1, <1>4 DEF NetTypeOK
<1>9. ApartInv'
  <2>1. ASSUME NEW c \in Clients, host'[c].st = "bound"
        PROVE  host'[c].addr \in Slots
    BY <1>1, <1>8, <2>1 DEF ApartInv
  <2>2. ASSUME link = "ap", ~evicted', NEW c \in Clients \ brought, host'[c].addr \in Slots
        PROVE  /\ lease'[host'[c].addr] \in {c} \cup brought
               /\ \A d \in Clients \ brought : c # d => host'[d].addr # host'[c].addr
    <3>1. ~evicted /\ ~Evicts(lease, m)
      BY <1>3, <2>2
    <3>2. ASSUME NEW d \in Clients \ brought, host[d].addr \in Slots
          PROVE  /\ lease[host[d].addr] \in {d} \cup brought
                 /\ \A e \in Clients \ brought : d # e => host[e].addr # host[d].addr
      BY <2>2, <3>1, <3>2 DEF ApartInv
    <3>3. ASSUME NEW d \in Clients \ brought, d # m.mac, m.mac \notin brought
          PROVE  host[d].addr # g
      <4>1. CASE Named(m)
        BY <1>1, <1>5, <2>2, <3>2, <3>3, <4>1
      <4>2. CASE ~Named(m)
        <5>1. lease[g] \in {m.mac, Nobody}
          BY <1>6, <3>1, <4>2
        <5>2. host[d].addr = g => lease[g] \in {d} \cup brought
          BY <1>1, <3>2
        <5> QED BY <3>3, <5>1, <5>2, DhcpAssumption DEF NetTypeOK
      <4> QED BY <4>1, <4>2
    <3>4. \A d \in Clients \ brought : d # m.mac /\ m.mac \notin brought => host'[d].addr # g
      BY <1>8, <3>3
    <3>5. lease'[host'[c].addr] \in {c} \cup brought
      BY <1>1, <1>2, <1>8, <2>2, <3>2, <3>4 DEF NetTypeOK
    <3>6. ASSUME NEW d \in Clients \ brought, c # d
          PROVE  host'[d].addr # host'[c].addr
      BY <1>8, <2>2, <3>2, <3>3, <3>6
    <3> QED BY <3>5, <3>6
  <2> QED BY <2>1, <2>2 DEF ApartInv
<1> QED BY <1>7, <1>8, <1>9

\* What a host asks is a message of its own, and the address it names its own.
LEMMA AskedMessage ==
    ASSUME NetTypeOK, NEW c \in Clients, NEW m \in Asks(c)
    PROVE  /\ m \in Messages /\ m.mac = c
           /\ m.req \in {host[c].addr, NoAddr}
BY DEF NetTypeOK, Asks, Message, Messages, Addresses

\* The state at power-on satisfies the invariant of the network.
LEMMA NetInit == Init => NetInv
<1> SUFFICES ASSUME Init PROVE NetInv
  OBVIOUS
<1>1. RingTypeOK
  BY RingInitHolds DEF Init, RingInv
<1>2. NetTypeOK
  BY NetworkAssumption DEF Init, NetTypeOK, NoLeases, Addresses
<1>3. LinkInv /\ FrameInv
  BY DEF Init, RingInit, LinkInv, FrameInv
<1>4. ApartInv
  BY DhcpAssumption DEF Init, ApartInv, Slots
<1> QED BY <1>1, <1>2, <1>3, <1>4 DEF NetInv

\* A host that asks, leaves or comes back changes nothing but what it is doing; the
\* address it asks for is the one it had, or brought along.
LEMMA HostStep ==
    ASSUME NetInv, NEW c \in Clients,
           Discover(c) \/ Rejoin(c) \/ Arrive(c) \/ Leave(c)
    PROVE  NetInv'
<1>1. UNCHANGED <<rx, lease, link, evicted>> /\ c \in Hosts
  BY DEF Discover, Rejoin, Arrive, Leave, HostOnly
<1>2. PICK st \in {"off", "discover", "request"}, addr \in Addresses :
        /\ host' = [host EXCEPT ![c] = [st |-> st, addr |-> addr]]
        /\ brought' \in {brought, brought \cup {c}}
        /\ addr \in Slots => addr = host[c].addr \/ c \in brought'
  <2>1. CASE Arrive(c)
    <3>1. PICK octet \in Slots \cup {Outside} :
            /\ Become(c, "request", octet)
            /\ brought' = IF octet \in Slots THEN brought \cup {c} ELSE brought
      BY <2>1, NetworkAssumption DEF Arrive
    <3>2. octet \in Addresses
      BY <3>1, DhcpAssumption DEF Slots, Outside, Addresses
    <3> QED BY <3>1, <3>2 DEF Become
  <2>2. CASE Discover(c) \/ Rejoin(c) \/ Leave(c)
    BY <2>2 DEF Discover, Rejoin, Leave, Become, NetInv, NetTypeOK
  <2> QED BY <2>1, <2>2
<1>3. NetTypeOK'
  BY <1>1, <1>2 DEF NetInv, NetTypeOK
<1>4. RingTypeOK' /\ FrameInv'
  BY <1>1 DEF NetInv, RingTypeOK, FrameInv
<1>5. LinkInv'
  BY <1>1, <1>2 DEF NetInv, LinkInv, NetTypeOK, Hosts
<1>6. \A d \in Clients \ brought' : host'[d].addr \in Slots => host'[d].addr = host[d].addr
  BY <1>2 DEF NetInv, NetTypeOK
<1>7. \A d \in Clients : host'[d].st = "bound" => host'[d] = host[d]
  BY <1>2 DEF NetInv, NetTypeOK
<1>8. brought \subseteq brought'
  BY <1>2
<1>9. ApartInv'
  BY <1>1, <1>6, <1>7, <1>8 DEF NetInv, ApartInv
<1> QED BY <1>3, <1>4, <1>5, <1>9 DEF NetInv

\* Over SoftAP a question is answered as it comes.
LEMMA ApStep ==
    ASSUME NetInv, NEW c \in Clients, NEW heard \in BOOLEAN, ApInput(c, heard)
    PROVE  NetInv'
<1>1. PICK m \in Asks(c) : Serve(m, heard)
  BY DEF ApInput
<1>2. link = "ap" /\ UNCHANGED <<rx, link, brought>>
  BY DEF ApInput
<1>3. m \in Messages /\ (m.req \in Slots => m.req = host[m.mac].addr)
  BY AskedMessage, DhcpAssumption DEF NetInv, Slots
<1>4. NetTypeOK' /\ ApartInv'
  BY <1>1, <1>2, <1>3, ServeKeepsAddresses DEF NetInv
<1>5. RingTypeOK' /\ FrameInv'
  BY <1>2 DEF NetInv, RingTypeOK, FrameInv
<1>6. LinkInv'
  BY <1>2 DEF NetInv, LinkInv
<1> QED BY <1>4, <1>5, <1>6 DEF NetInv

\* The server starts anew: every address so far is one from before.
LEMMA StartApStep ==
    ASSUME NetInv, StartAp
    PROVE  NetInv'
<1>1. RingTypeOK' /\ FrameInv' /\ LinkInv'
  BY DEF StartAp, NetInv, RingTypeOK, FrameInv, LinkInv
<1>2. NetTypeOK'
  BY DEF StartAp, NetInv, NetTypeOK, NoLeases
<1>3. ApartInv'
  BY DEF StartAp, NetInv, ApartInv
<1> QED BY <1>1, <1>2, <1>3 DEF NetInv

\* What the USB host sends is a frame.
LEMMA AskedFrame ==
    ASSUME NetInv
    PROVE  Asks(UsbHost) \subseteq Frames
<1>1. \A m \in Asks(UsbHost) : m \in Messages /\ m.mac = UsbHost
  BY AskedMessage, NetworkAssumption DEF NetInv
<1> QED BY <1>1 DEF Messages, Frames, Addresses

\* The steps of the ring that leave the server alone.
LEMMA UsbStep ==
    ASSUME NetInv, UsbSend \/ UsbRenew \/ UsbPoll \/ UsbInputFails \/ UsbReset
    PROVE  NetInv'
<1>1. UNCHANGED <<lease, link, host, brought, evicted>>
  BY DEF UsbSend, UsbRenew, UsbPoll, UsbInputFails, UsbReset
<1>2. NetTypeOK' /\ ApartInv'
  BY <1>1 DEF NetInv, NetTypeOK, ApartInv
<1>3. link = "usb" => LinkInv'
  BY <1>1 DEF NetInv, LinkInv
<1>4. RingTypeOK /\ FrameInv
  BY DEF NetInv
<1>5. CASE UsbSend
  <2>1. PICK f \in Frames : RecvCb(f)
    BY <1>5, AskedFrame DEF UsbSend
  <2> QED BY <1>2, <1>3, <1>4, <1>5, <2>1, RecvWrites, FillKeepsFrames DEF NetInv, UsbSend
<1>6. CASE UsbRenew
  <2>1. PICK f \in Frames : RenewBegin(f)
    BY <1>6, AskedFrame DEF UsbRenew
  <2> QED BY <1>2, <1>3, <1>4, <1>6, <2>1, RenewBeginWrites, FillKeepsFrames
          DEF NetInv, UsbRenew
<1>7. CASE UsbPoll \/ UsbInputFails
  <2>1. Drain \/ RenewEnd
    BY <1>7 DEF UsbPoll, UsbInputFails, Poll, Drain
  <2>2. RingTypeOK' /\ FrameInv'
    BY <1>4, <2>1, DrainWrites, DrainKeepsFrames, RenewEndWrites, FillKeepsFrames
  <2>3. link = "usb"
    BY <2>1 DEF Drain, PollTake, PollInput, PollClear, PollNext, RenewEnd,
       NetInv, LinkInv, NetTypeOK
  <2> QED BY <1>2, <1>3, <2>2, <2>3 DEF NetInv
<1>8. CASE UsbReset
  <2>1. InitCb /\ link = "usb"
    BY <1>8 DEF UsbReset
  <2>2. /\ rx'.taken = {} /\ rx'.w = 0
        /\ UNCHANGED <<rx.data, rx.pc, rx.at, rx.frame>> /\ rx'.r = 0
        /\ RingTypeOK'
    BY <1>4, <2>1, ResetWrites
  <2>3. FrameInv'
    BY <1>4, <2>2 DEF FrameInv
  <2> QED BY <1>2, <1>3, <2>1, <2>2, <2>3 DEF NetInv
<1> QED BY <1>5, <1>6, <1>7, <1>8

\* A frame comes out of the ring and is answered.
LEMMA UsbInputStep ==
    ASSUME NetInv, NEW heard \in BOOLEAN, UsbInput(heard)
    PROVE  NetInv'
<1>1. PollInput /\ Serve(Frame, heard) /\ UNCHANGED <<link, brought>>
  BY DEF UsbInput
<1>2. RingTypeOK' /\ FrameInv'
  BY <1>1, DrainWrites, DrainKeepsFrames DEF NetInv, Drain
<1>3. link = "usb" /\ rx.pc = "take"
  BY <1>1 DEF NetInv, LinkInv, NetTypeOK, PollInput
<1>4. Frame \in Messages /\ Frame.mac = UsbHost
  BY <1>3, NetworkAssumption DEF NetInv, FrameInv, Frame, Frames, Messages, Addresses
<1>5. /\ NetTypeOK' /\ ApartInv'
      /\ \A c \in Clients : c # UsbHost => host'[c] = host[c]
  BY <1>1, <1>3, <1>4, ServeKeepsAddresses DEF NetInv
<1>6. LinkInv'
  BY <1>1, <1>3, <1>5 DEF NetInv, LinkInv
<1> QED BY <1>2, <1>5, <1>6 DEF NetInv

\* Types, the frames in the ring and the addresses of the hosts are as NetInv says,
\* for every set of hosts, every size of ring and table, and however often the
\* interrupt comes.
THEOREM NetInvariant == Spec => []NetInv
<1>1. NetInv /\ UNCHANGED vars => NetInv'
  BY DEF vars, NetInv, RingTypeOK, NetTypeOK, LinkInv, FrameInv, ApartInv
<1>2. NetInv /\ [Next]_vars => NetInv'
  BY <1>1, HostStep, ApStep, StartApStep, UsbStep, UsbInputStep DEF Next
<1> QED BY <1>2, NetInit, PTL DEF Spec

\* The ring keeps its invariant, if the interrupt comes once at most while main
\* fills a slot.
LEMMA RingInvariant ==
    ASSUME MaxCrossed <= 1
    PROVE  Spec => []RingInv
<1>1. Init => RingInv
  BY RingInitHolds DEF Init
<1>2. RingInv /\ UNCHANGED rx => RingInv'
  BY DEF RingInv, RingTypeOK, TurnInv, QueueInv, RenewInv, Reads, RoomOrFrames, Queued
<1>3. NetInv /\ RingInv /\ [Next]_vars => RingInv'
  <2> SUFFICES ASSUME NetInv, RingInv, [Next]_vars PROVE RingInv'
    OBVIOUS
  <2>1. CASE UsbSend
    BY <2>1, AskedFrame, RecvKeepsRing DEF UsbSend
  <2>2. CASE UsbRenew
    BY <2>2, AskedFrame, RenewKeepsRing DEF UsbRenew
  <2>3. CASE UsbPoll \/ UsbInputFails \/ \E heard \in BOOLEAN : UsbInput(heard)
    <3>1. Drain \/ RenewEnd
      BY <2>3 DEF UsbPoll, UsbInputFails, UsbInput, Poll, Drain
    <3> QED BY <3>1, DrainKeepsRing, RenewKeepsRing
  <2>4. CASE UsbReset
    BY <2>4, ResetKeepsRing DEF UsbReset
  <2>5. CASE UNCHANGED rx
    BY <1>2, <2>5
  <2> QED BY <2>1, <2>2, <2>3, <2>4, <2>5
          DEF Next, vars, StartAp, ApInput, Discover, Rejoin, Arrive, Leave, HostOnly
<1> QED BY <1>1, <1>3, NetInvariant, PTL DEF Spec

\* Frames are read in order, for every number of slots, whatever the interrupt
\* does between the steps of usb_ncm_poll, unless a reset came inside it, and if
\* the interrupt comes once at most while main fills a slot itself.
THEOREM FramesInOrder ==
    ASSUME MaxCrossed <= 1
    PROVE  Spec => []RingAligned
BY RingInvariant, RingInvAligned, PTL

\* No interleaving of resets, interrupts and the main loop makes the two ends of
\* the ring wait for each other, for every number of slots, if the interrupt comes
\* once at most while main fills a slot itself.
THEOREM RingMovesOn ==
    ASSUME MaxCrossed <= 1
    PROVE  Spec => []RingNeverStuck
BY RingInvariant, RingInvMoves, PTL

\* Two hosts hold one address only when one of them asked for an address that the
\* present table had not given it (from before the last start of SoftAP, or of
\* another network that ends like a slot) or a full table has evicted a host, for
\* every set of hosts, every size of the table and every loss of answers.
THEOREM OneHostPerAddress == Spec => []AddressesApart
<1>1. NetInv => AddressesApart
  BY DEF NetInv, AddressesApart, ApartInv, LinkInv, NetTypeOK
<1> QED BY <1>1, NetInvariant, PTL
=============================================================================
