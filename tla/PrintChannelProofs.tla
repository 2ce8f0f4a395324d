------------------------- MODULE PrintChannelProofs -------------------------
(***************************************************************************)
(* Type correctness, mutual exclusion of print_pump and the bounds of its  *)
(* reads, for every set of jobs, every job size and every buffer capacity, *)
(* with HTTP jobs and USER-button jobs alike; then that PrintChannel       *)
(* implements PrintService.  At the end, where the dots of a job land on   *)
(* the page (JobLayout), for every size of page and label and every offset *)
(* and correction.                                                         *)
(***************************************************************************)
EXTENDS PrintChannel, JobLayout, TLAPS

\* `pumping` is set while a context is in the loop.
PumpingInv == \A c \in Contexts : pc[c] \in PumpPcs => pumping = TRUE

\* A context that submits has a job, and an index inside it.
SubmitInv == \A c \in Contexts : pc[c] \in SubmitPcs =>
                job[c] \in Jobs /\ i[c] < Size[job[c]]

\* A callback that got past bt_print_job's test runs alone: nothing starts
\* printing before it sets tx_len.
CopyInv == pc["irq"] \in {"copy", "setLen"} => ~Printing

\* What a pump that is about to send, or to add what it sent, knows of
\* tx_off: callbacks may only have reset it.
SendInv == \A c \in Contexts : pc[c] = "send" => txOff < txLen \/ txOff = 0
AdvanceInv == \A c \in Contexts : pc[c] = "advance" => txOff + n[c] <= Cap

IInv ==
    /\ TypeOK
    /\ PumpExclusive
    /\ PumpingInv
    /\ SubmitInv
    /\ CopyInv
    /\ SendInv
    /\ AdvanceInv

LEMMA InitInv == Init => IInv
<1> SUFFICES ASSUME Init PROVE IInv
  OBVIOUS
<1> USE ChannelAssumption DEF Init, Contexts, Cells
<1>1. TypeOK
  <2>1. Quiet \in [job : Jobs \union {NoJob}, k : 0..Cap]
    BY DEF Quiet
  <2>2. 0 \in Cells /\ "idle" \in Pcs
    BY DEF Pcs
  <2>3. /\ cid \in BOOLEAN /\ pumping \in BOOLEAN /\ pendingQuery \in BOOLEAN
        /\ canSendReq \in BOOLEAN /\ needMore \in [Contexts -> BOOLEAN]
    BY Zenon
  <2>4. /\ txJob \in [Cells -> Jobs \union {NoJob}]
        /\ printJob \in [Cells -> Jobs \union {NoJob}]
        /\ job \in [Contexts -> Jobs \union {NoJob}]
    BY Zenon
  <2>5. pc \in [Contexts -> Pcs] /\ i \in [Contexts -> Cells]
    BY <2>2, Zenon
  <2>6. n \in [Contexts -> 0..1]
    OBVIOUS
  <2>7. /\ txLen \in 0..Cap /\ txOff \in 0..Cap
        /\ credits \in 0..MaxCredits
        /\ chan \in {"closed", "open", "closing"}
        /\ owed \subseteq Jobs
    OBVIOUS
  <2>8. wire \in [job : Jobs \union {NoJob}, k : 0..Cap]
    BY <2>1
  <2> QED BY <2>3, <2>4, <2>5, <2>6, <2>7, <2>8, Zenon DEF TypeOK
<1>2. \A c \in Contexts : pc[c] = "idle"
  OBVIOUS
<1>3. PumpExclusive /\ PumpingInv /\ SubmitInv /\ CopyInv /\ SendInv /\ AdvanceInv
  BY <1>2 DEF PumpExclusive, PumpingInv, SubmitInv, CopyInv, SendInv, AdvanceInv,
              PumpPcs, SubmitPcs
<1> QED BY <1>1, <1>3 DEF IInv

\* One step of print_pump in context c keeps the invariant.
LEMMA PumpStepInv ==
    ASSUME NEW c \in Contexts, IInv, Pump(c)
    PROVE  IInv'
<1> USE ChannelAssumption DEF IInv, TypeOK, PumpExclusive, PumpingInv, SubmitInv, CopyInv,
           SendInv, AdvanceInv, Contexts, Cells, Pcs, PumpPcs, SubmitPcs,
           PollPcs, Printing, Runs, Goto, Event, buf, local, stack, hist,
           CanSendPacketNow, RequestCanSend, Deliver, Quiet, Query
<1>1. CASE PumpEnter(c)
  BY <1>1, SMT DEF PumpEnter
<1>2. CASE PumpLoop(c)
  BY <1>2, SMT DEF PumpLoop
<1>3. CASE PumpSend(c)
  <2>1. CASE ~CanSendPacketNow
    BY <1>3, <2>1 DEF PumpSend
  <2>2. CASE CanSendPacketNow /\ txLen = txOff
    BY <1>3, <2>2 DEF PumpSend
  <2>3. CASE CanSendPacketNow /\ txLen # txOff
    <3>1. txOff \in Cells /\ txOff + 1 \in 0..Cap
      BY <1>3, <2>3 DEF PumpSend
    <3>2. [job |-> txJob[txOff], k |-> txOff + 1]
             \in [job : Jobs \union {NoJob}, k : 0..Cap]
      BY <3>1
    <3>3. wire' \in [job : Jobs \union {NoJob}, k : 0..Cap] /\ owed' \subseteq Jobs
      BY <1>3, <2>3, <3>2 DEF PumpSend
    <3>4. n' = [n EXCEPT ![c] = 1] /\ txOff + 1 <= Cap
      BY <1>3, <2>3, <3>1 DEF PumpSend
    <3> QED BY <1>3, <2>3, <3>3, <3>4 DEF PumpSend
  <2> QED BY <2>1, <2>2, <2>3
<1>4. CASE PumpAdvance(c)
  BY <1>4, SMT DEF PumpAdvance
<1>5. CASE PumpDone(c)
  BY <1>5, SMT DEF PumpDone
<1>6. CASE PumpClearLen(c)
  BY <1>6, SMT DEF PumpClearLen
<1>7. CASE PumpClearOff(c)
  BY <1>7, SMT DEF PumpClearOff
<1>8. CASE PumpNeed(c)
  <2>1. PICK b \in BOOLEAN : needMore' = [needMore EXCEPT ![c] = b]
    BY <1>8, Zenon DEF PumpNeed
  <2>2. /\ pc[c] = "need" /\ Runs(c, "need")
        /\ pc' = [pc EXCEPT ![c] = "unlock"]
        /\ UNCHANGED <<cid, txJob, txLen, txOff, pumping, pendingQuery, printJob,
                       job, i, n, chan, canSendReq, credits, wire, owed>>
    BY <1>8, Zenon DEF PumpNeed
  <2> QED BY <2>1, <2>2
<1>10. CASE PumpUnlock(c)
  <2>1. /\ pc[c] = "unlock" /\ Runs(c, "unlock")
        /\ pumping' = FALSE
        /\ pc' = [pc EXCEPT ![c] = "req"]
        /\ UNCHANGED <<cid, txJob, txLen, txOff, pendingQuery, printJob,
                       job, i, n, needMore, chan, canSendReq, credits, wire, owed>>
    BY <1>10, Zenon DEF PumpUnlock
  <2> QED BY <2>1
<1>9. CASE PumpRequest(c)
  BY <1>9, SMT DEF PumpRequest
<1> QED BY <1>1, <1>2, <1>3, <1>4, <1>5, <1>6, <1>7, <1>8, <1>9, <1>10 DEF Pump

\* One step of a submission in context c keeps the invariant.
LEMMA SubmitStepInv ==
    ASSUME NEW c \in Contexts, IInv, Submit(c)
    PROVE  IInv'
<1> USE ChannelAssumption DEF IInv, TypeOK, PumpExclusive, PumpingInv, SubmitInv, CopyInv,
           SendInv, AdvanceInv, Contexts, Cells, Pcs, PumpPcs, SubmitPcs,
           PollPcs, Printing, Runs, Goto, Event, buf, local, stack, hist,
           CanSendPacketNow, RequestCanSend, Deliver, Quiet, Query
<1>1. CASE \E j \in Jobs : StartPrint(c, j)
  BY <1>1, SMT DEF StartPrint
<1>2. CASE BuildCell(c)
  BY <1>2, SMT DEF BuildCell
<1>3. CASE CheckJob(c)
  BY <1>3, SMT DEF CheckJob
<1>4. CASE CopyCell(c)
  BY <1>4, SMT DEF CopyCell
<1>5. CASE SetLen(c)
  BY <1>5, SMT DEF SetLen
<1>6. CASE Accept(c)
  <2>1. \A d \in Contexts : 0 + n[d] <= Cap
    OBVIOUS
  <2>a. TypeOK'
    <3>1. /\ cid' \in BOOLEAN /\ pendingQuery' \in BOOLEAN
            /\ pumping' \in BOOLEAN /\ canSendReq' \in BOOLEAN
      BY <1>6, <2>1, Zenon DEF Accept
    <3>2. /\ txJob' \in [Cells -> Jobs \union {NoJob}]
            /\ printJob' \in [Cells -> Jobs \union {NoJob}]
            /\ txLen' \in 0..Cap /\ txOff' \in 0..Cap
            /\ chan' \in {"closed", "open", "closing"}
            /\ credits' \in 0..MaxCredits
            /\ owed' \subseteq Jobs
      BY <1>6, <2>1, SMT DEF Accept
    <3>3. wire' \in [job : Jobs \union {NoJob}, k : 0..Cap]
      BY <1>6, <2>1, SMT DEF Accept
    <3>4. /\ pc' \in [Contexts -> Pcs]
            /\ job' \in [Contexts -> Jobs \union {NoJob}]
            /\ i' \in [Contexts -> Cells]
            /\ n' \in [Contexts -> 0..1]
      BY <1>6, <2>1, SMT DEF Accept
    <3>5. needMore' \in [Contexts -> BOOLEAN]
      BY <1>6, <2>1, Zenon DEF Accept
    <3> QED BY <3>1, <3>2, <3>3, <3>4, <3>5, Zenon DEF TypeOK
  <2>b. PumpExclusive'
    BY <1>6, <2>1, SMT DEF Accept
  <2>c. PumpingInv'
    BY <1>6, <2>1, SMT DEF Accept
  <2>d. SubmitInv'
    BY <1>6, <2>1, SMT DEF Accept
  <2>e. CopyInv'
    BY <1>6, <2>1, SMT DEF Accept
  <2>f. SendInv'
    BY <1>6, <2>1, SMT DEF Accept
  <2>g. AdvanceInv'
    BY <1>6, <2>1, SMT DEF Accept
  <2> QED BY <2>a, <2>b, <2>c, <2>d, <2>e, <2>f, <2>g
<1> QED BY <1>1, <1>2, <1>3, <1>4, <1>5, <1>6 DEF Submit

\* The steps of bt_poll outside the pump, and the events of the stack.
LEMMA OtherStepInv ==
    ASSUME IInv,
           \/ Poll \/ PollPrinting \/ PollCan \/ PollKeepalive
           \/ ChannelOpened \/ ChannelClosed \/ Disconnect \/ CanSendNow \/ Grant
    PROVE  IInv'
<1> USE ChannelAssumption DEF IInv, TypeOK, PumpExclusive, PumpingInv, SubmitInv, CopyInv,
           SendInv, AdvanceInv, Contexts, Cells, Pcs, PumpPcs, SubmitPcs,
           PollPcs, Printing, Runs, Goto, Event, buf, local, stack, hist,
           CanSendPacketNow, RequestCanSend, Deliver, Quiet, Query
<1>1. CASE Poll
  BY <1>1, SMT DEF Poll
<1>2. CASE PollPrinting
  BY <1>2, SMT DEF PollPrinting
<1>3. CASE PollCan
  BY <1>3, SMT DEF PollCan
<1>4. CASE PollKeepalive
  BY <1>4, SMT DEF PollKeepalive
<1>5. CASE ChannelOpened
  BY <1>5, SMT DEF ChannelOpened
<1>6. CASE ChannelClosed
  <2>1. \A d \in Contexts : 0 + n[d] <= Cap
    OBVIOUS
  <2>2. Quiet \in [job : Jobs \union {NoJob}, k : 0..Cap]
    OBVIOUS
  <2> HIDE DEF Quiet
  <2>a. TypeOK'
    <3>1. /\ cid' \in BOOLEAN /\ pendingQuery' \in BOOLEAN
            /\ pumping' \in BOOLEAN /\ canSendReq' \in BOOLEAN
      BY <1>6, <2>1, <2>2, Zenon DEF ChannelClosed
    <3>2. /\ txJob' \in [Cells -> Jobs \union {NoJob}]
            /\ printJob' \in [Cells -> Jobs \union {NoJob}]
            /\ txLen' \in 0..Cap /\ txOff' \in 0..Cap
            /\ chan' \in {"closed", "open", "closing"}
            /\ credits' \in 0..MaxCredits
            /\ owed' \subseteq Jobs
      BY <1>6, <2>1, <2>2, SMT DEF ChannelClosed
    <3>3. wire' \in [job : Jobs \union {NoJob}, k : 0..Cap]
      BY <1>6, <2>1, <2>2, SMT DEF ChannelClosed
    <3>4. /\ pc' \in [Contexts -> Pcs]
            /\ job' \in [Contexts -> Jobs \union {NoJob}]
            /\ i' \in [Contexts -> Cells]
            /\ n' \in [Contexts -> 0..1]
      BY <1>6, <2>1, <2>2, SMT DEF ChannelClosed
    <3>5. needMore' \in [Contexts -> BOOLEAN]
      BY <1>6, <2>1, <2>2, Zenon DEF ChannelClosed
    <3> QED BY <3>1, <3>2, <3>3, <3>4, <3>5, Zenon DEF TypeOK
  <2>b. PumpExclusive'
    BY <1>6, <2>1, <2>2, SMT DEF ChannelClosed
  <2>c. PumpingInv'
    BY <1>6, <2>1, <2>2, SMT DEF ChannelClosed
  <2>d. SubmitInv'
    BY <1>6, <2>1, <2>2, SMT DEF ChannelClosed
  <2>e. CopyInv'
    BY <1>6, <2>1, <2>2, SMT DEF ChannelClosed
  <2>f. SendInv'
    BY <1>6, <2>1, <2>2, SMT DEF ChannelClosed
  <2>g. AdvanceInv'
    BY <1>6, <2>1, <2>2, SMT DEF ChannelClosed
  <2> QED BY <2>a, <2>b, <2>c, <2>d, <2>e, <2>f, <2>g
<1>7. CASE Disconnect
  <2>1. \A d \in Contexts : 0 + n[d] <= Cap
    OBVIOUS
  <2>2. Quiet \in [job : Jobs \union {NoJob}, k : 0..Cap]
    OBVIOUS
  <2> HIDE DEF Quiet
  <2>a. TypeOK'
    <3>1. /\ cid' \in BOOLEAN /\ pendingQuery' \in BOOLEAN
            /\ pumping' \in BOOLEAN /\ canSendReq' \in BOOLEAN
      BY <1>7, <2>1, <2>2, Zenon DEF Disconnect
    <3>2. /\ txJob' \in [Cells -> Jobs \union {NoJob}]
            /\ printJob' \in [Cells -> Jobs \union {NoJob}]
            /\ txLen' \in 0..Cap /\ txOff' \in 0..Cap
            /\ chan' \in {"closed", "open", "closing"}
            /\ credits' \in 0..MaxCredits
            /\ owed' \subseteq Jobs
      BY <1>7, <2>1, <2>2, SMT DEF Disconnect
    <3>3. wire' \in [job : Jobs \union {NoJob}, k : 0..Cap]
      BY <1>7, <2>1, <2>2, SMT DEF Disconnect
    <3>4. /\ pc' \in [Contexts -> Pcs]
            /\ job' \in [Contexts -> Jobs \union {NoJob}]
            /\ i' \in [Contexts -> Cells]
            /\ n' \in [Contexts -> 0..1]
      BY <1>7, <2>1, <2>2, SMT DEF Disconnect
    <3>5. needMore' \in [Contexts -> BOOLEAN]
      BY <1>7, <2>1, <2>2, Zenon DEF Disconnect
    <3> QED BY <3>1, <3>2, <3>3, <3>4, <3>5, Zenon DEF TypeOK
  <2>b. PumpExclusive'
    BY <1>7, <2>1, <2>2, SMT DEF Disconnect
  <2>c. PumpingInv'
    BY <1>7, <2>1, <2>2, SMT DEF Disconnect
  <2>d. SubmitInv'
    BY <1>7, <2>1, <2>2, SMT DEF Disconnect
  <2>e. CopyInv'
    BY <1>7, <2>1, <2>2, SMT DEF Disconnect
  <2>f. SendInv'
    BY <1>7, <2>1, <2>2, SMT DEF Disconnect
  <2>g. AdvanceInv'
    BY <1>7, <2>1, <2>2, SMT DEF Disconnect
  <2> QED BY <2>a, <2>b, <2>c, <2>d, <2>e, <2>f, <2>g
<1>8. CASE CanSendNow
  <2>1. Query \in [job : Jobs \union {NoJob}, k : 0..Cap]
    OBVIOUS
  <2>2. CASE pendingQuery /\ cid /\ txLen = 0
    <3>1. wire' \in [job : Jobs \union {NoJob}, k : 0..Cap] /\ owed' \subseteq Jobs
      BY <1>8, <2>1, <2>2 DEF CanSendNow
    <3>a. TypeOK'
      <4>1. /\ cid' \in BOOLEAN /\ pendingQuery' \in BOOLEAN
              /\ pumping' \in BOOLEAN /\ canSendReq' \in BOOLEAN
        BY <1>8, <2>2, <3>1, Zenon DEF CanSendNow
      <4>2. /\ txJob' \in [Cells -> Jobs \union {NoJob}]
              /\ printJob' \in [Cells -> Jobs \union {NoJob}]
              /\ txLen' \in 0..Cap /\ txOff' \in 0..Cap
              /\ chan' \in {"closed", "open", "closing"}
              /\ credits' \in 0..MaxCredits
              /\ owed' \subseteq Jobs
        BY <1>8, <2>2, <3>1, SMT DEF CanSendNow
      <4>3. wire' \in [job : Jobs \union {NoJob}, k : 0..Cap]
        BY <1>8, <2>2, <3>1, SMT DEF CanSendNow
      <4>4. /\ pc' \in [Contexts -> Pcs]
              /\ job' \in [Contexts -> Jobs \union {NoJob}]
              /\ i' \in [Contexts -> Cells]
              /\ n' \in [Contexts -> 0..1]
        BY <1>8, <2>2, <3>1, SMT DEF CanSendNow
      <4>5. needMore' \in [Contexts -> BOOLEAN]
        BY <1>8, <2>2, <3>1, Zenon DEF CanSendNow
      <4> QED BY <4>1, <4>2, <4>3, <4>4, <4>5, Zenon DEF TypeOK
    <3>b. PumpExclusive'
      BY <1>8, <2>2, <3>1, SMT DEF CanSendNow
    <3>c. PumpingInv'
      BY <1>8, <2>2, <3>1, SMT DEF CanSendNow
    <3>d. SubmitInv'
      BY <1>8, <2>2, <3>1, SMT DEF CanSendNow
    <3>e. CopyInv'
      BY <1>8, <2>2, <3>1, SMT DEF CanSendNow
    <3>f. SendInv'
      BY <1>8, <2>2, <3>1, SMT DEF CanSendNow
    <3>g. AdvanceInv'
      BY <1>8, <2>2, <3>1, SMT DEF CanSendNow
    <3> QED BY <3>a, <3>b, <3>c, <3>d, <3>e, <3>f, <3>g
  <2>3. CASE ~(pendingQuery /\ cid /\ txLen = 0)
    <3>a. TypeOK'
      <4>1. /\ cid' \in BOOLEAN /\ pendingQuery' \in BOOLEAN
              /\ pumping' \in BOOLEAN /\ canSendReq' \in BOOLEAN
        BY <1>8, <2>3, Zenon DEF CanSendNow
      <4>2. /\ txJob' \in [Cells -> Jobs \union {NoJob}]
              /\ printJob' \in [Cells -> Jobs \union {NoJob}]
              /\ txLen' \in 0..Cap /\ txOff' \in 0..Cap
              /\ chan' \in {"closed", "open", "closing"}
              /\ credits' \in 0..MaxCredits
              /\ owed' \subseteq Jobs
        BY <1>8, <2>3, SMT DEF CanSendNow
      <4>3. wire' \in [job : Jobs \union {NoJob}, k : 0..Cap]
        BY <1>8, <2>3, SMT DEF CanSendNow
      <4>4. /\ pc' \in [Contexts -> Pcs]
              /\ job' \in [Contexts -> Jobs \union {NoJob}]
              /\ i' \in [Contexts -> Cells]
              /\ n' \in [Contexts -> 0..1]
        BY <1>8, <2>3, SMT DEF CanSendNow
      <4>5. needMore' \in [Contexts -> BOOLEAN]
        BY <1>8, <2>3, Zenon DEF CanSendNow
      <4> QED BY <4>1, <4>2, <4>3, <4>4, <4>5, Zenon DEF TypeOK
    <3>b. PumpExclusive'
      BY <1>8, <2>3, SMT DEF CanSendNow
    <3>c. PumpingInv'
      BY <1>8, <2>3, SMT DEF CanSendNow
    <3>d. SubmitInv'
      BY <1>8, <2>3, SMT DEF CanSendNow
    <3>e. CopyInv'
      BY <1>8, <2>3, SMT DEF CanSendNow
    <3>f. SendInv'
      BY <1>8, <2>3, SMT DEF CanSendNow
    <3>g. AdvanceInv'
      BY <1>8, <2>3, SMT DEF CanSendNow
    <3> QED BY <3>a, <3>b, <3>c, <3>d, <3>e, <3>f, <3>g
  <2> QED BY <2>2, <2>3
<1>9. CASE Grant
  BY <1>9, SMT DEF Grant
<1> QED BY <1>1, <1>2, <1>3, <1>4, <1>5, <1>6, <1>7, <1>8, <1>9

LEMMA StutterInv == IInv /\ UNCHANGED vars => IInv'
BY DEF IInv, TypeOK, PumpExclusive, PumpingInv, SubmitInv, CopyInv, SendInv,
       AdvanceInv, Printing, vars, buf, local, stack, hist

\* The inductive invariant holds in every reachable state.
THEOREM InductiveInv == Spec => []IInv
<1>1. IInv /\ [Next]_vars => IInv'
  BY PumpStepInv, SubmitStepInv, OtherStepInv, StutterInv DEF Next
<1> QED BY InitInv, <1>1, PTL DEF Spec

\* Every variable of the print path keeps its type; in particular tx_off and
\* tx_len stay within tx_job whatever main and the callbacks interleave.
THEOREM TypeCorrect == Spec => []TypeOK
<1>1. IInv => TypeOK
  BY DEF IInv
<1> QED BY InductiveInv, <1>1, PTL

\* print_pump never runs its send loop in both contexts at once.
THEOREM PumpIsExclusive == Spec => []PumpExclusive
<1>1. IInv => PumpExclusive
  BY DEF IInv
<1> QED BY InductiveInv, <1>1, PTL

\* rfcomm_send never reads past the job in tx_job.
THEOREM SendStaysInside == Spec => []SendInsideJob
<1>1. IInv => SendInsideJob
  <2> SUFFICES ASSUME IInv, NEW c \in Contexts, Runs(c, "send"), txLen # txOff
               PROVE  txOff < txLen
    BY DEF SendInsideJob
  <2> QED BY SMT DEF IInv, TypeOK, SendInv, Runs
<1> QED BY InductiveInv, <1>1, PTL

-----------------------------------------------------------------------------
(* PrintChannel implements PrintService, for every set of jobs, every job  *)
(* size and every number of credits, when jobs come from HTTP requests     *)
(* only (TestJobs = {}): the USER button submits from main, where a        *)
(* request may come between its test and its copy.                         *)

MidJob == Service!MidJob(wire)

\* The packets of the job in tx_job that rfcomm_send has taken.
Taken == IF "advance" \in {pc["main"], pc["irq"]} THEN txOff + 1 ELSE txOff

\* Nothing is promised, and nothing was sent, on a channel that is not open;
\* the buffer is empty when there is no channel.
ClosedInv ==
    /\ chan # "open" => wire = Quiet /\ owed = {}
    /\ chan = "closed" => ~cid /\ txLen = 0
    /\ pc["irq"] \in SubmitPcs => chan # "closed"

\* How far a request has got: print_job built, then tx_job copied.
Holds(buffer, j, count) == \A x \in Cells : x < count => buffer[x] = j
RequestInv ==
    LET j == job["irq"]
    IN  /\ pc["main"] \notin SubmitPcs
        /\ pc["irq"] = "build" => Holds(printJob, j, i["irq"])
        /\ pc["irq"] = "check" => i["irq"] = 0
        /\ pc["irq"] \in {"check", "copy"} => Holds(printJob, j, Size[j])
        /\ pc["irq"] = "copy" => Holds(txJob, j, i["irq"])
        /\ pc["irq"] \in {"setLen", "setOff"} => Holds(txJob, j, Size[j])
        /\ pc["irq"] = "setOff" =>
             /\ txLen = Size[j]
             /\ chan = "open" => /\ j \in owed /\ ~MidJob
                                /\ pc["main"] \notin {"send", "advance"}

\* What was tested when a pump went on still holds, although callbacks came,
\* unless they cost the channel; a pump that clears the buffer is in no job.
TestedInv ==
    \A c \in Contexts : chan = "open" =>
        /\ pc[c] \in {"send", "advance"} => Printing
        /\ pc[c] = "advance" => n[c] = 1
        /\ pc[c] \in {"clearLen", "clearOff"} => ~MidJob
        /\ pc[c] = "clearOff" /\ pc["irq"] # "setOff" => txLen = 0 \/ txOff = 0

\* The job in tx_job and the last packet on the wire: a job that is begun goes
\* on where it stopped, one that is not begun starts at its first packet.
WireInv ==
    chan = "open" /\ pc["irq"] # "setOff" =>
        /\ MidJob => txLen = Size[wire.job] /\ wire.k = Taken
        /\ ~MidJob /\ txLen # 0 => Taken = 0 \/ Taken >= txLen
        /\ txLen # 0 /\ Taken < txLen =>
             \E j \in owed : /\ txLen = Size[j] /\ Holds(txJob, j, txLen)
                             /\ MidJob => wire.job = j

ServeInv == ClosedInv /\ RequestInv /\ TestedInv /\ WireInv

\* Nothing is promised before the first channel.
LEMMA InitServes == Init => ServeInv
  BY ChannelAssumption DEF Init, ServeInv, ClosedInv, RequestInv, TestedInv, WireInv, Contexts, SubmitPcs

\* One step of print_pump keeps what it knows of the wire.
LEMMA PumpKeeps ==
    ASSUME NEW c \in Contexts, IInv, ServeInv, Pump(c)
    PROVE  ServeInv'
<1> USE ChannelAssumption DEF IInv, TypeOK, PumpExclusive, PumpingInv, SubmitInv, CopyInv,
           SendInv, AdvanceInv, Contexts, Cells, PumpPcs, SubmitPcs, Printing, Runs, Goto,
           buf, local, stack, hist, ServeInv, ClosedInv, RequestInv, TestedInv, WireInv,
           Holds, MidJob, Service!MidJob, Taken
<1>1. CASE PumpEnter(c)
  <2>1. ClosedInv'
    BY <1>1 DEF PumpEnter
  <2>2. RequestInv'
    BY <1>1 DEF PumpEnter
  <2>3. TestedInv'
    BY <1>1 DEF PumpEnter
  <2>4. WireInv'
    BY <1>1 DEF PumpEnter
  <2> QED BY <2>1, <2>2, <2>3, <2>4
<1>2. CASE PumpLoop(c)
  <2>1. ClosedInv'
    BY <1>2 DEF PumpLoop, CanSendPacketNow
  <2>2. RequestInv'
    BY <1>2 DEF PumpLoop, CanSendPacketNow
  <2>3. TestedInv'
    BY <1>2 DEF PumpLoop, CanSendPacketNow
  <2>4. WireInv'
    BY <1>2 DEF PumpLoop, CanSendPacketNow
  <2> QED BY <2>1, <2>2, <2>3, <2>4
<1>3. CASE PumpSend(c)
  <2>1. ClosedInv'
    BY <1>3 DEF PumpSend, CanSendPacketNow, Deliver
  <2>2. RequestInv'
    BY <1>3 DEF PumpSend, CanSendPacketNow, Deliver
  <2>3. TestedInv'
    BY <1>3 DEF PumpSend, CanSendPacketNow, Deliver
  <2>4. WireInv'
    BY <1>3 DEF PumpSend, CanSendPacketNow, Deliver
  <2> QED BY <2>1, <2>2, <2>3, <2>4
<1>4. CASE PumpAdvance(c)
  <2>1. ClosedInv'
    BY <1>4 DEF PumpAdvance
  <2>2. RequestInv'
    BY <1>4 DEF PumpAdvance
  <2>3. TestedInv'
    BY <1>4 DEF PumpAdvance
  <2>4. WireInv'
    BY <1>4 DEF PumpAdvance
  <2> QED BY <2>1, <2>2, <2>3, <2>4
<1>5. CASE PumpDone(c)
  <2>1. ClosedInv'
    BY <1>5 DEF PumpDone
  <2>2. RequestInv'
    BY <1>5 DEF PumpDone
  <2>3. TestedInv'
    BY <1>5 DEF PumpDone
  <2>4. WireInv'
    BY <1>5 DEF PumpDone
  <2> QED BY <2>1, <2>2, <2>3, <2>4
<1>6. CASE PumpClearLen(c)
  <2>1. ClosedInv'
    BY <1>6 DEF PumpClearLen
  <2>2. RequestInv'
    BY <1>6 DEF PumpClearLen
  <2>3. TestedInv'
    BY <1>6 DEF PumpClearLen
  <2>4. WireInv'
    BY <1>6 DEF PumpClearLen
  <2> QED BY <2>1, <2>2, <2>3, <2>4
<1>7. CASE PumpClearOff(c)
  <2>1. ClosedInv'
    BY <1>7 DEF PumpClearOff
  <2>2. RequestInv'
    BY <1>7 DEF PumpClearOff
  <2>3. TestedInv'
    BY <1>7 DEF PumpClearOff
  <2>4. WireInv'
    BY <1>7 DEF PumpClearOff
  <2> QED BY <2>1, <2>2, <2>3, <2>4
<1>8. CASE PumpNeed(c)
  <2>1. ClosedInv'
    BY <1>8 DEF PumpNeed
  <2>2. RequestInv'
    BY <1>8 DEF PumpNeed
  <2>3. TestedInv'
    BY <1>8 DEF PumpNeed
  <2>4. WireInv'
    BY <1>8 DEF PumpNeed
  <2> QED BY <2>1, <2>2, <2>3, <2>4
<1>10. CASE PumpUnlock(c)
  <2>1. ClosedInv'
    BY <1>10 DEF PumpUnlock
  <2>2. RequestInv'
    BY <1>10 DEF PumpUnlock
  <2>3. TestedInv'
    BY <1>10 DEF PumpUnlock
  <2>4. WireInv'
    BY <1>10 DEF PumpUnlock
  <2> QED BY <2>1, <2>2, <2>3, <2>4
<1>9. CASE PumpRequest(c)
  <2>1. ClosedInv'
    BY <1>9 DEF PumpRequest, RequestCanSend
  <2>2. RequestInv'
    BY <1>9 DEF PumpRequest, RequestCanSend
  <2>3. TestedInv'
    BY <1>9 DEF PumpRequest, RequestCanSend
  <2>4. WireInv'
    BY <1>9 DEF PumpRequest, RequestCanSend
  <2> QED BY <2>1, <2>2, <2>3, <2>4
<1> QED BY <1>1, <1>2, <1>3, <1>4, <1>5, <1>6, <1>7, <1>8, <1>9, <1>10 DEF Pump

\* One step of a request keeps how far it has got, and puts into tx_job what
\* the wire needs next.
LEMMA SubmitKeeps ==
    ASSUME NEW c \in Contexts, TestJobs = {}, IInv, ServeInv, Submit(c)
    PROVE  ServeInv'
<1> USE ChannelAssumption DEF IInv, TypeOK, PumpExclusive, PumpingInv, SubmitInv, CopyInv,
           SendInv, AdvanceInv, Contexts, Cells, PumpPcs, SubmitPcs, Printing, Runs, Goto,
           buf, local, stack, hist, ServeInv, ClosedInv, RequestInv, TestedInv, WireInv,
           Holds, MidJob, Service!MidJob, Taken
<1>1. CASE \E j \in Jobs : StartPrint(c, j)
  <2>1. ClosedInv'
    BY <1>1 DEF StartPrint, Event
  <2>2. RequestInv'
    BY <1>1 DEF StartPrint, Event
  <2>3. TestedInv'
    BY <1>1 DEF StartPrint, Event
  <2>4. WireInv'
    BY <1>1 DEF StartPrint, Event
  <2> QED BY <2>1, <2>2, <2>3, <2>4
<1>2. CASE BuildCell(c)
  <2>1. ClosedInv'
    BY <1>2 DEF BuildCell
  <2>2. RequestInv'
    BY <1>2 DEF BuildCell
  <2>3. TestedInv'
    BY <1>2 DEF BuildCell
  <2>4. WireInv'
    BY <1>2 DEF BuildCell
  <2> QED BY <2>1, <2>2, <2>3, <2>4
<1>3. CASE CheckJob(c)
  <2>1. ClosedInv'
    BY <1>3 DEF CheckJob
  <2>2. RequestInv'
    BY <1>3 DEF CheckJob
  <2>3. TestedInv'
    BY <1>3 DEF CheckJob
  <2>4. WireInv'
    BY <1>3 DEF CheckJob
  <2> QED BY <2>1, <2>2, <2>3, <2>4
<1>4. CASE CopyCell(c)
  <2>1. ClosedInv'
    BY <1>4 DEF CopyCell
  <2>2. RequestInv'
    BY <1>4 DEF CopyCell
  <2>3. TestedInv'
    BY <1>4 DEF CopyCell
  <2>4. WireInv'
    BY <1>4 DEF CopyCell
  <2> QED BY <2>1, <2>2, <2>3, <2>4
<1>5. CASE SetLen(c)
  <2>1. ClosedInv'
    BY <1>5 DEF SetLen
  <2>2. RequestInv'
    BY <1>5 DEF SetLen
  <2>3. TestedInv'
    BY <1>5 DEF SetLen
  <2>4. WireInv'
    BY <1>5 DEF SetLen
  <2> QED BY <2>1, <2>2, <2>3, <2>4
<1>6. CASE Accept(c)
  <2>1. ClosedInv'
    BY <1>6 DEF Accept, RequestCanSend
  <2>2. RequestInv'
    BY <1>6 DEF Accept, RequestCanSend
  <2>3. TestedInv'
    BY <1>6 DEF Accept, RequestCanSend
  <2>4. WireInv'
    BY <1>6 DEF Accept, RequestCanSend
  <2> QED BY <2>1, <2>2, <2>3, <2>4
<1> QED BY <1>1, <1>2, <1>3, <1>4, <1>5, <1>6 DEF Submit

\* The steps of Next outside print_pump and the submissions.
Others ==
    \/ Poll \/ PollPrinting \/ PollCan \/ PollKeepalive
    \/ ChannelOpened \/ ChannelClosed \/ Disconnect \/ CanSendNow \/ Grant

\* The main loop between pumps, the RFCOMM events and the HTTP disconnect
\* keep the invariant.
LEMMA OthersKeep ==
    ASSUME IInv, ServeInv, Others
    PROVE  ServeInv'
<1> USE ChannelAssumption DEF IInv, TypeOK, PumpExclusive, PumpingInv, SubmitInv, CopyInv,
           SendInv, AdvanceInv, Contexts, Cells, PumpPcs, SubmitPcs, Printing, Runs, Goto,
           buf, local, stack, hist, ServeInv, ClosedInv, RequestInv, TestedInv, WireInv,
           Holds, MidJob, Service!MidJob, Taken
<1>1. CASE Poll
  <2>1. ClosedInv'
    BY <1>1 DEF Poll
  <2>2. RequestInv'
    BY <1>1 DEF Poll
  <2>3. TestedInv'
    BY <1>1 DEF Poll
  <2>4. WireInv'
    BY <1>1 DEF Poll
  <2> QED BY <2>1, <2>2, <2>3, <2>4
<1>2. CASE PollPrinting
  <2>1. ClosedInv'
    BY <1>2 DEF PollPrinting
  <2>2. RequestInv'
    BY <1>2 DEF PollPrinting
  <2>3. TestedInv'
    BY <1>2 DEF PollPrinting
  <2>4. WireInv'
    BY <1>2 DEF PollPrinting
  <2> QED BY <2>1, <2>2, <2>3, <2>4
<1>3. CASE PollCan
  <2>1. ClosedInv'
    BY <1>3 DEF PollCan, CanSendPacketNow, RequestCanSend
  <2>2. RequestInv'
    BY <1>3 DEF PollCan, CanSendPacketNow, RequestCanSend
  <2>3. TestedInv'
    BY <1>3 DEF PollCan, CanSendPacketNow, RequestCanSend
  <2>4. WireInv'
    BY <1>3 DEF PollCan, CanSendPacketNow, RequestCanSend
  <2> QED BY <2>1, <2>2, <2>3, <2>4
<1>4. CASE PollKeepalive
  <2>1. ClosedInv'
    BY <1>4 DEF PollKeepalive, RequestCanSend
  <2>2. RequestInv'
    BY <1>4 DEF PollKeepalive, RequestCanSend
  <2>3. TestedInv'
    BY <1>4 DEF PollKeepalive, RequestCanSend
  <2>4. WireInv'
    BY <1>4 DEF PollKeepalive, RequestCanSend
  <2> QED BY <2>1, <2>2, <2>3, <2>4
<1>5. CASE ChannelOpened
  <2>1. ClosedInv'
    BY <1>5 DEF ChannelOpened, Quiet, Event
  <2>2. RequestInv'
    BY <1>5 DEF ChannelOpened, Quiet, Event
  <2>3. TestedInv'
    BY <1>5 DEF ChannelOpened, Quiet, Event
  <2>4. WireInv'
    BY <1>5 DEF ChannelOpened, Quiet, Event
  <2> QED BY <2>1, <2>2, <2>3, <2>4
<1>6. CASE ChannelClosed
  <2>1. ClosedInv'
    BY <1>6 DEF ChannelClosed, Quiet, Event
  <2>2. RequestInv'
    BY <1>6 DEF ChannelClosed, Quiet, Event
  <2>3. TestedInv'
    BY <1>6 DEF ChannelClosed, Quiet, Event
  <2>4. WireInv'
    BY <1>6 DEF ChannelClosed, Quiet, Event
  <2> QED BY <2>1, <2>2, <2>3, <2>4
<1>7. CASE Disconnect
  <2>1. ClosedInv'
    BY <1>7 DEF Disconnect, Quiet, Event
  <2>2. RequestInv'
    BY <1>7 DEF Disconnect, Quiet, Event
  <2>3. TestedInv'
    BY <1>7 DEF Disconnect, Quiet, Event
  <2>4. WireInv'
    BY <1>7 DEF Disconnect, Quiet, Event
  <2> QED BY <2>1, <2>2, <2>3, <2>4
<1>8. CASE CanSendNow
  <2>1. ClosedInv'
    BY <1>8 DEF CanSendNow, Deliver, Query, Event
  <2>2. RequestInv'
    BY <1>8 DEF CanSendNow, Deliver, Query, Event
  <2>3. TestedInv'
    BY <1>8 DEF CanSendNow, Deliver, Query, Event
  <2>4. WireInv'
    BY <1>8 DEF CanSendNow, Deliver, Query, Event
  <2> QED BY <2>1, <2>2, <2>3, <2>4
<1>9. CASE Grant
  <2>1. ClosedInv'
    BY <1>9 DEF Grant, Event
  <2>2. RequestInv'
    BY <1>9 DEF Grant, Event
  <2>3. TestedInv'
    BY <1>9 DEF Grant, Event
  <2>4. WireInv'
    BY <1>9 DEF Grant, Event
  <2> QED BY <2>1, <2>2, <2>3, <2>4
<1> QED BY <1>1, <1>2, <1>3, <1>4, <1>5, <1>6, <1>7, <1>8, <1>9 DEF Others

\* A step of print_pump is a packet of the job in tx_job or changes nothing
\* that the printer sees.
LEMMA PumpStepServes ==
    ASSUME NEW c \in Contexts, IInv, ServeInv, Pump(c)
    PROVE  [Service!SNext]_(Service!svars)
<1> USE ChannelAssumption DEF IInv, ServeInv, Service!svars, hist, stack
<1>1. CASE PumpSend(c)
  <2>1. CASE chan # "open" \/ ~CanSendPacketNow \/ txLen = txOff
    BY <1>1, <2>1 DEF PumpSend, Deliver
  <2>2. CASE chan = "open" /\ CanSendPacketNow /\ txLen # txOff
    <3> DEFINE p == [job |-> txJob[txOff], k |-> txOff + 1]
    <3>1. /\ pc[c] = "send"
          /\ wire' = p
          /\ owed' = IF p.job \in Jobs /\ p.k = Size[p.job] THEN owed \ {p.job} ELSE owed
          /\ UNCHANGED chan
      BY <1>1, <2>2 DEF PumpSend, Deliver, Runs
    <3>2. txLen # 0 /\ txOff < txLen /\ txOff \in Cells
      BY <3>1, <2>2 DEF TestedInv, Printing, TypeOK, Cells
    <3>3. Taken = txOff /\ pc["irq"] # "setOff"
      BY <3>1, <2>2, <1>1 DEF Taken, PumpExclusive, PumpPcs, Contexts, PumpSend, Runs,
         TypeOK, RequestInv
    <3>4. PICK j \in owed : /\ txLen = Size[j] /\ Holds(txJob, j, txLen)
                            /\ MidJob => wire.job = j
      BY <3>2, <3>3, <2>2 DEF WireInv
    <3>5. j \in Jobs /\ txJob[txOff] = j
      BY <3>2, <3>4 DEF Holds, TypeOK
    <3>6. MidJob => wire.k = txOff
      BY <3>3, <2>2 DEF WireInv
    <3>7. ~MidJob => txOff = 0
      BY <3>2, <3>3, <2>2 DEF WireInv, TypeOK
    <3>8. wire' = IF MidJob THEN [wire EXCEPT !.k = @ + 1] ELSE [job |-> j, k |-> 1]
      <4>1. wire' = [job |-> j, k |-> txOff + 1]
        BY <3>1, <3>5
      <4>2. wire = [job |-> wire.job, k |-> wire.k]
        BY DEF TypeOK
      <4> QED BY <4>1, <4>2, <3>4, <3>6, <3>7
    <3>9. owed' = IF wire'.k = Size[j] THEN owed \ {j} ELSE owed
      BY <3>1, <3>5
    <3>10. Service!SPacket(j)
      BY <3>1, <3>4, <3>8, <3>9, <2>2 DEF Service!SPacket, MidJob
    <3> QED BY <3>5, <3>10 DEF Service!SNext
  <2> QED BY <2>1, <2>2
<1>2. CASE UNCHANGED <<chan, wire, owed>>
  BY <1>2
<1> QED BY <1>1, <1>2 DEF Pump, PumpEnter, PumpLoop, PumpAdvance, PumpDone, PumpClearLen,
           PumpClearOff, PumpNeed, PumpUnlock, PumpRequest

\* A step of a submission accepts its job or changes nothing the printer sees.
LEMMA SubmitStepServes ==
    ASSUME NEW c \in Contexts, IInv, Submit(c)
    PROVE  [Service!SNext]_(Service!svars)
<1> USE DEF Service!svars, hist, stack
<1>1. CASE SetLen(c) /\ chan = "open"
  <2>1. job[c] \in Jobs
    BY <1>1 DEF IInv, SubmitInv, SubmitPcs, SetLen, Runs
  <2>2. Service!SAccept(job[c])
    BY <1>1 DEF SetLen, Service!SAccept
  <2> QED BY <2>1, <2>2 DEF Service!SNext
<1>2. CASE UNCHANGED <<chan, wire, owed>>
  BY <1>2
<1> QED BY <1>1, <1>2 DEF Submit, StartPrint, BuildCell, CheckJob, CopyCell, SetLen, Accept

\* The events open the channel, cut it, or send the BATTERY? query, the last
\* only between jobs.
LEMMA OtherStepServes ==
    ASSUME IInv, ServeInv, Others
    PROVE  [Service!SNext]_(Service!svars)
<1> USE DEF Service!svars, hist, stack, Service!SNext
<1>1. CASE ChannelOpened
  BY <1>1 DEF ChannelOpened, Service!SOpen, Quiet, Service!Quiet
<1>2. CASE Disconnect
  BY <1>2 DEF Disconnect, Service!SCut, Quiet, Service!Quiet
<1>3. CASE ChannelClosed
  BY <1>3 DEF ChannelClosed, Service!SCut, Quiet, Service!Quiet, ServeInv, ClosedInv
<1>4. CASE CanSendNow
  <2>1. CASE chan = "open" /\ pendingQuery /\ cid /\ txLen = 0
    <3>1. ~MidJob
      <4>1. pc["irq"] # "setOff"
        BY <1>4 DEF CanSendNow, Event
      <4>2. MidJob => txLen = Size[wire.job] /\ wire.job \in Jobs
        BY <2>1, <4>1 DEF ServeInv, WireInv, MidJob, Service!MidJob
      <4> QED BY <2>1, <4>2, ChannelAssumption
    <3>2. wire' = Query /\ UNCHANGED <<chan, owed>>
      BY <1>4, <2>1, ChannelAssumption DEF CanSendNow, Deliver, Query
    <3> QED BY <2>1, <3>1, <3>2 DEF Service!SQuery, MidJob, Query, Service!Query
  <2>2. CASE ~(chan = "open" /\ pendingQuery /\ cid /\ txLen = 0)
    BY <1>4, <2>2 DEF CanSendNow, Deliver
  <2> QED BY <2>1, <2>2
<1>5. CASE UNCHANGED <<chan, wire, owed>>
  BY <1>5
<1> QED BY <1>1, <1>2, <1>3, <1>4, <1>5 DEF Others, Poll, PollPrinting, PollCan,
           PollKeepalive, Grant

\* A step that changes no variable keeps the invariant.
LEMMA StutterKeeps == ServeInv /\ UNCHANGED vars => ServeInv'
BY DEF ServeInv, ClosedInv, RequestInv, TestedInv, WireInv, Holds, MidJob, Service!MidJob,
       Taken, Printing, vars, buf, local, stack, hist

\* The bytes the printer gets are those PrintService allows: whatever main and
\* the callbacks interleave, an accepted job goes out as an unbroken run of
\* packets, each exactly once and in order, the query never lands inside one,
\* and only the loss of the channel cuts a job short.
THEOREM ChannelServes ==
    ASSUME TestJobs = {}
    PROVE  Spec => ImplementsService
<1>1. Init => Service!SInit
  BY DEF Init, Service!SInit, Quiet, Service!Quiet
<1>2. IInv /\ ServeInv /\ [Next]_vars => ServeInv'
  BY PumpKeeps, SubmitKeeps, OthersKeep, StutterKeeps DEF Next, Others
<1>3. IInv /\ ServeInv /\ [Next]_vars => [Service!SNext]_(Service!svars)
  <2>1. UNCHANGED vars => UNCHANGED Service!svars
    BY DEF vars, hist, stack, Service!svars
  <2> QED BY <2>1, PumpStepServes, SubmitStepServes, OtherStepServes DEF Next, Others
<1> QED BY InductiveInv, InitServes, <1>1, <1>2, <1>3, PTL DEF Spec, ImplementsService, Service!SSpec

----------------------------------------------------------------------------
(* JobLayout.  Centring is known to be a natural number, no more is needed *)
(* of it: the rest is linear arithmetic over the cases of the minima and   *)
(* maxima, and one product.                                                *)


\* A centred label begins on the page or at its first dot.
LEMMA CentreNat ==
    ASSUME NEW page \in Nat \ {0}, NEW src \in Nat \ {0}
    PROVE  Centre(page, src) \in Nat
<1>1. (page - src) \div 2 \in Int
    OBVIOUS
<1>2. QED
    BY <1>1 DEF Centre, Greatest

\* What is sent of a label lies on the page (job_compute_layout).
THEOREM LayoutInsidePage ==
    ASSUME NEW page \in Nat \ {0}, NEW src \in Nat \ {0}, NEW d \in Int, NEW adj \in Int
    PROVE  InsidePage(page, src, d, adj)
<1> DEFINE mid == Centre(page, src)
<1>1. mid \in Nat
    BY CentreNat
<1> HIDE DEF mid
<1>2. QED
    BY <1>1 DEF InsidePage, Axis, Least, Greatest, mid

\* Splitting a move into origin and shift moves no dot (job_compute_layout).
THEOREM LayoutInPlace ==
    ASSUME NEW page \in Nat \ {0}, NEW src \in Nat \ {0}, NEW d \in Int, NEW adj \in Int
    PROVE  InPlace(page, src, d, adj)
<1> DEFINE mid == Centre(page, src)
<1>1. mid \in Nat
    BY CentreNat
<1> HIDE DEF mid
<1>2. QED
    BY <1>1 DEF InPlace, Place, Axis, Least, Greatest, mid

\* The dots that belong on the page are sent, when no correction moves back what
\* an offset has cut off (job_compute_layout, layout_and_build).
THEOREM LayoutLosesNothing ==
    ASSUME NEW page \in Nat \ {0}, NEW src \in Nat \ {0}, NEW d \in Int, NEW adj \in Int
    PROVE  NothingLost(page, src, d, adj)
<1> DEFINE mid == Centre(page, src)
<1>1. mid \in Nat
    BY CentreNat
<1> HIDE DEF mid
<1>2. QED
    BY <1>1 DEF NothingLost, Sent, Axis, Least, Greatest, mid

\* The fields of an axis are numbers, in their ranges.
LEMMA AxisRange ==
    ASSUME NEW page \in Nat \ {0}, NEW src \in Nat \ {0}, NEW d \in Int, NEW adj \in Int
    PROVE  /\ Axis(page, src, d, adj).origin \in 0..(page - 1)
           /\ Axis(page, src, d, adj).len \in 1..src
<1> DEFINE mid == Centre(page, src)
<1>1. mid \in Nat
    BY CentreNat
<1> HIDE DEF mid
<1>2. QED
    BY <1>1 DEF Axis, Least, Greatest, mid

\* A row of dots takes no more bytes than the label it is cut from.
LEMMA RowBytesBound ==
    ASSUME NEW len \in Nat, NEW bytes \in Nat, len <= 8 * bytes
    PROVE  RowBytes(len) \in 0..bytes
BY DEF RowBytes

\* A product grows with its factors.
LEMMA ProductBound ==
    ASSUME NEW a \in Nat, NEW b \in Nat, NEW c \in 0..a, NEW e \in 0..b
    PROVE  c * e <= a * b
<1>1. c * e <= a * e
    OBVIOUS
<1>2. a * e <= a * b
    OBVIOUS
<1>3. c * e \in Nat /\ a * e \in Nat /\ a * b \in Nat
    OBVIOUS
<1>4. QED
    BY <1>1, <1>2, <1>3

\* No label that was accepted is too large for the buffer it is cropped into
\* (layout_and_build), whatever the calibration.
THEOREM LayoutFitsBuffer ==
    ASSUME NEW page \in Nat \ {0}, NEW src \in Nat \ {0}, NEW d \in Int, NEW adj \in Int,
           NEW rows \in Nat \ {0}, NEW high \in Nat \ {0}, NEW e \in Int, NEW eadj \in Int,
           NEW hadj \in Int
    PROVE  BitmapFits(page, rows, src, d, adj, Axis(rows, high, e, eadj), hadj)
<1> DEFINE x == Axis(page, src, d, adj)
           y == Axis(rows, high, e, eadj)
<1>1. x.len \in 1..src
    BY AxisRange
<1>2. y.origin \in 0..(rows - 1) /\ y.len \in 1..high
    BY AxisRange
<1> HIDE DEF x, y
<1>3. Height(rows, y, hadj) \in 0..rows
    BY <1>2 DEF Height, Least, Greatest
<1>4. ASSUME NEW bytes \in Nat, src <= 8 * bytes
      PROVE  RowBytes(x.len) * Height(rows, y, hadj) <= bytes * rows
    <2>1. RowBytes(x.len) \in 0..bytes
        BY <1>1, <1>4, RowBytesBound
    <2>2. QED
        BY <1>3, <2>1, ProductBound
<1>5. QED
    BY <1>4 DEF BitmapFits, x, y

\* The safe rectangle lies on the label and has room, whatever is read from the
\* settings (safe_clamp).
THEOREM SafeRectangleInside ==
    ASSUME NEW dots \in Nat, dots >= 4, NEW x0 \in Int, NEW x1 \in Int
    PROVE  SafeInside(dots, x0, x1)
BY DEF SafeInside, SafeClamp, Least, Greatest
=============================================================================
