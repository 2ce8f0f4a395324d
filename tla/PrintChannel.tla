---------------------------- MODULE PrintChannel ----------------------------
(***************************************************************************)
(* The print path of bt_core.c and http.c: one job buffer (tx_job, tx_len, *)
(* tx_off) that two contexts share without a lock.                         *)
(*                                                                         *)
(*   main  the main loop: bt_poll pumps the job and arms the keepalive     *)
(*         query, the USER button prints the test frame;                   *)
(*   irq   the lwIP and BTstack callbacks: HTTP prints and disconnects,    *)
(*         RFCOMM events.  A callback may start between any two steps of   *)
(*         main and runs to its end before main goes on.                   *)
(*                                                                         *)
(* One packet of a job (at most rfcomm_mtu bytes) is one cell of a buffer. *)
(***************************************************************************)
EXTENDS Naturals

CONSTANTS Jobs, NoJob, Size,
          TestJobs,     \* the jobs the USER button submits from main
          Cap,          \* cells in tx_job and print_job (TSPL_JOB_MAX)
          MaxCredits    \* RFCOMM credits the printer grants at most

ASSUME ChannelAssumption ==
    /\ NoJob \notin Jobs
    /\ TestJobs \subseteq Jobs
    /\ Cap \in Nat \ {0}
    /\ Size \in [Jobs -> 1..Cap]
    /\ MaxCredits \in Nat \ {0}

Contexts == {"main", "irq"}
Cells == 0..(Cap - 1)

VARIABLES
    cid,            \* rfcomm_cid # 0 (and state = ST_CONNECTED)
    txJob,          \* which job's bytes each cell of tx_job holds
    txLen, txOff,
    pumping,
    pendingQuery,   \* pending_battery_query
    printJob,       \* http.c's shared print_job, cell by cell
    pc,             \* the next step of each context
    job,            \* the job each context is submitting
    i,              \* its loop index while building and copying
    n,              \* the packets its last rfcomm_send took
    needMore,       \* need_more of its print_pump
    chan,           \* the stack's channel: "closed", "open" or "closing"
    canSendReq,     \* a CAN_SEND_NOW event was requested
    credits,        \* packets the stack accepts now
    wire,           \* history: the last packet the printer got
    owed            \* history: jobs accepted on the open channel, unfinished

buf == <<txJob, txLen, txOff, pumping, pendingQuery, printJob>>
local == <<pc, job, i, n, needMore>>
stack == <<chan, canSendReq, credits>>
hist == <<wire, owed>>
vars == <<cid, buf, local, stack, hist>>

Quiet == [job |-> NoJob, k |-> 0]
Query == [job |-> NoJob, k |-> 1]

PumpPcs == {"loop", "send", "advance", "done", "clearLen", "clearOff", "need",
            "unlock"}
SubmitPcs == {"build", "check", "copy", "setLen", "setOff"}
PollPcs == {"pollPrinting", "pollCan", "pollKeep"}
Pcs == {"idle", "pump", "req"} \union PumpPcs \union SubmitPcs \union PollPcs

\* bt_is_printing()
Printing == txLen # 0 /\ txOff < txLen

Init ==
    /\ cid = FALSE
    /\ txJob = [x \in Cells |-> NoJob]
    /\ txLen = 0 /\ txOff = 0
    /\ pumping = FALSE /\ pendingQuery = FALSE
    /\ printJob = [x \in Cells |-> NoJob]
    /\ pc = [c \in Contexts |-> "idle"]
    /\ job = [c \in Contexts |-> NoJob]
    /\ i = [c \in Contexts |-> 0]
    /\ n = [c \in Contexts |-> 0]
    /\ needMore = [c \in Contexts |-> FALSE]
    /\ chan = "closed" /\ canSendReq = FALSE /\ credits = 0
    /\ wire = Quiet /\ owed = {}

-----------------------------------------------------------------------------
(* Scheduling: a callback preempts main and is not preempted.              *)

Runs(c, label) ==
    /\ pc[c] = label
    /\ c = "main" => pc["irq"] = "idle"

Goto(c, label) == pc' = [pc EXCEPT ![c] = label]

Event == pc["irq"] = "idle"

-----------------------------------------------------------------------------
(* The RFCOMM channel of BTstack, as bt_core.c uses it.                    *)

\* rfcomm_can_send_packet_now(rfcomm_cid)
CanSendPacketNow == cid /\ chan # "closed" /\ credits > 0

\* rfcomm_request_can_send_now_event(rfcomm_cid); ignored for a dead channel.
RequestCanSend == canSendReq' = (canSendReq \/ (cid /\ chan # "closed"))

\* Packet p reaches the printer, unless the channel is being closed.
Deliver(p) ==
    /\ wire' = IF chan = "open" THEN p ELSE wire
    /\ owed' = IF chan = "open" /\ p.job \in Jobs /\ p.k = Size[p.job]
                 THEN owed \ {p.job} ELSE owed

\* The printer returns a credit.
Grant ==
    /\ Event
    /\ chan = "open"
    /\ credits < MaxCredits
    /\ credits' = credits + 1
    /\ UNCHANGED <<cid, buf, local, chan, canSendReq, hist>>

-----------------------------------------------------------------------------
(* print_pump()                                                            *)

\* Mutant: print_pump without its `pumping` guard.
PumpEnterUnguarded(c) ==
    /\ Runs(c, "pump")
    /\ pumping' = TRUE
    /\ Goto(c, "loop")
    /\ UNCHANGED <<cid, txJob, txLen, txOff, pendingQuery, printJob,
                   job, i, n, needMore, stack, hist>>

PumpEnter(c) ==
    /\ Runs(c, "pump")
    /\ pumping' = TRUE
    /\ Goto(c, IF pumping THEN "idle" ELSE "loop")
    /\ UNCHANGED <<cid, txJob, txLen, txOff, pendingQuery, printJob,
                   job, i, n, needMore, stack, hist>>

PumpLoop(c) ==
    /\ Runs(c, "loop")
    /\ Goto(c, IF Printing /\ CanSendPacketNow THEN "send" ELSE "done")
    /\ UNCHANGED <<cid, buf, job, i, n, needMore, stack, hist>>

\* rfcomm_send: refused on a channel that is gone or has no credit.  The
\* length is (uint16_t)(tx_len - tx_off) cut to the MTU: no cell when the two
\* are equal, one otherwise.
PumpSend(c) ==
    /\ Runs(c, "send")
    /\ IF CanSendPacketNow
         THEN /\ n' = [n EXCEPT ![c] = IF txLen = txOff THEN 0 ELSE 1]
              /\ IF txLen = txOff
                   THEN UNCHANGED hist
                   ELSE Deliver([job |-> txJob[txOff], k |-> txOff + 1])
              /\ credits' = credits - 1
              /\ Goto(c, "advance")
         ELSE /\ Goto(c, "done")
              /\ UNCHANGED <<n, hist, credits>>
    /\ UNCHANGED <<cid, buf, job, i, needMore, chan, canSendReq>>

\* Mutant: counts one byte too many.
PumpAdvanceTooFar(c) ==
    /\ Runs(c, "advance")
    /\ txOff' = txOff + n[c] + 1
    /\ n' = [n EXCEPT ![c] = 0]
    /\ Goto(c, "loop")
    /\ UNCHANGED <<cid, txJob, txLen, pumping, pendingQuery, printJob,
                   job, i, needMore, stack, hist>>

PumpAdvance(c) ==
    /\ Runs(c, "advance")
    /\ txOff' = txOff + n[c]
    /\ n' = [n EXCEPT ![c] = 0]
    /\ Goto(c, "loop")
    /\ UNCHANGED <<cid, txJob, txLen, pumping, pendingQuery, printJob,
                   job, i, needMore, stack, hist>>

PumpDone(c) ==
    /\ Runs(c, "done")
    /\ Goto(c, IF txLen # 0 /\ txOff >= txLen THEN "clearLen" ELSE "need")
    /\ UNCHANGED <<cid, buf, job, i, n, needMore, stack, hist>>

PumpClearLen(c) ==
    /\ Runs(c, "clearLen")
    /\ txLen' = 0
    /\ Goto(c, "clearOff")
    /\ UNCHANGED <<cid, txJob, txOff, pumping, pendingQuery, printJob,
                   job, i, n, needMore, stack, hist>>

PumpClearOff(c) ==
    /\ Runs(c, "clearOff")
    /\ txOff' = 0
    /\ Goto(c, "need")
    /\ UNCHANGED <<cid, txJob, txLen, pumping, pendingQuery, printJob,
                   job, i, n, needMore, stack, hist>>

PumpNeed(c) ==
    /\ Runs(c, "need")
    /\ needMore' = [needMore EXCEPT ![c] = Printing /\ cid]
    /\ Goto(c, "unlock")
    /\ UNCHANGED <<cid, buf, job, i, n, stack, hist>>

\* Mutant: `pumping` stays set.
PumpUnlockNever(c) ==
    /\ Runs(c, "unlock")
    /\ Goto(c, "req")
    /\ UNCHANGED <<cid, buf, job, i, n, needMore, stack, hist>>

PumpUnlock(c) ==
    /\ Runs(c, "unlock")
    /\ pumping' = FALSE
    /\ Goto(c, "req")
    /\ UNCHANGED <<cid, txJob, txLen, txOff, pendingQuery, printJob,
                   job, i, n, needMore, stack, hist>>

PumpRequest(c) ==
    /\ Runs(c, "req")
    /\ IF needMore[c] THEN RequestCanSend ELSE UNCHANGED canSendReq
    /\ needMore' = [needMore EXCEPT ![c] = FALSE]
    /\ Goto(c, "idle")
    /\ UNCHANGED <<cid, buf, job, i, n, chan, credits, hist>>

Pump(c) ==
    \/ PumpEnter(c) \/ PumpLoop(c) \/ PumpSend(c) \/ PumpAdvance(c)
    \/ PumpDone(c) \/ PumpClearLen(c) \/ PumpClearOff(c)
    \/ PumpNeed(c) \/ PumpUnlock(c) \/ PumpRequest(c)

-----------------------------------------------------------------------------
(* Submitting a job: the caller's guard, the build of print_job, then      *)
(* bt_print_job().                                                         *)

\* POST /api/print, /api/print/test (irq) or the USER button (main), after
\* bt_is_connected(); the test print alone is not refused here while a job is
\* printed: its frame is built in print_job first.
StartPrint(c, j) ==
    /\ Runs(c, "idle")
    /\ Event
    /\ j \in (IF c = "main" THEN TestJobs ELSE Jobs \ TestJobs)
    /\ cid /\ (c = "main" => ~Printing)
    /\ job' = [job EXCEPT ![c] = j]
    /\ i' = [i EXCEPT ![c] = 0]
    /\ Goto(c, "build")
    /\ UNCHANGED <<cid, buf, n, needMore, stack, hist>>

BuildCell(c) ==
    /\ Runs(c, "build")
    /\ printJob' = [printJob EXCEPT ![i[c]] = job[c]]
    /\ IF i[c] + 1 < Size[job[c]]
         THEN i' = [i EXCEPT ![c] = @ + 1] /\ UNCHANGED pc
         ELSE i' = [i EXCEPT ![c] = 0] /\ Goto(c, "check")
    /\ UNCHANGED <<cid, txJob, txLen, txOff, pumping, pendingQuery,
                   job, n, needMore, stack, hist>>

\* bt_print_job refuses without a connection or while printing.
CheckJob(c) ==
    /\ Runs(c, "check")
    /\ IF cid /\ ~Printing
         THEN Goto(c, "copy") /\ UNCHANGED job
         ELSE Goto(c, "idle") /\ job' = [job EXCEPT ![c] = NoJob]
    /\ UNCHANGED <<cid, buf, i, n, needMore, stack, hist>>

CopyCell(c) ==
    /\ Runs(c, "copy")
    /\ txJob' = [txJob EXCEPT ![i[c]] = printJob[i[c]]]
    /\ IF i[c] + 1 < Size[job[c]]
         THEN i' = [i EXCEPT ![c] = @ + 1] /\ UNCHANGED pc
         ELSE i' = [i EXCEPT ![c] = 0] /\ Goto(c, "setLen")
    /\ UNCHANGED <<cid, txLen, txOff, pumping, pendingQuery, printJob,
                   job, n, needMore, stack, hist>>

SetLen(c) ==
    /\ Runs(c, "setLen")
    /\ txLen' = Size[job[c]]
    /\ owed' = IF chan = "open" THEN owed \union {job[c]} ELSE owed
    /\ Goto(c, "setOff")
    /\ UNCHANGED <<cid, txJob, txOff, pumping, pendingQuery, printJob,
                   job, i, n, needMore, stack, wire>>

\* The rest of bt_print_job; the caller answers that the job is accepted.
Accept(c) ==
    /\ Runs(c, "setOff")
    /\ txOff' = 0
    /\ pendingQuery' = FALSE
    /\ RequestCanSend
    /\ job' = [job EXCEPT ![c] = NoJob]
    /\ Goto(c, "idle")
    /\ UNCHANGED <<cid, txJob, txLen, pumping, printJob,
                   i, n, needMore, chan, credits, hist>>

Submit(c) ==
    \/ \E j \in Jobs : StartPrint(c, j)
    \/ BuildCell(c) \/ CheckJob(c) \/ CopyCell(c) \/ SetLen(c) \/ Accept(c)

-----------------------------------------------------------------------------
(* bt_poll() in main, connected part.                                      *)

Poll ==
    /\ Runs("main", "idle")
    /\ cid
    /\ Goto("main", "pollPrinting")
    /\ UNCHANGED <<cid, buf, job, i, n, needMore, stack, hist>>

\* bt_is_printing() decides between pumping and the 25 s keepalive, which may
\* or may not be due.
PollPrinting ==
    /\ Runs("main", "pollPrinting")
    /\ \/ Printing /\ Goto("main", "pollCan")
       \/ ~Printing /\ Goto("main", "pollKeep")
       \/ ~Printing /\ Goto("main", "idle")
    /\ UNCHANGED <<cid, buf, job, i, n, needMore, stack, hist>>

PollCan ==
    /\ Runs("main", "pollCan")
    /\ IF CanSendPacketNow
         THEN Goto("main", "pump") /\ UNCHANGED canSendReq
         ELSE Goto("main", "idle") /\ RequestCanSend
    /\ UNCHANGED <<cid, buf, job, i, n, needMore, chan, credits, hist>>

PollKeepalive ==
    /\ Runs("main", "pollKeep")
    /\ pendingQuery' = TRUE
    /\ RequestCanSend
    /\ Goto("main", "idle")
    /\ UNCHANGED <<cid, txJob, txLen, txOff, pumping, printJob,
                   job, i, n, needMore, chan, credits, hist>>

-----------------------------------------------------------------------------
(* RFCOMM events and the HTTP disconnect, in irq.                          *)

\* RFCOMM_EVENT_CHANNEL_OPENED.  A new connection takes a page, hundreds of
\* milliseconds: main has left whatever it was doing with the old one.
ChannelOpened ==
    /\ Event /\ pc["main"] = "idle"
    /\ chan = "closed"
    /\ cid' = TRUE
    /\ chan' = "open" /\ canSendReq' = TRUE /\ credits' = MaxCredits
    /\ pendingQuery' = TRUE
    /\ wire' = Quiet /\ owed' = {}
    /\ UNCHANGED <<txJob, txLen, txOff, pumping, printJob, local>>

\* RFCOMM_EVENT_CHANNEL_CLOSED and HCI_EVENT_DISCONNECTION_COMPLETE.
ChannelClosed ==
    /\ Event
    /\ chan # "closed"
    /\ cid' = FALSE
    /\ pendingQuery' = FALSE
    /\ txLen' = 0 /\ txOff' = 0
    /\ chan' = "closed" /\ canSendReq' = FALSE /\ credits' = 0
    /\ wire' = Quiet /\ owed' = {}
    /\ UNCHANGED <<txJob, pumping, printJob, local>>

\* Mutant: bt_disconnect clears tx_len and forgets tx_off.
DisconnectKeepsOffset ==
    /\ Event
    /\ chan = "open"
    /\ pendingQuery' = FALSE
    /\ txLen' = 0
    /\ chan' = "closing"
    /\ wire' = Quiet /\ owed' = {}
    /\ UNCHANGED <<cid, txJob, txOff, pumping, printJob, local, canSendReq,
                   credits>>

\* bt_disconnect() on an open channel: rfcomm_cid stays set until the stack
\* reports the close.
Disconnect ==
    /\ Event
    /\ chan = "open"
    /\ pendingQuery' = FALSE
    /\ txLen' = 0 /\ txOff' = 0
    /\ chan' = "closing"
    /\ wire' = Quiet /\ owed' = {}
    /\ UNCHANGED <<cid, txJob, pumping, printJob, local, canSendReq, credits>>

\* RFCOMM_EVENT_CAN_SEND_NOW: the battery query or the pump.
CanSendNow ==
    /\ Event
    /\ canSendReq /\ credits > 0
    /\ canSendReq' = FALSE
    /\ IF pendingQuery /\ cid /\ txLen = 0
         THEN /\ pendingQuery' = FALSE
              /\ Deliver(Query)
              /\ credits' = credits - 1
              /\ UNCHANGED pc
         ELSE /\ Goto("irq", "pump")
              /\ UNCHANGED <<pendingQuery, credits, hist>>
    /\ UNCHANGED <<cid, txJob, txLen, txOff, pumping, printJob,
                   job, i, n, needMore, chan>>

-----------------------------------------------------------------------------
MainStep ==
    \/ Poll \/ PollPrinting \/ PollCan \/ PollKeepalive
    \/ Pump("main")
    \/ BuildCell("main") \/ CheckJob("main") \/ CopyCell("main")
    \/ SetLen("main") \/ Accept("main")

IrqStep ==
    \/ Pump("irq")
    \/ BuildCell("irq") \/ CheckJob("irq") \/ CopyCell("irq")
    \/ SetLen("irq") \/ Accept("irq")

Next ==
    \/ Poll \/ PollPrinting \/ PollCan \/ PollKeepalive
    \/ ChannelOpened \/ ChannelClosed \/ Disconnect \/ CanSendNow \/ Grant
    \/ \E c \in Contexts : Pump(c) \/ Submit(c)

Spec == Init /\ [][Next]_vars

\* A callback runs to its end, and requests do not follow each other so closely
\* that they keep out all else: between them main runs, the printer returns
\* credits, the stack reports that it can send, and that a close the firmware
\* asked for is done.  Nothing makes a client print, close or press the button.
FairSpec ==
    /\ Spec
    /\ SF_vars(MainStep)
    /\ WF_vars(IrqStep)
    /\ SF_vars(Grant)
    /\ SF_vars(CanSendNow)
    /\ SF_vars(chan = "closing" /\ ChannelClosed)

-----------------------------------------------------------------------------
(* Properties *)

TypeOK ==
    /\ cid \in BOOLEAN /\ pumping \in BOOLEAN /\ pendingQuery \in BOOLEAN
    /\ txJob \in [Cells -> Jobs \union {NoJob}]
    /\ printJob \in [Cells -> Jobs \union {NoJob}]
    /\ txLen \in 0..Cap /\ txOff \in 0..Cap
    /\ pc \in [Contexts -> Pcs]
    /\ job \in [Contexts -> Jobs \union {NoJob}]
    /\ i \in [Contexts -> Cells]
    /\ n \in [Contexts -> 0..1]
    /\ needMore \in [Contexts -> BOOLEAN]
    /\ chan \in {"closed", "open", "closing"}
    /\ canSendReq \in BOOLEAN
    /\ credits \in 0..MaxCredits
    /\ wire \in [job : Jobs \union {NoJob}, k : 0..Cap]
    /\ owed \subseteq Jobs

\* print_pump is entered from the main loop and from the CAN_SEND_NOW event;
\* `pumping` must keep the second out of the send loop while the first is
\* between rfcomm_send and `tx_off += n`, or a packet goes out twice.
PumpExclusive ==
    ~ (pc["main"] \in PumpPcs /\ pc["irq"] \in PumpPcs)

\* rfcomm_send never reads past the bytes of the job in tx_job.
SendInsideJob ==
    \A c \in Contexts : Runs(c, "send") /\ txLen # txOff => txOff < txLen

\* A job accepted while the channel is open is either still in tx_job or was
\* printed: it does not vanish while the channel stays open.
AcceptedJobKept == owed # {} => txLen # 0

\* The bytes on the wire are those of PrintService.
Service == INSTANCE PrintService WITH open <- chan = "open"
ImplementsService == Service!SSpec

\* A job in tx_job leaves it: printed, or dropped with its channel.
JobEnds == Printing ~> ~Printing
=============================================================================
