---------------------------- MODULE PrintService ----------------------------
(***************************************************************************)
(* What the firmware promises about the bytes that reach the printer: a    *)
(* print job the HTTP API accepted goes out as an unbroken run of packets, *)
(* in order, each exactly once; the BATTERY? query never lands inside a    *)
(* job; and only losing the RFCOMM channel may cut a job short.            *)
(*                                                                         *)
(* A packet is [job, k], the k-th packet of a job; Quiet stands for a      *)
(* channel that carried nothing since it opened, Query for BATTERY?.       *)
(***************************************************************************)
EXTENDS Naturals

CONSTANTS Jobs,     \* the print jobs clients submit
          NoJob,    \* no job
          Size      \* Size[j]: the packets job j takes on the wire

Quiet == [job |-> NoJob, k |-> 0]
Query == [job |-> NoJob, k |-> 1]

VARIABLES open,   \* the printer sees an open channel
          wire,   \* the last packet the printer got on it
          owed    \* jobs accepted on this channel that it has not finished

svars == <<open, wire, owed>>

\* The printer has the first packets of a job and waits for the rest.
MidJob(w) == w.job \in Jobs /\ w.k < Size[w.job]

SInit ==
    /\ open = FALSE
    /\ wire = Quiet
    /\ owed = {}

SOpen ==
    /\ ~open
    /\ open' = TRUE
    /\ wire' = Quiet
    /\ owed' = {}

\* Losing the channel is the only way a job ends before its last packet.
SCut ==
    /\ open
    /\ open' = FALSE
    /\ wire' = Quiet
    /\ owed' = {}

SAccept(j) ==
    /\ open
    /\ owed' = owed \union {j}
    /\ UNCHANGED <<open, wire>>

\* The next packet of the job in progress, or the first one of an owed job.
SPacket(j) ==
    /\ open
    /\ j \in owed
    /\ IF MidJob(wire)
         THEN wire.job = j /\ wire' = [wire EXCEPT !.k = @ + 1]
         ELSE wire' = [job |-> j, k |-> 1]
    /\ owed' = IF wire'.k = Size[j] THEN owed \ {j} ELSE owed
    /\ UNCHANGED open

SQuery ==
    /\ open
    /\ ~MidJob(wire)
    /\ wire' = Query
    /\ UNCHANGED <<open, owed>>

SNext ==
    \/ SOpen
    \/ SCut
    \/ SQuery
    \/ \E j \in Jobs : SAccept(j) \/ SPacket(j)

SSpec == SInit /\ [][SNext]_svars
=============================================================================
