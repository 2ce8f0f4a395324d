------------------------------- MODULE BtLink -------------------------------
(***************************************************************************)
(* The printer link of bt_core.c: inquiry, page, SDP query, RFCOMM channel *)
(* and the hold it puts on the WiFi radio while it needs it.               *)
(*                                                                         *)
(* b holds the statics of bt_core.c and, below them, what the firmware can *)
(* observe of BTstack.  Callbacks (BTstack events, HTTP requests) are      *)
(* single steps; the main loop (bt_poll, the 15 s inquiry) is preempted    *)
(* between its reads and its writes, at the labels of mpc.                 *)
(*                                                                         *)
(* Left out: print and keepalive traffic (PrintChannel), the texts of      *)
(* errors, pin_alt (it only chooses the PIN digits), the order of the scan *)
(* list (ScanList).  Deadlines are not timed: an armed one may be due at   *)
(* any later step.                                                         *)
(***************************************************************************)
EXTENDS Naturals, FiniteSets

CONSTANTS Addrs,      \* printers in reach
          NoAddr,
          Requests,   \* the HTTP requests made: subset of RequestKinds
          Refusals,   \* of an SDP query for want of memory: {FALSE} or BOOLEAN
          Preempt     \* callbacks come between the steps of main as well

RequestKinds == {"scan", "connect", "disconnect"}

ASSUME LinkAssumption ==
    /\ NoAddr \notin Addrs
    /\ Requests \subseteq RequestKinds
    /\ Refusals \subseteq BOOLEAN
    /\ Preempt \in BOOLEAN

VARIABLES b, mpc

vars == <<b, mpc>>

AddrOrNone == Addrs \union {NoAddr}
Statuses == {"page", "auth", "baseband", "other"}
Backoffs == {8, 16, 32, 60}

\* The printer remembered in the file system, which may be none.
PeerLoad == AddrOrNone

Init ==
    /\ mpc = "idle"
    /\ \E p \in PeerLoad :
         b = [state |-> "idle", sdpAfterInquiry |-> FALSE, inhibit |-> FALSE,
              authRetry |-> FALSE, retryAfterDisc |-> FALSE, spp |-> FALSE,
              cid |-> FALSE, acl |-> NoAddr, peer |-> p, found |-> NoAddr,
              resume |-> FALSE, backoff |-> 8, pageDue |-> TRUE, hold |-> FALSE,
              \* BTstack
              working |-> FALSE, inq |-> "off", sdp |-> NoAddr, reg |-> FALSE,
              paging |-> {}, up |-> {}, leaving |-> {},
              rf |-> "none", rfAddr |-> NoAddr]

-----------------------------------------------------------------------------
(* BTstack calls *)

\* gap_disconnect on a handle that is gone does nothing; otherwise the
\* disconnection is reported later (DisconnectionComplete).
GapDisconnect(s, a) ==
    IF a \in s.up THEN [s EXCEPT !.leaving = @ \union {a}] ELSE s

\* A query or a channel to a needs an ACL link.
Page(s, a) == IF a \in s.up THEN s ELSE [s EXCEPT !.paging = @ \union {a}]

-----------------------------------------------------------------------------
(* bt_core.c helpers, as functions of the state *)

RadioHold(s) == [s EXCEPT !.resume = FALSE, !.hold = TRUE]
RadioRelease(s) == [s EXCEPT !.resume = FALSE, !.hold = FALSE]

WillAutoRetry(s) == s.peer # NoAddr /\ ~s.inhibit

IdleKeepRadio(s) ==
    LET t == [s EXCEPT !.retryAfterDisc = FALSE, !.authRetry = FALSE,
                       !.state = "idle"]
    IN  IF WillAutoRetry(s) THEN t ELSE RadioRelease(t)

\* Mutant: no cap.
NextBackoffUncapped(sec) == 2 * sec

NextBackoff(sec) == IF 2 * sec > 60 THEN 60 ELSE 2 * sec

BackoffAndIdle(s) ==
    IdleKeepRadio([s EXCEPT !.pageDue = FALSE, !.backoff = NextBackoff(@)])

\* rfcomm_create_channel fails while the only channel is in use.
OpenRfcomm(s) ==
    IF s.rf # "none" THEN BackoffAndIdle(s)
    ELSE Page([s EXCEPT !.rf = "opening", !.rfAddr = s.peer], s.peer)

\* start_sdp_query; refused says that the stack had no room for the query.
StartSdpQuery(s, refused) ==
    LET t == [s EXCEPT !.spp = FALSE, !.reg = FALSE]
    IN  IF refused THEN BackoffAndIdle(t)
        ELSE Page([t EXCEPT !.sdp = s.peer], s.peer)

\* sdp_client_register_query_callback: now, or when the client is ready.
RegisterQuery(s, refused) ==
    IF s.sdp = NoAddr THEN StartSdpQuery(s, refused) ELSE [s EXCEPT !.reg = TRUE]

\* Mutant: the radio is not held for the page.
BeginSdpNoHold(s, refused) == RegisterQuery([s EXCEPT !.state = "connecting"], refused)

BeginSdp(s, refused) ==
    RegisterQuery(RadioHold([s EXCEPT !.state = "connecting"]), refused)

ConnectFailed(s, status) ==
    LET t  == [s EXCEPT !.cid = FALSE]
        st == IF status = "baseband" /\ s.spp /\ ~s.authRetry THEN "auth" ELSE status
    IN  IF st \in {"page", "baseband"} THEN BackoffAndIdle(t)
        ELSE IF st = "auth" /\ ~s.authRetry
               THEN IF s.acl # NoAddr
                      THEN GapDisconnect([t EXCEPT !.authRetry = TRUE,
                                                   !.retryAfterDisc = TRUE], s.acl)
                      ELSE OpenRfcomm([t EXCEPT !.authRetry = TRUE])
               ELSE IdleKeepRadio(t)

\* gap_inquiry_start fails before the stack works and while one runs.
ScanStart(s) ==
    LET t == RadioHold([s EXCEPT !.found = NoAddr, !.state = "scanning"])
    IN  IF s.state \in {"connecting", "connected"} THEN s
        ELSE IF s.working /\ s.inq = "off" THEN [t EXCEPT !.inq = "on"]
        ELSE RadioRelease([t EXCEPT !.state = "idle"])

StopInquiry(s) == [s EXCEPT !.inq = IF @ = "on" THEN "stopping" ELSE @]

Disconnect(s) ==
    LET t == [s EXCEPT !.inhibit = TRUE, !.sdpAfterInquiry = FALSE,
                       !.retryAfterDisc = FALSE, !.authRetry = FALSE]
        u == IF s.state = "scanning" THEN StopInquiry(t) ELSE t
        v == IF s.acl # NoAddr THEN GapDisconnect(u, s.acl) ELSE u
    IN  IF s.cid THEN [t EXCEPT !.rf = IF @ = "open" THEN "closing" ELSE @]
        ELSE RadioRelease([v EXCEPT !.state = "idle"])

Connect(s, a, refused) ==
    LET t == IF s.state = "connected" THEN Disconnect(s) ELSE s
        u == [t EXCEPT !.peer = a, !.inhibit = FALSE, !.backoff = 8,
                       !.pageDue = TRUE, !.authRetry = FALSE,
                       !.retryAfterDisc = FALSE]
    IN  IF s.state = "connected" /\ s.peer = a THEN s
        ELSE IF u.state = "scanning"
          THEN StopInquiry([u EXCEPT !.sdpAfterInquiry = TRUE, !.state = "connecting"])
        ELSE BeginSdp(u, refused)

\* Mutants: a drop while connected is not noticed; the radio stays held.
LinkLostConnecting(s) ==
    LET t == [s EXCEPT !.state = IF @ = "connecting" THEN "idle" ELSE @]
    IN  IF WillAutoRetry(s) THEN t ELSE RadioRelease(t)

LinkLostNoRelease(s) ==
    [s EXCEPT !.state = IF @ \in {"connected", "connecting"} THEN "idle" ELSE @]

\* What RFCOMM_EVENT_CHANNEL_CLOSED and HCI_EVENT_DISCONNECTION_COMPLETE share.
LinkLost(s) ==
    LET t == [s EXCEPT !.state = IF @ \in {"connected", "connecting"}
                                   THEN "idle" ELSE @]
    IN  IF WillAutoRetry(s) THEN t ELSE RadioRelease(t)

-----------------------------------------------------------------------------
(* packet_handler: what it does with each event of the stack *)

\* SDP_EVENT_QUERY_COMPLETE, whatever its status: channel 1 when no service
\* was found.  A query registered meanwhile starts afterwards.
QueryDone(s, refused) ==
    LET t == [s EXCEPT !.sdp = NoAddr, !.spp = TRUE]
        u == IF t.retryAfterDisc \/ t.state # "connecting" THEN t ELSE OpenRfcomm(t)
    IN  IF u.reg THEN StartSdpQuery(u, refused) ELSE u

\* RFCOMM_EVENT_CHANNEL_OPENED with an error; it names the connection handle
\* when there is a link.
OpenFailed(s, status, handle) ==
    ConnectFailed([s EXCEPT !.rf = "none", !.rfAddr = NoAddr,
                            !.acl = IF handle # NoAddr THEN handle ELSE @],
                  status)

\* Mutant: rfcomm_cid is not cleared.
ChannelGoneKeepsCid(s) ==
    LET t == [s EXCEPT !.rf = "none", !.rfAddr = NoAddr]
    IN  IF t.retryAfterDisc THEN t ELSE LinkLost(t)

\* RFCOMM_EVENT_CHANNEL_CLOSED
ChannelGone(s) ==
    LET t == [s EXCEPT !.rf = "none", !.rfAddr = NoAddr, !.cid = FALSE]
    IN  IF t.retryAfterDisc THEN t ELSE LinkLost(t)

\* l2cap_init registered its event handler before bt_core_init did: when the
\* link to a fails or drops, the channel and the query on it end first.
UpperLayersEnd(s, a, status, handle, refused) ==
    LET t == IF s.sdp = a THEN QueryDone(s, refused) ELSE s
    IN  IF s.rfAddr # a THEN t
        ELSE IF s.rf = "opening" THEN OpenFailed(t, status, handle)
        ELSE ChannelGone(t)

-----------------------------------------------------------------------------
(* The events, as callbacks *)

\* A callback may run: always, or only between two calls of main.
Callback == (Preempt \/ mpc = "idle") /\ UNCHANGED mpc

\* BTSTACK_EVENT_STATE, HCI_STATE_WORKING.
StackWorking ==
    /\ Callback
    /\ ~b.working
    /\ LET s == [b EXCEPT !.working = TRUE]
       IN  \E refused \in Refusals :
              b' = IF WillAutoRetry(s) THEN BeginSdp(s, refused) ELSE ScanStart(s)

\* GAP_EVENT_INQUIRY_RESULT for a printer: the first one found is picked.
InquiryResult(a) ==
    /\ Callback
    /\ b.inq # "off"
    /\ b.found = NoAddr
    /\ b' = [b EXCEPT !.found = a]

\* Mutants: radio_release after the page began; sdp_after_inquiry not reset;
\* the radio not released when no printer was found.
InquiryFallsThrough ==
    /\ Callback
    /\ b.inq # "off"
    /\ LET s == [b EXCEPT !.inq = "off",
                          !.state = IF @ = "scanning" THEN "idle" ELSE @]
       IN  \E refused \in Refusals :
              b' = RadioRelease(IF s.sdpAfterInquiry \/ s.found # NoAddr
                                  THEN BeginSdp([s EXCEPT !.sdpAfterInquiry = FALSE,
                                                          !.peer = s.found], refused)
                                  ELSE s)

InquiryKeepsRequest ==
    /\ Callback
    /\ b.inq # "off"
    /\ b.sdpAfterInquiry
    /\ \E refused \in Refusals : b' = BeginSdp([b EXCEPT !.inq = "off"], refused)

InquiryNoRelease ==
    /\ Callback
    /\ b.inq # "off"
    /\ b' = [b EXCEPT !.inq = "off", !.state = IF @ = "scanning" THEN "idle" ELSE @]

\* GAP_EVENT_INQUIRY_COMPLETE, also the answer to gap_inquiry_stop.
InquiryComplete ==
    /\ Callback
    /\ b.inq # "off"
    /\ LET s == [b EXCEPT !.inq = "off",
                          !.state = IF @ = "scanning" THEN "idle" ELSE @]
       IN  \E refused \in Refusals :
              b' = IF s.sdpAfterInquiry
                     THEN BeginSdp([s EXCEPT !.sdpAfterInquiry = FALSE], refused)
                   ELSE IF ~s.inhibit /\ s.state = "idle" /\ s.found # NoAddr
                     THEN BeginSdp([s EXCEPT !.peer = s.found], refused)
                   ELSE RadioRelease(s)

\* HCI_EVENT_CONNECTION_COMPLETE.
AclUp(a) ==
    /\ Callback
    /\ b.working /\ a \in b.paging
    /\ b' = [b EXCEPT !.paging = @ \ {a}, !.up = @ \union {a}, !.acl = a]

AclFailed(a, status) ==
    /\ Callback
    /\ b.working /\ a \in b.paging
    /\ \E refused \in Refusals :
         LET s == UpperLayersEnd([b EXCEPT !.paging = @ \ {a}], a, status, NoAddr, refused)
             t == [s EXCEPT !.acl = NoAddr]
         IN  b' = IF t.state = "connecting" THEN ConnectFailed(t, status) ELSE t

\* Mutant: the pairing retry does not open the channel again.
DisconnectionNoReopen(a, status) ==
    /\ Callback
    /\ a \in b.up
    /\ \E refused \in Refusals :
         LET r == [b EXCEPT !.up = @ \ {a}, !.leaving = @ \ {a}]
             s == UpperLayersEnd(r, a, status, a, refused)
             t == [s EXCEPT !.acl = NoAddr, !.cid = FALSE]
         IN  b' = IF t.retryAfterDisc /\ t.state = "connecting"
                    THEN [t EXCEPT !.retryAfterDisc = FALSE]
                    ELSE LinkLost(t)

\* HCI_EVENT_DISCONNECTION_COMPLETE: asked for, or the printer went away.
DisconnectionComplete(a, status) ==
    /\ Callback
    /\ a \in b.up
    /\ \E refused \in Refusals :
         LET r == [b EXCEPT !.up = @ \ {a}, !.leaving = @ \ {a}]
             s == UpperLayersEnd(r, a, status, a, refused)
             t == [s EXCEPT !.acl = NoAddr, !.cid = FALSE]
         IN  b' = IF t.retryAfterDisc /\ t.state = "connecting"
                    THEN OpenRfcomm([t EXCEPT !.retryAfterDisc = FALSE])
                    ELSE LinkLost(t)

\* HCI_EVENT_AUTHENTICATION_COMPLETE and HCI_EVENT_SIMPLE_PAIRING_COMPLETE
\* with an error, while the link for the query or the channel is secured.
PairingFailed(status) ==
    /\ Callback
    /\ b.sdp \in b.up \/ (b.rf = "opening" /\ b.rfAddr \in b.up)
    /\ b.state = "connecting"
    /\ b' = ConnectFailed(b, status)

\* SDP_EVENT_QUERY_RFCOMM_SERVICE
SdpService ==
    /\ Callback
    /\ b.sdp \in b.up /\ ~b.spp
    /\ b' = [b EXCEPT !.spp = TRUE]

SdpComplete ==
    /\ Callback
    /\ b.sdp \in b.up
    /\ \E refused \in Refusals : b' = QueryDone(b, refused)

\* RFCOMM_EVENT_CHANNEL_OPENED
RfcommOpened ==
    /\ Callback
    /\ b.rf = "opening" /\ b.rfAddr \in b.up
    /\ b' = [b EXCEPT !.rf = "open", !.cid = TRUE, !.acl = b.rfAddr,
                      !.state = "connected", !.authRetry = FALSE,
                      !.retryAfterDisc = FALSE, !.backoff = 8, !.pageDue = TRUE,
                      !.resume = TRUE]

RfcommOpenFailed(status) ==
    /\ Callback
    /\ b.rf = "opening" /\ b.rfAddr \in b.up
    /\ b' = OpenFailed(b, status, b.rfAddr)

RfcommClosed ==
    /\ Callback
    /\ b.rf \in {"open", "closing"}
    /\ b' = ChannelGone(b)

-----------------------------------------------------------------------------
(* HTTP requests *)

HttpScan ==
    /\ Callback
    /\ "scan" \in Requests
    /\ b' = ScanStart(b)

HttpConnect(a) ==
    /\ Callback
    /\ "connect" \in Requests
    /\ \E refused \in Refusals : b' = Connect(b, a, refused)

HttpDisconnect ==
    /\ Callback
    /\ "disconnect" \in Requests
    /\ b' = Disconnect(b)

-----------------------------------------------------------------------------
(* The main loop *)

\* An armed page backoff runs out.
BackoffOver ==
    /\ ~b.pageDue
    /\ b' = [b EXCEPT !.pageDue = TRUE]
    /\ UNCHANGED mpc

\* bt_poll: 400 ms after the channel opened, the radio goes back to WiFi.
PollResume ==
    /\ mpc = "idle"
    /\ b.state = "connected" /\ b.cid /\ b.resume
    /\ mpc' = "resume"
    /\ UNCHANGED b

Resume ==
    /\ mpc = "resume"
    /\ b' = RadioRelease(b)
    /\ mpc' = "idle"

\* bt_poll: time to page the remembered printer.
PollPage ==
    /\ mpc = "idle"
    /\ ~(b.state = "connected" /\ b.cid)
    /\ WillAutoRetry(b)
    /\ b.state = "idle"
    /\ b.pageDue
    /\ mpc' = "page"
    /\ UNCHANGED b

PageState ==
    /\ mpc = "page"
    /\ b' = [b EXCEPT !.state = "connecting"]
    /\ mpc' = "pageHold"

PageHold ==
    /\ mpc = "pageHold"
    /\ b' = RadioHold(b)
    /\ mpc' = "pageQuery"

PageQuery ==
    /\ mpc = "pageQuery"
    /\ \E refused \in Refusals : b' = RegisterQuery(b, refused)
    /\ mpc' = "idle"

\* main: every 15 s without a printer, an inquiry.
PollScan ==
    /\ mpc = "idle"
    /\ b.working
    /\ b.peer = NoAddr
    /\ b.state = "idle"
    /\ mpc' = "scan"
    /\ UNCHANGED b

ScanState ==
    /\ mpc = "scan"
    /\ IF b.state \in {"connecting", "connected"}
         THEN mpc' = "idle" /\ UNCHANGED b
         ELSE /\ b' = [b EXCEPT !.found = NoAddr, !.state = "scanning"]
              /\ mpc' = "scanHold"

ScanHold ==
    /\ mpc = "scanHold"
    /\ b' = RadioHold(b)
    /\ mpc' = "scanInquiry"

ScanInquiry ==
    /\ mpc = "scanInquiry"
    /\ b' = IF b.working /\ b.inq = "off"
              THEN [b EXCEPT !.inq = "on"]
              ELSE RadioRelease([b EXCEPT !.state = "idle"])
    /\ mpc' = "idle"

-----------------------------------------------------------------------------
StackEvent ==
    \/ StackWorking \/ InquiryComplete \/ SdpService \/ SdpComplete
    \/ RfcommOpened \/ RfcommClosed
    \/ \E a \in Addrs : InquiryResult(a) \/ AclUp(a)
    \/ \E a \in Addrs, status \in {"page", "auth", "other"} : AclFailed(a, status)
    \/ \E a \in Addrs, status \in {"baseband", "other"} : DisconnectionComplete(a, status)
    \/ \E status \in {"auth", "other"} : PairingFailed(status) \/ RfcommOpenFailed(status)

MainStep ==
    \/ PollResume \/ Resume
    \/ PollPage \/ PageState \/ PageHold \/ PageQuery
    \/ PollScan \/ ScanState \/ ScanHold \/ ScanInquiry

Request == HttpScan \/ HttpDisconnect \/ \E a \in Addrs : HttpConnect(a)

Next ==
    \/ MainStep
    \/ BackoffOver
    \/ StackEvent
    \/ Request

Spec == Init /\ [][Next]_vars

\* A page, a query, an open, a close and a disconnection that was asked for
\* end, one way or the other; BTstack drops a link without channels; an armed
\* backoff runs out; the main loop goes on.
PageEnds(a) == AclUp(a) \/ \E st \in Statuses : AclFailed(a, st)
OpenEnds == RfcommOpened \/ \E st \in Statuses : RfcommOpenFailed(st)
Drops(a) == \E st \in {"baseband", "other"} : DisconnectionComplete(a, st)

StackFairness ==
    /\ SF_vars(StackWorking) /\ SF_vars(InquiryComplete) /\ SF_vars(SdpComplete)
    /\ SF_vars(OpenEnds) /\ SF_vars(b.rf = "closing" /\ RfcommClosed)
    /\ \A a \in Addrs :
         /\ SF_vars(PageEnds(a))
         /\ SF_vars(a \in b.leaving /\ Drops(a))
         /\ SF_vars(a \notin {b.sdp, b.rfAddr} /\ Drops(a))

FairSpec == Spec /\ WF_vars(MainStep) /\ WF_vars(BackoffOver) /\ StackFairness

\* What keeps a printer from being reached: a page or an open that fails, a
\* link or a channel that drops unasked.
Failure ==
    \/ \E a \in Addrs, st \in Statuses : AclFailed(a, st)
    \/ \E a \in {b.sdp, b.rfAddr} \ b.leaving, st \in Statuses : DisconnectionComplete(a, st)
    \/ \E st \in Statuses : PairingFailed(st) \/ RfcommOpenFailed(st)
    \/ b.rf = "open" /\ RfcommClosed

-----------------------------------------------------------------------------
(* Properties *)

TypeOK ==
    /\ mpc \in {"idle", "resume", "page", "pageHold", "pageQuery",
                "scan", "scanHold", "scanInquiry"}
    /\ b \in [state : {"idle", "scanning", "connecting", "connected"},
              sdpAfterInquiry : BOOLEAN, inhibit : BOOLEAN, authRetry : BOOLEAN,
              retryAfterDisc : BOOLEAN, spp : BOOLEAN, cid : BOOLEAN,
              acl : AddrOrNone, peer : AddrOrNone, found : AddrOrNone,
              resume : BOOLEAN, backoff : Backoffs, pageDue : BOOLEAN,
              hold : BOOLEAN, working : BOOLEAN, inq : {"off", "on", "stopping"},
              sdp : AddrOrNone, reg : BOOLEAN, paging : SUBSET Addrs,
              up : SUBSET Addrs, leaving : SUBSET Addrs,
              rf : {"none", "opening", "open", "closing"}, rfAddr : AddrOrNone]

\* Unless the user disconnected, the radio is held while bt_core.c scans or
\* connects and while an inquiry runs: through every failed page, pairing
\* retry, drop and backoff.
RadioHeld ==
    ~b.inhibit /\ (b.state \in {"scanning", "connecting"} \/ b.inq # "off")
        => b.hold \/ mpc \in {"pageHold", "scanHold"}

\* rfcomm_cid names a channel of the stack whenever it is set: bt_is_connected
\* and every rfcomm_send rely on it, across late closes and failed opens.
CidNamesChannel == b.cid => b.rf \in {"open", "closing"}

\* A connect request made during an inquiry is not forgotten: the inquiry
\* whose end starts the page is still running.
ConnectNotForgotten == b.sdpAfterInquiry => b.inq # "off" \/ mpc # "idle"

\* The radio is not kept from WiFi for nothing.
HoldJustified ==
    b.hold => \/ b.state # "idle"
              \/ b.inq # "off"
              \/ WillAutoRetry(b)
              \/ mpc # "idle"

\* BtLink does to the rest of the firmware only what BtService says.  Main
\* has begun when it has held the radio.
Service == INSTANCE BtService WITH
               phase <- IF mpc \in {"pageHold", "scanHold"} THEN "idle" ELSE b.state,
               hold <- b.hold
ImplementsService == Service!Spec

\* No attempt to connect lasts for ever.
ConnectingEnds == b.state = "connecting" ~> b.state # "connecting"

\* Unless it is kept for a printer that will be paged again, the radio goes
\* back to WiFi in the end: after a user's disconnect SoftAP can return.
RadioReturned == b.hold ~> ~b.hold \/ WillAutoRetry(b)

\* Once failures stop, a remembered printer is connected again, unless the
\* user disconnects.
Reconnects ==
    \/ []<><<Failure>>_vars
    \/ WillAutoRetry(b) ~> (b.state = "connected" /\ b.cid) \/ ~WillAutoRetry(b)
=============================================================================
