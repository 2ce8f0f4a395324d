---------------------------- MODULE BtLinkProofs ----------------------------
(***************************************************************************)
(* The printer link, for every set of printers in reach, every mix of      *)
(* requests the theorem names, a stack that refuses queries or not, and,   *)
(* except for the refinement, callbacks between any two steps of the main  *)
(* loop.                                                                   *)
(***************************************************************************)
EXTENDS BtLink, TLAPS

Link == [state : {"idle", "scanning", "connecting", "connected"},
         sdpAfterInquiry : BOOLEAN, inhibit : BOOLEAN, authRetry : BOOLEAN,
         retryAfterDisc : BOOLEAN, spp : BOOLEAN, cid : BOOLEAN,
         acl : AddrOrNone, peer : AddrOrNone, found : AddrOrNone,
         resume : BOOLEAN, backoff : Backoffs, pageDue : BOOLEAN,
         hold : BOOLEAN, working : BOOLEAN, inq : {"off", "on", "stopping"},
         sdp : AddrOrNone, reg : BOOLEAN, paging : SUBSET Addrs,
         up : SUBSET Addrs, leaving : SUBSET Addrs,
         rf : {"none", "opening", "open", "closing"}, rfAddr : AddrOrNone]

CidOk(s) == s.cid => s.rf \in {"open", "closing"}

\* Without a printer to page nothing of the stack is in use but the inquiry.
Unused(s, m) ==
    s.peer = NoAddr =>
        /\ s.state \in {"idle", "scanning"} /\ s.sdp = NoAddr /\ s.rf = "none"
        /\ s.paging = {} /\ s.up = {} /\ ~s.sdpAfterInquiry
        /\ m \notin {"resume", "page", "pageHold", "pageQuery"}

\* A scan, and a connect request that waits for its end, have an inquiry, or main
\* is about to start one.
Inquiring(s, m) ==
    /\ s.state = "scanning" \/ s.sdpAfterInquiry
         => s.inq # "off" \/ m \in {"scanHold", "scanInquiry"}
    /\ m \in {"scan", "scanHold", "scanInquiry"} => s.working

LinkOk(s, m) == s \in Link /\ CidOk(s) /\ Unused(s, m) /\ Inquiring(s, m)

Pcs == {"idle", "resume", "page", "pageHold", "pageQuery",
        "scan", "scanHold", "scanInquiry"}

\* Nobody disconnected, and the radio held for no printer has an inquiry to serve.
HoldOk(s, m) ==
    /\ ~s.inhibit
    /\ s.hold /\ s.peer = NoAddr => s.state # "idle" \/ s.inq # "off" \/ m # "idle"

\* Until a disconnect: without a printer only inquiries of main or of the start run,
\* one at a time and with the radio held; with one, only main gives the radio back,
\* and not while it connects.
HeldOk(s, m) ==
    ~s.inhibit =>
        /\ s.up # {} \/ s.state = "connected" \/ s.inq # "off" \/ m = "resume" => s.working
        /\ s.peer = NoAddr =>
              /\ m = "scan" => s.state = "idle" /\ s.inq = "off"
              /\ m \in {"scanHold", "scanInquiry"} => s.state = "scanning" /\ s.inq = "off"
              /\ m = "scanInquiry" => s.hold
              /\ m = "idle" => /\ s.inq = "off" <=> s.state = "idle"
                               /\ s.inq # "off" => s.hold
        /\ s.peer # NoAddr =>
              /\ s.inq = "off" /\ s.state # "scanning"
              /\ m \notin {"scan", "scanHold", "scanInquiry"}
              /\ s.state = "connecting" => s.hold \/ m = "pageHold"
              /\ m = "resume" => s.state # "connecting"

\* Between two calls of main nothing else happens.
Alone(s, m) ==
    /\ m \in {"page", "scan"} => s.state = "idle"
    /\ m = "pageHold" => s.state = "connecting"
    /\ m = "scanHold" => s.state = "scanning"

AllOk(s, m) ==
    /\ m \in Pcs /\ LinkOk(s, m)
    /\ "disconnect" \notin Requests => HoldOk(s, m)
    /\ Requests \subseteq {"disconnect"} => HeldOk(s, m)
    /\ ~Preempt => Alone(s, m)

\* A step from s, with main at m, to t and n, as the WiFi side may see it.
Phase(s, m) == IF m \in {"pageHold", "scanHold"} THEN "idle" ELSE s.state

Serves(t, n, s, m) ==
    \/ Phase(t, n) # "connected" /\ t.hold = TRUE
    \/ /\ \/ Phase(s, m) = "scanning" /\ Phase(t, n) = "connecting"
          \/ Phase(s, m) # "connected" /\ Phase(t, n) = "connected"
       /\ t.hold = s.hold
    \/ Phase(t, n) \in {Phase(s, m), "idle"} /\ t.hold \in {s.hold, FALSE}

Goes(t, n, s, m) == AllOk(t, n) /\ (~Preempt => Serves(t, n, s, m))

-----------------------------------------------------------------------------
(* What most events do at most: end an attempt or a link, and give the     *)
(* radio back, though not while the printer is to be paged again           *)

Quiet(t, s) ==
    /\ t \in Link
    /\ t.peer = s.peer /\ t.inhibit = s.inhibit /\ t.working = s.working
    /\ t.inq = s.inq /\ t.sdpAfterInquiry = s.sdpAfterInquiry /\ t.up \subseteq s.up
    /\ t.state \in {s.state, "idle"} /\ t.hold \in {s.hold, FALSE}
    /\ t.hold = s.hold \/ ~WillAutoRetry(s)
    /\ t.state = "connecting" => t.hold = s.hold
    /\ t.cid => s.cid
    /\ CidOk(s) => CidOk(t)

\* Doing nothing is quiet.
LEMMA QuietStays == \A s \in Link : Quiet(s, s)
BY DEF Quiet

\* One quiet event after another is quiet.
LEMMA QuietTrans ==
    ASSUME NEW s, NEW t, NEW u, Quiet(t, s), Quiet(u, t)
    PROVE  Quiet(u, s)
BY DEF Quiet, WillAutoRetry

\* radio_release gives the radio back and touches nothing else of the link.
LEMMA ReleaseFields ==
    ASSUME NEW s \in Link
    PROVE  LET t == RadioRelease(s)
           IN  /\ t \in Link /\ t.state = s.state /\ t.hold = FALSE
               /\ t.peer = s.peer /\ t.inhibit = s.inhibit /\ t.working = s.working
               /\ t.inq = s.inq /\ t.sdpAfterInquiry = s.sdpAfterInquiry /\ t.up = s.up
               /\ t.cid = s.cid /\ t.rf = s.rf /\ t.sdp = s.sdp /\ t.paging = s.paging
BY DEF RadioRelease, Link

\* will_auto_retry decides whether the radio is kept.
LEMMA IdleQuiet ==
    ASSUME NEW s \in Link
    PROVE  /\ Quiet(IdleKeepRadio(s), s) /\ IdleKeepRadio(s).state = "idle"
           /\ IdleKeepRadio(s).hold => WillAutoRetry(s)
<1> DEFINE t == [s EXCEPT !.retryAfterDisc = FALSE, !.authRetry = FALSE, !.state = "idle"]
           u == RadioRelease(t)
<1>1. /\ t \in Link /\ t.state = "idle" /\ t.hold = s.hold
      /\ t.peer = s.peer /\ t.inhibit = s.inhibit /\ t.working = s.working
      /\ t.inq = s.inq /\ t.sdpAfterInquiry = s.sdpAfterInquiry /\ t.up = s.up
      /\ t.cid = s.cid /\ t.rf = s.rf
  BY DEF Link
<1>2. IdleKeepRadio(s) = IF WillAutoRetry(s) THEN t ELSE u
  BY DEF IdleKeepRadio
<1> HIDE DEF t
<1>3. /\ u \in Link /\ u.state = "idle" /\ u.hold = FALSE
      /\ u.peer = t.peer /\ u.inhibit = t.inhibit /\ u.working = t.working
      /\ u.inq = t.inq /\ u.sdpAfterInquiry = t.sdpAfterInquiry /\ u.up = t.up
      /\ u.cid = t.cid /\ u.rf = t.rf
  BY <1>1, ReleaseFields
<1> HIDE DEF u
<1>4. Quiet(t, s) /\ (~WillAutoRetry(s) => Quiet(u, s))
  BY <1>1, <1>3 DEF Quiet, CidOk
<1> QED BY <1>1, <1>2, <1>3, <1>4

\* The next delay is one of four.
LEMMA NextDelay == \A k \in Backoffs : NextBackoff(k) \in Backoffs
BY DEF Backoffs, NextBackoff

\* backoff_and_idle ends an attempt: it goes idle and keeps the radio only for a retry.
LEMMA BackoffQuiet ==
    ASSUME NEW s \in Link
    PROVE  Quiet(BackoffAndIdle(s), s)
<1> DEFINE k == NextBackoff(s.backoff)
           t == [s EXCEPT !.pageDue = FALSE, !.backoff = k]
<1>1. k \in Backoffs
  BY NextDelay DEF Link
<1>2. BackoffAndIdle(s) = IdleKeepRadio(t)
  BY Zenon DEF BackoffAndIdle
<1> HIDE DEF k
<1>3. Quiet(t, s)
  BY <1>1 DEF Link, Quiet, CidOk
<1> HIDE DEF t
<1>4. t \in Link
  BY <1>3 DEF Quiet
<1> QED BY <1>2, <1>3, <1>4, IdleQuiet, QuietTrans

\* gap_disconnect only asks for the end of a link that is up.
LEMMA GapQuiet ==
    ASSUME NEW s \in Link, NEW a
    PROVE  /\ Quiet(GapDisconnect(s, a), s)
           /\ GapDisconnect(s, a).inq = s.inq /\ GapDisconnect(s, a).rf = s.rf
           /\ GapDisconnect(s, a).sdp = s.sdp /\ GapDisconnect(s, a).paging = s.paging
           /\ GapDisconnect(s, a).hold = s.hold /\ GapDisconnect(s, a).state = s.state
<1> DEFINE L == s.leaving \union {a}
           t == [s EXCEPT !.leaving = L]
<1>1. GapDisconnect(s, a) = IF a \in s.up THEN t ELSE s
  BY Zenon DEF GapDisconnect
<1>2. a \in s.up => L \in SUBSET Addrs
  BY DEF Link
<1> HIDE DEF L
<1>3. a \in s.up => /\ Quiet(t, s) /\ t.inq = s.inq /\ t.rf = s.rf /\ t.sdp = s.sdp
                    /\ t.paging = s.paging /\ t.hold = s.hold /\ t.state = s.state
  BY <1>2 DEF Link, Quiet, CidOk
<1> HIDE DEF t
<1> QED BY <1>1, <1>3, QuietStays

\* Paging a printer changes nothing before the answer.
LEMMA PageQuiet ==
    ASSUME NEW s \in Link, NEW a \in Addrs
    PROVE  Quiet(Page(s, a), s)
<1> DEFINE P == s.paging \union {a}
           t == [s EXCEPT !.paging = P]
<1>1. Page(s, a) = IF a \in s.up THEN s ELSE t
  BY Zenon DEF Page
<1>2. P \in SUBSET Addrs
  BY DEF Link
<1> HIDE DEF P
<1>3. Quiet(t, s)
  BY <1>2 DEF Link, Quiet, CidOk
<1> HIDE DEF t
<1> QED BY <1>1, <1>3, QuietStays

\* open_rfcomm begins a channel to the printer, or gives the attempt up.
LEMMA OpenQuiet ==
    ASSUME NEW s \in Link, s.peer # NoAddr
    PROVE  Quiet(OpenRfcomm(s), s)
<1> DEFINE t == [s EXCEPT !.rf = "opening", !.rfAddr = s.peer]
<1>1. OpenRfcomm(s) = IF s.rf # "none" THEN BackoffAndIdle(s) ELSE Page(t, s.peer)
  BY Zenon DEF OpenRfcomm
<1>2. s.peer \in Addrs
  BY DEF Link, AddrOrNone
<1>3. s.rf = "none" => Quiet(t, s)
  BY DEF Link, Quiet, CidOk
<1> HIDE DEF t
<1>4. CASE s.rf = "none"
  <2>1. t \in Link
    BY <1>3, <1>4 DEF Quiet
  <2>2. Quiet(Page(t, s.peer), t)
    BY <1>2, <2>1, PageQuiet
  <2> QED BY <1>1, <1>3, <1>4, <2>2, QuietTrans
<1> QED BY <1>1, <1>4, BackoffQuiet

\* start_sdp_query asks the printer, or gives the attempt up.
LEMMA StartQuiet ==
    ASSUME NEW s \in Link, s.peer # NoAddr, NEW refused \in BOOLEAN
    PROVE  Quiet(StartSdpQuery(s, refused), s)
<1> DEFINE t == [s EXCEPT !.spp = FALSE, !.reg = FALSE]
           u == [t EXCEPT !.sdp = s.peer]
<1>1. StartSdpQuery(s, refused) = IF refused THEN BackoffAndIdle(t) ELSE Page(u, s.peer)
  BY Zenon DEF StartSdpQuery
<1>2. s.peer \in Addrs
  BY DEF Link, AddrOrNone
<1>3. Quiet(t, s) /\ t \in Link
  BY DEF Link, Quiet, CidOk
<1> HIDE DEF t
<1>4. Quiet(u, t) /\ u \in Link
  BY <1>2, <1>3 DEF Link, Quiet, CidOk, AddrOrNone
<1> HIDE DEF u
<1>5. Quiet(BackoffAndIdle(t), t) /\ Quiet(Page(u, s.peer), u)
  BY <1>2, <1>3, <1>4, BackoffQuiet, PageQuiet
<1> QED BY <1>1, <1>3, <1>4, <1>5, QuietTrans

\* A query is started, or waits for the one that runs.
LEMMA RegisterQuiet ==
    ASSUME NEW s \in Link, s.peer # NoAddr, NEW refused \in BOOLEAN
    PROVE  Quiet(RegisterQuery(s, refused), s)
<1> DEFINE t == [s EXCEPT !.reg = TRUE]
<1>1. RegisterQuery(s, refused) = IF s.sdp = NoAddr THEN StartSdpQuery(s, refused) ELSE t
  BY Zenon DEF RegisterQuery
<1>2. Quiet(t, s)
  BY DEF Link, Quiet, CidOk
<1> HIDE DEF t
<1> QED BY <1>1, <1>2, StartQuiet

\* connect_failed, whatever it decides: the channel has no id any more.
LEMMA FailQuiet ==
    ASSUME NEW s \in Link, s.peer # NoAddr, NEW status
    PROVE  Quiet(ConnectFailed(s, status), s) /\ ~ConnectFailed(s, status).cid
<1> DEFINE t == [s EXCEPT !.cid = FALSE]
           u == [t EXCEPT !.authRetry = TRUE, !.retryAfterDisc = TRUE]
           v == [t EXCEPT !.authRetry = TRUE]
           f == ConnectFailed(s, status)
<1>1. \/ f = BackoffAndIdle(t) \/ f = GapDisconnect(u, s.acl)
      \/ f = OpenRfcomm(v) \/ f = IdleKeepRadio(t)
  BY Zenon DEF ConnectFailed
<1>2. Quiet(t, s) /\ t \in Link /\ ~t.cid /\ t.peer = s.peer
  BY DEF Link, Quiet, CidOk
<1> HIDE DEF t
<1>3. /\ Quiet(u, t) /\ u \in Link /\ ~u.cid
      /\ Quiet(v, t) /\ v \in Link /\ ~v.cid /\ v.peer = s.peer
  BY <1>2 DEF Link, Quiet, CidOk
<1> HIDE DEF u, v
<1>4. /\ Quiet(BackoffAndIdle(t), t) /\ Quiet(IdleKeepRadio(t), t)
      /\ Quiet(GapDisconnect(u, s.acl), u) /\ Quiet(OpenRfcomm(v), v)
  BY <1>2, <1>3, BackoffQuiet, IdleQuiet, GapQuiet, OpenQuiet
<1>5. PICK w : Quiet(w, s) /\ Quiet(f, w) /\ ~w.cid
  BY <1>1, <1>2, <1>3, <1>4, QuietTrans
<1> HIDE DEF f
<1>6. Quiet(f, s) /\ ~f.cid
  <2>1. ~f.cid
    BY <1>5 DEF Quiet
  <2> QED BY <1>5, <2>1, QuietTrans
<1> QED BY <1>6 DEF f

\* The loss of the link keeps the radio only while the printer is to be paged again.
LEMMA LostQuiet ==
    ASSUME NEW s \in Link
    PROVE  Quiet(LinkLost(s), s)
<1> DEFINE x == IF s.state \in {"connected", "connecting"} THEN "idle" ELSE s.state
           t == [s EXCEPT !.state = x]
           u == RadioRelease(t)
<1>1. LinkLost(s) = IF WillAutoRetry(s) THEN t ELSE u
  BY Zenon DEF LinkLost
<1>2. x \in {s.state, "idle"} /\ x # "connecting"
  BY DEF Link
<1> HIDE DEF x
<1>3. /\ Quiet(t, s) /\ t \in Link /\ t.state = x
      /\ t.peer = s.peer /\ t.inhibit = s.inhibit
  BY <1>2 DEF Link, Quiet, CidOk
<1> HIDE DEF t
<1>4. /\ u \in Link /\ u.state = x /\ u.hold = FALSE
      /\ u.peer = t.peer /\ u.inhibit = t.inhibit /\ u.working = t.working
      /\ u.inq = t.inq /\ u.sdpAfterInquiry = t.sdpAfterInquiry /\ u.up = t.up
      /\ u.cid = t.cid /\ u.rf = t.rf
  BY <1>3, ReleaseFields
<1> HIDE DEF u
<1>5. ~WillAutoRetry(s) => Quiet(u, t)
  BY <1>2, <1>3, <1>4 DEF Quiet, CidOk, WillAutoRetry
<1> QED BY <1>1, <1>3, <1>5, QuietTrans

\* The end of a query opens the channel, or starts the query that waited.
LEMMA DoneQuiet ==
    ASSUME NEW s \in Link, s.peer # NoAddr, NEW refused \in BOOLEAN
    PROVE  Quiet(QueryDone(s, refused), s)
<1> DEFINE t == [s EXCEPT !.sdp = NoAddr, !.spp = TRUE]
           u == IF t.retryAfterDisc \/ t.state # "connecting" THEN t ELSE OpenRfcomm(t)
<1>1. QueryDone(s, refused) = IF u.reg THEN StartSdpQuery(u, refused) ELSE u
  BY Zenon DEF QueryDone
<1>2. Quiet(t, s) /\ t \in Link /\ t.peer # NoAddr
  BY DEF Link, Quiet, CidOk, AddrOrNone
<1> HIDE DEF t
<1>3. Quiet(u, t)
  BY <1>2, QuietStays, OpenQuiet
<1> HIDE DEF u
<1>4. u \in Link /\ u.peer # NoAddr
  BY <1>2, <1>3 DEF Quiet
<1>5. Quiet(u, s) /\ Quiet(StartSdpQuery(u, refused), u)
  BY <1>2, <1>3, <1>4, QuietTrans, StartQuiet
<1> QED BY <1>1, <1>5, QuietTrans

\* A failed open takes the channel and its id together.
LEMMA OpenFailedQuiet ==
    ASSUME NEW s \in Link, s.peer # NoAddr, NEW status, NEW handle \in AddrOrNone
    PROVE  Quiet(OpenFailed(s, status, handle), s)
<1> DEFINE x == IF handle # NoAddr THEN handle ELSE s.acl
           t == [s EXCEPT !.rf = "none", !.rfAddr = NoAddr, !.acl = x]
           u == ConnectFailed(t, status)
<1>1. OpenFailed(s, status, handle) = u
  BY Zenon DEF OpenFailed
<1>2. x \in AddrOrNone /\ NoAddr \in AddrOrNone
  BY DEF Link, AddrOrNone
<1> HIDE DEF x
<1>3. /\ t \in Link /\ t.state = s.state /\ t.hold = s.hold
      /\ t.peer = s.peer /\ t.inhibit = s.inhibit /\ t.working = s.working
      /\ t.inq = s.inq /\ t.sdpAfterInquiry = s.sdpAfterInquiry /\ t.up = s.up
  BY <1>2 DEF Link
<1> HIDE DEF t
<1>4. Quiet(u, t) /\ ~u.cid
  BY <1>3, FailQuiet
<1> HIDE DEF u
<1>5. Quiet(u, s)
  BY <1>3, <1>4 DEF Quiet, CidOk, WillAutoRetry
<1> QED BY <1>1, <1>5

\* The channel that closes takes its identifier with it.
LEMMA GoneQuiet ==
    ASSUME NEW s \in Link
    PROVE  Quiet(ChannelGone(s), s)
<1> DEFINE t == [s EXCEPT !.rf = "none", !.rfAddr = NoAddr, !.cid = FALSE]
<1>1. ChannelGone(s) = IF t.retryAfterDisc THEN t ELSE LinkLost(t)
  BY Zenon DEF ChannelGone
<1>2. /\ t \in Link /\ t.state = s.state /\ t.hold = s.hold /\ ~t.cid
      /\ t.peer = s.peer /\ t.inhibit = s.inhibit /\ t.working = s.working
      /\ t.inq = s.inq /\ t.sdpAfterInquiry = s.sdpAfterInquiry /\ t.up = s.up
  <2>1. NoAddr \in AddrOrNone
    BY DEF AddrOrNone
  <2>2. t \in Link
    BY <2>1 DEF Link
  <2> QED BY <2>2 DEF Link
<1> HIDE DEF t
<1>3. Quiet(t, s)
  BY <1>2 DEF Quiet, CidOk
<1> QED BY <1>1, <1>2, <1>3, LostQuiet, QuietTrans

\* The end of a link ends the query and the channel that used it.
LEMMA UpperQuiet ==
    ASSUME NEW s \in Link, s.peer # NoAddr, NEW a, NEW status,
           NEW handle \in AddrOrNone, NEW refused \in BOOLEAN
    PROVE  Quiet(UpperLayersEnd(s, a, status, handle, refused), s)
<1> DEFINE t == IF s.sdp = a THEN QueryDone(s, refused) ELSE s
<1>1. UpperLayersEnd(s, a, status, handle, refused) =
        IF s.rfAddr # a THEN t
        ELSE IF s.rf = "opening" THEN OpenFailed(t, status, handle) ELSE ChannelGone(t)
  BY Zenon DEF UpperLayersEnd
<1>2. Quiet(t, s)
  BY QuietStays, DoneQuiet
<1> HIDE DEF t
<1>3. t \in Link /\ t.peer # NoAddr
  BY <1>2 DEF Quiet
<1>4. Quiet(OpenFailed(t, status, handle), t) /\ Quiet(ChannelGone(t), t)
  BY <1>3, OpenFailedQuiet, GoneQuiet
<1> QED BY <1>1, <1>2, <1>4, QuietTrans

-----------------------------------------------------------------------------
(* How the invariant is kept                                               *)

\* A quiet event of the stack, with a printer set, keeps the invariant.
LEMMA QuietGoes ==
    ASSUME NEW s, NEW m, AllOk(s, m), s.peer # NoAddr, NEW t, Quiet(t, s),
           ~Preempt => m = "idle"
    PROVE  Goes(t, m, s, m)
<1>1. t \in Link /\ s \in Link
  BY DEF AllOk, LinkOk, Quiet
<1>2. LinkOk(t, m)
  BY <1>1 DEF AllOk, LinkOk, Unused, Inquiring, Quiet
<1>3. HoldOk(s, m) => HoldOk(t, m)
  BY DEF HoldOk, Quiet
<1>4. HeldOk(s, m) => HeldOk(t, m)
  BY <1>1 DEF HeldOk, Quiet, WillAutoRetry
<1>5. ~Preempt => Alone(t, m) /\ Serves(t, m, s, m)
  BY <1>1 DEF Alone, Serves, Phase, Quiet
<1> QED BY <1>2, <1>3, <1>4, <1>5 DEF AllOk, Goes

\* Nothing changes that the invariant speaks of.
Same(t, s) ==
    /\ t \in Link
    /\ t.peer = s.peer /\ t.inhibit = s.inhibit /\ t.working = s.working
    /\ t.inq = s.inq /\ t.sdpAfterInquiry = s.sdpAfterInquiry /\ t.up = s.up
    /\ t.state = s.state /\ t.hold = s.hold /\ t.cid = s.cid /\ t.rf = s.rf
    /\ t.sdp = s.sdp /\ t.paging = s.paging

\* So does an event that changes none of the fields the invariant reads.
LEMMA SameGoes ==
    ASSUME NEW s, NEW m, AllOk(s, m), NEW t, Same(t, s)
    PROVE  Goes(t, m, s, m)
<1>1. LinkOk(t, m)
  BY DEF AllOk, LinkOk, Unused, Inquiring, CidOk, Same
<1>2. HoldOk(s, m) => HoldOk(t, m)
  BY DEF HoldOk, Same
<1>3. HeldOk(s, m) => HeldOk(t, m)
  BY DEF HeldOk, Same
<1>4. (Alone(s, m) => Alone(t, m)) /\ Serves(t, m, s, m)
  BY DEF Alone, Serves, Phase, Same
<1> QED BY <1>1, <1>2, <1>3, <1>4 DEF AllOk, Goes

\* begin_sdp: connecting with the radio held, or at once idle again.
Begins(t, s) ==
    /\ t \in Link
    /\ t.peer = s.peer /\ t.inhibit = s.inhibit /\ t.working = s.working
    /\ t.inq = s.inq /\ t.sdpAfterInquiry = s.sdpAfterInquiry /\ t.up \subseteq s.up
    /\ t.state \in {"connecting", "idle"}
    /\ t.hold = TRUE \/ (t.state = "idle" /\ t.hold = FALSE)
    /\ CidOk(s) => CidOk(t)

\* begin_sdp holds the radio and then asks: it connects, or has already given up.
LEMMA BeginSdpBegins ==
    ASSUME NEW s \in Link, s.peer # NoAddr, NEW refused \in BOOLEAN
    PROVE  Begins(BeginSdp(s, refused), s)
<1> DEFINE u == [s EXCEPT !.state = "connecting"]
           v == RadioHold(u)
           t == RegisterQuery(v, refused)
<1>1. BeginSdp(s, refused) = t
  BY Zenon DEF BeginSdp
<1>2. /\ u \in Link /\ u.state = "connecting"
      /\ u.peer = s.peer /\ u.inhibit = s.inhibit /\ u.working = s.working
      /\ u.inq = s.inq /\ u.sdpAfterInquiry = s.sdpAfterInquiry /\ u.up = s.up
      /\ u.cid = s.cid /\ u.rf = s.rf
  BY DEF Link
<1> HIDE DEF u
<1>3. /\ v \in Link /\ v.state = "connecting" /\ v.hold = TRUE
      /\ v.peer = s.peer /\ v.inhibit = s.inhibit /\ v.working = s.working
      /\ v.inq = s.inq /\ v.sdpAfterInquiry = s.sdpAfterInquiry /\ v.up = s.up
      /\ v.cid = s.cid /\ v.rf = s.rf
  BY <1>2 DEF RadioHold, Link
<1> HIDE DEF v
<1>4. Quiet(t, v)
  BY <1>3, RegisterQuiet
<1> HIDE DEF t
<1>5. Begins(t, s)
  BY <1>3, <1>4 DEF Begins, Quiet, CidOk
<1> QED BY <1>1, <1>5

\* bt_scan_start: nothing, a scan with the radio held, or idle and the radio back.
Scans(t, s) ==
    /\ t \in Link
    /\ t.peer = s.peer /\ t.inhibit = s.inhibit /\ t.working = s.working
    /\ t.sdpAfterInquiry = s.sdpAfterInquiry /\ t.up = s.up /\ t.cid = s.cid
    /\ t.rf = s.rf /\ t.sdp = s.sdp /\ t.paging = s.paging
    /\ \/ s.state \in {"connecting", "connected"} /\ t = s
       \/ /\ s.state \in {"idle", "scanning"} /\ s.working /\ s.inq = "off"
          /\ t.state = "scanning" /\ t.inq = "on" /\ t.hold = TRUE
       \/ /\ s.state \in {"idle", "scanning"} /\ ~(s.working /\ s.inq = "off")
          /\ t.state = "idle" /\ t.inq = s.inq /\ t.hold = FALSE

\* scan_start holds the radio for the inquiry it starts, and gives it back if it cannot.
LEMMA ScanStartScans ==
    ASSUME NEW s \in Link
    PROVE  Scans(ScanStart(s), s)
<1> DEFINE u == [s EXCEPT !.found = NoAddr, !.state = "scanning"]
           v == RadioHold(u)
           w == [v EXCEPT !.inq = "on"]
           x == [v EXCEPT !.state = "idle"]
           y == RadioRelease(x)
           t == ScanStart(s)
<1>1. t = IF s.state \in {"connecting", "connected"} THEN s
          ELSE IF s.working /\ s.inq = "off" THEN w ELSE y
  BY Zenon DEF ScanStart
<1>2. NoAddr \in AddrOrNone
  BY DEF AddrOrNone
<1>3. u \in Link
  BY <1>2 DEF Link
<1>4. v = [s EXCEPT !.found = NoAddr, !.state = "scanning", !.resume = FALSE, !.hold = TRUE]
  BY DEF RadioHold, Link
<1> HIDE DEF u
<1>5. /\ v \in Link /\ v.hold = TRUE /\ v.state = "scanning"
      /\ v.peer = s.peer /\ v.inhibit = s.inhibit /\ v.working = s.working
      /\ v.sdpAfterInquiry = s.sdpAfterInquiry /\ v.up = s.up /\ v.cid = s.cid
      /\ v.rf = s.rf /\ v.sdp = s.sdp /\ v.paging = s.paging /\ v.inq = s.inq
  <2> HIDE DEF v
  <2>1. v \in Link
    BY <1>2, <1>4 DEF Link
  <2> QED BY <1>4, <2>1 DEF Link
<1> HIDE DEF v
<1>6. /\ w \in Link /\ w.hold = TRUE /\ w.state = "scanning" /\ w.inq = "on"
      /\ w.peer = s.peer /\ w.inhibit = s.inhibit /\ w.working = s.working
      /\ w.sdpAfterInquiry = s.sdpAfterInquiry /\ w.up = s.up /\ w.cid = s.cid
      /\ w.rf = s.rf /\ w.sdp = s.sdp /\ w.paging = s.paging
  BY <1>5 DEF Link
<1> HIDE DEF w
<1>7. /\ x \in Link /\ x.state = "idle" /\ x.inq = s.inq
      /\ x.peer = s.peer /\ x.inhibit = s.inhibit /\ x.working = s.working
      /\ x.sdpAfterInquiry = s.sdpAfterInquiry /\ x.up = s.up /\ x.cid = s.cid
      /\ x.rf = s.rf /\ x.sdp = s.sdp /\ x.paging = s.paging
  BY <1>5 DEF Link
<1> HIDE DEF x
<1>8. /\ y \in Link /\ y.state = "idle" /\ y.inq = s.inq /\ y.hold = FALSE
      /\ y.peer = s.peer /\ y.inhibit = s.inhibit /\ y.working = s.working
      /\ y.sdpAfterInquiry = s.sdpAfterInquiry /\ y.up = s.up /\ y.cid = s.cid
      /\ y.rf = s.rf /\ y.sdp = s.sdp /\ y.paging = s.paging
  BY <1>7, ReleaseFields
<1> HIDE DEF y, t
<1>9. s.state \in {"idle", "scanning", "connecting", "connected"}
  BY DEF Link
<1>10. CASE s.state \in {"connecting", "connected"}
  BY <1>1, <1>10 DEF Scans, t
<1>11. CASE s.state \in {"idle", "scanning"} /\ s.working /\ s.inq = "off"
  <2>1. t = w
    BY <1>1, <1>11
  <2> QED BY <1>6, <1>11, <2>1 DEF Scans, t
<1>12. CASE s.state \in {"idle", "scanning"} /\ ~(s.working /\ s.inq = "off")
  <2>1. t = y
    BY <1>1, <1>12
  <2> QED BY <1>8, <1>12, <2>1 DEF Scans, t
<1> QED BY <1>9, <1>10, <1>11, <1>12

\* gap_inquiry_stop
LEMMA StopFields ==
    ASSUME NEW s \in Link
    PROVE  LET t == StopInquiry(s)
           IN  /\ t \in Link /\ (t.inq = "off" <=> s.inq = "off")
               /\ t.peer = s.peer /\ t.inhibit = s.inhibit /\ t.working = s.working
               /\ t.sdpAfterInquiry = s.sdpAfterInquiry /\ t.up = s.up /\ t.cid = s.cid
               /\ t.rf = s.rf /\ t.sdp = s.sdp /\ t.paging = s.paging
               /\ t.state = s.state /\ t.hold = s.hold /\ t.acl = s.acl
<1> DEFINE x == IF s.inq = "on" THEN "stopping" ELSE s.inq
           t == [s EXCEPT !.inq = x]
<1>1. StopInquiry(s) = t
  BY Zenon DEF StopInquiry
<1>2. x \in {"off", "on", "stopping"} /\ (x = "off" <=> s.inq = "off")
  BY DEF Link
<1> HIDE DEF x
<1>3. /\ t \in Link /\ (t.inq = "off" <=> s.inq = "off")
      /\ t.peer = s.peer /\ t.inhibit = s.inhibit /\ t.working = s.working
      /\ t.sdpAfterInquiry = s.sdpAfterInquiry /\ t.up = s.up /\ t.cid = s.cid
      /\ t.rf = s.rf /\ t.sdp = s.sdp /\ t.paging = s.paging
      /\ t.state = s.state /\ t.hold = s.hold /\ t.acl = s.acl
  BY <1>2 DEF Link
<1> HIDE DEF t
<1> QED BY <1>1, <1>3

\* bt_disconnect: the channel goes on closing, or the state is idle at once.
Leaves(t, s) ==
    /\ t \in Link
    /\ t.peer = s.peer /\ t.inhibit = TRUE /\ t.working = s.working
    /\ t.inq = "off" <=> s.inq = "off"
    /\ t.sdpAfterInquiry = FALSE /\ t.up \subseteq s.up /\ t.sdp = s.sdp
    /\ t.paging = s.paging
    /\ t.state \in {s.state, "idle"} /\ t.hold \in {s.hold, FALSE}
    /\ t.rf = "none" <=> s.rf = "none"
    /\ CidOk(s) => CidOk(t)

\* bt_disconnect leaves the link idle, inhibited and without the radio.
LEMMA DisconnectLeaves ==
    ASSUME NEW s \in Link
    PROVE  Leaves(Disconnect(s), s)
<1> DEFINE t == [s EXCEPT !.inhibit = TRUE, !.sdpAfterInquiry = FALSE,
                          !.retryAfterDisc = FALSE, !.authRetry = FALSE]
           u == IF s.state = "scanning" THEN StopInquiry(t) ELSE t
           v == IF s.acl # NoAddr THEN GapDisconnect(u, s.acl) ELSE u
           x == IF t.rf = "open" THEN "closing" ELSE t.rf
           w == [t EXCEPT !.rf = x]
           y == [v EXCEPT !.state = "idle"]
           z == RadioRelease(y)
<1>1. Disconnect(s) = IF s.cid THEN w ELSE z
  BY Zenon DEF Disconnect
<1>2. /\ t \in Link
      /\ t.peer = s.peer /\ t.inhibit = TRUE /\ t.working = s.working
      /\ t.inq = s.inq /\ t.sdpAfterInquiry = FALSE /\ t.up = s.up /\ t.sdp = s.sdp
      /\ t.paging = s.paging /\ t.state = s.state /\ t.hold = s.hold
      /\ t.rf = s.rf /\ t.cid = s.cid
  BY DEF Link
<1> HIDE DEF t
<1>3. /\ x \in {"none", "opening", "open", "closing"} /\ (x = "none" <=> t.rf = "none")
      /\ (t.rf \in {"open", "closing"} => x \in {"open", "closing"})
  BY <1>2 DEF Link
<1> HIDE DEF x
<1>4. /\ w \in Link /\ w.rf = x
      /\ w.peer = s.peer /\ w.inhibit = TRUE /\ w.working = s.working
      /\ w.inq = s.inq /\ w.sdpAfterInquiry = FALSE /\ w.up = s.up /\ w.sdp = s.sdp
      /\ w.paging = s.paging /\ w.state = s.state /\ w.hold = s.hold
      /\ w.cid = s.cid
  BY <1>2, <1>3 DEF Link
<1> HIDE DEF w
<1>5. /\ u \in Link /\ (u.inq = "off" <=> s.inq = "off")
      /\ u.peer = s.peer /\ u.inhibit = TRUE /\ u.working = s.working
      /\ u.sdpAfterInquiry = FALSE /\ u.up = s.up /\ u.sdp = s.sdp
      /\ u.paging = s.paging /\ u.state = s.state /\ u.hold = s.hold
      /\ u.rf = s.rf /\ u.cid = s.cid
  BY <1>2, StopFields
<1> HIDE DEF u
<1>6. /\ v \in Link /\ (v.inq = "off" <=> s.inq = "off")
      /\ v.peer = s.peer /\ v.inhibit = TRUE /\ v.working = s.working
      /\ v.sdpAfterInquiry = FALSE /\ v.up \subseteq s.up /\ v.sdp = s.sdp
      /\ v.paging = s.paging /\ v.hold = s.hold
      /\ v.rf = s.rf /\ (v.cid => s.cid)
  BY <1>5, GapQuiet DEF Quiet
<1> HIDE DEF v
<1>7. /\ y \in Link /\ (y.inq = "off" <=> s.inq = "off") /\ y.state = "idle"
      /\ y.peer = s.peer /\ y.inhibit = TRUE /\ y.working = s.working
      /\ y.sdpAfterInquiry = FALSE /\ y.up \subseteq s.up /\ y.sdp = s.sdp
      /\ y.paging = s.paging /\ y.hold = s.hold
      /\ y.rf = s.rf /\ (y.cid => s.cid)
  BY <1>6 DEF Link
<1> HIDE DEF y
<1>8. /\ z \in Link /\ (z.inq = "off" <=> s.inq = "off") /\ z.state = "idle" /\ z.hold = FALSE
      /\ z.peer = s.peer /\ z.inhibit = TRUE /\ z.working = s.working
      /\ z.sdpAfterInquiry = FALSE /\ z.up \subseteq s.up /\ z.sdp = s.sdp
      /\ z.paging = s.paging /\ z.rf = s.rf /\ (z.cid => s.cid)
  BY <1>7, ReleaseFields
<1> HIDE DEF z
<1>9. Leaves(w, s)
  BY <1>2, <1>3, <1>4 DEF Leaves, CidOk
<1>10. Leaves(z, s)
  BY <1>8 DEF Leaves, CidOk
<1> QED BY <1>1, <1>9, <1>10

-----------------------------------------------------------------------------
(* The actions                                                             *)

LinkInv == AllOk(b, mpc)

\* The step does what the invariant and the WiFi side allow.
Steps == Goes(b', mpc', b, mpc)

\* Events that only end something.
Ending ==
    \/ SdpService \/ SdpComplete \/ RfcommClosed
    \/ \E a \in Addrs, status \in {"page", "auth", "other"} : AclFailed(a, status)
    \/ \E a \in Addrs, status \in {"baseband", "other"} : DisconnectionComplete(a, status)
    \/ \E status \in {"auth", "other"} : PairingFailed(status) \/ RfcommOpenFailed(status)

\* The events of the stack that end a page, a query, a channel or a link.
LEMMA EndingSteps ==
    ASSUME LinkInv, Ending
    PROVE  Steps
<1>1. b \in Link /\ Unused(b, mpc)
  BY DEF LinkInv, AllOk, LinkOk
<1>2. NoAddr \in AddrOrNone /\ Addrs \subseteq AddrOrNone /\ NoAddr \notin Addrs
      /\ Refusals \subseteq BOOLEAN
  BY LinkAssumption DEF AddrOrNone
<1>3. b.up \subseteq Addrs /\ b.paging \subseteq Addrs
  BY <1>1 DEF Link
<1>4. mpc' = mpc /\ (~Preempt => mpc = "idle")
  BY DEF Ending, SdpService, SdpComplete, RfcommClosed, AclFailed, DisconnectionComplete,
         PairingFailed, RfcommOpenFailed, Callback
<1>5. ASSUME b.peer # NoAddr, Quiet(b', b)
      PROVE  Steps
  BY <1>4, <1>5, QuietGoes DEF LinkInv, Steps
<1>6. CASE SdpService
  <2>1. b.peer # NoAddr /\ b' = [b EXCEPT !.spp = TRUE]
    BY <1>1, <1>6 DEF SdpService, Unused
  <2> QED BY <1>1, <1>5, <2>1 DEF Link, Quiet, CidOk
<1>7. CASE SdpComplete
  <2>1. b.peer # NoAddr /\ \E refused \in Refusals : b' = QueryDone(b, refused)
    BY <1>1, <1>7 DEF SdpComplete, Unused
  <2> QED BY <1>1, <1>2, <1>5, <2>1, DoneQuiet
<1>8. CASE RfcommClosed
  <2>1. b.peer # NoAddr /\ b' = ChannelGone(b)
    BY <1>1, <1>8 DEF RfcommClosed, Unused
  <2> QED BY <1>1, <1>5, <2>1, GoneQuiet
<1>9. ASSUME NEW a \in Addrs, NEW status, AclFailed(a, status)
      PROVE  Steps
  <2>1. a \in b.paging /\ b.peer # NoAddr
    BY <1>1, <1>9 DEF AclFailed, Unused
  <2> DEFINE P == b.paging \ {a}
             r == [b EXCEPT !.paging = P]
             s(refused) == UpperLayersEnd(r, a, status, NoAddr, refused)
             t(refused) == [s(refused) EXCEPT !.acl = NoAddr]
  <2>2. PICK refused \in BOOLEAN :
           b' = IF t(refused).state = "connecting" THEN ConnectFailed(t(refused), status)
                ELSE t(refused)
    BY <1>2, <1>9, Zenon DEF AclFailed
  <2>3. P \in SUBSET Addrs
    BY <1>3
  <2> HIDE DEF P
  <2>4. Quiet(r, b) /\ r \in Link /\ r.peer = b.peer
    BY <1>1, <2>3 DEF Link, Quiet, CidOk
  <2> HIDE DEF r
  <2> DEFINE x == s(refused)
             y == t(refused)
  <2>5. Quiet(x, r) /\ x \in Link
    <3>1. Quiet(x, r)
      BY <1>2, <2>1, <2>4, UpperQuiet
    <3> QED BY <3>1 DEF Quiet
  <2> HIDE DEF s
  <2>6. Quiet(y, x) /\ y \in Link
    <3>1. y = [x EXCEPT !.acl = NoAddr]
      OBVIOUS
    <3> HIDE DEF t, x
    <3> QED BY <1>2, <2>5, <3>1 DEF Link, Quiet, CidOk
  <2>7. b' = IF y.state = "connecting" THEN ConnectFailed(y, status) ELSE y
    BY <2>2
  <2> HIDE DEF t, x, y
  <2>8. Quiet(y, b) /\ y.peer # NoAddr
    <3>1. Quiet(y, b)
      BY <2>4, <2>5, <2>6, QuietTrans
    <3> QED BY <2>1, <3>1 DEF Quiet
  <2>9. Quiet(ConnectFailed(y, status), y)
    BY <2>6, <2>8, FailQuiet
  <2>10. Quiet(b', b)
    BY <2>7, <2>8, <2>9, QuietTrans
  <2> QED BY <1>5, <2>1, <2>10
<1>10. ASSUME NEW a \in Addrs, NEW status, DisconnectionComplete(a, status)
       PROVE  Steps
  <2>1. a \in b.up /\ b.peer # NoAddr
    BY <1>1, <1>10 DEF DisconnectionComplete, Unused
  <2> DEFINE U == b.up \ {a}
             L == b.leaving \ {a}
             r == [b EXCEPT !.up = U, !.leaving = L]
             s(refused) == UpperLayersEnd(r, a, status, a, refused)
             t(refused) == [s(refused) EXCEPT !.acl = NoAddr, !.cid = FALSE]
  <2>2. PICK refused \in BOOLEAN :
           b' = IF t(refused).retryAfterDisc /\ t(refused).state = "connecting"
                  THEN OpenRfcomm([t(refused) EXCEPT !.retryAfterDisc = FALSE])
                  ELSE LinkLost(t(refused))
    BY <1>2, <1>10, Zenon DEF DisconnectionComplete
  <2>3. U \in SUBSET Addrs /\ L \in SUBSET Addrs /\ U \subseteq b.up
    BY <1>1, <1>3 DEF Link
  <2> HIDE DEF U, L
  <2>4. Quiet(r, b) /\ r \in Link /\ r.peer = b.peer
    BY <1>1, <2>3 DEF Link, Quiet, CidOk
  <2> HIDE DEF r
  <2> DEFINE x == s(refused)
             y == t(refused)
             z == [y EXCEPT !.retryAfterDisc = FALSE]
  <2>5. Quiet(x, r) /\ x \in Link
    <3>1. Quiet(x, r)
      BY <1>2, <2>1, <2>4, UpperQuiet
    <3> QED BY <3>1 DEF Quiet
  <2> HIDE DEF s
  <2>6. Quiet(y, x) /\ y \in Link
    <3>1. y = [x EXCEPT !.acl = NoAddr, !.cid = FALSE]
      OBVIOUS
    <3> HIDE DEF t, x
    <3> QED BY <1>2, <2>5, <3>1 DEF Link, Quiet, CidOk
  <2>7. b' = IF y.retryAfterDisc /\ y.state = "connecting" THEN OpenRfcomm(z) ELSE LinkLost(y)
    BY <2>2, Zenon
  <2> HIDE DEF t, x, y
  <2>8. Quiet(y, b) /\ y.peer # NoAddr
    <3>1. Quiet(y, b)
      BY <2>4, <2>5, <2>6, QuietTrans
    <3> QED BY <2>1, <3>1 DEF Quiet
  <2>9. Quiet(z, y) /\ z \in Link /\ z.peer # NoAddr
    BY <2>6, <2>8 DEF Link, Quiet, CidOk
  <2> HIDE DEF z
  <2>10. Quiet(OpenRfcomm(z), z) /\ Quiet(LinkLost(y), y)
    BY <2>6, <2>9, OpenQuiet, LostQuiet
  <2>11. Quiet(b', b)
    BY <2>7, <2>8, <2>9, <2>10, QuietTrans
  <2> QED BY <1>5, <2>1, <2>11
<1>11. ASSUME NEW status, PairingFailed(status)
       PROVE  Steps
  <2>1. b.peer # NoAddr /\ b' = ConnectFailed(b, status)
    BY <1>1, <1>11 DEF PairingFailed, Unused
  <2> QED BY <1>1, <1>5, <2>1, FailQuiet
<1>12. ASSUME NEW status, RfcommOpenFailed(status)
       PROVE  Steps
  <2>1. b.peer # NoAddr /\ b' = OpenFailed(b, status, b.rfAddr)
    BY <1>1, <1>12 DEF RfcommOpenFailed, Unused
  <2>2. b.rfAddr \in AddrOrNone
    BY <1>1 DEF Link
  <2> QED BY <1>1, <1>5, <2>1, <2>2, OpenFailedQuiet
<1> QED BY <1>6, <1>7, <1>8, <1>9, <1>10, <1>11, <1>12 DEF Ending

\* Events that change nothing here: a printer is seen, a delay is over.
LEMMA SeenSteps ==
    ASSUME LinkInv, BackoffOver \/ \E a \in Addrs : InquiryResult(a)
    PROVE  Steps
<1>1. b \in Link
  BY DEF LinkInv, AllOk, LinkOk
<1>2. Same(b', b) /\ mpc' = mpc
  <2>1. CASE BackoffOver
    BY <1>1, <2>1 DEF BackoffOver, Same, Link
  <2>2. ASSUME NEW a \in Addrs, InquiryResult(a)
        PROVE  Same(b', b) /\ mpc' = mpc
    <3>1. a \in AddrOrNone /\ b' = [b EXCEPT !.found = a] /\ mpc' = mpc
      BY <2>2 DEF InquiryResult, Callback, AddrOrNone
    <3> QED BY <1>1, <3>1 DEF Same, Link
  <2> QED BY <2>1, <2>2
<1> QED BY <1>2, SameGoes DEF LinkInv, Steps

\* A link is there, a channel is open.
LEMMA UpSteps ==
    ASSUME LinkInv, RfcommOpened \/ \E a \in Addrs : AclUp(a)
    PROVE  Steps
<1>1. b \in Link /\ Unused(b, mpc)
  BY DEF LinkInv, AllOk, LinkOk
<1>2. ASSUME NEW a \in Addrs, AclUp(a)
      PROVE  Steps
  <2> DEFINE P == b.paging \ {a}
             U == b.up \union {a}
  <2>1. /\ b' = [b EXCEPT !.paging = P, !.up = U, !.acl = a] /\ mpc' = mpc
        /\ b.working /\ b.peer # NoAddr
    BY <1>1, <1>2 DEF AclUp, Callback, Unused
  <2>2. P \in SUBSET Addrs /\ U \in SUBSET Addrs /\ a \in AddrOrNone
    BY <1>1 DEF Link, AddrOrNone
  <2> HIDE DEF P, U
  <2>3. /\ b' \in Link
        /\ b'.peer = b.peer /\ b'.inhibit = b.inhibit /\ b'.working = b.working
        /\ b'.inq = b.inq /\ b'.sdpAfterInquiry = b.sdpAfterInquiry
        /\ b'.state = b.state /\ b'.hold = b.hold /\ b'.cid = b.cid /\ b'.rf = b.rf
    BY <1>1, <2>1, <2>2 DEF Link
  <2>4. LinkOk(b', mpc')
    BY <2>1, <2>3 DEF LinkInv, AllOk, LinkOk, Unused, Inquiring, CidOk
  <2>5. HoldOk(b, mpc) => HoldOk(b', mpc')
    BY <2>1, <2>3 DEF HoldOk
  <2>6. HeldOk(b, mpc) => HeldOk(b', mpc')
    BY <2>1, <2>3 DEF HeldOk
  <2>7. (Alone(b, mpc) => Alone(b', mpc')) /\ Serves(b', mpc', b, mpc)
    BY <2>1, <2>3 DEF Alone, Serves, Phase
  <2> QED BY <2>1, <2>4, <2>5, <2>6, <2>7 DEF LinkInv, AllOk, Steps, Goes
<1>3. CASE RfcommOpened
  <2>1. /\ b' = [b EXCEPT !.rf = "open", !.cid = TRUE, !.acl = b.rfAddr,
                          !.state = "connected", !.authRetry = FALSE,
                          !.retryAfterDisc = FALSE, !.backoff = 8, !.pageDue = TRUE,
                          !.resume = TRUE]
        /\ mpc' = mpc /\ b.up # {} /\ b.peer # NoAddr /\ (~Preempt => mpc = "idle")
    BY <1>1, <1>3 DEF RfcommOpened, Callback, Unused
  <2>2. 8 \in Backoffs
    BY DEF Backoffs
  <2>3. /\ b' \in Link
        /\ b'.peer = b.peer /\ b'.inhibit = b.inhibit /\ b'.working = b.working
        /\ b'.inq = b.inq /\ b'.sdpAfterInquiry = b.sdpAfterInquiry /\ b'.up = b.up
        /\ b'.state = "connected" /\ b'.hold = b.hold /\ b'.rf = "open"
    BY <1>1, <2>1, <2>2 DEF Link
  <2>4. LinkOk(b', mpc')
    BY <2>1, <2>3 DEF LinkInv, AllOk, LinkOk, Unused, Inquiring, CidOk
  <2>5. HoldOk(b, mpc) => HoldOk(b', mpc')
    BY <2>1, <2>3 DEF HoldOk
  <2>6. HeldOk(b, mpc) => HeldOk(b', mpc')
    BY <2>1, <2>3 DEF HeldOk
  <2>7. ~Preempt => Alone(b', mpc') /\ Serves(b', mpc', b, mpc)
    BY <1>1, <2>1, <2>3 DEF Alone, Serves, Phase, Link
  <2> QED BY <2>1, <2>4, <2>5, <2>6, <2>7 DEF LinkInv, AllOk, Steps, Goes
<1> QED BY <1>2, <1>3

\* The stack works: the remembered printer is paged, or an inquiry starts.
LEMMA WorkingSteps ==
    ASSUME LinkInv, StackWorking
    PROVE  Steps
<1> DEFINE s == [b EXCEPT !.working = TRUE]
<1>1. b \in Link
  BY DEF LinkInv, AllOk, LinkOk
<1>2. /\ s \in Link /\ s.working
      /\ s.peer = b.peer /\ s.inhibit = b.inhibit
      /\ s.inq = b.inq /\ s.sdpAfterInquiry = b.sdpAfterInquiry /\ s.up = b.up
      /\ s.state = b.state /\ s.hold = b.hold /\ s.cid = b.cid /\ s.rf = b.rf
      /\ s.sdp = b.sdp /\ s.paging = b.paging
  BY <1>1 DEF Link
<1>3. PICK refused \in Refusals :
         b' = IF WillAutoRetry(s) THEN BeginSdp(s, refused) ELSE ScanStart(s)
  BY DEF StackWorking
<1>4. mpc' = mpc /\ ~b.working /\ (~Preempt => mpc = "idle") /\ refused \in BOOLEAN
  BY LinkAssumption DEF StackWorking, Callback
<1> HIDE DEF s
<1>5. CASE WillAutoRetry(s)
  <2>1. Begins(b', s) /\ b.peer # NoAddr /\ ~b.inhibit
    BY <1>2, <1>3, <1>4, <1>5, BeginSdpBegins DEF WillAutoRetry
  <2>2. LinkOk(b', mpc')
    BY <1>2, <1>4, <2>1 DEF LinkInv, AllOk, LinkOk, Unused, Inquiring, CidOk, Begins
  <2>3. HoldOk(b', mpc')
    BY <1>2, <1>4, <2>1 DEF HoldOk, Begins
  <2>4. HeldOk(b, mpc) => HeldOk(b', mpc')
    BY <1>2, <1>4, <2>1 DEF HeldOk, Begins
  <2>5. ~Preempt => Alone(b', mpc') /\ Serves(b', mpc', b, mpc)
    BY <1>2, <1>4, <2>1 DEF Alone, Serves, Phase, Begins
  <2> QED BY <1>4, <2>2, <2>3, <2>4, <2>5 DEF LinkInv, AllOk, Steps, Goes
<1>6. CASE ~WillAutoRetry(s)
  <2>1. Scans(b', s) /\ (b.peer = NoAddr \/ b.inhibit)
    BY <1>2, <1>3, <1>6, ScanStartScans DEF WillAutoRetry
  <2>2. LinkOk(b', mpc')
    BY <1>2, <1>4, <2>1 DEF LinkInv, AllOk, LinkOk, Unused, Inquiring, CidOk, Scans
  <2>3. HoldOk(b, mpc) => HoldOk(b', mpc')
    BY <1>2, <1>4, <2>1 DEF HoldOk, Scans
  <2>4. HeldOk(b, mpc) => HeldOk(b', mpc')
    BY <1>2, <1>4, <2>1 DEF LinkInv, AllOk, LinkOk, Unused, Inquiring, HeldOk, Scans
  <2>5. ~Preempt => Alone(b', mpc') /\ Serves(b', mpc', b, mpc)
    BY <1>2, <1>4, <2>1 DEF Alone, Serves, Phase, Scans
  <2> QED BY <1>4, <2>2, <2>3, <2>4, <2>5 DEF LinkInv, AllOk, Steps, Goes
<1> QED BY <1>5, <1>6

\* An inquiry ends: the connection that waited for it begins, the printer found is
\* paged, or the radio goes back.
LEMMA InquirySteps ==
    ASSUME LinkInv, InquiryComplete
    PROVE  Steps
<1> DEFINE i == IF b.state = "scanning" THEN "idle" ELSE b.state
           s == [b EXCEPT !.inq = "off", !.state = i]
           u == [s EXCEPT !.sdpAfterInquiry = FALSE]
           v == [s EXCEPT !.peer = s.found]
           w == RadioRelease(s)
           picks == ~s.inhibit /\ s.state = "idle" /\ s.found # NoAddr
<1>1. b \in Link
  BY DEF LinkInv, AllOk, LinkOk
<1>2. PICK refused \in Refusals :
         b' = IF s.sdpAfterInquiry THEN BeginSdp(u, refused)
              ELSE IF picks THEN BeginSdp(v, refused) ELSE w
  BY Zenon DEF InquiryComplete
<1>3. /\ mpc' = mpc /\ b.inq # "off" /\ (~Preempt => mpc = "idle")
      /\ refused \in BOOLEAN /\ i \in {b.state, "idle"} /\ i # "scanning"
  BY <1>1, LinkAssumption DEF InquiryComplete, Callback, Link
<1> HIDE DEF i
<1>4. /\ s \in Link /\ s.inq = "off" /\ s.state = i /\ s.working = b.working
      /\ s.peer = b.peer /\ s.inhibit = b.inhibit
      /\ s.sdpAfterInquiry = b.sdpAfterInquiry /\ s.up = b.up
      /\ s.hold = b.hold /\ s.cid = b.cid /\ s.rf = b.rf
      /\ s.sdp = b.sdp /\ s.paging = b.paging
  BY <1>1, <1>3 DEF Link
<1> HIDE DEF s
<1>5. /\ u \in Link /\ u.inq = "off" /\ u.state = i /\ u.working = b.working
      /\ u.peer = b.peer /\ u.inhibit = b.inhibit
      /\ u.sdpAfterInquiry = FALSE /\ u.up = b.up /\ u.cid = b.cid /\ u.rf = b.rf
  BY <1>4 DEF Link
<1> HIDE DEF u
<1>6. /\ v \in Link /\ v.inq = "off" /\ v.state = i /\ v.working = b.working
      /\ v.peer = s.found /\ v.inhibit = b.inhibit
      /\ v.sdpAfterInquiry = b.sdpAfterInquiry /\ v.up = b.up /\ v.cid = b.cid /\ v.rf = b.rf
  BY <1>4 DEF Link
<1> HIDE DEF v
<1>7. /\ w \in Link /\ w.inq = "off" /\ w.state = i /\ w.working = b.working
      /\ w.peer = b.peer /\ w.inhibit = b.inhibit /\ w.hold = FALSE
      /\ w.sdpAfterInquiry = b.sdpAfterInquiry /\ w.up = b.up
      /\ w.cid = b.cid /\ w.rf = b.rf /\ w.sdp = b.sdp /\ w.paging = b.paging
  BY <1>4, ReleaseFields
<1> HIDE DEF w
<1>8. CASE s.sdpAfterInquiry
  <2>1. Begins(b', u) /\ b.peer # NoAddr
    <3>1. b.peer # NoAddr
      BY <1>4, <1>8 DEF LinkInv, AllOk, LinkOk, Unused
    <3> QED BY <1>2, <1>3, <1>5, <1>8, <3>1, BeginSdpBegins
  <2>2. LinkOk(b', mpc')
    BY <1>3, <1>5, <2>1 DEF LinkInv, AllOk, LinkOk, Unused, Inquiring, CidOk, Begins
  <2>3. HoldOk(b, mpc) => HoldOk(b', mpc')
    BY <1>3, <1>5, <2>1 DEF HoldOk, Begins
  <2>4. HeldOk(b, mpc) => HeldOk(b', mpc')
    BY <1>3, <1>5, <2>1 DEF HeldOk, Begins
  <2>5. ~Preempt => Alone(b', mpc') /\ Serves(b', mpc', b, mpc)
    BY <1>3, <1>5, <2>1 DEF Alone, Serves, Phase, Begins
  <2> QED BY <1>3, <2>2, <2>3, <2>4, <2>5 DEF LinkInv, AllOk, Steps, Goes
<1>9. CASE ~s.sdpAfterInquiry /\ picks
  <2>1. Begins(b', v) /\ v.peer # NoAddr
    BY <1>2, <1>3, <1>6, <1>9, BeginSdpBegins
  <2>2. LinkOk(b', mpc')
    BY <1>3, <1>4, <1>6, <1>9, <2>1
       DEF LinkInv, AllOk, LinkOk, Unused, Inquiring, CidOk, Begins
  <2>3. HoldOk(b, mpc) => HoldOk(b', mpc')
    BY <1>3, <1>6, <2>1 DEF HoldOk, Begins
  <2>4. HeldOk(b, mpc) => HeldOk(b', mpc')
    BY <1>3, <1>6, <2>1 DEF LinkInv, AllOk, LinkOk, Unused, HeldOk, Begins
  <2>5. ~Preempt => Alone(b', mpc') /\ Serves(b', mpc', b, mpc)
    BY <1>3, <1>6, <2>1 DEF Alone, Serves, Phase, Begins
  <2> QED BY <1>3, <2>2, <2>3, <2>4, <2>5 DEF LinkInv, AllOk, Steps, Goes
<1>10. CASE ~s.sdpAfterInquiry /\ ~picks
  <2>1. b' = w /\ ~b.sdpAfterInquiry
    BY <1>2, <1>4, <1>10
  <2>2. LinkOk(b', mpc')
    BY <1>3, <1>7, <2>1 DEF LinkInv, AllOk, LinkOk, Unused, Inquiring, CidOk
  <2>3. HoldOk(b, mpc) => HoldOk(b', mpc')
    BY <1>3, <1>7, <2>1 DEF HoldOk
  <2>4. HeldOk(b, mpc) => HeldOk(b', mpc')
    BY <1>3, <1>7, <2>1 DEF LinkInv, AllOk, LinkOk, Unused, HeldOk
  <2>5. ~Preempt => Alone(b', mpc') /\ Serves(b', mpc', b, mpc)
    BY <1>3, <1>7, <2>1 DEF Alone, Serves, Phase
  <2> QED BY <1>3, <2>2, <2>3, <2>4, <2>5 DEF LinkInv, AllOk, Steps, Goes
<1> QED BY <1>8, <1>9, <1>10

\* Requests.
LEMMA ScanSteps ==
    ASSUME LinkInv, HttpScan
    PROVE  Steps
<1>1. b \in Link /\ mpc' = mpc /\ (~Preempt => mpc = "idle") /\ "scan" \in Requests
  BY DEF HttpScan, Callback, LinkInv, AllOk, LinkOk
<1>2. Scans(b', b)
  BY <1>1, ScanStartScans DEF HttpScan
<1>3. LinkOk(b', mpc')
  BY <1>1, <1>2 DEF LinkInv, AllOk, LinkOk, Unused, Inquiring, CidOk, Scans
<1>4. HoldOk(b, mpc) => HoldOk(b', mpc')
  BY <1>1, <1>2 DEF HoldOk, Scans
<1>5. ~Preempt => Alone(b', mpc') /\ Serves(b', mpc', b, mpc)
  BY <1>1, <1>2 DEF Alone, Serves, Phase, Scans
<1> QED BY <1>1, <1>3, <1>4, <1>5 DEF LinkInv, AllOk, Steps, Goes

\* The request to disconnect keeps the invariant.
LEMMA DisconnectSteps ==
    ASSUME LinkInv, HttpDisconnect
    PROVE  Steps
<1>1. b \in Link /\ mpc' = mpc /\ (~Preempt => mpc = "idle") /\ "disconnect" \in Requests
  BY DEF HttpDisconnect, Callback, LinkInv, AllOk, LinkOk
<1>2. Leaves(b', b)
  BY <1>1, DisconnectLeaves DEF HttpDisconnect
<1>3. LinkOk(b', mpc')
  BY <1>1, <1>2 DEF LinkInv, AllOk, LinkOk, Unused, Inquiring, Leaves
<1>4. HeldOk(b', mpc')
  BY <1>2 DEF HeldOk, Leaves
<1>5. ~Preempt => Alone(b', mpc') /\ Serves(b', mpc', b, mpc)
  BY <1>1, <1>2 DEF Alone, Serves, Phase, Leaves
<1> QED BY <1>1, <1>3, <1>4, <1>5 DEF LinkInv, AllOk, Steps, Goes

\* bt_connect: nothing, a wait for the inquiry's end, or a page.
LEMMA ConnectSteps ==
    ASSUME LinkInv, NEW a \in Addrs, HttpConnect(a)
    PROVE  Steps
<1> DEFINE t == IF b.state = "connected" THEN Disconnect(b) ELSE b
           u == [t EXCEPT !.peer = a, !.inhibit = FALSE, !.backoff = 8,
                          !.pageDue = TRUE, !.authRetry = FALSE, !.retryAfterDisc = FALSE]
           v == [u EXCEPT !.sdpAfterInquiry = TRUE, !.state = "connecting"]
           w == StopInquiry(v)
<1>1. b \in Link /\ mpc' = mpc /\ (~Preempt => mpc = "idle") /\ "connect" \in Requests
  BY DEF HttpConnect, Callback, LinkInv, AllOk, LinkOk
<1>2. PICK refused \in BOOLEAN :
         b' = IF b.state = "connected" /\ b.peer = a THEN b
              ELSE IF u.state = "scanning" THEN w ELSE BeginSdp(u, refused)
  <2>1. PICK refused \in Refusals : b' = Connect(b, a, refused)
    BY DEF HttpConnect
  <2>2. refused \in BOOLEAN
    BY LinkAssumption
  <2> QED BY <2>1, <2>2, Zenon DEF Connect
<1>3. CASE b.state = "connected" /\ b.peer = a
  <2>1. Same(b', b)
    BY <1>1, <1>2, <1>3 DEF Same
  <2> QED BY <1>1, <2>1, SameGoes DEF LinkInv, Steps
<1>4. CASE ~(b.state = "connected" /\ b.peer = a)
  <2>1. /\ t \in Link /\ (t.inq = "off" <=> b.inq = "off") /\ t.working = b.working
        /\ (t.sdpAfterInquiry => b.sdpAfterInquiry)
        /\ t.state \in {b.state, "idle"} /\ (b.state # "connected" => t.hold = b.hold)
        /\ (CidOk(b) => CidOk(t)) /\ (b.state # "connected" => t.state = b.state)
        /\ (b.state = "scanning" <=> t.state = "scanning")
    BY <1>1, DisconnectLeaves DEF Leaves
  <2> HIDE DEF t
  <2>2. 8 \in Backoffs /\ a \in AddrOrNone /\ a # NoAddr
    BY LinkAssumption DEF Backoffs, AddrOrNone
  <2>3. /\ u \in Link /\ u.inq = t.inq /\ u.working = b.working
        /\ u.sdpAfterInquiry = t.sdpAfterInquiry /\ u.state = t.state /\ u.hold = t.hold
        /\ u.cid = t.cid /\ u.rf = t.rf /\ u.peer = a /\ u.inhibit = FALSE
    BY <2>1, <2>2 DEF Link
  <2> HIDE DEF u
  <2>4. CASE u.state = "scanning"
    <3>1. /\ v \in Link /\ v.inq = u.inq /\ v.working = b.working
          /\ v.sdpAfterInquiry = TRUE /\ v.state = "connecting" /\ v.hold = u.hold
          /\ v.cid = u.cid /\ v.rf = u.rf /\ v.peer = a /\ v.inhibit = FALSE
      BY <2>3 DEF Link
    <3> HIDE DEF v
    <3>2. /\ w \in Link /\ (w.inq = "off" <=> b.inq = "off") /\ w.working = b.working
          /\ w.sdpAfterInquiry = TRUE /\ w.state = "connecting" /\ w.hold = b.hold
          /\ w.cid = t.cid /\ w.rf = t.rf /\ w.peer = a /\ w.inhibit = FALSE
          /\ b.state = "scanning"
      BY <2>1, <2>3, <2>4, <3>1, StopFields
    <3> HIDE DEF w
    <3>3. b' = w
      BY <1>2, <1>4, <2>4
    <3>4. LinkOk(b', mpc')
      BY <1>1, <2>1, <2>2, <3>2, <3>3
         DEF LinkInv, AllOk, LinkOk, Unused, Inquiring, CidOk
    <3>5. HoldOk(b', mpc')
      BY <2>2, <3>2, <3>3 DEF HoldOk
    <3>6. ~Preempt => Alone(b', mpc') /\ Serves(b', mpc', b, mpc)
      BY <1>1, <3>2, <3>3 DEF Alone, Serves, Phase
    <3> QED BY <1>1, <3>4, <3>5, <3>6 DEF LinkInv, AllOk, Steps, Goes
  <2>5. CASE u.state # "scanning"
    <3>1. Begins(b', u)
      BY <1>2, <1>4, <2>2, <2>3, <2>5, BeginSdpBegins
    <3>2. LinkOk(b', mpc')
      BY <1>1, <2>1, <2>2, <2>3, <3>1
         DEF LinkInv, AllOk, LinkOk, Unused, Inquiring, CidOk, Begins
    <3>3. HoldOk(b', mpc')
      BY <2>2, <2>3, <3>1 DEF HoldOk, Begins
    <3>4. ~Preempt => Alone(b', mpc') /\ Serves(b', mpc', b, mpc)
      BY <1>1, <3>1 DEF Alone, Serves, Phase, Begins
    <3> QED BY <1>1, <3>2, <3>3, <3>4 DEF LinkInv, AllOk, Steps, Goes
  <2> QED BY <2>4, <2>5
<1> QED BY <1>3, <1>4

\* The main loop, step by step.
LEMMA MainSteps ==
    ASSUME LinkInv, MainStep
    PROVE  Steps
<1>1. b \in Link /\ AllOk(b, mpc)
  BY DEF LinkInv, AllOk, LinkOk
<1>2. CASE PollResume
  BY <1>1, <1>2 DEF PollResume, AllOk, LinkOk, Unused, Inquiring, HoldOk, HeldOk, Alone,
                    Steps, Goes, Serves, Phase, Pcs
<1>3. CASE PollPage
  BY <1>1, <1>3 DEF PollPage, WillAutoRetry, AllOk, LinkOk, Unused, Inquiring, HoldOk, HeldOk,
                    Alone, Steps, Goes, Serves, Phase, Pcs
<1>4. CASE PollScan
  BY <1>1, <1>4 DEF PollScan, AllOk, LinkOk, Unused, Inquiring, HoldOk, HeldOk, Alone,
                    Steps, Goes, Serves, Phase, Pcs
<1>5. ASSUME NEW t, b' = t, NEW n \in Pcs, mpc' = n,
             t \in Link, t.peer = b.peer, t.inhibit = b.inhibit, t.working = b.working,
             t.sdpAfterInquiry = b.sdpAfterInquiry, t.up = b.up, t.cid = b.cid, t.rf = b.rf,
             t.sdp = b.sdp, t.paging = b.paging,
             \/ /\ mpc = "resume" /\ n = "idle" /\ t.inq = b.inq
                /\ t.state = b.state /\ t.hold = FALSE
             \/ /\ mpc = "page" /\ n = "pageHold" /\ t.inq = b.inq
                /\ t.state = "connecting" /\ t.hold = b.hold
             \/ /\ mpc = "pageHold" /\ n = "pageQuery" /\ t.inq = b.inq
                /\ t.state = b.state /\ t.hold = TRUE
             \/ /\ mpc = "scan" /\ n = "idle" /\ t = b
                /\ b.state \in {"connecting", "connected"}
             \/ /\ mpc = "scan" /\ n = "scanHold" /\ t.inq = b.inq
                /\ b.state \notin {"connecting", "connected"}
                /\ t.state = "scanning" /\ t.hold = b.hold
             \/ /\ mpc = "scanHold" /\ n = "scanInquiry" /\ t.inq = b.inq
                /\ t.state = b.state /\ t.hold = TRUE
             \/ /\ mpc = "scanInquiry" /\ n = "idle" /\ t.inq = "on" /\ b.inq = "off"
                /\ t.state = b.state /\ t.hold = b.hold
             \/ /\ mpc = "scanInquiry" /\ n = "idle" /\ t.inq = b.inq
                /\ ~(b.working /\ b.inq = "off") /\ t.state = "idle" /\ t.hold = FALSE
      PROVE  Steps
  <2>1. LinkOk(t, n)
    BY <1>1, <1>5 DEF AllOk, LinkOk, Unused, Inquiring, CidOk
  <2>2. HoldOk(b, mpc) => HoldOk(t, n)
    BY <1>1, <1>5 DEF AllOk, LinkOk, Unused, HoldOk
  <2>3. HeldOk(b, mpc) => HeldOk(t, n)
    BY <1>1, <1>5 DEF AllOk, LinkOk, Unused, Inquiring, HeldOk
  <2>4. Alone(b, mpc) => Alone(t, n) /\ Serves(t, n, b, mpc)
    BY <1>1, <1>5 DEF AllOk, LinkOk, Alone, Serves, Phase
  <2> QED BY <1>1, <1>5, <2>1, <2>2, <2>3, <2>4 DEF AllOk, Steps, Goes
<1>6. CASE Resume
  <2>1. mpc = "resume" /\ mpc' = "idle" /\ b' = RadioRelease(b)
    BY <1>6 DEF Resume
  <2>2. /\ b' \in Link /\ b'.state = b.state /\ b'.hold = FALSE /\ b'.peer = b.peer
        /\ b'.inhibit = b.inhibit /\ b'.working = b.working /\ b'.inq = b.inq
        /\ b'.sdpAfterInquiry = b.sdpAfterInquiry /\ b'.up = b.up /\ b'.cid = b.cid
        /\ b'.rf = b.rf /\ b'.sdp = b.sdp /\ b'.paging = b.paging
    BY <1>1, <2>1, ReleaseFields
  <2> QED BY <1>5, <2>1, <2>2 DEF Pcs
<1>7. CASE PageState
  <2>1. mpc = "page" /\ mpc' = "pageHold" /\ b' = [b EXCEPT !.state = "connecting"]
    BY <1>7 DEF PageState
  <2>2. /\ b' \in Link /\ b'.state = "connecting" /\ b'.hold = b.hold /\ b'.peer = b.peer
        /\ b'.inhibit = b.inhibit /\ b'.working = b.working /\ b'.inq = b.inq
        /\ b'.sdpAfterInquiry = b.sdpAfterInquiry /\ b'.up = b.up /\ b'.cid = b.cid
        /\ b'.rf = b.rf /\ b'.sdp = b.sdp /\ b'.paging = b.paging
    BY <1>1, <2>1 DEF Link
  <2> QED BY <1>5, <2>1, <2>2 DEF Pcs
<1>8. ASSUME b' = RadioHold(b)
      PROVE  /\ b' \in Link /\ b'.state = b.state /\ b'.hold = TRUE /\ b'.peer = b.peer
             /\ b'.inhibit = b.inhibit /\ b'.working = b.working /\ b'.inq = b.inq
             /\ b'.sdpAfterInquiry = b.sdpAfterInquiry /\ b'.up = b.up /\ b'.cid = b.cid
             /\ b'.rf = b.rf /\ b'.sdp = b.sdp /\ b'.paging = b.paging
  BY <1>1, <1>8 DEF RadioHold, Link
<1>9. CASE PageHold
  <2>1. mpc = "pageHold" /\ mpc' = "pageQuery" /\ b' = RadioHold(b)
    BY <1>9 DEF PageHold
  <2> QED BY <1>5, <1>8, <2>1 DEF Pcs
<1>10. CASE ScanHold
  <2>1. mpc = "scanHold" /\ mpc' = "scanInquiry" /\ b' = RadioHold(b)
    BY <1>10 DEF ScanHold
  <2> QED BY <1>5, <1>8, <2>1 DEF Pcs
<1>11. CASE ScanState
  <2>1. CASE b.state \in {"connecting", "connected"}
    <3>1. mpc = "scan" /\ mpc' = "idle" /\ b' = b
      BY <1>11, <2>1 DEF ScanState
    <3> QED BY <1>1, <1>5, <2>1, <3>1 DEF Pcs
  <2>2. CASE b.state \notin {"connecting", "connected"}
    <3>1. /\ mpc = "scan" /\ mpc' = "scanHold"
          /\ b' = [b EXCEPT !.found = NoAddr, !.state = "scanning"]
      BY <1>11, <2>2 DEF ScanState
    <3>2. NoAddr \in AddrOrNone
      BY DEF AddrOrNone
    <3>3. /\ b' \in Link /\ b'.state = "scanning" /\ b'.hold = b.hold /\ b'.peer = b.peer
          /\ b'.inhibit = b.inhibit /\ b'.working = b.working /\ b'.inq = b.inq
          /\ b'.sdpAfterInquiry = b.sdpAfterInquiry /\ b'.up = b.up /\ b'.cid = b.cid
          /\ b'.rf = b.rf /\ b'.sdp = b.sdp /\ b'.paging = b.paging
      BY <1>1, <3>1, <3>2 DEF Link
    <3> QED BY <1>5, <2>2, <3>1, <3>3 DEF Pcs
  <2> QED BY <2>1, <2>2
<1>12. CASE ScanInquiry
  <2>1. CASE b.working /\ b.inq = "off"
    <3>1. mpc = "scanInquiry" /\ mpc' = "idle" /\ b' = [b EXCEPT !.inq = "on"]
      BY <1>12, <2>1 DEF ScanInquiry
    <3>2. /\ b' \in Link /\ b'.state = b.state /\ b'.hold = b.hold /\ b'.peer = b.peer
          /\ b'.inhibit = b.inhibit /\ b'.working = b.working /\ b'.inq = "on"
          /\ b'.sdpAfterInquiry = b.sdpAfterInquiry /\ b'.up = b.up /\ b'.cid = b.cid
          /\ b'.rf = b.rf /\ b'.sdp = b.sdp /\ b'.paging = b.paging
      BY <1>1, <3>1 DEF Link
    <3> QED BY <1>5, <2>1, <3>1, <3>2 DEF Pcs
  <2>2. CASE ~(b.working /\ b.inq = "off")
    <3> DEFINE x == [b EXCEPT !.state = "idle"]
    <3>1. mpc = "scanInquiry" /\ mpc' = "idle" /\ b' = RadioRelease(x)
      BY <1>12, <2>2 DEF ScanInquiry
    <3>2. /\ x \in Link /\ x.state = "idle" /\ x.peer = b.peer
          /\ x.inhibit = b.inhibit /\ x.working = b.working /\ x.inq = b.inq
          /\ x.sdpAfterInquiry = b.sdpAfterInquiry /\ x.up = b.up /\ x.cid = b.cid
          /\ x.rf = b.rf /\ x.sdp = b.sdp /\ x.paging = b.paging
      BY <1>1 DEF Link
    <3> HIDE DEF x
    <3>3. /\ b' \in Link /\ b'.state = "idle" /\ b'.hold = FALSE /\ b'.peer = b.peer
          /\ b'.inhibit = b.inhibit /\ b'.working = b.working /\ b'.inq = b.inq
          /\ b'.sdpAfterInquiry = b.sdpAfterInquiry /\ b'.up = b.up /\ b'.cid = b.cid
          /\ b'.rf = b.rf /\ b'.sdp = b.sdp /\ b'.paging = b.paging
      BY <3>1, <3>2, ReleaseFields
    <3> QED BY <1>5, <2>2, <3>1, <3>3 DEF Pcs
  <2> QED BY <2>1, <2>2
<1>13. CASE PageQuery
  <2>1. PICK refused \in BOOLEAN : b' = RegisterQuery(b, refused)
    BY <1>13, LinkAssumption DEF PageQuery
  <2>2. mpc = "pageQuery" /\ mpc' = "idle" /\ b.peer # NoAddr
    BY <1>1, <1>13 DEF PageQuery, AllOk, LinkOk, Unused
  <2>3. Quiet(b', b)
    BY <1>1, <2>1, <2>2, RegisterQuiet
  <2>4. LinkOk(b', mpc')
    BY <1>1, <2>2, <2>3 DEF AllOk, LinkOk, Unused, Inquiring, Quiet
  <2>5. HoldOk(b, mpc) => HoldOk(b', mpc')
    BY <2>2, <2>3 DEF HoldOk, Quiet
  <2>6. HeldOk(b, mpc) => HeldOk(b', mpc')
    BY <2>2, <2>3 DEF HeldOk, Quiet
  <2>7. Alone(b', mpc') /\ Serves(b', mpc', b, mpc)
    BY <2>2, <2>3 DEF Alone, Serves, Phase, Quiet
  <2> QED BY <1>1, <2>2, <2>4, <2>5, <2>6, <2>7 DEF AllOk, Steps, Goes, Pcs
<1> QED BY <1>2, <1>3, <1>4, <1>6, <1>7, <1>9, <1>10, <1>11, <1>12, <1>13 DEF MainStep

\* The first state: nothing runs.
LEMMA LinkInvInit == Init => LinkInv /\ Phase(b, mpc) = "idle" /\ b.hold = FALSE
<1> SUFFICES ASSUME Init PROVE LinkInv /\ Phase(b, mpc) = "idle" /\ b.hold = FALSE
  OBVIOUS
<1>1. NoAddr \in AddrOrNone /\ 8 \in Backoffs /\ mpc = "idle"
  BY DEF PeerLoad, AddrOrNone, Backoffs, Init
<1>2. /\ b \in Link /\ b.state = "idle" /\ b.hold = FALSE /\ b.inhibit = FALSE
      /\ b.inq = "off" /\ b.sdpAfterInquiry = FALSE /\ b.up = {} /\ b.cid = FALSE
      /\ b.rf = "none" /\ b.sdp = NoAddr /\ b.paging = {}
  BY <1>1 DEF Init, PeerLoad, Link
<1>3. LinkOk(b, mpc)
  BY <1>1, <1>2 DEF LinkOk, CidOk, Unused, Inquiring
<1>4. HoldOk(b, mpc) /\ HeldOk(b, mpc) /\ Alone(b, mpc)
  BY <1>1, <1>2 DEF HoldOk, HeldOk, Alone
<1> QED BY <1>1, <1>2, <1>3, <1>4 DEF LinkInv, AllOk, Pcs, Phase

\* So does every step of the specification.
LEMMA NextSteps ==
    ASSUME LinkInv, [Next]_vars
    PROVE  Steps
<1>1. CASE UNCHANGED vars
  <2>1. Same(b', b) /\ mpc' = mpc
    BY <1>1 DEF vars, LinkInv, AllOk, LinkOk, Same
  <2> QED BY <2>1, SameGoes DEF LinkInv, Steps
<1>2. CASE StackEvent
  BY <1>2, EndingSteps, SeenSteps, UpSteps, WorkingSteps, InquirySteps, Zenon
     DEF StackEvent, Ending
<1>3. CASE Request
  BY <1>3, ScanSteps, DisconnectSteps, ConnectSteps DEF Request
<1> QED BY <1>1, <1>2, <1>3, MainSteps, SeenSteps DEF Next

\* The invariant, whatever the printers, the requests and the moments of callbacks.
THEOREM LinkInvariant == Spec => []LinkInv
<1>1. Init => LinkInv
  BY LinkInvInit
<1>2. LinkInv /\ [Next]_vars => LinkInv'
  BY NextSteps DEF Steps, Goes, LinkInv
<1> QED BY <1>1, <1>2, PTL DEF Spec

\* Every variable of bt_core.c and of the stack keeps its type: no page is asked for
\* without an address, no delay but the four.
THEOREM LinkTyped == Spec => []TypeOK
<1>1. LinkInv => TypeOK
  BY DEF LinkInv, AllOk, LinkOk, Link, Pcs, TypeOK
<1> QED BY <1>1, LinkInvariant, PTL

\* rfcomm_cid names a channel of the stack whenever it is set, across late closes,
\* failed opens and pairing retries.
THEOREM CidAlwaysNamed == Spec => []CidNamesChannel
<1>1. LinkInv => CidNamesChannel
  BY DEF LinkInv, AllOk, LinkOk, CidOk, CidNamesChannel
<1> QED BY <1>1, LinkInvariant, PTL

\* A connect request made during an inquiry always has an inquiry left whose end
\* starts the page.
THEOREM ConnectKept == Spec => []ConnectNotForgotten
<1>1. LinkInv => ConnectNotForgotten
  BY DEF LinkInv, AllOk, LinkOk, Inquiring, ConnectNotForgotten
<1> QED BY <1>1, LinkInvariant, PTL

\* Without disconnect requests, which race with main and with the inquiry's end, the
\* radio is never kept from WiFi for nothing.
THEOREM HoldServes ==
    ASSUME "disconnect" \notin Requests
    PROVE  Spec => []HoldJustified
<1>1. LinkInv => HoldJustified
  BY DEF LinkInv, AllOk, HoldOk, HoldJustified, WillAutoRetry
<1> QED BY <1>1, LinkInvariant, PTL

\* Without scan and connect requests the radio is held through every page, failure,
\* retry and drop, until the user disconnects.
THEOREM RadioKept ==
    ASSUME Requests \subseteq {"disconnect"}
    PROVE  Spec => []RadioHeld
<1>1. LinkInv => RadioHeld
  BY DEF LinkInv, AllOk, LinkOk, Unused, HeldOk, RadioHeld, Pcs
<1> QED BY <1>1, LinkInvariant, PTL

\* When no callback comes between the steps of main, WiFi sees of the printer link
\* only what BtService says.
THEOREM LinkServes ==
    ASSUME ~Preempt
    PROVE  Spec => ImplementsService
<1>1. Init => Service!Init
  BY LinkInvInit DEF Service!Init, Phase
<1>2. LinkInv /\ [Next]_vars => [Service!Next]_(Service!btVars)
  <2> SUFFICES ASSUME LinkInv, [Next]_vars PROVE Service!Next
    OBVIOUS
  <2>1. Serves(b', mpc', b, mpc) /\ b' \in Link
    BY NextSteps DEF Steps, Goes, AllOk, LinkOk
  <2>2. Phase(b', mpc') \in {"idle", "scanning", "connecting", "connected"}
    BY <2>1 DEF Phase, Link
  <2> QED BY <2>1, <2>2
     DEF Serves, Phase, Service!Next, Service!Begin, Service!GoOn, Service!End, Service!Phases
<1> QED BY <1>1, <1>2, LinkInvariant, PTL DEF Spec, ImplementsService, Service!Spec
=============================================================================
