----------------------------- MODULE WifiRadio -----------------------------
(***************************************************************************)
(* wifi.c: SoftAP, joins and scans on the radio WiFi shares with Classic   *)
(* Bluetooth.  wifi_poll runs in the main loop, one section after another; *)
(* the Bluetooth side (BtService, here as its environment), HTTP requests  *)
(* and the WiFi driver come in between calls of it or, with Preempt,       *)
(* between any two of its sections and inside start_ap and begin_join.     *)
(*                                                                         *)
(* w holds the statics of wifi.c and, below them, what the firmware can    *)
(* observe of the driver.  Left out: names, passwords and the list of scan *)
(* results (whether a known network was seen stands for it), saving the    *)
(* settings, netif and mDNS calls.  Deadlines are not timed: one that runs *)
(* may or may not have passed when it is looked at.                        *)
(***************************************************************************)
CONSTANTS HaveKnown,   \* known_networks.json is not empty
          Policies,    \* the scan policies the user chooses from
          Preempt      \* callbacks come inside wifi_poll as well

ASSUME RadioAssumption ==
    /\ HaveKnown \in BOOLEAN /\ Preempt \in BOOLEAN
    /\ Policies \subseteq {"idle", "always", "never"}

VARIABLES phase, hold,   \* the printer link; hold is also wifi.c's bt_hold
          w, at, back    \* at: where wifi_poll is; back: where a call returns

Bt == INSTANCE BtService

vars == <<phase, hold, w, at, back>>

\* wifi_poll's sections in order, each with the one after it; after the last,
\* main leaves wifi_poll.
After == [drop |-> "scanned", scanned |-> "force", force |-> "rescan",
          rescan |-> "rejoin", rejoin |-> "boot", boot |-> "join", join |-> "sta",
          sta |-> "periodic", periodic |-> "known", known |-> "idle"]

Links == {"joining", "noip", "up", "badauth", "fail"}

-----------------------------------------------------------------------------
(* Helpers of wifi.c *)

BtPaging == hold \/ phase \in {"connecting", "scanning"}

\* wifi_sta_allowed
StaAllowed == phase = "connected" /\ ~BtPaging

\* sta_disconnect
StaDisconnect(s) == [s EXCEPT !.link = "down"]

\* stop_ap
StopAp(s) == [s EXCEPT !.apUp = FALSE]

\* begin_scan; the driver may refuse to start.
BeginScan(s, err) ==
    IF s.state = "join" \/ ~StaAllowed THEN [s EXCEPT !.pendingScan = TRUE]
    ELSE IF s.active THEN s
    ELSE [s EXCEPT !.seen = FALSE, !.scanDone = err, !.scanning = ~err,
                   !.active = ~err]

\* scan_allowed_periodic; clients: an AP client is associated.
ScanAllowedPeriodic(clients) ==
    /\ w.state = "ap"
    /\ \/ w.policy = "always"
       \/ w.policy = "idle" /\ ~(w.apUp /\ clients)

-----------------------------------------------------------------------------
(* start_ap and begin_join, called from the sections of wifi_poll *)

Continue(section) == at' = section /\ UNCHANGED <<phase, hold, back>>

Call(entry, section) ==
    at' = entry /\ back' = section /\ UNCHANGED <<phase, hold>>

Return == at' = back /\ UNCHANGED <<phase, hold, back>>

\* Mutant: no test of bt_hold.
StartApUnguarded ==
    /\ at = "startAp"
    /\ w' = StopAp(w) /\ Continue("apRadio")

\* The test of bt_hold, and the stop of an AP that is up.
StartAp ==
    /\ at = "startAp"
    /\ IF hold
         THEN w' = [w EXCEPT !.resumeAp = TRUE] /\ Return
         ELSE w' = StopAp(w) /\ Continue("apRadio")

\* Inside the lwIP lock: no callback comes before the next step begins.
ApRadio ==
    /\ at = "apRadio"
    /\ w' = StaDisconnect(w)
    /\ Continue("apUp")

ApUp ==
    /\ at = "apUp"
    /\ w' = [w EXCEPT !.apUp = TRUE, !.connecting = FALSE,
                      !.state = "ap"]
    /\ Return

\* Mutant: SoftAP stays up.
BeginJoinKeepsAp ==
    /\ at = "beginJoin"
    /\ IF w.active \/ w.scanning
         THEN w' = [w EXCEPT !.pendingJoin = TRUE] /\ Return
         ELSE /\ w' = [w EXCEPT !.connecting = TRUE, !.state = "join"]
              /\ Continue("joinCall")

BeginJoin ==
    /\ at = "beginJoin"
    /\ IF w.active \/ w.scanning
         THEN w' = [w EXCEPT !.pendingJoin = TRUE] /\ Return
         ELSE /\ w' = [StopAp(w) EXCEPT !.connecting = TRUE, !.state = "join"]
              /\ Continue("joinCall")

\* cyw43_arch_wifi_connect_bssid_async
JoinCall ==
    /\ at = "joinCall"
    /\ \/ w' = [w EXCEPT !.link = "joining"] /\ Return
       \/ w' = [w EXCEPT !.connecting = FALSE] /\ Continue("startAp")

-----------------------------------------------------------------------------
(* wifi_poll, section by section *)

PollBegin ==
    /\ at = "idle"
    /\ Continue("drop")
    /\ UNCHANGED w

\* Mutant: the drop forgets the join but not that it was announced.
PollDropAnnounced ==
    /\ at = "drop"
    /\ LET lost == w.btWas /\ phase # "connected"
           s == [w EXCEPT !.btWas = phase = "connected"]
       IN  IF lost
             THEN /\ w' = [s EXCEPT !.pendingScan = FALSE, !.pendingJoin = FALSE,
                                    !.scanDone = FALSE]
                  /\ IF w.state \in {"sta", "join"}
                       THEN Call("startAp", After.drop)
                       ELSE Continue(After.drop)
             ELSE w' = s /\ Continue(After.drop)

\* The printer was connected at the last poll and is not now:
\* drop_sta_printer_lost.
PollDrop ==
    /\ at = "drop"
    /\ LET lost == w.btWas /\ phase # "connected"
           s == [w EXCEPT !.btWas = phase = "connected"]
       IN  IF lost
             THEN /\ w' = [s EXCEPT !.pendingScan = FALSE, !.pendingJoin = FALSE,
                                    !.connecting = FALSE, !.scanDone = FALSE]
                  /\ IF w.state \in {"sta", "join"}
                       THEN Call("startAp", After.drop)
                       ELSE Continue(After.drop)
             ELSE w' = s /\ Continue(After.drop)

PollScanned ==
    /\ at = "scanned"
    /\ w' = IF w.scanning /\ ~w.active
              THEN [w EXCEPT !.scanning = FALSE, !.scanDone = TRUE] ELSE w
    /\ Continue(After.scanned)

\* Mutant: no test of the printer link.
PollForceEarly ==
    /\ at = "force"
    /\ IF w.pendingAp
         THEN /\ w' = [w EXCEPT !.pendingAp = FALSE, !.pendingJoin = FALSE]
              /\ Call("startAp", After.force)
         ELSE UNCHANGED w /\ Continue(After.force)

PollForce ==
    /\ at = "force"
    /\ IF w.pendingAp /\ ~BtPaging
         THEN /\ w' = [w EXCEPT !.pendingAp = FALSE, !.pendingJoin = FALSE]
              /\ Call("startAp", After.force)
         ELSE UNCHANGED w /\ Continue(After.force)

PollRescan ==
    /\ at = "rescan"
    /\ \E err \in BOOLEAN :
         w' = IF w.pendingScan /\ StaAllowed /\ w.state # "join"
                THEN BeginScan([w EXCEPT !.pendingScan = FALSE], err) ELSE w
    /\ Continue(After.rescan)

PollRejoin ==
    /\ at = "rejoin"
    /\ IF w.pendingJoin /\ StaAllowed /\ ~w.active /\ ~w.scanning
         THEN /\ w' = [w EXCEPT !.pendingJoin = FALSE]
              /\ Call("beginJoin", After.rejoin)
         ELSE UNCHANGED w /\ Continue(After.rejoin)

\* due: the 60 s for known networks are over.
PollBoot ==
    /\ at = "boot"
    /\ \E due, err \in BOOLEAN :
         IF w.state = "boot" /\ ~hold /\ due
           THEN UNCHANGED w /\ Call("startAp", After.boot)
         ELSE IF w.state = "boot" /\ StaAllowed /\ ~w.pendingJoin
           THEN IF w.scanDone /\ w.seen
                  THEN UNCHANGED w /\ Call("beginJoin", After.boot)
                  ELSE /\ w' = IF w.scanning THEN w ELSE BeginScan(w, err)
                       /\ Continue(After.boot)
         ELSE UNCHANGED w /\ Continue(After.boot)

\* Mutant: an association without an address never times out.
PollJoinWaits ==
    /\ at = "join"
    /\ \E due \in BOOLEAN :
         IF w.state = "join" /\ w.link = "up"
           THEN /\ w' = [w EXCEPT !.connecting = FALSE, !.state = "sta"]
                /\ Continue(After.join)
         ELSE IF w.state = "join" /\ w.link # "noip" /\ (w.link = "badauth" \/ due)
           THEN /\ w' = [w EXCEPT !.connecting = FALSE]
                /\ Call("startAp", After.join)
         ELSE UNCHANGED w /\ Continue(After.join)

\* due: 6 s without association, 14 s without an address.
PollJoin ==
    /\ at = "join"
    /\ \E due \in BOOLEAN :
         IF w.state = "join" /\ w.link = "up"
           THEN /\ w' = [w EXCEPT !.connecting = FALSE, !.state = "sta"]
                /\ Continue(After.join)
         ELSE IF w.state = "join" /\ (w.link = "badauth" \/ due)
           THEN /\ w' = [w EXCEPT !.connecting = FALSE]
                /\ Call("startAp", After.join)
         ELSE UNCHANGED w /\ Continue(After.join)

\* due: 2 s without the link.
PollSta ==
    /\ at = "sta"
    /\ \E due \in BOOLEAN :
         IF w.state = "sta" /\ w.link # "up" /\ due
           THEN /\ w' = [w EXCEPT !.connecting = FALSE]
                /\ Call("startAp", After.sta)
           ELSE UNCHANGED w /\ Continue(After.sta)

\* due: 30 s since the last periodic scan, or the AP has just come up.
PollPeriodic ==
    /\ at = "periodic"
    /\ \E due, clients, err \in BOOLEAN :
         w' = IF /\ StaAllowed /\ ScanAllowedPeriodic(clients)
                 /\ ~w.scanning /\ ~w.pendingJoin
                 /\ due
                THEN BeginScan(w, err) ELSE w
    /\ Continue(After.periodic)

\* Mutant: no wifi_sta_allowed.
PollKnownAnyTime ==
    /\ at = "known"
    /\ \E due, clients \in BOOLEAN :
         IF w.state = "ap" /\ w.scanDone /\ ~w.scanning /\ ~w.pendingJoin /\ due
           THEN /\ w' = [w EXCEPT !.scanDone = FALSE]
                /\ IF w.seen /\ ScanAllowedPeriodic(clients)
                     THEN Call("beginJoin", After.known)
                     ELSE Continue(After.known)
           ELSE UNCHANGED w /\ Continue(After.known)

\* due: 10 s since the last failed join.
PollKnown ==
    /\ at = "known"
    /\ \E due, clients \in BOOLEAN :
         IF /\ w.state = "ap" /\ StaAllowed
            /\ w.scanDone /\ ~w.scanning /\ ~w.pendingJoin /\ due
           THEN /\ w' = [w EXCEPT !.scanDone = FALSE]
                /\ IF w.seen /\ ScanAllowedPeriodic(clients)
                     THEN Call("beginJoin", After.known)
                     ELSE Continue(After.known)
           ELSE UNCHANGED w /\ Continue(After.known)

-----------------------------------------------------------------------------
(* Callbacks *)

Callback ==
    /\ Preempt \/ at = "idle"
    /\ UNCHANGED <<at, back>>

\* wifi_bt_radio_hold, when the hold begins and when it ends
HoldBegins(s) ==
    LET r == [s EXCEPT !.resumeAp = @ \/ s.state # "sta"]
    IN  StopAp(IF s.state = "join" \/ s.connecting
                 THEN [StaDisconnect(r) EXCEPT !.connecting = FALSE, !.state = "ap"]
                 ELSE r)

HoldEnds(s) ==
    [s EXCEPT !.resumeAp = FALSE,
              !.pendingAp = @ \/ (s.resumeAp /\ ~s.apUp
                                     /\ s.state \notin {"sta", "join"})]

\* A step of the printer link.  A scan that fails to start holds the radio
\* and releases it at once.
BtStep ==
    /\ Callback
    /\ \/ /\ Bt!Begin \/ Bt!GoOn \/ Bt!End
          /\ w' = IF hold' /\ ~hold THEN HoldBegins(w)
                  ELSE IF hold /\ ~hold' THEN HoldEnds(w) ELSE w
       \/ /\ phase \notin {"connecting", "connected"} /\ phase' = "idle"
          /\ ~hold /\ UNCHANGED hold
          /\ w' = HoldEnds(HoldBegins(w))

\* wifi_request_scan
RequestScan ==
    /\ Callback
    /\ phase = "connected"
    /\ w' = [w EXCEPT !.pendingScan = TRUE]
    /\ UNCHANGED <<phase, hold>>

\* wifi_connect_save, wifi_connect_known
RequestJoin ==
    /\ Callback
    /\ w' = [w EXCEPT !.pendingJoin = TRUE, !.connecting = TRUE]
    /\ UNCHANGED <<phase, hold>>

\* wifi_force_ap, and wifi_set_ap_creds while the AP is up
RequestAp ==
    /\ Callback
    /\ w' = [w EXCEPT !.pendingAp = TRUE]
    /\ UNCHANGED <<phase, hold>>

\* wifi_set_scan_policy
SetPolicy(p) ==
    /\ Callback
    /\ w' = [w EXCEPT !.policy = p]
    /\ UNCHANGED <<phase, hold>>

\* The driver's scan ends; it may have seen a known network.
ScanEnds ==
    /\ Callback
    /\ w.active
    /\ \E seen \in BOOLEAN : w' = [w EXCEPT !.active = FALSE, !.seen = seen /\ HaveKnown]
    /\ UNCHANGED <<phase, hold>>

\* The driver's link goes on, comes up, is refused, fails, drops.
LinkChanges(link) ==
    /\ Callback
    /\ w.link # "down" /\ link # w.link
    /\ w' = [w EXCEPT !.link = link]
    /\ UNCHANGED <<phase, hold>>

-----------------------------------------------------------------------------
InitW(state, apUp, policy) ==
    [state |-> state, apUp |-> apUp, connecting |-> FALSE,
     pendingJoin |-> FALSE, pendingScan |-> FALSE, pendingAp |-> FALSE,
     scanning |-> FALSE, scanDone |-> FALSE,
     resumeAp |-> FALSE, btWas |-> FALSE, policy |-> policy,
     \* driver
     active |-> FALSE, seen |-> FALSE, link |-> "down"]

\* wifi_init runs before bt_core_init.
Init ==
    /\ Bt!Init
    /\ at = "idle" /\ back = "idle"
    /\ \E policy \in Policies :
         w = IF HaveKnown THEN InitW("boot", FALSE, policy) ELSE InitW("ap", TRUE, policy)

MainStep ==
    \/ PollBegin \/ PollDrop \/ PollScanned \/ PollForce \/ PollRescan
    \/ PollRejoin \/ PollBoot \/ PollJoin \/ PollSta \/ PollPeriodic
    \/ PollKnown
    \/ StartAp \/ ApRadio \/ ApUp \/ BeginJoin \/ JoinCall

Environment ==
    \/ BtStep
    \/ RequestScan \/ RequestJoin \/ RequestAp \/ \E p \in Policies : SetPolicy(p)
    \/ ScanEnds \/ \E link \in Links : LinkChanges(link)

Next == MainStep \/ Environment

Spec == Init /\ [][Next]_vars

\* The main loop goes on; a scan ends; deadlines pass.
JoinOver == PollJoin /\ w.state = "join" /\ at' # After.join
StaLost == PollSta /\ w.state = "sta" /\ at' # After.sta
BootOver == PollBoot /\ at' = "startAp"

FairSpec == Spec /\ WF_vars(MainStep) /\ SF_vars(ScanEnds)
                 /\ SF_vars(JoinOver) /\ SF_vars(StaLost) /\ SF_vars(BootOver)

-----------------------------------------------------------------------------
(* Properties *)

Radio ==
    [state : {"ap", "sta", "boot", "join"}, apUp : BOOLEAN, connecting : BOOLEAN,
     pendingJoin : BOOLEAN, pendingScan : BOOLEAN, pendingAp : BOOLEAN,
     scanning : BOOLEAN, scanDone : BOOLEAN, resumeAp : BOOLEAN,
     btWas : BOOLEAN, policy : Policies, active : BOOLEAN, seen : BOOLEAN,
     link : Links \union {"down"}]

\* Where wifi_poll and its calls may return to.
Returns == {"idle"} \union DOMAIN After
Calls == {"startAp", "apRadio", "apUp", "beginJoin", "joinCall"}

TypeOK ==
    /\ phase \in Bt!Phases /\ hold \in BOOLEAN
    /\ w \in Radio
    /\ at \in Returns \union Calls
    /\ back \in Returns

\* SoftAP is down while Bluetooth holds the radio.
ApPaused == hold => ~w.apUp

\* SoftAP and a WiFi link as a station are never up together, whatever
\* interrupts a join or a start.
OneRole == w.apUp => w.link = "down"

\* The status that the web page reads says "connecting" only while a join runs
\* or waits: whatever ends or forgets a join (a drop of the printer, a hold, a
\* refusal, a deadline, a request for SoftAP) has taken the word back too.
ConnectingShown == at = "idle" /\ w.connecting => w.state = "join" \/ w.pendingJoin

\* STA joins start only after SPP is up, and off the hold.
JoinsAfterPrinter ==
    [][w.link # "joining" /\ w'.link = "joining" /\ at = "joinCall"
         => phase = "connected" /\ ~hold]_vars

\* A printer drop tears down STA: once wifi_poll has seen the drop, the next
\* page finds no WiFi link.
StaTornDown == at = "idle" /\ hold /\ ~w.btWas => w.link = "down"

\* No join lasts for ever.
JoinEnds == w.state = "join" ~> w.state # "join"

\* If Bluetooth leaves the radio alone, the board is on the air again, as
\* an access point or as a station.
OnAir == []<>BtPaging \/ []<>(w.apUp \/ w.link = "up")

\* A request for SoftAP is served once Bluetooth lets go of the radio.
ApServed == []<>BtPaging \/ (w.pendingAp ~> w.apUp)
=============================================================================
