-------------------------- MODULE WifiRadioProofs --------------------------
(***************************************************************************)
(* The roles of the radio, for every choice of policies, with callbacks    *)
(* inside wifi_poll or not: types, SoftAP and station never together, the  *)
(* word "connecting".  And where callbacks come between calls of wifi_poll *)
(* only: SoftAP is paused while Bluetooth holds the radio, and joins wait  *)
(* for the printer.                                                        *)
(***************************************************************************)
EXTENDS WifiRadio, TLAPS

-----------------------------------------------------------------------------
(* Types *)

\* The sections of wifi_poll, and where each goes on.
LEMMA AfterSections ==
    /\ Returns = {"idle", "drop", "scanned", "force", "rescan", "rejoin", "boot",
                  "join", "sta", "periodic", "known"}
    /\ After.drop = "scanned" /\ After.scanned = "force"
    /\ After.force = "rescan" /\ After.rescan = "rejoin"
    /\ After.rejoin = "boot" /\ After.boot = "join" /\ After.join = "sta"
    /\ After.sta = "periodic" /\ After.periodic = "known"
    /\ After.known = "idle"
  BY DEF Returns, After

\* The helpers of wifi.c keep w's type.
LEMMA HelperTypes ==
    ASSUME NEW s \in Radio
    PROVE  StopAp(s) \in Radio /\ StaDisconnect(s) \in Radio
  BY DEF Radio, Links, StopAp, StaDisconnect

LEMMA BeginScanType ==
    ASSUME NEW s \in Radio, NEW err \in BOOLEAN
    PROVE  BeginScan(s, err) \in Radio
<1>1. PICK ok \in BOOLEAN : ok = ~err
  OBVIOUS
<1>2. /\ [s EXCEPT !.pendingScan = TRUE] \in Radio
      /\ [s EXCEPT !.seen = FALSE, !.scanDone = err, !.scanning = ok,
                   !.active = ok] \in Radio
  BY DEF Radio
<1> QED BY <1>1, <1>2, Zenon DEF BeginScan

-----------------------------------------------------------------------------
(* The sections of wifi_poll *)

Section ==
    \/ PollBegin \/ PollDrop \/ PollScanned \/ PollForce \/ PollRescan
    \/ PollRejoin \/ PollBoot \/ PollJoin \/ PollSta \/ PollPeriodic
    \/ PollKnown

\* s may become t without SoftAP or the station link changing.
SameRadio(s, t) == t \in Radio /\ t.apUp = s.apUp /\ t.link = s.link

LEMMA BeginScanSame ==
    ASSUME NEW s \in Radio, NEW err \in BOOLEAN
    PROVE  SameRadio(s, BeginScan(s, err))
<1>1. PICK ok \in BOOLEAN : ok = ~err
  OBVIOUS
<1>2. /\ SameRadio(s, s)
      /\ SameRadio(s, [s EXCEPT !.pendingScan = TRUE])
      /\ SameRadio(s, [s EXCEPT !.seen = FALSE, !.scanDone = err,
                                !.scanning = ok, !.active = ok])
  BY DEF Radio, SameRadio
<1> QED BY <1>1, <1>2, Zenon DEF BeginScan

\* A section leaves SoftAP and the station link alone; what it wants of them
\* it calls start_ap for or, when the printer allows it, begin_join.
LEMMA SectionStep ==
    ASSUME TypeOK, Section
    PROVE  /\ SameRadio(w, w')
           /\ UNCHANGED <<phase, hold>>
           /\ at' \in Returns \union {"startAp", "beginJoin"}
           /\ back' \in Returns
           /\ at' = "beginJoin" => StaAllowed
<1> USE AfterSections DEF TypeOK, Continue, Call
<1> DEFINE Goal == /\ SameRadio(w, w')
                   /\ UNCHANGED <<phase, hold>>
                   /\ at' \in Returns \union {"startAp", "beginJoin"}
                   /\ back' \in Returns
                   /\ at' = "beginJoin" => StaAllowed
<1>0. /\ SameRadio(w, w)
      /\ SameRadio(w, [w EXCEPT !.scanning = FALSE, !.scanDone = TRUE])
      /\ SameRadio(w, [w EXCEPT !.pendingAp = FALSE, !.pendingJoin = FALSE])
      /\ SameRadio(w, [w EXCEPT !.pendingJoin = FALSE])
      /\ SameRadio(w, [w EXCEPT !.connecting = FALSE, !.state = "sta"])
      /\ SameRadio(w, [w EXCEPT !.connecting = FALSE])
      /\ SameRadio(w, [w EXCEPT !.scanDone = FALSE])
      /\ SameRadio(w, [w EXCEPT !.pendingScan = FALSE])
  BY DEF Radio, SameRadio
<1> HIDE DEF Goal
<1>1. CASE PollBegin
  BY <1>1, <1>0 DEF PollBegin, Goal
<1>2. CASE PollDrop
  <2>1. PICK was \in BOOLEAN : was = (phase = "connected")
    OBVIOUS
  <2>2. /\ [w EXCEPT !.btWas = was] \in Radio
        /\ SameRadio(w, [w EXCEPT !.btWas = was])
    BY DEF SameRadio, Radio
  <2>3. ASSUME NEW s \in Radio
        PROVE  SameRadio(s, [s EXCEPT !.pendingScan = FALSE, !.pendingJoin = FALSE,
                                      !.connecting = FALSE, !.scanDone = FALSE])
    BY DEF SameRadio, Radio
  <2>4. w' = [w EXCEPT !.btWas = was]
        \/ w' = [[w EXCEPT !.btWas = was]
                   EXCEPT !.pendingScan = FALSE, !.pendingJoin = FALSE,
                          !.connecting = FALSE, !.scanDone = FALSE]
    BY <1>2, <2>1, Zenon DEF PollDrop
  <2>5. SameRadio(w, w')
    BY <2>2, <2>3, <2>4, Zenon DEF SameRadio
  <2> QED BY <1>2, <2>5 DEF PollDrop, Goal
<1>3. CASE PollScanned
  BY <1>3, <1>0 DEF PollScanned, Goal
<1>4. CASE PollForce
  BY <1>4, <1>0 DEF PollForce, Goal
<1>5. CASE PollRescan
  <2>1. SameRadio(w, w')
    <3>1. PICK s \in Radio : s = [w EXCEPT !.pendingScan = FALSE]
      BY DEF Radio
    <3>2. \A err \in BOOLEAN : SameRadio(w, BeginScan(s, err))
      BY <1>0, <3>1, BeginScanSame DEF SameRadio
    <3> QED BY <1>5, <1>0, <3>1, <3>2, Zenon DEF PollRescan
  <2> QED BY <1>5, <2>1 DEF PollRescan, Goal
<1>6. CASE PollRejoin
  BY <1>6, <1>0 DEF PollRejoin, Goal
<1>7. CASE PollBoot
  <2>1. \A err \in BOOLEAN : SameRadio(w, BeginScan(w, err))
    BY BeginScanSame
  <2>2. SameRadio(w, w')
    BY <1>7, <1>0, <2>1, Zenon DEF PollBoot
  <2> QED BY <1>7, <2>2 DEF PollBoot, Goal
<1>8. CASE PollJoin
  BY <1>8, <1>0 DEF PollJoin, Goal
<1>9. CASE PollSta
  BY <1>9, <1>0 DEF PollSta, Goal
<1>10. CASE PollPeriodic
  <2>1. \A err \in BOOLEAN : SameRadio(w, BeginScan(w, err))
    BY BeginScanSame
  <2>2. SameRadio(w, w')
    BY <1>10, <1>0, <2>1, Zenon DEF PollPeriodic
  <2> QED BY <1>10, <2>2 DEF PollPeriodic, Goal
<1>11. CASE PollKnown
  BY <1>11, <1>0 DEF PollKnown, Goal
<1> QED BY <1>1, <1>2, <1>3, <1>4, <1>5, <1>6, <1>7, <1>8, <1>9, <1>10, <1>11
        DEF Section, Goal

-----------------------------------------------------------------------------
(* The hold of Bluetooth *)

\* When the hold begins SoftAP goes down and a join ends; when it ends,
\* nothing changes at once.
LEMMA HoldShapes ==
    ASSUME NEW s \in Radio
    PROVE  /\ HoldBegins(s) \in Radio
           /\ HoldBegins(s).apUp = FALSE
           /\ HoldBegins(s).link \in {s.link, "down"}
           /\ SameRadio(s, HoldEnds(s))
<1>1. ASSUME NEW b \in BOOLEAN
      PROVE  SameRadio(s, [s EXCEPT !.resumeAp = b])
  BY DEF Radio, SameRadio
<1>2. ASSUME NEW r \in Radio
      PROVE  /\ SameRadio(r, [r EXCEPT !.connecting = FALSE, !.state = "ap"])
             /\ StaDisconnect(r) \in Radio /\ StaDisconnect(r).link = "down"
             /\ StopAp(r) \in Radio /\ StopAp(r).apUp = FALSE
             /\ StopAp(r).link = r.link
  BY DEF Radio, Links, SameRadio, StaDisconnect, StopAp
<1>3. PICK b \in BOOLEAN : b = (s.resumeAp \/ s.state # "sta")
  OBVIOUS
<1> DEFINE r == [s EXCEPT !.resumeAp = b]
           l == StaDisconnect(r)
           d == [l EXCEPT !.connecting = FALSE, !.state = "ap"]
<1>4. r \in Radio /\ r.link = s.link
  BY <1>1, Zenon DEF SameRadio
<1>5. HoldBegins(s) = StopAp(d) \/ HoldBegins(s) = StopAp(r)
  BY <1>3, Zenon DEF HoldBegins
<1> HIDE DEF r
<1>6. d \in Radio /\ d.link = "down"
  <2>1. l \in Radio /\ l.link = "down"
    BY <1>2, <1>4
  <2> HIDE DEF l
  <2>2. SameRadio(l, d)
    BY <1>2, <2>1
  <2> QED BY <2>1, <2>2 DEF SameRadio
<1> HIDE DEF d
<1>7. /\ HoldBegins(s) \in Radio /\ HoldBegins(s).apUp = FALSE
      /\ HoldBegins(s).link \in {s.link, "down"}
  BY <1>2, <1>4, <1>5, <1>6
<1>8. PICK q \in BOOLEAN : q = (s.pendingAp \/ (s.resumeAp /\ ~s.apUp
                                  /\ s.state \notin {"sta", "join"}))
  OBVIOUS
<1>9. SameRadio(s, [s EXCEPT !.resumeAp = FALSE, !.pendingAp = q])
  BY DEF Radio, SameRadio
<1>10. SameRadio(s, HoldEnds(s))
  BY <1>8, <1>9, Zenon DEF HoldEnds
<1> QED BY <1>7, <1>10

-----------------------------------------------------------------------------
(* Types, and SoftAP and station never together *)

\* A start of SoftAP has left the station before it raises SoftAP; a join has
\* stopped SoftAP before it asks the driver.
RoleInv ==
    /\ OneRole
    /\ at = "apUp" => w.link = "down"
    /\ at = "joinCall" => ~w.apUp

LEMMA InitRoles == Init => TypeOK /\ RoleInv
<1> SUFFICES ASSUME Init PROVE TypeOK /\ RoleInv
  OBVIOUS
<1>1. PICK policy \in Policies :
        w = IF HaveKnown THEN InitW("boot", FALSE, policy) ELSE InitW("ap", TRUE, policy)
  BY DEF Init
<1>2. w \in Radio /\ w.link = "down"
  BY <1>1 DEF InitW, Radio, Links
<1>3. phase \in Bt!Phases /\ hold \in BOOLEAN /\ at = "idle" /\ back = "idle"
  BY DEF Init, Bt!Init, Bt!Phases
<1> QED BY <1>2, <1>3, AfterSections DEF TypeOK, RoleInv, OneRole, Calls

LEMMA MainStepRoles ==
    ASSUME TypeOK, RoleInv, MainStep
    PROVE  TypeOK' /\ RoleInv'
<1> USE DEF TypeOK, RoleInv, OneRole
<1>1. CASE Section
  <2>1. at' \in Returns \union Calls /\ at' # "apUp" /\ at' # "joinCall"
    BY <1>1, SectionStep, AfterSections DEF Calls
  <2> QED BY <1>1, <2>1, SectionStep DEF SameRadio
<1>2. CASE StartAp
  <2>1. ASSUME NEW s \in Radio
        PROVE  /\ StopAp(s) \in Radio /\ StopAp(s).apUp = FALSE
               /\ SameRadio(s, [s EXCEPT !.resumeAp = TRUE])
    BY DEF Radio, StopAp, SameRadio
  <2>2. CASE hold
    <3>1. SameRadio(w, w')
      BY <1>2, <2>1, <2>2, Zenon DEF StartAp
    <3> QED BY <1>2, <2>2, <3>1, AfterSections DEF StartAp, Return, SameRadio
  <2>3. CASE ~hold
    <3>1. w' \in Radio /\ w'.apUp = FALSE
      BY <1>2, <2>1, <2>3, Zenon DEF StartAp
    <3> QED BY <1>2, <2>3, <3>1 DEF StartAp, Continue, Calls
  <2> QED BY <2>2, <2>3
<1>3. CASE ApRadio
  <2>1. StaDisconnect(w) \in Radio /\ StaDisconnect(w).link = "down"
    BY DEF Radio, StaDisconnect
  <2> QED BY <1>3, <2>1 DEF ApRadio, Continue, Calls
<1>4. CASE ApUp
  <2>1. w' \in Radio /\ w'.link = w.link
    BY <1>4 DEF ApUp, Radio
  <2> QED BY <1>4, <2>1, AfterSections DEF ApUp, Return
<1>5. CASE BeginJoin
  <2>1. SameRadio(w, [w EXCEPT !.pendingJoin = TRUE])
    BY DEF Radio, SameRadio
  <2>2. StopAp(w) \in Radio /\ StopAp(w).apUp = FALSE
    BY HelperTypes DEF Radio, StopAp
  <2>3. ASSUME NEW s \in Radio
        PROVE  SameRadio(s, [s EXCEPT !.connecting = TRUE, !.state = "join"])
    BY DEF Radio, SameRadio
  <2>4. CASE w.active \/ w.scanning
    BY <1>5, <2>1, <2>4, AfterSections DEF BeginJoin, Return, SameRadio
  <2>5. CASE ~(w.active \/ w.scanning)
    <3>1. SameRadio(StopAp(w), w')
      BY <1>5, <2>2, <2>3, <2>5, Zenon DEF BeginJoin
    <3> QED BY <1>5, <2>2, <2>5, <3>1 DEF BeginJoin, Continue, Calls, SameRadio
  <2> QED BY <2>4, <2>5
<1>6. CASE JoinCall
  <2>1. /\ [w EXCEPT !.link = "joining"] \in Radio
        /\ [w EXCEPT !.link = "joining"].apUp = w.apUp
        /\ SameRadio(w, [w EXCEPT !.connecting = FALSE])
    BY DEF Radio, Links, SameRadio
  <2> QED BY <1>6, <2>1, AfterSections DEF JoinCall, Return, Continue, Calls, SameRadio
<1> QED BY <1>1, <1>2, <1>3, <1>4, <1>5, <1>6 DEF MainStep, Section

\* Callbacks never raise SoftAP, nor a link of their own, and a hold that
\* begins finds SoftAP down.
LEMMA EnvironmentStep ==
    ASSUME TypeOK, Environment
    PROVE  /\ Callback /\ TypeOK'
           /\ w'.apUp => w.apUp
           /\ w.link = "down" => w'.link = "down"
           /\ hold' /\ ~hold => ~w'.apUp
<1> DEFINE Goal == /\ Callback /\ TypeOK'
                   /\ w'.apUp => w.apUp
                   /\ w.link = "down" => w'.link = "down"
                   /\ hold' /\ ~hold => ~w'.apUp
<1> USE DEF TypeOK, Callback
<1>1. CASE BtStep
  <2>1. phase' \in Bt!Phases /\ hold' \in BOOLEAN
    BY <1>1 DEF BtStep, Bt!Begin, Bt!GoOn, Bt!End, Bt!Phases
  <2>2. \A s \in Radio : /\ HoldBegins(s) \in Radio
                         /\ HoldBegins(s).apUp = FALSE
                         /\ HoldBegins(s).link \in {s.link, "down"}
                         /\ SameRadio(s, HoldEnds(s))
    BY HoldShapes
  <2>3. /\ w' \in {w, HoldBegins(w), HoldEnds(w), HoldEnds(HoldBegins(w))}
        /\ hold' /\ ~hold => w' = HoldBegins(w)
    BY <1>1 DEF BtStep
  <2>4. /\ w' \in Radio /\ (w'.apUp => w.apUp) /\ w'.link \in {w.link, "down"}
        /\ hold' /\ ~hold => ~w'.apUp
    BY <2>2, <2>3 DEF SameRadio
  <2> QED BY <1>1, <2>1, <2>4 DEF BtStep
<1>2. CASE RequestScan \/ RequestJoin \/ RequestAp
  <2>1. SameRadio(w, w')
    BY <1>2 DEF RequestScan, RequestJoin, RequestAp, SameRadio, Radio
  <2> QED BY <1>2, <2>1 DEF RequestScan, RequestJoin, RequestAp, SameRadio
<1>3. ASSUME NEW p \in Policies, SetPolicy(p) PROVE Goal
  <2>1. SameRadio(w, w')
    BY <1>3 DEF SetPolicy, SameRadio, Radio
  <2> QED BY <1>3, <2>1 DEF SetPolicy, SameRadio
<1>4. CASE ScanEnds
  <2>1. PICK b \in BOOLEAN : w' = [w EXCEPT !.active = FALSE, !.seen = b]
    BY <1>4, RadioAssumption, Zenon DEF ScanEnds
  <2>2. SameRadio(w, w')
    BY <2>1 DEF SameRadio, Radio
  <2> QED BY <1>4, <2>2 DEF ScanEnds, SameRadio
<1>5. ASSUME NEW link \in Links, LinkChanges(link) PROVE Goal
  <2>1. w' \in Radio /\ w'.apUp = w.apUp /\ w.link # "down"
    BY <1>5 DEF LinkChanges, Radio
  <2> QED BY <1>5, <2>1 DEF LinkChanges
<1> QED BY <1>1, <1>2, <1>3, <1>4, <1>5 DEF Environment

LEMMA RolesKept == TypeOK /\ RoleInv /\ [Next]_vars => (TypeOK /\ RoleInv)'
<1> SUFFICES ASSUME TypeOK, RoleInv, [Next]_vars PROVE (TypeOK /\ RoleInv)'
  OBVIOUS
<1>1. CASE UNCHANGED vars
  BY <1>1 DEF vars, TypeOK, RoleInv, OneRole
<1>2. CASE Environment
  BY <1>2, EnvironmentStep DEF Callback, RoleInv, OneRole
<1> QED BY <1>1, <1>2, MainStepRoles DEF Next

\* wifi.c's state, the driver's and the place in wifi_poll keep their types.
THEOREM TypeCorrect == Spec => []TypeOK
  BY InitRoles, RolesKept, PTL DEF Spec

\* SoftAP and a station link are never up together, whatever comes between
\* the sections of wifi_poll and inside start_ap and begin_join.
THEOREM OneRoleAlways == Spec => []OneRole
<1>1. RoleInv => OneRole
  BY DEF RoleInv
<1> QED BY <1>1, InitRoles, RolesKept, PTL DEF Spec

-----------------------------------------------------------------------------
(* What the status says of a join *)

\* "connecting" stands for a join that runs or waits.
Shown(s) == s.connecting => s.state = "join" \/ s.pendingJoin

\* Inside wifi_poll a join may have been taken from where it waited, or given
\* up for SoftAP by a start that goes on; a start that finds the hold does not.
ShownInv ==
    \/ Shown(w)
    \/ at \in {"beginJoin", "apRadio", "apUp"}
    \/ at = "startAp" /\ ~hold

\* A scan that starts says nothing of a join.
LEMMA BeginScanShown ==
    ASSUME NEW s \in Radio, NEW err \in BOOLEAN, Shown(s)
    PROVE  Shown(BeginScan(s, err))
<1>1. PICK ok \in BOOLEAN : ok = ~err
  OBVIOUS
<1>2. /\ Shown([s EXCEPT !.pendingScan = TRUE])
      /\ Shown([s EXCEPT !.seen = FALSE, !.scanDone = err, !.scanning = ok,
                         !.active = ok])
  BY DEF Radio, Shown
<1> QED BY <1>1, <1>2, Zenon DEF BeginScan

\* A hold that begins takes the word back with the join it ends; one that ends
\* leaves both.
LEMMA HoldShown ==
    ASSUME NEW s \in Radio
    PROVE  /\ Shown(HoldBegins(s))
           /\ Shown(s) => Shown(HoldEnds(s))
<1>1. ASSUME NEW t \in Radio, NEW b \in BOOLEAN
      PROVE  /\ [t EXCEPT !.resumeAp = b] \in Radio
             /\ [t EXCEPT !.resumeAp = b].connecting = t.connecting
             /\ \A q \in BOOLEAN :
                  Shown(t) => Shown([t EXCEPT !.resumeAp = b, !.pendingAp = q])
  BY DEF Radio, Shown
<1> DEFINE Ended(t) == [StaDisconnect(t) EXCEPT !.connecting = FALSE, !.state = "ap"]
<1>2. \A t \in Radio : /\ ~t.connecting => Shown(StopAp(t))
                       /\ Shown(StopAp(Ended(t)))
  BY DEF Radio, Shown, StopAp, StaDisconnect
<1>3. Shown(HoldBegins(s))
  <2>1. PICK b \in BOOLEAN : b = (s.resumeAp \/ s.state # "sta")
    OBVIOUS
  <2> DEFINE r == [s EXCEPT !.resumeAp = b]
  <2>2. r \in Radio /\ r.connecting = s.connecting
    BY <1>1
  <2>3. CASE s.state = "join" \/ s.connecting
    <3>1. HoldBegins(s) = StopAp(Ended(r))
      BY <2>1, <2>3, Zenon DEF HoldBegins
    <3> QED BY <1>2, <2>2, <3>1, Zenon
  <2>4. CASE ~(s.state = "join" \/ s.connecting)
    <3>1. HoldBegins(s) = StopAp(r)
      BY <2>1, <2>4, Zenon DEF HoldBegins
    <3>2. ~r.connecting
      BY <2>2, <2>4
    <3> QED BY <1>2, <2>2, <3>1, <3>2, Zenon
  <2> QED BY <2>3, <2>4
<1>4. PICK q \in BOOLEAN : q = (s.pendingAp \/ (s.resumeAp /\ ~s.apUp
                                  /\ s.state \notin {"sta", "join"}))
  OBVIOUS
<1>5. Shown(s) => Shown([s EXCEPT !.resumeAp = FALSE, !.pendingAp = q])
  BY <1>1
<1> QED BY <1>3, <1>4, <1>5, Zenon DEF HoldEnds

\* A section that takes a join from where it waited calls begin_join or, with
\* the radio free, start_ap.
LEMMA SectionShown ==
    ASSUME TypeOK, ShownInv, Section
    PROVE  ShownInv'
<1> USE AfterSections DEF Continue, Call
<1>0. w \in Radio /\ hold \in BOOLEAN
  BY DEF TypeOK
<1>1. Shown(w)
  BY DEF ShownInv, Section, PollBegin, PollDrop, PollScanned, PollForce, PollRescan,
     PollRejoin, PollBoot, PollJoin, PollSta, PollPeriodic, PollKnown
<1>2. \A err \in BOOLEAN : Shown(BeginScan(w, err))
  BY <1>0, <1>1, BeginScanShown
<1>3. CASE PollBegin \/ PollScanned
  BY <1>0, <1>1, <1>3 DEF PollBegin, PollScanned, ShownInv, Shown, Radio
<1>4. CASE PollDrop
  <2>1. PICK was \in BOOLEAN : was = (phase = "connected")
    OBVIOUS
  <2>2. /\ [w EXCEPT !.btWas = was] \in Radio
        /\ Shown([w EXCEPT !.btWas = was])
    BY <1>0, <1>1 DEF Shown, Radio
  <2>3. ASSUME NEW s \in Radio
        PROVE  Shown([s EXCEPT !.pendingScan = FALSE, !.pendingJoin = FALSE,
                               !.connecting = FALSE, !.scanDone = FALSE])
    BY DEF Shown, Radio
  <2>4. w' = [w EXCEPT !.btWas = was]
        \/ w' = [[w EXCEPT !.btWas = was]
                   EXCEPT !.pendingScan = FALSE, !.pendingJoin = FALSE,
                          !.connecting = FALSE, !.scanDone = FALSE]
    BY <1>4, <2>1, Zenon DEF PollDrop
  <2>5. Shown(w')
    BY <2>2, <2>3, <2>4, Zenon
  <2> QED BY <2>5 DEF ShownInv, Shown
<1>5. CASE PollForce
  <2>1. CASE w.pendingAp /\ ~BtPaging
    BY <1>5, <2>1 DEF PollForce, BtPaging, ShownInv
  <2>2. CASE ~(w.pendingAp /\ ~BtPaging)
    BY <1>1, <1>5, <2>2 DEF PollForce, ShownInv, Shown
  <2> QED BY <2>1, <2>2
<1>6. CASE PollRescan
  <2>1. PICK s \in Radio : s = [w EXCEPT !.pendingScan = FALSE]
    BY <1>0 DEF Radio
  <2>2. Shown(s)
    BY <1>0, <1>1, <2>1 DEF Shown, Radio
  <2>3. \A err \in BOOLEAN : Shown(BeginScan(s, err))
    BY <2>2, BeginScanShown
  <2>4. Shown(w')
    BY <1>1, <1>6, <2>1, <2>3, Zenon DEF PollRescan
  <2> QED BY <2>4 DEF ShownInv, Shown
<1>7. CASE PollRejoin
  BY <1>1, <1>7 DEF PollRejoin, ShownInv, Shown
<1>8. CASE PollBoot
  <2>1. Shown(w')
    BY <1>1, <1>2, <1>8, Zenon DEF PollBoot
  <2> QED BY <2>1 DEF ShownInv, Shown
<1>9. CASE PollJoin \/ PollSta
  BY <1>0, <1>1, <1>9 DEF PollJoin, PollSta, ShownInv, Shown, Radio
<1>10. CASE PollPeriodic
  <2>1. Shown(w')
    BY <1>1, <1>2, <1>10, Zenon DEF PollPeriodic
  <2> QED BY <2>1 DEF ShownInv, Shown
<1>11. CASE PollKnown
  BY <1>0, <1>1, <1>11 DEF PollKnown, ShownInv, Shown, Radio
<1> QED BY <1>3, <1>4, <1>5, <1>6, <1>7, <1>8, <1>9, <1>10, <1>11 DEF Section

LEMMA ShownKept ==
    TypeOK /\ ShownInv /\ [Next]_vars => ShownInv'
<1> SUFFICES ASSUME TypeOK, ShownInv, [Next]_vars PROVE ShownInv'
  OBVIOUS
<1>0. w \in Radio /\ hold \in BOOLEAN
  BY DEF TypeOK
<1>1. CASE UNCHANGED vars
  BY <1>1 DEF vars, ShownInv, Shown
<1>2. CASE Section
  BY <1>2, SectionShown
<1>3. CASE StartAp
  BY <1>0, <1>3 DEF StartAp, Return, Continue, ShownInv, Shown, Radio
<1>4. CASE ApRadio
  BY <1>4 DEF ApRadio, Continue, ShownInv
<1>5. CASE ApUp
  BY <1>0, <1>5 DEF ApUp, Return, ShownInv, Shown, Radio
<1>6. CASE BeginJoin
  BY <1>0, <1>6 DEF BeginJoin, StopAp, Return, Continue, ShownInv, Shown, Radio
<1>7. CASE JoinCall
  BY <1>0, <1>7 DEF JoinCall, Return, Continue, ShownInv, Shown, Radio
<1>8. CASE BtStep
  <2>1. /\ Shown(HoldBegins(w)) /\ (Shown(w) => Shown(HoldEnds(w)))
        /\ Shown(HoldEnds(HoldBegins(w)))
    BY <1>0, HoldShown, HoldShapes
  <2>2. at' = at
    BY <1>8 DEF BtStep, Callback
  <2>3. Shown(w') \/ ((Shown(w) => Shown(w')) /\ (hold' => hold))
    BY <1>8, <2>1, Zenon DEF BtStep
  <2> QED BY <1>0, <2>2, <2>3 DEF ShownInv, Shown
<1>9. CASE Environment /\ ~BtStep
  <2>1. Shown(w) => Shown(w')
    BY <1>0, <1>9 DEF Environment, RequestScan, RequestJoin, RequestAp, SetPolicy,
       ScanEnds, LinkChanges, Shown, Radio
  <2>2. UNCHANGED <<at, hold>>
    BY <1>9 DEF Environment, RequestScan, RequestJoin, RequestAp, SetPolicy,
       ScanEnds, LinkChanges, Callback
  <2> QED BY <2>1, <2>2 DEF ShownInv, Shown
<1> QED BY <1>1, <1>2, <1>3, <1>4, <1>5, <1>6, <1>7, <1>8, <1>9
        DEF Next, MainStep, Section

\* The status says "connecting" only while a join runs or waits, whatever comes
\* between the sections of wifi_poll and inside start_ap and begin_join.
THEOREM ConnectingIsShown == Spec => []ConnectingShown
<1>1. Init => ShownInv
  BY DEF Init, InitW, ShownInv, Shown
<1>2. ShownInv => ConnectingShown
  BY DEF ShownInv, Shown, ConnectingShown
<1> QED BY <1>1, <1>2, InitRoles, RolesKept, ShownKept, PTL DEF Spec

-----------------------------------------------------------------------------
(* With callbacks between calls of wifi_poll only *)

\* start_ap has tested the hold before it touches the radio, and begin_join
\* is called on wifi_sta_allowed.
HoldInv ==
    /\ ApPaused
    /\ at \in {"apRadio", "apUp"} => ~hold
    /\ at \in {"beginJoin", "joinCall"} => StaAllowed

LEMMA InitHold == Init => HoldInv
  BY DEF Init, Bt!Init, HoldInv, ApPaused

LEMMA MainStepHold ==
    ASSUME TypeOK, RoleInv, HoldInv, MainStep
    PROVE  HoldInv'
<1> USE DEF HoldInv, ApPaused
<1>1. UNCHANGED <<phase, hold>>
  BY SectionStep DEF MainStep, Section, StartAp, ApRadio, ApUp, BeginJoin, JoinCall,
     Continue, Call, Return
<1>2. StaAllowed' <=> StaAllowed
  BY <1>1 DEF StaAllowed, BtPaging
<1>3. CASE Section
  <2>1. at' \notin {"apRadio", "apUp", "joinCall"}
    BY <1>3, SectionStep, AfterSections
  <2> QED BY <1>1, <1>2, <1>3, <2>1, SectionStep DEF SameRadio
<1>4. \A s \in Radio : /\ StopAp(s).apUp = FALSE
                       /\ StaDisconnect(s).apUp = s.apUp
  BY DEF Radio, StopAp, StaDisconnect
<1>5. back \notin {"apRadio", "apUp", "beginJoin", "joinCall"} /\ w \in Radio
  BY AfterSections DEF TypeOK
<1>6. CASE StartAp
  <2>1. hold => w'.apUp = w.apUp
    BY <1>5, <1>6 DEF StartAp, Radio
  <2>2. ~hold => ~hold' /\ at' = "apRadio"
    BY <1>6 DEF StartAp, Continue
  <2>3. hold => at' = back
    BY <1>6 DEF StartAp, Return
  <2> QED BY <1>1, <1>5, <2>1, <2>2, <2>3
<1>7. CASE ApRadio
  BY <1>1, <1>4, <1>5, <1>7 DEF ApRadio, Continue
<1>8. CASE ApUp
  BY <1>1, <1>5, <1>8 DEF ApUp, Return
<1>9. CASE BeginJoin
  BY <1>1, <1>2, <1>5, <1>9 DEF BeginJoin, StaAllowed, BtPaging, Return, Continue
<1>10. CASE JoinCall
  BY <1>1, <1>5, <1>10 DEF JoinCall, StaAllowed, BtPaging, Return, Continue
<1> QED BY <1>3, <1>6, <1>7, <1>8, <1>9, <1>10 DEF MainStep, Section

LEMMA HoldKept ==
    ASSUME Preempt = FALSE
    PROVE  TypeOK /\ RoleInv /\ HoldInv /\ [Next]_vars => HoldInv'
<1> SUFFICES ASSUME TypeOK, RoleInv, HoldInv, [Next]_vars PROVE HoldInv'
  OBVIOUS
<1>1. CASE UNCHANGED vars
  BY <1>1 DEF vars, HoldInv, ApPaused, StaAllowed, BtPaging
<1>2. CASE Environment
  BY <1>2, EnvironmentStep DEF Callback, HoldInv, ApPaused
<1> QED BY <1>1, <1>2, MainStepHold DEF Next

\* SoftAP is down while Bluetooth pages or inquires, when no callback comes
\* inside wifi_poll.
THEOREM ApPausedWhenPolled ==
    ASSUME Preempt = FALSE
    PROVE  Spec => []ApPaused
<1>1. HoldInv => ApPaused
  BY DEF HoldInv
<1> QED BY <1>1, InitRoles, RolesKept, InitHold, HoldKept, PTL DEF Spec

\* A join is asked of the driver only with the printer connected and the radio
\* not held, when no callback comes inside wifi_poll.
THEOREM JoinsWaitForPrinter ==
    ASSUME Preempt = FALSE
    PROVE  Spec => JoinsAfterPrinter
<1>1. TypeOK /\ HoldInv /\ [Next]_vars
        => [w.link # "joining" /\ w'.link = "joining" /\ at = "joinCall"
              => phase = "connected" /\ ~hold]_vars
  BY DEF HoldInv, StaAllowed, BtPaging
<1> QED BY <1>1, InitRoles, RolesKept, InitHold, HoldKept, PTL
        DEF Spec, JoinsAfterPrinter
=============================================================================
