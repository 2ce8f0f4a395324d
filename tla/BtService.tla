----------------------------- MODULE BtService -----------------------------
(***************************************************************************)
(* What the rest of the firmware sees of the printer link: its phase, which *)
(* bt_is_connected, bt_is_connecting and bt_is_scanning read, and the hold *)
(* it last asked of the WiFi side.  BtLink implements this; WifiRadio lives *)
(* with it.                                                                *)
(***************************************************************************)
VARIABLES phase, hold

btVars == <<phase, hold>>

Phases == {"idle", "scanning", "connecting", "connected"}

Init == phase = "idle" /\ hold = FALSE

\* An inquiry or a page begins, and may fail at once: the radio is held
\* before it does.
Begin ==
    /\ phase' \in Phases \ {"connected"}
    /\ hold' = TRUE

\* A connect request during an inquiry; a channel opens, however late.
GoOn ==
    /\ \/ phase = "scanning" /\ phase' = "connecting"
       \/ phase # "connected" /\ phase' = "connected"
    /\ UNCHANGED hold

\* An attempt, a link or a hold ends.
End ==
    /\ phase' \in {phase, "idle"}
    /\ hold' \in {hold, FALSE}

Next == Begin \/ GoOn \/ End

Spec == Init /\ [][Next]_btVars
=============================================================================
