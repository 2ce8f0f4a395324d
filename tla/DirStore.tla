------------------------------ MODULE DirStore ------------------------------
(***************************************************************************)
(* What a littlefs directory promises to the firmware.  A change that was  *)
(* asked for happens as a whole or not at all; only a power loss ends it   *)
(* without its effect: it has happened when the call returns, and stays.   *)
(* A directory that exists is never formatted away.                        *)
(***************************************************************************)

CONSTANTS Names, Values, Absent

VARIABLES
    dir,      \* [Names -> Values \cup {Absent}], or Absent: no file system
    asked,    \* the change in progress, a partial function on Names
    up        \* does the program run

NoDir == Absent
NoChange == << >>
Changes == UNION { [S -> Values \cup {0, Absent}] : S \in (SUBSET Names) \ {{}} }

Init == dir = NoDir /\ asked = NoChange /\ up = FALSE

PowerOn == ~up /\ up' = TRUE /\ UNCHANGED <<dir, asked>>

\* While the file system is mounted, before any call.
Format == dir = NoDir /\ dir' = [n \in Names |-> Absent] /\ UNCHANGED <<asked, up>>

Ask == /\ up /\ dir # NoDir /\ asked = NoChange
       /\ asked' \in Changes
       /\ UNCHANGED <<dir, up>>

Changed == [n \in Names |-> IF n \in DOMAIN asked THEN asked[n] ELSE dir[n]]

Make == /\ up /\ asked \in Changes
        /\ dir' = Changed
        /\ asked' \in {asked, NoChange}
        /\ UNCHANGED up

Return == /\ up /\ asked \in Changes /\ dir = Changed
          /\ asked' = NoChange
          /\ UNCHANGED <<dir, up>>

PowerLoss == up /\ up' = FALSE /\ asked' = NoChange /\ UNCHANGED dir

Next == PowerOn \/ Format \/ Ask \/ Make \/ Return \/ PowerLoss

Spec == Init /\ [][Next]_<<dir, asked, up>>
=============================================================================
