------------------------------ MODULE MC_Print ------------------------------
(* Two HTTP jobs, of one and of three packets; with a USER button, the second is its test frame. *)
(* Where those jobs land on the page, JobLayout, is evaluated over small pages and labels.              *)
EXTENDS PrintChannel, JobLayout

CONSTANTS j1, j2

MCSize == [j \in Jobs |-> IF j = j1 THEN 1 ELSE 3]

Moves == -7..7

\* Labels smaller, as large and larger than the page, moved off either edge of it.
ASSUME LayoutAssumption ==
    \A page \in 1..6, src \in 1..7, d, adj \in Moves :
        InsidePage(page, src, d, adj) /\ InPlace(page, src, d, adj) /\ NothingLost(page, src, d, adj)

\* The safe rectangle, from corners on and off the label.
ASSUME SafeAssumption ==
    \A dots \in 4..7, x0, x1 \in Moves : SafeInside(dots, x0, x1)
=============================================================================
