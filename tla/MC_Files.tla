------------------------------ MODULE MC_Files ------------------------------
EXTENDS HttpFiles, TLC

CONSTANTS a, b, c, page

\* Clients differ in nothing.
Peers == Permutations(Clients)
=============================================================================
