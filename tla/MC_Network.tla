----------------------------- MODULE MC_Network -----------------------------
EXTENDS Network

CONSTANTS a, b, c
=============================================================================
