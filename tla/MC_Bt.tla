------------------------------- MODULE MC_Bt -------------------------------
EXTENDS BtLink
CONSTANTS p1, p2
=============================================================================
