------------------------------ MODULE MC_LfsDir ------------------------------
EXTENDS LfsDir
=============================================================================
