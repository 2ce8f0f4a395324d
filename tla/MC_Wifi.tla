------------------------------ MODULE MC_Wifi ------------------------------
EXTENDS WifiRadio
=============================================================================
