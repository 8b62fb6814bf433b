--------------------------- MODULE MCChargerKeys ---------------------------
EXTENDS ChargerKeys
=============================================================================
