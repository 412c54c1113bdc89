------------------------------- MODULE MCUpkeep -------------------------------
EXTENDS Upkeep, MCServices
=============================================================================
