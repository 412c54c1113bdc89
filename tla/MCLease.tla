------------------------------- MODULE MCLease -------------------------------
EXTENDS LeaseContract, TLC
\* Tabs of one party are interchangeable.
TabSymmetry == Permutations(LandlordSessions) \cup Permutations(TenantSessions)
=============================================================================
