------------------------------- MODULE MCServices -------------------------------
EXTENDS Services, TLC
\* A place, a type, or everything.
SearchedQueries == {{"place"}, {"type"}, {"furnishing"}, Criteria}
\* A listing that fits, and one elsewhere that says it word for word.
SearchedFacts == {Criteria, (Criteria \ {"place"}) \cup {"phrase"}}

\* Tabs of one party are interchangeable, and so are the callers of a service.
CallerSymmetry ==
    Permutations(LandlordSessions) \cup Permutations(TenantSessions)
        \cup Permutations(Callers)
=============================================================================
