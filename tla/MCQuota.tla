------------------------------- MODULE MCQuota -------------------------------
EXTENDS Quota, TLC
\* A small instance of the quota row.

CONSTANTS p1, p2, p3, p4

Buys(plan, billing) ==
    [kind |-> "SUBSCRIPTION", plan |-> plan, billing |-> billing]

\* p1 and p2 renew each other, p3 upgrades them and they downgrade it.
ThreePlansAndPack ==
    p1 :> Buys("OWNER_PLUS", "YEARLY") @@ p2 :> Buys("OWNER_PLUS", "MONTHLY")
        @@ p3 :> Buys("PREMIUM", "MONTHLY") @@ p4 :> [kind |-> "ENTITLEMENT"]

Offers == [plan \in Plan |-> IF plan = "PREMIUM" THEN 1 ELSE 0]

\* Nothing tells two sessions apart.
SessionSymmetry == Permutations(Sessions)
=============================================================================
