------------------------------ MODULE MCMarket ------------------------------
EXTENDS Marketplace, TLC
\* Small instances of the marketplace.

CONSTANTS t1, tabA, tabB, tabC, tabD, o1, o2, p1, p2

\* One session per account: a session is named after its account.
OwnSession == [s \in Sessions |-> s]
\* The tenant t1 and the landlord o1 have two tabs open each.
WithTwoTabs == [s \in Sessions |-> CASE s \in {tabA, tabB} -> t1
                                     [] s \in {tabC, tabD} -> o1
                                     [] OTHER -> s]
RequestsOfT1 == [r \in Requests |-> t1]
ByOneLandlord == [p \in Properties |-> o1]
ByTwoLandlords == [p \in Properties |-> IF p = p1 THEN o1 ELSE o2]

\* Row identifiers are interchangeable: the code never compares them.
RowSymmetry == Permutations(OwnerOffers) \cup Permutations(TenantOffers)
                   \cup Permutations(Connections)
\* So are prices: they are only compared for equality.
PriceSymmetry == RowSymmetry \cup Permutations(Prices)
\* So are the listings of one landlord.
ListingSymmetry == PriceSymmetry \cup Permutations(Properties)
\* So are the tabs of an account.
TabSymmetry == RowSymmetry \cup Permutations(Properties)
                   \cup Permutations({tabA, tabB}) \cup Permutations({tabC, tabD})
=============================================================================
