SPECIFICATION MarketSpec
SYMMETRY ListingSymmetry
CONSTANTS
    NULL = NULL
    t1 = t1  tabA = tabA  tabB = tabB  tabC = tabC  tabD = tabD
    o1 = o1  o2 = o2  p1 = p1  p2 = p2
    Users = {t1, o1, a1}
    Admins = {a1}
    Sessions = {t1, o1, a1}
    UserOf <- OwnSession
    Requests = {r1}
    TenantOf <- RequestsOfT1
    Properties = {p1, p2}
    OwnerOf <- ByOneLandlord
    OwnerOffers = {f1}
    TenantOffers = {g1}
    Connections = {c1, c2}
    Prices = {low, high}
INVARIANTS
    MarketTypeOK
PROPERTIES
    BargainsAreKept
