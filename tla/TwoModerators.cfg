SPECIFICATION MarketSpec
SYMMETRY RowSymmetry
CONSTANTS
    NULL = NULL
    t1 = t1  tabA = tabA  tabB = tabB  tabC = tabC  tabD = tabD
    o1 = o1  o2 = o2  p1 = p1  p2 = p2
    Users = {t1, o1, o2, a1, a2}
    Admins = {a1, a2}
    Sessions = {t1, o1, o2, a1, a2}
    UserOf <- OwnSession
    Requests = {r1}
    TenantOf <- RequestsOfT1
    Properties = {p1, p2}
    OwnerOf <- ByTwoLandlords
    OwnerOffers = {f1, f2}
    TenantOffers = {}
    Connections = {c1, c2}
    Prices = {}
INVARIANTS
    OneAgreementPerRequest
