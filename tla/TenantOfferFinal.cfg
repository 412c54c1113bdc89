SPECIFICATION MarketSpec
SYMMETRY RowSymmetry
CONSTANTS
    NULL = NULL
    t1 = t1  tabA = tabA  tabB = tabB  tabC = tabC  tabD = tabD
    o1 = o1  o2 = o2  p1 = p1  p2 = p2
    Users = {t1, o1, a1}
    Admins = {a1}
    Sessions = {t1, o1, a1}
    UserOf <- OwnSession
    Requests = {}
    TenantOf <- RequestsOfT1
    Properties = {p1}
    OwnerOf <- ByTwoLandlords
    OwnerOffers = {}
    TenantOffers = {g1, g2}
    Connections = {c1, c2}
    Prices = {1}
PROPERTIES
    AcceptedTenantOfferIsFinal
