SPECIFICATION MarketSpec
SYMMETRY TabSymmetry
CONSTANTS
    NULL = NULL
    t1 = t1  tabA = tabA  tabB = tabB  tabC = tabC  tabD = tabD
    o1 = o1  o2 = o2  p1 = p1  p2 = p2
    Users = {t1, o1, a1}
    Admins = {a1}
    Sessions = {tabA, tabB, tabC, tabD, a1}
    UserOf <- WithTwoTabs
    Requests = {r1}
    TenantOf <- RequestsOfT1
    Properties = {p1}
    OwnerOf <- ByOneLandlord
    OwnerOffers = {f1, f2}
    TenantOffers = {}
    Connections = {c1, c2}
    Prices = {}
INVARIANTS
    SettledRequestsOffMarket
PROPERTIES
    OnlyCallsUnderWayOutliveTheDeal
    DealsAreKept
    PitchesAreKept
