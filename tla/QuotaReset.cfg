SPECIFICATION QuotaSpec
SYMMETRY SessionSymmetry
CONSTANTS
    NULL = NULL
    p1 = p1  p2 = p2  p3 = p3  p4 = p4
    Sessions = {s1, s2}
    Payments = {p1, p2, p3, p4}
    ProductOf <- ThreePlansAndPack
    Month = 2
    Year = 3
    PackLife = 2
    PackSize = 1
    Allowance <- Offers
    MaxNow = 4
PROPERTIES
    PaidPlanIsKept
