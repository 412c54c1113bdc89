SPECIFICATION FairPaymentsSpec
CONSTANTS
    NULL = NULL
    Orders = {o1, o2}
    Jobs = {j1}
    BatchSize = 2
INVARIANTS
    PaymentsTypeOK
PROPERTIES
    FulfilledOncePaid
    SettledIsFinal
    NotLeftPending
