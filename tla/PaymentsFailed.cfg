SPECIFICATION FairPaymentsSpec
CONSTANTS
    NULL = NULL
    Orders = {o1}
    Jobs = {j1}
    BatchSize = 1
PROPERTIES
    PaidIsFulfilled
