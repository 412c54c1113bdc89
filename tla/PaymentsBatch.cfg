SPECIFICATION FairPaymentsSpec
CONSTANTS
    NULL = NULL
    Orders = {o1, o2}
    Jobs = {j1}
    BatchSize = 1
PROPERTIES
    NotLeftPending
