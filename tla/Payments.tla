------------------------------ MODULE Payments ------------------------------
(***************************************************************************)
(* Checkout, callbacks and hourly reconciliation of payments               *)
(* (PaymentsService and the Paymob gateway behind it).                     *)
(*                                                                         *)
(* The gateway is external: it registers orders, takes money in one of     *)
(* several attempts, and reports each finished attempt with a callback     *)
(* that may be lost, delayed, repeated or overtaken by another.  Amounts   *)
(* are left out: the row and the order carry the same product price.  The  *)
(* effect of a settlement on the plan, the grants or the boosts commits    *)
(* with the row's status and is counted in `fulfilled`.                    *)
(***************************************************************************)
EXTENDS Naturals, FiniteSets

CONSTANTS
    NULL,        \* no row, no order
    Orders,      \* orders registered with the gateway
    Jobs,        \* processes that run the hourly reconciliation
    BatchSize    \* rows one reconciliation looks at (100 in the code)

ASSUME PaymentsAssumption ==
    /\ NULL \notin Orders
    /\ NULL \notin {"PENDING", "SUCCESS", "FAILED"}
    /\ BatchSize \in Nat

VARIABLES
    gateway,     \* what the gateway knows of each order
    callbacks,   \* what the gateway has reported
    payment,     \* status of each payment_transaction row, or NULL
    createdAt,   \* when each row was written: its rank, or 0
    rows,        \* the number of rows written
    old,         \* rows up to this rank are older than 30 minutes
    handling,    \* delivered callbacks that looked for their row and go on
    batch,       \* rows each reconciliation has still to check
    confirmed,   \* the row each reconciliation knows to be paid, or NULL
    fulfilled    \* how often each order's purchase was given

gatewayVars == <<gateway, callbacks>>
rowVars == <<payment, createdAt, rows, fulfilled>>
jobVars == <<batch, confirmed>>
paymentVars == <<gatewayVars, rowVars, old, handling, jobVars>>

Callback == [order: Orders, success: BOOLEAN]
Handler == [order: Orders, success: BOOLEAN, known: BOOLEAN]

PaymentsTypeOK ==
    /\ gateway \in [Orders -> {"none", "open", "paid"}]
    /\ callbacks \subseteq Callback
    /\ payment \in [Orders -> {NULL, "PENDING", "SUCCESS", "FAILED"}]
    /\ createdAt \in [Orders -> Nat]
    /\ rows \in Nat
    /\ old \in 0 .. rows
    /\ handling \subseteq Handler
    /\ batch \in [Jobs -> SUBSET Orders]
    /\ confirmed \in [Jobs -> Orders \cup {NULL}]
    /\ fulfilled \in [Orders -> {0, 1}]

PaymentsInit ==
    /\ gateway = [o \in Orders |-> "none"]
    /\ callbacks = {}
    /\ payment = [o \in Orders |-> NULL]
    /\ createdAt = [o \in Orders |-> 0]
    /\ rows = 0
    /\ old = 0
    /\ handling = {}
    /\ batch = [j \in Jobs |-> {}]
    /\ confirmed = [j \in Jobs |-> NULL]
    /\ fulfilled = [o \in Orders |-> 0]

----------------------------------------------------------------------------
(* checkout registers the order and then writes the row; a crash between   *)
(* the two leaves an order without a row.  A wallet is charged as soon as  *)
(* the order is registered.                                                *)

RegisterOrder(o) ==
    /\ gateway[o] = "none"
    /\ gateway' = [gateway EXCEPT ![o] = "open"]
    /\ UNCHANGED <<callbacks, rowVars, old, handling, jobVars>>

\* Mutant: a checkout that is retried writes the row again.
SaveRowAgain(o) ==
    /\ gateway[o] # "none"
    /\ payment' = [payment EXCEPT ![o] = "PENDING"]
    /\ createdAt' = [createdAt EXCEPT ![o] = rows + 1]
    /\ rows' = rows + 1
    /\ UNCHANGED <<gatewayVars, fulfilled, old, handling, jobVars>>

SaveRow(o) ==
    /\ gateway[o] # "none"
    /\ payment[o] = NULL
    /\ payment' = [payment EXCEPT ![o] = "PENDING"]
    /\ createdAt' = [createdAt EXCEPT ![o] = rows + 1]
    /\ rows' = rows + 1
    /\ UNCHANGED <<gatewayVars, fulfilled, old, handling, jobVars>>

----------------------------------------------------------------------------
(* The customer and time.  A report is delivered any number of times: one  *)
(* that is lost is not delivered at all.                                   *)

AttemptFails(o) ==
    /\ gateway[o] = "open"
    /\ callbacks' = callbacks \cup {[order |-> o, success |-> FALSE]}
    /\ UNCHANGED <<gateway, rowVars, old, handling, jobVars>>

Pay(o) ==
    /\ gateway[o] = "open"
    /\ gateway' = [gateway EXCEPT ![o] = "paid"]
    /\ callbacks' = callbacks \cup {[order |-> o, success |-> TRUE]}
    /\ UNCHANGED <<rowVars, old, handling, jobVars>>

TimePasses ==
    /\ old < rows
    /\ old' = old + 1
    /\ UNCHANGED <<gatewayVars, rowVars, handling, jobVars>>

----------------------------------------------------------------------------
(* Settlement: one transaction, which claims the PENDING row and gives     *)
(* what was bought, or finds it claimed and does nothing.                  *)

\* Mutant: the status of the row is not claimed.
SettleUnclaimed(o) ==
    IF payment[o] # NULL
    THEN /\ payment' = [payment EXCEPT ![o] = "SUCCESS"]
         /\ fulfilled' = [fulfilled EXCEPT ![o] = @ + 1]
         /\ UNCHANGED <<createdAt, rows>>
    ELSE UNCHANGED rowVars

Settle(o) ==
    IF payment[o] = "PENDING"
    THEN /\ payment' = [payment EXCEPT ![o] = "SUCCESS"]
         /\ fulfilled' = [fulfilled EXCEPT ![o] = @ + 1]
         /\ UNCHANGED <<createdAt, rows>>
    ELSE UNCHANGED rowVars

\* Mutant: the failure is written whatever the status is.
MarkAnyFailed(o) ==
    IF payment[o] # NULL
    THEN /\ payment' = [payment EXCEPT ![o] = "FAILED"]
         /\ UNCHANGED <<createdAt, rows, fulfilled>>
    ELSE UNCHANGED rowVars

MarkFailed(o) ==
    IF payment[o] = "PENDING"
    THEN /\ payment' = [payment EXCEPT ![o] = "FAILED"]
         /\ UNCHANGED <<createdAt, rows, fulfilled>>
    ELSE UNCHANGED rowVars

\* A callback is delivered, perhaps again, and looks for its row.
ReceiveCallback(c) ==
    /\ handling' = handling \cup
           {[order |-> c.order, success |-> c.success,
             known |-> payment[c.order] # NULL]}
    /\ UNCHANGED <<gatewayVars, rowVars, old, jobVars>>

\* A success settles the row it found.  Orders carry no metadata, so a
\* success that found no row has neither user nor payment type and takes the
\* branch of a final failure.
HandleCallback(h) ==
    /\ IF h.success /\ h.known THEN Settle(h.order) ELSE MarkFailed(h.order)
    /\ handling' = handling \ {h}
    /\ UNCHANGED <<gatewayVars, old, jobVars>>

----------------------------------------------------------------------------
(* Reconciliation: the oldest PENDING rows of more than 30 minutes, one    *)
(* after the other.                                                        *)

\* Mutant: the rows of the last 30 minutes.
DueYoung(o) == payment[o] = "PENDING" /\ createdAt[o] > old

Due(o) == payment[o] = "PENDING" /\ createdAt[o] <= old

Older(p, o) == createdAt[p] < createdAt[o]

StartReconciliation(j) ==
    /\ batch[j] = {}
    /\ batch' = [batch EXCEPT ![j] =
           {o \in Orders :
               /\ Due(o)
               /\ Cardinality({p \in Orders : Due(p) /\ Older(p, o)}) < BatchSize}]
    /\ UNCHANGED <<gatewayVars, rowVars, old, handling, confirmed>>

IsNext(j, o) ==
    /\ confirmed[j] = NULL
    /\ o \in batch[j]
    /\ \A p \in batch[j] : ~Older(p, o)

\* The gateway does not know of a payment, or does not answer.
CheckNegative(j, o) ==
    /\ IsNext(j, o)
    /\ batch' = [batch EXCEPT ![j] = @ \ {o}]
    /\ UNCHANGED <<gatewayVars, rowVars, old, handling, confirmed>>

CheckPositive(j, o) ==
    /\ IsNext(j, o)
    /\ gateway[o] = "paid"
    /\ confirmed' = [confirmed EXCEPT ![j] = o]
    /\ UNCHANGED <<gatewayVars, rowVars, old, handling, batch>>

SettleConfirmed(j, o) ==
    /\ confirmed[j] = o
    /\ Settle(o)
    /\ batch' = [batch EXCEPT ![j] = @ \ {o}]
    /\ confirmed' = [confirmed EXCEPT ![j] = NULL]
    /\ UNCHANGED <<gatewayVars, old, handling>>

\* An error or a restart ends the whole run.
ReconciliationDies(j) ==
    /\ batch[j] # {}
    /\ batch' = [batch EXCEPT ![j] = {}]
    /\ confirmed' = [confirmed EXCEPT ![j] = NULL]
    /\ UNCHANGED <<gatewayVars, rowVars, old, handling>>

----------------------------------------------------------------------------

PaymentsNext ==
    \/ \E o \in Orders :
           RegisterOrder(o) \/ SaveRow(o) \/ AttemptFails(o) \/ Pay(o)
    \/ \E c \in callbacks : ReceiveCallback(c)
    \/ \E h \in handling : HandleCallback(h)
    \/ TimePasses
    \/ \E j \in Jobs : StartReconciliation(j) \/ ReconciliationDies(j)
    \/ \E j \in Jobs, o \in Orders :
           CheckNegative(j, o) \/ CheckPositive(j, o) \/ SettleConfirmed(j, o)

PaymentsSpec == PaymentsInit /\ [][PaymentsNext]_paymentVars

\* Time passes; the job is started every hour, and although any of its runs
\* may die and any of its look-ups fail, not all of them do.  Nothing is
\* assumed of customers, callbacks and handlers.
PaymentsFairness ==
    /\ WF_paymentVars(TimePasses)
    /\ \A j \in Jobs :
           /\ WF_paymentVars(StartReconciliation(j))
           /\ \A o \in Orders :
                  /\ SF_paymentVars(CheckNegative(j, o))
                  /\ SF_paymentVars(CheckPositive(j, o))
                  /\ SF_paymentVars(SettleConfirmed(j, o))

FairPaymentsSpec == PaymentsSpec /\ PaymentsFairness

----------------------------------------------------------------------------
(* Properties.                                                             *)

Promise == INSTANCE Fulfilment
               WITH paid <- {o \in Orders : gateway[o] = "paid"}

\* However callbacks are repeated and reordered and however they race the
\* reconciliation, what was bought is given at most once, and only for money
\* the gateway took.
FulfilledOncePaid == Promise!FulfilmentSpec

\* A settled payment stays as it is: a failure reported late, of an earlier
\* attempt, does not take a success back, nor does a late success revive a
\* payment shown as failed.
SettledIsFinal ==
    [][\A o \in Orders :
          payment[o] \in {"SUCCESS", "FAILED"} => payment'[o] = payment[o]
      ]_paymentVars

\* "Fetches all PENDING transactions older than 30 minutes" (README of the
\* module): a paid order does not stay PENDING, even if all its callbacks
\* are lost.
NotLeftPending ==
    \A o \in Orders :
        payment[o] = "PENDING" /\ gateway[o] = "paid" ~> payment[o] # "PENDING"

\* "To prevent users from paying without receiving their quota" (README of
\* the module): a paid order whose row was written is fulfilled.
PaidIsFulfilled ==
    \A o \in Orders :
        payment[o] # NULL /\ gateway[o] = "paid" ~> fulfilled[o] = 1
=============================================================================
