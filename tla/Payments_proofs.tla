--------------------------- MODULE Payments_proofs ---------------------------
(***************************************************************************)
(* The payments module keeps its promise for any number of orders,         *)
(* reconciliations and repeated callbacks.  Liveness is left to TLC.       *)
(***************************************************************************)
EXTENDS Payments, TLAPS

\* Only the gateway's word makes a payment a success: every report under way,
\* every handler and every reconciliation that speaks of one, is of a paid
\* order.
OnlyPaidConfirmed ==
    /\ \A c \in callbacks : c.success => gateway[c.order] = "paid"
    /\ \A h \in handling : h.success => gateway[h.order] = "paid"
    /\ \A j \in Jobs : confirmed[j] # NULL => gateway[confirmed[j]] = "paid"

\* What was bought is given in the transaction that writes SUCCESS.
SuccessIsFulfilled ==
    \A o \in Orders : fulfilled[o] = 1 <=> payment[o] = "SUCCESS"

PaymentsInv == PaymentsTypeOK /\ OnlyPaidConfirmed /\ SuccessIsFulfilled

----------------------------------------------------------------------------
(* What a settlement and a failure do to the rows.                         *)

\* Settle writes SUCCESS on a PENDING row and fulfils it, or changes nothing.
LEMMA SettleEffect ==
    ASSUME PaymentsInv, NEW o \in Orders, Settle(o)
    PROVE  /\ payment' \in [Orders -> {NULL, "PENDING", "SUCCESS", "FAILED"}]
           /\ createdAt' \in [Orders -> Nat]
           /\ rows' = rows
           /\ fulfilled' \in [Orders -> {0, 1}]
           /\ SuccessIsFulfilled'
           /\ \A p \in Orders :
                  payment[p] \in {"SUCCESS", "FAILED"} => payment'[p] = payment[p]
           /\ \/ fulfilled' = fulfilled
              \/ fulfilled[o] = 0 /\ fulfilled' = [fulfilled EXCEPT ![o] = 1]
<1>1. CASE payment[o] = "PENDING"
  <2>1. /\ payment' = [payment EXCEPT ![o] = "SUCCESS"]
        /\ fulfilled' = [fulfilled EXCEPT ![o] = fulfilled[o] + 1]
        /\ UNCHANGED <<createdAt, rows>>
    BY <1>1 DEF Settle
  <2>2. fulfilled[o] = 0
    BY <1>1 DEF PaymentsInv, PaymentsTypeOK, SuccessIsFulfilled
  <2>3. fulfilled' = [fulfilled EXCEPT ![o] = 1]
    BY <2>1, <2>2
  <2> QED
    BY <1>1, <2>1, <2>2, <2>3
       DEF PaymentsInv, PaymentsTypeOK, SuccessIsFulfilled
<1>2. CASE payment[o] # "PENDING"
  <2>1. UNCHANGED <<payment, createdAt, rows, fulfilled>>
    BY <1>2 DEF Settle, rowVars
  <2> QED
    BY <2>1 DEF PaymentsInv, PaymentsTypeOK, SuccessIsFulfilled
<1> QED
  BY <1>1, <1>2

\* MarkFailed writes FAILED on a PENDING row, or changes nothing.
LEMMA MarkFailedEffect ==
    ASSUME PaymentsInv, NEW o \in Orders, MarkFailed(o)
    PROVE  /\ payment' \in [Orders -> {NULL, "PENDING", "SUCCESS", "FAILED"}]
           /\ createdAt' = createdAt
           /\ rows' = rows
           /\ fulfilled' = fulfilled
           /\ SuccessIsFulfilled'
           /\ \A p \in Orders :
                  payment[p] \in {"SUCCESS", "FAILED"} => payment'[p] = payment[p]
<1>1. CASE payment[o] = "PENDING"
  BY <1>1 DEF MarkFailed, PaymentsInv, PaymentsTypeOK, SuccessIsFulfilled
<1>2. CASE payment[o] # "PENDING"
  <2>1. UNCHANGED <<payment, createdAt, rows, fulfilled>>
    BY <1>2 DEF MarkFailed, rowVars
  <2> QED
    BY <2>1 DEF PaymentsInv, PaymentsTypeOK, SuccessIsFulfilled
<1> QED
  BY <1>1, <1>2

----------------------------------------------------------------------------
(* The invariant.                                                          *)

LEMMA InitPayments == PaymentsInit => PaymentsInv
  BY PaymentsAssumption
     DEF PaymentsInit, PaymentsInv, PaymentsTypeOK, OnlyPaidConfirmed,
         SuccessIsFulfilled

LEMMA StepPayments ==
    ASSUME PaymentsInv, [PaymentsNext]_paymentVars
    PROVE  PaymentsInv'
<1> USE DEF PaymentsInv, PaymentsTypeOK, OnlyPaidConfirmed, SuccessIsFulfilled,
            gatewayVars, rowVars, jobVars
<1>1. ASSUME NEW o \in Orders, RegisterOrder(o)
      PROVE  PaymentsInv'
  BY <1>1, PaymentsAssumption DEF RegisterOrder
<1>2. ASSUME NEW o \in Orders, SaveRow(o)
      PROVE  PaymentsInv'
  BY <1>2, PaymentsAssumption DEF SaveRow
<1>3. ASSUME NEW o \in Orders, AttemptFails(o)
      PROVE  PaymentsInv'
  <2> DEFINE report == [order |-> o, success |-> FALSE]
  <2>1. /\ report \in Callback
        /\ ~report.success
    BY DEF Callback
  <2>2. /\ callbacks' = callbacks \cup {report}
        /\ UNCHANGED <<gateway, payment, createdAt, rows, fulfilled, old,
                      handling, batch, confirmed>>
    BY <1>3 DEF AttemptFails
  <2> HIDE DEF report
  <2> QED
    BY <2>1, <2>2
<1>4. ASSUME NEW o \in Orders, Pay(o)
      PROVE  PaymentsInv'
  <2> DEFINE report == [order |-> o, success |-> TRUE]
  <2>1. /\ report \in Callback
        /\ report.order = o
    BY DEF Callback
  <2>2. /\ callbacks' = callbacks \cup {report}
        /\ gateway' = [gateway EXCEPT ![o] = "paid"]
        /\ UNCHANGED <<payment, createdAt, rows, fulfilled, old, handling,
                      batch, confirmed>>
    BY <1>4 DEF Pay
  <2> HIDE DEF report
  <2>3. \A p \in Orders : gateway[p] = "paid" => gateway'[p] = "paid"
    BY <2>2
  <2>4. PaymentsTypeOK'
    BY <2>1, <2>2
  <2>5. \A c \in callbacks' : c.success => gateway'[c.order] = "paid"
    BY <2>1, <2>2, <2>3 DEF Callback
  <2>6. \A h \in handling' : h.success => gateway'[h.order] = "paid"
    BY <2>2, <2>3 DEF Handler
  <2>7. \A j \in Jobs : confirmed'[j] # NULL => gateway'[confirmed'[j]] = "paid"
    BY <2>2, <2>3
  <2> QED
    BY <2>2, <2>4, <2>5, <2>6, <2>7
<1>5. ASSUME NEW c \in callbacks, ReceiveCallback(c)
      PROVE  PaymentsInv'
  <2> DEFINE handler == [order |-> c.order, success |-> c.success,
                         known |-> payment[c.order] # NULL]
  <2>1. c \in Callback /\ (c.success => gateway[c.order] = "paid")
    OBVIOUS
  <2>2. handler.order = c.order /\ handler.success = c.success
    OBVIOUS
  <2>3. handler \in Handler
    BY <2>1 DEF Callback, Handler
  <2>4. /\ handling' = handling \cup {handler}
        /\ UNCHANGED <<gateway, callbacks, payment, createdAt, rows, fulfilled,
                      old, batch, confirmed>>
    BY <1>5 DEF ReceiveCallback
  <2> HIDE DEF handler
  <2> QED
    BY <2>1, <2>2, <2>3, <2>4
<1>6. ASSUME NEW h \in handling, HandleCallback(h)
      PROVE  PaymentsInv'
  <2>1. h.order \in Orders
    BY DEF Handler
  <2>2. CASE h.success /\ h.known
    <3>1. Settle(h.order)
      BY <1>6, <2>2 DEF HandleCallback
    <3> QED
      BY <1>6, <2>1, <3>1, SettleEffect DEF HandleCallback
  <2>3. CASE ~(h.success /\ h.known)
    <3>1. MarkFailed(h.order)
      BY <1>6, <2>3 DEF HandleCallback
    <3> QED
      BY <1>6, <2>1, <3>1, MarkFailedEffect DEF HandleCallback
  <2> QED
    BY <2>2, <2>3
<1>7. CASE TimePasses
  BY <1>7 DEF TimePasses
<1>8. ASSUME NEW j \in Jobs, StartReconciliation(j)
      PROVE  PaymentsInv'
  BY <1>8 DEF StartReconciliation
<1>9. ASSUME NEW j \in Jobs, ReconciliationDies(j)
      PROVE  PaymentsInv'
  BY <1>9 DEF ReconciliationDies
<1>10. ASSUME NEW j \in Jobs, NEW o \in Orders, CheckNegative(j, o)
       PROVE  PaymentsInv'
  BY <1>10 DEF CheckNegative
<1>11. ASSUME NEW j \in Jobs, NEW o \in Orders, CheckPositive(j, o)
       PROVE  PaymentsInv'
  BY <1>11 DEF CheckPositive
<1>12. ASSUME NEW j \in Jobs, NEW o \in Orders, SettleConfirmed(j, o)
       PROVE  PaymentsInv'
  BY <1>12, SettleEffect DEF SettleConfirmed
<1>13. CASE UNCHANGED paymentVars
  BY <1>13 DEF paymentVars
<1> QED
  BY <1>1, <1>2, <1>3, <1>4, <1>5, <1>6, <1>7, <1>8, <1>9, <1>10, <1>11, <1>12,
     <1>13 DEF PaymentsNext

LEMMA PaymentsInvariant == PaymentsSpec => []PaymentsInv
  BY InitPayments, StepPayments, PTL DEF PaymentsSpec

\* Rows, reports and reconciliations keep their types; in particular no
\* purchase is given twice.
THEOREM PaymentTypes == PaymentsSpec => []PaymentsTypeOK
<1>1. PaymentsInv => PaymentsTypeOK
  BY DEF PaymentsInv
<1> QED
  BY PaymentsInvariant, <1>1, PTL

----------------------------------------------------------------------------
(* Settled payments.                                                       *)

\* A row that is SUCCESS or FAILED stays so, for any interleaving of repeated
\* callbacks and reconciliations.
THEOREM SettledStays == PaymentsSpec => SettledIsFinal
<1> DEFINE Final == \A o \in Orders :
               payment[o] \in {"SUCCESS", "FAILED"} => payment'[o] = payment[o]
<1>1. PaymentsInv /\ [PaymentsNext]_paymentVars => [Final]_paymentVars
  <2> SUFFICES ASSUME PaymentsInv, PaymentsNext
               PROVE  Final
    OBVIOUS
  <2>1. ASSUME NEW o \in Orders, SaveRow(o)
        PROVE  Final
    BY <2>1, PaymentsAssumption DEF SaveRow, PaymentsInv, PaymentsTypeOK
  <2>2. ASSUME NEW h \in handling, HandleCallback(h)
        PROVE  Final
    <3>1. h.order \in Orders
      BY DEF PaymentsInv, PaymentsTypeOK, Handler
    <3>2. Settle(h.order) \/ MarkFailed(h.order)
      BY <2>2 DEF HandleCallback
    <3> QED
      BY <3>1, <3>2, SettleEffect, MarkFailedEffect
  <2>3. ASSUME NEW j \in Jobs, NEW o \in Orders, SettleConfirmed(j, o)
        PROVE  Final
    BY <2>3, SettleEffect DEF SettleConfirmed
  <2>4. CASE UNCHANGED payment
    BY <2>4
  <2> QED
    BY <2>1, <2>2, <2>3, <2>4
       DEF PaymentsNext, RegisterOrder, AttemptFails, Pay, ReceiveCallback,
           TimePasses, StartReconciliation, ReconciliationDies, CheckNegative,
           CheckPositive, rowVars
<1> QED
  BY PaymentsInvariant, <1>1, PTL DEF PaymentsSpec, SettledIsFinal

----------------------------------------------------------------------------
(* Refinement.                                                             *)

PaidOrders == {o \in Orders : gateway[o] = "paid"}

\* Settling a paid order fulfils it, or is a stutter.
LEMMA SettleRefines ==
    ASSUME PaymentsInv, NEW o \in Orders, gateway[o] = "paid", Settle(o),
           gateway' = gateway
    PROVE  Promise!FulfilmentNext \/ (PaidOrders' = PaidOrders /\ fulfilled' = fulfilled)
<1>1. PaidOrders' = PaidOrders
  BY DEF PaidOrders
<1>2. CASE fulfilled' = fulfilled
  BY <1>1, <1>2
<1>3. CASE fulfilled[o] = 0 /\ fulfilled' = [fulfilled EXCEPT ![o] = 1]
  <2>1. Promise!Fulfil(o)
    BY <1>1, <1>3 DEF Promise!Fulfil, PaidOrders
  <2> QED
    BY <2>1 DEF Promise!FulfilmentNext
<1> QED
  BY <1>2, <1>3, SettleEffect

\* Every behaviour of the payments module is one of the abstract promise: an
\* order is fulfilled at most once, and only after its money was taken.
THEOREM PaymentsRefine == PaymentsSpec => FulfilledOncePaid
<1> DEFINE Stutter == PaidOrders' = PaidOrders /\ fulfilled' = fulfilled
<1>1. PaymentsInit => Promise!FulfilmentInit
  BY DEF PaymentsInit, Promise!FulfilmentInit
<1>2. PaymentsInv /\ [PaymentsNext]_paymentVars =>
          [Promise!FulfilmentNext]_<<PaidOrders, fulfilled>>
  <2> SUFFICES ASSUME PaymentsInv, [PaymentsNext]_paymentVars
               PROVE  Promise!FulfilmentNext \/ Stutter
    OBVIOUS
  <2>1. ASSUME NEW o \in Orders, RegisterOrder(o)
        PROVE  Stutter
    BY <2>1 DEF RegisterOrder, rowVars, PaidOrders, PaymentsInv, PaymentsTypeOK
  <2>2. ASSUME NEW o \in Orders, Pay(o)
        PROVE  Promise!FulfilmentNext
    <3>1. PaidOrders' = PaidOrders \cup {o} /\ o \notin PaidOrders
      BY <2>2 DEF Pay, PaidOrders, PaymentsInv, PaymentsTypeOK
    <3>2. fulfilled' = fulfilled
      BY <2>2 DEF Pay, rowVars
    <3>3. Promise!TakeMoney(o)
      BY <3>1, <3>2 DEF Promise!TakeMoney, PaidOrders
    <3> QED
      BY <3>3 DEF Promise!FulfilmentNext
  <2>3. ASSUME NEW h \in handling, HandleCallback(h)
        PROVE  Promise!FulfilmentNext \/ Stutter
    <3>1. h.order \in Orders /\ gateway' = gateway
      BY <2>3 DEF HandleCallback, gatewayVars, PaymentsInv, PaymentsTypeOK, Handler
    <3>2. CASE h.success /\ h.known
      <4>1. gateway[h.order] = "paid" /\ Settle(h.order)
        BY <2>3, <3>2 DEF HandleCallback, PaymentsInv, OnlyPaidConfirmed
      <4> QED
        BY <3>1, <4>1, SettleRefines
    <3>3. CASE ~(h.success /\ h.known)
      <4>1. MarkFailed(h.order)
        BY <2>3, <3>3 DEF HandleCallback
      <4> QED
        BY <3>1, <4>1, MarkFailedEffect DEF PaidOrders
    <3> QED
      BY <3>2, <3>3
  <2>4. ASSUME NEW j \in Jobs, NEW o \in Orders, SettleConfirmed(j, o)
        PROVE  Promise!FulfilmentNext \/ Stutter
    <3>1. gateway[o] = "paid" /\ gateway' = gateway /\ Settle(o)
      BY <2>4, PaymentsAssumption
         DEF SettleConfirmed, gatewayVars, PaymentsInv, OnlyPaidConfirmed
    <3> QED
      BY <3>1, SettleRefines
  <2>5. CASE UNCHANGED <<gateway, fulfilled>>
    BY <2>5 DEF PaidOrders
  <2> QED
    BY <2>1, <2>2, <2>3, <2>4, <2>5
       DEF PaymentsNext, SaveRow, AttemptFails, ReceiveCallback, TimePasses,
           StartReconciliation, ReconciliationDies, CheckNegative, CheckPositive,
           rowVars, gatewayVars, paymentVars
<1>3. PaidOrders = {o \in Orders : gateway[o] = "paid"}
  BY DEF PaidOrders
<1> QED
  BY PaymentsInvariant, <1>1, <1>2, PTL
     DEF PaymentsSpec, FulfilledOncePaid, Promise!FulfilmentSpec, PaidOrders
=============================================================================
