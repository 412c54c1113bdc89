----------------------------- MODULE Fulfilment -----------------------------
(***************************************************************************)
(* What the payments module promises, without rows, callbacks or jobs: an  *)
(* order is fulfilled (its plan, grant or boost is given) only after the   *)
(* customer paid for it, and at most once.                                 *)
(***************************************************************************)
EXTENDS Naturals

CONSTANT Orders   \* orders registered with the payment gateway

VARIABLES
    paid,         \* the orders whose money was taken
    fulfilled     \* how often each order was fulfilled

FulfilmentInit ==
    /\ paid = {}
    /\ fulfilled = [o \in Orders |-> 0]

TakeMoney(o) ==
    /\ o \notin paid
    /\ paid' = paid \cup {o}
    /\ UNCHANGED fulfilled

Fulfil(o) ==
    /\ o \in paid
    /\ fulfilled[o] = 0
    /\ fulfilled' = [fulfilled EXCEPT ![o] = 1]
    /\ UNCHANGED paid

FulfilmentNext == \E o \in Orders : TakeMoney(o) \/ Fulfil(o)

FulfilmentSpec == FulfilmentInit /\ [][FulfilmentNext]_<<paid, fulfilled>>
=============================================================================
