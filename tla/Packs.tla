-------------------------------- MODULE Packs --------------------------------
(***************************************************************************)
(* What a landlord who buys packs of offers is promised, without clocks,   *)
(* quota rows or calls under way: a pack is given once, in full, and what  *)
(* is spent of it is gone.                                                 *)
(***************************************************************************)
EXTENDS Naturals

CONSTANTS
    Payments,   \* what the landlord paid
    PackSize,   \* offers in a pack
    NULL        \* no pack was given

VARIABLES
    given,      \* the payments whose pack was given
    left        \* what is left of the pack of a payment, or NULL

packVars == <<given, left>>

PacksInit ==
    /\ given = {}
    /\ left = [p \in Payments |-> NULL]

Give(p) ==
    /\ p \notin given
    /\ given' = given \cup {p}
    /\ left' = [left EXCEPT ![p] = PackSize]

Spend(p) ==
    /\ p \in given
    /\ left[p] # 0
    /\ left' = [left EXCEPT ![p] = @ - 1]
    /\ UNCHANGED given

PacksNext == \E p \in Payments : Give(p) \/ Spend(p)

PacksSpec == PacksInit /\ [][PacksNext]_packVars

----------------------------------------------------------------------------

\* What follows from the promise alone: there are packs of exactly the payments
\* whose pack was given, and never more is left than was in it.
PacksAreOfPayments ==
    \A p \in Payments :
        IF p \in given THEN left[p] \in 0 .. PackSize ELSE left[p] = NULL
=============================================================================
