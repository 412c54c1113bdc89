------------------------------ MODULE Allowances ------------------------------
(***************************************************************************)
(* The commercial configuration (CommercialConfigService) and the counters *)
(* of landlords that follow from it.                                       *)
(*                                                                         *)
(* One plan, one counter (offers stand for AI uses and boost credits too)  *)
(* and one landlord, who stays on the plan (Quota has the changes).  An    *)
(* edit reads the old allowance, then rewrites every counter in a          *)
(* transaction whose first write locks the row of the plan.  A checkout    *)
(* keeps the allowance it saw, and its settlement gives that.              *)
(***************************************************************************)
EXTENDS Handlers, FiniteSetsExt

CONSTANT Amounts   \* allowances that administrators enter

ASSUME AllowancesAssumption == Amounts \in SUBSET Nat \ {{}}

VARIABLES
    allowance,   \* planConfiguration.offersPerPeriod, or its default
    onSale,      \* productConfiguration.enabled
    sold,        \* the allowances in the snapshots of checkouts
    left,        \* userQuota.freeOffersLeft
    planCall,    \* handlers under way
    highest         \* history: the highest allowance there ever was

allowanceVars == <<allowance, onSale, sold, left, planCall, highest>>

PlanCall ==
    [op: {"edit"}, previous: Amounts, next: Amounts]
        \cup [op: {"rewrite"}, previous: Amounts, next: Amounts, seen: Nat]
        \cup [op: {"reset"}, amount: Amounts]

ASSUME PlanCallAssumption == NULL \notin PlanCall

AllowancesTypeOK ==
    /\ allowance \in Amounts
    /\ onSale \in BOOLEAN
    /\ sold \subseteq Amounts
    /\ left \in Nat
    /\ planCall \in [Callers -> PlanCall \cup {NULL}]
    /\ highest \in Amounts

AllowancesInit ==
    /\ allowance \in Amounts
    /\ onSale = TRUE
    /\ sold = {}
    /\ left = allowance
    /\ planCall = NobodyWaits
    /\ highest = allowance

----------------------------------------------------------------------------

PlanOp(c, op) == planCall[c] # NULL /\ planCall[c].op = op

AskUpdatePlan(c) ==
    /\ \E next \in Amounts :
           Waits(planCall, c, [op |-> "edit", previous |-> allowance, next |-> next])
    /\ UNCHANGED <<allowance, onSale, sold, left, highest>>

\* The row of the plan is written, and locked; the counters are read.
BeginRewrite(c) ==
    /\ PlanOp(c, "edit")
    /\ \A d \in Callers : ~PlanOp(d, "rewrite")
    /\ planCall' = [planCall EXCEPT ![c] =
           [op |-> "rewrite", previous |-> @.previous, next |-> @.next, seen |-> left]]
    /\ UNCHANGED <<allowance, onSale, sold, left, highest>>

Minus(a, b) == IF a >= b THEN a - b ELSE 0

\* Mutant: what is left is moved by the difference of the allowances.
Moved(previous, next, seen) == Minus(next + seen, previous)

\* What was used stays used.
Rewritten(previous, next, seen) == Minus(next, Minus(previous, seen))

\* The counter is written and the transaction commits.
UpdatePlan(c) ==
    /\ PlanOp(c, "rewrite")
    /\ left' = Rewritten(planCall[c].previous, planCall[c].next, planCall[c].seen)
    /\ allowance' = planCall[c].next
    /\ highest' = Max({highest, allowance'})
    /\ Ends(planCall, c)
    /\ UNCHANGED <<onSale, sold>>

UpdateProduct ==
    /\ onSale' = ~onSale
    /\ UNCHANGED <<allowance, sold, left, planCall, highest>>

CheckoutSnapshot ==
    /\ onSale
    /\ sold' = sold \cup {allowance}
    /\ UNCHANGED <<allowance, onSale, left, planCall, highest>>

\* A plan that was bought begins.
GiveSnapshot ==
    /\ \E amount \in sold : left' = amount
    /\ UNCHANGED <<allowance, onSale, sold, planCall, highest>>

\* A month is over: the allowance is read, then written into the counter.
ReadAllowance(c) ==
    /\ Waits(planCall, c, [op |-> "reset", amount |-> allowance])
    /\ UNCHANGED <<allowance, onSale, sold, left, highest>>

ResetCounter(c) ==
    /\ PlanOp(c, "reset")
    /\ left' = planCall[c].amount
    /\ Ends(planCall, c)
    /\ UNCHANGED <<allowance, onSale, sold, highest>>

UseOne ==
    /\ left > 0
    /\ left' = left - 1
    /\ UNCHANGED <<allowance, onSale, sold, planCall, highest>>

\* Rolled back, or not begun.
PlanHandlerFails(c) ==
    /\ Ends(planCall, c)
    /\ UNCHANGED <<allowance, onSale, sold, left, highest>>

AllowancesNext ==
    \/ \E c \in Callers :
           \/ AskUpdatePlan(c) \/ BeginRewrite(c) \/ UpdatePlan(c)
           \/ ReadAllowance(c) \/ ResetCounter(c) \/ PlanHandlerFails(c)
    \/ UpdateProduct \/ CheckoutSnapshot \/ GiveSnapshot \/ UseOne

AllowancesSpec == AllowancesInit /\ [][AllowancesNext]_allowanceVars

----------------------------------------------------------------------------

\* However edits of several administrators, new months, purchases and the use
\* of the counter overlap, each working on what it read before, nobody has more
\* left than the highest allowance there ever was.
NobodyHasMoreThanAllowed == left <= highest
=============================================================================
