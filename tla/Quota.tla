-------------------------------- MODULE Quota --------------------------------
(***************************************************************************)
(* A landlord's plan, its monthly allowance of offers and the offer packs  *)
(* bought on top (QuotaService, and what a settled payment writes).        *)
(*                                                                         *)
(* Landlords share nothing, so one user_quota row is modelled; sign-up     *)
(* inserts it.  The offers stand for all counters of the row.  Whoever     *)
(* looks at the row first brings it up to date: ensureCurrentPeriod reads  *)
(* it, and when its plan or its period has run out it overwrites plan,     *)
(* pending plan and counters with values computed from that read.  Time is *)
(* counted in units of which a month has Month; 0 is a date that is null.  *)
(***************************************************************************)
EXTENDS Naturals

CONSTANTS
    NULL,         \* no pending plan, no grant, no call
    Sessions,     \* client sessions of the landlord, and the hourly job
    Payments,     \* payment_transactions of the landlord
    ProductOf,    \* what each of them is for
    Month, Year,  \* lengths of the billing intervals
    PackLife,     \* validity of an offer pack
    PackSize,     \* offers in a pack
    Allowance,    \* monthly offers of each plan
    MaxNow        \* bound on time

Plan == {"FREE", "OWNER_PLUS", "PREMIUM"}
Subscription == [kind: {"SUBSCRIPTION"}, plan: Plan \ {"FREE"},
                 billing: {"MONTHLY", "YEARLY"}]
OfferPack == [kind: {"ENTITLEMENT"}]

ASSUME QuotaAssumption ==
    /\ Month \in Nat \ {0} /\ Year \in Nat \ {0}
    /\ PackLife \in Nat /\ PackSize \in Nat /\ MaxNow \in Nat
    /\ Allowance \in [Plan -> Nat]
    /\ ProductOf \in [Payments -> Subscription \cup OfferPack]

VARIABLES
    now,       \* the clock
    quota,     \* the user_quota row
    grant,     \* the entitlement_grant of each payment, or NULL
    settled,   \* the payments that are SUCCESS
    settling,  \* what the settlement of a payment has read, or NULL
    call,      \* what each session has read and not yet written
    bought,    \* history: units of time on a paid plan that were paid for
    used       \* history: units of time that passed on a paid plan

quotaVars == <<now, quota, grant, settled, settling, call, bought, used>>

\* ends: planExpiresAt; periodEnds: currentPeriodEndsAt.
Pending == [plan: Plan, starts: Nat, ends: Nat]
QuotaRow == [plan: Plan, ends: Nat, pending: Pending \cup {NULL},
             periodEnds: Nat, offers: Nat]
Grant == [left: Nat, ends: Nat]
\* What a settlement remembers of the row it read, and when it read it.
Read == [plan: Plan, ends: Nat, at: Nat]

\* "reset" carries the row that is about to be written.
Call == [op: {"reset"}, row: QuotaRow]
            \cup [op: {"offer"}]
            \cup [op: {"spendPlan"}]
            \cup [op: {"spendGrant"}, grant: Payments]

ASSUME QuotaNullAssumption == NULL \notin Pending \cup Grant \cup Read \cup Call

QuotaTypeOK ==
    /\ now \in Nat
    /\ quota \in QuotaRow
    /\ grant \in [Payments -> Grant \cup {NULL}]
    /\ settled \subseteq Payments
    /\ settling \in [Payments -> Read \cup {NULL}]
    /\ call \in [Sessions -> Call \cup {NULL}]
    /\ bought \in Nat
    /\ used \in Nat

QuotaInit ==
    /\ now = 1
    /\ quota = [plan |-> "FREE", ends |-> 0, pending |-> NULL,
                periodEnds |-> 0, offers |-> Allowance["FREE"]]
    /\ grant = [p \in Payments |-> NULL]
    /\ settled = {}
    /\ settling = [p \in Payments |-> NULL]
    /\ call = [s \in Sessions |-> NULL]
    /\ bought = 0
    /\ used = 0

----------------------------------------------------------------------------
(* The plan a row stands for at a time t.                                  *)

\* Mutant: a plan that ends now is still in force.
PlanExpiredLate(row, t) == row.plan # "FREE" /\ row.ends < t

PlanExpired(row, t) == row.plan # "FREE" /\ row.ends <= t

PendingDue(row, t) ==
    /\ PlanExpired(row, t)
    /\ row.pending # NULL
    /\ row.pending.starts <= t
    /\ row.pending.ends > t

EffectivePlan(row, t) ==
    IF PendingDue(row, t) THEN row.pending.plan
    ELSE IF PlanExpired(row, t) THEN "FREE" ELSE row.plan

EffectiveEnds(row, t) ==
    IF PendingDue(row, t) THEN row.pending.ends
    ELSE IF PlanExpired(row, t) THEN 0 ELSE row.ends

Due(row, t) == PlanExpired(row, t) \/ row.periodEnds <= t

\* The new period ends with the plan, if that is earlier.
PeriodEnd(row, t) ==
    IF EffectivePlan(row, t) # "FREE" /\ EffectiveEnds(row, t) \in 1 .. t + Month
    THEN EffectiveEnds(row, t)
    ELSE t + Month

ResetRow(row, t) ==
    [plan |-> EffectivePlan(row, t),
     ends |-> EffectiveEnds(row, t),
     pending |-> IF PendingDue(row, t) THEN NULL ELSE row.pending,
     periodEnds |-> PeriodEnd(row, t),
     offers |-> Allowance[EffectivePlan(row, t)]]

----------------------------------------------------------------------------
(* Calls of the landlord's sessions and of the hourly job.                 *)

Idle(s) == call[s] = NULL
InCall(s, op) == call[s] # NULL /\ call[s].op = op
Continue(s, c) == call' = [call EXCEPT ![s] = c]
Finish(s) == Continue(s, NULL)

\* ensureCurrentPeriod finds the row out of date and computes a new one.
ReadExpired(s) ==
    /\ Idle(s)
    /\ Due(quota, now)
    /\ Continue(s, [op |-> "reset", row |-> ResetRow(quota, now)])
    /\ UNCHANGED <<now, quota, grant, settled, settling, bought, used>>

ReadCurrent(s) ==
    /\ Idle(s)
    /\ ~Due(quota, now)
    /\ Continue(s, [op |-> "offer"])
    /\ UNCHANGED <<now, quota, grant, settled, settling, bought, used>>

\* The update is by user id and trusts what was read.  Every call begins like
\* this, whether it goes on to send an offer or only shows or counts something.
ResetPeriod(s) ==
    /\ InCall(s, "reset")
    /\ quota' = call[s].row
    /\ Continue(s, [op |-> "offer"]) \/ Finish(s)
    /\ UNCHANGED <<now, grant, settled, settling, bought, used>>

\* The grant findFirst returns: in force, not used up, the first to expire.
Usable(p) == grant[p] # NULL /\ grant[p].left > 0 /\ grant[p].ends > now
SoonestGrant(p) ==
    Usable(p) /\ \A q \in Payments : Usable(q) => grant[p].ends <= grant[q].ends

\* The transaction of withConsumedOffer chooses what to spend ...
ChooseGrant(s, p) ==
    /\ InCall(s, "offer")
    /\ SoonestGrant(p)
    /\ quota.offers = 0 \/ grant[p].ends < quota.periodEnds
    /\ Continue(s, [op |-> "spendGrant", grant |-> p])
    /\ UNCHANGED <<now, quota, grant, settled, settling, bought, used>>

ChoosePlan(s) ==
    /\ InCall(s, "offer")
    /\ \A p \in Payments :
           SoonestGrant(p) => quota.offers > 0 /\ grant[p].ends >= quota.periodEnds
    /\ Continue(s, [op |-> "spendPlan"])
    /\ UNCHANGED <<now, quota, grant, settled, settling, bought, used>>

\* Mutant: the decrement trusts the number that was read.
SpendGrantUnguarded(s) ==
    /\ InCall(s, "spendGrant")
    /\ grant' = [grant EXCEPT ![call[s].grant].left = @ - 1]
    /\ Finish(s)
    /\ UNCHANGED <<now, quota, settled, settling, bought, used>>

\* ... and spends it, if it is still there: otherwise the call is refused.
SpendGrant(s) ==
    /\ InCall(s, "spendGrant")
    /\ IF grant[call[s].grant].left > 0
       THEN grant' = [grant EXCEPT ![call[s].grant].left = @ - 1]
       ELSE UNCHANGED grant
    /\ Finish(s)
    /\ UNCHANGED <<now, quota, settled, settling, bought, used>>

SpendPlan(s) ==
    /\ InCall(s, "spendPlan")
    /\ IF quota.offers > 0
       THEN quota' = [quota EXCEPT !.offers = @ - 1]
       ELSE UNCHANGED quota
    /\ Finish(s)
    /\ UNCHANGED <<now, grant, settled, settling, bought, used>>

\* A query that fails, a refusal after the reads, a restart.
Abandon(s) ==
    /\ ~Idle(s)
    /\ Finish(s)
    /\ UNCHANGED <<now, quota, grant, settled, settling, bought, used>>

----------------------------------------------------------------------------
(* Settlement of a payment.  Its transaction claims the payment's row, so  *)
(* a payment is settled once; it reads the quota row without a lock.       *)

Rank(plan) == CASE plan = "PREMIUM" -> 2 [] plan = "OWNER_PLUS" -> 1 [] OTHER -> 0
Length(product) == IF product.billing = "YEARLY" THEN Year ELSE Month

BeginSettlement(p) ==
    /\ p \notin settled
    /\ settling[p] = NULL
    /\ settling' = [settling EXCEPT ![p] =
           [plan |-> quota.plan, ends |-> quota.ends, at |-> now]]
    /\ UNCHANGED <<now, quota, grant, settled, call, bought, used>>

\* The plan read is active beyond the time of payment.
Active(read) == read.ends > read.at

\* The three ways a subscription changes the row, given what was read.
Downgrade(product, read) ==
    quota' = [quota EXCEPT !.pending =
                 [plan |-> product.plan, starts |-> read.ends,
                  ends |-> read.ends + Length(product)]]
Renew(product, read) ==
    quota' = [quota EXCEPT !.ends = read.ends + Length(product)]
StartPlan(product, read) ==
    quota' = [plan |-> product.plan, ends |-> read.at + Length(product),
              pending |-> NULL, periodEnds |-> read.at + Month,
              offers |-> Allowance[product.plan]]

SettleSubscription(p) ==
    LET product == ProductOf[p]
        read == settling[p]
    IN  /\ read # NULL
        /\ product.kind = "SUBSCRIPTION"
        /\ IF Active(read) /\ Rank(product.plan) < Rank(read.plan)
           THEN Downgrade(product, read)
           ELSE IF Active(read) /\ Rank(product.plan) = Rank(read.plan)
           THEN Renew(product, read)
           ELSE StartPlan(product, read)
        /\ bought' = bought + Length(product)
        /\ settled' = settled \cup {p}
        /\ settling' = [settling EXCEPT ![p] = NULL]
        /\ UNCHANGED <<now, grant, call, used>>

SettlePack(p) ==
    /\ settling[p] # NULL
    /\ ProductOf[p].kind = "ENTITLEMENT"
    /\ grant' = [grant EXCEPT ![p] =
           [left |-> PackSize, ends |-> settling[p].at + PackLife]]
    /\ settled' = settled \cup {p}
    /\ settling' = [settling EXCEPT ![p] = NULL]
    /\ UNCHANGED <<now, quota, call, bought, used>>

\* The transaction rolls back; the payment can be settled later.
SettlementFails(p) ==
    /\ settling[p] # NULL
    /\ settling' = [settling EXCEPT ![p] = NULL]
    /\ UNCHANGED <<now, quota, grant, settled, call, bought, used>>

----------------------------------------------------------------------------

OnPaidPlan == EffectivePlan(quota, now) # "FREE"

Tick ==
    /\ now < MaxNow
    /\ now' = now + 1
    /\ used' = IF OnPaidPlan THEN used + 1 ELSE used
    /\ UNCHANGED <<quota, grant, settled, settling, call, bought>>

QuotaNext ==
    \/ Tick
    \/ \E s \in Sessions :
           \/ ReadExpired(s) \/ ReadCurrent(s) \/ ResetPeriod(s)
           \/ ChoosePlan(s) \/ SpendGrant(s) \/ SpendPlan(s)
           \/ Abandon(s)
    \/ \E s \in Sessions, p \in Payments : ChooseGrant(s, p)
    \/ \E p \in Payments :
           \/ BeginSettlement(p) \/ SettlementFails(p)
           \/ SettleSubscription(p) \/ SettlePack(p)

QuotaSpec == QuotaInit /\ [][QuotaNext]_quotaVars

----------------------------------------------------------------------------
(* Properties.                                                             *)

\* However resets computed from old reads, renewals, upgrades and downgrades
\* overwrite each other, a landlord is not on a paid plan for longer than he
\* paid for.
PlanTimeIsPaid == used <= bought

PackPayments == {p \in Payments : ProductOf[p].kind = "ENTITLEMENT"}

Pack == INSTANCE Packs
            WITH Payments <- PackPayments,
                 given <- settled \cap PackPayments,
                 left <- [p \in PackPayments |->
                             IF grant[p] = NULL THEN NULL ELSE grant[p].left]

\* A pack of offers is given once, in full, in the transaction that settles its
\* payment; sessions that chose the same pack before either spent of it do not
\* take it below zero, and no reset, renewal or second settlement refills it.
PacksAreBought == Pack!PacksSpec

\* "To prevent users from paying without receiving their quota" (README of the
\* payments): no call takes away or lowers a plan that is paid for and in
\* force.
PaidPlanIsKept ==
    [][now' = now =>
           Rank(EffectivePlan(quota, now)) <= Rank(EffectivePlan(quota', now))
      ]_quotaVars
=============================================================================
