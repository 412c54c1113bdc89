-------------------------------- MODULE Boosts --------------------------------
(***************************************************************************)
(* The boosts of one listing, bought (PaymentsService.settleSuccess) or    *)
(* out of the credits of the plan (QuotaService.activatePlanBoost), and    *)
(* the hourly job that ends them.                                          *)
(*                                                                         *)
(* Both are Read Committed transactions that look for the last campaign    *)
(* and append one to it.  The plan's spends the credit first, and holds    *)
(* the row of the quota from there on; a payment holds nothing that a      *)
(* second one would wait for.  A unit of time is longer than any of them   *)
(* takes.                                                                  *)
(***************************************************************************)
EXTENDS Handlers, FiniteSetsExt

CONSTANTS
    MaxTime,        \* bound on time
    MaxCampaigns,   \* bound on campaigns
    MaxCredits      \* boost credits of a period

ASSUME BoostsAssumption ==
    MaxTime \in Nat /\ MaxCampaigns \in Nat /\ MaxCredits \in Nat

VARIABLES
    time,
    campaigns,    \* rows of boost_campaign
    shownUntil,   \* property.boostedUntil: 0 if the listing is not boosted
    eligible,     \* the listing is APPROVED
    credits,      \* userQuota.boostCreditsLeft
    boostCall     \* transactions under way

boostVars == <<time, campaigns, shownUntil, eligible, credits, boostCall>>

\* no: the order of their creation.
Campaign == [no: Nat, plan: BOOLEAN, start: Nat, end: Nat,
             status: {"SCHEDULED", "ACTIVE", "EXPIRED"}]
\* start: null before the last campaign was looked for.
BoostCall == [plan: BOOLEAN, start: Nat \cup {NULL}]

ASSUME BoostCallAssumption == NULL \notin BoostCall \cup Nat

BoostsTypeOK ==
    /\ time \in Nat
    /\ campaigns \subseteq Campaign
    /\ shownUntil \in Nat
    /\ eligible \in BOOLEAN
    /\ credits \in Nat
    /\ boostCall \in [Callers -> BoostCall \cup {NULL}]

BoostsInit ==
    /\ time = 1
    /\ campaigns = {}
    /\ shownUntil = 0
    /\ eligible = FALSE
    /\ credits = MaxCredits
    /\ boostCall = NobodyWaits

----------------------------------------------------------------------------

Running == {b \in campaigns : b.status # "EXPIRED" /\ b.end > time}

Latest == Max({b.end : b \in Running} \cup {time})

NextWeek ==
    /\ time < MaxTime
    /\ boostCall = NobodyWaits
    /\ time' = time + 1
    /\ UNCHANGED <<campaigns, shownUntil, eligible, credits, boostCall>>

\* Approved, or archived, edited or rejected; archiving and restoring take the
\* boost off the listing, not out of the campaigns.
ChangeListing ==
    /\ eligible' \in BOOLEAN
    /\ shownUntil' \in IF eligible' THEN {shownUntil} ELSE {shownUntil, 0}
    /\ UNCHANGED <<time, campaigns, credits, boostCall>>

HoldsQuota(c) == boostCall[c] # NULL /\ boostCall[c].plan

QuotaIsFree == \A c \in Callers : ~HoldsQuota(c)

\* A period of the plan begins.
ResetCredits ==
    /\ QuotaIsFree
    /\ credits' = MaxCredits
    /\ UNCHANGED <<time, campaigns, shownUntil, eligible, boostCall>>

\* Mutant: the last campaign is looked for before the credit is spent.
LookThenSpend(c) ==
    /\ eligible
    /\ credits > 0
    /\ Waits(boostCall, c, [plan |-> TRUE, start |-> Latest])
    /\ credits' = credits - 1
    /\ UNCHANGED <<time, campaigns, shownUntil, eligible>>

\* Mutant: whether a credit is left is not asked.
SpendAnyCredit(c) ==
    /\ eligible
    /\ QuotaIsFree
    /\ Waits(boostCall, c, [plan |-> TRUE, start |-> NULL])
    /\ credits' = credits - 1
    /\ UNCHANGED <<time, campaigns, shownUntil, eligible>>

SpendCredit(c) ==
    /\ eligible
    /\ credits > 0
    /\ QuotaIsFree
    /\ Waits(boostCall, c, [plan |-> TRUE, start |-> NULL])
    /\ credits' = credits - 1
    /\ UNCHANGED <<time, campaigns, shownUntil, eligible>>

\* A payment of a boost is settled, each in a transaction of its own.
SettleBoost(c) ==
    /\ Waits(boostCall, c, [plan |-> FALSE, start |-> NULL])
    /\ UNCHANGED <<time, campaigns, shownUntil, eligible, credits>>

FindLatest(c) ==
    /\ boostCall[c] # NULL
    /\ boostCall[c].start = NULL
    /\ boostCall' = [boostCall EXCEPT ![c].start = Latest]
    /\ UNCHANGED <<time, campaigns, shownUntil, eligible, credits>>

\* Durations: one unit out of the plan, one or two when bought.
CreateCampaign(c) ==
    /\ boostCall[c] # NULL
    /\ boostCall[c].start # NULL
    /\ Cardinality(campaigns) < MaxCampaigns
    /\ \E days \in IF boostCall[c].plan THEN {1} ELSE {1, 2} :
           LET end == boostCall[c].start + days
           IN  /\ campaigns' = campaigns \cup
                     {[no |-> Cardinality(campaigns), plan |-> boostCall[c].plan,
                       start |-> boostCall[c].start, end |-> end,
                       status |-> IF boostCall[c].start <= time
                                  THEN "ACTIVE" ELSE "SCHEDULED"]}
               /\ shownUntil' = end
    /\ Ends(boostCall, c)
    /\ UNCHANGED <<time, eligible, credits>>

\* Rolled back: a credit that was spent comes back.
BoostFails(c) ==
    /\ Ends(boostCall, c)
    /\ credits' = IF HoldsQuota(c) THEN credits + 1 ELSE credits
    /\ UNCHANGED <<time, campaigns, shownUntil, eligible>>

\* Mutant: only the boosts that end right now are looked for.
HideBoostInTime ==
    /\ shownUntil # 0
    /\ shownUntil = time
    /\ shownUntil' = 0
    /\ UNCHANGED <<time, campaigns, eligible, credits, boostCall>>

HideBoost ==
    /\ shownUntil # 0
    /\ shownUntil <= time
    /\ shownUntil' = 0
    /\ UNCHANGED <<time, campaigns, eligible, credits, boostCall>>

ExpireCampaigns ==
    /\ campaigns' = {IF b.end <= time THEN [b EXCEPT !.status = "EXPIRED"] ELSE b :
                        b \in campaigns}
    /\ UNCHANGED <<time, shownUntil, eligible, credits, boostCall>>

StartCampaigns ==
    /\ campaigns' = {IF b.status = "SCHEDULED" /\ b.start <= time /\ b.end > time
                     THEN [b EXCEPT !.status = "ACTIVE"] ELSE b : b \in campaigns}
    /\ UNCHANGED <<time, shownUntil, eligible, credits, boostCall>>

BoostsNext ==
    \/ NextWeek \/ ChangeListing \/ ResetCredits
    \/ \E c \in Callers :
           \/ SpendCredit(c) \/ SettleBoost(c) \/ FindLatest(c)
           \/ CreateCampaign(c) \/ BoostFails(c)
    \/ HideBoost \/ ExpireCampaigns \/ StartCampaigns

BoostsSpec == BoostsInit /\ [][BoostsNext]_boostVars

----------------------------------------------------------------------------

\* No time is taken from the plan's credits twice: two boosts out of the plan
\* never run at once, however many are asked for at a time.  (Bought ones do.)
PlanBoostsFollow ==
    \A a, b \in campaigns :
        a.plan /\ b.plan /\ a.no < b.no => a.end <= b.start

\* A listing does not stay boosted when its time is over.
BoostsEnd == (shownUntil # 0 /\ shownUntil <= time) ~> (shownUntil = 0 \/ shownUntil > time)
=============================================================================
