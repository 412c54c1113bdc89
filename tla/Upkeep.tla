-------------------------------- MODULE Upkeep --------------------------------
(***************************************************************************)
(* What the server does by itself, beside the requests: the nightly        *)
(* anonymization, the workers of the two queues, the hourly enforcement of *)
(* the listing limit and the hourly end of boosts.                         *)
(***************************************************************************)
EXTENDS Services

UpkeepServices == {"accounts", "jobs", "capacity", "boosts"}

(***************************************************************************)
(* Fairness.  Time passes; the jobs run every hour or every night, again   *)
(* and again, and what throws is logged and tried the next time; a worker  *)
(* is started again.  Not every query of a job fails for ever: hence the   *)
(* strong fairness where another outcome competes.  Nothing is assumed of  *)
(* users, administrators or the handlers of their requests.                *)
(***************************************************************************)

AccountsFairness ==
    /\ WF_accountVars(service = "accounts" /\ GraceEnds)
    /\ WF_accountVars(service = "accounts" /\ ReadCandidates)
    /\ SF_accountVars(service = "accounts" /\ Anonymize)

JobsFairness == \A j \in Jobs : WF_jobVars(service = "jobs" /\ WorkerStep(j))

CapacityFairness ==
    /\ WF_capacityVars(service = "capacity" /\ GraceExpires)
    /\ WF_capacityVars(service = "capacity" /\ ReadToEnforce)
    /\ SF_capacityVars(service = "capacity" /\ WriteGrace(Enforcer))
    /\ SF_capacityVars(service = "capacity" /\ ChooseNewest)
    /\ SF_capacityVars(service = "capacity" /\ ArchiveChosen)
    /\ SF_capacityVars(service = "capacity" /\ ClearGrace)

BoostsFairness == WF_boostVars(service = "boosts" /\ HideBoost)

UpkeepInit == Init /\ service \in UpkeepServices

UpkeepSpec ==
    /\ UpkeepInit
    /\ [][Next]_vars
    /\ AccountsFairness /\ JobsFairness /\ CapacityFairness /\ BoostsFairness
=============================================================================
