----------------------------- MODULE SupportQueue -----------------------------
(***************************************************************************)
(* The order in which the administrators see the support tickets           *)
(* (CustomerSupportService.getAdminTickets): by severity, then by a score  *)
(* of the owner's plan and the ticket's age, then by age.                  *)
(*                                                                         *)
(* The plan is the one the customer has when the queue is looked at, not   *)
(* the one he had when he wrote.  What waits for a moderator is ordered in *)
(* the same way (AdminService.sortCommercialQueue), with one severity.     *)
(***************************************************************************)
EXTENDS Handlers

CONSTANTS
    QueueTickets,   \* tickets, each of a customer of his own
    Severities,     \* severityWeight of the priorities in use
    MaxDay          \* bound on days

ASSUME QueueAssumption == Severities \subseteq Nat /\ MaxDay \in Nat

VARIABLES
    queue,    \* the tickets that pass the filter: [severity, created], or NULL
    plan,     \* the active plan of each ticket's customer
    today

queueVars == <<queue, plan, today>>

Plans == {"FREEMIUM", "OWNER_PLUS", "PREMIUM"}
QueueRow == [severity: Severities, created: Nat]

QueueTypeOK ==
    /\ queue \in [QueueTickets -> QueueRow \cup {NULL}]
    /\ plan \in [QueueTickets -> Plans]
    /\ today \in Nat

QueueInit ==
    /\ queue = [t \in QueueTickets |-> NULL]
    /\ plan = [t \in QueueTickets |-> "FREEMIUM"]
    /\ today = 0

----------------------------------------------------------------------------

Queued == {t \in QueueTickets : queue[t] # NULL}

OpenTicket(t) ==
    /\ queue[t] = NULL
    /\ \E severity \in Severities :
           queue' = [queue EXCEPT ![t] = [severity |-> severity, created |-> today]]
    /\ UNCHANGED <<plan, today>>

CloseTicket(t) ==
    /\ t \in Queued
    /\ queue' = [queue EXCEPT ![t] = NULL]
    /\ UNCHANGED <<plan, today>>

\* A plan is bought, or has expired.
ChangePlan(t) ==
    /\ \E new \in Plans : plan' = [plan EXCEPT ![t] = new]
    /\ UNCHANGED <<queue, today>>

NextDay ==
    /\ today < MaxDay
    /\ today' = today + 1
    /\ UNCHANGED <<queue, plan>>

QueueNext ==
    \/ \E t \in QueueTickets : OpenTicket(t) \/ CloseTicket(t) \/ ChangePlan(t)
    \/ NextDay

QueueSpec == QueueInit /\ [][QueueNext]_queueVars

----------------------------------------------------------------------------

CommercialWeight(t) ==
    CASE plan[t] = "PREMIUM" -> 200
      [] plan[t] = "OWNER_PLUS" -> 100
      [] plan[t] = "FREEMIUM" -> 0

Age(t) == today - queue[t].created

\* Mutant: tickets do not gain by waiting.
PlanScore(t) == CommercialWeight(t)

Score(t) == CommercialWeight(t) + Age(t) * 20

\* t comes before u.
Precedes(t, u) ==
    \/ queue[t].severity > queue[u].severity
    \/ /\ queue[t].severity = queue[u].severity
       /\ \/ Score(t) > Score(u)
          \/ Score(t) = Score(u) /\ queue[t].created < queue[u].created

----------------------------------------------------------------------------

\* Nobody is kept waiting by customers who pay: a ticket comes before all those
\* of its severity that were written ten days after it, or later, whatever
\* plans were bought meanwhile.
PatienceIsRewarded ==
    \A t, u \in Queued :
        queue[t].severity = queue[u].severity /\ queue[u].created >= queue[t].created + 10
            => Precedes(t, u)
=============================================================================
