---------------------------- MODULE BackgroundJobs ----------------------------
(***************************************************************************)
(* Mails and smart matching: AdminService.reviewRequest, which puts a job  *)
(* of each kind into its queue, MailWorker and MatchingWorker.             *)
(*                                                                         *)
(* The queues are BullMQ's: a job that throws is tried again until its     *)
(* attempts are used up; a job whose worker died is taken up again, a      *)
(* limited number of times, without an attempt being counted.              *)
(***************************************************************************)
EXTENDS Handlers

CONSTANTS
    Jobs,            \* jobs in Redis, of both queues
    MatchAttempts,   \* attempts of a matching job
    MailAttempts,    \* attempts of a mail
    MaxStalls        \* how often BullMQ takes up a job whose worker died

VARIABLES
    request,      \* status of the tenant_request
    reviewCall,   \* moderators' handlers under way
    jobs,         \* the jobs, or NULL
    delivered     \* history: how often a job's mail was sent, or its
                  \*   notifications were written

jobVars == <<request, reviewCall, jobs, delivered>>

\* made: attempts that failed; stalls: workers that died.
Job == [kind: {"match", "mail"},
        state: {"waiting", "active", "completed", "failed"},
        step: {"start", "rank", "sent"},
        made: Nat, stalls: Nat]
ReviewStep ==
    [op: {"write"}, status: {"APPROVED", "REJECTED"}] \cup [op: {"match", "mail"}]

ASSUME JobsAssumption ==
    /\ NULL \notin Job \cup ReviewStep
    /\ MatchAttempts \in Nat \ {0} /\ MailAttempts \in Nat \ {0}
    /\ MaxStalls \in Nat

JobsTypeOK ==
    /\ request \in {"PENDING", "APPROVED", "REJECTED"}
    /\ reviewCall \in [Callers -> ReviewStep \cup {NULL}]
    /\ jobs \in [Jobs -> Job \cup {NULL}]
    /\ delivered \in [Jobs -> Nat]

JobsInit ==
    /\ request = "PENDING"
    /\ reviewCall = NobodyWaits
    /\ jobs = [j \in Jobs |-> NULL]
    /\ delivered = [j \in Jobs |-> 0]

----------------------------------------------------------------------------
(* A moderator decides.                                                    *)

ReadRequest(c) ==
    /\ request = "PENDING"
    /\ \E status \in {"APPROVED", "REJECTED"} :
           Waits(reviewCall, c, [op |-> "write", status |-> status])
    /\ UNCHANGED <<request, jobs, delivered>>

WriteDecision(c) ==
    /\ reviewCall[c] # NULL
    /\ reviewCall[c].op = "write"
    /\ request' = reviewCall[c].status
    /\ reviewCall' = [reviewCall EXCEPT ![c] =
           [op |-> IF @.status = "APPROVED" THEN "match" ELSE "mail"]]
    /\ UNCHANGED <<jobs, delivered>>

NewJob(kind) == [kind |-> kind, state |-> "waiting", step |-> "start",
                 made |-> 0, stalls |-> 0]

\* That a job could not be put into its queue is logged.
Enqueue(kind) ==
    \/ UNCHANGED jobs
    \/ \E j \in Jobs :
           /\ jobs[j] = NULL
           /\ jobs' = [jobs EXCEPT ![j] = NewJob(kind)]

EnqueueMatch(c) ==
    /\ reviewCall[c] # NULL
    /\ reviewCall[c].op = "match"
    /\ Enqueue("match")
    /\ reviewCall' = [reviewCall EXCEPT ![c].op = "mail"]
    /\ UNCHANGED <<request, delivered>>

EnqueueMail(c) ==
    /\ reviewCall[c] # NULL
    /\ reviewCall[c].op = "mail"
    /\ Enqueue("mail")
    /\ Ends(reviewCall, c)
    /\ UNCHANGED <<request, delivered>>

ReviewFails(c) == Ends(reviewCall, c) /\ UNCHANGED <<request, jobs, delivered>>

----------------------------------------------------------------------------
(* The workers.                                                            *)

At(j, state) == jobs[j] # NULL /\ jobs[j].state = state

AtStep(j, kind, step) ==
    At(j, "active") /\ jobs[j].kind = kind /\ jobs[j].step = step

SetJob(j, job) == jobs' = [jobs EXCEPT ![j] = job]

\* Mutant: nothing brings a job back whose worker died.
TakeFresh(j) ==
    /\ At(j, "waiting")
    /\ jobs[j].stalls = 0
    /\ SetJob(j, [jobs[j] EXCEPT !.state = "active", !.step = "start"])
    /\ UNCHANGED <<request, reviewCall, delivered>>

Take(j) ==
    /\ At(j, "waiting")
    /\ SetJob(j, [jobs[j] EXCEPT !.state = "active", !.step = "start"])
    /\ UNCHANGED <<request, reviewCall, delivered>>

\* Reads the request, whatever its status, and embeds it; that it cannot be
\* embedded only takes the semantic part out of the scores.
EmbedRequest(j) ==
    /\ AtStep(j, "match", "start")
    /\ SetJob(j, [jobs[j] EXCEPT !.step = "rank"])
    /\ UNCHANGED <<request, reviewCall, delivered>>

\* Whether the scores of any listings are high.
HighMatches == {0, 1}

\* One statement writes the notifications of all high matches, if there are
\* any; nothing after it can throw.
NotifyLandlords(j) ==
    /\ AtStep(j, "match", "rank")
    /\ SetJob(j, [jobs[j] EXCEPT !.step = "sent"])
    /\ \E high \in HighMatches : delivered' = [delivered EXCEPT ![j] = @ + high]
    /\ UNCHANGED <<request, reviewCall>>

SendMail(j) ==
    /\ AtStep(j, "mail", "start")
    /\ SetJob(j, [jobs[j] EXCEPT !.step = "sent"])
    /\ delivered' = [delivered EXCEPT ![j] = @ + 1]
    /\ UNCHANGED <<request, reviewCall>>

Complete(j) ==
    /\ At(j, "active")
    /\ jobs[j].step = "sent"
    /\ SetJob(j, [jobs[j] EXCEPT !.state = "completed"])
    /\ UNCHANGED <<request, reviewCall, delivered>>

Attempts(kind) == IF kind = "match" THEN MatchAttempts ELSE MailAttempts

\* Mutant: one attempt too many.
RetryOnceMore(used, limit) == IF used <= limit THEN "waiting" ELSE "failed"

Retry(used, limit) == IF used < limit THEN "waiting" ELSE "failed"

\* Mutant: the job fails when a push to a landlord's device does.
FailsAnywhere(job) == job.kind \in {"match", "mail"}

\* A mail may have been sent although the answer is an error or never comes.
MayFail(job) == job.kind = "mail" \/ job.step # "sent"

Fail(j) ==
    /\ At(j, "active")
    /\ MayFail(jobs[j])
    /\ SetJob(j, [jobs[j] EXCEPT !.made = @ + 1,
                                 !.state = Retry(jobs[j].made + 1,
                                                 Attempts(jobs[j].kind))])
    /\ UNCHANGED <<request, reviewCall, delivered>>

WorkerDies(j) ==
    /\ At(j, "active")
    /\ SetJob(j, [jobs[j] EXCEPT !.stalls = @ + 1,
                                 !.state = Retry(jobs[j].stalls, MaxStalls)])
    /\ UNCHANGED <<request, reviewCall, delivered>>

WorkerStep(j) ==
    \/ Take(j) \/ EmbedRequest(j) \/ NotifyLandlords(j)
    \/ SendMail(j) \/ Complete(j) \/ Fail(j)

JobsNext ==
    \/ \E c \in Callers :
           \/ ReadRequest(c) \/ WriteDecision(c)
           \/ EnqueueMatch(c) \/ EnqueueMail(c) \/ ReviewFails(c)
    \/ \E j \in Jobs : WorkerStep(j) \/ WorkerDies(j)

JobsSpec == JobsInit /\ [][JobsNext]_jobVars

----------------------------------------------------------------------------

\* Only the death of a worker has a landlord told again of one approval; a
\* mail is sent once for each attempt and each worker that died.
DeliveriesAreBounded ==
    \A j \in Jobs :
        jobs[j] # NULL =>
            delivered[j] <= jobs[j].stalls + 1
                               + (IF jobs[j].kind = "mail" THEN jobs[j].made ELSE 0)

\* Every job that is in a queue ends: it completes or is among the failed ones.
JobsSettle ==
    \A j \in Jobs : jobs[j] # NULL ~> (At(j, "completed") \/ At(j, "failed"))

TriesLeft(job) == Attempts(job.kind) - job.made
DeathsLeft(job) == MaxStalls + 1 - job.stalls

StepsLeft(job) ==
    CASE job.state = "waiting" -> 4
      [] job.state \in {"completed", "failed"} -> 0
      [] job.state = "active" /\ job.step = "start" -> 3
      [] job.state = "active" /\ job.step = "rank" -> 2
      [] job.state = "active" /\ job.step = "sent" -> 1

\* A round of a job has fewer than five steps.
Effort(job) == 5 * (TriesLeft(job) + DeathsLeft(job)) + StepsLeft(job)

\* A job never goes round in circles: each of its steps, a failure or the death
\* of its worker as well, takes something off what can still happen to it, and
\* neither the attempts nor the pick-ups are overdrawn.  So a job has
\* boundedly many steps, and ends if its workers go on (JobsSettle).
JobsWearOut ==
    [][\A j \in Jobs :
           jobs[j] # NULL /\ jobs'[j] # jobs[j] =>
               /\ jobs'[j] # NULL
               /\ TriesLeft(jobs'[j]) >= 0
               /\ DeathsLeft(jobs'[j]) >= 0
               /\ Effort(jobs'[j]) < Effort(jobs[j])]_jobVars
=============================================================================
