----------------------------- MODULE Limits_proofs -----------------------------
(***************************************************************************)
(* Proofs about what is limited: the allowances of a plan (Allowances),    *)
(* the deliveries of a job (BackgroundJobs), the number of an owner's      *)
(* listings (Capacity) and the time of his plan's boosts (Boosts), for any *)
(* number of handlers, amounts, jobs, listings and campaigns.              *)
(***************************************************************************)
EXTENDS Allowances, BackgroundJobs, Capacity, Boosts, FiniteSetTheorems,
        WellFoundedInduction, TLAPS

----------------------------------------------------------------------------
(* The greatest of numbers that have an upper bound.                       *)

LEMMA MaxOfTwo ==
    ASSUME NEW a \in Nat, NEW b \in Nat
    PROVE  /\ Max({a, b}) \in {a, b}
           /\ Max({a, b}) >= a /\ Max({a, b}) >= b
<1>1. \E x \in {a, b} : \A y \in {a, b} : x >= y
  OBVIOUS
<1>2. Max({a, b}) \in {a, b} /\ \A y \in {a, b} : Max({a, b}) >= y
  BY <1>1 DEF Max
<1> QED BY <1>2

LEMMA LeastOfNaturals ==
    ASSUME NEW T \in SUBSET Nat, T # {}
    PROVE  \E x \in T : \A y \in T : x <= y
<1> DEFINE Segments == {0 .. x : x \in T}
<1>1. Segments \subseteq FiniteSubsetsOf(Nat) /\ Segments # {}
  <2>1. \A x \in T : IsFiniteSet(0 .. x) /\ 0 .. x \subseteq Nat
    BY FS_Interval
  <2> QED BY <2>1 DEF FiniteSubsetsOf
<1>2. IsWellFoundedOn(StrictSubsetOrdering(Nat), FiniteSubsetsOf(Nat))
  BY FS_StrictSubsetOrderingWellFounded
<1>3. PICK X \in Segments : \A Y \in Segments : <<Y, X>> \notin StrictSubsetOrdering(Nat)
  BY <1>1, <1>2, WFMin
<1>4. PICK x \in T : X = 0 .. x
  BY <1>3
<1>5. ASSUME NEW y \in T, y < x
      PROVE  FALSE
  <2>1. 0 .. y \in SUBSET Nat /\ 0 .. x \in SUBSET Nat /\ 0 .. y \subseteq 0 .. x
    BY <1>5
  <2>2. x \in 0 .. x /\ x \notin 0 .. y
    BY <1>5
  <2>3. <<0 .. y, X>> \in StrictSubsetOrdering(Nat)
    BY <1>4, <2>1, <2>2 DEF StrictSubsetOrdering
  <2> QED BY <1>3, <2>3
<1>6. \A y \in T : x <= y
  BY <1>5
<1> QED BY <1>6

LEMMA MaxOfBounded ==
    ASSUME NEW S \in SUBSET Nat, S # {}, NEW m \in Nat, \A x \in S : x <= m
    PROVE  Max(S) \in S /\ \A y \in S : Max(S) >= y
<1> DEFINE T == {m - x : x \in S}
<1>1. T \in SUBSET Nat /\ T # {}
  <2>1. \A x \in S : m - x \in Nat
    OBVIOUS
  <2>2. PICK x \in S : TRUE
    OBVIOUS
  <2>3. m - x \in T
    BY <2>2
  <2> QED BY <2>1, <2>3
<1>2. PICK t \in T : \A u \in T : t <= u
  BY <1>1, LeastOfNaturals
<1>3. PICK x \in S : t = m - x
  BY <1>2
<1>4. ASSUME NEW y \in S
      PROVE  x >= y
  <2>1. m - y \in T
    OBVIOUS
  <2>2. m - x <= m - y
    BY <1>2, <1>3, <2>1
  <2> QED BY <2>2
<1> QED BY <1>3, <1>4 DEF Max

----------------------------------------------------------------------------
(* Allowances.  Every amount that a handler or a checkout has read was the *)
(* allowance at some time.                                                 *)

AmountsWereAllowed ==
    /\ allowance <= highest
    /\ \A amount \in sold : amount <= highest
    /\ \A c \in Callers :
           /\ PlanOp(c, "rewrite") => planCall[c].seen <= highest
           /\ PlanOp(c, "reset") => planCall[c].amount <= highest

AllowancesInv ==
    /\ AllowancesTypeOK
    /\ AmountsWereAllowed
    /\ NobodyHasMoreThanAllowed

LEMMA PlanCallParts ==
    ASSUME AllowancesTypeOK, NEW c \in Callers
    PROVE  /\ PlanOp(c, "edit") => planCall[c].previous \in Amounts
                                   /\ planCall[c].next \in Amounts
           /\ PlanOp(c, "rewrite") => /\ planCall[c].previous \in Amounts
                                      /\ planCall[c].next \in Amounts
                                      /\ planCall[c].seen \in Nat
           /\ PlanOp(c, "reset") => planCall[c].amount \in Amounts
<1>1. planCall[c] # NULL => planCall[c] \in PlanCall
  BY DEF AllowancesTypeOK
<1> QED BY <1>1 DEF PlanCall, PlanOp

LEMMA PlanCallsTyped ==
    ASSUME NEW p \in Amounts, NEW n \in Amounts, NEW s \in Nat
    PROVE  /\ [op |-> "edit", previous |-> p, next |-> n] \in PlanCall
           /\ [op |-> "rewrite", previous |-> p, next |-> n, seen |-> s] \in PlanCall
           /\ [op |-> "reset", amount |-> n] \in PlanCall
BY DEF PlanCall

\* A handler begins or goes on: nothing but its own call is written.
LEMMA PlanCallStep ==
    ASSUME AllowancesInv, NEW c \in Callers, NEW call \in PlanCall,
           planCall' = [planCall EXCEPT ![c] = call],
           UNCHANGED <<allowance, onSale, sold, left, highest>>,
           call.op = "rewrite" => call.seen <= highest,
           call.op = "reset" => call.amount <= highest
    PROVE  AllowancesInv'
<1> USE DEF AllowancesInv
<1>1. AllowancesTypeOK'
  BY DEF AllowancesTypeOK
<1>2. \A d \in Callers : planCall'[d] = IF d = c THEN call ELSE planCall[d]
  BY DEF AllowancesTypeOK
<1>3. AmountsWereAllowed'
  BY <1>2 DEF AmountsWereAllowed, PlanOp
<1>4. NobodyHasMoreThanAllowed'
  BY DEF NobodyHasMoreThanAllowed
<1> QED BY <1>1, <1>3, <1>4

LEMMA PlanHandlerStep ==
    ASSUME AllowancesInv, NEW c \in Callers,
           \/ AskUpdatePlan(c) \/ BeginRewrite(c) \/ UpdatePlan(c)
           \/ ReadAllowance(c) \/ ResetCounter(c) \/ PlanHandlerFails(c)
    PROVE  AllowancesInv'
<1> USE DEF AllowancesInv
<1>1. /\ allowance \in Amounts /\ left \in Nat /\ highest \in Amounts
      /\ Amounts \subseteq Nat /\ left <= highest
  BY AllowancesAssumption DEF AllowancesTypeOK, NobodyHasMoreThanAllowed
<1>2. CASE AskUpdatePlan(c)
  <2>1. PICK next \in Amounts :
            Waits(planCall, c, [op |-> "edit", previous |-> allowance, next |-> next])
    BY <1>2 DEF AskUpdatePlan
  <2> DEFINE call == [op |-> "edit", previous |-> allowance, next |-> next]
  <2>2. call \in PlanCall /\ call.op = "edit"
    BY <1>1, PlanCallsTyped
  <2>3. planCall' = [planCall EXCEPT ![c] = call]
    BY <2>1 DEF Waits
  <2> HIDE DEF call
  <2> QED BY <1>2, <2>2, <2>3, PlanCallStep DEF AskUpdatePlan
<1>3. CASE BeginRewrite(c)
  <2> DEFINE call == [op |-> "rewrite", previous |-> planCall[c].previous,
                      next |-> planCall[c].next, seen |-> left]
  <2>1. PlanOp(c, "edit")
    BY <1>3 DEF BeginRewrite
  <2>2. /\ call \in PlanCall /\ call.op = "rewrite" /\ call.seen = left
    BY <1>1, <2>1, PlanCallParts, PlanCallsTyped
  <2>3. planCall' = [planCall EXCEPT ![c] = call]
    BY <1>3 DEF BeginRewrite, AllowancesTypeOK
  <2> HIDE DEF call
  <2> QED BY <1>1, <1>3, <2>2, <2>3, PlanCallStep DEF BeginRewrite
<1>4. CASE ReadAllowance(c)
  <2> DEFINE call == [op |-> "reset", amount |-> allowance]
  <2>1. call \in PlanCall /\ call.op = "reset" /\ call.amount = allowance
    BY <1>1, PlanCallsTyped
  <2>2. planCall' = [planCall EXCEPT ![c] = call] /\ allowance <= highest
    BY <1>4 DEF ReadAllowance, Waits, AmountsWereAllowed
  <2> HIDE DEF call
  <2> QED BY <1>4, <2>1, <2>2, PlanCallStep DEF ReadAllowance
<1>5. ASSUME Ends(planCall, c)
      PROVE  /\ planCall' \in [Callers -> PlanCall \cup {NULL}]
             /\ \A d \in Callers :
                    planCall'[d] # NULL => planCall'[d] = planCall[d]
  BY <1>5 DEF Ends, AllowancesTypeOK
<1>6. CASE UpdatePlan(c)
  <2> DEFINE next == planCall[c].next
             used == Minus(planCall[c].previous, planCall[c].seen)
  <2>1. PlanOp(c, "rewrite") /\ Ends(planCall, c) /\ UNCHANGED <<onSale, sold>>
    BY <1>6 DEF UpdatePlan
  <2>2. /\ next \in Amounts /\ next \in Nat
        /\ planCall[c].previous \in Nat /\ planCall[c].seen \in Nat
    BY <1>1, <2>1, PlanCallParts
  <2>3. used \in Nat
    BY <2>2 DEF Minus
  <2>4. left' = Minus(next, used) /\ allowance' = next
        /\ highest' = Max({highest, next})
    BY <1>6 DEF UpdatePlan, Rewritten
  <2> HIDE DEF next, used
  <2>5. left' \in Nat /\ left' <= next
    BY <2>2, <2>3, <2>4 DEF Minus
  <2>6. /\ highest' \in Amounts /\ highest' \in Nat
        /\ highest' >= highest /\ highest' >= next
    BY <1>1, <2>2, <2>4, MaxOfTwo
  <2>7. AllowancesTypeOK'
    BY <1>5, <2>1, <2>2, <2>4, <2>5, <2>6 DEF AllowancesTypeOK
  <2>8. \A amount \in sold : amount \in Nat /\ amount <= highest
    BY <1>1 DEF AllowancesTypeOK, AmountsWereAllowed
  <2>9. \A d \in Callers :
            /\ PlanOp(d, "rewrite") => planCall[d].seen \in Nat
            /\ PlanOp(d, "reset") => planCall[d].amount \in Nat
    BY <1>1, PlanCallParts
  <2>9a. \A n \in Nat : n <= highest => n <= highest'
    BY <1>1, <2>6
  <2>10. AmountsWereAllowed'
    <3>1. allowance' <= highest' /\ \A amount \in sold' : amount <= highest'
      BY <2>1, <2>2, <2>4, <2>6, <2>8, <2>9a
    <3>2. ASSUME NEW d \in Callers
          PROVE  /\ PlanOp(d, "rewrite")' => planCall'[d].seen <= highest'
                 /\ PlanOp(d, "reset")' => planCall'[d].amount <= highest'
      BY <1>5, <2>1, <2>9, <2>9a DEF AmountsWereAllowed, PlanOp
    <3> QED BY <3>1, <3>2 DEF AmountsWereAllowed
  <2>11. NobodyHasMoreThanAllowed'
    BY <2>2, <2>5, <2>6 DEF NobodyHasMoreThanAllowed
  <2> QED BY <2>7, <2>10, <2>11
<1>7. CASE ResetCounter(c)
  <2>1. /\ PlanOp(c, "reset") /\ left' = planCall[c].amount
        /\ Ends(planCall, c) /\ UNCHANGED <<allowance, onSale, sold, highest>>
    BY <1>7 DEF ResetCounter
  <2>2. left' \in Nat /\ left' <= highest
    BY <1>1, <2>1, PlanCallParts DEF AmountsWereAllowed
  <2>3. AllowancesTypeOK'
    BY <1>5, <2>1, <2>2 DEF AllowancesTypeOK
  <2>4. AmountsWereAllowed'
    BY <1>5, <2>1 DEF AmountsWereAllowed, PlanOp
  <2> QED BY <2>1, <2>2, <2>3, <2>4 DEF NobodyHasMoreThanAllowed
<1>8. CASE PlanHandlerFails(c)
  <2>1. Ends(planCall, c) /\ UNCHANGED <<allowance, onSale, sold, left, highest>>
    BY <1>8 DEF PlanHandlerFails
  <2>2. AllowancesTypeOK'
    BY <1>5, <2>1 DEF AllowancesTypeOK
  <2>3. AmountsWereAllowed'
    BY <1>5, <2>1 DEF AmountsWereAllowed, PlanOp
  <2> QED BY <2>1, <2>2, <2>3 DEF NobodyHasMoreThanAllowed
<1> QED BY <1>2, <1>3, <1>4, <1>6, <1>7, <1>8

LEMMA CounterStep ==
    ASSUME AllowancesInv,
           UpdateProduct \/ CheckoutSnapshot \/ GiveSnapshot \/ UseOne
    PROVE  AllowancesInv'
<1> USE DEF AllowancesInv
<1>1. /\ allowance \in Amounts /\ left \in Nat /\ highest \in Amounts
      /\ Amounts \subseteq Nat /\ left <= highest /\ allowance <= highest
      /\ sold \subseteq Amounts
  BY AllowancesAssumption
  DEF AllowancesTypeOK, NobodyHasMoreThanAllowed, AmountsWereAllowed
<1>2. /\ UNCHANGED <<allowance, planCall, highest>>
      /\ onSale' \in BOOLEAN
  BY DEF UpdateProduct, CheckoutSnapshot, GiveSnapshot, UseOne, AllowancesTypeOK
<1>3. /\ sold' \subseteq Amounts
      /\ \A amount \in sold' : amount <= highest
  BY <1>1 DEF UpdateProduct, CheckoutSnapshot, GiveSnapshot, UseOne,
     AmountsWereAllowed
<1>4. left' \in Nat /\ left' <= highest
  BY <1>1 DEF UpdateProduct, CheckoutSnapshot, GiveSnapshot, UseOne,
     AmountsWereAllowed
<1>5. AllowancesTypeOK'
  BY <1>2, <1>3, <1>4 DEF AllowancesTypeOK
<1>6. AmountsWereAllowed'
  BY <1>2, <1>3 DEF AmountsWereAllowed, PlanOp
<1> QED BY <1>2, <1>4, <1>5, <1>6 DEF NobodyHasMoreThanAllowed

LEMMA AllowancesInitInv ==
    ASSUME AllowancesInit
    PROVE  AllowancesInv
BY AllowancesAssumption DEF AllowancesInit, AllowancesInv, AllowancesTypeOK,
   AmountsWereAllowed, NobodyHasMoreThanAllowed, PlanOp, NobodyWaits

LEMMA AllowancesNextInv ==
    ASSUME AllowancesInv, [AllowancesNext]_allowanceVars
    PROVE  AllowancesInv'
<1>1. CASE UNCHANGED allowanceVars
  BY <1>1 DEF allowanceVars, AllowancesInv, AllowancesTypeOK, AmountsWereAllowed,
     NobodyHasMoreThanAllowed, PlanOp
<1>2. CASE AllowancesNext
  BY <1>2, PlanHandlerStep, CounterStep DEF AllowancesNext
<1> QED BY <1>1, <1>2

\* Whatever edits of the plan and uses overlap, nobody has more left of an
\* allowance than the most that the plan ever gave.
THEOREM AllowancesHold == AllowancesSpec => []NobodyHasMoreThanAllowed
<1>1. AllowancesInit => AllowancesInv
  BY AllowancesInitInv
<1>2. AllowancesInv /\ [AllowancesNext]_allowanceVars => AllowancesInv'
  BY AllowancesNextInv
<1>3. AllowancesInv => NobodyHasMoreThanAllowed
  BY DEF AllowancesInv
<1> QED BY <1>1, <1>2, <1>3, PTL DEF AllowancesSpec

----------------------------------------------------------------------------
(* Deliveries.  The last delivery of a job is paid for once its attempt    *)
(* has failed or its worker has died.                                      *)

OnTheWay(job) == job.state \in {"active", "completed"} /\ job.step = "sent"

Paid(job) == job.stalls + (IF job.kind = "mail" THEN job.made ELSE 0)
                        + (IF OnTheWay(job) THEN 1 ELSE 0)

DeliveriesArePaid ==
    \A j \in Jobs : delivered[j] <= IF jobs[j] = NULL THEN 0 ELSE Paid(jobs[j])

JobsInv == JobsTypeOK /\ DeliveriesArePaid

LEMMA JobParts ==
    ASSUME NEW job \in Job
    PROVE  /\ job.made \in Nat /\ job.stalls \in Nat
           /\ Paid(job) \in Nat
           /\ Paid(job) <= job.stalls + 1
                               + (IF job.kind = "mail" THEN job.made ELSE 0)
BY DEF Job, Paid

LEMMA ReviewStepsTyped ==
    /\ \A decision \in {"APPROVED", "REJECTED"} :
           [op |-> "write", status |-> decision] \in ReviewStep
    /\ \A op \in {"match", "mail"} : [op |-> op] \in ReviewStep
BY DEF ReviewStep

LEMMA NewJobPaid ==
    ASSUME NEW kind \in {"match", "mail"}
    PROVE  NewJob(kind) \in Job /\ Paid(NewJob(kind)) = 0
BY DEF NewJob, Job, Paid, OnTheWay

\* One job goes on, and is paid for what it has delivered.
LEMMA JobGoesOn ==
    ASSUME JobsInv, NEW j \in Jobs, NEW job \in Job, SetJob(j, job),
           UNCHANGED <<request, reviewCall>>, NEW n \in Nat,
           delivered' = [delivered EXCEPT ![j] = @ + n],
           delivered[j] + n <= Paid(job)
    PROVE  JobsInv'
<1> USE DEF JobsInv
<1>1. jobs' \in [Jobs -> Job \cup {NULL}] /\ delivered' \in [Jobs -> Nat]
  BY DEF JobsTypeOK, SetJob
<1>2. \A i \in Jobs : /\ jobs'[i] = IF i = j THEN job ELSE jobs[i]
                      /\ delivered'[i] = IF i = j THEN delivered[j] + n
                                         ELSE delivered[i]
  BY DEF JobsTypeOK, SetJob
<1>3. JobsTypeOK'
  BY <1>1 DEF JobsTypeOK
<1>4. DeliveriesArePaid'
  BY <1>2, JobsAssumption DEF DeliveriesArePaid
<1> QED BY <1>3, <1>4

LEMMA JobUpdates ==
    ASSUME NEW job \in Job, NEW step \in {"start", "rank", "sent"},
           NEW state \in {"waiting", "active", "completed", "failed"}
    PROVE  /\ [job EXCEPT !.step = step] \in Job
           /\ [job EXCEPT !.state = state] \in Job
           /\ [job EXCEPT !.state = state, !.step = step] \in Job
<1>1. [job EXCEPT !.step = step] \in Job
  BY DEF Job
<1>2. [job EXCEPT !.state = state] \in Job
  BY DEF Job
<1> DEFINE moved == [job EXCEPT !.state = state]
<1>3. [job EXCEPT !.state = state, !.step = step] = [moved EXCEPT !.step = step]
  OBVIOUS
<1>4. moved \in Job
  BY <1>2
<1> HIDE DEF moved
<1>5. [moved EXCEPT !.step = step] \in Job
  BY <1>4 DEF Job
<1> QED BY <1>1, <1>2, <1>3, <1>5

LEMMA JobFailures ==
    ASSUME NEW job \in Job, NEW state \in {"waiting", "failed"}
    PROVE  /\ [job EXCEPT !.made = @ + 1, !.state = state] \in Job
           /\ Paid([job EXCEPT !.made = @ + 1, !.state = state])
                  = job.stalls + (IF job.kind = "mail" THEN job.made + 1 ELSE 0)
           /\ [job EXCEPT !.stalls = @ + 1, !.state = state] \in Job
           /\ Paid([job EXCEPT !.stalls = @ + 1, !.state = state])
                  = job.stalls + 1 + (IF job.kind = "mail" THEN job.made ELSE 0)
<1> DEFINE moved == [job EXCEPT !.state = state]
<1>1. moved \in Job /\ moved.state = state /\ moved.kind = job.kind
      /\ moved.made = job.made /\ moved.stalls = job.stalls
  BY DEF Job
<1>2. /\ [job EXCEPT !.made = @ + 1, !.state = state] = [moved EXCEPT !.made = @ + 1]
      /\ [job EXCEPT !.stalls = @ + 1, !.state = state] = [moved EXCEPT !.stalls = @ + 1]
  OBVIOUS
<1> HIDE DEF moved
<1>3. [moved EXCEPT !.made = @ + 1] \in Job
  BY <1>1 DEF Job
<1>4. /\ [moved EXCEPT !.made = @ + 1].state = state
      /\ [moved EXCEPT !.made = @ + 1].kind = job.kind
      /\ [moved EXCEPT !.made = @ + 1].made = job.made + 1
      /\ [moved EXCEPT !.made = @ + 1].stalls = job.stalls
  BY <1>1 DEF Job
<1>5. [moved EXCEPT !.stalls = @ + 1] \in Job
  BY <1>1 DEF Job
<1>6. /\ [moved EXCEPT !.stalls = @ + 1].state = state
      /\ [moved EXCEPT !.stalls = @ + 1].kind = job.kind
      /\ [moved EXCEPT !.stalls = @ + 1].made = job.made
      /\ [moved EXCEPT !.stalls = @ + 1].stalls = job.stalls + 1
  BY <1>1 DEF Job
<1>7. job.made \in Nat /\ job.stalls \in Nat
  BY DEF Job
<1> QED BY <1>2, <1>3, <1>4, <1>5, <1>6, <1>7 DEF Paid, OnTheWay

\* Steps of a worker that deliver nothing, and those that do.
LEMMA WorkerProgress ==
    ASSUME JobsInv, NEW j \in Jobs,
           \/ Take(j) \/ EmbedRequest(j) \/ NotifyLandlords(j)
           \/ SendMail(j) \/ Complete(j)
    PROVE  JobsInv'
<1> DEFINE job == jobs[j]
<1>1. jobs[j] # NULL /\ jobs[j].state \in {"waiting", "active"}
  BY DEF Take, EmbedRequest, NotifyLandlords, SendMail, Complete, AtStep, At
<1>2. job \in Job /\ delivered[j] \in Nat /\ delivered[j] <= Paid(job)
  BY <1>1 DEF JobsInv, JobsTypeOK, DeliveriesArePaid
<1>3. delivered \in [Jobs -> Nat]
  BY DEF JobsInv, JobsTypeOK
<1>4. delivered = [delivered EXCEPT ![j] = @ + 0]
  BY <1>3
<1>5. UNCHANGED <<request, reviewCall>>
  BY DEF Take, EmbedRequest, NotifyLandlords, SendMail, Complete
<1>6. CASE Take(j)
  <2> DEFINE next == [job EXCEPT !.state = "active", !.step = "start"]
  <2>1. next \in Job
    BY <1>2, JobUpdates
  <2>2. Paid(next) = Paid(job)
    BY <1>2, <1>6 DEF Take, At, Paid, OnTheWay, Job
  <2>3. SetJob(j, next) /\ delivered' = [delivered EXCEPT ![j] = @ + 0]
    BY <1>4, <1>6 DEF Take
  <2> HIDE DEF next, job
  <2>4. 0 \in Nat /\ delivered[j] + 0 <= Paid(next)
    BY <1>2, <2>2
  <2> QED BY <1>5, <2>1, <2>3, <2>4, JobGoesOn
<1>7. CASE EmbedRequest(j)
  <2> DEFINE next == [job EXCEPT !.step = "rank"]
  <2>1. next \in Job
    BY <1>2, JobUpdates
  <2>2. Paid(next) = Paid(job)
    BY <1>2, <1>7 DEF EmbedRequest, AtStep, At, Paid, OnTheWay, Job
  <2>3. SetJob(j, next) /\ delivered' = [delivered EXCEPT ![j] = @ + 0]
    BY <1>4, <1>7 DEF EmbedRequest
  <2> HIDE DEF next, job
  <2>4. 0 \in Nat /\ delivered[j] + 0 <= Paid(next)
    BY <1>2, <2>2
  <2> QED BY <1>5, <2>1, <2>3, <2>4, JobGoesOn
<1>8. CASE NotifyLandlords(j) \/ SendMail(j)
  <2> DEFINE next == [job EXCEPT !.step = "sent"]
  <2>1. next \in Job
    BY <1>2, JobUpdates
  <2>2. Paid(next) = Paid(job) + 1 /\ Paid(job) \in Nat
    BY <1>2, <1>8, JobParts
    DEF NotifyLandlords, SendMail, AtStep, At, Paid, OnTheWay, Job
  <2>3. PICK n \in {0, 1} : delivered' = [delivered EXCEPT ![j] = @ + n]
    BY <1>8 DEF NotifyLandlords, SendMail, HighMatches
  <2>4. SetJob(j, next)
    BY <1>8 DEF NotifyLandlords, SendMail
  <2> HIDE DEF next, job
  <2>5. n \in Nat /\ delivered[j] + n <= Paid(next)
    BY <1>2, <2>2
  <2> QED BY <1>5, <2>1, <2>3, <2>4, <2>5, JobGoesOn
<1>9. CASE Complete(j)
  <2> DEFINE next == [job EXCEPT !.state = "completed"]
  <2>1. next \in Job
    BY <1>2, JobUpdates
  <2>2. Paid(next) = Paid(job)
    BY <1>2, <1>9 DEF Complete, At, Paid, OnTheWay, Job
  <2>3. SetJob(j, next) /\ delivered' = [delivered EXCEPT ![j] = @ + 0]
    BY <1>4, <1>9 DEF Complete
  <2> HIDE DEF next, job
  <2>4. 0 \in Nat /\ delivered[j] + 0 <= Paid(next)
    BY <1>2, <2>2
  <2> QED BY <1>5, <2>1, <2>3, <2>4, JobGoesOn
<1> QED BY <1>6, <1>7, <1>8, <1>9

LEMMA WorkerFailure ==
    ASSUME JobsInv, NEW j \in Jobs, Fail(j) \/ WorkerDies(j)
    PROVE  JobsInv'
<1> DEFINE job == jobs[j]
<1>1. jobs[j] # NULL
  BY DEF Fail, WorkerDies, At
<1>2. job \in Job /\ delivered[j] \in Nat /\ delivered[j] <= Paid(job)
      /\ job.made \in Nat /\ job.stalls \in Nat
  BY <1>1 DEF JobsInv, JobsTypeOK, DeliveriesArePaid, Job
<1>3. delivered \in [Jobs -> Nat]
  BY DEF JobsInv, JobsTypeOK
<1>4. UNCHANGED <<request, reviewCall>>
      /\ delivered' = [delivered EXCEPT ![j] = @ + 0]
  BY <1>3 DEF Fail, WorkerDies
<1>5. CASE Fail(j)
  <2> DEFINE state == Retry(job.made + 1, Attempts(job.kind))
             next == [job EXCEPT !.made = @ + 1, !.state = state]
  <2>1. state \in {"waiting", "failed"}
    BY DEF Retry
  <2>2. MayFail(job) /\ SetJob(j, next)
    BY <1>5 DEF Fail
  <2> HIDE DEF state
  <2>3. next \in Job
        /\ Paid(next) = job.stalls + (IF job.kind = "mail" THEN job.made + 1 ELSE 0)
    BY <1>2, <2>1, JobFailures
  <2> HIDE DEF next
  <2>4. Paid(job) <= Paid(next)
    BY <1>2, <2>2, <2>3 DEF MayFail, Paid, OnTheWay
  <2>5. delivered[j] + 0 <= Paid(next) /\ Paid(job) \in Nat /\ Paid(next) \in Nat
    BY <1>2, <2>3, <2>4, JobParts
  <2> HIDE DEF job
  <2> QED BY <1>4, <2>2, <2>3, <2>5, JobGoesOn
<1>6. CASE WorkerDies(j)
  <2> DEFINE state == Retry(job.stalls, MaxStalls)
             next == [job EXCEPT !.stalls = @ + 1, !.state = state]
  <2>1. state \in {"waiting", "failed"}
    BY DEF Retry
  <2>2. SetJob(j, next)
    BY <1>6 DEF WorkerDies
  <2> HIDE DEF state
  <2>3. next \in Job
        /\ Paid(next) = job.stalls + 1 + (IF job.kind = "mail" THEN job.made ELSE 0)
    BY <1>2, <2>1, JobFailures
  <2> HIDE DEF next
  <2>4. Paid(job) <= Paid(next)
    BY <1>2, <2>3 DEF Paid
  <2>5. delivered[j] + 0 <= Paid(next) /\ Paid(job) \in Nat /\ Paid(next) \in Nat
    BY <1>2, <2>3, <2>4, JobParts
  <2> HIDE DEF job
  <2> QED BY <1>4, <2>2, <2>3, <2>5, JobGoesOn
<1> QED BY <1>5, <1>6

LEMMA ModeratorStep ==
    ASSUME JobsInv, NEW c \in Callers,
           \/ ReadRequest(c) \/ WriteDecision(c)
           \/ EnqueueMatch(c) \/ EnqueueMail(c) \/ ReviewFails(c)
    PROVE  JobsInv'
<1> USE DEF JobsInv
<1>1. /\ UNCHANGED delivered
      /\ request' \in {"PENDING", "APPROVED", "REJECTED"}
      /\ reviewCall' \in [Callers -> ReviewStep \cup {NULL}]
  <2>1. reviewCall \in [Callers -> ReviewStep \cup {NULL}]
        /\ request \in {"PENDING", "APPROVED", "REJECTED"}
    BY DEF JobsTypeOK
  <2>2. CASE ReadRequest(c)
    <3>1. PICK decision \in {"APPROVED", "REJECTED"} :
              Waits(reviewCall, c, [op |-> "write", status |-> decision])
      BY <2>2 DEF ReadRequest
    <3> DEFINE call == [op |-> "write", status |-> decision]
    <3>2. call \in ReviewStep /\ reviewCall' = [reviewCall EXCEPT ![c] = call]
      BY <3>1, ReviewStepsTyped DEF Waits
    <3> HIDE DEF call
    <3> QED BY <2>1, <2>2, <3>2 DEF ReadRequest
  <2>3. CASE WriteDecision(c)
    <3> DEFINE op == IF reviewCall[c].status = "APPROVED" THEN "match" ELSE "mail"
               call == [op |-> op]
    <3>1. call \in ReviewStep
      BY ReviewStepsTyped
    <3>2. reviewCall' = [reviewCall EXCEPT ![c] = call]
      BY <2>1, <2>3 DEF WriteDecision
    <3>3. reviewCall[c].status \in {"APPROVED", "REJECTED"}
      BY <2>1, <2>3 DEF WriteDecision, ReviewStep
    <3> HIDE DEF call
    <3> QED BY <2>1, <2>3, <3>1, <3>2, <3>3 DEF WriteDecision
  <2>4. CASE EnqueueMatch(c)
    <3>1. [reviewCall[c] EXCEPT !.op = "mail"] \in ReviewStep
      BY <2>1, <2>4 DEF EnqueueMatch, ReviewStep
    <3>2. reviewCall' = [reviewCall EXCEPT ![c] = [reviewCall[c] EXCEPT !.op = "mail"]]
      BY <2>1, <2>4 DEF EnqueueMatch
    <3> QED BY <2>1, <2>4, <3>1, <3>2 DEF EnqueueMatch
  <2>5. CASE EnqueueMail(c) \/ ReviewFails(c)
    BY <2>1, <2>5 DEF EnqueueMail, ReviewFails, Ends
  <2> QED BY <2>2, <2>3, <2>4, <2>5
<1>2. UNCHANGED jobs
      \/ \E j \in Jobs, kind \in {"match", "mail"} :
             jobs[j] = NULL /\ jobs' = [jobs EXCEPT ![j] = NewJob(kind)]
  BY DEF ReadRequest, WriteDecision, EnqueueMatch, EnqueueMail, ReviewFails, Enqueue
<1>3. CASE UNCHANGED jobs
  BY <1>1, <1>3 DEF JobsTypeOK, DeliveriesArePaid
<1>4. ASSUME NEW j \in Jobs, NEW kind \in {"match", "mail"}, jobs[j] = NULL,
             jobs' = [jobs EXCEPT ![j] = NewJob(kind)]
      PROVE  JobsInv'
  <2>1. NewJob(kind) \in Job /\ Paid(NewJob(kind)) = 0
    BY NewJobPaid
  <2>2. \A i \in Jobs : jobs'[i] = IF i = j THEN NewJob(kind) ELSE jobs[i]
    BY <1>4 DEF JobsTypeOK
  <2>3. JobsTypeOK'
    BY <1>1, <1>4, <2>1 DEF JobsTypeOK
  <2>4. DeliveriesArePaid'
    BY <1>1, <1>4, <2>1, <2>2, JobsAssumption DEF DeliveriesArePaid
  <2> QED BY <2>3, <2>4
<1> QED BY <1>2, <1>3, <1>4

LEMMA JobsInitInv ==
    ASSUME JobsInit
    PROVE  JobsInv
BY DEF JobsInit, JobsInv, JobsTypeOK, DeliveriesArePaid, NobodyWaits

LEMMA JobsNextInv ==
    ASSUME JobsInv, [JobsNext]_jobVars
    PROVE  JobsInv'
<1>1. CASE UNCHANGED jobVars
  BY <1>1 DEF jobVars, JobsInv, JobsTypeOK, DeliveriesArePaid
<1>2. CASE JobsNext
  BY <1>2, ModeratorStep, WorkerProgress, WorkerFailure DEF JobsNext, WorkerStep
<1> QED BY <1>1, <1>2

LEMMA PaidDeliveriesAreBounded ==
    ASSUME JobsInv
    PROVE  DeliveriesAreBounded
<1> SUFFICES ASSUME NEW j \in Jobs, jobs[j] # NULL
             PROVE  delivered[j] <= jobs[j].stalls + 1
                           + (IF jobs[j].kind = "mail" THEN jobs[j].made ELSE 0)
  BY DEF DeliveriesAreBounded
<1>1. jobs[j] \in Job /\ delivered[j] \in Nat
  BY DEF JobsInv, JobsTypeOK
<1>2. delivered[j] <= Paid(jobs[j])
  BY DEF JobsInv, DeliveriesArePaid
<1> QED BY <1>1, <1>2, JobParts

\* A job is delivered at most once more than its failed mails and the deaths of
\* its workers.
THEOREM DeliveriesBounded == JobsSpec => []DeliveriesAreBounded
<1>1. JobsInit => JobsInv
  BY JobsInitInv
<1>2. JobsInv /\ [JobsNext]_jobVars => JobsInv'
  BY JobsNextInv
<1>3. JobsInv => DeliveriesAreBounded
  BY PaidDeliveriesAreBounded
<1> QED BY <1>1, <1>2, <1>3, PTL DEF JobsSpec

----------------------------------------------------------------------------
(* The effort a job can still take.  One that is not done has an attempt   *)
(* and a pick-up left.                                                     *)

InTime(job) ==
    /\ TriesLeft(job) >= 0 /\ DeathsLeft(job) >= 0
    /\ job.state \in {"waiting", "active"} => TriesLeft(job) > 0 /\ DeathsLeft(job) > 0

JobsAreInTime == \A j \in Jobs : jobs[j] # NULL => InTime(jobs[j])

WearInv == JobsTypeOK /\ JobsAreInTime

LEMMA EffortParts ==
    ASSUME NEW job \in Job
    PROVE  /\ Attempts(job.kind) \in Nat \ {0}
           /\ TriesLeft(job) \in Int /\ DeathsLeft(job) \in Int
           /\ StepsLeft(job) \in 0 .. 4
           /\ job.state = "waiting" => StepsLeft(job) = 4
           /\ job.state \in {"completed", "failed"} => StepsLeft(job) = 0
           /\ job.state = "active" =>
                  StepsLeft(job) = IF job.step = "start" THEN 3
                                   ELSE IF job.step = "rank" THEN 2 ELSE 1
BY JobsAssumption DEF Job, Attempts, TriesLeft, DeathsLeft, StepsLeft

\* A step that is no failure has the next step before it.
LEMMA GoingOnWearsOut ==
    ASSUME NEW job \in Job, InTime(job), NEW next \in Job,
           next.kind = job.kind, next.made = job.made, next.stalls = job.stalls,
           job.state \in {"waiting", "active"}, StepsLeft(next) < StepsLeft(job)
    PROVE  InTime(next) /\ Effort(next) < Effort(job)
<1>1. TriesLeft(next) = TriesLeft(job) /\ DeathsLeft(next) = DeathsLeft(job)
  BY DEF TriesLeft, DeathsLeft
<1> QED BY <1>1, EffortParts DEF InTime, Effort

\* A round costs more than its steps.
LEMMA RoundsOutweighSteps ==
    ASSUME NEW a \in Int, NEW b \in Int, NEW x \in Int, NEW y \in Int,
           b = a - 1, x >= 1, y <= 4
    PROVE  5 * b + y < 5 * a + x
OBVIOUS

\* A failure or a death costs more than the round that begins again.
LEMMA FailingWearsOut ==
    ASSUME NEW job \in Job, InTime(job), NEW next \in Job,
           next.kind = job.kind, job.state = "active",
           \/ /\ next.made = job.made + 1 /\ next.stalls = job.stalls
              /\ next.state = Retry(job.made + 1, Attempts(job.kind))
           \/ /\ next.stalls = job.stalls + 1 /\ next.made = job.made
              /\ next.state = Retry(job.stalls, MaxStalls)
    PROVE  InTime(next) /\ Effort(next) < Effort(job)
<1>1. job.made \in Nat /\ job.stalls \in Nat /\ MaxStalls \in Nat
      /\ Attempts(job.kind) \in Nat /\ Attempts(next.kind) = Attempts(job.kind)
  BY EffortParts, JobsAssumption DEF Job
<1>2. StepsLeft(job) >= 1 /\ StepsLeft(next) <= 4
      /\ StepsLeft(job) \in Int /\ StepsLeft(next) \in Int
  BY EffortParts
<1>3. InTime(next)
  BY <1>1 DEF InTime, TriesLeft, DeathsLeft, Retry
<1>4. TriesLeft(next) + DeathsLeft(next) = (TriesLeft(job) + DeathsLeft(job)) - 1
      /\ TriesLeft(job) + DeathsLeft(job) \in Int
      /\ TriesLeft(next) + DeathsLeft(next) \in Int
  BY <1>1 DEF TriesLeft, DeathsLeft
<1>5. Effort(next) < Effort(job)
  <2> DEFINE a == TriesLeft(job) + DeathsLeft(job)
             b == TriesLeft(next) + DeathsLeft(next)
             x == StepsLeft(job)
             y == StepsLeft(next)
  <2>1. a \in Int /\ b \in Int /\ b = a - 1
    BY <1>4
  <2>2. x \in Int /\ y \in Int /\ x >= 1 /\ y <= 4
    BY <1>2
  <2>3. Effort(next) = 5 * b + y /\ Effort(job) = 5 * a + x
    BY DEF Effort
  <2> HIDE DEF a, b, x, y
  <2>4. 5 * b + y < 5 * a + x
    BY <2>1, <2>2, RoundsOutweighSteps
  <2> QED BY <2>3, <2>4
<1> QED BY <1>3, <1>5

\* What one step of a worker makes of a job.
WornBy(j) ==
    /\ jobs'[j] \in Job
    /\ InTime(jobs'[j])
    /\ Effort(jobs'[j]) < Effort(jobs[j])
    /\ \A i \in Jobs \ {j} : jobs'[i] = jobs[i]

LEMMA SetJobWorn ==
    ASSUME JobsTypeOK, NEW j \in Jobs, NEW next \in Job, SetJob(j, next),
           InTime(next), Effort(next) < Effort(jobs[j])
    PROVE  WornBy(j)
BY DEF JobsTypeOK, SetJob, WornBy

LEMMA WorkerGoesOn ==
    ASSUME WearInv, NEW j \in Jobs,
           \/ Take(j) \/ EmbedRequest(j) \/ NotifyLandlords(j)
           \/ SendMail(j) \/ Complete(j)
    PROVE  WornBy(j)
<1> DEFINE job == jobs[j]
<1>1. jobs[j] # NULL /\ jobs[j].state \in {"waiting", "active"}
  BY DEF Take, EmbedRequest, NotifyLandlords, SendMail, Complete, AtStep, At
<1>2. job \in Job /\ InTime(job) /\ JobsTypeOK
  BY <1>1 DEF WearInv, JobsTypeOK, JobsAreInTime
<1>3. ASSUME NEW next \in Job, SetJob(j, next), next.kind = job.kind,
             next.made = job.made, next.stalls = job.stalls,
             StepsLeft(next) < StepsLeft(job)
      PROVE  WornBy(j)
  <2>1. InTime(next) /\ Effort(next) < Effort(job)
    BY <1>1, <1>2, <1>3, GoingOnWearsOut
  <2> QED BY <1>2, <1>3, <2>1, SetJobWorn
<1>4. CASE Take(j)
  <2> DEFINE next == [job EXCEPT !.state = "active", !.step = "start"]
  <2>1. /\ next \in Job /\ next.kind = job.kind /\ next.made = job.made
        /\ next.stalls = job.stalls /\ next.state = "active" /\ next.step = "start"
    <3> DEFINE moved == [job EXCEPT !.state = "active"]
    <3>1. /\ moved \in Job /\ moved.kind = job.kind /\ moved.made = job.made
          /\ moved.stalls = job.stalls /\ moved.state = "active"
      BY <1>2 DEF Job
    <3>2. next = [moved EXCEPT !.step = "start"]
      OBVIOUS
    <3> HIDE DEF moved, next
    <3> QED BY <3>1, <3>2 DEF Job
  <2>2. job.state = "waiting" /\ SetJob(j, next)
    BY <1>4 DEF Take, At
  <2> HIDE DEF next, job
  <2> QED BY <1>2, <1>3, <2>1, <2>2, EffortParts
<1>5. CASE EmbedRequest(j) \/ NotifyLandlords(j) \/ SendMail(j)
  <2>1. PICK step \in {"rank", "sent"} :
            /\ SetJob(j, [job EXCEPT !.step = step])
            /\ job.state = "active" /\ job.step \in {"start", "rank"}
            /\ job.step = "rank" => step = "sent"
    BY <1>5 DEF EmbedRequest, NotifyLandlords, SendMail, AtStep, At
  <2> DEFINE next == [job EXCEPT !.step = step]
  <2>2. /\ next \in Job /\ next.kind = job.kind /\ next.made = job.made
        /\ next.stalls = job.stalls /\ next.state = job.state /\ next.step = step
    BY <1>2 DEF Job
  <2>3. SetJob(j, next)
    BY <2>1
  <2> HIDE DEF next, job
  <2> QED BY <1>2, <1>3, <2>1, <2>2, <2>3, EffortParts
<1>6. CASE Complete(j)
  <2> DEFINE next == [job EXCEPT !.state = "completed"]
  <2>1. /\ next \in Job /\ next.kind = job.kind /\ next.made = job.made
        /\ next.stalls = job.stalls /\ next.state = "completed"
    BY <1>2 DEF Job
  <2>2. job.state = "active" /\ SetJob(j, next)
    BY <1>6 DEF Complete, At
  <2> HIDE DEF next, job
  <2> QED BY <1>2, <1>3, <2>1, <2>2, EffortParts
<1> QED BY <1>4, <1>5, <1>6

LEMMA WorkerFailsWorn ==
    ASSUME WearInv, NEW j \in Jobs, Fail(j) \/ WorkerDies(j)
    PROVE  WornBy(j)
<1> DEFINE job == jobs[j]
<1>1. jobs[j] # NULL /\ jobs[j].state = "active"
  BY DEF Fail, WorkerDies, At
<1>2. job \in Job /\ InTime(job) /\ JobsTypeOK
  BY <1>1 DEF WearInv, JobsTypeOK, JobsAreInTime
<1>3. CASE Fail(j)
  <2> DEFINE state == Retry(job.made + 1, Attempts(job.kind))
             next == [job EXCEPT !.made = @ + 1, !.state = state]
  <2>1. state \in {"waiting", "failed"}
    BY DEF Retry
  <2>2. SetJob(j, next) /\ state = Retry(job.made + 1, Attempts(job.kind))
    BY <1>3 DEF Fail
  <2> HIDE DEF state
  <2>3. /\ next \in Job /\ next.kind = job.kind /\ next.made = job.made + 1
        /\ next.stalls = job.stalls /\ next.state = state
    BY <1>2, <2>1, JobFailures DEF Job
  <2> HIDE DEF next, job
  <2>4. InTime(next) /\ Effort(next) < Effort(job)
    BY <1>1, <1>2, <2>2, <2>3, FailingWearsOut DEF job
  <2> QED BY <1>2, <2>2, <2>3, <2>4, SetJobWorn DEF job
<1>4. CASE WorkerDies(j)
  <2> DEFINE state == Retry(job.stalls, MaxStalls)
             next == [job EXCEPT !.stalls = @ + 1, !.state = state]
  <2>1. state \in {"waiting", "failed"}
    BY DEF Retry
  <2>2. SetJob(j, next) /\ state = Retry(job.stalls, MaxStalls)
    BY <1>4 DEF WorkerDies
  <2> HIDE DEF state
  <2>3. /\ next \in Job /\ next.kind = job.kind /\ next.made = job.made
        /\ next.stalls = job.stalls + 1 /\ next.state = state
    BY <1>2, <2>1, JobFailures DEF Job
  <2> HIDE DEF next, job
  <2>4. InTime(next) /\ Effort(next) < Effort(job)
    BY <1>1, <1>2, <2>2, <2>3, FailingWearsOut DEF job
  <2> QED BY <1>2, <2>2, <2>3, <2>4, SetJobWorn DEF job
<1> QED BY <1>3, <1>4

LEMMA NewJobInTime ==
    ASSUME NEW kind \in {"match", "mail"}
    PROVE  NewJob(kind) \in Job /\ InTime(NewJob(kind))
BY NewJobPaid, JobsAssumption
DEF NewJob, InTime, TriesLeft, DeathsLeft, Attempts

\* A moderator's step leaves the jobs that are there alone.
LEMMA ModeratorAdds ==
    ASSUME WearInv, NEW c \in Callers,
           \/ ReadRequest(c) \/ WriteDecision(c)
           \/ EnqueueMatch(c) \/ EnqueueMail(c) \/ ReviewFails(c)
    PROVE  \A j \in Jobs : \/ jobs'[j] = jobs[j]
                           \/ jobs[j] = NULL /\ InTime(jobs'[j])
<1>1. UNCHANGED jobs
      \/ \E j \in Jobs, kind \in {"match", "mail"} :
             jobs[j] = NULL /\ jobs' = [jobs EXCEPT ![j] = NewJob(kind)]
  BY DEF ReadRequest, WriteDecision, EnqueueMatch, EnqueueMail, ReviewFails, Enqueue
<1>2. jobs \in [Jobs -> Job \cup {NULL}]
  BY DEF WearInv, JobsTypeOK
<1> QED BY <1>1, <1>2, NewJobInTime

\* Every job, in every step.
LEMMA JobStepWears ==
    ASSUME WearInv, [JobsNext]_jobVars, NEW j \in Jobs
    PROVE  \/ jobs'[j] = jobs[j]
           \/ jobs[j] = NULL /\ InTime(jobs'[j])
           \/ jobs'[j] \in Job /\ InTime(jobs'[j]) /\ Effort(jobs'[j]) < Effort(jobs[j])
<1>1. CASE UNCHANGED jobVars
  BY <1>1 DEF jobVars
<1>2. ASSUME NEW c \in Callers,
             \/ ReadRequest(c) \/ WriteDecision(c)
             \/ EnqueueMatch(c) \/ EnqueueMail(c) \/ ReviewFails(c)
      PROVE  jobs'[j] = jobs[j] \/ (jobs[j] = NULL /\ InTime(jobs'[j]))
  BY <1>2, ModeratorAdds
<1>3. ASSUME NEW i \in Jobs, WorkerStep(i) \/ WorkerDies(i)
      PROVE  \/ jobs'[j] = jobs[j]
             \/ jobs'[j] \in Job /\ InTime(jobs'[j]) /\ Effort(jobs'[j]) < Effort(jobs[j])
  <2>1. WornBy(i)
    BY <1>3, WorkerGoesOn, WorkerFailsWorn DEF WorkerStep
  <2> QED BY <2>1 DEF WornBy
<1> QED BY <1>1, <1>2, <1>3 DEF JobsNext

LEMMA WearInvStep ==
    ASSUME WearInv, [JobsNext]_jobVars, JobsTypeOK'
    PROVE  WearInv'
<1>1. JobsAreInTime'
  BY JobStepWears DEF WearInv, JobsAreInTime
<1> QED BY <1>1 DEF WearInv

\* No job goes round in circles: every step of one takes something off what is
\* left of its attempts, its pick-ups and its steps, for any number of jobs,
\* attempts and pick-ups.
THEOREM JobsDoWearOut == JobsSpec => JobsWearOut
<1> DEFINE Worn == \A j \in Jobs :
           jobs[j] # NULL /\ jobs'[j] # jobs[j] =>
               /\ jobs'[j] # NULL
               /\ TriesLeft(jobs'[j]) >= 0
               /\ DeathsLeft(jobs'[j]) >= 0
               /\ Effort(jobs'[j]) < Effort(jobs[j])
<1>1. JobsInit => JobsInv /\ WearInv
  BY JobsInitInv DEF JobsInit, JobsInv, WearInv, JobsAreInTime
<1>2. JobsInv /\ WearInv /\ [JobsNext]_jobVars => JobsInv' /\ WearInv'
  BY JobsNextInv, WearInvStep DEF JobsInv
<1>3. WearInv /\ [JobsNext]_jobVars => [Worn]_jobVars
  BY JobStepWears, JobsAssumption DEF InTime
<1> QED
  BY <1>1, <1>2, <1>3, PTL DEF JobsSpec, JobsWearOut

----------------------------------------------------------------------------
(* Listings.  What a handler has read as the limit was the limit at some   *)
(* time; each count is taken in the step that writes.                      *)

Allowed(call) == call.op \in {"create", "resubmit"} => call.limit <= best

LimitsWereAllowed ==
    /\ limit <= best
    /\ \A a \in Actors : unitCall[a] # NULL =>
           /\ Allowed(unitCall[a])
           /\ unitCall[a].op = "grace" /\ unitCall[a].next # NULL =>
                  Allowed(unitCall[a].next)

CapacityInv == CapacityTypeOK /\ LimitsWereAllowed /\ OnlyRevivalsExceed

LEMMA CountTyped ==
    ASSUME CapacityTypeOK
    PROVE  /\ IsFiniteSet(Active) /\ ActiveCount \in Nat
           /\ limit \in Nat /\ best \in Nat /\ revived \in Nat
<1>1. Active \subseteq Listings
  BY DEF Active
<1>2. IsFiniteSet(Active)
  BY <1>1, CapacityAssumption, FS_Subset
<1>3. ActiveCount \in Nat
  BY <1>2, FS_CardinalityType DEF ActiveCount
<1> QED BY <1>2, <1>3, CapacityAssumption DEF CapacityTypeOK

LEMMA UnitCallParts ==
    ASSUME CapacityTypeOK, NEW a \in Actors, unitCall[a] # NULL
    PROVE  /\ unitCall[a].op \in {"create", "resubmit"} => unitCall[a].limit \in Limits
           /\ unitCall[a].op \in {"resubmit", "activate", "reject"} =>
                  unitCall[a].listing \in Listings
           /\ unitCall[a].op = "grace" =>
                  /\ unitCall[a].write \in Grace
                  /\ unitCall[a].next \in NextCall \cup {NULL}
           /\ unitCall[a].op = "archive" => unitCall[a].chosen \in SUBSET Listings
<1>1. unitCall[a] \in UnitCall
  BY DEF CapacityTypeOK
<1>2. unitCall[a].op = "grace" =>
          /\ unitCall[a].write \in Grace
          /\ unitCall[a].next \in NextCall \cup {NULL}
  BY <1>1 DEF UnitCall, NextCall, Grace
<1>3. unitCall[a].op \in {"create", "resubmit"} => unitCall[a].limit \in Limits
  BY <1>1 DEF UnitCall, NextCall
<1>4. unitCall[a].op \in {"resubmit", "activate", "reject"} =>
          unitCall[a].listing \in Listings
  BY <1>1 DEF UnitCall, NextCall
<1>5. unitCall[a].op = "archive" => unitCall[a].chosen \in SUBSET Listings
  BY <1>1 DEF UnitCall, NextCall
<1> QED BY <1>2, <1>3, <1>4, <1>5

LEMMA NextLimitTyped ==
    ASSUME NEW next \in NextCall
    PROVE  next.op \in {"create", "resubmit"} => next.limit \in Limits
BY DEF NextCall

LEMMA NextCallsTyped ==
    ASSUME NEW n \in Limits, NEW l \in Listings, NEW k \in Nat
    PROVE  /\ [op |-> "create", limit |-> n] \in NextCall
           /\ [op |-> "resubmit", listing |-> l, limit |-> n] \in NextCall
           /\ [op |-> "choose", excess |-> k] \in NextCall
BY DEF NextCall

LEMMA UnitCallsTyped ==
    /\ NextCall \subseteq UnitCall
    /\ \A w \in {"none", "running"}, next \in NextCall \cup {NULL} :
           [op |-> "grace", write |-> w, next |-> next] \in UnitCall
    /\ \A op \in {"activate", "reject"}, l \in Listings :
           [op |-> op, listing |-> l] \in UnitCall
    /\ \A chosen \in SUBSET Listings : [op |-> "archive", chosen |-> chosen] \in UnitCall
    /\ [op |-> "clear"] \in UnitCall
BY DEF UnitCall

LEMMA CallersAct == Callers \subseteq Actors /\ Enforcer \in Actors
BY DEF Actors

\* A handler goes on with a call, or ends; listings and limits stay.
LEMMA UnitCallStep ==
    ASSUME CapacityInv, NEW a \in Actors, NEW call \in UnitCall \cup {NULL},
           unitCall' = [unitCall EXCEPT ![a] = call],
           UNCHANGED <<status, limit, best, revived>>, grace' \in Grace,
           call # NULL =>
               /\ Allowed(call)
               /\ call.op = "grace" /\ call.next # NULL => Allowed(call.next)
    PROVE  CapacityInv'
<1> USE DEF CapacityInv
<1>1. CapacityTypeOK'
  BY DEF CapacityTypeOK
<1>2. \A b \in Actors : unitCall'[b] = IF b = a THEN call ELSE unitCall[b]
  BY DEF CapacityTypeOK
<1>3. LimitsWereAllowed'
  BY <1>2 DEF LimitsWereAllowed, Allowed
<1>4. OnlyRevivalsExceed'
  BY DEF OnlyRevivalsExceed, ActiveCount, Active
<1> QED BY <1>1, <1>3, <1>4

LEMMA ReadCapacityStep ==
    ASSUME CapacityInv, NEW a \in Actors, NEW next \in NextCall \cup {NULL},
           ReadCapacity(a, next), next # NULL => Allowed(next)
    PROVE  CapacityInv'
<1> USE DEF CapacityInv
<1>1. grace \in Grace /\ UNCHANGED <<status, limit, grace, best, revived>>
  BY DEF ReadCapacity, OnlyCalls, CapacityTypeOK
<1>2. CASE GraceFor = grace
  <2>1. unitCall' = [unitCall EXCEPT ![a] = next]
    BY <1>2 DEF ReadCapacity, Goto
  <2>2. next \in UnitCall \cup {NULL}
    BY UnitCallsTyped
  <2>3. next # NULL => next.op # "grace"
    BY DEF NextCall
  <2> QED BY <1>1, <2>1, <2>2, <2>3, UnitCallStep
<1>3. CASE GraceFor # grace
  <2> DEFINE call == [op |-> "grace", write |-> GraceFor, next |-> next]
  <2>1. GraceFor \in {"none", "running"}
    BY <1>3 DEF GraceFor
  <2>2. /\ call \in UnitCall /\ call.op = "grace" /\ call.next = next
    BY <2>1, UnitCallsTyped
  <2>3. unitCall' = [unitCall EXCEPT ![a] = call]
    BY <1>3 DEF ReadCapacity, Goto
  <2>4. Allowed(call)
    BY <2>2 DEF Allowed
  <2> HIDE DEF call
  <2> QED BY <1>1, <2>2, <2>3, <2>4, UnitCallStep
<1> QED BY <1>2, <1>3

LEMMA ReadLimitStep ==
    ASSUME CapacityInv,
           \/ \E c \in Callers : GetQuota(c) \/ AskCreate(c) \/ ReadToResubmit(c)
           \/ ReadToEnforce
    PROVE  CapacityInv'
<1>1. /\ limit \in Limits /\ limit <= best /\ ActiveCount \in Nat /\ limit \in Nat
  BY CountTyped DEF CapacityInv, CapacityTypeOK, LimitsWereAllowed
<1>2. ASSUME NEW c \in Callers, GetQuota(c)
      PROVE  CapacityInv'
  BY <1>2, CallersAct, ReadCapacityStep DEF GetQuota
<1>3. ASSUME NEW c \in Callers, AskCreate(c)
      PROVE  CapacityInv'
  <2> DEFINE call == [op |-> "create", limit |-> limit]
             next == IF ActiveCount < limit THEN call ELSE NULL
  <2>1. call \in NextCall /\ Allowed(call)
    BY <1>1, NextCallsTyped DEF Allowed, NextCall
  <2>2. ReadCapacity(c, next)
    BY <1>3 DEF AskCreate
  <2>3. next \in NextCall \cup {NULL} /\ (next # NULL => Allowed(next))
    BY <2>1
  <2> HIDE DEF next
  <2> QED BY <2>2, <2>3, CallersAct, ReadCapacityStep
<1>4. ASSUME NEW c \in Callers, ReadToResubmit(c)
      PROVE  CapacityInv'
  <2>1. PICK l \in Listings :
            ReadCapacity(c, [op |-> "resubmit", listing |-> l, limit |-> limit])
    BY <1>4 DEF ReadToResubmit
  <2> DEFINE next == [op |-> "resubmit", listing |-> l, limit |-> limit]
  <2>2. next \in NextCall /\ next.limit = limit
    BY <1>1, NextCallsTyped DEF NextCall
  <2>3. ReadCapacity(c, next)
    BY <2>1
  <2> HIDE DEF next
  <2> QED BY <1>1, <2>2, <2>3, CallersAct, ReadCapacityStep DEF Allowed
<1>5. CASE ReadToEnforce
  <2> DEFINE call == [op |-> "choose", excess |-> ActiveCount - limit]
             next == IF GraceFor = "over" THEN call ELSE NULL
  <2>1. GraceFor = "over" => ActiveCount - limit \in Nat
    BY <1>1 DEF GraceFor
  <2>2. GraceFor = "over" => call \in NextCall
    BY <2>1 DEF NextCall
  <2>3. Allowed(call)
    BY DEF Allowed
  <2>4. ReadCapacity(Enforcer, next)
    BY <1>5 DEF ReadToEnforce
  <2>5. next \in NextCall \cup {NULL} /\ (next # NULL => Allowed(next))
    BY <2>2, <2>3
  <2> HIDE DEF next
  <2> QED BY <2>4, <2>5, CallersAct, ReadCapacityStep
<1> QED BY <1>2, <1>3, <1>4, <1>5

LEMMA OtherCallStep ==
    ASSUME CapacityInv, NEW a \in Actors,
           \/ WriteGrace(a) \/ UnitHandlerFails(a)
           \/ a \in Callers /\ ReadActive(a)
           \/ a = Enforcer /\ (ChooseNewest \/ ClearGrace)
    PROVE  CapacityInv'
<1>1. grace \in Grace
  BY DEF CapacityInv, CapacityTypeOK
<1>2. CASE WriteGrace(a)
  <2>1. unitCall[a] # NULL /\ unitCall[a].op = "grace"
    BY <1>2 DEF WriteGrace, In
  <2>2. unitCall[a].write \in Grace /\ unitCall[a].next \in NextCall \cup {NULL}
    BY <2>1, UnitCallParts DEF CapacityInv
  <2>3. unitCall[a].next # NULL =>
            Allowed(unitCall[a].next) /\ unitCall[a].next.op # "grace"
    BY <2>1, <2>2 DEF CapacityInv, LimitsWereAllowed, NextCall
  <2>4. unitCall[a].next \in UnitCall \cup {NULL}
    BY <2>2, UnitCallsTyped
  <2> QED BY <1>2, <2>2, <2>3, <2>4, UnitCallStep DEF WriteGrace, Goto
<1>3. CASE UnitHandlerFails(a)
  BY <1>1, <1>3, UnitCallStep DEF UnitHandlerFails, Ends, OnlyCalls
<1>4. CASE a \in Callers /\ ReadActive(a)
  <2>1. PICK l \in Active, op \in {"activate", "reject"} :
            Waits(unitCall, a, [op |-> op, listing |-> l])
    BY <1>4 DEF ReadActive
  <2> DEFINE call == [op |-> op, listing |-> l]
  <2>2. call \in UnitCall /\ call.op = op
    BY UnitCallsTyped DEF Active
  <2>3. unitCall' = [unitCall EXCEPT ![a] = call] /\ OnlyCalls
    BY <1>4, <2>1 DEF ReadActive, Waits
  <2> HIDE DEF call
  <2> QED BY <1>1, <2>2, <2>3, UnitCallStep DEF OnlyCalls, Allowed
<1>5. CASE a = Enforcer /\ ChooseNewest
  <2>1. PICK chosen \in SUBSET Active :
            Goto(Enforcer, [op |-> "archive", chosen |-> chosen])
    BY <1>5 DEF ChooseNewest
  <2> DEFINE call == [op |-> "archive", chosen |-> chosen]
  <2>2. call \in UnitCall /\ call.op = "archive"
    BY UnitCallsTyped DEF Active
  <2>3. unitCall' = [unitCall EXCEPT ![a] = call] /\ OnlyCalls
    BY <1>5, <2>1 DEF ChooseNewest, Goto
  <2> HIDE DEF call
  <2> QED BY <1>1, <2>2, <2>3, UnitCallStep DEF OnlyCalls, Allowed
<1>6. CASE a = Enforcer /\ ClearGrace
  BY <1>6, UnitCallStep DEF ClearGrace, Ends, Grace
<1> QED BY <1>2, <1>3, <1>4, <1>5, <1>6

\* What writing one status does to the count.
LEMMA PutCounts ==
    ASSUME CapacityTypeOK, NEW l \in Listings, NEW new \in ListingStatus, Put(l, new)
    PROVE  /\ status' \in [Listings -> ListingStatus]
           /\ new = "ACTIVE" =>
                  /\ Active' = Active \cup {l}
                  /\ ActiveCount' = IF l \in Active THEN ActiveCount ELSE ActiveCount + 1
           /\ new # "ACTIVE" => ActiveCount' <= ActiveCount /\ ActiveCount' \in Nat
<1>1. status' \in [Listings -> ListingStatus] /\ status'[l] = new
      /\ \A m \in Listings \ {l} : status'[m] = status[m]
  BY DEF CapacityTypeOK, Put
<1>2. IsFiniteSet(Active)
  BY CountTyped
<1>3. ASSUME new = "ACTIVE"
      PROVE  /\ Active' = Active \cup {l}
             /\ ActiveCount' = IF l \in Active THEN ActiveCount ELSE ActiveCount + 1
  <2>1. Active' = Active \cup {l}
    BY <1>1, <1>3 DEF Active
  <2>2. Cardinality(Active \cup {l}) =
            IF l \in Active THEN Cardinality(Active) ELSE Cardinality(Active) + 1
    BY <1>2, FS_AddElement
  <2> QED BY <2>1, <2>2 DEF ActiveCount
<1>4. ASSUME new # "ACTIVE"
      PROVE  ActiveCount' <= ActiveCount /\ ActiveCount' \in Nat
  <2>1. Active' \subseteq Active
    BY <1>1, <1>4 DEF Active
  <2>2. Cardinality(Active') <= Cardinality(Active) /\ Cardinality(Active') \in Nat
    BY <1>2, <2>1, FS_Subset, FS_CardinalityType
  <2> QED BY <2>2 DEF ActiveCount
<1> QED BY <1>1, <1>3, <1>4

\* A handler that writes a status ends; others are not handlers of requests.
LEMMA WriteStatusStep ==
    ASSUME CapacityInv, status' \in [Listings -> ListingStatus],
           UNCHANGED <<limit, grace, best>>, revived' \in Nat,
           unitCall' \in [Actors -> UnitCall \cup {NULL}],
           \A a \in Actors : unitCall'[a] # NULL =>
               \/ unitCall'[a] = unitCall[a]
               \/ unitCall'[a].op = "clear",
           ActiveCount' <= best + revived'
    PROVE  CapacityInv'
<1> USE DEF CapacityInv
<1>1. CapacityTypeOK'
  BY DEF CapacityTypeOK
<1>2. LimitsWereAllowed'
  BY DEF LimitsWereAllowed, Allowed
<1>3. OnlyRevivalsExceed'
  BY DEF OnlyRevivalsExceed
<1> QED BY <1>1, <1>2, <1>3

LEMMA EndedUnitCalls ==
    ASSUME CapacityTypeOK, NEW a \in Actors, Ends(unitCall, a)
    PROVE  /\ unitCall' \in [Actors -> UnitCall \cup {NULL}]
           /\ \A b \in Actors : unitCall'[b] # NULL => unitCall'[b] = unitCall[b]
BY DEF CapacityTypeOK, Ends

LEMMA CountedWriteStep ==
    ASSUME CapacityInv, NEW c \in Callers, CreateListing(c) \/ ResubmitListing(c)
    PROVE  CapacityInv'
<1>1. /\ c \in Actors /\ CapacityTypeOK /\ IsFiniteSet(Active) /\ ActiveCount \in Nat
      /\ best \in Nat /\ revived \in Nat /\ UNCHANGED <<limit, grace, best, revived>>
      /\ Ends(unitCall, c) /\ unitCall[c] # NULL
      /\ unitCall[c].op \in {"create", "resubmit"}
  BY CountTyped, CallersAct DEF CapacityInv, CreateListing, ResubmitListing, In
<1>2. unitCall[c].limit \in Nat /\ unitCall[c].limit <= best
  BY <1>1, UnitCallParts, CapacityAssumption DEF CapacityInv, LimitsWereAllowed, Allowed
<1>3. status' \in [Listings -> ListingStatus] /\ ActiveCount' <= best
  <2>1. CASE CreateListing(c)
    <3>1. PICK l \in Listings : Put(l, "ACTIVE")
      BY <2>1 DEF CreateListing
    <3>2. ActiveCount < unitCall[c].limit
      BY <2>1 DEF CreateListing
    <3>3. "ACTIVE" \in ListingStatus
      BY DEF ListingStatus
    <3>4. status' \in [Listings -> ListingStatus] /\ ActiveCount' <= ActiveCount + 1
      BY <1>1, <3>1, <3>3, PutCounts
    <3>5. ActiveCount' \in Nat
      BY <1>1, <3>1, <3>3, PutCounts
    <3> QED BY <1>1, <1>2, <3>2, <3>4, <3>5
  <2>2. CASE ResubmitListing(c)
    <3> DEFINE l == unitCall[c].listing
    <3>1. l \in Listings /\ Put(l, "ACTIVE")
          /\ Cardinality(Active \ {l}) < unitCall[c].limit
      BY <1>1, <2>2, UnitCallParts DEF ResubmitListing, In
    <3>2. "ACTIVE" \in ListingStatus
      BY DEF ListingStatus
    <3>3. status' \in [Listings -> ListingStatus] /\ Active' = Active \cup {l}
      BY <1>1, <3>1, <3>2, PutCounts
    <3>4. Active' = (Active \ {l}) \cup {l}
      BY <3>3
    <3>5. IsFiniteSet(Active \ {l}) /\ Cardinality(Active \ {l}) \in Nat
      BY <1>1, FS_Subset, FS_CardinalityType
    <3>6. Cardinality((Active \ {l}) \cup {l}) = Cardinality(Active \ {l}) + 1
      BY <3>5, FS_AddElement
    <3>7. ActiveCount' = Cardinality(Active \ {l}) + 1
      BY <3>4, <3>6 DEF ActiveCount
    <3> QED BY <1>1, <1>2, <3>1, <3>3, <3>5, <3>7
  <2> QED BY <2>1, <2>2
<1>4. ActiveCount' \in Nat
  <2>1. Active' \subseteq Listings
    BY DEF Active
  <2> QED BY <2>1, CapacityAssumption, FS_Subset, FS_CardinalityType DEF ActiveCount
<1>5. ActiveCount' <= best + revived'
  BY <1>1, <1>3, <1>4
<1> QED BY <1>1, <1>3, <1>5, EndedUnitCalls, WriteStatusStep

LEMMA RevivalStep ==
    ASSUME CapacityInv,
           \/ \E c \in Callers : ActivateListing(c) \/ RejectListing(c)
           \/ \E l \in Listings : Unarchive(l) \/ Archive(l)
    PROVE  CapacityInv'
<1>1. /\ CapacityTypeOK /\ ActiveCount \in Nat /\ best \in Nat /\ revived \in Nat
      /\ ActiveCount <= best + revived
      /\ unitCall \in [Actors -> UnitCall \cup {NULL}]
  BY CountTyped DEF CapacityInv, OnlyRevivalsExceed, CapacityTypeOK
<1>2. /\ UNCHANGED <<limit, grace, best>>
      /\ UNCHANGED unitCall \/ \E c \in Callers : Ends(unitCall, c)
      /\ \/ \E l \in Listings : BringBack(l)
         \/ /\ UNCHANGED revived
            /\ \E l \in Listings, new \in {"REJECTED", "ARCHIVED"} : Put(l, new)
  <2>1. ASSUME NEW c \in Callers, ActivateListing(c)
        PROVE  unitCall[c].listing \in Listings
    BY <1>1, <2>1, UnitCallParts, CallersAct DEF ActivateListing, In
  <2>2. ASSUME NEW c \in Callers, RejectListing(c)
        PROVE  unitCall[c].listing \in Listings
    BY <1>1, <2>2, UnitCallParts, CallersAct DEF RejectListing, In
  <2>3. CASE \E c \in Callers : ActivateListing(c)
    BY <2>1, <2>3 DEF ActivateListing
  <2>4. CASE \E c \in Callers : RejectListing(c)
    BY <2>2, <2>4 DEF RejectListing
  <2>5. CASE \E l \in Listings : Unarchive(l)
    BY <2>5 DEF Unarchive
  <2>6. CASE \E l \in Listings : Archive(l)
    BY <2>6 DEF Archive
  <2> QED BY <2>3, <2>4, <2>5, <2>6
<1>3. /\ unitCall' \in [Actors -> UnitCall \cup {NULL}]
      /\ \A a \in Actors : unitCall'[a] # NULL => unitCall'[a] = unitCall[a]
  <2>1. CASE UNCHANGED unitCall
    BY <1>1, <2>1
  <2>2. CASE \E c \in Callers : Ends(unitCall, c)
    BY <1>1, <2>2, CallersAct, EndedUnitCalls
  <2> QED BY <1>2, <2>1, <2>2
<1>4. /\ status' \in [Listings -> ListingStatus] /\ revived' \in Nat
      /\ ActiveCount' <= best + revived'
  <2>1. ASSUME NEW l \in Listings, BringBack(l)
        PROVE  /\ status' \in [Listings -> ListingStatus] /\ revived' \in Nat
               /\ ActiveCount' <= best + revived'
    <3>1. "ACTIVE" \in ListingStatus
      BY DEF ListingStatus
    <3>2. /\ status' \in [Listings -> ListingStatus]
          /\ ActiveCount' = IF l \in Active THEN ActiveCount ELSE ActiveCount + 1
          /\ revived' = IF l \in Active THEN revived ELSE revived + 1
      BY <1>1, <2>1, <3>1, PutCounts DEF BringBack
    <3> QED BY <1>1, <3>2
  <2>2. ASSUME UNCHANGED revived, NEW l \in Listings,
               NEW new \in {"REJECTED", "ARCHIVED"}, Put(l, new)
        PROVE  /\ status' \in [Listings -> ListingStatus] /\ revived' \in Nat
               /\ ActiveCount' <= best + revived'
    <3>1. new \in ListingStatus /\ new # "ACTIVE"
      BY DEF ListingStatus
    <3>2. /\ status' \in [Listings -> ListingStatus]
          /\ ActiveCount' <= ActiveCount /\ ActiveCount' \in Nat
      BY <1>1, <2>2, <3>1, PutCounts
    <3> QED BY <1>1, <2>2, <3>2
  <2> QED BY <1>2, <2>1, <2>2
<1> QED BY <1>2, <1>3, <1>4, WriteStatusStep

LEMMA EnforcementStep ==
    ASSUME CapacityInv, ArchiveChosen
    PROVE  CapacityInv'
<1>1. /\ CapacityTypeOK /\ ActiveCount \in Nat /\ best \in Nat /\ revived \in Nat
      /\ ActiveCount <= best + revived /\ IsFiniteSet(Active)
      /\ UNCHANGED <<limit, grace, best, revived>>
  BY CountTyped DEF CapacityInv, OnlyRevivalsExceed, ArchiveChosen
<1>2. /\ status' \in [Listings -> ListingStatus]
      /\ \A l \in Listings : status'[l] = "ARCHIVED" \/ status'[l] = status[l]
  BY <1>1 DEF ArchiveChosen, CapacityTypeOK, ListingStatus
<1>3. ActiveCount' <= ActiveCount /\ ActiveCount' \in Nat
  <2>1. Active' \subseteq Active
    BY <1>2 DEF Active
  <2> QED BY <1>1, <2>1, FS_Subset, FS_CardinalityType DEF ActiveCount
<1> DEFINE call == [op |-> "clear"]
<1>4. call \in UnitCall /\ call.op = "clear"
  BY UnitCallsTyped
<1>5. unitCall' = [unitCall EXCEPT ![Enforcer] = call]
  BY DEF ArchiveChosen, Goto
<1> HIDE DEF call
<1>6. /\ unitCall' \in [Actors -> UnitCall \cup {NULL}]
      /\ \A a \in Actors : unitCall'[a] = unitCall[a] \/ unitCall'[a].op = "clear"
  BY <1>1, <1>4, <1>5, CallersAct DEF CapacityTypeOK
<1>7. ActiveCount' <= best + revived'
  BY <1>1, <1>3
<1> QED BY <1>1, <1>2, <1>6, <1>7, WriteStatusStep

LEMMA LimitStep ==
    ASSUME CapacityInv, ChangeLimit \/ GraceExpires
    PROVE  CapacityInv'
<1> USE DEF CapacityInv
<1>1. /\ CapacityTypeOK /\ ActiveCount \in Nat /\ best \in Nat /\ revived \in Nat
      /\ ActiveCount <= best + revived /\ limit <= best /\ limit \in Nat
  BY CountTyped DEF OnlyRevivalsExceed, LimitsWereAllowed
<1>2. UNCHANGED <<status, unitCall, revived>> /\ grace' \in Grace
  BY <1>1 DEF ChangeLimit, GraceExpires, CapacityTypeOK, Grace
<1>3. /\ limit' \in Limits /\ best' \in Limits
      /\ best' >= best /\ limit' <= best' /\ best' \in Nat
  <2>1. CASE ChangeLimit
    <3>1. limit' \in Limits /\ limit' \in Nat /\ best' = Max({best, limit'})
      BY <2>1, CapacityAssumption DEF ChangeLimit
    <3>2. best' \in {best, limit'} /\ best' >= best /\ best' >= limit'
      BY <1>1, <3>1, MaxOfTwo
    <3> QED BY <1>1, <3>1, <3>2 DEF CapacityTypeOK
  <2>2. CASE GraceExpires
    BY <1>1, <2>2 DEF GraceExpires, CapacityTypeOK
  <2> QED BY <2>1, <2>2
<1>4. CapacityTypeOK'
  BY <1>1, <1>2, <1>3 DEF CapacityTypeOK
<1>5. \A n \in Limits : n <= best => n <= best'
  BY <1>1, <1>3, CapacityAssumption
<1>6. ASSUME NEW a \in Actors, unitCall[a] # NULL
      PROVE  /\ Allowed(unitCall[a])'
             /\ unitCall[a].op = "grace" /\ unitCall[a].next # NULL =>
                    Allowed(unitCall[a].next)'
  <2>1. Allowed(unitCall[a])'
    BY <1>1, <1>2, <1>5, <1>6, UnitCallParts DEF LimitsWereAllowed, Allowed
  <2>2. ASSUME unitCall[a].op = "grace", unitCall[a].next # NULL
        PROVE  Allowed(unitCall[a].next)'
    <3>1. unitCall[a].next \in NextCall
      BY <1>1, <1>6, <2>2, UnitCallParts
    <3>2. Allowed(unitCall[a].next)
      BY <1>6, <2>2 DEF LimitsWereAllowed
    <3> QED BY <1>2, <1>5, <3>1, <3>2, NextLimitTyped DEF Allowed
  <2> QED BY <2>1, <2>2
<1>7. LimitsWereAllowed'
  BY <1>2, <1>3, <1>6 DEF LimitsWereAllowed, Allowed
<1>8. ActiveCount' = ActiveCount
  BY <1>2 DEF ActiveCount, Active
<1>9. OnlyRevivalsExceed'
  <2>1. revived' = revived
    BY <1>2
  <2>2. ActiveCount <= best' + revived
    <3>1. \A x, y, z, w \in Nat : x <= y + z /\ w >= y => x <= w + z
      OBVIOUS
    <3>2. /\ ActiveCount \in Nat /\ best \in Nat /\ revived \in Nat /\ best' \in Nat
          /\ ActiveCount <= best + revived /\ best' >= best
      BY <1>1, <1>3
    <3> QED BY <3>1, <3>2
  <2> QED BY <1>8, <2>1, <2>2 DEF OnlyRevivalsExceed
<1> QED BY <1>4, <1>7, <1>9

LEMMA CapacityInitInv ==
    ASSUME CapacityInit
    PROVE  CapacityInv
<1>1. CapacityTypeOK
  BY DEF CapacityInit, CapacityTypeOK, ListingStatus, Grace
<1>2. LimitsWereAllowed
  BY CapacityAssumption DEF CapacityInit, LimitsWereAllowed
<1>3. Active = {}
  BY DEF CapacityInit, Active
<1>4. ActiveCount = 0
  BY <1>3, FS_EmptySet DEF ActiveCount
<1>5. OnlyRevivalsExceed
  BY <1>1, <1>4, CountTyped DEF CapacityInit, OnlyRevivalsExceed
<1> QED BY <1>1, <1>2, <1>5 DEF CapacityInv

LEMMA CapacityNextInv ==
    ASSUME CapacityInv, [CapacityNext]_capacityVars
    PROVE  CapacityInv'
<1>1. CASE UNCHANGED capacityVars
  BY <1>1 DEF capacityVars, CapacityInv, CapacityTypeOK, LimitsWereAllowed, Allowed,
     OnlyRevivalsExceed, ActiveCount, Active
<1>2. CASE CapacityNext
  <2>1. ASSUME NEW c \in Callers,
               \/ WriteGrace(c) \/ ReadActive(c) \/ UnitHandlerFails(c)
        PROVE  CapacityInv'
    BY <2>1, CallersAct, OtherCallStep
  <2>2. CASE WriteGrace(Enforcer) \/ ChooseNewest \/ ClearGrace
             \/ UnitHandlerFails(Enforcer)
    BY <2>2, CallersAct, OtherCallStep
  <2>3. CASE ChangeLimit \/ GraceExpires \/ ReadToEnforce \/ ArchiveChosen
    BY <2>3, ReadLimitStep, LimitStep, EnforcementStep
  <2>4. ASSUME NEW c \in Callers,
               \/ GetQuota(c) \/ AskCreate(c) \/ CreateListing(c)
               \/ ReadToResubmit(c) \/ ResubmitListing(c)
               \/ ActivateListing(c) \/ RejectListing(c)
        PROVE  CapacityInv'
    BY <2>4, ReadLimitStep, CountedWriteStep, RevivalStep
  <2>5. ASSUME NEW l \in Listings, Unarchive(l) \/ Archive(l)
        PROVE  CapacityInv'
    BY <2>5, RevivalStep
  <2> QED BY <1>2, <2>1, <2>2, <2>3, <2>4, <2>5 DEF CapacityNext
<1> QED BY <1>1, <1>2

\* An owner is above the best limit he ever had by no more listings than were
\* brought back without a count.
THEOREM OnlyRevivals == CapacitySpec => []OnlyRevivalsExceed
<1>1. CapacityInit => CapacityInv
  BY CapacityInitInv
<1>2. CapacityInv /\ [CapacityNext]_capacityVars => CapacityInv'
  BY CapacityNextInv
<1>3. CapacityInv => OnlyRevivalsExceed
  BY DEF CapacityInv
<1> QED BY <1>1, <1>2, <1>3, PTL DEF CapacitySpec

----------------------------------------------------------------------------
(* Boosts.  A credit of the plan is spent under the lock of the quota,     *)
(* before the last campaign is looked for: at most one plan boost is under *)
(* way, and where it starts is after all the plan's campaigns so far.      *)

Numbered ==
    /\ IsFiniteSet(campaigns)
    /\ \A b \in campaigns : b.no < Cardinality(campaigns)
    /\ \A a, b \in campaigns : a.no = b.no => a = b

ExpiredAreOver == \A b \in campaigns : b.status = "EXPIRED" => b.end <= time

PlanBoostsQueue ==
    /\ \A c, d \in Callers : HoldsQuota(c) /\ HoldsQuota(d) => c = d
    /\ \A c \in Callers : HoldsQuota(c) /\ boostCall[c].start # NULL =>
           \A b \in campaigns : b.plan => b.end <= boostCall[c].start

\* There is a last moment that is booked.
Booked == \E m \in Nat : \A b \in campaigns : b.end <= m

BoostsInv ==
    /\ BoostsTypeOK
    /\ Numbered
    /\ ExpiredAreOver
    /\ PlanBoostsQueue
    /\ Booked
    /\ PlanBoostsFollow

LEMMA LatestIsLast ==
    ASSUME BoostsInv
    PROVE  /\ Latest \in Nat
           /\ \A b \in campaigns : b.end <= Latest
<1> DEFINE S == {b.end : b \in Running} \cup {time}
<1>1. time \in Nat /\ \A b \in campaigns : b.end \in Nat
  BY DEF BoostsInv, BoostsTypeOK, Campaign
<1>2. PICK m \in Nat : \A b \in campaigns : b.end <= m
  BY DEF BoostsInv, Booked
<1>3. S \in SUBSET Nat /\ S # {}
  BY <1>1 DEF Running
<1>4. m + time \in Nat /\ \A x \in S : x <= m + time
  BY <1>1, <1>2 DEF Running
<1>5. Max(S) \in S /\ \A y \in S : Max(S) >= y
  BY <1>3, <1>4, MaxOfBounded
<1>6. Latest = Max(S)
  BY DEF Latest
<1>7. Latest \in Nat /\ Latest >= time
  BY <1>3, <1>5, <1>6
<1>8. ASSUME NEW b \in campaigns
      PROVE  b.end <= Latest
  <2>1. CASE b \in Running
    BY <1>1, <1>5, <1>6, <1>7, <2>1
  <2>2. CASE b \notin Running
    <3>1. b.end <= time
      BY <1>1, <2>2 DEF Running, BoostsInv, ExpiredAreOver
    <3> QED BY <1>1, <1>7, <3>1
  <2> QED BY <2>1, <2>2
<1> QED BY <1>7, <1>8

LEMMA BoostCallsTyped ==
    ASSUME NEW plan \in BOOLEAN, NEW start \in Nat \cup {NULL}
    PROVE  /\ [plan |-> plan, start |-> start] \in BoostCall
           /\ [plan |-> plan, start |-> start].plan = plan
           /\ [plan |-> plan, start |-> start].start = start
BY DEF BoostCall

\* Steps that leave the campaigns and go on with one call.
LEMMA BoostCallStep ==
    ASSUME BoostsInv, NEW c \in Callers, NEW call \in BoostCall \cup {NULL},
           boostCall' = [boostCall EXCEPT ![c] = call],
           UNCHANGED <<time, campaigns, shownUntil, eligible>>, credits' \in Nat,
           call # NULL /\ call.plan =>
               /\ HoldsQuota(c) \/ QuotaIsFree
               /\ call.start # NULL => \A b \in campaigns : b.plan => b.end <= call.start
    PROVE  BoostsInv'
<1> USE DEF BoostsInv
<1>1. BoostsTypeOK'
  BY DEF BoostsTypeOK
<1>2. \A d \in Callers : boostCall'[d] = IF d = c THEN call ELSE boostCall[d]
  BY DEF BoostsTypeOK
<1>3. PlanBoostsQueue'
  BY <1>2 DEF PlanBoostsQueue, HoldsQuota, QuotaIsFree
<1>4. Numbered' /\ ExpiredAreOver' /\ Booked' /\ PlanBoostsFollow'
  BY DEF Numbered, ExpiredAreOver, Booked, PlanBoostsFollow
<1> QED BY <1>1, <1>3, <1>4

LEMMA BoostHandlerStep ==
    ASSUME BoostsInv, NEW c \in Callers,
           SpendCredit(c) \/ SettleBoost(c) \/ FindLatest(c) \/ BoostFails(c)
    PROVE  BoostsInv'
<1> USE DEF BoostsInv
<1>1. credits \in Nat /\ boostCall \in [Callers -> BoostCall \cup {NULL}]
  BY DEF BoostsTypeOK
<1>2. CASE SpendCredit(c)
  <2> DEFINE call == [plan |-> TRUE, start |-> NULL]
  <2>1. call \in BoostCall /\ call.start = NULL
    BY BoostCallsTyped
  <2>2. boostCall' = [boostCall EXCEPT ![c] = call] /\ QuotaIsFree
    BY <1>2 DEF SpendCredit, Waits
  <2>3. credits' \in Nat /\ UNCHANGED <<time, campaigns, shownUntil, eligible>>
    BY <1>1, <1>2 DEF SpendCredit
  <2> HIDE DEF call
  <2> QED BY <2>1, <2>2, <2>3, BoostCallStep
<1>3. CASE SettleBoost(c)
  <2> DEFINE call == [plan |-> FALSE, start |-> NULL]
  <2>1. call \in BoostCall /\ ~call.plan
    BY BoostCallsTyped
  <2>2. boostCall' = [boostCall EXCEPT ![c] = call]
        /\ UNCHANGED <<time, campaigns, shownUntil, eligible, credits>>
    BY <1>3 DEF SettleBoost, Waits
  <2> HIDE DEF call
  <2> QED BY <1>1, <2>1, <2>2, BoostCallStep
<1>4. CASE FindLatest(c)
  <2> DEFINE call == [boostCall[c] EXCEPT !.start = Latest]
  <2>1. boostCall[c] \in BoostCall /\ boostCall[c] # NULL
    BY <1>1, <1>4 DEF FindLatest
  <2>2. Latest \in Nat /\ \A b \in campaigns : b.end <= Latest
    BY LatestIsLast
  <2>3. call \in BoostCall /\ call.plan = boostCall[c].plan /\ call.start = Latest
    BY <2>1, <2>2 DEF BoostCall
  <2>4. boostCall' = [boostCall EXCEPT ![c] = call]
        /\ UNCHANGED <<time, campaigns, shownUntil, eligible, credits>>
    BY <1>1, <1>4 DEF FindLatest
  <2>5. call.plan => HoldsQuota(c)
    BY <2>1, <2>3 DEF HoldsQuota
  <2> HIDE DEF call
  <2> QED BY <1>1, <2>2, <2>3, <2>4, <2>5, BoostCallStep
<1>5. CASE BoostFails(c)
  <2>1. boostCall' = [boostCall EXCEPT ![c] = NULL] /\ credits' \in Nat
        /\ UNCHANGED <<time, campaigns, shownUntil, eligible>>
    BY <1>1, <1>5 DEF BoostFails, Ends
  <2> QED BY <2>1, BoostCallStep
<1> QED BY <1>2, <1>3, <1>4, <1>5

LEMMA CampaignTyped ==
    ASSUME NEW no \in Nat, NEW plan \in BOOLEAN, NEW start \in Nat, NEW end \in Nat,
           NEW s \in {"SCHEDULED", "ACTIVE"}
    PROVE  LET b == [no |-> no, plan |-> plan, start |-> start, end |-> end, status |-> s]
           IN  /\ b \in Campaign /\ b.no = no /\ b.plan = plan /\ b.start = start
               /\ b.end = end /\ b.status # "EXPIRED"
BY DEF Campaign

LEMMA CreateCampaignStep ==
    ASSUME BoostsInv, NEW c \in Callers, CreateCampaign(c)
    PROVE  BoostsInv'
<1> USE DEF BoostsInv
<1> DEFINE call == boostCall[c]
           n == Cardinality(campaigns)
<1>1. /\ call \in BoostCall /\ call # NULL /\ call.start # NULL
      /\ time \in Nat /\ campaigns \subseteq Campaign /\ n \in Nat
      /\ IsFiniteSet(campaigns)
  BY FS_CardinalityType DEF CreateCampaign, BoostsTypeOK, Numbered
<1>2. call.start \in Nat /\ call.plan \in BOOLEAN
  BY <1>1 DEF BoostCall
<1>3. PICK days \in {1, 2} :
          /\ campaigns' = campaigns \cup
                {[no |-> n, plan |-> call.plan, start |-> call.start,
                  end |-> call.start + days,
                  status |-> IF call.start <= time THEN "ACTIVE" ELSE "SCHEDULED"]}
          /\ shownUntil' = call.start + days
  BY DEF CreateCampaign
<1> DEFINE end == call.start + days
           s == IF call.start <= time THEN "ACTIVE" ELSE "SCHEDULED"
           new == [no |-> n, plan |-> call.plan, start |-> call.start, end |-> end,
                   status |-> s]
<1>4. end \in Nat /\ end >= call.start /\ s \in {"SCHEDULED", "ACTIVE"}
  BY <1>2
<1>5. campaigns' = campaigns \cup {new} /\ shownUntil' \in Nat
  BY <1>3, <1>4
<1>6. UNCHANGED <<time, eligible, credits>> /\ Ends(boostCall, c)
  BY DEF CreateCampaign
<1> HIDE DEF end, s
<1>7. /\ new \in Campaign /\ new.no = n /\ new.plan = call.plan
      /\ new.start = call.start /\ new.end = end /\ new.status # "EXPIRED"
  BY <1>1, <1>2, <1>4, CampaignTyped
<1>8. HoldsQuota(c) <=> call.plan
  BY <1>1, Zenon DEF HoldsQuota
<1> HIDE DEF new
<1>9. /\ boostCall' \in [Callers -> BoostCall \cup {NULL}]
      /\ \A d \in Callers : boostCall'[d] = IF d = c THEN NULL ELSE boostCall[d]
  BY <1>6 DEF Ends, BoostsTypeOK
<1> HIDE DEF call
<1>10. BoostsTypeOK'
  BY <1>1, <1>5, <1>6, <1>7, <1>9 DEF BoostsTypeOK
<1>11. \A b \in campaigns : b.no \in Nat /\ b.no < n
  BY <1>1 DEF Numbered, Campaign
<1>12. Numbered'
  <2>1. new \notin campaigns
    BY <1>1, <1>7, <1>11
  <2>2. IsFiniteSet(campaigns') /\ Cardinality(campaigns') = n + 1
    BY <1>1, <1>5, <2>1, FS_AddElement
  <2>3. \A b \in campaigns' : b.no < n + 1
    BY <1>1, <1>5, <1>7, <1>11
  <2>4. \A a, b \in campaigns' : a.no = b.no => a = b
    BY <1>1, <1>5, <1>7, <1>11 DEF Numbered
  <2> QED BY <2>2, <2>3, <2>4 DEF Numbered
<1>13. ExpiredAreOver'
  BY <1>5, <1>6, <1>7 DEF ExpiredAreOver
<1>14. PlanBoostsQueue'
  BY <1>5, <1>7, <1>8, <1>9 DEF PlanBoostsQueue, HoldsQuota
<1>15. Booked'
  <2>1. PICK m \in Nat : \A b \in campaigns : b.end <= m
    BY DEF Booked
  <2>2. \A b \in campaigns : b.end \in Nat
    BY <1>1 DEF Campaign
  <2>3. m + end \in Nat /\ \A b \in campaigns' : b.end <= m + end
    BY <1>4, <1>5, <1>7, <2>1, <2>2
  <2> QED BY <2>3 DEF Booked
<1>16. PlanBoostsFollow'
  <2> SUFFICES ASSUME NEW a \in campaigns', NEW b \in campaigns',
                      a.plan, b.plan, a.no < b.no
               PROVE  a.end <= b.start
    BY DEF PlanBoostsFollow
  <2>1. CASE a \in campaigns /\ b \in campaigns
    BY <2>1 DEF PlanBoostsFollow
  <2>2. CASE a \in campaigns /\ b = new
    <3>1. HoldsQuota(c) /\ call.start # NULL
      BY <1>1, <1>7, <1>8, <2>2
    <3>2. a.end <= call.start
      BY <2>2, <3>1 DEF PlanBoostsQueue, call
    <3> QED BY <1>7, <2>2, <3>2
  <2>3. CASE a = new
    <3>1. b.no = n \/ (b.no \in Nat /\ b.no < n)
      BY <1>5, <1>7, <1>11
    <3> QED BY <1>1, <1>7, <2>3, <3>1
  <2> QED BY <1>5, <2>1, <2>2, <2>3
<1> QED BY <1>10, <1>12, <1>13, <1>14, <1>15, <1>16

\* The hourly job rewrites the statuses of the campaigns, one by one.
LEMMA CampaignJobStep ==
    ASSUME BoostsInv, ExpireCampaigns \/ StartCampaigns
    PROVE  BoostsInv'
<1> USE DEF BoostsInv
<1> DEFINE Next(b) ==
        IF ExpireCampaigns
        THEN IF b.end <= time THEN [b EXCEPT !.status = "EXPIRED"] ELSE b
        ELSE IF b.status = "SCHEDULED" /\ b.start <= time /\ b.end > time
             THEN [b EXCEPT !.status = "ACTIVE"] ELSE b
<1>1. /\ time \in Nat /\ campaigns \subseteq Campaign
      /\ UNCHANGED <<time, shownUntil, eligible, credits, boostCall>>
  BY DEF ExpireCampaigns, StartCampaigns, BoostsTypeOK
<1>2. campaigns' = {Next(b) : b \in campaigns}
  <2>1. CASE ExpireCampaigns
    BY <2>1 DEF ExpireCampaigns
  <2>2. CASE ~ExpireCampaigns
    BY <2>2 DEF StartCampaigns
  <2> QED BY <2>1, <2>2
<1>3. ASSUME NEW b \in campaigns
      PROVE  /\ Next(b) \in Campaign /\ Next(b).no = b.no /\ Next(b).plan = b.plan
             /\ Next(b).start = b.start /\ Next(b).end = b.end
             /\ Next(b).status = "EXPIRED" => b.end <= time
  <2>1. b \in Campaign /\ (b.status = "EXPIRED" => b.end <= time)
    BY <1>1 DEF ExpiredAreOver
  <2>2. \A s \in {"EXPIRED", "ACTIVE"} :
            /\ [b EXCEPT !.status = s] \in Campaign
            /\ [b EXCEPT !.status = s].status = s
            /\ [b EXCEPT !.status = s].no = b.no
            /\ [b EXCEPT !.status = s].plan = b.plan
            /\ [b EXCEPT !.status = s].start = b.start
            /\ [b EXCEPT !.status = s].end = b.end
    BY <2>1 DEF Campaign
  <2> QED BY <2>1, <2>2
<1> HIDE DEF Next
<1>4. BoostsTypeOK'
  BY <1>1, <1>2, <1>3 DEF BoostsTypeOK
<1>5. IsFiniteSet(campaigns') /\ Cardinality(campaigns') = Cardinality(campaigns)
  <2> DEFINE f == [b \in campaigns |-> Next(b)]
  <2>1. f \in Bijection(campaigns, campaigns')
    BY <1>2, <1>3 DEF Bijection, Injection, Surjection, Numbered, IsInjective
  <2>2. ExistsBijection(campaigns, campaigns')
    BY <2>1 DEF ExistsBijection
  <2> QED BY <2>2, FS_Bijection DEF Numbered
<1>6. Numbered'
  BY <1>2, <1>3, <1>5 DEF Numbered
<1>7. ExpiredAreOver'
  BY <1>1, <1>2, <1>3 DEF ExpiredAreOver
<1>8. PlanBoostsQueue'
  BY <1>1, <1>2, <1>3 DEF PlanBoostsQueue, HoldsQuota
<1>9. Booked'
  BY <1>2, <1>3 DEF Booked
<1>10. PlanBoostsFollow'
  BY <1>2, <1>3 DEF PlanBoostsFollow
<1> QED BY <1>4, <1>6, <1>7, <1>8, <1>9, <1>10

LEMMA ListingBoostStep ==
    ASSUME BoostsInv, NextWeek \/ ChangeListing \/ ResetCredits \/ HideBoost
    PROVE  BoostsInv'
<1> USE DEF BoostsInv
<1>1. UNCHANGED <<campaigns, boostCall>>
  BY DEF NextWeek, ChangeListing, ResetCredits, HideBoost
<1>2. time \in Nat /\ time' \in Nat /\ time <= time'
  BY DEF NextWeek, ChangeListing, ResetCredits, HideBoost, BoostsTypeOK
<1>3. shownUntil' \in Nat /\ eligible' \in BOOLEAN /\ credits' \in Nat
  BY BoostsAssumption
  DEF NextWeek, ChangeListing, ResetCredits, HideBoost, BoostsTypeOK
<1>4. BoostsTypeOK'
  BY <1>1, <1>2, <1>3 DEF BoostsTypeOK
<1>5. ExpiredAreOver'
  BY <1>1, <1>2 DEF ExpiredAreOver, BoostsTypeOK, Campaign
<1>6. Numbered' /\ PlanBoostsQueue' /\ Booked' /\ PlanBoostsFollow'
  BY <1>1 DEF Numbered, PlanBoostsQueue, HoldsQuota, Booked, PlanBoostsFollow
<1> QED BY <1>4, <1>5, <1>6

LEMMA BoostsInitInv ==
    ASSUME BoostsInit
    PROVE  BoostsInv
<1>1. campaigns = {} /\ \A c \in Callers : boostCall[c] = NULL
  BY DEF BoostsInit, NobodyWaits
<1>2. BoostsTypeOK
  BY BoostsAssumption DEF BoostsInit, BoostsTypeOK, NobodyWaits
<1>3. Numbered
  BY <1>1, FS_EmptySet DEF Numbered
<1>4. ExpiredAreOver /\ PlanBoostsQueue /\ Booked /\ PlanBoostsFollow
  BY <1>1 DEF ExpiredAreOver, PlanBoostsQueue, HoldsQuota, Booked, PlanBoostsFollow
<1> QED BY <1>2, <1>3, <1>4 DEF BoostsInv

LEMMA BoostsNextInv ==
    ASSUME BoostsInv, [BoostsNext]_boostVars
    PROVE  BoostsInv'
<1>1. CASE UNCHANGED boostVars
  BY <1>1 DEF boostVars, BoostsInv, BoostsTypeOK, Numbered, ExpiredAreOver,
     PlanBoostsQueue, HoldsQuota, Booked, PlanBoostsFollow
<1>2. CASE BoostsNext
  BY <1>2, BoostHandlerStep, CreateCampaignStep, CampaignJobStep, ListingBoostStep
  DEF BoostsNext
<1> QED BY <1>1, <1>2

\* Two boosts out of the credits of the plan never run at once.
THEOREM PlanBoostsInTurn == BoostsSpec => []PlanBoostsFollow
<1>1. BoostsInit => BoostsInv
  BY BoostsInitInv
<1>2. BoostsInv /\ [BoostsNext]_boostVars => BoostsInv'
  BY BoostsNextInv
<1>3. BoostsInv => PlanBoostsFollow
  BY DEF BoostsInv
<1> QED BY <1>1, <1>2, <1>3, PTL DEF BoostsSpec

=============================================================================
