---------------------------- MODULE Services_proofs ----------------------------
(***************************************************************************)
(* Proofs about support (SupportTickets, SupportQueue), notifications      *)
(* (Notifications), administrators (AdminTeam) and e-mail codes            *)
(* (EmailCodes), and that what is proved of each service holds of all of   *)
(* them together (Services).                                               *)
(***************************************************************************)
EXTENDS Services, LeaseContract_proofs, Accounts_proofs, Storage_proofs,
        Limits_proofs, FiniteSetTheorems, TLAPS

----------------------------------------------------------------------------
(* Support.  A handler that goes on to a ticket has found its row, and     *)
(* touches it after its try's message was appended; the ticket of a run    *)
(* was filed with a message of it; a try is made by one handler and has    *)
(* not spoken before, and none that speaks began after the run's ticket    *)
(* was filed.                                                              *)

OnATicket(c) == supportCall[c] # NULL /\ supportCall[c].op \in {"append", "touch", "reply"}
OnATry(c) ==
    supportCall[c] # NULL /\ supportCall[c].op \in {"escalate", "create", "append", "touch"}

CallsFoundTheirTicket ==
    \A c \in Callers :
        /\ OnATicket(c) => supportCall[c].ticket \in Filed
        /\ Doing(c, "touch") => supportCall[c].try \in said[supportCall[c].ticket]

KeyedAreSaid ==
    /\ \A run \in Runs : keyed[run] # NULL => OfRun(run) # {}
    /\ \A run \in Runs : \A t \in OfRun(run) : \E n \in 1 .. MaxTries : <<run, n>> \in said[t]

TryInTime(try, begun) ==
    /\ try[2] <= begun[try[1]]
    /\ keyed[try[1]] # NULL => try[2] <= keyed[try[1]]

Unsaid(try) == \A t \in Tickets : try \notin said[t]

TriesInTime ==
    /\ \A c \in Callers : OnATry(c) => TryInTime(supportCall[c].try, tries)
    /\ \A t \in Tickets : \A try \in said[t] : TryInTime(try, tries)

TriesAreOnce ==
    /\ \A c, d \in Callers :
           OnATry(c) /\ OnATry(d) /\ supportCall[c].try = supportCall[d].try => c = d
    /\ \A c \in Callers :
           OnATry(c) /\ supportCall[c].op # "touch" => Unsaid(supportCall[c].try)

SupportInv ==
    /\ SupportTypeOK
    /\ CallsFoundTheirTicket
    /\ KeyedAreSaid
    /\ TriesInTime
    /\ TriesAreOnce
    /\ HandoversAreKept

LEMMA SupportCallParts ==
    ASSUME NEW step \in SupportCall
    PROVE  /\ step.op \in {"escalate", "create", "append", "touch"} =>
                  step.try \in Tries /\ step.try[1] \in Runs
           /\ step.op \in {"append", "touch", "reply"} => step.ticket \in Tickets
           /\ step.op = "reply" => step.status \in TicketStatus
BY DEF SupportCall, Tries

LEMMA SupportCallsTyped ==
    /\ [op |-> "appeal"] \in SupportCall
    /\ \A try \in Tries :
           /\ \A op \in {"escalate", "create"} : [op |-> op, try |-> try] \in SupportCall
           /\ \A op \in {"append", "touch"}, t \in Tickets :
                  [op |-> op, try |-> try, ticket |-> t] \in SupportCall
    /\ \A t \in Tickets, newStatus \in TicketStatus :
           [op |-> "reply", ticket |-> t, status |-> newStatus] \in SupportCall
BY DEF SupportCall

LEMMA AnswersTyped == \A try \in Tries, t \in Tickets : <<try, t>> # NULL
BY SupportAssumption

\* A handler goes on without a write, or has ended.
LEMMA SupportCallStep ==
    ASSUME SupportInv, NEW c \in Callers, NEW step \in SupportCall \cup {NULL},
           supportCall' = [supportCall EXCEPT ![c] = step],
           step # NULL /\ step.op \in {"append", "reply"} => step.ticket \in Filed,
           step # NULL => step.op # "touch",
           step # NULL /\ step.op \in {"escalate", "create", "append"} =>
               /\ TryInTime(step.try, tries')
               /\ Unsaid(step.try)
               /\ \A d \in Callers \ {c} : OnATry(d) => supportCall[d].try # step.try,
           UNCHANGED <<tickets, said, keyed>>,
           tries' \in [Runs -> 0 .. MaxTries],
           \A run \in Runs : tries[run] <= tries'[run],
           \/ answered' = NULL
           \/ \E try \in Tries : \E t \in OfRun(try[1]) : answered' = <<try, t>>
    PROVE  SupportInv'
<1> USE DEF SupportInv
<1>1. /\ supportCall' \in [Callers -> SupportCall \cup {NULL}]
      /\ \A d \in Callers : supportCall'[d] = IF d = c THEN step ELSE supportCall[d]
  BY DEF SupportTypeOK
<1>2. /\ Filed' = Filed /\ Filed \subseteq Tickets
      /\ \A run \in Runs : OfRun(run)' = OfRun(run)
  BY DEF Filed, OfRun
<1>3. /\ answered' # NULL => answered' \in Tries \X Tickets
      /\ \A try \in Tries, t \in Tickets : answered' = <<try, t>> => t \in OfRun(try[1])
  BY <1>2, SupportAssumption DEF SupportTypeOK, OfRun
<1>4. SupportTypeOK'
  BY <1>1, <1>3 DEF SupportTypeOK
<1>5. CallsFoundTheirTicket'
  BY <1>1, <1>2 DEF CallsFoundTheirTicket, OnATicket, Doing
<1>6. KeyedAreSaid'
  BY <1>2 DEF KeyedAreSaid
<1>7. \A try \in Tries : TryInTime(try, tries) => TryInTime(try, tries)'
  BY SupportAssumption DEF TryInTime, Tries, SupportTypeOK
<1>8. \A d \in Callers \ {c} :
          /\ OnATry(d)' <=> OnATry(d)
          /\ supportCall'[d] = supportCall[d]
          /\ OnATry(d) => supportCall[d].try \in Tries
  BY <1>1, SupportCallParts DEF OnATry, SupportTypeOK
<1>9. TriesInTime'
  BY <1>1, <1>7, <1>8 DEF TriesInTime, TryInTime, OnATry, SupportTypeOK
<1>10. TriesAreOnce'
  BY <1>1, <1>8 DEF TriesAreOnce, OnATry, Unsaid
<1>11. HandoversAreKept'
  <2>1. \A try \in Tries : try[1] \in Runs
    BY DEF Tries
  <2>2. \A try \in Tries, t \in Tickets :
            answered' = <<try, t>> =>
                t \in OfRun(try[1])'
                    /\ \E n \in 1 .. MaxTries : <<try[1], n>> \in said'[t]
    BY <1>2, <1>3, <2>1 DEF KeyedAreSaid
  <2> QED BY <2>2 DEF HandoversAreKept
<1> QED BY <1>4, <1>5, <1>6, <1>9, <1>10, <1>11

\* The next try of a run is nobody's and has said nothing.
LEMMA NextTryIsNew ==
    ASSUME SupportInv, NEW run \in Runs, BeginTry(run), UNCHANGED <<keyed, said>>
    PROVE  /\ NextTry(run) \in Tries /\ Unsaid(NextTry(run))
           /\ NextTry(run)[1] = run
           /\ \A d \in Callers : OnATry(d) => supportCall[d].try # NextTry(run)
           /\ tries' \in [Runs -> 0 .. MaxTries]
           /\ \A r \in Runs : tries[r] <= tries'[r]
           /\ OfRun(run) = {} => TryInTime(NextTry(run), tries')
<1> DEFINE n == tries[run] + 1
<1> USE DEF SupportInv
<1>1. /\ n \in 1 .. MaxTries /\ NextTry(run) = <<run, n>>
      /\ tries' = [tries EXCEPT ![run] = n] /\ tries[run] \in Nat
      /\ tries \in [Runs -> 0 .. MaxTries]
  BY SupportAssumption DEF BeginTry, NextTry, SupportTypeOK
<1>2. ~TryInTime(<<run, n>>, tries)
  BY <1>1 DEF TryInTime
<1>3. /\ Unsaid(<<run, n>>)
      /\ \A d \in Callers : OnATry(d) => supportCall[d].try # <<run, n>>
  BY <1>2 DEF TriesInTime, Unsaid
<1>4. /\ tries' \in [Runs -> 0 .. MaxTries]
      /\ \A r \in Runs : tries[r] <= tries'[r]
      /\ tries'[run] = n
  BY <1>1, SupportAssumption
<1>5. OfRun(run) = {} => TryInTime(<<run, n>>, tries')
  BY <1>1, <1>4 DEF TryInTime, KeyedAreSaid
<1> HIDE DEF n
<1> QED BY <1>1, <1>3, <1>4, <1>5 DEF Tries

LEMMA HandoverStep ==
    ASSUME SupportInv, NEW c \in Callers,
           \/ EscalateAgain(c) \/ Escalate(c)
           \/ FindOpenTicket(c) \/ FindNoOpenTicket(c)
           \/ EscalationExists(c)
           \/ AskAppeal(c) \/ Reply(c) \/ SupportHandlerFails(c)
    PROVE  SupportInv'
<1> USE DEF SupportInv
<1>0. /\ SupportTypeOK /\ supportCall \in [Callers -> SupportCall \cup {NULL}]
      /\ tries \in [Runs -> 0 .. MaxTries]
      /\ \A run \in Runs : tries[run] <= tries[run]
  BY SupportAssumption DEF SupportTypeOK
<1>1. CASE EscalateAgain(c)
  <2>1. supportCall[c] = NULL /\ UNCHANGED <<tickets, said, supportCall, keyed>>
    BY <1>1 DEF EscalateAgain
  <2>2. supportCall' = [supportCall EXCEPT ![c] = NULL]
    BY <1>0, <2>1
  <2>3. PICK run \in Runs :
            BeginTry(run) /\ \E t \in OfRun(run) : answered' = <<NextTry(run), t>>
    BY <1>1 DEF EscalateAgain
  <2> QED BY <2>1, <2>2, <2>3, NextTryIsNew, SupportCallStep
<1>2. CASE Escalate(c)
  <2>0. PICK run \in Runs :
            /\ OfRun(run) = {} /\ BeginTry(run)
            /\ supportCall' = [supportCall EXCEPT
                   ![c] = [op |-> "escalate", try |-> NextTry(run)]]
    BY <1>2 DEF Escalate, Waits
  <2>1. PICK try \in {NextTry(run)} :
            /\ OfRun(run) = {} /\ BeginTry(run) /\ try = NextTry(run)
            /\ supportCall' = [supportCall EXCEPT ![c] = [op |-> "escalate", try |-> try]]
    BY <2>0
  <2>2. UNCHANGED <<tickets, said, keyed>> /\ answered' = NULL
    BY <1>2 DEF Escalate, NoAnswer
  <2>3. /\ try \in Tries /\ Unsaid(try)
        /\ \A d \in Callers : OnATry(d) => supportCall[d].try # try
        /\ tries' \in [Runs -> 0 .. MaxTries]
        /\ \A r \in Runs : tries[r] <= tries'[r]
        /\ TryInTime(NextTry(run), tries')
    BY <2>1, <2>2, NextTryIsNew
  <2>4. TryInTime(try, tries')
    BY <2>1, <2>3
  <2> DEFINE step == [op |-> "escalate", try |-> try]
  <2>5. step \in SupportCall /\ step.op = "escalate" /\ step.try = try
    BY <2>3, SupportCallsTyped
  <2>6. supportCall' = [supportCall EXCEPT ![c] = step]
    BY <2>1
  <2> HIDE DEF step
  <2> QED BY <2>2, <2>3, <2>4, <2>5, <2>6, SupportCallStep
<1> DEFINE mine == supportCall[c].try
<1>a. ASSUME supportCall[c] # NULL, supportCall[c].op \in {"escalate", "create"},
             UNCHANGED <<tries, keyed>>
      PROVE  /\ supportCall[c] \in SupportCall /\ mine \in Tries
             /\ TryInTime(mine, tries') /\ Unsaid(mine)
             /\ \A d \in Callers \ {c} : OnATry(d) => supportCall[d].try # mine
  BY <1>0, <1>a, SupportCallParts DEF TriesInTime, TriesAreOnce, OnATry, TryInTime
<1>3. CASE FindOpenTicket(c)
  <2>1. PICK t \in Open :
            supportCall' = [supportCall EXCEPT
                ![c] = [op |-> "append", try |-> @.try, ticket |-> t]]
    BY <1>3 DEF FindOpenTicket
  <2>2. /\ supportCall[c] # NULL /\ supportCall[c].op = "escalate"
        /\ UNCHANGED <<tickets, said, tries, keyed>> /\ answered' = NULL
    BY <1>3 DEF FindOpenTicket, Doing, NoAnswer
  <2>3. t \in Filed /\ t \in Tickets
    BY DEF Open, Filed
  <2> DEFINE step == [op |-> "append", try |-> mine, ticket |-> t]
  <2>4. /\ step \in SupportCall /\ step.op = "append" /\ step.ticket = t
        /\ step.try = mine
    BY <1>a, <2>2, <2>3, SupportCallsTyped
  <2>5. supportCall' = [supportCall EXCEPT ![c] = step]
    BY <2>1
  <2>6. TryInTime(mine, tries')
    BY <1>a, <2>2
  <2>7. TryInTime(step.try, tries')
    BY <2>6
  <2>8. /\ Unsaid(step.try)
        /\ \A d \in Callers \ {c} : OnATry(d) => supportCall[d].try # step.try
    BY <1>a, <2>2
  <2> HIDE DEF step, mine
  <2> QED BY <1>0, <2>2, <2>3, <2>4, <2>5, <2>7, <2>8, SupportCallStep
<1>4. CASE FindNoOpenTicket(c)
  <2>1. /\ supportCall[c] # NULL /\ supportCall[c].op = "escalate"
        /\ UNCHANGED <<tickets, said, tries, keyed>> /\ answered' = NULL
    BY <1>4 DEF FindNoOpenTicket, Doing, NoAnswer
  <2> DEFINE step == [supportCall[c] EXCEPT !.op = "create"]
  <2>2. step \in SupportCall /\ step.op = "create" /\ step.try = mine
    BY <1>a, <2>1 DEF SupportCall
  <2>3. supportCall' = [supportCall EXCEPT ![c] = step]
    BY <1>4 DEF FindNoOpenTicket
  <2>4. TryInTime(mine, tries')
    BY <1>a, <2>1
  <2>5. TryInTime(step.try, tries')
    BY <2>4
  <2>6. /\ Unsaid(step.try)
        /\ \A d \in Callers \ {c} : OnATry(d) => supportCall[d].try # step.try
    BY <1>a, <2>1, <2>2
  <2> HIDE DEF step, mine
  <2> QED BY <1>0, <2>1, <2>2, <2>3, <2>5, <2>6, SupportCallStep
<1>5. CASE EscalationExists(c)
  <2>1. /\ supportCall[c] # NULL /\ supportCall[c].op = "create"
        /\ supportCall' = [supportCall EXCEPT ![c] = NULL]
        /\ UNCHANGED <<tickets, said, tries, keyed>>
    BY <1>5 DEF EscalationExists, Doing, Ends
  <2>2. \E try \in Tries : \E t \in OfRun(try[1]) : answered' = <<try, t>>
    BY <1>a, <1>5, <2>1 DEF EscalationExists
  <2> QED BY <1>0, <2>1, <2>2, SupportCallStep
<1>6. CASE AskAppeal(c)
  <2> DEFINE step == [op |-> "appeal"]
  <2>1. step \in SupportCall /\ step.op = "appeal"
    BY SupportCallsTyped
  <2>2. supportCall' = [supportCall EXCEPT ![c] = step]
    BY <1>6 DEF AskAppeal, Waits
  <2> HIDE DEF step
  <2> QED BY <1>0, <1>6, <2>1, <2>2, SupportCallStep DEF AskAppeal, NoAnswer
<1>7. CASE Reply(c)
  <2>1. PICK t \in Filed, newStatus \in TicketStatus :
            supportCall' = [supportCall EXCEPT
                ![c] = [op |-> "reply", ticket |-> t, status |-> newStatus]]
    BY <1>0, <1>7 DEF Reply, Waits, SupportTypeOK, Filed, TicketRow, TicketStatus
  <2> DEFINE step == [op |-> "reply", ticket |-> t, status |-> newStatus]
  <2>2. step \in SupportCall /\ step.op = "reply" /\ step.ticket \in Filed
    BY SupportCallsTyped DEF Filed
  <2>3. supportCall' = [supportCall EXCEPT ![c] = step]
    BY <2>1
  <2> HIDE DEF step
  <2> QED BY <1>0, <1>7, <2>2, <2>3, SupportCallStep DEF Reply, NoAnswer
<1>8. CASE SupportHandlerFails(c)
  BY <1>0, <1>8, SupportCallStep DEF SupportHandlerFails, Ends, NoAnswer
<1> QED BY <1>1, <1>2, <1>3, <1>4, <1>5, <1>6, <1>7, <1>8

LEMMA EndedSupportCalls ==
    ASSUME NEW c \in Callers, SupportTypeOK,
           Ends(supportCall, c) \/ UNCHANGED supportCall
    PROVE  /\ supportCall' \in [Callers -> SupportCall \cup {NULL}]
           /\ \A d \in Callers : supportCall'[d] # NULL => supportCall'[d] = supportCall[d]
           /\ Ends(supportCall, c) => supportCall'[c] = NULL
BY DEF SupportTypeOK, Ends

LEMMA TicketStatusStep ==
    ASSUME SupportInv, NEW t \in Filed, NEW newStatus \in TicketStatus,
           SetStatus(t, newStatus), UNCHANGED <<said, tries, keyed>>,
           supportCall' \in [Callers -> SupportCall \cup {NULL}],
           \A d \in Callers : supportCall'[d] # NULL => supportCall'[d] = supportCall[d],
           answered' = NULL \/ \E try \in said[t] : answered' = <<try, t>>
    PROVE  SupportInv'
<1> USE DEF SupportInv
<1>1. tickets[t] \in TicketRow /\ t \in Tickets /\ said[t] \subseteq Tries
  BY DEF SupportTypeOK, Filed
<1> DEFINE row == [tickets[t] EXCEPT !.status = newStatus]
<1>2. row \in TicketRow /\ row.key = tickets[t].key
  BY <1>1 DEF TicketRow
<1>3. tickets' = [tickets EXCEPT ![t] = row]
  BY <1>1 DEF SetStatus, SupportTypeOK
<1> HIDE DEF row
<1>4. /\ tickets' \in [Tickets -> TicketRow \cup {NULL}]
      /\ \A u \in Tickets : tickets'[u] = IF u = t THEN row ELSE tickets[u]
  BY <1>1, <1>2, <1>3 DEF SupportTypeOK
<1>5. row # NULL
  BY <1>2, SupportAssumption
<1>6. Filed' = Filed /\ \A run \in Runs : OfRun(run)' = OfRun(run)
  BY <1>2, <1>4, <1>5 DEF Filed, OfRun
<1>7. SupportTypeOK'
  BY <1>1, <1>4 DEF SupportTypeOK
<1>8. CallsFoundTheirTicket' /\ KeyedAreSaid'
  BY <1>6 DEF CallsFoundTheirTicket, OnATicket, Doing, KeyedAreSaid
<1>9. TriesInTime' /\ TriesAreOnce'
  BY DEF TriesInTime, TriesAreOnce, OnATry, TryInTime, Unsaid
<1>10. HandoversAreKept'
  <2>1. \A try \in Tries, u \in Tickets :
            answered' = <<try, u>> => u = t /\ try \in said[t]
    BY AnswersTyped
  <2> QED BY <2>1 DEF HandoversAreKept
<1> QED BY <1>7, <1>8, <1>9, <1>10

\* A ticket is filed with what was said, if it is the ticket of a run.
LEMMA NewTicketStep ==
    ASSUME SupportInv, NEW t \in Tickets, NEW row \in TicketRow, NEW spoken \in SUBSET Tries,
           NewTicket(t, row, spoken),
           row.key # NULL =>
               OfRun(row.key) = {} /\ \E n \in 1 .. MaxTries : <<row.key, n>> \in spoken,
           tries' = tries,
           keyed' \in [Runs -> (0 .. MaxTries) \cup {NULL}],
           \A run \in Runs : keyed'[run] = IF run = row.key THEN tries[run] ELSE keyed[run],
           supportCall' \in [Callers -> SupportCall \cup {NULL}],
           \A d \in Callers : supportCall'[d] # NULL => supportCall'[d] = supportCall[d],
           \A try \in spoken :
               /\ try[1] = row.key /\ Unsaid(try) /\ TryInTime(try, tries)
               /\ \A d \in Callers : OnATry(d)' => supportCall'[d].try # try,
           \A try, other \in spoken : try = other,
           answered' = NULL \/ \E try \in spoken : answered' = <<try, t>>
    PROVE  SupportInv'
<1> USE DEF SupportInv
<1>1. row # NULL /\ t \notin Filed
  BY SupportAssumption DEF NewTicket
<1>2. /\ tickets' \in [Tickets -> TicketRow \cup {NULL}]
      /\ \A u \in Tickets : tickets'[u] = IF u = t THEN row ELSE tickets[u]
      /\ said' \in [Tickets -> SUBSET Tries]
      /\ \A u \in Tickets : said'[u] = IF u = t THEN spoken ELSE said[u]
  BY DEF SupportTypeOK, NewTicket
<1>3. Filed' = Filed \cup {t} /\ Filed \subseteq Tickets
  BY <1>1, <1>2 DEF Filed
<1>4. ASSUME NEW run \in Runs, NEW u \in Tickets
      PROVE  u \in OfRun(run)' <=> (u = t /\ run = row.key) \/ u \in OfRun(run)
  <2>1. CASE u = t
    BY <1>1, <1>2, <1>3, <2>1 DEF OfRun
  <2>2. CASE u # t
    BY <1>1, <1>2, <1>3, <2>2 DEF OfRun
  <2> QED BY <2>1, <2>2
<1>5. \A run \in Runs : run # NULL /\ (\A u \in OfRun(run) \cup OfRun(run)' : u \in Tickets)
  BY <1>3, SupportAssumption DEF OfRun
<1>6. SupportTypeOK'
  BY <1>2 DEF SupportTypeOK
<1>7. CallsFoundTheirTicket'
  BY <1>1, <1>2, <1>3 DEF CallsFoundTheirTicket, OnATicket, Doing
<1>8. KeyedAreSaid'
  <2>1. \A run \in Runs : \A u \in OfRun(run)' :
            \E n \in 1 .. MaxTries : <<run, n>> \in said'[u]
    <3> SUFFICES ASSUME NEW run \in Runs, NEW u \in OfRun(run)'
                 PROVE  \E n \in 1 .. MaxTries : <<run, n>> \in said'[u]
      OBVIOUS
    <3>1. CASE u = t /\ run = row.key
      BY <1>2, <1>5, <3>1
    <3>2. CASE u \in OfRun(run)
      BY <1>1, <1>2, <1>5, <3>2 DEF KeyedAreSaid, OfRun
    <3> QED BY <1>4, <1>5, <3>1, <3>2
  <2>2. \A run \in Runs : keyed'[run] # NULL => OfRun(run)' # {}
    BY <1>4, <1>5 DEF KeyedAreSaid
  <2> QED BY <2>1, <2>2 DEF KeyedAreSaid
\* Whoever speaks or has spoken began before the ticket was filed.
<1>9. \A try \in Tries : TryInTime(try, tries) => TryInTime(try, tries)'
  <2>1. \A try \in Tries : try[1] \in Runs
    BY DEF Tries
  <2> QED BY <2>1 DEF TryInTime
<1>10. TriesInTime'
  <2>1. \A d \in Callers : OnATry(d)' =>
            OnATry(d) /\ supportCall'[d] = supportCall[d] /\ supportCall[d].try \in Tries
    BY SupportCallParts DEF OnATry, SupportTypeOK
  <2>2. \A u \in Tickets : \A try \in said'[u] : try \in Tries /\ TryInTime(try, tries)
    BY <1>2 DEF TriesInTime, SupportTypeOK
  <2> QED BY <1>9, <2>1, <2>2 DEF TriesInTime
<1>11. TriesAreOnce'
  BY <1>2 DEF TriesAreOnce, OnATry, Unsaid
<1>12. HandoversAreKept'
  <2>1. \A try \in Tries, u \in Tickets : answered' = <<try, u>> => try \in said'[u]
    <3>1. \A try \in Tries, u \in Tickets :
              answered' = <<try, u>> => u = t /\ try \in spoken
      BY AnswersTyped
    <3> QED BY <1>2, <3>1
  <2>2. \A try \in Tries, u, v \in Tickets : try \in said'[u] /\ try \in said'[v] => u = v
    BY <1>2 DEF HandoversAreKept, Unsaid
  <2>3. \A try \in Tries, u \in Tickets :
            try \in said'[u] /\ keyed'[try[1]] # NULL => try[2] <= keyed'[try[1]]
    BY <1>10 DEF TriesInTime, TryInTime
  <2> QED BY <2>1, <2>2, <2>3 DEF HandoversAreKept
<1> QED BY <1>6, <1>7, <1>8, <1>10, <1>11, <1>12

LEMMA TicketStep ==
    ASSUME SupportInv, NEW c \in Callers,
           \/ TouchTicket(c) \/ CreateEscalation(c) \/ CreateAppeal(c)
           \/ UpdateAfterReply(c)
    PROVE  SupportInv'
<1> USE DEF SupportInv
<1>1. SupportTypeOK /\ supportCall \in [Callers -> SupportCall \cup {NULL}]
  BY DEF SupportTypeOK
<1>2. CASE TouchTicket(c)
  <2>1. /\ supportCall[c].ticket \in Filed
        /\ supportCall[c].try \in said[supportCall[c].ticket]
    BY <1>2 DEF TouchTicket, Doing, CallsFoundTheirTicket, OnATicket
  <2>2. "OPEN" \in TicketStatus
    BY DEF TicketStatus
  <2> QED BY <1>1, <1>2, <2>1, <2>2, EndedSupportCalls, TicketStatusStep DEF TouchTicket
<1>3. CASE UpdateAfterReply(c)
  <2>1. /\ supportCall[c].ticket \in Filed
        /\ supportCall[c].status \in TicketStatus
    BY <1>1, <1>3, SupportCallParts
    DEF UpdateAfterReply, Doing, CallsFoundTheirTicket, OnATicket
  <2> QED BY <1>1, <1>3, <2>1, EndedSupportCalls, TicketStatusStep
      DEF UpdateAfterReply, NoAnswer
<1>4. CASE CreateEscalation(c)
  <2> DEFINE try == supportCall[c].try
             run == try[1]
             row == [PlainTicket EXCEPT !.key = run]
  <2>1. /\ OnATry(c) /\ supportCall[c].op = "create"
        /\ try \in Tries /\ run \in Runs /\ OfRun(run) = {} /\ Ends(supportCall, c)
    BY <1>1, <1>4, SupportCallParts DEF CreateEscalation, Doing, OnATry
  <2>2. row \in TicketRow /\ row.key = run
    BY <2>1 DEF PlainTicket, TicketRow, TicketStatus
  <2>3. PICK t \in Tickets : NewTicket(t, row, {try}) /\ answered' = <<try, t>>
    BY <1>4 DEF CreateEscalation
  <2>4. keyed' = [keyed EXCEPT ![run] = tries[run]] /\ tries' = tries
    BY <1>4 DEF CreateEscalation
  <2>5. /\ keyed' \in [Runs -> (0 .. MaxTries) \cup {NULL}]
        /\ \A r \in Runs : keyed'[r] = IF r = run THEN tries[r] ELSE keyed[r]
    BY <2>1, <2>4 DEF SupportTypeOK
  <2>6. Unsaid(try) /\ TryInTime(try, tries)
    BY <2>1 DEF TriesInTime, TriesAreOnce
  <2>7. \A d \in Callers : OnATry(d)' => supportCall'[d].try # try
    BY <1>1, <2>1, EndedSupportCalls DEF TriesAreOnce, OnATry
  <2>8. \E n \in 1 .. MaxTries : <<run, n>> \in {try}
    BY <2>1 DEF Tries
  <2> HIDE DEF row, run, try
  <2>9. \A said_ \in {try} : said_[1] = run
    BY DEF run
  <2> QED
    BY <1>1, <2>1, <2>2, <2>3, <2>4, <2>5, <2>6, <2>7, <2>8, <2>9, EndedSupportCalls,
       NewTicketStep
<1>5. CASE CreateAppeal(c)
  <2> DEFINE row == [PlainTicket EXCEPT !.appeal = TRUE]
  <2>1. row \in TicketRow /\ row.key = NULL
    BY DEF PlainTicket, TicketRow, TicketStatus
  <2>2. PICK t \in Tickets : NewTicket(t, row, {})
    BY <1>5 DEF CreateAppeal
  <2>3. Ends(supportCall, c) /\ UNCHANGED <<tries, keyed>> /\ answered' = NULL
    BY <1>5 DEF CreateAppeal, NoAnswer
  <2>4. \A run \in Runs : run # row.key
    BY <2>1, SupportAssumption
  <2> HIDE DEF row
  <2> QED BY <1>1, <2>1, <2>2, <2>3, <2>4, EndedSupportCalls, NewTicketStep
      DEF SupportTypeOK
<1> QED BY <1>2, <1>3, <1>4, <1>5

\* The message is on the ticket before the ticket is touched.
LEMMA AppendStep ==
    ASSUME SupportInv, NEW c \in Callers, AppendMessage(c)
    PROVE  SupportInv'
<1> USE DEF SupportInv
<1> DEFINE step == supportCall[c]
           next == [step EXCEPT !.op = "touch"]
<1>1. /\ OnATry(c) /\ step \in SupportCall /\ step.op = "append"
      /\ step.try \in Tries /\ step.ticket \in Tickets /\ step.ticket \in Filed
      /\ UNCHANGED <<tickets, tries, keyed>> /\ answered' = NULL
  BY SupportCallParts
  DEF AppendMessage, Doing, SupportTypeOK, CallsFoundTheirTicket, OnATicket, OnATry, NoAnswer
<1>2. /\ next \in SupportCall /\ next.op = "touch"
      /\ next.try = step.try /\ next.ticket = step.ticket
  BY <1>1 DEF SupportCall
<1>3. /\ supportCall' = [supportCall EXCEPT ![c] = next]
      /\ said' = [said EXCEPT ![step.ticket] = @ \cup {step.try}]
  BY DEF AppendMessage
<1>4. TryInTime(step.try, tries) /\ Unsaid(step.try)
  BY <1>1 DEF TriesInTime, TriesAreOnce
<1>5. \A d \in Callers \ {c} : OnATry(d) => supportCall[d].try # step.try
  BY <1>1 DEF TriesAreOnce
<1>6. next # NULL
  BY <1>2, SupportAssumption
<1>7. /\ supportCall' \in [Callers -> SupportCall \cup {NULL}]
      /\ \A d \in Callers : supportCall'[d] = IF d = c THEN next ELSE supportCall[d]
  BY <1>2, <1>3 DEF SupportTypeOK
<1> HIDE DEF step, next
<1>8. /\ said' \in [Tickets -> SUBSET Tries]
      /\ \A t \in Tickets :
             said'[t] = IF t = step.ticket THEN said[t] \cup {step.try} ELSE said[t]
  BY <1>1, <1>3 DEF SupportTypeOK
<1>9. /\ Filed' = Filed /\ Filed \subseteq Tickets
      /\ \A run \in Runs : OfRun(run)' = OfRun(run)
  BY <1>1 DEF Filed, OfRun
<1>10. SupportTypeOK'
  BY <1>1, <1>7, <1>8 DEF SupportTypeOK
<1>11. CallsFoundTheirTicket'
  BY <1>1, <1>2, <1>7, <1>8, <1>9 DEF CallsFoundTheirTicket, OnATicket, Doing
<1>12. KeyedAreSaid'
  BY <1>1, <1>8, <1>9 DEF KeyedAreSaid, OfRun
<1>13. \A d \in Callers :
           /\ OnATry(d)' <=> OnATry(d)
           /\ OnATry(d) => supportCall'[d].try = IF d = c THEN step.try ELSE supportCall[d].try
  BY <1>1, <1>2, <1>6, <1>7 DEF OnATry
<1>14. TriesInTime'
  <2>1. \A try : TryInTime(try, tries)' <=> TryInTime(try, tries)
    BY <1>1 DEF TryInTime
  <2>2. \A d \in Callers : OnATry(d)' => TryInTime(supportCall'[d].try, tries)
    BY <1>4, <1>13 DEF TriesInTime
  <2>3. \A t \in Tickets : \A try \in said'[t] : TryInTime(try, tries)
    BY <1>4, <1>8 DEF TriesInTime
  <2> QED BY <2>1, <2>2, <2>3 DEF TriesInTime
<1>15. TriesAreOnce'
  <2>1. step.try = supportCall[c].try
    BY DEF step
  <2>2. \A d, e \in Callers :
            OnATry(d)' /\ OnATry(e)' /\ supportCall'[d].try = supportCall'[e].try => d = e
    BY <1>5, <1>13 DEF TriesAreOnce
  <2>3. ASSUME NEW d \in Callers, OnATry(d)', supportCall'[d].op # "touch",
               NEW t \in Tickets
        PROVE  supportCall'[d].try \notin said'[t]
    <3>1. d # c /\ supportCall'[d] = supportCall[d] /\ OnATry(d)
      BY <1>2, <1>7, <1>13, <2>3
    <3>2. supportCall[d].try \notin said[t] /\ supportCall[d].try # step.try
      BY <1>5, <2>3, <3>1 DEF TriesAreOnce, Unsaid
    <3> QED BY <1>8, <3>1, <3>2
  <2> QED BY <2>2, <2>3 DEF TriesAreOnce, Unsaid
<1>16. HandoversAreKept'
  <2>1. \A try \in Tries, t \in Tickets : answered' # <<try, t>>
    BY <1>1, AnswersTyped
  <2>2. \A try \in Tries, t, u \in Tickets : try \in said'[t] /\ try \in said'[u] => t = u
    BY <1>4, <1>8 DEF HandoversAreKept, Unsaid
  <2>3. \A try \in Tries, t \in Tickets :
            try \in said'[t] /\ keyed'[try[1]] # NULL => try[2] <= keyed'[try[1]]
    BY <1>14 DEF TriesInTime, TryInTime
  <2> QED BY <2>1, <2>2, <2>3 DEF HandoversAreKept
<1> QED BY <1>10, <1>11, <1>12, <1>14, <1>15, <1>16

LEMMA FilingStep ==
    ASSUME SupportInv,
           CreateTicket \/ \E t \in Tickets : AssignToAdmin(t) \/ UpdateStatus(t)
    PROVE  SupportInv'
<1>1. /\ supportCall \in [Callers -> SupportCall \cup {NULL}]
      /\ keyed \in [Runs -> (0 .. MaxTries) \cup {NULL}]
      /\ PlainTicket \in TicketRow /\ PlainTicket.key = NULL /\ "OPEN" \in TicketStatus
      /\ \A run \in Runs : run # NULL
  BY SupportAssumption DEF SupportInv, SupportTypeOK, PlainTicket, TicketRow, TicketStatus
<1>2. CASE CreateTicket
  <2>1. PICK t \in Tickets : NewTicket(t, PlainTicket, {})
    BY <1>2 DEF CreateTicket
  <2>2. UNCHANGED <<supportCall, tries, keyed>> /\ answered' = NULL
    BY <1>2 DEF CreateTicket, NoAnswer
  <2> QED BY <1>1, <2>1, <2>2, NewTicketStep
<1>3. ASSUME NEW t \in Tickets, AssignToAdmin(t)
      PROVE  SupportInv'
  BY <1>1, <1>3, TicketStatusStep DEF AssignToAdmin, NoAnswer
<1>4. ASSUME NEW t \in Tickets, UpdateStatus(t)
      PROVE  SupportInv'
  BY <1>1, <1>4, TicketStatusStep DEF UpdateStatus, NoAnswer
<1> QED BY <1>2, <1>3, <1>4

LEMMA SupportInitInv ==
    ASSUME SupportInit
    PROVE  SupportInv
<1>1. 0 \in 0 .. MaxTries
  BY SupportAssumption
<1> QED
  BY <1>1, AnswersTyped
  DEF SupportInit, SupportInv, SupportTypeOK, CallsFoundTheirTicket, OnATicket,
      OnATry, Doing, KeyedAreSaid, TriesInTime, TriesAreOnce, Unsaid,
      HandoversAreKept, OfRun, Filed, NobodyWaits

LEMMA SupportNextInv ==
    ASSUME SupportInv, [SupportNext]_supportVars
    PROVE  SupportInv'
<1>1. CASE UNCHANGED supportVars
  <2> USE <1>1 DEF supportVars, SupportInv
  <2>1. SupportTypeOK' /\ CallsFoundTheirTicket' /\ KeyedAreSaid'
    BY DEF SupportTypeOK, CallsFoundTheirTicket, OnATicket, Doing, KeyedAreSaid,
       OfRun, Filed
  <2>2. TriesInTime' /\ TriesAreOnce'
    BY DEF TriesInTime, TriesAreOnce, TryInTime, OnATry, Unsaid
  <2>3. HandoversAreKept'
    BY DEF HandoversAreKept, OfRun, Filed
  <2> QED BY <2>1, <2>2, <2>3
<1>2. CASE SupportNext
  BY <1>2, HandoverStep, TicketStep, AppendStep, FilingStep DEF SupportNext
<1> QED BY <1>1, <1>2

\* An answered handover has its own message on its ticket, or the ticket is its
\* run's; a try speaks on one ticket, and none does that began after its run's
\* ticket was filed, whoever raced it.
THEOREM HandoversKept == SupportSpec => []HandoversAreKept
<1>1. SupportInit => SupportInv
  BY SupportInitInv
<1>2. SupportInv /\ [SupportNext]_supportVars => SupportInv'
  BY SupportNextInv
<1>3. SupportInv => HandoversAreKept
  BY DEF SupportInv
<1> QED BY <1>1, <1>2, <1>3, PTL DEF SupportSpec

----------------------------------------------------------------------------
(* The queue.  Ten days of waiting are worth the best plan.                *)

QueueInv ==
    QueueTypeOK /\ \A t \in Queued : queue[t].created <= today

LEMMA WaitingCounts ==
    ASSUME QueueInv
    PROVE  PatienceIsRewarded
<1> SUFFICES ASSUME NEW t \in Queued, NEW u \in Queued,
                    queue[t].severity = queue[u].severity,
                    queue[u].created >= queue[t].created + 10
             PROVE  Precedes(t, u)
  BY DEF PatienceIsRewarded
<1> DEFINE a == queue[t].created
           b == queue[u].created
           now == today
           gain(v) == CommercialWeight(v)
<1>1. /\ now \in Nat /\ a \in Nat /\ b \in Nat
      /\ b >= a + 10 /\ b <= now
  BY DEF QueueInv, QueueTypeOK, Queued, QueueRow
<1>2. gain(t) \in {0, 100, 200} /\ gain(u) \in {0, 100, 200}
  BY DEF CommercialWeight, QueueInv, QueueTypeOK, Plans, Queued
<1>3. Score(t) = gain(t) + (now - a) * 20 /\ Score(u) = gain(u) + (now - b) * 20
  BY DEF Score, Age
<1> HIDE DEF a, b, now, gain
<1>4. Score(t) > Score(u) \/ (Score(t) = Score(u) /\ a < b)
  BY <1>1, <1>2, <1>3
<1> QED BY <1>4 DEF Precedes, a, b

LEMMA QueueNextInv ==
    ASSUME QueueInv, [QueueNext]_queueVars
    PROVE  QueueInv'
<1> USE DEF QueueInv
<1>1. CASE UNCHANGED queueVars
  BY <1>1 DEF queueVars, QueueTypeOK, Queued
<1>2. ASSUME NEW t \in QueueTickets, OpenTicket(t)
      PROVE  QueueInv'
  <2>1. PICK severity \in Severities :
            queue' = [queue EXCEPT ![t] = [severity |-> severity, created |-> today]]
    BY <1>2 DEF OpenTicket
  <2> DEFINE row == [severity |-> severity, created |-> today]
  <2>2. row \in QueueRow /\ row.created = today /\ today \in Nat
    BY DEF QueueTypeOK, QueueRow
  <2>3. queue' = [queue EXCEPT ![t] = row] /\ UNCHANGED <<plan, today>>
    BY <1>2, <2>1 DEF OpenTicket
  <2> HIDE DEF row
  <2>4. \A u \in QueueTickets : queue'[u] = IF u = t THEN row ELSE queue[u]
    BY <2>3 DEF QueueTypeOK
  <2> QED BY <2>2, <2>3, <2>4 DEF QueueTypeOK, Queued
<1>3. ASSUME NEW t \in QueueTickets, CloseTicket(t) \/ ChangePlan(t)
      PROVE  QueueInv'
  BY <1>3 DEF CloseTicket, ChangePlan, QueueTypeOK, Queued
<1>4. CASE NextDay
  <2>1. today \in Nat /\ today' = today + 1 /\ UNCHANGED <<queue, plan>>
    BY <1>4 DEF NextDay, QueueTypeOK
  <2>2. \A t \in Queued : queue[t].created \in Nat
    BY DEF QueueTypeOK, Queued, QueueRow
  <2> QED BY <2>1, <2>2 DEF QueueTypeOK, Queued
<1> QED BY <1>1, <1>2, <1>3, <1>4 DEF QueueNext

LEMMA QueueInitInv ==
    ASSUME QueueInit
    PROVE  QueueInv
BY DEF QueueInit, QueueInv, QueueTypeOK, Queued, Plans

\* A ticket comes before all those of its severity that were written ten days
\* after it, or later, whatever plans are bought: for every number of tickets,
\* severities and days.
THEOREM PatienceRewarded == QueueSpec => []PatienceIsRewarded
<1>1. QueueInit => QueueInv
  BY QueueInitInv
<1>2. QueueInv /\ [QueueNext]_queueVars => QueueInv'
  BY QueueNextInv
<1>3. QueueInv => PatienceIsRewarded
  BY WaitingCounts
<1> QED BY <1>1, <1>2, <1>3, PTL DEF QueueSpec

----------------------------------------------------------------------------
(* Notifications.  Tokens that are to be deleted are dead, and a dead one  *)
(* is never registered again.                                              *)

CleaningDead ==
    \A n \in Notes : NoteAt(n, "clean") => pushes[n].to \cap known = {}

NotesInv == NotificationsTypeOK /\ CleaningDead /\ LiveDevicesStay

LEMMA PushesTyped ==
    /\ \A step \in {"create", "emit", "tokens"}, u \in Users :
           [step |-> step, user |-> u] \in Push
    /\ \A step \in {"send", "clean"}, to \in SUBSET Devices :
           [step |-> step, to |-> to] \in Push
BY DEF Push

LEMMA PushParts ==
    ASSUME NEW push \in Push
    PROVE  /\ push.step \in {"create", "emit", "tokens"} => push.user \in Users
           /\ push.step \in {"send", "clean"} => push.to \in SUBSET Devices
BY DEF Push

\* A push goes on to another step, or ends.
LEMMA SetPushStep ==
    ASSUME NotesInv, NEW n \in Notes, NEW push \in Push \cup {NULL},
           SetPush(n, push), UNCHANGED <<devices, known, wanted>>,
           notes' \in [Notes -> NoteRow \cup {NULL}],
           push # NULL /\ push.step = "clean" => push.to \cap known = {}
    PROVE  NotesInv'
<1>1. /\ pushes' \in [Notes -> Push \cup {NULL}]
      /\ \A m \in Notes : pushes'[m] = IF m = n THEN push ELSE pushes[m]
  BY DEF NotesInv, NotificationsTypeOK, SetPush
<1> QED BY <1>1 DEF NotesInv, NotificationsTypeOK, CleaningDead, NoteAt, LiveDevicesStay

LEMMA PushStep ==
    ASSUME NotesInv, NEW n \in Notes,
           \/ \E u \in Users : NotifyUser(n, u)
           \/ CreateNote(n) \/ EmitNote(n) \/ ReadTokens(n)
           \/ SendMulticast(n) \/ NotifyFails(n)
    PROVE  NotesInv'
<1>1. /\ pushes \in [Notes -> Push \cup {NULL}] /\ known \subseteq Devices
      /\ notes \in [Notes -> NoteRow \cup {NULL}]
  BY DEF NotesInv, NotificationsTypeOK
<1>2. ASSUME NEW u \in Users, NotifyUser(n, u)
      PROVE  NotesInv'
  <2> DEFINE push == [step |-> "create", user |-> u]
  <2>1. push \in Push /\ push.step = "create"
    BY PushesTyped
  <2>2. SetPush(n, push)
    BY <1>2 DEF NotifyUser
  <2> HIDE DEF push
  <2> QED BY <1>1, <1>2, <2>1, <2>2, SetPushStep DEF NotifyUser
<1>3. CASE CreateNote(n)
  <2> DEFINE push == [pushes[n] EXCEPT !.step = "emit"]
             row == [user |-> pushes[n].user, read |-> FALSE]
  <2>1. pushes[n] \in Push /\ pushes[n].step = "create" /\ pushes[n].user \in Users
    BY <1>1, <1>3, PushParts DEF CreateNote, NoteAt
  <2>2. push \in Push /\ push.step = "emit" /\ row \in NoteRow
    BY <2>1 DEF Push, NoteRow
  <2>3. SetPush(n, push) /\ notes' = [notes EXCEPT ![n] = row]
    BY <1>3 DEF CreateNote
  <2> HIDE DEF push, row
  <2> QED BY <1>1, <1>3, <2>2, <2>3, SetPushStep DEF CreateNote
<1>4. CASE EmitNote(n)
  <2> DEFINE push == [pushes[n] EXCEPT !.step = "tokens"]
  <2>1. pushes[n] \in Push /\ pushes[n].step = "emit"
    BY <1>1, <1>4 DEF EmitNote, NoteAt
  <2>2. push \in Push /\ push.step = "tokens"
    BY <2>1 DEF Push
  <2>3. SetPush(n, push)
    BY <1>4 DEF EmitNote
  <2> HIDE DEF push
  <2> QED BY <1>1, <1>4, <2>2, <2>3, SetPushStep DEF EmitNote
<1>5. CASE ReadTokens(n)
  <2> DEFINE to == {d \in Devices : devices[d] = pushes[n].user}
             send == [step |-> "send", to |-> to]
             push == IF to = {} THEN NULL ELSE send
  <2>1. send \in Push /\ send.step = "send"
    BY PushesTyped
  <2>2. SetPush(n, push)
    BY <1>5 DEF ReadTokens
  <2> HIDE DEF send
  <2>3. push \in Push \cup {NULL} /\ (push # NULL => push.step = "send")
    BY <2>1
  <2> HIDE DEF push
  <2> QED BY <1>1, <1>5, <2>2, <2>3, SetPushStep DEF ReadTokens
<1>6. CASE SendMulticast(n)
  <2> DEFINE failed == Failed(pushes[n].to)
             clean == [step |-> "clean", to |-> failed]
             push == IF failed = {} THEN NULL ELSE clean
  <2>1. pushes[n] \in Push /\ pushes[n].step = "send"
    BY <1>1, <1>6 DEF SendMulticast, NoteAt
  <2>2. failed \in SUBSET Devices /\ failed \cap known = {}
    BY <2>1, PushParts DEF Failed
  <2>3. clean \in Push /\ clean.to = failed
    BY <2>2, PushesTyped
  <2>4. SetPush(n, push)
    BY <1>6 DEF SendMulticast
  <2> HIDE DEF clean, failed
  <2>5. push \in Push \cup {NULL} /\ (push # NULL => push.to = failed)
    BY <2>3
  <2> HIDE DEF push
  <2> QED BY <1>1, <1>6, <2>2, <2>4, <2>5, SetPushStep DEF SendMulticast
<1>7. CASE NotifyFails(n)
  BY <1>1, <1>7, SetPushStep DEF NotifyFails
<1> QED BY <1>2, <1>3, <1>4, <1>5, <1>6, <1>7

LEMMA DeviceStep ==
    ASSUME NotesInv,
           \/ \E n \in Notes : DeleteFailedTokens(n) \/ MarkRead(n)
           \/ \E u \in Users : MarkAllRead(u)
           \/ \E d \in Devices :
                  \/ \E u \in Users : SaveDeviceToken(d, u)
                  \/ RemoveDeviceToken(d) \/ TokenExpires(d)
    PROVE  NotesInv'
<1> USE DEF NotesInv, NotificationsTypeOK, CleaningDead, LiveDevicesStay, NoteAt
<1>1. ASSUME NEW n \in Notes, DeleteFailedTokens(n)
      PROVE  NotesInv'
  <2>1. /\ pushes' = [pushes EXCEPT ![n] = NULL]
        /\ UNCHANGED <<notes, known, wanted>> /\ pushes[n].to \cap known = {}
        /\ devices' = [d \in Devices |-> IF d \in pushes[n].to THEN NULL ELSE devices[d]]
    BY <1>1 DEF DeleteFailedTokens, SetPush
  <2>2. devices' \in [Devices -> Users \cup {NULL}]
        /\ \A d \in known : devices'[d] = devices[d]
    BY <2>1
  <2> QED BY <2>1, <2>2
<1>2. ASSUME NEW n \in Notes, MarkRead(n)
      PROVE  NotesInv'
  <2> DEFINE row == [notes[n] EXCEPT !.read = TRUE]
  <2>1. row \in NoteRow
    BY <1>2 DEF MarkRead, NoteRow
  <2>2. notes' = [notes EXCEPT ![n] = row]
    BY <1>2 DEF MarkRead
  <2> HIDE DEF row
  <2> QED BY <1>2, <2>1, <2>2 DEF MarkRead
<1>3. ASSUME NEW u \in Users, MarkAllRead(u)
      PROVE  NotesInv'
  <2>1. ASSUME NEW n \in Notes, notes[n] # NULL
        PROVE  [notes[n] EXCEPT !.read = TRUE] \in NoteRow
    BY <2>1 DEF NoteRow
  <2>2. notes' \in [Notes -> NoteRow \cup {NULL}]
    BY <1>3, <2>1 DEF MarkAllRead
  <2> QED BY <1>3, <2>2 DEF MarkAllRead
<1>4. ASSUME NEW d \in Devices, NEW u \in Users, SaveDeviceToken(d, u)
      PROVE  NotesInv'
  BY <1>4 DEF SaveDeviceToken
<1>5. ASSUME NEW d \in Devices, RemoveDeviceToken(d) \/ TokenExpires(d)
      PROVE  NotesInv'
  BY <1>5 DEF RemoveDeviceToken, TokenExpires
<1> QED BY <1>1, <1>2, <1>3, <1>4, <1>5

LEMMA NotesInitInv ==
    ASSUME NotificationsInit
    PROVE  NotesInv
BY DEF NotificationsInit, NotesInv, NotificationsTypeOK, CleaningDead, NoteAt,
   LiveDevicesStay

LEMMA NotesNextInv ==
    ASSUME NotesInv, [NotificationsNext]_noteVars
    PROVE  NotesInv'
<1>1. CASE UNCHANGED noteVars
  BY <1>1 DEF noteVars, NotesInv, NotificationsTypeOK, CleaningDead, NoteAt,
     LiveDevicesStay
<1>2. CASE NotificationsNext
  BY <1>2, PushStep, DeviceStep DEF NotificationsNext
<1> QED BY <1>1, <1>2

\* Cleaning up after a push takes no device from a user who still has it.
THEOREM DevicesStay == NotificationsSpec => []LiveDevicesStay
<1>1. NotificationsInit => NotesInv
  BY NotesInitInv
<1>2. NotesInv /\ [NotificationsNext]_noteVars => NotesInv'
  BY NotesNextInv
<1>3. NotesInv => LiveDevicesStay
  BY DEF NotesInv
<1> QED BY <1>1, <1>2, <1>3, PTL DEF NotificationsSpec

----------------------------------------------------------------------------
(* Administrators.  What a handler checked still holds while nobody has    *)
(* written to the team since.                                              *)

Editing(c) == teamCall[c] # NULL /\ teamCall[c].op = "edit"

ChecksHold ==
    \A c \in Callers : Editing(c) =>
        /\ teamCall[c].target \in Admins
        /\ ~teamCall[c].stale =>
               LastIsKept(teamCall[c].target,
                          Edited(team[teamCall[c].target], teamCall[c]))

TeamInv == AdminTeamTypeOK /\ ChecksHold

LEMMA TeamCallParts ==
    ASSUME NEW step \in TeamCall
    PROVE  /\ step.stale \in BOOLEAN
           /\ step.op = "create" => step.role \in AdminRole
           /\ step.op = "edit" =>
                  /\ step.target \in Members /\ step.role \in AdminRole \cup {NULL}
                  /\ step.active \in BOOLEAN \cup {NULL}
           /\ step.op \in {"authorized", "create", "edit"}
BY DEF TeamCall

LEMMA TeamCallsTyped ==
    /\ \A actor \in Members :
           [op |-> "authorized", actor |-> actor, stale |-> FALSE] \in TeamCall
    /\ \A role \in AdminRole :
           [op |-> "create", role |-> role, stale |-> FALSE] \in TeamCall
    /\ \A target \in Members, role \in AdminRole \cup {NULL},
          active \in BOOLEAN \cup {NULL} :
           [op |-> "edit", target |-> target, role |-> role, active |-> active,
            stale |-> FALSE] \in TeamCall
BY DEF TeamCall

\* A handler goes on, or ends, without a write.
LEMMA TeamCallStep ==
    ASSUME TeamInv, NEW c \in Callers, NEW step \in TeamCall \cup {NULL},
           teamCall' = [teamCall EXCEPT ![c] = step], UNCHANGED <<team, overlapped>>,
           step # NULL /\ step.op = "edit" =>
               /\ step.target \in Admins
               /\ LastIsKept(step.target, Edited(team[step.target], step))
    PROVE  TeamInv'
<1>1. /\ teamCall' \in [Callers -> TeamCall \cup {NULL}]
      /\ \A d \in Callers : teamCall'[d] = IF d = c THEN step ELSE teamCall[d]
  BY DEF TeamInv, AdminTeamTypeOK
<1>2. Admins' = Admins /\ SuperAdmins' = SuperAdmins
  BY DEF Admins, SuperAdmins
<1>3. AdminTeamTypeOK'
  BY <1>1 DEF TeamInv, AdminTeamTypeOK
<1>4. ASSUME NEW d \in Callers, Editing(d)'
      PROVE  /\ teamCall'[d].target \in Admins
             /\ ~teamCall'[d].stale =>
                    LastIsKept(teamCall'[d].target,
                               Edited(team[teamCall'[d].target], teamCall'[d]))
  BY <1>1, <1>4 DEF TeamInv, ChecksHold, Editing
<1> QED BY <1>2, <1>3, <1>4 DEF TeamInv, ChecksHold, LastIsKept

\* A write makes stale what every other handler has checked.
LEMMA NowStaleStep ==
    ASSUME TeamInv, NEW c \in Callers, NowStale(c), AdminTeamTypeOK,
           team' \in [Members -> Member \cup {NULL}], overlapped' \in BOOLEAN,
           Admins \subseteq Admins'
    PROVE  TeamInv'
<1>1. ASSUME NEW d \in Callers, teamCall[d] # NULL
      PROVE  LET step == [teamCall[d] EXCEPT !.stale = TRUE]
             IN  /\ step \in TeamCall /\ step.stale /\ step.op = teamCall[d].op
                 /\ step.op = "edit" => step.target = teamCall[d].target
  BY <1>1 DEF AdminTeamTypeOK, TeamCall
<1>2. /\ teamCall' \in [Callers -> TeamCall \cup {NULL}]
      /\ \A d \in Callers : teamCall'[d] # NULL =>
             /\ teamCall[d] # NULL /\ teamCall'[d].stale
             /\ teamCall'[d].op = teamCall[d].op
             /\ teamCall[d].op = "edit" => teamCall'[d].target = teamCall[d].target
  BY <1>1 DEF NowStale
<1>3. AdminTeamTypeOK'
  BY <1>2 DEF AdminTeamTypeOK
<1>4. ChecksHold'
  BY <1>2 DEF TeamInv, ChecksHold, Editing
<1> QED BY <1>3, <1>4 DEF TeamInv

LEMMA EditedTyped ==
    ASSUME NEW row \in Member, NEW step \in TeamCall, step.op = "edit"
    PROVE  Edited(row, step) \in Member
BY TeamCallParts DEF Edited, Member

\* What a write does to the team.
LEMMA CreateAdminEffect ==
    ASSUME TeamInv, NEW c \in Callers, CreateAdmin(c)
    PROVE  /\ team' \in [Members -> Member \cup {NULL}]
           /\ \A m \in Admins : m \in Admins' /\ team'[m] = team[m]
           /\ overlapped' \in BOOLEAN
<1>1. teamCall[c] \in TeamCall /\ teamCall[c].op = "create"
  BY DEF CreateAdmin, TeamInv, AdminTeamTypeOK
<1>2. PICK m \in Members :
          team[m] = NULL
          /\ team' = [team EXCEPT ![m] = [role |-> teamCall[c].role, active |-> TRUE]]
  BY DEF CreateAdmin
<1> DEFINE row == [role |-> teamCall[c].role, active |-> TRUE]
<1>3. row \in Member
  BY <1>1, TeamCallParts DEF Member
<1>4. team' = [team EXCEPT ![m] = row]
  BY <1>2
<1> HIDE DEF row
<1>5. /\ team' \in [Members -> Member \cup {NULL}]
      /\ \A n \in Admins : n \in Admins' /\ team'[n] = team[n]
  BY <1>2, <1>3, <1>4 DEF TeamInv, AdminTeamTypeOK, Admins
<1>6. overlapped' \in BOOLEAN
  BY <1>1, TeamCallParts DEF CreateAdmin
<1> QED BY <1>5, <1>6

LEMMA UpdateTeamMemberEffect ==
    ASSUME TeamInv, NEW c \in Callers, UpdateTeamMember(c)
    PROVE  LET target == teamCall[c].target
               next == Edited(team[target], teamCall[c])
           IN  /\ target \in Admins /\ next \in Member
               /\ team' \in [Members -> Member \cup {NULL}]
               /\ team'[target] = next
               /\ \A m \in Members \ {target} : team'[m] = team[m]
               /\ Admins' = Admins
               /\ overlapped' \in BOOLEAN
<1> DEFINE target == teamCall[c].target
           next == Edited(team[target], teamCall[c])
<1>1. /\ teamCall[c] \in TeamCall /\ teamCall[c].op = "edit"
      /\ target \in Admins /\ target \in Members
      /\ team[target] \in Member
  BY DEF UpdateTeamMember, TeamInv, AdminTeamTypeOK, ChecksHold, Editing, Admins
<1>2. next \in Member
  BY <1>1, EditedTyped
<1>3. team' = [team EXCEPT ![target] = next]
  BY <1>1 DEF UpdateTeamMember, TeamInv, AdminTeamTypeOK
<1>4. overlapped' \in BOOLEAN
  BY <1>1, TeamCallParts DEF UpdateTeamMember
<1> HIDE DEF target, next
<1>5. /\ team' \in [Members -> Member \cup {NULL}] /\ team'[target] = next
      /\ \A m \in Members \ {target} : team'[m] = team[m]
  BY <1>1, <1>2, <1>3 DEF TeamInv, AdminTeamTypeOK
<1>6. next # NULL
  BY <1>2, TeamAssumption
<1>7. Admins' = Admins
  BY <1>1, <1>5, <1>6 DEF Admins
<1> QED BY <1>1, <1>2, <1>4, <1>5, <1>7 DEF target, next

LEMMA TeamHandlerStep ==
    ASSUME TeamInv, NEW c \in Callers,
           \/ ChooseCreate(c) \/ CreateAdmin(c)
           \/ Authorize(c) \/ ChooseEdit(c) \/ UpdateTeamMember(c)
           \/ TeamHandlerFails(c)
    PROVE  TeamInv'
<1>0. AdminTeamTypeOK
  BY DEF TeamInv
<1>1. CASE ChooseCreate(c)
  <2>1. PICK role \in AdminRole :
            teamCall' = [teamCall EXCEPT
                ![c] = [op |-> "create", role |-> role, stale |-> FALSE]]
    BY <1>1 DEF ChooseCreate, Waits
  <2> DEFINE step == [op |-> "create", role |-> role, stale |-> FALSE]
  <2>2. step \in TeamCall /\ step.op = "create"
    BY TeamCallsTyped
  <2>3. teamCall' = [teamCall EXCEPT ![c] = step]
    BY <2>1
  <2> HIDE DEF step
  <2> QED BY <1>1, <2>2, <2>3, TeamCallStep DEF ChooseCreate
<1>2. CASE CreateAdmin(c)
  BY <1>0, <1>2, CreateAdminEffect, NowStaleStep DEF CreateAdmin
<1>3. CASE Authorize(c)
  <2>1. PICK actor \in Members :
            teamCall' = [teamCall EXCEPT
                ![c] = [op |-> "authorized", actor |-> actor, stale |-> FALSE]]
    BY <1>3 DEF Authorize, Waits, SuperAdmins, Admins
  <2> DEFINE step == [op |-> "authorized", actor |-> actor, stale |-> FALSE]
  <2>2. step \in TeamCall /\ step.op = "authorized"
    BY TeamCallsTyped
  <2>3. teamCall' = [teamCall EXCEPT ![c] = step]
    BY <2>1
  <2> HIDE DEF step
  <2> QED BY <1>3, <2>2, <2>3, TeamCallStep DEF Authorize
<1>4. CASE ChooseEdit(c)
  <2>1. PICK target \in Admins, role \in AdminRole \cup {NULL},
             active \in BOOLEAN \cup {NULL} :
            LET edit == [op |-> "edit", target |-> target, role |-> role,
                         active |-> active, stale |-> FALSE]
            IN  /\ LastIsKept(target, Edited(team[target], edit))
                /\ teamCall' = [teamCall EXCEPT ![c] = edit]
    BY <1>4 DEF ChooseEdit
  <2> DEFINE edit == [op |-> "edit", target |-> target, role |-> role,
                      active |-> active, stale |-> FALSE]
  <2>2. edit \in TeamCall /\ edit.op = "edit" /\ edit.target = target
    BY TeamCallsTyped DEF Admins
  <2>3. /\ LastIsKept(target, Edited(team[target], edit))
        /\ teamCall' = [teamCall EXCEPT ![c] = edit]
    BY <2>1
  <2> HIDE DEF edit
  <2> QED BY <1>4, <2>2, <2>3, TeamCallStep DEF ChooseEdit
<1>5. CASE UpdateTeamMember(c)
  BY <1>0, <1>5, UpdateTeamMemberEffect, NowStaleStep DEF UpdateTeamMember
<1>6. CASE TeamHandlerFails(c)
  BY <1>6, TeamCallStep DEF TeamHandlerFails, Ends
<1> QED BY <1>1, <1>2, <1>3, <1>4, <1>5, <1>6

LEMMA TeamInitInv ==
    ASSUME AdminTeamInit
    PROVE  TeamInv
<1>1. [role |-> "LEGACY", active |-> TRUE] \in Member
  BY DEF Member
<1> QED BY <1>1 DEF AdminTeamInit, TeamInv, AdminTeamTypeOK, ChecksHold, Editing, NobodyWaits

LEMMA TeamNextInv ==
    ASSUME TeamInv, [AdminTeamNext]_teamVars
    PROVE  TeamInv'
<1>1. CASE UNCHANGED teamVars
  BY <1>1 DEF teamVars, TeamInv, AdminTeamTypeOK, ChecksHold, Editing, LastIsKept,
     SuperAdmins, Admins
<1> QED BY <1>1, TeamHandlerStep DEF AdminTeamNext

\* What the action property says of one step.
LEMMA LastSuperAdminStep ==
    ASSUME TeamInv, [AdminTeamNext]_teamVars, SuperAdmins # {}
    PROVE  SuperAdmins' # {} \/ overlapped'
<1>1. ASSUME NEW c \in Callers, CreateAdmin(c)
      PROVE  SuperAdmins' # {}
  BY <1>1, CreateAdminEffect DEF SuperAdmins
<1>2. ASSUME NEW c \in Callers, UpdateTeamMember(c)
      PROVE  SuperAdmins' # {} \/ overlapped'
  <2> DEFINE target == teamCall[c].target
             next == Edited(team[target], teamCall[c])
  <2>1. /\ target \in Admins /\ Admins' = Admins /\ team'[target] = next
        /\ \A m \in Members \ {target} : team'[m] = team[m]
    BY <1>2, UpdateTeamMemberEffect
  <2>2. CASE teamCall[c].stale
    BY <1>2, <2>2 DEF UpdateTeamMember
  <2>3. CASE ~teamCall[c].stale
    <3>1. LastIsKept(target, next)
      BY <1>2, <2>3 DEF UpdateTeamMember, TeamInv, ChecksHold, Editing
    <3> HIDE DEF target, next
    <3>2. CASE IsSuper(next)
      BY <2>1, <3>2 DEF SuperAdmins
    <3>3. CASE ~IsSuper(next)
      <4>1. PICK m \in SuperAdmins : m # target
        BY <2>1, <3>1, <3>3 DEF LastIsKept, SuperAdmins
      <4>2. m \in SuperAdmins'
        BY <2>1, <4>1 DEF SuperAdmins, Admins
      <4> QED BY <4>2
    <3> QED BY <3>2, <3>3
  <2> QED BY <2>2, <2>3
<1>3. CASE UNCHANGED team
  BY <1>3 DEF SuperAdmins, Admins
<1> QED BY <1>1, <1>2, <1>3 DEF AdminTeamNext, ChooseCreate, Authorize, ChooseEdit,
       TeamHandlerFails, teamVars

\* The last active super admin is never lost, unless two changes overlap.
THEOREM SuperAdminKept == AdminTeamSpec => LastSuperAdminIsKept
<1>1. AdminTeamInit => TeamInv
  BY TeamInitInv
<1>2. TeamInv /\ [AdminTeamNext]_teamVars => TeamInv'
  BY TeamNextInv
<1>3. TeamInv /\ [AdminTeamNext]_teamVars =>
          [SuperAdmins # {} => SuperAdmins' # {} \/ overlapped']_teamVars
  BY LastSuperAdminStep
<1> QED BY <1>1, <1>2, <1>3, PTL DEF AdminTeamSpec, LastSuperAdminIsKept

----------------------------------------------------------------------------
(* E-mail codes.  A guess against the code on the row is counted, about to *)
(* be counted, or lost; one against an older code cannot be made any more. *)

Guessing(k) ==
    {c \in Callers : codeCall[c] # NULL /\ codeCall[c].op = "wrong" /\ codeCall[c].code = k}

OnTheRow(k) == signup # NULL /\ signup.code = k

GuessesAreCounted ==
    \A k \in Codes : OnTheRow(k) =>
        guesses[k] <= signup.attempts + Cardinality(Guessing(k)) + uncounted

UndrawnAreUnknown ==
    \A k \in Codes \ drawn : ~OnTheRow(k) /\ guesses[k] = 0

HandlersFoundTheUser ==
    \A c \in Callers :
        codeCall[c] # NULL /\ codeCall[c].op # "signup" => signup # NULL

CodesInv ==
    /\ EmailCodesTypeOK
    /\ GuessesAreCounted
    /\ UndrawnAreUnknown
    /\ HandlersFoundTheUser
    /\ GuessesAreBounded

LEMMA GuessingTyped ==
    ASSUME NEW k \in Codes
    PROVE  /\ Guessing(k) \subseteq Callers /\ IsFiniteSet(Guessing(k))
           /\ Cardinality(Guessing(k)) \in Nat
           /\ Cardinality(Callers) \in Nat
<1>1. Guessing(k) \subseteq Callers
  BY DEF Guessing
<1> QED BY <1>1, CallersAssumption, FS_Subset, FS_CardinalityType

LEMMA CodeCallsTyped ==
    /\ [op |-> "signup"] \in CodeCall /\ [op |-> "resend"] \in CodeCall
    /\ \A op \in {"wrong", "right"}, k \in Codes : [op |-> op, code |-> k] \in CodeCall
BY DEF CodeCall

LEMMA CodeCallParts ==
    ASSUME NEW step \in CodeCall
    PROVE  /\ step.op \in {"wrong", "right", "signup", "resend"}
           /\ step.op \in {"wrong", "right"} => step.code \in Codes
BY DEF CodeCall

LEMMA SignupParts ==
    ASSUME NEW row \in SignupRow
    PROVE  /\ row.attempts \in Nat /\ row.code \in Codes \cup {NULL}
           /\ row.verified \in BOOLEAN /\ row.fresh \in BOOLEAN /\ row.cooling \in BOOLEAN
BY DEF SignupRow

\* A call that ends takes at most one guess with it.
LEMMA EndedGuess ==
    ASSUME CodesInv, NEW c \in Callers, Ends(codeCall, c), NEW k \in Codes
    PROVE  /\ codeCall' \in [Callers -> CodeCall \cup {NULL}]
           /\ \A d \in Callers : codeCall'[d] # NULL => codeCall'[d] = codeCall[d]
           /\ Guessing(k)' = Guessing(k) \ {c}
           /\ Cardinality(Guessing(k)') \in Nat
           /\ Cardinality(Guessing(k)) <= Cardinality(Guessing(k)') + 1
           /\ codeCall[c].op # "wrong" => Guessing(k)' = Guessing(k)
<1>1. /\ codeCall' \in [Callers -> CodeCall \cup {NULL}]
      /\ \A d \in Callers : codeCall'[d] = IF d = c THEN NULL ELSE codeCall[d]
  BY DEF CodesInv, EmailCodesTypeOK, Ends
<1>2. Guessing(k)' = Guessing(k) \ {c}
  BY <1>1 DEF Guessing
<1>3. codeCall[c].op # "wrong" => c \notin Guessing(k)
  BY DEF Guessing
<1>4. CASE c \in Guessing(k)
  <2>1. Cardinality(Guessing(k)') = Cardinality(Guessing(k)) - 1
    BY <1>2, <1>4, GuessingTyped, FS_RemoveElement
  <2>2. IsFiniteSet(Guessing(k)')
    BY <1>2, GuessingTyped, FS_Subset
  <2> QED BY <1>1, <1>2, <1>3, <1>4, <2>1, <2>2, GuessingTyped, FS_CardinalityType
<1>5. CASE c \notin Guessing(k)
  <2>1. Guessing(k)' = Guessing(k)
    BY <1>2, <1>5
  <2> QED BY <1>1, <1>2, <2>1, GuessingTyped
<1> QED BY <1>4, <1>5

\* The arithmetic of a guess that is made.
LEMMA LastGuess ==
    ASSUME NEW g \in Nat, NEW a \in Nat, NEW w \in Nat, NEW u \in Nat,
           NEW n \in Nat, NEW m \in Nat,
           g <= a + w + u, a < m, w + 1 <= n
    PROVE  g + 1 <= a + (w + 1) + u /\ g + 1 < m + n + u
OBVIOUS

LEMMA WrongGuessStep ==
    ASSUME CodesInv, NEW c \in Callers, TryWrongCode(c)
    PROVE  CodesInv'
<1> USE DEF CodesInv
<1>0. PICK k \in Codes : k = signup.code
  BY SignupParts DEF TryWrongCode, CodeCanBeTried, EmailCodesTypeOK
<1> DEFINE step == [op |-> "wrong", code |-> k]
<1>1. /\ signup \in SignupRow /\ signup # NULL /\ signup.attempts \in Nat
      /\ signup.attempts < MaxAttempts /\ codeCall[c] = NULL
      /\ UNCHANGED <<signup, drawn, uncounted>>
  BY SignupParts DEF TryWrongCode, CodeCanBeTried, EmailCodesTypeOK, Waits
<1>2. step \in CodeCall /\ step.op = "wrong" /\ step.code = k /\ step # NULL
  BY <1>1, CodeCallsTyped, CodesAssumption
<1>3. codeCall' = [codeCall EXCEPT ![c] = step] /\ guesses' = [guesses EXCEPT ![k] = @ + 1]
  BY <1>0 DEF TryWrongCode, Waits
<1> HIDE DEF step
<1>4. /\ codeCall' \in [Callers -> CodeCall \cup {NULL}]
      /\ \A d \in Callers : codeCall'[d] = IF d = c THEN step ELSE codeCall[d]
      /\ guesses' \in [Codes -> Nat] /\ guesses'[k] = guesses[k] + 1
      /\ \A x \in Codes \ {k} : guesses'[x] = guesses[x]
  BY <1>1, <1>2, <1>3 DEF EmailCodesTypeOK
<1>5. /\ Guessing(k)' = Guessing(k) \cup {c} /\ c \notin Guessing(k)
  BY <1>1, <1>2, <1>4 DEF Guessing
<1>6. /\ Cardinality(Guessing(k)') = Cardinality(Guessing(k)) + 1
      /\ Cardinality(Guessing(k)) + 1 <= Cardinality(Callers)
  <2>1. Cardinality(Guessing(k)') = Cardinality(Guessing(k)) + 1
    BY <1>1, <1>5, GuessingTyped, FS_AddElement
  <2>2. Guessing(k)' \subseteq Callers
    BY <1>1, <1>5, GuessingTyped
  <2> QED BY <2>1, <2>2, CallersAssumption, FS_Subset
<1>7. guesses[k] <= signup.attempts + Cardinality(Guessing(k)) + uncounted
  BY <1>0, <1>1 DEF GuessesAreCounted, OnTheRow
<1>8. /\ guesses[k] \in Nat /\ uncounted \in Nat /\ MaxAttempts \in Nat
      /\ Cardinality(Guessing(k)) \in Nat /\ Cardinality(Callers) \in Nat
  BY <1>1, GuessingTyped, CodesAssumption DEF EmailCodesTypeOK
<1>9. /\ guesses'[k] <= signup.attempts + Cardinality(Guessing(k)') + uncounted
      /\ guesses'[k] < MaxAttempts + Cardinality(Callers) + uncounted
  BY <1>1, <1>4, <1>6, <1>7, <1>8, LastGuess
<1>10. EmailCodesTypeOK'
  BY <1>1, <1>4 DEF EmailCodesTypeOK
<1>11. GuessesAreCounted'
  BY <1>0, <1>1, <1>9 DEF GuessesAreCounted, OnTheRow
<1>12. UndrawnAreUnknown' /\ k \in drawn
  <2>1. k \in drawn
    BY <1>0, <1>1 DEF UndrawnAreUnknown, OnTheRow
  <2> QED BY <1>1, <1>4, <2>1 DEF UndrawnAreUnknown, OnTheRow
<1>13. HandlersFoundTheUser'
  BY <1>1 DEF HandlersFoundTheUser
<1>14. GuessesAreBounded'
  BY <1>1, <1>4, <1>9 DEF GuessesAreBounded
<1> QED BY <1>10, <1>11, <1>12, <1>13, <1>14

\* A handler begins without a guess.
LEMMA OtherCodeCallStep ==
    ASSUME CodesInv, NEW c \in Callers, NEW step \in CodeCall,
           step.op # "wrong", step.op # "signup" => signup # NULL,
           Waits(codeCall, c, step), UNCHANGED <<signup, drawn, guesses, uncounted>>
    PROVE  CodesInv'
<1> USE DEF CodesInv
<1>1. /\ codeCall' \in [Callers -> CodeCall \cup {NULL}] /\ codeCall[c] = NULL
      /\ \A d \in Callers : codeCall'[d] = IF d = c THEN step ELSE codeCall[d]
  BY DEF Waits, EmailCodesTypeOK
<1>2. \A k \in Codes : Guessing(k)' = Guessing(k)
  BY <1>1 DEF Guessing
<1>3. EmailCodesTypeOK'
  BY <1>1 DEF EmailCodesTypeOK
<1>4. GuessesAreCounted' /\ UndrawnAreUnknown' /\ GuessesAreBounded'
  BY <1>2 DEF GuessesAreCounted, UndrawnAreUnknown, GuessesAreBounded, OnTheRow
<1>5. HandlersFoundTheUser'
  BY <1>1 DEF HandlersFoundTheUser
<1> QED BY <1>3, <1>4, <1>5

\* The row keeps its code, or loses it; the counter may only have grown.
LEMMA SameCodeStep ==
    ASSUME CodesInv, NEW row \in SignupRow, signup # NULL, signup' = row,
           row.code \in {signup.code, NULL},
           row.code # NULL => \A k \in Codes : k = row.code =>
               /\ Cardinality(Guessing(k)') \in Nat
               /\ signup.attempts + Cardinality(Guessing(k))
                      <= row.attempts + Cardinality(Guessing(k)'),
           codeCall' \in [Callers -> CodeCall \cup {NULL}],
           \A d \in Callers : codeCall'[d] # NULL => codeCall'[d] = codeCall[d],
           UNCHANGED <<drawn, guesses, uncounted>>
    PROVE  CodesInv'
<1> USE DEF CodesInv
<1>1. row # NULL /\ signup \in SignupRow
  BY CodesAssumption DEF EmailCodesTypeOK
<1>2. EmailCodesTypeOK'
  BY DEF EmailCodesTypeOK
<1>3. \A k \in Codes : OnTheRow(k)' => OnTheRow(k) /\ k = row.code /\ row.code # NULL
  BY <1>1, CodesAssumption DEF OnTheRow
<1>4. GuessesAreCounted'
  <2> SUFFICES ASSUME NEW k \in Codes, OnTheRow(k)'
               PROVE  guesses[k] <= row.attempts + Cardinality(Guessing(k)') + uncounted
    BY DEF GuessesAreCounted
  <2>1. guesses[k] <= signup.attempts + Cardinality(Guessing(k)) + uncounted
    BY <1>3 DEF GuessesAreCounted
  <2>2. /\ Cardinality(Guessing(k)') \in Nat
        /\ signup.attempts + Cardinality(Guessing(k))
               <= row.attempts + Cardinality(Guessing(k)')
    BY <1>3
  <2>3. /\ guesses[k] \in Nat /\ signup.attempts \in Nat /\ row.attempts \in Nat
        /\ uncounted \in Nat /\ Cardinality(Guessing(k)) \in Nat
    BY <1>1, SignupParts, GuessingTyped DEF EmailCodesTypeOK
  <2> QED BY <2>1, <2>2, <2>3
<1>5. UndrawnAreUnknown'
  BY <1>3 DEF UndrawnAreUnknown
<1>6. HandlersFoundTheUser'
  BY <1>1 DEF HandlersFoundTheUser
<1>7. GuessesAreBounded'
  BY DEF GuessesAreBounded
<1> QED BY <1>2, <1>4, <1>5, <1>6, <1>7

\* A new code, with a counter of its own.
LEMMA NewCodeStep ==
    ASSUME CodesInv, NEW c \in Callers, Ends(codeCall, c),
           NEW k \in Codes \ drawn, NEW row \in SignupRow, signup' = row,
           row.code = k, row.attempts = 0, drawn' = drawn \cup {k},
           UNCHANGED <<guesses, uncounted>>
    PROVE  CodesInv'
<1> USE DEF CodesInv
<1>1. row # NULL
  BY CodesAssumption
<1>2. /\ codeCall' \in [Callers -> CodeCall \cup {NULL}]
      /\ \A d \in Callers : codeCall'[d] # NULL => codeCall'[d] = codeCall[d]
      /\ Cardinality(Guessing(k)') \in Nat /\ uncounted \in Nat
  BY EndedGuess DEF EmailCodesTypeOK
<1>3. EmailCodesTypeOK'
  BY <1>2 DEF EmailCodesTypeOK
<1>4. guesses[k] = 0
  BY DEF UndrawnAreUnknown
<1>5. GuessesAreCounted'
  BY <1>1, <1>2, <1>4 DEF GuessesAreCounted, OnTheRow
<1>6. UndrawnAreUnknown'
  BY DEF UndrawnAreUnknown, OnTheRow
<1>7. HandlersFoundTheUser'
  BY <1>1 DEF HandlersFoundTheUser
<1>8. GuessesAreBounded'
  BY DEF GuessesAreBounded
<1> QED BY <1>3, <1>5, <1>6, <1>7, <1>8

LEMMA CodeHandlerStep ==
    ASSUME CodesInv, NEW c \in Callers,
           \/ AskSignup(c) \/ Signup(c) \/ TryRightCode(c)
           \/ AskResend(c) \/ ResendEmailVerification(c)
    PROVE  CodesInv'
<1>1. CASE AskSignup(c)
  <2> DEFINE step == [op |-> "signup"]
  <2>1. step \in CodeCall /\ step.op = "signup"
    BY CodeCallsTyped
  <2>2. Waits(codeCall, c, step)
    BY <1>1 DEF AskSignup
  <2> HIDE DEF step
  <2> QED BY <1>1, <2>1, <2>2, OtherCodeCallStep DEF AskSignup
<1>2. CASE AskResend(c)
  <2> DEFINE step == [op |-> "resend"]
  <2>1. step \in CodeCall /\ step.op = "resend"
    BY CodeCallsTyped
  <2>2. Waits(codeCall, c, step)
    BY <1>2 DEF AskResend
  <2> HIDE DEF step
  <2> QED BY <1>2, <2>1, <2>2, OtherCodeCallStep DEF AskResend
<1>3. CASE TryRightCode(c)
  <2> DEFINE step == [op |-> "right", code |-> signup.code]
  <2>1. signup # NULL /\ signup.code \in Codes
    BY <1>3, SignupParts DEF TryRightCode, CodeCanBeTried, CodesInv, EmailCodesTypeOK
  <2>2. step \in CodeCall /\ step.op = "right"
    BY <2>1, CodeCallsTyped
  <2>3. Waits(codeCall, c, step)
    BY <1>3 DEF TryRightCode
  <2> HIDE DEF step
  <2> QED BY <1>3, <2>1, <2>2, <2>3, OtherCodeCallStep DEF TryRightCode
<1>4. CASE Signup(c)
  <2>1. PICK k \in Codes \ drawn :
            /\ signup' = [verified |-> FALSE, code |-> k, fresh |-> TRUE,
                          cooling |-> TRUE, attempts |-> 0]
            /\ drawn' = drawn \cup {k}
    BY <1>4 DEF Signup
  <2> DEFINE row == [verified |-> FALSE, code |-> k, fresh |-> TRUE,
                     cooling |-> TRUE, attempts |-> 0]
  <2>2. row \in SignupRow /\ row.code = k /\ row.attempts = 0
    BY DEF SignupRow
  <2>3. signup' = row
    BY <2>1
  <2> HIDE DEF row
  <2> QED BY <1>4, <2>1, <2>2, <2>3, NewCodeStep DEF Signup
<1>5. CASE ResendEmailVerification(c)
  <2>1. PICK k \in Codes \ drawn :
            /\ signup' = [signup EXCEPT !.code = k, !.fresh = TRUE,
                                        !.cooling = TRUE, !.attempts = 0]
            /\ drawn' = drawn \cup {k}
    BY <1>5 DEF ResendEmailVerification
  <2>2. signup \in SignupRow
    BY <1>5 DEF ResendEmailVerification, Ends, CodesInv, EmailCodesTypeOK,
       HandlersFoundTheUser
  <2> DEFINE row == [signup EXCEPT !.code = k, !.fresh = TRUE,
                                   !.cooling = TRUE, !.attempts = 0]
  <2>3. row \in SignupRow /\ row.code = k /\ row.attempts = 0
    BY <2>2 DEF SignupRow
  <2>4. signup' = row
    BY <2>1
  <2> HIDE DEF row
  <2> QED BY <1>5, <2>1, <2>3, <2>4, NewCodeStep DEF ResendEmailVerification
<1> QED BY <1>1, <1>2, <1>3, <1>4, <1>5

LEMMA CountedGuessStep ==
    ASSUME CodesInv, NEW c \in Callers, CountWrongCode(c) \/ VerifyEmail(c)
    PROVE  CodesInv'
<1>1. Ends(codeCall, c) /\ UNCHANGED <<drawn, guesses, uncounted>>
  BY DEF CountWrongCode, VerifyEmail
<1>2. signup \in SignupRow /\ signup # NULL
  BY CodesAssumption
  DEF CountWrongCode, VerifyEmail, Ends, CodesInv, EmailCodesTypeOK, HandlersFoundTheUser
<1>3. CASE CountWrongCode(c)
  <2> DEFINE row == [signup EXCEPT !.attempts = @ + 1]
  <2>1. row \in SignupRow /\ row.code = signup.code /\ row.attempts = signup.attempts + 1
    BY <1>2 DEF SignupRow
  <2>2. signup' = row
    BY <1>3 DEF CountWrongCode
  <2> HIDE DEF row
  <2>3. ASSUME NEW k \in Codes
        PROVE  /\ Cardinality(Guessing(k)') \in Nat
               /\ signup.attempts + Cardinality(Guessing(k))
                      <= row.attempts + Cardinality(Guessing(k)')
    <3>1. /\ signup.attempts \in Nat /\ Cardinality(Guessing(k)) \in Nat
          /\ Cardinality(Guessing(k)') \in Nat
          /\ Cardinality(Guessing(k)) <= Cardinality(Guessing(k)') + 1
      BY <1>1, <1>2, SignupParts, GuessingTyped, EndedGuess
    <3> QED BY <2>1, <3>1
  <2>4. /\ codeCall' \in [Callers -> CodeCall \cup {NULL}]
        /\ \A d \in Callers : codeCall'[d] # NULL => codeCall'[d] = codeCall[d]
    BY <1>1 DEF CodesInv, EmailCodesTypeOK, Ends
  <2> QED BY <1>1, <1>2, <2>1, <2>2, <2>3, <2>4, SameCodeStep
<1>4. CASE VerifyEmail(c)
  <2> DEFINE row == [signup EXCEPT !.verified = TRUE, !.code = NULL,
                                   !.fresh = FALSE, !.attempts = 0]
  <2>1. row \in SignupRow /\ row.code = NULL
    BY <1>2 DEF SignupRow
  <2>2. signup' = row
    BY <1>4 DEF VerifyEmail
  <2> HIDE DEF row
  <2>3. /\ codeCall' \in [Callers -> CodeCall \cup {NULL}]
        /\ \A d \in Callers : codeCall'[d] # NULL => codeCall'[d] = codeCall[d]
    BY <1>1 DEF CodesInv, EmailCodesTypeOK, Ends
  <2> QED BY <1>1, <1>2, <2>1, <2>2, <2>3, SameCodeStep
<1> QED BY <1>3, <1>4

LEMMA CodeTimeStep ==
    ASSUME CodesInv, CodeExpires \/ CooldownEnds
    PROVE  CodesInv'
<1>1. signup \in SignupRow /\ signup # NULL /\ UNCHANGED <<codeCall, drawn, guesses, uncounted>>
  BY DEF CodeExpires, CooldownEnds, CodesInv, EmailCodesTypeOK
<1>2. PICK row \in SignupRow :
          signup' = row /\ row.code = signup.code /\ row.attempts = signup.attempts
  <2> DEFINE expired == [signup EXCEPT !.fresh = FALSE]
             cooled == [signup EXCEPT !.cooling = FALSE]
  <2>1. \A row \in {expired, cooled} :
            /\ row \in SignupRow /\ row.code = signup.code
            /\ row.attempts = signup.attempts
    BY <1>1 DEF SignupRow
  <2>2. signup' \in {expired, cooled}
    BY DEF CodeExpires, CooldownEnds
  <2> HIDE DEF expired, cooled
  <2> QED BY <2>1, <2>2
<1>3. ASSUME NEW k \in Codes
      PROVE  /\ Cardinality(Guessing(k)') \in Nat
             /\ signup.attempts + Cardinality(Guessing(k))
                    <= row.attempts + Cardinality(Guessing(k)')
  <2>1. Guessing(k)' = Guessing(k)
    BY <1>1 DEF Guessing
  <2>2. signup.attempts \in Nat /\ Cardinality(Guessing(k)) \in Nat
    BY <1>1, SignupParts, GuessingTyped
  <2> QED BY <1>2, <2>1, <2>2
<1>4. /\ codeCall' \in [Callers -> CodeCall \cup {NULL}]
      /\ \A d \in Callers : codeCall'[d] # NULL => codeCall'[d] = codeCall[d]
  BY <1>1 DEF CodesInv, EmailCodesTypeOK
<1> QED BY <1>1, <1>2, <1>3, <1>4, SameCodeStep

\* A guess whose increment fails is lost.
LEMMA LostGuessStep ==
    ASSUME CodesInv, NEW c \in Callers, CodeHandlerFails(c)
    PROVE  CodesInv'
<1> USE DEF CodesInv
<1>1. /\ Ends(codeCall, c) /\ UNCHANGED <<signup, drawn, guesses>>
      /\ codeCall' \in [Callers -> CodeCall \cup {NULL}]
      /\ \A d \in Callers : codeCall'[d] # NULL => codeCall'[d] = codeCall[d]
  BY DEF CodeHandlerFails, EmailCodesTypeOK, Ends
<1>2. /\ uncounted \in Nat /\ uncounted' \in Nat /\ uncounted <= uncounted'
      /\ codeCall[c].op = "wrong" => uncounted' = uncounted + 1
  BY DEF CodeHandlerFails, EmailCodesTypeOK
<1>3. EmailCodesTypeOK'
  BY <1>1, <1>2 DEF EmailCodesTypeOK
<1>4. GuessesAreCounted'
  <2> SUFFICES ASSUME NEW k \in Codes, OnTheRow(k)
               PROVE  guesses[k] <= signup.attempts + Cardinality(Guessing(k)') + uncounted'
    BY <1>1 DEF GuessesAreCounted, OnTheRow
  <2>1. guesses[k] <= signup.attempts + Cardinality(Guessing(k)) + uncounted
    BY DEF GuessesAreCounted
  <2>2. /\ Cardinality(Guessing(k)') \in Nat
        /\ Cardinality(Guessing(k)) <= Cardinality(Guessing(k)') + 1
        /\ codeCall[c].op # "wrong" => Guessing(k)' = Guessing(k)
    BY <1>1, EndedGuess
  <2>3. /\ guesses[k] \in Nat /\ signup.attempts \in Nat
        /\ Cardinality(Guessing(k)) \in Nat
    BY SignupParts, GuessingTyped DEF EmailCodesTypeOK, OnTheRow
  <2>4. CASE codeCall[c].op = "wrong"
    BY <1>2, <2>1, <2>2, <2>3, <2>4
  <2>5. CASE codeCall[c].op # "wrong"
    BY <1>2, <2>1, <2>2, <2>3, <2>5
  <2> QED BY <2>4, <2>5
<1>5. UndrawnAreUnknown' /\ HandlersFoundTheUser'
  BY <1>1 DEF UndrawnAreUnknown, HandlersFoundTheUser, OnTheRow
<1>6. GuessesAreBounded'
  <2> SUFFICES ASSUME NEW k \in Codes
               PROVE  guesses[k] < MaxAttempts + Cardinality(Callers) + uncounted'
    BY <1>1 DEF GuessesAreBounded
  <2>1. guesses[k] < MaxAttempts + Cardinality(Callers) + uncounted
    BY DEF GuessesAreBounded
  <2>2. guesses[k] \in Nat /\ MaxAttempts \in Nat /\ Cardinality(Callers) \in Nat
    BY CodesAssumption, GuessingTyped DEF EmailCodesTypeOK
  <2> QED BY <1>2, <2>1, <2>2
<1> QED BY <1>3, <1>4, <1>5, <1>6

LEMMA CodesInitInv ==
    ASSUME EmailCodesInit
    PROVE  CodesInv
<1>1. MaxAttempts \in Nat \ {0} /\ Cardinality(Callers) \in Nat
  BY CodesAssumption, CallersAssumption, FS_CardinalityType
<1>2. GuessesAreBounded
  BY <1>1 DEF EmailCodesInit, GuessesAreBounded
<1>3. EmailCodesTypeOK
  BY DEF EmailCodesInit, EmailCodesTypeOK, NobodyWaits
<1>4. GuessesAreCounted /\ UndrawnAreUnknown /\ HandlersFoundTheUser
  BY DEF EmailCodesInit, GuessesAreCounted, UndrawnAreUnknown, HandlersFoundTheUser,
     OnTheRow, NobodyWaits
<1> QED BY <1>2, <1>3, <1>4 DEF CodesInv

LEMMA CodesNextInv ==
    ASSUME CodesInv, [EmailCodesNext]_codeVars
    PROVE  CodesInv'
<1>1. CASE UNCHANGED codeVars
  <2>1. \A k \in Codes : Guessing(k)' = Guessing(k)
    BY <1>1 DEF codeVars, Guessing
  <2> QED BY <1>1, <2>1 DEF codeVars, CodesInv, EmailCodesTypeOK, GuessesAreCounted,
       UndrawnAreUnknown, HandlersFoundTheUser, GuessesAreBounded, OnTheRow
<1>2. CASE EmailCodesNext
  BY <1>2, CodeHandlerStep, WrongGuessStep, CountedGuessStep, CodeTimeStep, LostGuessStep
  DEF EmailCodesNext
<1> QED BY <1>1, <1>2

\* Against one code nobody has more wrong guesses than allowed and one for each
\* other caller at that time, but for increments that failed: for any number of
\* callers, codes and attempts.
THEOREM GuessesBounded == EmailCodesSpec => []GuessesAreBounded
<1>1. EmailCodesInit => CodesInv
  BY CodesInitInv
<1>2. CodesInv /\ [EmailCodesNext]_codeVars => CodesInv'
  BY CodesNextInv
<1>3. CodesInv => GuessesAreBounded
  BY DEF CodesInv
<1> QED BY <1>1, <1>2, <1>3, PTL DEF EmailCodesSpec

----------------------------------------------------------------------------
(* Search.  What is owed is approved and fits; once it is there when the   *)
(* place is looked for, a place that was named is found, and once it is    *)
(* there when the conditions are asked of the database, it is among the    *)
(* exact rows, unless the query names no more than a type.                 *)

Owes(s) ==
    /\ \A l \in s.owed : offers[l].approved /\ s.query \subseteq offers[l].facts
    /\ s.step # "catalogue" =>
           /\ s.located => "place" \in s.query
           /\ "place" \in s.query /\ s.owed # {} => s.located
    /\ s.step = "phrase" =>
           \/ s.query \subseteq {"type"}
           \/ \A l \in s.owed : [id |-> l, facts |-> offers[l].facts] \in s.exact

OwedFits == search # NULL => Owes(search)

SearchInv == SearchTypeOK /\ OwedFits /\ ExplicitMatchesAreFound

LEMMA SearchParts ==
    ASSUME NEW s \in Search
    PROVE  /\ s.step \in {"catalogue", "rows", "exact", "phrase"}
           /\ s.query \in SearchQueries /\ s.owed \subseteq SearchListings
           /\ s.step \in {"catalogue", "rows"} => s.matches \subseteq SearchListings
           /\ s.step # "catalogue" => s.located \in BOOLEAN
           /\ s.step \in {"exact", "phrase"} => s.rows \subseteq Found
           /\ s.step = "phrase" => s.exact \subseteq Found
BY DEF Search

LEMMA QueriesAreCriteria ==
    ASSUME NEW query \in SearchQueries
    PROVE  /\ ~Definite(query) => query \subseteq {"place"}
           /\ query \subseteq {"type"} \/ "place" \in query
                  \/ query \cap {"furnishing", "numbers"} # {}
BY SearchAssumption DEF Criteria, Definite

LEMMA OwedShrinks ==
    ASSUME NEW s \in Search, NEW l
    PROVE  LET t == [s EXCEPT !.owed = @ \ {l}]
           IN  /\ t \in Search /\ t.owed = s.owed \ {l}
               /\ t.step = s.step /\ t.query = s.query
               /\ s.step # "catalogue" => t.located = s.located
               /\ s.step = "phrase" => t.exact = s.exact
<1> DEFINE t == [s EXCEPT !.owed = @ \ {l}]
<1>1. CASE s.step = "catalogue"
  BY <1>1 DEF Search
<1>2. CASE s.step = "rows"
  BY <1>2 DEF Search
<1>3. CASE s.step = "exact"
  BY <1>3 DEF Search
<1>4. CASE s.step = "phrase"
  BY <1>4 DEF Search
<1> QED BY <1>1, <1>2, <1>3, <1>4, SearchParts

LEMMA OffersTyped ==
    ASSUME SearchTypeOK, NEW l \in SearchListings
    PROVE  /\ offers[l] \in Offer
           /\ \A a \in BOOLEAN : [offers[l] EXCEPT !.approved = a] \in Offer
           /\ \A a \in BOOLEAN, facts \in SearchFacts :
                  [approved |-> a, facts |-> facts] \in Offer
BY DEF SearchTypeOK, Offer

LEMMA WriteOfferStep ==
    ASSUME SearchInv, NEW l \in SearchListings, NEW offer \in Offer, Write(l, offer),
           vectors' = vectors, indexing' \subseteq SearchListings,
           removing' \subseteq SearchListings
    PROVE  SearchInv'
<1> USE DEF SearchInv
<1>1. /\ offers' \in [SearchListings -> Offer]
      /\ \A m \in SearchListings \ {l} : offers'[m] = offers[m]
      /\ found' = NULL
  BY DEF Write, SearchTypeOK
<1>2. CASE search = NULL
  <2>1. search' = NULL
    BY <1>2 DEF Write
  <2> QED BY <1>1, <2>1 DEF SearchTypeOK, OwedFits, ExplicitMatchesAreFound
<1>3. CASE search # NULL
  <2> DEFINE t == [search EXCEPT !.owed = @ \ {l}]
  <2>1. search \in Search /\ search' = t /\ search.owed \subseteq SearchListings
    BY <1>3, SearchParts DEF Write, SearchTypeOK
  <2>2. /\ t \in Search /\ t.owed = search.owed \ {l}
        /\ t.step = search.step /\ t.query = search.query
        /\ search.step # "catalogue" => t.located = search.located
        /\ search.step = "phrase" => t.exact = search.exact
    BY <2>1, OwedShrinks
  <2> HIDE DEF t
  <2>3. \A m \in t.owed : m \in search.owed /\ offers'[m] = offers[m]
    BY <1>1, <2>1, <2>2
  <2>4. SearchTypeOK'
    BY <1>1, <2>1, <2>2 DEF SearchTypeOK
  <2>5. OwedFits'
    <3>1. \A m \in t.owed : offers'[m].approved /\ t.query \subseteq offers'[m].facts
      BY <1>3, <2>2, <2>3 DEF OwedFits, Owes
    <3>2. t.step # "catalogue" =>
              /\ t.located => "place" \in t.query
              /\ "place" \in t.query /\ t.owed # {} => t.located
      BY <1>3, <2>2 DEF OwedFits, Owes
    <3>3. t.step = "phrase" =>
              \/ t.query \subseteq {"type"}
              \/ \A m \in t.owed : [id |-> m, facts |-> offers'[m].facts] \in t.exact
      BY <1>3, <2>2, <2>3 DEF OwedFits, Owes
    <3> QED BY <2>1, <3>1, <3>2, <3>3 DEF OwedFits, Owes
  <2> QED BY <1>1, <2>4, <2>5 DEF ExplicitMatchesAreFound
<1> QED BY <1>2, <1>3

LEMMA OfferStep ==
    ASSUME SearchInv, NEW l \in SearchListings,
           EditOffer(l) \/ ArchiveOffer(l) \/ AgreeOn(l) \/ ApproveOffer(l)
    PROVE  SearchInv'
<1>1. SearchTypeOK /\ indexing \subseteq SearchListings /\ removing \subseteq SearchListings
  BY DEF SearchInv, SearchTypeOK
<1>2. CASE EditOffer(l)
  BY <1>1, <1>2, OffersTyped, WriteOfferStep DEF EditOffer, IndexIdle
<1>3. CASE ArchiveOffer(l)
  BY <1>1, <1>3, OffersTyped, WriteOfferStep DEF ArchiveOffer, IndexIdle
<1>4. CASE AgreeOn(l)
  BY <1>1, <1>4, OffersTyped, WriteOfferStep DEF AgreeOn
<1>5. CASE ApproveOffer(l)
  BY <1>1, <1>5, OffersTyped, WriteOfferStep DEF ApproveOffer
<1> QED BY <1>2, <1>3, <1>4, <1>5

LEMMA IndexStep ==
    ASSUME SearchInv, NEW l \in SearchListings,
           RemoveVectors(l) \/ Reindex(l) \/ UpsertVectors(l)
    PROVE  SearchInv'
<1>1. /\ UNCHANGED <<offers, search>> /\ found' = NULL
      /\ indexing' \subseteq SearchListings /\ removing' \subseteq SearchListings
  BY DEF RemoveVectors, Reindex, UpsertVectors, SearchInv, SearchTypeOK
<1>2. vectors' \in [Providers -> SUBSET SearchListings]
  BY DEF RemoveVectors, Reindex, UpsertVectors, InSome, SearchInv, SearchTypeOK
<1> QED BY <1>1, <1>2
    DEF SearchInv, SearchTypeOK, OwedFits, Owes, ExplicitMatchesAreFound

LEMMA SearchGoesOn ==
    ASSUME SearchInv, NEW s \in Search, search' = s, found' = NULL, ListingsIdle, Owes(s)
    PROVE  SearchInv'
BY DEF SearchInv, SearchTypeOK, ListingsIdle, OwedFits, Owes, ExplicitMatchesAreFound

LEMMA RowsTyped ==
    ASSUME SearchTypeOK, NEW ids
    PROVE  /\ ReadRows(ids) \subseteq Found
           /\ \A l \in ids \cap SearchListings :
                  offers[l].approved => [id |-> l, facts |-> offers[l].facts] \in ReadRows(ids)
<1>1. \A l \in SearchListings : offers[l].facts \in SearchFacts
  BY DEF SearchTypeOK, Offer
<1>2. \A l \in SearchListings : [id |-> l, facts |-> offers[l].facts] \in Found
  BY <1>1 DEF Found
<1> QED BY <1>2 DEF ReadRows, Approved

LEMMA QueryIndexStep ==
    ASSUME SearchInv, QueryIndex
    PROVE  SearchInv'
<1>1. PICK p \in Providers, query \in SearchQueries :
          search' = [step |-> "catalogue", query |-> query, matches |-> vectors[p],
                     owed |-> {l \in Approved : query \subseteq offers[l].facts}]
  BY DEF QueryIndex
<1> DEFINE owed == {l \in Approved : query \subseteq offers[l].facts}
           matches == vectors[p]
           s == [step |-> "catalogue", query |-> query, matches |-> matches, owed |-> owed]
<1>2. /\ owed \subseteq SearchListings /\ matches \subseteq SearchListings
      /\ \A l \in owed : offers[l].approved /\ query \subseteq offers[l].facts
  BY DEF Approved, SearchInv, SearchTypeOK
<1>3. search' = s
  BY <1>1
<1> HIDE DEF owed, matches
<1>4. s \in Search /\ s.step = "catalogue" /\ s.owed = owed /\ s.query = query
  BY <1>2 DEF Search
<1> HIDE DEF s
<1>5. Owes(s)
  BY <1>2, <1>4 DEF Owes
<1> QED BY <1>3, <1>4, <1>5, SearchGoesOn DEF QueryIndex

LEMMA LocateStep ==
    ASSUME SearchInv, Locate
    PROVE  SearchInv'
<1> DEFINE located == /\ "place" \in search.query
                      /\ \E l \in Catalogue : "place" \in offers[l].facts
           s == [step |-> "rows", query |-> search.query,
                 matches |-> search.matches, owed |-> search.owed,
                 located |-> located]
<1>1. /\ search \in Search /\ search # NULL /\ search.step = "catalogue"
      /\ search.query \in SearchQueries
      /\ search.matches \subseteq SearchListings /\ search.owed \subseteq SearchListings
  BY SearchParts DEF Locate, SearchAt, SearchInv, SearchTypeOK
<1>2. \A l \in search.owed : offers[l].approved /\ search.query \subseteq offers[l].facts
  BY <1>1 DEF SearchInv, OwedFits, Owes
<1>3. /\ located \in BOOLEAN /\ (located => "place" \in search.query)
      /\ "place" \in search.query /\ search.owed # {} => located
  BY <1>1, <1>2 DEF Catalogue, Approved
<1>4. search' = s /\ found' = NULL /\ ListingsIdle
  BY DEF Locate
<1> HIDE DEF located
<1>5. /\ s \in Search /\ s.step = "rows" /\ s.owed = search.owed
      /\ s.query = search.query /\ s.located = located
  BY <1>1, <1>3 DEF Search
<1> HIDE DEF s
<1>6. Owes(s)
  BY <1>2, <1>3, <1>5 DEF Owes
<1> QED BY <1>4, <1>5, <1>6, SearchGoesOn

LEMMA ReadMatchesStep ==
    ASSUME SearchInv, ReadMatches
    PROVE  SearchInv'
<1> DEFINE matched == ReadRows(search.matches)
           s == [step |-> "exact", query |-> search.query,
                 located |-> search.located, owed |-> search.owed,
                 rows |-> matched]
<1>1. /\ search \in Search /\ search # NULL /\ search.step = "rows"
      /\ search.query \in SearchQueries /\ search.located \in BOOLEAN
      /\ search.owed \subseteq SearchListings
  BY SearchParts DEF ReadMatches, SearchAt, SearchInv, SearchTypeOK
<1>2. Owes(search)
  BY <1>1 DEF SearchInv, OwedFits
<1>3. matched \subseteq Found
  BY RowsTyped DEF SearchInv
<1>4. search' = s /\ found' = NULL /\ ListingsIdle
  BY DEF ReadMatches
<1> HIDE DEF matched
<1>5. /\ s \in Search /\ s.step = "exact" /\ s.owed = search.owed
      /\ s.query = search.query /\ s.located = search.located
  BY <1>1, <1>3 DEF Search
<1> HIDE DEF s
<1>6. Owes(s)
  BY <1>1, <1>2, <1>5 DEF Owes
<1> QED BY <1>4, <1>5, <1>6, SearchGoesOn

LEMMA ReadExactStep ==
    ASSUME SearchInv, ReadExact
    PROVE  SearchInv'
<1> DEFINE chosen == {row \in ReadRows(SearchListings) : Exact(row)}
           s == [step |-> "phrase", query |-> search.query,
                 located |-> search.located, owed |-> search.owed,
                 rows |-> search.rows, exact |-> chosen]
<1>1. /\ search \in Search /\ search # NULL /\ search.step = "exact"
      /\ search.query \in SearchQueries /\ search.located \in BOOLEAN
      /\ search.owed \subseteq SearchListings /\ search.rows \subseteq Found
  BY SearchParts DEF ReadExact, SearchAt, SearchInv, SearchTypeOK
<1>2. Owes(search)
  BY <1>1 DEF SearchInv, OwedFits
<1>3. chosen \subseteq Found
  BY RowsTyped DEF SearchInv
<1>4. ASSUME ~(search.query \subseteq {"type"}), NEW l \in search.owed
      PROVE  [id |-> l, facts |-> offers[l].facts] \in chosen
  <2>1. [id |-> l, facts |-> offers[l].facts] \in ReadRows(SearchListings)
    BY <1>1, <1>2, RowsTyped DEF SearchInv, Owes
  <2>2. search.query \subseteq offers[l].facts
    BY <1>2 DEF Owes
  <2>3. /\ search.located => "place" \in search.query
        /\ "place" \in search.query => search.located
    BY <1>1, <1>2, <1>4 DEF Owes
  <2>4. Restrictive
    BY <1>1, <1>4, <2>3, QueriesAreCriteria DEF Restrictive
  <2>5. Exact([id |-> l, facts |-> offers[l].facts])
    BY <2>2, <2>3, <2>4 DEF Exact, AtPlace
  <2> QED BY <2>1, <2>5
<1>5. search' = s /\ found' = NULL /\ ListingsIdle
  BY DEF ReadExact
<1> HIDE DEF chosen
<1>6. /\ s \in Search /\ s.step = "phrase" /\ s.owed = search.owed
      /\ s.query = search.query /\ s.located = search.located /\ s.exact = chosen
  BY <1>1, <1>3 DEF Search
<1> HIDE DEF s
<1>7. Owes(s)
  BY <1>1, <1>2, <1>4, <1>6 DEF Owes
<1> QED BY <1>5, <1>6, <1>7, SearchGoesOn

\* What is owed is shown once it is read, and if the query names more than a
\* type, it was read as exact.
LEMMA OwedAreShown ==
    ASSUME SearchInv, SearchAt("phrase"), NEW l \in search.owed
    PROVE  /\ Shown([id |-> l, facts |-> offers[l].facts])
           /\ search.query \subseteq {"type"}
                  \/ /\ l \in Ids({row \in Merged : Shown(row)})
                     /\ l \in Ids(search.exact)
<1> DEFINE row == [id |-> l, facts |-> offers[l].facts]
<1>1. Owes(search) /\ search.step = "phrase"
  BY DEF SearchInv, OwedFits, SearchAt
<1>2. Shown(row)
  BY <1>1 DEF Owes, Shown, AtPlace
<1>3. CASE row \in search.exact
  <2> row.id = l
    OBVIOUS
  <2> HIDE DEF row
  <2>1. row \in {r \in Merged : Shown(r)}
    BY <1>2, <1>3 DEF Merged
  <2>2. l \in Ids({r \in Merged : Shown(r)}) /\ l \in Ids(search.exact)
    BY <1>3, <2>1 DEF Ids
  <2> QED BY <1>2, <2>2 DEF row
<1> QED BY <1>1, <1>2, <1>3 DEF Owes

LEMMA AnsweredStep ==
    ASSUME SearchInv, ListingsIdle, NEW how \in {"nothing", "phrase", "match"},
           NEW query \in SearchQueries, NEW missed \in SUBSET SearchListings,
           \A l \in missed :
               \/ how = "phrase" /\ "phrase" \notin offers[l].facts
               \/ how = "nothing" /\ query \subseteq {"place"}
               \/ how = "match" /\ query \subseteq {"type"},
           found' = [how |-> how, query |-> query, missed |-> missed], search' = NULL
    PROVE  SearchInv'
<1> DEFINE answer == [how |-> how, query |-> query, missed |-> missed]
<1>1. /\ answer \in SearchAnswer /\ answer.how = how
      /\ answer.query = query /\ answer.missed = missed
  BY DEF SearchAnswer
<1>2. found' = answer
  OBVIOUS
<1> HIDE DEF answer
<1> QED BY <1>1, <1>2
    DEF SearchInv, SearchTypeOK, ListingsIdle, OwedFits, ExplicitMatchesAreFound

LEMMA SearchEndStep ==
    ASSUME SearchInv,
           NoRelevantSemanticMatch \/ AnswerSearch \/ SearchUnavailable
    PROVE  SearchInv'
<1>1. search # NULL => search.owed \subseteq SearchListings /\ search.query \in SearchQueries
  BY SearchParts DEF SearchInv, SearchTypeOK
<1>2. CASE NoRelevantSemanticMatch
  <2>1. /\ search # NULL /\ ListingsIdle /\ search' = NULL /\ ~Definite(search.query)
        /\ found' = [how |-> "nothing", query |-> search.query,
                     missed |-> search.owed \ {}]
    BY <1>2 DEF NoRelevantSemanticMatch, SearchAt, Answered
  <2>2. /\ search.owed \ {} \in SUBSET SearchListings
        /\ search.query \in SearchQueries /\ search.query \subseteq {"place"}
    BY <1>1, <2>1, QueriesAreCriteria
  <2> QED BY <2>1, <2>2, AnsweredStep
<1>3. CASE AnswerSearch
  <2> DEFINE phrased == {row \in ReadRows(SearchListings) : "phrase" \in row.facts}
             near(n) == Ids({row \in Merged : Shown(row)}) \cap (n \cup Ids(search.exact))
  <2>1. /\ SearchAt("phrase") /\ search # NULL /\ ListingsIdle
        /\ search.query \in SearchQueries
    BY <1>1, <1>3 DEF AnswerSearch, SearchAt
  <2>2. CASE phrased # {}
    <3> DEFINE missed == search.owed \ Ids({row \in phrased : Shown(row)})
    <3>1. /\ found' = [how |-> "phrase", query |-> search.query, missed |-> missed]
          /\ search' = NULL
      BY <1>3, <2>2 DEF AnswerSearch, Answered
    <3>2. missed \in SUBSET SearchListings
      BY <1>1, <2>1
    <3>3. ASSUME NEW l \in search.owed, "phrase" \in offers[l].facts
          PROVE  l \in Ids({row \in phrased : Shown(row)})
      <4> DEFINE row == [id |-> l, facts |-> offers[l].facts]
      <4>1. offers[l].approved /\ l \in SearchListings
        BY <1>1, <2>1 DEF SearchInv, OwedFits, Owes
      <4>2. row \in phrased
        BY <3>3, <4>1, RowsTyped DEF SearchInv
      <4>3. Shown(row)
        BY <2>1, OwedAreShown
      <4>4. row.id = l
        OBVIOUS
      <4> HIDE DEF row, phrased
      <4> QED BY <4>2, <4>3, <4>4 DEF Ids
    <3>4. \A l \in missed : "phrase" \notin offers[l].facts
      BY <3>3
    <3> HIDE DEF missed
    <3> QED BY <2>1, <3>1, <3>2, <3>4, AnsweredStep
  <2>3. CASE phrased = {}
    <3>1. PICK n \in SUBSET Ids(search.rows) :
              /\ found' = [how |-> "match", query |-> search.query,
                           missed |-> search.owed \ near(n)]
              /\ search' = NULL
      BY <1>3, <2>3 DEF AnswerSearch, Answered
    <3>2. \A l \in search.owed \ near(n) : search.query \subseteq {"type"}
      BY <2>1, OwedAreShown
    <3>3. search.owed \ near(n) \in SUBSET SearchListings
      BY <1>1, <2>1
    <3> HIDE DEF near
    <3> QED BY <2>1, <3>1, <3>2, <3>3, AnsweredStep
  <2> QED BY <2>2, <2>3
<1>4. CASE SearchUnavailable
  BY <1>4 DEF SearchUnavailable, SearchInv, SearchTypeOK, ListingsIdle, OwedFits,
     ExplicitMatchesAreFound
<1> QED BY <1>2, <1>3, <1>4

LEMMA SearchInitInv ==
    ASSUME SearchInit
    PROVE  SearchInv
<1>1. \A facts \in SearchFacts : [approved |-> FALSE, facts |-> facts] \in Offer
  BY DEF Offer
<1> QED BY <1>1 DEF SearchInit, SearchInv, SearchTypeOK, OwedFits, ExplicitMatchesAreFound

LEMMA SearchNextInv ==
    ASSUME SearchInv, [SearchNext]_searchVars
    PROVE  SearchInv'
<1>1. CASE UNCHANGED searchVars
  BY <1>1 DEF searchVars, SearchInv, SearchTypeOK, OwedFits, Owes, ExplicitMatchesAreFound
<1>2. ASSUME NEW l \in SearchListings,
             \/ EditOffer(l) \/ ArchiveOffer(l) \/ AgreeOn(l) \/ RemoveVectors(l)
             \/ ApproveOffer(l) \/ Reindex(l) \/ UpsertVectors(l)
      PROVE  SearchInv'
  BY <1>2, OfferStep, IndexStep
<1>3. CASE QueryIndex \/ Locate \/ ReadMatches \/ ReadExact
  BY <1>3, QueryIndexStep, LocateStep, ReadMatchesStep, ReadExactStep
<1>4. CASE NoRelevantSemanticMatch \/ AnswerSearch \/ SearchUnavailable
  BY <1>4, SearchEndStep
<1> QED BY <1>1, <1>2, <1>3, <1>4 DEF SearchNext

\* A listing that is approved and meets every criterion of the query while a
\* search lasts is answered, whatever the index of vectors holds, for any
\* listings, queries and providers; except, as the property says, beside listings
\* that say the query word for word, by a query of no more than a place when the
\* index has nothing, and by a query of no more than a type.
THEOREM ExplicitMatchesFound == SearchSpec => []ExplicitMatchesAreFound
<1>1. SearchInit => SearchInv
  BY SearchInitInv
<1>2. SearchInv /\ [SearchNext]_searchVars => SearchInv'
  BY SearchNextInv
<1>3. SearchInv => ExplicitMatchesAreFound
  BY DEF SearchInv
<1> QED BY <1>1, <1>2, <1>3, PTL DEF SearchSpec

----------------------------------------------------------------------------
(* Together.  Whichever service takes a step, the others rest: a step of   *)
(* all services is one of each or leaves it alone.                         *)

LEMMA OneServiceSteps ==
    ASSUME [WorkNext]_workVars
    PROVE  /\ [LeaseNext]_leaseVars /\ [AccountsNext]_accountVars
           /\ [EmailCodesNext]_codeVars /\ [PasswordResetNext]_resetVars
           /\ [AdminTeamNext]_teamVars /\ [VerificationNext]_kycVars
           /\ [ListingImagesNext]_imageVars /\ [CapacityNext]_capacityVars
           /\ [BoostsNext]_boostVars /\ [JobsNext]_jobVars
           /\ [SupportNext]_supportVars /\ [QueueNext]_queueVars
           /\ [NotificationsNext]_noteVars /\ [SocketsNext]_socketVars
           /\ [SearchNext]_searchVars /\ [AllowancesNext]_allowanceVars
<1>1. CASE UNCHANGED workVars
  BY <1>1 DEF workVars
<1>2. CASE WorkNext
  BY <1>2 DEF WorkNext, OthersRest
<1> QED BY <1>1, <1>2

\* What TLC explores, one service at work and the others in the state they
\* began in, is among the behaviours of all services.
THEOREM OneAtATimeIsAllowed == Spec => WorkSpec
<1>1. Init => WorkInit
  BY DEF Init
<1>2. [Next]_vars => [WorkNext]_workVars
  BY DEF Next, Alone, WorkNext, vars
<1> QED BY <1>1, <1>2, PTL DEF Spec, WorkSpec

\* Together, their steps in any order, the services implement the specification
\* of each, so what is proved of one holds beside the others.
THEOREM ServicesImplementEach ==
    WorkSpec => /\ LeaseSpec /\ AccountsSpec /\ EmailCodesSpec
                /\ PasswordResetSpec /\ AdminTeamSpec /\ VerificationSpec
                /\ ListingImagesSpec /\ CapacitySpec /\ BoostsSpec
                /\ JobsSpec /\ SupportSpec /\ QueueSpec
                /\ NotificationsSpec /\ SocketsSpec /\ SearchSpec
                /\ AllowancesSpec
<1>1. WorkInit => /\ LeaseInit /\ AccountsInit /\ EmailCodesInit
                  /\ PasswordResetInit /\ AdminTeamInit /\ VerificationInit
                  /\ ListingImagesInit /\ CapacityInit /\ BoostsInit
                  /\ JobsInit /\ SupportInit /\ QueueInit
                  /\ NotificationsInit /\ SocketsInit /\ SearchInit
                  /\ AllowancesInit
  BY DEF WorkInit
<1>2. [WorkNext]_workVars
          => /\ [LeaseNext]_leaseVars /\ [AccountsNext]_accountVars
             /\ [EmailCodesNext]_codeVars /\ [PasswordResetNext]_resetVars
             /\ [AdminTeamNext]_teamVars /\ [VerificationNext]_kycVars
             /\ [ListingImagesNext]_imageVars /\ [CapacityNext]_capacityVars
             /\ [BoostsNext]_boostVars /\ [JobsNext]_jobVars
             /\ [SupportNext]_supportVars /\ [QueueNext]_queueVars
             /\ [NotificationsNext]_noteVars /\ [SocketsNext]_socketVars
             /\ [SearchNext]_searchVars /\ [AllowancesNext]_allowanceVars
  BY OneServiceSteps
<1> QED
  BY <1>1, <1>2, PTL
  DEF WorkSpec, LeaseSpec, AccountsSpec, EmailCodesSpec, PasswordResetSpec,
      AdminTeamSpec, VerificationSpec, ListingImagesSpec, CapacitySpec,
      BoostsSpec, JobsSpec, SupportSpec, QueueSpec, NotificationsSpec,
      SocketsSpec, SearchSpec, AllowancesSpec

ServicesInv ==
    /\ LeaseInv /\ AccountsInv /\ CodesInv /\ ResetInv /\ TeamInv
    /\ KycInv /\ ImagesInv /\ CapacityInv /\ BoostsInv /\ JobsInv
    /\ SupportInv /\ QueueInv /\ NotesInv /\ SocketsInv /\ SearchInv
    /\ AllowancesInv

LEMMA ServicesInitInv ==
    ASSUME WorkInit
    PROVE  ServicesInv
BY LeaseInvInit, AccountsInitInv, CodesInitInv, ResetInitInv,
   TeamInitInv, KycInitInv, ImagesInitInv, CapacityInitInv, BoostsInitInv,
   JobsInitInv, SupportInitInv, QueueInitInv, NotesInitInv, SocketsInitInv,
   SearchInitInv, AllowancesInitInv
DEF WorkInit, ServicesInv

LEMMA ServicesNextInv ==
    ASSUME ServicesInv, [WorkNext]_workVars
    PROVE  ServicesInv'
BY OneServiceSteps, LeaseInvStep, AccountsNextInv, CodesNextInv, ResetNextInv,
   TeamNextInv, KycNextInv, ImagesNextInv, CapacityNextInv, BoostsNextInv,
   JobsNextInv, SupportNextInv, QueueNextInv, NotesNextInv, SocketsNextInv,
   SearchNextInv, AllowancesNextInv
DEF ServicesInv

\* Every service keeps to its types, whatever its handlers and jobs and those
\* of the other services do at once.
THEOREM ServicesTypes == WorkSpec => []ServicesTypeOK
<1>1. WorkInit => ServicesInv
  BY ServicesInitInv
<1>2. ServicesInv /\ [WorkNext]_workVars => ServicesInv'
  BY ServicesNextInv
<1>3. ServicesInv => ServicesTypeOK
  BY DEF ServicesInv, ServicesTypeOK, LeaseInv, AccountsInv, CodesInv, ResetInv,
     TeamInv, KycInv, ImagesInv, CapacityInv, BoostsInv, JobsInv, SupportInv,
     QueueInv, NotesInv, SocketsInv, SearchInv, AllowancesInv
<1> QED BY <1>1, <1>2, <1>3, PTL DEF WorkSpec

\* What the services promise, they promise together: every safety property
\* that the handlers of one of them must keep, for every value of the
\* constants.
THEOREM ServicesKeepTheirPromises ==
    WorkSpec => /\ []DeletionEndsSessions /\ []SocketsOpenInTheirOwnLife
                /\ []SpentTokensStayDead /\ []GuessesAreBounded
                /\ []SubmittedDocumentsExist /\ []ConfirmedImagesHaveFiles
                /\ []OnlyRevivalsExceed /\ []PlanBoostsFollow
                /\ []DeliveriesAreBounded /\ []HandoversAreKept
                /\ []PatienceIsRewarded /\ []LiveDevicesStay
                /\ []ExplicitMatchesAreFound /\ []NobodyHasMoreThanAllowed
                /\ []ReviewsFollowTheDeal /\ ConfirmationIsKept
                /\ LastSuperAdminIsKept
                /\ ListingsKeepAnImage /\ JobsWearOut
BY ServicesImplementEach, SessionsEnd, SocketsOpen, SpentTokens, GuessesBounded,
   Submitted, ConfirmedImages, OnlyRevivals, PlanBoostsInTurn, DeliveriesBounded,
   HandoversKept, PatienceRewarded, DevicesStay, ExplicitMatchesFound,
   AllowancesHold, ReviewsFollow, ConfirmationsKept, SuperAdminKept,
   ImageKept, JobsDoWearOut

\* With one tab of the tenant, contracts are signed as promised beside all the
\* other services, and what is printed was shown.
THEOREM ServicesSignContracts ==
    ASSUME OneTenantTab
    PROVE  WorkSpec => ContractsAreSigned /\ []PdfWasReleased
BY ServicesImplementEach, LeaseIsSigned, PdfsWereReleased

=============================================================================
