---------------------------- MODULE SupportTickets ----------------------------
(***************************************************************************)
(* The support tickets of one user (CustomerSupportService).               *)
(*                                                                         *)
(* The assistant hands a conversation over under the id of its run, which  *)
(* the browser repeats when it tries again.  Every handler awaits each     *)
(* read and each write of its own; nothing here is a transaction.  The     *)
(* tries of a run are numbered to tell their messages apart, which the     *)
(* code does not.                                                          *)
(***************************************************************************)
EXTENDS Handlers

CONSTANTS
    Tickets,   \* rows of support_ticket
    Runs,      \* runs of the assistant
    MaxTries   \* bound on the handovers of one run

VARIABLES
    tickets,      \* the rows, or NULL
    said,         \* ticket -> the tries <<run, number>> whose message it has
    supportCall,  \* handlers under way
    tries,        \* history: how many handovers of a run have begun
    keyed,        \* history: as many as had begun when the run's ticket was filed
    answered      \* history: <<try, ticket>> if a handover was just answered, or NULL

supportVars == <<tickets, said, supportCall, tries, keyed, answered>>

\* OPEN stands for NEW, ASSIGNED, IN_PROGRESS and WAITING: the code tells
\* tickets apart by CLOSED only.
TicketStatus == {"OPEN", "CLOSED"}
TicketRow == [status: TicketStatus, key: Runs \cup {NULL}, appeal: BOOLEAN]
Tries == Runs \X (1 .. MaxTries)
SupportCall ==
    [op: {"escalate", "create"}, try: Tries]
        \cup [op: {"append", "touch"}, try: Tries, ticket: Tickets]
        \cup [op: {"appeal"}]
        \cup [op: {"reply"}, ticket: Tickets, status: TicketStatus]

ASSUME SupportAssumption ==
    /\ MaxTries \in Nat
    /\ NULL \notin Tickets \cup Runs \cup TicketRow \cup SupportCall
                     \cup Nat \cup (Tries \X Tickets)

SupportTypeOK ==
    /\ tickets \in [Tickets -> TicketRow \cup {NULL}]
    /\ said \in [Tickets -> SUBSET Tries]
    /\ supportCall \in [Callers -> SupportCall \cup {NULL}]
    /\ tries \in [Runs -> 0 .. MaxTries]
    /\ keyed \in [Runs -> (0 .. MaxTries) \cup {NULL}]
    /\ answered # NULL => answered \in Tries \X Tickets

SupportInit ==
    /\ tickets = [t \in Tickets |-> NULL]
    /\ said = [t \in Tickets |-> {}]
    /\ supportCall = NobodyWaits
    /\ tries = [run \in Runs |-> 0]
    /\ keyed = [run \in Runs |-> NULL]
    /\ answered = NULL

----------------------------------------------------------------------------

Filed == {t \in Tickets : tickets[t] # NULL}
Open == {t \in Filed : tickets[t].status # "CLOSED"}
OfRun(run) == {t \in Filed : tickets[t].key = run}

NewTicket(t, row, spoken) ==
    /\ t \notin Filed
    /\ tickets' = [tickets EXCEPT ![t] = row]
    /\ said' = [said EXCEPT ![t] = spoken]

NoAnswer == answered' = NULL

PlainTicket == [status |-> "OPEN", key |-> NULL, appeal |-> FALSE]

SetStatus(t, status) == tickets' = [tickets EXCEPT ![t].status = status]

CreateTicket ==
    /\ \E t \in Tickets : NewTicket(t, PlainTicket, {})
    /\ UNCHANGED <<supportCall, tries, keyed>>
    /\ NoAnswer

----------------------------------------------------------------------------
(* The assistant's handover: createAgentEscalation.                        *)

NextTry(run) == <<run, tries[run] + 1>>
BeginTry(run) ==
    /\ tries[run] < MaxTries
    /\ tries' = [tries EXCEPT ![run] = @ + 1]

\* The run's ticket is the answer.
EscalateAgain(c) ==
    /\ supportCall[c] = NULL
    /\ \E run \in Runs :
           /\ BeginTry(run)
           /\ \E t \in OfRun(run) : answered' = <<NextTry(run), t>>
    /\ UNCHANGED <<tickets, said, supportCall, keyed>>

\* Mutant: the run's ticket is not looked for.
EscalateAnew(c) ==
    /\ \E run \in Runs :
           /\ BeginTry(run)
           /\ Waits(supportCall, c, [op |-> "escalate", try |-> NextTry(run)])
    /\ UNCHANGED <<tickets, said, keyed>>
    /\ NoAnswer

Escalate(c) ==
    /\ \E run \in Runs :
           /\ OfRun(run) = {}
           /\ BeginTry(run)
           /\ Waits(supportCall, c, [op |-> "escalate", try |-> NextTry(run)])
    /\ UNCHANGED <<tickets, said, keyed>>
    /\ NoAnswer

Doing(c, op) == supportCall[c] # NULL /\ supportCall[c].op = op

FindOpenTicket(c) ==
    /\ Doing(c, "escalate")
    /\ \E t \in Open :
           supportCall' = [supportCall EXCEPT
               ![c] = [op |-> "append", try |-> @.try, ticket |-> t]]
    /\ UNCHANGED <<tickets, said, tries, keyed>>
    /\ NoAnswer

FindNoOpenTicket(c) ==
    /\ Doing(c, "escalate")
    /\ Open = {}
    /\ supportCall' = [supportCall EXCEPT ![c].op = "create"]
    /\ UNCHANGED <<tickets, said, tries, keyed>>
    /\ NoAnswer

\* Mutant: the open ticket is touched, but the message is not appended.
OnlyFindTicket(c) ==
    /\ Doing(c, "append")
    /\ supportCall' = [supportCall EXCEPT ![c].op = "touch"]
    /\ UNCHANGED <<tickets, said, tries, keyed>>
    /\ NoAnswer

\* Whether the run has said it before is not asked.
AppendMessage(c) ==
    /\ Doing(c, "append")
    /\ said' = [said EXCEPT ![supportCall[c].ticket] = @ \cup {supportCall[c].try}]
    /\ supportCall' = [supportCall EXCEPT ![c].op = "touch"]
    /\ UNCHANGED <<tickets, tries, keyed>>
    /\ NoAnswer

TouchTicket(c) ==
    /\ Doing(c, "touch")
    /\ SetStatus(supportCall[c].ticket, "OPEN")
    /\ answered' = <<supportCall[c].try, supportCall[c].ticket>>
    /\ Ends(supportCall, c)
    /\ UNCHANGED <<said, tries, keyed>>

CreateEscalation(c) ==
    /\ Doing(c, "create")
    /\ LET try == supportCall[c].try
           run == try[1]
       IN  /\ OfRun(run) = {}
           /\ \E t \in Tickets :
                  /\ NewTicket(t, [PlainTicket EXCEPT !.key = run], {try})
                  /\ answered' = <<try, t>>
           /\ keyed' = [keyed EXCEPT ![run] = tries[run]]
    /\ Ends(supportCall, c)
    /\ UNCHANGED tries

\* The key is unique: the other handler's ticket is the answer.
EscalationExists(c) ==
    /\ Doing(c, "create")
    /\ \E t \in OfRun(supportCall[c].try[1]) :
           answered' = <<supportCall[c].try, t>>
    /\ Ends(supportCall, c)
    /\ UNCHANGED <<tickets, said, tries, keyed>>

----------------------------------------------------------------------------
(* Appeals of a suspended user, replies and the administrators' handling.  *)

OpenAppeals == {t \in Open : tickets[t].appeal}

AskAppeal(c) ==
    /\ OpenAppeals = {}
    /\ Waits(supportCall, c, [op |-> "appeal"])
    /\ UNCHANGED <<tickets, said, tries, keyed>>
    /\ NoAnswer

CreateAppeal(c) ==
    /\ Doing(c, "appeal")
    /\ \E t \in Tickets : NewTicket(t, [PlainTicket EXCEPT !.appeal = TRUE], {})
    /\ Ends(supportCall, c)
    /\ UNCHANGED <<tries, keyed>>
    /\ NoAnswer

\* Between its message and the status: an answer and the user's own reply open
\* the ticket again, an internal note writes back the status it read at first.
Reply(c) ==
    /\ \E t \in Filed : \E status \in {"OPEN", tickets[t].status} :
           Waits(supportCall, c, [op |-> "reply", ticket |-> t, status |-> status])
    /\ UNCHANGED <<tickets, said, tries, keyed>>
    /\ NoAnswer

UpdateAfterReply(c) ==
    /\ Doing(c, "reply")
    /\ SetStatus(supportCall[c].ticket, supportCall[c].status)
    /\ Ends(supportCall, c)
    /\ UNCHANGED <<said, tries, keyed>>
    /\ NoAnswer

AssignToAdmin(t) ==
    /\ t \in Filed
    /\ SetStatus(t, "OPEN")
    /\ UNCHANGED <<said, supportCall, tries, keyed>>
    /\ NoAnswer

UpdateStatus(t) ==
    /\ t \in Filed
    /\ \E status \in TicketStatus : SetStatus(t, status)
    /\ UNCHANGED <<said, supportCall, tries, keyed>>
    /\ NoAnswer

SupportHandlerFails(c) ==
    /\ Ends(supportCall, c)
    /\ UNCHANGED <<tickets, said, tries, keyed>>
    /\ NoAnswer

SupportNext ==
    \/ CreateTicket
    \/ \E c \in Callers :
           \/ EscalateAgain(c) \/ Escalate(c)
           \/ FindOpenTicket(c) \/ FindNoOpenTicket(c)
           \/ AppendMessage(c) \/ TouchTicket(c)
           \/ CreateEscalation(c) \/ EscalationExists(c)
           \/ AskAppeal(c) \/ CreateAppeal(c)
           \/ Reply(c) \/ UpdateAfterReply(c)
           \/ SupportHandlerFails(c)
    \/ \E t \in Tickets : AssignToAdmin(t) \/ UpdateStatus(t)

SupportSpec == SupportInit /\ [][SupportNext]_supportVars

----------------------------------------------------------------------------

\* A handover that was answered has its own message on the ticket of the answer,
\* or that ticket is the one of its run, with the message of the try that filed
\* it; a try speaks on one ticket only; and once the run's ticket is filed, the
\* tries that begin add nothing.  (That is as far as "makes retries idempotent"
\* goes: a run whose message was appended to another ticket appends it again at
\* every try, and so does a try that looked for the run's ticket just before it
\* was filed.  Two runs at once may also file two tickets.)
HandoversAreKept ==
    /\ \A try \in Tries, t \in Tickets :
           answered = <<try, t>> =>
               \/ try \in said[t]
               \/ t \in OfRun(try[1]) /\ \E n \in 1 .. MaxTries : <<try[1], n>> \in said[t]
    /\ \A try \in Tries, t, u \in Tickets : try \in said[t] /\ try \in said[u] => t = u
    /\ \A try \in Tries, t \in Tickets :
           try \in said[t] /\ keyed[try[1]] # NULL => try[2] <= keyed[try[1]]
=============================================================================
