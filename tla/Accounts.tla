------------------------------- MODULE Accounts -------------------------------
(***************************************************************************)
(* The life of one account (AuthService, UsersService, JwtStrategy and the *)
(* account handlers of AdminService): sessions, suspension, deletion,      *)
(* reactivation and anonymization.                                         *)
(*                                                                         *)
(* Accounts share no rows, so one is modelled, from the moment its address *)
(* is verified (EmailCodes).  A token carries the tokenVersion of the row  *)
(* it was signed from and stays with the client; lives are counted to say  *)
(* to which stay between two deletions it belongs.  Only callers with the  *)
(* right password matter: the others are refused before anything is        *)
(* written.                                                                *)
(***************************************************************************)
EXTENDS Handlers

CONSTANTS
    Asks,         \* rows of activation_request
    MaxLife       \* bound on deletions

VARIABLES
    account,      \* the user row
    asks,         \* status of each activation_request, or NULL
    tokens,       \* signed access, refresh and socket tokens
    anonymizing,  \* the nightly job has the account among its candidates
    accountCall,  \* handlers that have read and not yet written
    life          \* history: the number of deletions

accountVars == <<account, asks, tokens, anonymizing, accountCall, life>>

\* deleted: deletedAt, and whether the grace period is over.
\* ghost: the row is anonymized, so its address finds it no longer.
AccountRow == [version: Nat, deleted: {"no", "recent", "expired"},
               suspended: BOOLEAN, ghost: BOOLEAN]
Token == [version: Nat, life: Nat]
AskStatus == {"PENDING", "APPROVED", "REJECTED"}
AccountCall == [op: {"sign"}, token: Token]
                   \cup [op: {"socketTicket", "deleteAccount", "softDelete", "ask"}]
                   \cup [op: {"approve", "reject"}, ask: Asks]

ASSUME AccountsAssumption ==
    /\ NULL \notin AccountCall \cup AskStatus
    /\ MaxLife \in Nat

AccountsTypeOK ==
    /\ account \in AccountRow
    /\ asks \in [Asks -> AskStatus \cup {NULL}]
    /\ tokens \subseteq Token
    /\ anonymizing \in BOOLEAN
    /\ accountCall \in [Callers -> AccountCall \cup {NULL}]
    /\ life \in Nat

AccountsInit ==
    /\ account = [version |-> 0, deleted |-> "no", suspended |-> FALSE,
                  ghost |-> FALSE]
    /\ asks = [a \in Asks |-> NULL]
    /\ tokens = {}
    /\ anonymizing = FALSE
    /\ accountCall = NobodyWaits
    /\ life = 0

----------------------------------------------------------------------------
(* Sessions.                                                               *)

Unchecked == UNCHANGED <<account, asks, tokens, anonymizing, life>>

InGoodStanding == account.deleted = "no" /\ ~account.suspended

\* JwtStrategy.validate, in front of every protected handler.
Accepts(token) == token.version = account.version /\ InGoodStanding

CurrentToken == [version |-> account.version, life |-> life]

\* The row is read by its address; hashing and signing take time.
SignIn(c) ==
    /\ ~account.ghost
    /\ InGoodStanding
    /\ Waits(accountCall, c, [op |-> "sign", token |-> CurrentToken])
    /\ Unchecked

Refresh(c) ==
    /\ InGoodStanding
    /\ \E token \in tokens : token.version = account.version
    /\ Waits(accountCall, c, [op |-> "sign", token |-> CurrentToken])
    /\ Unchecked

Sign(c) ==
    /\ Ends(accountCall, c)
    /\ accountCall[c].op = "sign"
    /\ tokens' = tokens \cup {accountCall[c].token}
    /\ UNCHANGED <<account, asks, anonymizing, life>>

\* The handler behind the guard reads the row again, and checks nothing.
AskSocketTicket(c) ==
    /\ \E token \in tokens : Accepts(token)
    /\ Waits(accountCall, c, [op |-> "socketTicket"])
    /\ Unchecked

CreateSocketTicket(c) ==
    /\ Ends(accountCall, c)
    /\ accountCall[c].op = "socketTicket"
    /\ tokens' = tokens \cup {CurrentToken}
    /\ UNCHANGED <<account, asks, anonymizing, life>>

SuspendUser ==
    /\ account' = [account EXCEPT !.suspended = TRUE]
    /\ UNCHANGED <<asks, tokens, anonymizing, accountCall, life>>

\* By an administrator, or because the time is up.
UnsuspendUser ==
    /\ account' = [account EXCEPT !.suspended = FALSE]
    /\ UNCHANGED <<asks, tokens, anonymizing, accountCall, life>>

----------------------------------------------------------------------------
(* Deletion, by the user himself or by an administrator.                   *)

AskDeleteAccount(c) ==
    /\ life < MaxLife
    /\ \E token \in tokens : Accepts(token)
    /\ Waits(accountCall, c, [op |-> "deleteAccount"])
    /\ Unchecked

DeleteAccount(c) ==
    /\ Ends(accountCall, c)
    /\ accountCall[c].op = "deleteAccount"
    /\ account' = [account EXCEPT !.deleted = "recent", !.version = @ + 1]
    /\ life' = life + 1
    /\ UNCHANGED <<asks, tokens, anonymizing>>

ChooseSoftDelete(c) ==
    /\ life < MaxLife
    /\ account.deleted = "no"
    /\ Waits(accountCall, c, [op |-> "softDelete"])
    /\ Unchecked

\* The tokenVersion stays: deletedAt alone stops the tokens for now.
SoftDeleteUser(c) ==
    /\ Ends(accountCall, c)
    /\ accountCall[c].op = "softDelete"
    /\ account' = [account EXCEPT !.deleted = "recent"]
    /\ life' = life + 1
    /\ UNCHANGED <<asks, tokens, anonymizing>>

GraceEnds ==
    /\ account.deleted = "recent"
    /\ account' = [account EXCEPT !.deleted = "expired"]
    /\ UNCHANGED <<asks, tokens, anonymizing, accountCall, life>>

----------------------------------------------------------------------------
(* Reactivation.  A suspended user writes an appeal instead (SupportTickets). *)

RequestReactivation(c) ==
    /\ account.deleted # "no"
    /\ ~account.ghost
    /\ \A a \in Asks : asks[a] # "PENDING"
    /\ Waits(accountCall, c, [op |-> "ask"])
    /\ Unchecked

CreateActivationRequest(c) ==
    /\ Ends(accountCall, c)
    /\ accountCall[c].op = "ask"
    /\ \E a \in Asks :
           /\ asks[a] = NULL
           /\ asks' = [asks EXCEPT ![a] = "PENDING"]
    /\ UNCHANGED <<account, tokens, anonymizing, life>>

ReadAsk(c) ==
    /\ \E a \in Asks, op \in {"approve", "reject"} :
           /\ asks[a] = "PENDING"
           /\ Waits(accountCall, c, [op |-> op, ask |-> a])
    /\ Unchecked

\* Mutant: the account comes back with the sessions it had.
RestoreWithSessions(c) ==
    /\ Ends(accountCall, c)
    /\ accountCall[c].op = "approve"
    /\ account' = [account EXCEPT !.deleted = "no"]
    /\ asks' = [asks EXCEPT ![accountCall[c].ask] = "APPROVED"]
    /\ UNCHANGED <<tokens, anonymizing, life>>

ApproveReactivation(c) ==
    /\ Ends(accountCall, c)
    /\ accountCall[c].op = "approve"
    /\ account' = [account EXCEPT !.deleted = "no", !.version = @ + 1]
    /\ asks' = [asks EXCEPT ![accountCall[c].ask] = "APPROVED"]
    /\ UNCHANGED <<tokens, anonymizing, life>>

RejectReactivation(c) ==
    /\ Ends(accountCall, c)
    /\ accountCall[c].op = "reject"
    /\ asks' = [asks EXCEPT ![accountCall[c].ask] = "REJECTED"]
    /\ UNCHANGED <<account, tokens, anonymizing, life>>

----------------------------------------------------------------------------
(* The nightly anonymization reads its candidates once and works through   *)
(* them in batches, whatever happens to them meanwhile.                    *)

\* Mutant: only fresh deletions are looked for.
ReadFreshDeletions ==
    /\ account.deleted = "recent"
    /\ ~anonymizing
    /\ anonymizing' = TRUE
    /\ UNCHANGED <<account, asks, tokens, accountCall, life>>

ReadCandidates ==
    /\ account.deleted = "expired"
    /\ ~anonymizing
    /\ anonymizing' = TRUE
    /\ UNCHANGED <<account, asks, tokens, accountCall, life>>

Anonymize ==
    /\ anonymizing
    /\ anonymizing' = FALSE
    /\ account' = [account EXCEPT !.ghost = TRUE]
    /\ UNCHANGED <<asks, tokens, accountCall, life>>

AnonymizationFails ==
    /\ anonymizing
    /\ anonymizing' = FALSE
    /\ UNCHANGED <<account, asks, tokens, accountCall, life>>

----------------------------------------------------------------------------

AccountHandlerFails(c) == Ends(accountCall, c) /\ Unchecked

AccountsNext ==
    \/ \E c \in Callers :
           \/ SignIn(c) \/ Refresh(c) \/ Sign(c)
           \/ AskSocketTicket(c) \/ CreateSocketTicket(c)
           \/ AskDeleteAccount(c) \/ DeleteAccount(c)
           \/ ChooseSoftDelete(c) \/ SoftDeleteUser(c)
           \/ RequestReactivation(c) \/ CreateActivationRequest(c)
           \/ ReadAsk(c) \/ ApproveReactivation(c) \/ RejectReactivation(c)
           \/ AccountHandlerFails(c)
    \/ SuspendUser \/ UnsuspendUser
    \/ GraceEnds \/ ReadCandidates \/ Anonymize \/ AnonymizationFails

AccountsSpec == AccountsInit /\ [][AccountsNext]_accountVars

----------------------------------------------------------------------------
(* Properties.                                                             *)

\* A token signed from what was read before a deletion is never accepted
\* after the account was restored: "revokes any lingering pre-deletion token".
DeletionEndsSessions ==
    \A token \in tokens : Accepts(token) => token.life = life

\* An account that stays deleted is anonymized in the end, although single
\* updates of the job may fail.
DeletedIsForgotten == (<>[](account.deleted # "no")) => <>(account.ghost)
=============================================================================
