---------------------------- MODULE MarketTables ----------------------------
(***************************************************************************)
(* The tables the two marketplaces of PropMatch share, and the HTTP calls  *)
(* in flight on them.                                                      *)
(*                                                                         *)
(* A handler of the services reads rows, checks them, and writes later, in *)
(* another round trip to PostgreSQL.  A session that has read and not yet  *)
(* written holds a record in `call` with what it read; the write is a      *)
(* separate action that finds the tables as other sessions left them.  A   *)
(* handler whose write repeats its checks in the WHERE clause of an        *)
(* updateMany is one action: its earlier read changes no outcome.          *)
(*                                                                         *)
(* So are the statements of a transaction at READ COMMITTED: each finds    *)
(* what was committed before it.  What a transaction has written and not   *)
(* yet committed is in its session's call; the rows keep their old values  *)
(* for the others, whose updates of those rows wait.  Two statements share *)
(* an action where a row lock keeps what the first one found.              *)
(*                                                                         *)
(* A function from identifiers to rows is a table; NULL is an absent row.  *)
(***************************************************************************)
EXTENDS Naturals, FiniteSets

CONSTANTS
    NULL,          \* no row, no price, no call
    Users,         \* accounts
    Admins,        \* the accounts with role ADMIN
    Sessions,      \* client sessions; each has at most one call in flight
    UserOf,        \* the account a session is signed in to
    Requests,      \* tenant_request ids
    TenantOf,      \* the tenant of a request
    Properties,    \* property ids
    OwnerOf,       \* the landlord of a property
    OwnerOffers,   \* owner_offer ids
    TenantOffers,  \* tenant_offer ids
    Connections,   \* match_connection ids
    Prices         \* proposed and counter prices

ASSUME AccountsAssumption ==
    /\ Admins \subseteq Users
    /\ UserOf \in [Sessions -> Users]
    /\ TenantOf \in [Requests -> Users]
    /\ OwnerOf \in [Properties -> Users]

VARIABLES
    request,       \* status of each tenant request
    property,      \* status of each property
    ownerOffer,    \* landlords' offers on tenant requests
    tenantOffer,   \* tenants' offers on listings
    connection,    \* match connections, each of them CONNECTED
    told,          \* history: the agreedPrice answered when an offer settled
    call           \* what each session has read and not yet written

marketVars ==
    <<request, property, ownerOffer, tenantOffer, connection, told, call>>

----------------------------------------------------------------------------
(* Row types.  "NONE" is a request or a property that is not created yet.  *)

RequestStatus == {"NONE", "PENDING", "APPROVED", "REJECTED", "FULFILLED",
                  "CLOSED", "ARCHIVED"}
PropertyStatus == {"NONE", "PENDING", "APPROVED", "REJECTED", "ARCHIVED"}

OpenOwnerOffer == {"SENT", "VIEWED"}
OpenTenantOffer == {"PENDING", "COUNTERED"}

OwnerOffer == [request: Requests, property: Properties,
               status: OpenOwnerOffer \cup {"ACCEPTED", "REJECTED"}]

TenantOffer == [tenant: Users, property: Properties,
                status: OpenTenantOffer \cup
                            {"ACCEPTED", "DECLINED", "WITHDRAWN"},
                proposedPrice: Prices, counterPrice: Prices \cup {NULL}]

\* agreed: agreement_reached_at is set.  The owner is the property's.
MatchConnection == [tenant: Users, property: Properties,
                    request: Requests \cup {NULL}, agreed: BOOLEAN]

\* The statements of confirmAgreement's transaction still to come.
ConfirmStage == {"sweepRequest", "sweepProperty", "sweepOffers", "closeDeal"}

Call ==
    [op: {"reviewRequest"}, request: Requests]
        \cup [op: {"reviewProperty", "update", "create"}, property: Properties]
        \cup [op: {"createOffer"}, request: Requests, property: Properties]
        \cup [op: {"viewOffer", "acceptOffer", "acceptTx"}, offer: OwnerOffers]
        \cup [op: {"landlordDecline", "landlordCounter", "tenantWithdraw"},
              offer: TenantOffers]
        \cup [op: {"settleAsMatch"}, offer: TenantOffers, price: Prices]
        \cup [op: {"settleTx"}, offer: TenantOffers, price: Prices,
              existing: Connections \cup {NULL}]
        \cup [op: ConfirmStage, match: Connections,
              rejected: SUBSET OwnerOffers, declined: SUBSET TenantOffers]

ASSUME NullAssumption ==
    NULL \notin OwnerOffer \cup TenantOffer \cup MatchConnection \cup Call
                    \cup Requests \cup Connections \cup Prices

MarketTypeOK ==
    /\ request \in [Requests -> RequestStatus]
    /\ property \in [Properties -> PropertyStatus]
    /\ ownerOffer \in [OwnerOffers -> OwnerOffer \cup {NULL}]
    /\ tenantOffer \in [TenantOffers -> TenantOffer \cup {NULL}]
    /\ connection \in [Connections -> MatchConnection \cup {NULL}]
    /\ told \in [TenantOffers -> Prices \cup {NULL}]
    /\ call \in [Sessions -> Call \cup {NULL}]

MarketInit ==
    /\ request = [r \in Requests |-> "NONE"]
    /\ property = [p \in Properties |-> "NONE"]
    /\ ownerOffer = [o \in OwnerOffers |-> NULL]
    /\ tenantOffer = [o \in TenantOffers |-> NULL]
    /\ connection = [c \in Connections |-> NULL]
    /\ told = [o \in TenantOffers |-> NULL]
    /\ call = [s \in Sessions |-> NULL]

----------------------------------------------------------------------------
(* Queries and the two halves of a call.                                   *)

Idle(s) == call[s] = NULL
InCall(s, op) == call[s] # NULL /\ call[s].op = op

Start(s, c) == Idle(s) /\ call' = [call EXCEPT ![s] = c]
Finish(s) == call' = [call EXCEPT ![s] = NULL]

OwnerOfferIs(o, statuses) ==
    ownerOffer[o] # NULL /\ ownerOffer[o].status \in statuses
TenantOfferIs(o, statuses) ==
    tenantOffer[o] # NULL /\ tenantOffer[o].status \in statuses

\* confirmAgreement's transaction holds the locks of the match and the request
\* it updated first, and of the offers it has rejected and declined so far;
\* settleAsMatch's holds that of the offer it claimed.  Another UPDATE of such
\* a row waits for the transaction to end; reads and inserts do not wait.
Confirming(s) == call[s] # NULL /\ call[s].op \in ConfirmStage

MatchLocked(c) == \E s \in Sessions : Confirming(s) /\ call[s].match = c
RequestLocked(r) ==
    \E s \in Sessions : Confirming(s) /\ connection[call[s].match].request = r
PitchLocked(o) == \E s \in Sessions : Confirming(s) /\ o \in call[s].rejected
RowLocked(o) ==
    \E s \in Sessions :
        \/ InCall(s, "settleTx") /\ call[s].offer = o
        \/ Confirming(s) /\ o \in call[s].declined

\* A call that ends without writing, its transaction rolled back: an error
\* thrown after the reads, a deadlock victim, a lost connection, a restart.
Abandon(s) ==
    /\ ~Idle(s)
    /\ Finish(s)
    /\ UNCHANGED <<request, property, ownerOffer, tenantOffer, connection, told>>
=============================================================================
