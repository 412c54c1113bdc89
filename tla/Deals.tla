------------------------------- MODULE Deals -------------------------------
(***************************************************************************)
(* What a search request promises the tenant, without rows, tabs, offers   *)
(* or moderators: one of its matches at most is agreed, that is for ever,  *)
(* and every match was begun while the request was on the market.          *)
(***************************************************************************)
CONSTANTS
    Requests,   \* what tenants look for
    Matches,    \* conversations of a tenant with a landlord
    Direct,     \* what a match is for that was made without a request
    Takers      \* who takes up a landlord's offer

VARIABLES
    wanted,     \* the requests on the market
    taking,     \* for each request, who found it there and is about to match
    opened,     \* <<match, what it is for>>
    agreed      \* those of them that were agreed

dealVars == <<wanted, taking, opened, agreed>>

DealsInit ==
    /\ wanted = {}
    /\ taking = [r \in Requests |-> {}]
    /\ opened = {}
    /\ agreed = {}

Settled(r) == \E c \in Matches : <<c, r>> \in agreed

\* Never again, once a match of the request was agreed.
Publish(r) ==
    /\ ~Settled(r)
    /\ wanted' = wanted \cup {r}
    /\ UNCHANGED <<taking, opened, agreed>>

\* Closed or archived; a whole account's requests at a time.
Withdraw ==
    /\ wanted' \in SUBSET wanted
    /\ UNCHANGED <<taking, opened, agreed>>

Look(a, r) ==
    /\ r \in wanted
    /\ \A q \in Requests : a \notin taking[q]
    /\ taking' = [taking EXCEPT ![r] = @ \cup {a}]
    /\ UNCHANGED <<wanted, opened, agreed>>

Leave(a, r) ==
    /\ a \in taking[r]
    /\ taking' = [taking EXCEPT ![r] = @ \ {a}]
    /\ UNCHANGED <<wanted, opened, agreed>>

Unused(c) == \A q \in Requests \cup {Direct} : <<c, q>> \notin opened

\* The request may have left the market since it was looked at.
Open(a, c, r) ==
    /\ Unused(c)
    /\ a \in taking[r]
    /\ taking' = [taking EXCEPT ![r] = @ \ {a}]
    /\ opened' = opened \cup {<<c, r>>}
    /\ UNCHANGED <<wanted, agreed>>

OpenDirect(c) ==
    /\ Unused(c)
    /\ opened' = opened \cup {<<c, Direct>>}
    /\ UNCHANGED <<wanted, taking, agreed>>

Agree(c, r) ==
    /\ <<c, r>> \in opened \ agreed
    /\ r # Direct => r \in wanted
    /\ agreed' = agreed \cup {<<c, r>>}
    /\ wanted' = wanted \ {r}
    /\ UNCHANGED <<taking, opened>>

DealsNext ==
    \/ \E r \in Requests : Publish(r)
    \/ \E a \in Takers, r \in Requests :
           \/ Look(a, r)
           \/ Leave(a, r)
           \/ \E c \in Matches : Open(a, c, r)
    \/ \E c \in Matches, r \in Requests \cup {Direct} : Agree(c, r)
    \/ \E c \in Matches : OpenDirect(c)
    \/ Withdraw

DealsSpec == DealsInit /\ [][DealsNext]_dealVars

----------------------------------------------------------------------------

\* What follows from the promise alone: a request is agreed once, and a
\* request that was agreed is not on the market.
DealsAreUnique ==
    /\ \A r \in Requests : \A c, d \in Matches :
           <<c, r>> \in agreed /\ <<d, r>> \in agreed => c = d
    /\ \A r \in wanted : ~Settled(r)
=============================================================================
