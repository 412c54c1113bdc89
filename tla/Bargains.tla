------------------------------ MODULE Bargains ------------------------------
(***************************************************************************)
(* What an offer on a listing promises both parties, without rows, calls   *)
(* or transactions: the landlord counters once at most and not after the   *)
(* settlement; it is settled once at most, at the price that is then on    *)
(* the table, and its parties have their conversation from then on.        *)
(***************************************************************************)
CONSTANTS
    Offers,     \* offers of tenants on listings
    Parties,    \* pairs of a tenant and a listing
    Prices,
    NULL        \* no offer, no price yet

VARIABLES
    parties,    \* who an offer is between, or NULL
    proposed,   \* the price it proposes, or NULL
    counter,    \* the landlord's price, or NULL
    settled,    \* the agreed price, or NULL
    talks       \* the pairs that have a conversation of their own

bargainVars == <<parties, proposed, counter, settled, talks>>

Undone == [o \in Offers |-> NULL]

BargainsInit ==
    /\ parties = Undone
    /\ proposed = Undone
    /\ counter = Undone
    /\ settled = Undone
    /\ talks = {}

Propose(o, pair, price) ==
    /\ proposed[o] = NULL
    /\ parties' = [parties EXCEPT ![o] = pair]
    /\ proposed' = [proposed EXCEPT ![o] = price]
    /\ UNCHANGED <<counter, settled, talks>>

Counter(o, price) ==
    /\ proposed[o] # NULL
    /\ counter[o] = NULL
    /\ settled[o] = NULL
    /\ counter' = [counter EXCEPT ![o] = price]
    /\ UNCHANGED <<parties, proposed, settled, talks>>

OnTheTable(o) == IF counter[o] = NULL THEN proposed[o] ELSE counter[o]

Settle(o) ==
    /\ proposed[o] # NULL
    /\ settled[o] = NULL
    /\ settled' = [settled EXCEPT ![o] = OnTheTable(o)]
    /\ talks' = talks \cup {parties[o]}
    /\ UNCHANGED <<parties, proposed, counter>>

BargainsNext ==
    \E o \in Offers :
        \/ \E pair \in Parties, price \in Prices : Propose(o, pair, price)
        \/ \E price \in Prices : Counter(o, price)
        \/ Settle(o)

BargainsSpec == BargainsInit /\ [][BargainsNext]_bargainVars

----------------------------------------------------------------------------

\* What follows from the promise alone: what was settled is what is on the
\* table, and its parties talk.
SettledAsAgreed ==
    \A o \in Offers :
        settled[o] # NULL =>
            /\ proposed[o] # NULL
            /\ settled[o] = OnTheTable(o)
            /\ parties[o] \in talks
=============================================================================
