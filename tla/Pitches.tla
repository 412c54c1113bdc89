------------------------------- MODULE Pitches -------------------------------
(***************************************************************************)
(* What a landlord's offer on a search request promises, without rows,     *)
(* transactions or rejections: a landlord makes another one for the        *)
(* request only if he set out to before the first was there, an offer is   *)
(* accepted by the step that opens its conversation, and only a look at    *)
(* the offer that began before the acceptance can undo it.                 *)
(***************************************************************************)
CONSTANTS
    Offers,      \* offers of landlords on requests
    Requests,    \* what tenants look for
    Properties,  \* what landlords offer
    OwnerOf,     \* the landlord of a property
    Matches,     \* conversations
    Tabs         \* where people act, on one thing at a time

VARIABLES
    drafts,      \* <<tab, request, property>>: found without an offer of the owner
    sent,        \* <<offer, request, property>>
    looks,       \* <<tab, offer>>: found before it was accepted
    accepted,    \* those of sent that are accepted
    opened       \* <<match, request, property>>

pitchVars == <<drafts, sent, looks, accepted, opened>>

PitchesInit ==
    /\ drafts = {}
    /\ sent = {}
    /\ looks = {}
    /\ accepted = {}
    /\ opened = {}

\* The property's owner has no offer on the request yet.
Draft(a, r, p) ==
    /\ \A pitch \in sent : pitch[2] = r => OwnerOf[pitch[3]] # OwnerOf[p]
    /\ drafts' = drafts \cup {<<a, r, p>>}
    /\ UNCHANGED <<sent, looks, accepted, opened>>

Discard(draft) ==
    /\ drafts' = drafts \ {draft}
    /\ UNCHANGED <<sent, looks, accepted, opened>>

Pitch(draft, o) ==
    /\ \A pitch \in sent : pitch[1] # o
    /\ drafts' = drafts \ {draft}
    /\ sent' = sent \cup {<<o, draft[2], draft[3]>>}
    /\ UNCHANGED <<looks, accepted, opened>>

Look(a, pitch) ==
    /\ pitch \notin accepted
    /\ looks' = looks \cup {<<a, pitch[1]>>}
    /\ UNCHANGED <<drafts, sent, accepted, opened>>

\* A look that ends late forgets what became of the offer.
LookAway(look) ==
    /\ looks' = looks \ {look}
    /\ accepted' \in {accepted, {pitch \in accepted : pitch[1] # look[2]}}
    /\ UNCHANGED <<drafts, sent, opened>>

Accept(pitch, c) ==
    /\ pitch \notin accepted
    /\ \A match \in opened : match[1] # c
    /\ accepted' = accepted \cup {pitch}
    /\ opened' = opened \cup {<<c, pitch[2], pitch[3]>>}
    /\ UNCHANGED <<drafts, sent, looks>>

PitchesNext ==
    \/ \E a \in Tabs, r \in Requests, p \in Properties : Draft(a, r, p)
    \/ \E draft \in drafts : Discard(draft) \/ \E o \in Offers : Pitch(draft, o)
    \/ \E a \in Tabs, pitch \in sent : Look(a, pitch)
    \/ \E look \in looks : LookAway(look)
    \/ \E pitch \in sent, c \in Matches : Accept(pitch, c)

PitchesSpec == PitchesInit /\ [][PitchesNext]_pitchVars

----------------------------------------------------------------------------

\* What follows from the promise alone: what is accepted was sent and has a
\* conversation of its request and property, and there is no other conversation
\* of a request than with a landlord who sent an offer.
AcceptancesAreTalkedAbout ==
    /\ accepted \subseteq sent
    /\ {<<pitch[2], pitch[3]>> : pitch \in accepted}
           \subseteq {<<match[2], match[3]>> : match \in opened}
    /\ {<<match[2], match[3]>> : match \in opened}
           \subseteq {<<pitch[2], pitch[3]>> : pitch \in sent}
=============================================================================
