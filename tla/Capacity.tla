------------------------------- MODULE Capacity -------------------------------
(***************************************************************************)
(* How many listings one owner may have (QuotaService.getListingCapacity   *)
(* and the hourly enforcement; the handlers of PropertiesService and       *)
(* AdminService that write the status of a listing).                       *)
(*                                                                         *)
(* The limit is read outside of the transaction that counts and writes     *)
(* (update asks for it inside the callback, but on another connection);    *)
(* the transactions of create and update are Serializable, so each is a    *)
(* step.                                                                   *)
(***************************************************************************)
EXTENDS Handlers, FiniteSetsExt

CONSTANTS
    Listings,      \* the owner's rows of property
    Limits,        \* what plan and add-ons may allow him
    MaxRevived,    \* bound on listings brought back without a count
    Enforcer       \* the hourly job, as one more caller

ASSUME CapacityAssumption ==
    /\ IsFiniteSet(Listings)
    /\ Limits \in SUBSET Nat \ {{}}
    /\ MaxRevived \in Nat
    /\ Enforcer \notin Callers

VARIABLES
    status,     \* the status of each listing
    limit,      \* what he is allowed now
    grace,      \* userQuota.listingGraceEndsAt: null, to come, or past
    unitCall,   \* handlers under way, and the job
    best,       \* history: the highest limit he ever had
    revived     \* history: how often a listing that did not count was
                \*   brought back without a count

capacityVars == <<status, limit, grace, unitCall, best, revived>>

Actors == Callers \cup {Enforcer}

\* ACTIVE stands for PENDING and APPROVED, which count alike.
ListingStatus == {"NONE", "ACTIVE", "REJECTED", "ARCHIVED"}
Grace == {"none", "running", "over"}

\* What a handler does next; grace: the column has to be written before.
NextCall ==
    [op: {"create"}, limit: Limits]
        \cup [op: {"resubmit"}, listing: Listings, limit: Limits]
        \cup [op: {"choose"}, excess: Nat]
UnitCall ==
    NextCall
        \cup [op: {"grace"}, write: {"none", "running"}, next: NextCall \cup {NULL}]
        \cup [op: {"activate", "reject"}, listing: Listings]
        \cup [op: {"archive"}, chosen: SUBSET Listings]
        \cup [op: {"clear"}]

CapacityTypeOK ==
    /\ status \in [Listings -> ListingStatus]
    /\ limit \in Limits
    /\ grace \in Grace
    /\ unitCall \in [Actors -> UnitCall \cup {NULL}]
    /\ best \in Limits
    /\ revived \in Nat

CapacityInit ==
    /\ status = [l \in Listings |-> "NONE"]
    /\ limit \in Limits
    /\ grace = "none"
    /\ unitCall = [a \in Actors |-> NULL]
    /\ best = limit
    /\ revived = 0

----------------------------------------------------------------------------

Active == {l \in Listings : status[l] = "ACTIVE"}

OnlyCalls == UNCHANGED <<status, limit, grace, best, revived>>

In(a, op) == unitCall[a] # NULL /\ unitCall[a].op = op

Goto(a, call) == unitCall' = [unitCall EXCEPT ![a] = call]

\* A plan or an add-on begins or ends.
ChangeLimit ==
    /\ limit' \in Limits
    /\ best' = Max({best, limit'})
    /\ UNCHANGED <<status, grace, unitCall, revived>>

GraceExpires ==
    /\ grace = "running"
    /\ grace' = "over"
    /\ UNCHANGED <<status, limit, unitCall, best, revived>>

----------------------------------------------------------------------------
(* getListingCapacity: the reads, then the column that follows from them,  *)
(* if it has to change.                                                    *)

ActiveCount == Cardinality(Active)

GraceFor ==
    CASE ActiveCount > limit /\ grace = "none" -> "running"
      [] ActiveCount <= limit -> "none"
      [] OTHER -> grace

ReadCapacity(a, next) ==
    /\ unitCall[a] = NULL
    /\ Goto(a, IF GraceFor = grace THEN next
               ELSE [op |-> "grace", write |-> GraceFor, next |-> next])
    /\ OnlyCalls

WriteGrace(a) ==
    /\ In(a, "grace")
    /\ grace' = unitCall[a].write
    /\ Goto(a, unitCall[a].next)
    /\ UNCHANGED <<status, limit, best, revived>>

GetQuota(c) == ReadCapacity(c, NULL)

AskCreate(c) ==
    ReadCapacity(c, IF ActiveCount < limit THEN [op |-> "create", limit |-> limit]
                    ELSE NULL)

ReadToEnforce ==
    ReadCapacity(Enforcer, IF GraceFor = "over"
                           THEN [op |-> "choose", excess |-> ActiveCount - limit]
                           ELSE NULL)

----------------------------------------------------------------------------
(* The owner's handlers and the moderators'.                               *)

Put(l, new) == status' = [status EXCEPT ![l] = new]

\* Mutant: the count that was read with the limit is enough.
CreateWithoutRecount(c) ==
    /\ In(c, "create")
    /\ \E l \in Listings : status[l] = "NONE" /\ Put(l, "ACTIVE")
    /\ Ends(unitCall, c)
    /\ UNCHANGED <<limit, grace, best, revived>>

CreateListing(c) ==
    /\ In(c, "create")
    /\ ActiveCount < unitCall[c].limit
    /\ \E l \in Listings : status[l] = "NONE" /\ Put(l, "ACTIVE")
    /\ Ends(unitCall, c)
    /\ UNCHANGED <<limit, grace, best, revived>>

\* update: a listing that is read as rejected is counted again.
ReadToResubmit(c) ==
    \E l \in Listings :
        /\ status[l] = "REJECTED"
        /\ ReadCapacity(c, [op |-> "resubmit", listing |-> l, limit |-> limit])

ResubmitListing(c) ==
    /\ In(c, "resubmit")
    /\ Cardinality(Active \ {unitCall[c].listing}) < unitCall[c].limit
    /\ Put(unitCall[c].listing, "ACTIVE")
    /\ Ends(unitCall, c)
    /\ UNCHANGED <<limit, grace, best, revived>>

\* Written without a count, whatever has happened to the listing meanwhile.
BringBack(l) ==
    /\ Put(l, "ACTIVE")
    /\ revived' = IF l \in Active THEN revived ELSE revived + 1
    /\ revived' <= MaxRevived

\* An edit of a listing that counts, or a moderator's decision on it.
ReadActive(c) ==
    /\ \E l \in Active, op \in {"activate", "reject"} :
           Waits(unitCall, c, [op |-> op, listing |-> l])
    /\ OnlyCalls

\* Edited (PENDING again) or approved.
ActivateListing(c) ==
    /\ In(c, "activate")
    /\ BringBack(unitCall[c].listing)
    /\ Ends(unitCall, c)
    /\ UNCHANGED <<limit, grace, best>>

Unarchive(l) ==
    /\ status[l] # "NONE"
    /\ BringBack(l)
    /\ UNCHANGED <<limit, grace, unitCall, best>>

\* By the owner, by an agreement on the property, or with the account.
Archive(l) ==
    /\ status[l] # "NONE"
    /\ Put(l, "ARCHIVED")
    /\ UNCHANGED <<limit, grace, unitCall, best, revived>>

RejectListing(c) ==
    /\ In(c, "reject")
    /\ Put(unitCall[c].listing, "REJECTED")
    /\ Ends(unitCall, c)
    /\ UNCHANGED <<limit, grace, best, revived>>

----------------------------------------------------------------------------
(* The hourly enforcement.                                                 *)

ChooseNewest ==
    /\ In(Enforcer, "choose")
    /\ \E chosen \in SUBSET Active :
           /\ Cardinality(chosen) =
                  Min({unitCall[Enforcer].excess, ActiveCount})
           /\ Goto(Enforcer, [op |-> "archive", chosen |-> chosen])
    /\ OnlyCalls

\* Mutant: the listings are chosen, and the period of grace begins again.
ArchiveNothing ==
    /\ In(Enforcer, "archive")
    /\ Goto(Enforcer, [op |-> "clear"])
    /\ UNCHANGED <<status, limit, grace, best, revived>>

ArchiveChosen ==
    /\ In(Enforcer, "archive")
    /\ status' = [l \in Listings |->
                     IF l \in unitCall[Enforcer].chosen THEN "ARCHIVED" ELSE status[l]]
    /\ Goto(Enforcer, [op |-> "clear"])
    /\ UNCHANGED <<limit, grace, best, revived>>

ClearGrace ==
    /\ In(Enforcer, "clear")
    /\ grace' = "none"
    /\ Ends(unitCall, Enforcer)
    /\ UNCHANGED <<status, limit, best, revived>>

UnitHandlerFails(a) == Ends(unitCall, a) /\ OnlyCalls

CapacityNext ==
    \/ ChangeLimit \/ GraceExpires
    \/ \E c \in Callers :
           \/ GetQuota(c) \/ AskCreate(c) \/ WriteGrace(c) \/ CreateListing(c)
           \/ ReadToResubmit(c) \/ ResubmitListing(c)
           \/ ReadActive(c) \/ ActivateListing(c) \/ RejectListing(c)
           \/ UnitHandlerFails(c)
    \/ \E l \in Listings : Unarchive(l) \/ Archive(l)
    \/ ReadToEnforce \/ WriteGrace(Enforcer) \/ ChooseNewest \/ ArchiveChosen
    \/ ClearGrace \/ UnitHandlerFails(Enforcer)

CapacitySpec == CapacityInit /\ [][CapacityNext]_capacityVars

----------------------------------------------------------------------------

\* However creations, edits, reviews and changes of the plan overlap, an owner
\* is above the best limit he ever had by no more listings than were brought
\* back without a count (unarchived, or written over a newer status).
OnlyRevivalsExceed == ActiveCount <= best + revived

\* An owner with too many listings does not keep them: once nothing is brought
\* back any more, the job takes him down to the limit, again and again.
ExcessIsArchived == []<>(ActiveCount <= limit)
=============================================================================
