------------------------------ MODULE Listings ------------------------------
(***************************************************************************)
(* The life of the two things that are matched: a tenant's search request  *)
(* and a landlord's property.  Both are submitted PENDING and moderated by *)
(* an admin; the moderation reads the status in one query and overwrites   *)
(* it in another, as does the landlord's edit.                             *)
(***************************************************************************)
EXTENDS MarketTables

offersAndConnections == <<ownerOffer, tenantOffer, connection, told>>

SetRequest(r, status) == request' = [request EXCEPT ![r] = status]
SetProperty(p, status) == property' = [property EXCEPT ![p] = status]

----------------------------------------------------------------------------
(* Tenant requests.                                                        *)

CreateRequest(s, r) ==
    /\ Idle(s)
    /\ UserOf[s] = TenantOf[r]
    /\ request[r] = "NONE"
    /\ SetRequest(r, "PENDING")
    /\ UNCHANGED <<property, call, offersAndConnections>>

\* Mutant: the request takes a status of the offers' enumeration.
CloseRequestAsWithdrawn(s, r) ==
    /\ Idle(s)
    /\ UserOf[s] = TenantOf[r]
    /\ request[r] # "NONE"
    /\ ~RequestLocked(r)
    /\ SetRequest(r, "WITHDRAWN")
    /\ UNCHANGED <<property, call, offersAndConnections>>

\* The update has no status condition: a FULFILLED request can be closed too.
CloseRequest(s, r) ==
    /\ Idle(s)
    /\ UserOf[s] = TenantOf[r]
    /\ request[r] # "NONE"
    /\ ~RequestLocked(r)
    /\ SetRequest(r, "CLOSED")
    /\ UNCHANGED <<property, call, offersAndConnections>>

\* Mutant: a decision that was taken can be taken again.
ReviewRequestReadAgain(s, r) ==
    /\ UserOf[s] \in Admins
    /\ request[r] # "NONE"
    /\ Start(s, [op |-> "reviewRequest", request |-> r])
    /\ UNCHANGED <<request, property, offersAndConnections>>

ReviewRequestRead(s, r) ==
    /\ UserOf[s] \in Admins
    /\ request[r] = "PENDING"
    /\ Start(s, [op |-> "reviewRequest", request |-> r])
    /\ UNCHANGED <<request, property, offersAndConnections>>

ReviewRequestWrite(s) ==
    /\ InCall(s, "reviewRequest")
    /\ ~RequestLocked(call[s].request)
    /\ \E decision \in {"APPROVED", "REJECTED"} :
           SetRequest(call[s].request, decision)
    /\ Finish(s)
    /\ UNCHANGED <<property, offersAndConnections>>

----------------------------------------------------------------------------
(* Properties.                                                             *)

CreateProperty(s, p) ==
    /\ Idle(s)
    /\ UserOf[s] = OwnerOf[p]
    /\ property[p] = "NONE"
    /\ SetProperty(p, "PENDING")
    /\ UNCHANGED <<request, call, offersAndConnections>>

ArchiveProperty(s, p) ==
    /\ Idle(s)
    /\ UserOf[s] = OwnerOf[p]
    /\ property[p] # "NONE"
    /\ SetProperty(p, "ARCHIVED")
    /\ UNCHANGED <<request, call, offersAndConnections>>

\* Returns early on an archived listing; what it writes is what archive writes.
RemoveProperty(s, p) ==
    /\ property[p] # "ARCHIVED"
    /\ ArchiveProperty(s, p)

\* No status condition: also an APPROVED or an agreed listing goes to PENDING.
UnarchiveProperty(s, p) ==
    /\ Idle(s)
    /\ UserOf[s] = OwnerOf[p]
    /\ property[p] # "NONE"
    /\ SetProperty(p, "PENDING")
    /\ UNCHANGED <<request, call, offersAndConnections>>

\* Whether the plan's capacity admits a REJECTED listing again is abstracted:
\* the call may be abandoned.
UpdatePropertyRead(s, p) ==
    /\ UserOf[s] = OwnerOf[p]
    /\ property[p] \notin {"NONE", "ARCHIVED"}
    /\ Start(s, [op |-> "update", property |-> p])
    /\ UNCHANGED <<request, property, offersAndConnections>>

UpdatePropertyWrite(s) ==
    /\ InCall(s, "update")
    /\ SetProperty(call[s].property, "PENDING")
    /\ Finish(s)
    /\ UNCHANGED <<request, offersAndConnections>>

ReviewPropertyRead(s, p) ==
    /\ UserOf[s] \in Admins
    /\ property[p] = "PENDING"
    /\ Start(s, [op |-> "reviewProperty", property |-> p])
    /\ UNCHANGED <<request, property, offersAndConnections>>

ReviewPropertyWrite(s) ==
    /\ InCall(s, "reviewProperty")
    /\ \E decision \in {"APPROVED", "REJECTED"} :
           SetProperty(call[s].property, decision)
    /\ Finish(s)
    /\ UNCHANGED <<request, offersAndConnections>>

----------------------------------------------------------------------------

\* deleteAccount and softDeleteUser archive what the account published.  The
\* account itself is left out here: whoever signed in before, or is
\* reactivated later, keeps calling.
DeleteAccount(u) ==
    /\ \A r \in Requests : TenantOf[r] = u => ~RequestLocked(r)
    /\ request' = [r \in Requests |->
                      IF TenantOf[r] = u /\ request[r] # "NONE"
                      THEN "ARCHIVED" ELSE request[r]]
    /\ property' = [p \in Properties |->
                      IF OwnerOf[p] = u /\ property[p] # "NONE"
                      THEN "ARCHIVED" ELSE property[p]]
    /\ UNCHANGED <<call, offersAndConnections>>

ListingsNext ==
    \/ \E s \in Sessions, r \in Requests :
           \/ CreateRequest(s, r)
           \/ CloseRequest(s, r)
           \/ ReviewRequestRead(s, r)
    \/ \E s \in Sessions, p \in Properties :
           \/ CreateProperty(s, p)
           \/ ArchiveProperty(s, p)
           \/ RemoveProperty(s, p)
           \/ UnarchiveProperty(s, p)
           \/ UpdatePropertyRead(s, p)
           \/ ReviewPropertyRead(s, p)
    \/ \E s \in Sessions :
           \/ ReviewRequestWrite(s)
           \/ UpdatePropertyWrite(s)
           \/ ReviewPropertyWrite(s)
    \/ \E u \in Users \ Admins : DeleteAccount(u)
=============================================================================
