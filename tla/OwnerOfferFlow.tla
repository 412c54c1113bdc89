--------------------------- MODULE OwnerOfferFlow ---------------------------
(***************************************************************************)
(* The reverse marketplace: a landlord pitches a property to a tenant's    *)
(* request (OffersService).                                                *)
(***************************************************************************)
EXTENDS MarketTables

SetOwnerOffer(o, status) ==
    ownerOffer' = [ownerOffer EXCEPT ![o].status = status]

TenantOfOffer(o) == TenantOf[ownerOffer[o].request]

\* Mutant: no check for an earlier offer.
AnyOffersYet(s, r) == TRUE

\* The landlord of session s has not pitched to request r.
NoOfferYet(s, r) ==
    \A o \in OwnerOffers :
        ownerOffer[o] # NULL =>
            \/ ownerOffer[o].request # r
            \/ OwnerOf[ownerOffer[o].property] # UserOf[s]

\* The checks before withConsumedOffer.
CreateOfferRead(s, r, p) ==
    /\ request[r] = "APPROVED"
    /\ UserOf[s] = OwnerOf[p]
    /\ property[p] = "APPROVED"
    /\ NoOfferYet(s, r)
    /\ Start(s, [op |-> "createOffer", request |-> r, property |-> p])
    /\ UNCHANGED <<request, property, ownerOffer, tenantOffer, connection, told>>

\* The quota transaction inserts the row and checks nothing but the quota
\* (exhausted: the call is abandoned).
CreateOfferWrite(s) ==
    /\ InCall(s, "createOffer")
    /\ \E o \in OwnerOffers :
           /\ ownerOffer[o] = NULL
           /\ ownerOffer' = [ownerOffer EXCEPT ![o] =
                  [request |-> call[s].request, property |-> call[s].property,
                   status |-> "SENT"]]
    /\ Finish(s)
    /\ UNCHANGED <<request, property, tenantOffer, connection, told>>

\* Mutant: viewing marks every offer VIEWED.
ViewOfferReadAny(s, o) ==
    /\ ownerOffer[o] # NULL
    /\ UserOf[s] = TenantOfOffer(o)
    /\ Start(s, [op |-> "viewOffer", offer |-> o])
    /\ UNCHANGED <<request, property, ownerOffer, tenantOffer, connection, told>>

ViewOfferRead(s, o) ==
    /\ OwnerOfferIs(o, {"SENT"})
    /\ UserOf[s] = TenantOfOffer(o)
    /\ Start(s, [op |-> "viewOffer", offer |-> o])
    /\ UNCHANGED <<request, property, ownerOffer, tenantOffer, connection, told>>

ViewOfferWrite(s) ==
    /\ InCall(s, "viewOffer")
    /\ ~PitchLocked(call[s].offer)
    /\ SetOwnerOffer(call[s].offer, "VIEWED")
    /\ Finish(s)
    /\ UNCHANGED <<request, property, tenantOffer, connection, told>>

AcceptOfferRead(s, o) ==
    /\ OwnerOfferIs(o, OpenOwnerOffer)
    /\ UserOf[s] = TenantOfOffer(o)
    /\ property[ownerOffer[o].property] = "APPROVED"
    /\ request[ownerOffer[o].request] = "APPROVED"
    /\ Start(s, [op |-> "acceptOffer", offer |-> o])
    /\ UNCHANGED <<request, property, ownerOffer, tenantOffer, connection, told>>

\* Mutant: the transaction trusts what was read before it.
AcceptOfferDoNotLook(s) ==
    /\ InCall(s, "acceptOffer")
    /\ call' = [call EXCEPT ![s] = [op |-> "acceptTx", offer |-> call[s].offer]]
    /\ UNCHANGED <<request, property, ownerOffer, tenantOffer, connection, told>>

\* The transaction reads the request again, not the property, and locks neither.
AcceptOfferLook(s) ==
    /\ InCall(s, "acceptOffer")
    /\ request[ownerOffer[call[s].offer].request] = "APPROVED"
    /\ call' = [call EXCEPT ![s] = [op |-> "acceptTx", offer |-> call[s].offer]]
    /\ UNCHANGED <<request, property, ownerOffer, tenantOffer, connection, told>>

\* It claims the offer with a guarded update, whose lock keeps what it found
\* until the connection is created and all is committed.
AcceptOfferClaim(s) ==
    /\ InCall(s, "acceptTx")
    /\ LET o == call[s].offer IN
       /\ OwnerOfferIs(o, OpenOwnerOffer)
       /\ ~PitchLocked(o)
       /\ SetOwnerOffer(o, "ACCEPTED")
       /\ \E c \in Connections :
              /\ connection[c] = NULL
              /\ connection' = [connection EXCEPT ![c] =
                     [tenant |-> UserOf[s],
                      property |-> ownerOffer[o].property,
                      request |-> ownerOffer[o].request,
                      agreed |-> FALSE]]
    /\ Finish(s)
    /\ UNCHANGED <<request, property, tenantOffer, told>>

\* Mutant: the rejection repeats no status condition.
RejectAnyOffer(s, o) ==
    /\ Idle(s)
    /\ ownerOffer[o] # NULL
    /\ UserOf[s] = TenantOfOffer(o)
    /\ ~PitchLocked(o)
    /\ SetOwnerOffer(o, "REJECTED")
    /\ UNCHANGED <<request, property, tenantOffer, connection, told, call>>

RejectOffer(s, o) ==
    /\ Idle(s)
    /\ OwnerOfferIs(o, OpenOwnerOffer)
    /\ UserOf[s] = TenantOfOffer(o)
    /\ ~PitchLocked(o)
    /\ SetOwnerOffer(o, "REJECTED")
    /\ UNCHANGED <<request, property, tenantOffer, connection, told, call>>

OwnerOfferNext ==
    \/ \E s \in Sessions, r \in Requests, p \in Properties :
           CreateOfferRead(s, r, p)
    \/ \E s \in Sessions, o \in OwnerOffers :
           \/ ViewOfferRead(s, o)
           \/ AcceptOfferRead(s, o)
           \/ RejectOffer(s, o)
    \/ \E s \in Sessions :
           \/ CreateOfferWrite(s)
           \/ ViewOfferWrite(s)
           \/ AcceptOfferLook(s)
           \/ AcceptOfferClaim(s)
=============================================================================
