--------------------------- MODULE TenantOfferFlow ---------------------------
(***************************************************************************)
(* The forward marketplace: a tenant makes a priced offer on a listing and *)
(* the landlord accepts, declines or counters it (TenantOffersService).    *)
(***************************************************************************)
EXTENDS MarketTables

listings == <<request, property, ownerOffer>>

SetTenantOffer(o, status) ==
    tenantOffer' = [tenantOffer EXCEPT ![o].status = status]

IsLandlord(s, o) == UserOf[s] = OwnerOf[tenantOffer[o].property]
IsTenant(s, o) == UserOf[s] = tenantOffer[o].tenant

CreateRead(s, p) ==
    /\ property[p] = "APPROVED"
    /\ OwnerOf[p] # UserOf[s]
    /\ \A o \in TenantOffers :
           TenantOfferIs(o, OpenTenantOffer) =>
               tenantOffer[o].tenant # UserOf[s] \/ tenantOffer[o].property # p
    /\ Start(s, [op |-> "create", property |-> p])
    /\ UNCHANGED <<listings, tenantOffer, connection, told>>

CreateWrite(s) ==
    /\ InCall(s, "create")
    /\ \E o \in TenantOffers, price \in Prices :
           /\ tenantOffer[o] = NULL
           /\ tenantOffer' = [tenantOffer EXCEPT ![o] =
                  [tenant |-> UserOf[s], property |-> call[s].property,
                   status |-> "PENDING", proposedPrice |-> price,
                   counterPrice |-> NULL]]
    /\ Finish(s)
    /\ UNCHANGED <<listings, connection, told>>

----------------------------------------------------------------------------
(* Decline, counter and withdraw: a status check, then an update by id.    *)

LandlordDeclineRead(s, o) ==
    /\ TenantOfferIs(o, OpenTenantOffer)
    /\ IsLandlord(s, o)
    /\ Start(s, [op |-> "landlordDecline", offer |-> o])
    /\ UNCHANGED <<listings, tenantOffer, connection, told>>

LandlordDeclineWrite(s) ==
    /\ InCall(s, "landlordDecline")
    /\ ~RowLocked(call[s].offer)
    /\ SetTenantOffer(call[s].offer, "DECLINED")
    /\ Finish(s)
    /\ UNCHANGED <<listings, connection, told>>

\* Mutant: the landlord can counter again while his price is on the table.
LandlordCounterReadAgain(s, o) ==
    /\ TenantOfferIs(o, OpenTenantOffer)
    /\ IsLandlord(s, o)
    /\ Start(s, [op |-> "landlordCounter", offer |-> o])
    /\ UNCHANGED <<listings, tenantOffer, connection, told>>

LandlordCounterRead(s, o) ==
    /\ TenantOfferIs(o, {"PENDING"})
    /\ IsLandlord(s, o)
    /\ Start(s, [op |-> "landlordCounter", offer |-> o])
    /\ UNCHANGED <<listings, tenantOffer, connection, told>>

LandlordCounterWrite(s) ==
    /\ InCall(s, "landlordCounter")
    /\ ~RowLocked(call[s].offer)
    /\ \E price \in Prices :
           tenantOffer' = [tenantOffer EXCEPT ![call[s].offer] =
               [@ EXCEPT !.status = "COUNTERED", !.counterPrice = price]]
    /\ Finish(s)
    /\ UNCHANGED <<listings, connection, told>>

TenantWithdrawRead(s, o) ==
    /\ TenantOfferIs(o, OpenTenantOffer)
    /\ IsTenant(s, o)
    /\ Start(s, [op |-> "tenantWithdraw", offer |-> o])
    /\ UNCHANGED <<listings, tenantOffer, connection, told>>

TenantWithdrawWrite(s) ==
    /\ InCall(s, "tenantWithdraw")
    /\ ~RowLocked(call[s].offer)
    /\ SetTenantOffer(call[s].offer, "WITHDRAWN")
    /\ Finish(s)
    /\ UNCHANGED <<listings, connection, told>>

----------------------------------------------------------------------------
(* Acceptance.  The price and the property's status are read before the    *)
(* transaction; the transaction claims the offer and looks for a direct    *)
(* connection of the pair, then writes.  Its two steps are kept apart: at  *)
(* READ COMMITTED two transactions can both look before either commits.    *)

StartSettlement(s, o, price) ==
    /\ property[tenantOffer[o].property] = "APPROVED"
    /\ Start(s, [op |-> "settleAsMatch", offer |-> o, price |-> price])
    /\ UNCHANGED <<listings, tenantOffer, connection, told>>

\* Mutant: the tenant's own price although the landlord countered.
OriginalPrice(o) == tenantOffer[o].proposedPrice

PriceOnTheTable(o) ==
    IF tenantOffer[o].counterPrice = NULL
    THEN tenantOffer[o].proposedPrice
    ELSE tenantOffer[o].counterPrice

LandlordAccept(s, o) ==
    /\ TenantOfferIs(o, {"PENDING"})
    /\ IsLandlord(s, o)
    /\ StartSettlement(s, o, tenantOffer[o].proposedPrice)

TenantAccept(s, o) ==
    /\ TenantOfferIs(o, {"COUNTERED"})
    /\ IsTenant(s, o)
    /\ StartSettlement(s, o, PriceOnTheTable(o))

\* Mutant: a conversation of the pair opened by any means.
AnyConnection(o, c) ==
    /\ connection[c] # NULL
    /\ connection[c].tenant = tenantOffer[o].tenant
    /\ connection[c].property = tenantOffer[o].property

DirectConnection(o, c) ==
    /\ connection[c] # NULL
    /\ connection[c].tenant = tenantOffer[o].tenant
    /\ connection[c].property = tenantOffer[o].property
    /\ connection[c].request = NULL

SettleClaim(s) ==
    /\ InCall(s, "settleAsMatch")
    /\ LET o == call[s].offer IN
       /\ ~RowLocked(o)
       /\ TenantOfferIs(o, OpenTenantOffer)
       /\ \E found \in Connections \cup {NULL} :
              /\ IF found = NULL
                 THEN \A c \in Connections : ~DirectConnection(o, c)
                 ELSE DirectConnection(o, found)
              /\ call' = [call EXCEPT ![s] =
                     [op |-> "settleTx", offer |-> o, price |-> call[s].price,
                      existing |-> found]]
    /\ UNCHANGED <<listings, tenantOffer, connection, told>>

\* An existing connection is set to CONNECTED, which it already is; that update
\* waits for a confirmation of the same connection.
SettleCommit(s) ==
    /\ InCall(s, "settleTx")
    /\ LET o == call[s].offer IN
       /\ SetTenantOffer(o, "ACCEPTED")
       /\ told' = [told EXCEPT ![o] = call[s].price]
       /\ IF call[s].existing # NULL
          THEN ~MatchLocked(call[s].existing) /\ UNCHANGED connection
          ELSE \E c \in Connections :
                   /\ connection[c] = NULL
                   /\ connection' = [connection EXCEPT ![c] =
                          [tenant |-> tenantOffer[o].tenant,
                           property |-> tenantOffer[o].property,
                           request |-> NULL, agreed |-> FALSE]]
    /\ Finish(s)
    /\ UNCHANGED listings

TenantOfferNext ==
    \/ \E s \in Sessions, p \in Properties : CreateRead(s, p)
    \/ \E s \in Sessions, o \in TenantOffers :
           \/ LandlordDeclineRead(s, o)
           \/ LandlordCounterRead(s, o)
           \/ TenantWithdrawRead(s, o)
           \/ LandlordAccept(s, o)
           \/ TenantAccept(s, o)
    \/ \E s \in Sessions :
           \/ CreateWrite(s)
           \/ LandlordDeclineWrite(s)
           \/ LandlordCounterWrite(s)
           \/ TenantWithdrawWrite(s)
           \/ SettleClaim(s)
           \/ SettleCommit(s)
=============================================================================
