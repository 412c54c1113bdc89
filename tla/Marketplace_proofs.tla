-------------------------- MODULE Marketplace_proofs --------------------------
(***************************************************************************)
(* Proofs about the marketplace for any number of accounts, sessions and   *)
(* rows: the types of the tables; the row locks of confirmAgreement's      *)
(* transaction; that a settled request never comes back on the market and  *)
(* that only calls under way outlive its deal, when a single session       *)
(* moderates; that told prices stand when a landlord calls from one tab at *)
(* a time; and that the marketplace keeps what Deals, Pitches and Bargains *)
(* promise.                                                                *)
(***************************************************************************)
EXTENDS Marketplace, TLAPS

\* A call in flight names a row that was there when it read it, and rows of
\* the two offer tables are never deleted.  The writes by id rest on it.
NamesRows(s) ==
    /\ InCall(s, "viewOffer") => ownerOffer[call[s].offer] # NULL
    /\ InCall(s, "acceptOffer") => ownerOffer[call[s].offer] # NULL
    /\ InCall(s, "acceptTx") => ownerOffer[call[s].offer] # NULL
    /\ InCall(s, "landlordDecline") => tenantOffer[call[s].offer] # NULL
    /\ InCall(s, "landlordCounter") => tenantOffer[call[s].offer] # NULL
    /\ InCall(s, "tenantWithdraw") => tenantOffer[call[s].offer] # NULL
    /\ InCall(s, "settleAsMatch") => tenantOffer[call[s].offer] # NULL
    /\ InCall(s, "settleTx") => tenantOffer[call[s].offer] # NULL
    /\ Confirming(s) =>
          /\ connection[call[s].match] # NULL
          /\ \A o \in call[s].rejected : ownerOffer[o] # NULL
          /\ \A o \in call[s].declined : tenantOffer[o] # NULL

CallsNameRows == \A s \in Sessions : NamesRows(s)

TypeInv == MarketTypeOK /\ CallsNameRows

----------------------------------------------------------------------------

\* What a call in flight carries, by its operation.
LEMMA CallFields ==
    ASSUME MarketTypeOK, NEW s \in Sessions, ~Idle(s)
    PROVE  /\ InCall(s, "reviewRequest") => call[s].request \in Requests
           /\ InCall(s, "reviewProperty") => call[s].property \in Properties
           /\ InCall(s, "update") => call[s].property \in Properties
           /\ InCall(s, "create") => call[s].property \in Properties
           /\ InCall(s, "createOffer") =>
                 call[s].request \in Requests /\ call[s].property \in Properties
           /\ InCall(s, "viewOffer") => call[s].offer \in OwnerOffers
           /\ InCall(s, "acceptOffer") => call[s].offer \in OwnerOffers
           /\ InCall(s, "acceptTx") => call[s].offer \in OwnerOffers
           /\ InCall(s, "landlordDecline") => call[s].offer \in TenantOffers
           /\ InCall(s, "landlordCounter") => call[s].offer \in TenantOffers
           /\ InCall(s, "tenantWithdraw") => call[s].offer \in TenantOffers
           /\ InCall(s, "settleAsMatch") =>
                 call[s].offer \in TenantOffers /\ call[s].price \in Prices
           /\ InCall(s, "settleTx") =>
                 /\ call[s].offer \in TenantOffers /\ call[s].price \in Prices
                 /\ call[s].existing \in Connections \cup {NULL}
           /\ Confirming(s) =>
                 /\ call[s].match \in Connections
                 /\ call[s].rejected \in SUBSET OwnerOffers
                 /\ call[s].declined \in SUBSET TenantOffers
<1>1. call[s] \in Call
  BY DEF MarketTypeOK, Idle
<1>2. Confirming(s) => call[s] \in [op: ConfirmStage, match: Connections,
                                    rejected: SUBSET OwnerOffers,
                                    declined: SUBSET TenantOffers]
  BY <1>1 DEF Call, Confirming, ConfirmStage
<1> QED
  BY <1>1, <1>2 DEF Call, ConfirmStage, InCall

\* Rows that are present have their type.
LEMMA RowFields ==
    ASSUME MarketTypeOK
    PROVE  /\ \A o \in OwnerOffers :
                  ownerOffer[o] # NULL => ownerOffer[o] \in OwnerOffer
           /\ \A o \in TenantOffers :
                  tenantOffer[o] # NULL => tenantOffer[o] \in TenantOffer
           /\ \A c \in Connections :
                  connection[c] # NULL => connection[c] \in MatchConnection
BY DEF MarketTypeOK

----------------------------------------------------------------------------
(* The listings' actions touch neither offers nor connections.             *)

LEMMA ListingsType == TypeInv /\ ListingsNext => TypeInv'
<1> SUFFICES ASSUME TypeInv, ListingsNext PROVE TypeInv'
  OBVIOUS
<1> USE DEF TypeInv, NamesRows, Confirming, ConfirmStage
<1>1. ASSUME NEW s \in Sessions, NEW r \in Requests,
             CreateRequest(s, r) \/ CloseRequest(s, r)
      PROVE  TypeInv'
  BY <1>1 DEF CreateRequest, CloseRequest, SetRequest, MarketTypeOK,
     CallsNameRows, RequestStatus, InCall, offersAndConnections
<1>2. ASSUME NEW s \in Sessions, NEW r \in Requests, ReviewRequestRead(s, r)
      PROVE  TypeInv'
  <2>1. [op |-> "reviewRequest", request |-> r] \in Call
    BY DEF Call
  <2>2. MarketTypeOK'
    BY <1>2, <2>1 DEF ReviewRequestRead, Start, MarketTypeOK, offersAndConnections
  <2>3. CallsNameRows'
    BY <1>2 DEF ReviewRequestRead, Start, MarketTypeOK, CallsNameRows, InCall,
       offersAndConnections
  <2> QED BY <2>2, <2>3
<1>3. ASSUME NEW s \in Sessions, ReviewRequestWrite(s) PROVE TypeInv'
  <2>1. call[s].request \in Requests
    BY <1>3, CallFields DEF ReviewRequestWrite, InCall, Idle
  <2>2. MarketTypeOK'
    BY <1>3, <2>1 DEF ReviewRequestWrite, SetRequest, Finish, MarketTypeOK,
       RequestStatus, offersAndConnections
  <2>3. CallsNameRows'
    BY <1>3, NullAssumption DEF ReviewRequestWrite, Finish, MarketTypeOK,
       CallsNameRows, InCall, offersAndConnections
  <2> QED BY <2>2, <2>3
<1>4. ASSUME NEW s \in Sessions, NEW p \in Properties,
             \/ CreateProperty(s, p) \/ ArchiveProperty(s, p)
             \/ RemoveProperty(s, p) \/ UnarchiveProperty(s, p)
      PROVE  TypeInv'
  BY <1>4 DEF CreateProperty, ArchiveProperty, RemoveProperty,
     UnarchiveProperty, SetProperty, MarketTypeOK, CallsNameRows,
     PropertyStatus, InCall, offersAndConnections
<1>5. ASSUME NEW s \in Sessions, NEW p \in Properties,
             UpdatePropertyRead(s, p) \/ ReviewPropertyRead(s, p)
      PROVE  TypeInv'
  <2>1. /\ [op |-> "update", property |-> p] \in Call
        /\ [op |-> "reviewProperty", property |-> p] \in Call
    BY DEF Call
  <2>2. MarketTypeOK'
    BY <1>5, <2>1 DEF UpdatePropertyRead, ReviewPropertyRead, Start,
       MarketTypeOK, offersAndConnections
  <2>3. CallsNameRows'
    BY <1>5 DEF UpdatePropertyRead, ReviewPropertyRead, Start, MarketTypeOK,
       CallsNameRows, InCall, offersAndConnections
  <2> QED BY <2>2, <2>3
<1>6. ASSUME NEW s \in Sessions,
             UpdatePropertyWrite(s) \/ ReviewPropertyWrite(s)
      PROVE  TypeInv'
  <2>1. call[s].property \in Properties
    BY <1>6, CallFields DEF UpdatePropertyWrite, ReviewPropertyWrite, InCall, Idle
  <2>2. MarketTypeOK'
    BY <1>6, <2>1 DEF UpdatePropertyWrite, ReviewPropertyWrite, SetProperty,
       Finish, MarketTypeOK, PropertyStatus, offersAndConnections
  <2>3. CallsNameRows'
    BY <1>6 DEF UpdatePropertyWrite, ReviewPropertyWrite, Finish, MarketTypeOK,
       CallsNameRows, InCall, offersAndConnections
  <2> QED BY <2>2, <2>3
<1>7. ASSUME NEW u \in Users \ Admins, DeleteAccount(u) PROVE TypeInv'
  BY <1>7 DEF DeleteAccount, MarketTypeOK, CallsNameRows, RequestStatus,
     PropertyStatus, InCall, offersAndConnections
<1> QED
  BY <1>1, <1>2, <1>3, <1>4, <1>5, <1>6, <1>7 DEF ListingsNext

----------------------------------------------------------------------------
(* The offers on tenant requests.                                          *)

LEMMA OwnerOfferType == TypeInv /\ OwnerOfferNext => TypeInv'
<1> SUFFICES ASSUME TypeInv, OwnerOfferNext PROVE TypeInv'
  OBVIOUS
<1> USE DEF TypeInv, NamesRows, Confirming, ConfirmStage
<1>1. ASSUME NEW s \in Sessions, NEW r \in Requests, NEW p \in Properties,
             CreateOfferRead(s, r, p)
      PROVE  TypeInv'
  <2>1. [op |-> "createOffer", request |-> r, property |-> p] \in Call
    BY DEF Call
  <2>2. MarketTypeOK'
    BY <1>1, <2>1 DEF CreateOfferRead, Start, MarketTypeOK
  <2>3. CallsNameRows'
    BY <1>1 DEF CreateOfferRead, Start, MarketTypeOK, CallsNameRows, InCall
  <2> QED BY <2>2, <2>3
<1>2. ASSUME NEW s \in Sessions, CreateOfferWrite(s) PROVE TypeInv'
  <2>1. call[s].request \in Requests /\ call[s].property \in Properties
    BY <1>2, CallFields DEF CreateOfferWrite, InCall, Idle
  <2>2. [request |-> call[s].request, property |-> call[s].property,
         status |-> "SENT"] \in OwnerOffer
    BY <2>1 DEF OwnerOffer, OpenOwnerOffer
  <2>3. MarketTypeOK'
    BY <1>2, <2>2 DEF CreateOfferWrite, Finish, MarketTypeOK
  <2>4. CallsNameRows'
    BY <1>2, <2>2, NullAssumption DEF CreateOfferWrite, Finish, MarketTypeOK,
       CallsNameRows, InCall
  <2> QED BY <2>3, <2>4
<1>3. ASSUME NEW s \in Sessions, NEW o \in OwnerOffers,
             ViewOfferRead(s, o) \/ AcceptOfferRead(s, o)
      PROVE  TypeInv'
  <2>1. /\ [op |-> "viewOffer", offer |-> o] \in Call
        /\ [op |-> "acceptOffer", offer |-> o] \in Call
    BY DEF Call
  <2>2. MarketTypeOK'
    BY <1>3, <2>1 DEF ViewOfferRead, AcceptOfferRead, Start, MarketTypeOK
  <2>3. CallsNameRows'
    BY <1>3 DEF ViewOfferRead, AcceptOfferRead, OwnerOfferIs, Start,
       MarketTypeOK, CallsNameRows, InCall
  <2> QED BY <2>2, <2>3
<1>4. ASSUME NEW s \in Sessions, ViewOfferWrite(s) PROVE TypeInv'
  <2>1. call[s].offer \in OwnerOffers /\ ownerOffer[call[s].offer] # NULL
    BY <1>4, CallFields DEF ViewOfferWrite, InCall, Idle, CallsNameRows
  <2>2. [ownerOffer[call[s].offer] EXCEPT !.status = "VIEWED"] \in OwnerOffer
    BY <2>1, RowFields DEF OwnerOffer, OpenOwnerOffer
  <2>3. MarketTypeOK'
    BY <1>4, <2>1, <2>2 DEF ViewOfferWrite, SetOwnerOffer, Finish, MarketTypeOK
  <2>4. CallsNameRows'
    BY <1>4, <2>1, <2>2, NullAssumption DEF ViewOfferWrite, SetOwnerOffer,
       Finish, MarketTypeOK, CallsNameRows, InCall
  <2> QED BY <2>3, <2>4
<1>5. ASSUME NEW s \in Sessions, AcceptOfferClaim(s) PROVE TypeInv'
  <2> DEFINE o == call[s].offer
  <2>1. o \in OwnerOffers /\ ownerOffer[o] # NULL
    BY <1>5, CallFields DEF AcceptOfferClaim, InCall, Idle, CallsNameRows
  <2>2. /\ ownerOffer[o] \in OwnerOffer
        /\ [ownerOffer[o] EXCEPT !.status = "ACCEPTED"] \in OwnerOffer
    BY <2>1, RowFields DEF OwnerOffer, OpenOwnerOffer
  <2>3. [tenant |-> UserOf[s], property |-> ownerOffer[o].property,
         request |-> ownerOffer[o].request, agreed |-> FALSE] \in MatchConnection
    BY <2>2, AccountsAssumption DEF OwnerOffer, MatchConnection
  <2>4. MarketTypeOK'
    BY <1>5, <2>1, <2>2, <2>3 DEF AcceptOfferClaim, SetOwnerOffer, Finish,
       MarketTypeOK
  <2>5. CallsNameRows'
    BY <1>5, <2>1, <2>2, NullAssumption DEF AcceptOfferClaim, SetOwnerOffer,
       Finish, MarketTypeOK, CallsNameRows, InCall
  <2> QED BY <2>4, <2>5
<1>7. ASSUME NEW s \in Sessions, AcceptOfferLook(s) PROVE TypeInv'
  <2> DEFINE o == call[s].offer
  <2>1. o \in OwnerOffers /\ ownerOffer[o] # NULL
    BY <1>7, CallFields DEF AcceptOfferLook, InCall, Idle, CallsNameRows
  <2>2. [op |-> "acceptTx", offer |-> o] \in Call
    BY <2>1 DEF Call
  <2>3. MarketTypeOK'
    BY <1>7, <2>2 DEF AcceptOfferLook, MarketTypeOK
  <2>4. CallsNameRows'
    BY <1>7, <2>1 DEF AcceptOfferLook, MarketTypeOK, CallsNameRows, InCall
  <2> QED BY <2>3, <2>4
<1>6. ASSUME NEW s \in Sessions, NEW o \in OwnerOffers, RejectOffer(s, o)
      PROVE  TypeInv'
  <2>1. [ownerOffer[o] EXCEPT !.status = "REJECTED"] \in OwnerOffer
    BY <1>6, RowFields DEF RejectOffer, OwnerOfferIs, OwnerOffer, OpenOwnerOffer
  <2>2. MarketTypeOK'
    BY <1>6, <2>1 DEF RejectOffer, SetOwnerOffer, MarketTypeOK
  <2>3. CallsNameRows'
    BY <1>6, <2>1, NullAssumption DEF RejectOffer, SetOwnerOffer, MarketTypeOK,
       CallsNameRows, InCall
  <2> QED BY <2>2, <2>3
<1> QED
  BY <1>1, <1>2, <1>3, <1>4, <1>5, <1>6, <1>7 DEF OwnerOfferNext

----------------------------------------------------------------------------
(* The offers on listings.                                                 *)

LEMMA TenantOfferType == TypeInv /\ TenantOfferNext => TypeInv'
<1> SUFFICES ASSUME TypeInv, TenantOfferNext PROVE TypeInv'
  OBVIOUS
<1> USE DEF TypeInv, NamesRows, Confirming, ConfirmStage
<1>1. ASSUME NEW s \in Sessions, NEW p \in Properties, CreateRead(s, p)
      PROVE  TypeInv'
  <2>1. [op |-> "create", property |-> p] \in Call
    BY DEF Call
  <2>2. MarketTypeOK'
    BY <1>1, <2>1 DEF CreateRead, Start, MarketTypeOK, listings
  <2>3. CallsNameRows'
    BY <1>1 DEF CreateRead, Start, MarketTypeOK, CallsNameRows, InCall, listings
  <2> QED BY <2>2, <2>3
<1>2. ASSUME NEW s \in Sessions, NEW o \in TenantOffers,
             \/ LandlordDeclineRead(s, o) \/ LandlordCounterRead(s, o)
             \/ TenantWithdrawRead(s, o)
      PROVE  TypeInv'
  <2>1. /\ [op |-> "landlordDecline", offer |-> o] \in Call
        /\ [op |-> "landlordCounter", offer |-> o] \in Call
        /\ [op |-> "tenantWithdraw", offer |-> o] \in Call
    BY DEF Call
  <2>2. MarketTypeOK'
    BY <1>2, <2>1 DEF LandlordDeclineRead, LandlordCounterRead,
       TenantWithdrawRead, Start, MarketTypeOK, listings
  <2>3. CallsNameRows'
    BY <1>2 DEF LandlordDeclineRead, LandlordCounterRead, TenantWithdrawRead,
       TenantOfferIs, Start, MarketTypeOK, CallsNameRows, InCall, listings
  <2> QED BY <2>2, <2>3
<1>3. ASSUME NEW s \in Sessions, NEW o \in TenantOffers,
             LandlordAccept(s, o) \/ TenantAccept(s, o)
      PROVE  TypeInv'
  <2>1. tenantOffer[o] # NULL
    BY <1>3 DEF LandlordAccept, TenantAccept, TenantOfferIs
  <2>2. PICK price \in Prices : StartSettlement(s, o, price)
    BY <1>3, <2>1, RowFields DEF LandlordAccept, TenantAccept, PriceOnTheTable,
       TenantOffer
  <2>3. [op |-> "settleAsMatch", offer |-> o, price |-> price] \in Call
    BY DEF Call
  <2>4. MarketTypeOK'
    BY <2>2, <2>3 DEF StartSettlement, Start, MarketTypeOK, listings
  <2>5. CallsNameRows'
    BY <2>1, <2>2 DEF StartSettlement, Start, MarketTypeOK, CallsNameRows,
       InCall, listings
  <2> QED BY <2>4, <2>5
<1>4. ASSUME NEW s \in Sessions, CreateWrite(s) PROVE TypeInv'
  <2>1. call[s].property \in Properties
    BY <1>4, CallFields DEF CreateWrite, InCall, Idle
  <2>2. PICK o \in TenantOffers, price \in Prices :
            tenantOffer' = [tenantOffer EXCEPT ![o] =
                [tenant |-> UserOf[s], property |-> call[s].property,
                 status |-> "PENDING", proposedPrice |-> price,
                 counterPrice |-> NULL]]
    BY <1>4 DEF CreateWrite
  <2>3. [tenant |-> UserOf[s], property |-> call[s].property,
         status |-> "PENDING", proposedPrice |-> price,
         counterPrice |-> NULL] \in TenantOffer
    BY <2>1, AccountsAssumption DEF TenantOffer, OpenTenantOffer
  <2>4. MarketTypeOK'
    BY <1>4, <2>2, <2>3 DEF CreateWrite, Finish, MarketTypeOK, listings
  <2>5. CallsNameRows'
    BY <1>4, <2>2, <2>3, NullAssumption DEF CreateWrite, Finish, MarketTypeOK,
       CallsNameRows, InCall, listings
  <2> QED BY <2>4, <2>5
<1>5. ASSUME NEW s \in Sessions, NEW status \in {"DECLINED", "WITHDRAWN"},
             \/ LandlordDeclineWrite(s) /\ status = "DECLINED"
             \/ TenantWithdrawWrite(s) /\ status = "WITHDRAWN"
      PROVE  TypeInv'
  <2> DEFINE o == call[s].offer
  <2>1. o \in TenantOffers /\ tenantOffer[o] # NULL
    BY <1>5, CallFields DEF LandlordDeclineWrite, TenantWithdrawWrite, InCall,
       Idle, CallsNameRows
  <2>2. [tenantOffer[o] EXCEPT !.status = status] \in TenantOffer
    BY <2>1, RowFields DEF TenantOffer, OpenTenantOffer
  <2>3. MarketTypeOK'
    BY <1>5, <2>1, <2>2 DEF LandlordDeclineWrite, TenantWithdrawWrite,
       SetTenantOffer, Finish, MarketTypeOK, listings
  <2>4. tenantOffer' =
            [tenantOffer EXCEPT ![o] = [tenantOffer[o] EXCEPT !.status = status]]
    BY <1>5, <2>1 DEF LandlordDeclineWrite, TenantWithdrawWrite, SetTenantOffer,
       MarketTypeOK
  <2>5. [tenantOffer[o] EXCEPT !.status = status] # NULL
    BY <2>2, NullAssumption
  <2>6. ASSUME NEW q \in TenantOffers, tenantOffer[q] # NULL
        PROVE  tenantOffer'[q] # NULL
    BY <2>1, <2>4, <2>5, <2>6 DEF MarketTypeOK
  <2>7. CallsNameRows'
    BY <1>5, <2>6, CallFields DEF LandlordDeclineWrite, TenantWithdrawWrite,
       Finish, MarketTypeOK, CallsNameRows, InCall, Idle, listings
  <2> QED BY <2>3, <2>7
<1>6. ASSUME NEW s \in Sessions, LandlordCounterWrite(s) PROVE TypeInv'
  <2> DEFINE o == call[s].offer
  <2>1. o \in TenantOffers /\ tenantOffer[o] # NULL
    BY <1>6, CallFields DEF LandlordCounterWrite, InCall, Idle, CallsNameRows
  <2>2. PICK price \in Prices :
            tenantOffer' = [tenantOffer EXCEPT ![o] =
                [@ EXCEPT !.status = "COUNTERED", !.counterPrice = price]]
    BY <1>6 DEF LandlordCounterWrite
  <2>3. [tenantOffer[o] EXCEPT !.status = "COUNTERED", !.counterPrice = price]
            \in TenantOffer
    BY <2>1, RowFields DEF TenantOffer, OpenTenantOffer
  <2>4. tenantOffer' \in [TenantOffers -> TenantOffer \cup {NULL}]
    BY <2>1, <2>2, <2>3 DEF MarketTypeOK
  <2>5. MarketTypeOK'
    BY <1>6, <2>4 DEF LandlordCounterWrite, Finish, MarketTypeOK, listings
  <2>6. [tenantOffer[o] EXCEPT !.status = "COUNTERED", !.counterPrice = price]
            # NULL
    BY <2>3, NullAssumption
  <2>7. ASSUME NEW q \in TenantOffers, tenantOffer[q] # NULL
        PROVE  tenantOffer'[q] # NULL
    BY <2>1, <2>2, <2>6, <2>7 DEF MarketTypeOK
  <2>8. CallsNameRows'
    BY <1>6, <2>7, CallFields DEF LandlordCounterWrite, Finish,
       MarketTypeOK, CallsNameRows, InCall, Idle, listings
  <2> QED BY <2>5, <2>8
<1>7. ASSUME NEW s \in Sessions, SettleClaim(s) PROVE TypeInv'
  <2> DEFINE o == call[s].offer
  <2>1. /\ o \in TenantOffers /\ tenantOffer[o] # NULL
        /\ call[s].price \in Prices
    BY <1>7, CallFields DEF SettleClaim, InCall, Idle, CallsNameRows
  <2>2. PICK found \in Connections \cup {NULL} :
            call' = [call EXCEPT ![s] =
                [op |-> "settleTx", offer |-> o, price |-> call[s].price,
                 existing |-> found]]
    BY <1>7 DEF SettleClaim
  <2>3. [op |-> "settleTx", offer |-> o, price |-> call[s].price,
         existing |-> found] \in Call
    BY <2>1 DEF Call
  <2>4. MarketTypeOK'
    BY <1>7, <2>2, <2>3 DEF SettleClaim, MarketTypeOK, listings
  <2>5. CallsNameRows'
    BY <1>7, <2>1, <2>2 DEF SettleClaim, MarketTypeOK, CallsNameRows, InCall,
       listings
  <2> QED BY <2>4, <2>5
<1>8. ASSUME NEW s \in Sessions, SettleCommit(s) PROVE TypeInv'
  <2> DEFINE o == call[s].offer
  <2>1. /\ o \in TenantOffers /\ tenantOffer[o] # NULL
        /\ call[s].price \in Prices
    BY <1>8, CallFields DEF SettleCommit, InCall, Idle, CallsNameRows
  <2>2. /\ tenantOffer[o] \in TenantOffer
        /\ [tenantOffer[o] EXCEPT !.status = "ACCEPTED"] \in TenantOffer
    BY <2>1, RowFields DEF TenantOffer, OpenTenantOffer
  <2>3. [tenant |-> tenantOffer[o].tenant, property |-> tenantOffer[o].property,
         request |-> NULL, agreed |-> FALSE] \in MatchConnection
    BY <2>2 DEF TenantOffer, MatchConnection
  <2>4. connection' \in [Connections -> MatchConnection \cup {NULL}]
    BY <1>8, <2>3 DEF SettleCommit, MarketTypeOK
  <2>5. MarketTypeOK'
    BY <1>8, <2>1, <2>2, <2>4 DEF SettleCommit, SetTenantOffer, Finish,
       MarketTypeOK, listings
  <2>6. \A c \in Connections : connection[c] # NULL => connection'[c] # NULL
    BY <1>8, <2>3, NullAssumption DEF SettleCommit, MarketTypeOK
  <2>7. \A q \in TenantOffers : tenantOffer[q] # NULL => tenantOffer'[q] # NULL
    BY <1>8, <2>2, NullAssumption DEF SettleCommit, SetTenantOffer, MarketTypeOK
  <2>8. ASSUME NEW u \in Sessions PROVE NamesRows(u)'
    <3>1. /\ call'[u] = NULL \/ call'[u] = call[u]
          /\ ownerOffer' = ownerOffer
      BY <1>8 DEF SettleCommit, Finish, MarketTypeOK, listings
    <3>2. CASE call'[u] = NULL
      BY <3>2 DEF InCall
    <3>3. CASE call'[u] = call[u] /\ call[u] # NULL
      BY <2>6, <2>7, <3>1, <3>3, CallFields DEF CallsNameRows, InCall, Idle
    <3> QED BY <3>1, <3>2, <3>3
  <2> QED BY <2>5, <2>8 DEF CallsNameRows
<1> QED
  BY <1>1, <1>2, <1>3, <1>4, <1>5, <1>6, <1>7, <1>8 DEF TenantOfferNext

----------------------------------------------------------------------------
(* Closing the deal, and the types of every reachable state.               *)

LEMMA ClaimType ==
    ASSUME TypeInv, NEW s \in Sessions, NEW c \in Connections, ConfirmClaim(s, c)
    PROVE  TypeInv'
<1> DEFINE stage == IF connection[c].request = NULL
                    THEN "sweepProperty" ELSE "sweepRequest"
<1>1. [op |-> stage, match |-> c, rejected |-> {}, declined |-> {}] \in Call
  BY DEF Call, ConfirmStage
<1>2. MarketTypeOK'
  BY <1>1 DEF ConfirmClaim, Start, TypeInv, MarketTypeOK, offersAndConnections
<1>3. CallsNameRows'
  BY DEF ConfirmClaim, Existing, Start, TypeInv, MarketTypeOK, CallsNameRows, NamesRows,
     Confirming, ConfirmStage, InCall, offersAndConnections
<1> QED
  BY <1>2, <1>3 DEF TypeInv

\* A statement of the transaction that finds open offers.
LEMMA SweepType ==
    ASSUME TypeInv, NEW s \in Sessions, Confirming(s),
           NEW next \in ConfirmStage,
           NEW pitches \in SUBSET OwnerOffers, NEW offers \in SUBSET TenantOffers,
           \A o \in pitches : ownerOffer[o] # NULL,
           \A o \in offers : tenantOffer[o] # NULL,
           Sweep(s, next, pitches, offers)
    PROVE  TypeInv'
<1> DEFINE new == [op |-> next, match |-> call[s].match,
                   rejected |-> call[s].rejected \cup pitches,
                   declined |-> call[s].declined \cup offers]
<1>1. /\ call[s].match \in Connections
      /\ call[s].rejected \in SUBSET OwnerOffers
      /\ call[s].declined \in SUBSET TenantOffers
  BY CallFields DEF Confirming, Idle, TypeInv
<1>2. new \in Call
  BY <1>1 DEF Call
<1>3. /\ call' = [call EXCEPT ![s] = new]
      /\ UNCHANGED <<request, property, ownerOffer, tenantOffer, connection, told>>
  BY DEF Sweep, offersAndConnections
<1>4. MarketTypeOK'
  BY <1>2, <1>3 DEF TypeInv, MarketTypeOK
<1>5. CallsNameRows'
  <2> SUFFICES ASSUME NEW u \in Sessions
               PROVE  NamesRows(u)'
    BY DEF CallsNameRows, NamesRows
  <2>1. CASE u # s
    BY <1>3, <2>1 DEF TypeInv, MarketTypeOK, CallsNameRows, NamesRows, Confirming, InCall
  <2>2. CASE u = s
    BY <1>3, <2>2 DEF TypeInv, MarketTypeOK, CallsNameRows, NamesRows, Confirming,
       ConfirmStage, InCall
  <2> QED BY <2>1, <2>2
<1> QED
  BY <1>4, <1>5 DEF TypeInv

LEMMA SweepsType ==
    ASSUME TypeInv, NEW s \in Sessions,
           SweepRequest(s) \/ SweepProperty(s) \/ SweepOffers(s)
    PROVE  TypeInv'
<1>1. CASE SweepRequest(s)
  BY <1>1, SweepType DEF SweepRequest, InCall, Confirming, ConfirmStage,
     OwnerOfferIs
<1>2. CASE SweepProperty(s)
  BY <1>2, SweepType DEF SweepProperty, InCall, Confirming, ConfirmStage,
     OwnerOfferIs
<1>3. CASE SweepOffers(s)
  BY <1>3, SweepType DEF SweepOffers, InCall, Confirming, ConfirmStage,
     TenantOfferIs
<1> QED
  BY <1>1, <1>2, <1>3

LEMMA CommitType ==
    ASSUME TypeInv, NEW s \in Sessions, ConfirmCommit(s)
    PROVE  TypeInv'
<1> USE DEF TypeInv, NamesRows, Confirming, ConfirmStage
<1> DEFINE c == call[s].match
<1>0. /\ c \in Connections /\ connection[c] # NULL
      /\ \A o \in call[s].rejected : o \in OwnerOffers /\ ownerOffer[o] # NULL
      /\ \A o \in call[s].declined : o \in TenantOffers /\ tenantOffer[o] # NULL
  BY CallFields DEF ConfirmCommit, InCall, Idle, Confirming, ConfirmStage,
     CallsNameRows
<1>1. connection[c] \in MatchConnection
  BY <1>0, RowFields
<1>2. connection' \in [Connections -> MatchConnection \cup {NULL}]
  <2>1. [connection[c] EXCEPT !.agreed = TRUE] \in MatchConnection
    BY <1>1 DEF MatchConnection
  <2> QED BY <1>0, <2>1 DEF ConfirmCommit, MarketTypeOK
<1>3. request' \in [Requests -> RequestStatus]
  BY DEF ConfirmCommit, SetRequest, MarketTypeOK, RequestStatus
<1>4. property' \in [Properties -> PropertyStatus]
  BY DEF ConfirmCommit, SetProperty, MarketTypeOK, PropertyStatus
<1>5. ASSUME NEW o \in OwnerOffers
      PROVE  /\ ownerOffer'[o] \in OwnerOffer \cup {NULL}
             /\ ownerOffer[o] # NULL => ownerOffer'[o] # NULL
  <2>1. CASE o \in call[s].rejected
    <3>1. ownerOffer[o] \in OwnerOffer
      BY <1>0, <2>1, RowFields
    <3>2. ownerOffer'[o] = [ownerOffer[o] EXCEPT !.status = "REJECTED"]
      BY <2>1 DEF ConfirmCommit
    <3>3. ownerOffer'[o] \in OwnerOffer
      BY <3>1, <3>2 DEF OwnerOffer, OpenOwnerOffer
    <3> QED BY <3>3, NullAssumption
  <2>2. CASE o \notin call[s].rejected
    BY <2>2 DEF ConfirmCommit, MarketTypeOK
  <2> QED BY <2>1, <2>2
<1>6. ASSUME NEW o \in TenantOffers
      PROVE  /\ tenantOffer'[o] \in TenantOffer \cup {NULL}
             /\ tenantOffer[o] # NULL => tenantOffer'[o] # NULL
  <2>1. CASE o \in call[s].declined
    <3>1. tenantOffer[o] \in TenantOffer
      BY <1>0, <2>1, RowFields
    <3>2. tenantOffer'[o] = [tenantOffer[o] EXCEPT !.status = "DECLINED"]
      BY <2>1 DEF ConfirmCommit
    <3>3. tenantOffer'[o] \in TenantOffer
      BY <3>1, <3>2 DEF TenantOffer, OpenTenantOffer
    <3> QED BY <3>3, NullAssumption
  <2>2. CASE o \notin call[s].declined
    BY <2>2 DEF ConfirmCommit, MarketTypeOK
  <2> QED BY <2>1, <2>2
<1>7. MarketTypeOK'
  BY <1>2, <1>3, <1>4, <1>5, <1>6 DEF ConfirmCommit, Finish, MarketTypeOK
<1>8. \A d \in Connections : connection[d] # NULL => connection'[d] # NULL
  BY <1>0, <1>1, <1>2, NullAssumption DEF ConfirmCommit, MarketTypeOK, MatchConnection
<1>9. CallsNameRows'
  <2> SUFFICES ASSUME NEW u \in Sessions
               PROVE  NamesRows(u)'
    BY DEF CallsNameRows
  <2>1. call'[u] = NULL \/ call'[u] = call[u]
    BY DEF ConfirmCommit, Finish, MarketTypeOK
  <2>2. CASE call'[u] = NULL
    BY <2>2 DEF InCall, Confirming
  <2>3. CASE call'[u] = call[u] /\ call[u] # NULL
    BY <1>5, <1>6, <1>8, <2>3, CallFields DEF CallsNameRows, InCall, Confirming, Idle
  <2> QED BY <2>1, <2>2, <2>3
<1> QED
  BY <1>7, <1>9

LEMMA TypeStep == TypeInv /\ [MarketNext]_marketVars => TypeInv'
<1> SUFFICES ASSUME TypeInv, [MarketNext]_marketVars PROVE TypeInv'
  OBVIOUS
<1>1. ASSUME NEW s \in Sessions, Abandon(s) PROVE TypeInv'
  <2>1. MarketTypeOK'
    BY <1>1 DEF Abandon, Finish, TypeInv, MarketTypeOK
  <2>2. CallsNameRows'
    BY <1>1 DEF Abandon, Finish, TypeInv, MarketTypeOK, CallsNameRows, NamesRows, InCall,
       Confirming
  <2> QED BY <2>1, <2>2 DEF TypeInv
<1>2. CASE UNCHANGED marketVars
  BY <1>2 DEF marketVars, TypeInv, MarketTypeOK, CallsNameRows, NamesRows, InCall,
       Confirming
<1> QED
  BY <1>1, <1>2, ListingsType, OwnerOfferType, TenantOfferType, ClaimType, SweepsType,
     CommitType
  DEF MarketNext

LEMMA TypeInit == MarketInit => TypeInv
BY DEF MarketInit, TypeInv, MarketTypeOK, CallsNameRows, NamesRows, InCall,
   Confirming, RequestStatus, PropertyStatus

\* Whatever the interleaving, every row keeps its type: no handler writes a
\* status of another table's enumeration, and no write by id meets an absent
\* row.
THEOREM MarketTypes == MarketSpec => []MarketTypeOK
<1>1. TypeInv => MarketTypeOK
  BY DEF TypeInv
<1> QED
  BY TypeInit, TypeStep, <1>1, PTL DEF MarketSpec

LEMMA TypesHold == MarketSpec => []TypeInv
BY TypeInit, TypeStep, PTL DEF MarketSpec

----------------------------------------------------------------------------
(* What one step can do to the calls in flight and to the rows.            *)

\* A call that a step begins or carries on, by its operation.
LEMMA CallsGoOn ==
    ASSUME TypeInv, [MarketNext]_marketVars, NEW u \in Sessions,
           call'[u] # call[u], call'[u] # NULL
    PROVE  \/ \E r \in Requests, p \in Properties : CreateOfferRead(u, r, p)
           \/ \E o \in OwnerOffers : ViewOfferRead(u, o) \/ AcceptOfferRead(u, o)
           \/ \E o \in TenantOffers :
                  \/ LandlordDeclineRead(u, o) \/ LandlordCounterRead(u, o)
                  \/ TenantWithdrawRead(u, o)
                  \/ LandlordAccept(u, o) \/ TenantAccept(u, o)
           \/ SettleClaim(u)
           \/ AcceptOfferLook(u)
           \/ \E c \in Connections : ConfirmClaim(u, c)
           \/ SweepRequest(u) \/ SweepProperty(u) \/ SweepOffers(u)
           \/ /\ Idle(u)
              /\ call'[u].op \in {"reviewRequest", "reviewProperty", "update", "create"}
<1>1. call \in [Sessions -> Call \cup {NULL}]
  BY DEF TypeInv, MarketTypeOK
<1>2. ASSUME NEW s \in Sessions, Finish(s) PROVE FALSE
  BY <1>1, <1>2 DEF Finish
<1>3. ASSUME NEW s \in Sessions, NEW c, Start(s, c) PROVE s = u /\ Idle(u) /\ call'[u] = c
  BY <1>1, <1>3 DEF Start
<1>4. CASE ListingsNext
  <2>1. ASSUME NEW s \in Sessions, NEW r \in Requests, ReviewRequestRead(s, r)
        PROVE  Idle(u) /\ call'[u].op = "reviewRequest"
    BY <2>1, <1>3 DEF ReviewRequestRead
  <2>2. ASSUME NEW s \in Sessions, NEW p \in Properties,
               UpdatePropertyRead(s, p) \/ ReviewPropertyRead(s, p)
        PROVE  Idle(u) /\ call'[u].op \in {"update", "reviewProperty"}
    BY <2>2, <1>3 DEF UpdatePropertyRead, ReviewPropertyRead
  <2> QED
    BY <1>2, <1>4, <2>1, <2>2 DEF ListingsNext, CreateRequest, CloseRequest,
       ReviewRequestWrite, CreateProperty, ArchiveProperty, RemoveProperty,
       UnarchiveProperty, UpdatePropertyWrite, ReviewPropertyWrite, DeleteAccount
<1>5. CASE OwnerOfferNext
  <2>1. ASSUME NEW s \in Sessions, NEW r \in Requests, NEW p \in Properties,
               CreateOfferRead(s, r, p)
        PROVE  s = u
    BY <2>1, <1>3 DEF CreateOfferRead
  <2>2. ASSUME NEW s \in Sessions, NEW o \in OwnerOffers,
               ViewOfferRead(s, o) \/ AcceptOfferRead(s, o)
        PROVE  s = u
    BY <2>2, <1>3 DEF ViewOfferRead, AcceptOfferRead
  <2> QED
    BY <1>1, <1>2, <1>5, <2>1, <2>2 DEF OwnerOfferNext, CreateOfferWrite,
       ViewOfferWrite, AcceptOfferLook, AcceptOfferClaim, RejectOffer
<1>6. CASE TenantOfferNext
  <2>1. ASSUME NEW s \in Sessions, NEW p \in Properties, CreateRead(s, p)
        PROVE  Idle(u) /\ call'[u].op = "create"
    BY <2>1, <1>3 DEF CreateRead
  <2>2. ASSUME NEW s \in Sessions, NEW o \in TenantOffers,
               \/ LandlordDeclineRead(s, o) \/ LandlordCounterRead(s, o)
               \/ TenantWithdrawRead(s, o)
               \/ LandlordAccept(s, o) \/ TenantAccept(s, o)
        PROVE  s = u
    BY <2>2, <1>3 DEF LandlordDeclineRead, LandlordCounterRead,
       TenantWithdrawRead, LandlordAccept, TenantAccept, StartSettlement
  <2>3. ASSUME NEW s \in Sessions, SettleClaim(s) PROVE s = u
    BY <1>1, <2>3 DEF SettleClaim
  <2> QED
    BY <1>2, <1>6, <2>1, <2>2, <2>3 DEF TenantOfferNext, CreateWrite,
       LandlordDeclineWrite, LandlordCounterWrite, TenantWithdrawWrite,
       SettleCommit
<1>7. ASSUME NEW s \in Sessions, NEW c \in Connections, ConfirmClaim(s, c)
      PROVE  s = u
  BY <1>3, <1>7 DEF ConfirmClaim
<1>8. ASSUME NEW s \in Sessions, SweepRequest(s) \/ SweepProperty(s) \/ SweepOffers(s)
      PROVE  s = u
  BY <1>1, <1>8 DEF SweepRequest, SweepProperty, SweepOffers, Sweep
<1> QED
  BY <1>2, <1>4, <1>5, <1>6, <1>7, <1>8
  DEF MarketNext, marketVars, ConfirmCommit, Abandon

\* A call that a step ends.
LEMMA CallsEnd ==
    ASSUME TypeInv, [MarketNext]_marketVars, NEW u \in Sessions,
           call[u] # NULL, call'[u] = NULL
    PROVE  \/ ReviewRequestWrite(u) \/ UpdatePropertyWrite(u) \/ ReviewPropertyWrite(u)
           \/ CreateOfferWrite(u) \/ ViewOfferWrite(u) \/ AcceptOfferClaim(u)
           \/ CreateWrite(u) \/ LandlordDeclineWrite(u) \/ LandlordCounterWrite(u)
           \/ TenantWithdrawWrite(u) \/ SettleCommit(u)
           \/ ConfirmCommit(u) \/ Abandon(u)
<1>1. call \in [Sessions -> Call \cup {NULL}]
  BY DEF TypeInv, MarketTypeOK
<1>2. ASSUME NEW s \in Sessions, Finish(s) PROVE s = u
  BY <1>1, <1>2 DEF Finish
<1>3. ASSUME NEW s \in Sessions, NEW c, Start(s, c) PROVE FALSE
  BY <1>1, <1>3 DEF Start, Idle
<1>4. ASSUME NEW s \in Sessions, NEW c \in Call, call' = [call EXCEPT ![s] = c]
      PROVE  FALSE
  BY <1>1, <1>4, NullAssumption
<1>5. CASE ListingsNext
  BY <1>2, <1>3, <1>5 DEF ListingsNext, CreateRequest, CloseRequest, ReviewRequestRead,
     ReviewRequestWrite, CreateProperty, ArchiveProperty, RemoveProperty,
     UnarchiveProperty, UpdatePropertyRead, UpdatePropertyWrite, ReviewPropertyRead,
     ReviewPropertyWrite, DeleteAccount
<1>6. CASE OwnerOfferNext
  <2>1. ASSUME NEW s \in Sessions, AcceptOfferLook(s) PROVE FALSE
    <3>1. [op |-> "acceptTx", offer |-> call[s].offer] \in Call
      BY <2>1, CallFields DEF AcceptOfferLook, InCall, Idle, TypeInv, Call
    <3> QED BY <2>1, <3>1, <1>4 DEF AcceptOfferLook
  <2> QED
    BY <1>2, <1>3, <1>6, <2>1 DEF OwnerOfferNext, CreateOfferRead, CreateOfferWrite,
       ViewOfferRead, ViewOfferWrite, AcceptOfferRead, AcceptOfferClaim, RejectOffer
<1>7. CASE TenantOfferNext
  <2>1. ASSUME NEW s \in Sessions, SettleClaim(s) PROVE FALSE
    <3>1. PICK found \in Connections \cup {NULL} :
              call' = [call EXCEPT ![s] =
                  [op |-> "settleTx", offer |-> call[s].offer,
                   price |-> call[s].price, existing |-> found]]
      BY <2>1 DEF SettleClaim
    <3>2. [op |-> "settleTx", offer |-> call[s].offer,
           price |-> call[s].price, existing |-> found] \in Call
      BY <2>1, CallFields DEF SettleClaim, InCall, Idle, TypeInv, Call
    <3> QED BY <3>1, <3>2, <1>4
  <2> QED
    BY <1>2, <1>3, <1>7, <2>1 DEF TenantOfferNext, CreateRead, CreateWrite,
       LandlordDeclineRead, LandlordDeclineWrite, LandlordCounterRead,
       LandlordCounterWrite, TenantWithdrawRead, TenantWithdrawWrite, LandlordAccept,
       TenantAccept, StartSettlement, SettleCommit
<1>8. ASSUME NEW s \in Sessions, SweepRequest(s) \/ SweepProperty(s) \/ SweepOffers(s)
      PROVE  FALSE
  <2>1. Confirming(s)
    BY <1>8 DEF SweepRequest, SweepProperty, SweepOffers, InCall, Confirming,
       ConfirmStage
  <2>2. PICK next \in ConfirmStage, pitches \in SUBSET OwnerOffers,
             offers \in SUBSET TenantOffers :
            call' = [call EXCEPT ![s] =
                [op |-> next, match |-> call[s].match,
                 rejected |-> call[s].rejected \cup pitches,
                 declined |-> call[s].declined \cup offers]]
    BY <1>8 DEF SweepRequest, SweepProperty, SweepOffers, Sweep, ConfirmStage
  <2>3. [op |-> next, match |-> call[s].match,
         rejected |-> call[s].rejected \cup pitches,
         declined |-> call[s].declined \cup offers] \in Call
    BY <2>1, CallFields DEF Confirming, Idle, TypeInv, Call
  <2> QED BY <2>2, <2>3, <1>4
<1>9. ASSUME NEW s \in Sessions, NEW c \in Connections, ConfirmClaim(s, c)
      PROVE  FALSE
  BY <1>3, <1>9 DEF ConfirmClaim
<1> QED
  BY <1>2, <1>5, <1>6, <1>7, <1>8, <1>9
  DEF MarketNext, marketVars, ConfirmCommit, Abandon

\* Which steps begin and end the calls about landlords' offers.
LEMMA OfferCallsStep ==
    ASSUME TypeInv, [MarketNext]_marketVars, NEW u \in Sessions, call'[u] # call[u]
    PROVE  /\ InCall(u, "createOffer")' =>
                  \E r \in Requests, p \in Properties : CreateOfferRead(u, r, p)
           /\ InCall(u, "viewOffer")' => \E o \in OwnerOffers : ViewOfferRead(u, o)
           /\ InCall(u, "acceptTx")' => AcceptOfferLook(u)
           /\ InCall(u, "createOffer") => CreateOfferWrite(u) \/ Abandon(u)
           /\ InCall(u, "viewOffer") => ViewOfferWrite(u) \/ Abandon(u)
           /\ InCall(u, "acceptTx") => AcceptOfferClaim(u) \/ Abandon(u)
<1>1. call \in [Sessions -> Call \cup {NULL}]
  BY DEF TypeInv, MarketTypeOK
<1>2. /\ \A r \in Requests, p \in Properties :
             CreateOfferRead(u, r, p) => Idle(u) /\ call'[u].op = "createOffer"
      /\ \A o \in OwnerOffers :
             /\ ViewOfferRead(u, o) => Idle(u) /\ call'[u].op = "viewOffer"
             /\ AcceptOfferRead(u, o) => Idle(u) /\ call'[u].op = "acceptOffer"
      /\ AcceptOfferLook(u) => call[u].op = "acceptOffer" /\ call'[u].op = "acceptTx"
  BY <1>1 DEF CreateOfferRead, ViewOfferRead, AcceptOfferRead, AcceptOfferLook, Start,
     InCall
<1>3. ASSUME \/ \E o \in TenantOffers :
                    \/ LandlordDeclineRead(u, o) \/ LandlordCounterRead(u, o)
                    \/ TenantWithdrawRead(u, o)
                    \/ LandlordAccept(u, o) \/ TenantAccept(u, o)
             \/ SettleClaim(u)
             \/ \E c \in Connections : ConfirmClaim(u, c)
             \/ SweepRequest(u) \/ SweepProperty(u) \/ SweepOffers(u)
      PROVE  /\ call'[u].op \notin {"createOffer", "viewOffer", "acceptTx"}
             /\ call[u] # NULL =>
                    call[u].op \notin {"createOffer", "viewOffer", "acceptTx"}
  BY <1>1, <1>3 DEF LandlordDeclineRead, LandlordCounterRead, TenantWithdrawRead,
     LandlordAccept, TenantAccept, StartSettlement, Start, Idle, SettleClaim,
     ConfirmClaim, SweepRequest, SweepProperty, SweepOffers, Sweep, InCall
<1>4. CASE call'[u] # NULL
  BY <1>2, <1>3, <1>4, CallsGoOn DEF InCall, Idle
<1>5. CASE call'[u] = NULL
  BY <1>5, CallsEnd DEF InCall, ReviewRequestWrite, UpdatePropertyWrite,
     ReviewPropertyWrite, CreateOfferWrite, ViewOfferWrite, AcceptOfferClaim,
     CreateWrite, LandlordDeclineWrite, LandlordCounterWrite, TenantWithdrawWrite,
     SettleCommit, ConfirmCommit
<1> QED
  BY <1>4, <1>5

\* The rows of owner offers: they stay, with their request and property; one
\* action inserts them, one accepts them, two undo an acceptance, and what a
\* confirmation has locked only its commit changes.
LEMMA OwnerOffersStep ==
    ASSUME TypeInv, [MarketNext]_marketVars, NEW o \in OwnerOffers
    PROVE  /\ ownerOffer[o] # NULL =>
                  /\ ownerOffer'[o] # NULL
                  /\ ownerOffer'[o].request = ownerOffer[o].request
                  /\ ownerOffer'[o].property = ownerOffer[o].property
           /\ ownerOffer[o] = NULL /\ ownerOffer'[o] # NULL =>
                  \E s \in Sessions :
                      /\ CreateOfferWrite(s)
                      /\ ownerOffer' = [ownerOffer EXCEPT ![o] =
                             [request |-> call[s].request,
                              property |-> call[s].property, status |-> "SENT"]]
           /\ ~OwnerOfferIs(o, {"ACCEPTED"}) /\ OwnerOfferIs(o, {"ACCEPTED"})' =>
                  \E s \in Sessions : AcceptOfferClaim(s) /\ call[s].offer = o
           /\ OwnerOfferIs(o, {"ACCEPTED"}) /\ ~OwnerOfferIs(o, {"ACCEPTED"})' =>
                  \E s \in Sessions :
                      \/ ViewOfferWrite(s) /\ call[s].offer = o
                      \/ ConfirmCommit(s) /\ o \in call[s].rejected
           /\ ownerOffer[o] # NULL /\ ownerOffer'[o] # ownerOffer[o] /\ PitchLocked(o) =>
                  \E s \in Sessions : ConfirmCommit(s) /\ o \in call[s].rejected
<1>1. /\ ownerOffer \in [OwnerOffers -> OwnerOffer \cup {NULL}]
      /\ ownerOffer' \in [OwnerOffers -> OwnerOffer \cup {NULL}]
  BY TypeStep DEF TypeInv, MarketTypeOK
<1>2. CASE UNCHANGED ownerOffer
  BY <1>2 DEF OwnerOfferIs
<1>3. ASSUME NEW s \in Sessions, CreateOfferWrite(s)
      PROVE  \E new \in OwnerOffers :
                 /\ ownerOffer[new] = NULL
                 /\ ownerOffer' = [ownerOffer EXCEPT ![new] =
                        [request |-> call[s].request,
                         property |-> call[s].property, status |-> "SENT"]]
  BY <1>3 DEF CreateOfferWrite
<1>4. CASE \E s \in Sessions : CreateOfferWrite(s)
  <2>1. PICK s \in Sessions : CreateOfferWrite(s)
    BY <1>4
  <2>2. PICK new \in OwnerOffers :
            /\ ownerOffer[new] = NULL
            /\ ownerOffer' = [ownerOffer EXCEPT ![new] =
                   [request |-> call[s].request,
                    property |-> call[s].property, status |-> "SENT"]]
    BY <2>1, <1>3
  <2>3. CASE o = new
    BY <1>1, <2>1, <2>2, <2>3 DEF OwnerOfferIs
  <2>4. CASE o # new
    BY <1>1, <2>2, <2>4 DEF OwnerOfferIs
  <2> QED BY <2>3, <2>4
<1>5. ASSUME NEW q \in OwnerOffers, ownerOffer[q] # NULL,
             NEW new \in OpenOwnerOffer \cup {"ACCEPTED", "REJECTED"},
             SetOwnerOffer(q, new)
      PROVE  /\ ownerOffer[o] # NULL =>
                  /\ ownerOffer'[o] # NULL
                  /\ ownerOffer'[o].request = ownerOffer[o].request
                  /\ ownerOffer'[o].property = ownerOffer[o].property
             /\ ownerOffer[o] = NULL => ownerOffer'[o] = NULL
             /\ o # q => ownerOffer'[o] = ownerOffer[o]
             /\ o = q => ownerOffer'[o] # NULL /\ ownerOffer'[o].status = new
  <2>1. ownerOffer[q] \in OwnerOffer
    BY <1>1, <1>5
  <2>2. ownerOffer' = [ownerOffer EXCEPT ![q] = [ownerOffer[q] EXCEPT !.status = new]]
    BY <1>1, <1>5 DEF SetOwnerOffer
  <2>3. ownerOffer'[q] = [ownerOffer[q] EXCEPT !.status = new]
    BY <1>1, <2>2
  <2>4. /\ ownerOffer'[q].status = new
        /\ ownerOffer'[q].request = ownerOffer[q].request
        /\ ownerOffer'[q].property = ownerOffer[q].property
    BY <2>1, <2>3 DEF OwnerOffer
  <2>5. ownerOffer'[q] # NULL
    BY <2>1, <2>3, NullAssumption DEF OwnerOffer
  <2>6. o # q => ownerOffer'[o] = ownerOffer[o]
    BY <1>1, <2>2
  <2> QED BY <2>4, <2>5, <2>6, <1>5
<1>6. CASE \E s \in Sessions : ViewOfferWrite(s)
  <2>1. PICK s \in Sessions : ViewOfferWrite(s)
    BY <1>6
  <2>2. call[s].offer \in OwnerOffers /\ ownerOffer[call[s].offer] # NULL
    BY <2>1, CallFields DEF ViewOfferWrite, InCall, Idle, TypeInv, CallsNameRows, NamesRows
  <2>3. SetOwnerOffer(call[s].offer, "VIEWED") /\ ~PitchLocked(call[s].offer)
    BY <2>1 DEF ViewOfferWrite
  <2> QED
    BY <2>1, <2>2, <2>3, <1>5 DEF OwnerOfferIs, OpenOwnerOffer
<1>7. CASE \E s \in Sessions : AcceptOfferClaim(s)
  <2>1. PICK s \in Sessions : AcceptOfferClaim(s)
    BY <1>7
  <2>2. call[s].offer \in OwnerOffers /\ ownerOffer[call[s].offer] # NULL
    BY <2>1, CallFields DEF AcceptOfferClaim, InCall, Idle, TypeInv, CallsNameRows, NamesRows
  <2>3. SetOwnerOffer(call[s].offer, "ACCEPTED") /\ ~PitchLocked(call[s].offer)
    BY <2>1 DEF AcceptOfferClaim
  <2> QED
    BY <2>1, <2>2, <2>3, <1>5 DEF OwnerOfferIs, OpenOwnerOffer
<1>8. CASE \E s \in Sessions, q \in OwnerOffers : RejectOffer(s, q)
  <2>1. PICK s \in Sessions, q \in OwnerOffers : RejectOffer(s, q)
    BY <1>8
  <2>2. /\ SetOwnerOffer(q, "REJECTED") /\ ownerOffer[q] # NULL
        /\ ownerOffer[q].status \in OpenOwnerOffer /\ ~PitchLocked(q)
    BY <2>1 DEF RejectOffer, OwnerOfferIs
  <2> QED
    BY <2>2, <1>5 DEF OwnerOfferIs, OpenOwnerOffer
<1>9. CASE \E s \in Sessions : ConfirmCommit(s)
  <2>1. PICK s \in Sessions : ConfirmCommit(s)
    BY <1>9
  <2>2. ownerOffer'[o] = IF o \in call[s].rejected
                         THEN [ownerOffer[o] EXCEPT !.status = "REJECTED"]
                         ELSE ownerOffer[o]
    BY <2>1 DEF ConfirmCommit
  <2>3. CASE o \in call[s].rejected
    <3>1. ownerOffer[o] \in OwnerOffer /\ ownerOffer[o] # NULL
      BY <2>1, <2>3, CallFields, RowFields DEF ConfirmCommit, InCall, Idle, Confirming,
         ConfirmStage, TypeInv, CallsNameRows, NamesRows
    <3>2. ownerOffer'[o] = [ownerOffer[o] EXCEPT !.status = "REJECTED"]
      BY <2>2, <2>3
    <3>3. ownerOffer'[o] \in OwnerOffer
      BY <3>1, <3>2 DEF OwnerOffer
    <3>4. /\ ownerOffer'[o].request = ownerOffer[o].request
          /\ ownerOffer'[o].property = ownerOffer[o].property
          /\ ownerOffer'[o].status = "REJECTED"
      BY <3>1, <3>2 DEF OwnerOffer
    <3> QED
      BY <2>1, <2>3, <3>1, <3>3, <3>4, NullAssumption DEF OwnerOfferIs
  <2>4. CASE o \notin call[s].rejected
    BY <2>2, <2>4 DEF OwnerOfferIs
  <2> QED BY <2>3, <2>4
<1>10. \/ UNCHANGED ownerOffer
       \/ \E s \in Sessions :
              CreateOfferWrite(s) \/ ViewOfferWrite(s) \/ AcceptOfferClaim(s)
       \/ \E s \in Sessions, q \in OwnerOffers : RejectOffer(s, q)
       \/ \E s \in Sessions : ConfirmCommit(s)
  <2>1. CASE ListingsNext
    BY <2>1 DEF ListingsNext, CreateRequest, CloseRequest, ReviewRequestRead,
       ReviewRequestWrite, CreateProperty, ArchiveProperty, RemoveProperty,
       UnarchiveProperty, UpdatePropertyRead, UpdatePropertyWrite,
       ReviewPropertyRead, ReviewPropertyWrite, DeleteAccount,
       offersAndConnections
  <2>2. CASE OwnerOfferNext
    BY <2>2 DEF OwnerOfferNext, CreateOfferRead, ViewOfferRead, AcceptOfferRead,
       AcceptOfferLook
  <2>3. CASE TenantOfferNext
    BY <2>3 DEF TenantOfferNext, CreateRead, CreateWrite, LandlordDeclineRead,
       LandlordDeclineWrite, LandlordCounterRead, LandlordCounterWrite,
       TenantWithdrawRead, TenantWithdrawWrite, LandlordAccept, TenantAccept,
       StartSettlement, SettleClaim, SettleCommit, listings
  <2> QED
    BY <2>1, <2>2, <2>3 DEF MarketNext, marketVars, ConfirmClaim, SweepRequest,
       SweepProperty, SweepOffers, Sweep, Abandon, offersAndConnections
<1> QED
  BY <1>2, <1>4, <1>6, <1>7, <1>8, <1>9, <1>10

\* The rows of connections: they stay, with everything but `agreed`, which only
\* the commit of its confirmation sets; they are inserted by an acceptance, or
\* by a settlement without a request.
LEMMA ConnectionsStep ==
    ASSUME TypeInv, [MarketNext]_marketVars, NEW c \in Connections
    PROVE  /\ Existing(c) =>
                  /\ Existing(c)'
                  /\ connection'[c].request = connection[c].request
                  /\ connection'[c].property = connection[c].property
                  /\ connection'[c].tenant = connection[c].tenant
           /\ Agreed(c) => Agreed(c)'
           /\ ~Agreed(c) /\ Agreed(c)' =>
                  \E s \in Sessions : ConfirmCommit(s) /\ call[s].match = c
           /\ ~Existing(c) /\ Existing(c)' =>
                  \/ /\ connection'[c].request = NULL
                     /\ \E s \in Sessions : SettleCommit(s)
                  \/ \E s \in Sessions :
                         /\ AcceptOfferClaim(s)
                         /\ connection' = [connection EXCEPT ![c] =
                                [tenant |-> UserOf[s],
                                 property |-> ownerOffer[call[s].offer].property,
                                 request |-> ownerOffer[call[s].offer].request,
                                 agreed |-> FALSE]]
<1>1. /\ connection \in [Connections -> MatchConnection \cup {NULL}]
      /\ connection' \in [Connections -> MatchConnection \cup {NULL}]
  BY TypeStep DEF TypeInv, MarketTypeOK
<1>2. CASE UNCHANGED connection
  BY <1>2 DEF Existing, Agreed
<1>3. CASE \E s \in Sessions : AcceptOfferClaim(s)
  <2>1. PICK s \in Sessions : AcceptOfferClaim(s)
    BY <1>3
  <2>2. PICK new \in Connections :
            /\ connection[new] = NULL
            /\ connection' = [connection EXCEPT ![new] =
                   [tenant |-> UserOf[s],
                    property |-> ownerOffer[call[s].offer].property,
                    request |-> ownerOffer[call[s].offer].request,
                    agreed |-> FALSE]]
    BY <2>1 DEF AcceptOfferClaim
  <2>3. CASE c = new
    BY <1>1, <2>1, <2>2, <2>3 DEF Existing, Agreed
  <2>4. CASE c # new
    BY <1>1, <2>2, <2>4 DEF Existing, Agreed
  <2> QED BY <2>3, <2>4
<1>4. CASE \E s \in Sessions : SettleCommit(s)
  <2>1. PICK s \in Sessions : SettleCommit(s)
    BY <1>4
  <2> DEFINE row == [tenant |-> tenantOffer[call[s].offer].tenant,
                     property |-> tenantOffer[call[s].offer].property,
                     request |-> NULL, agreed |-> FALSE]
  <2>2. CASE \E new \in Connections :
                 /\ connection[new] = NULL
                 /\ connection' = [connection EXCEPT ![new] = row]
    <3>1. PICK new \in Connections :
              /\ connection[new] = NULL
              /\ connection' = [connection EXCEPT ![new] = row]
      BY <2>2
    <3>2. CASE c = new
      BY <1>1, <2>1, <3>1, <3>2 DEF Existing, Agreed
    <3>3. CASE c # new
      BY <1>1, <3>1, <3>3 DEF Existing, Agreed
    <3> QED BY <3>2, <3>3
  <2> QED BY <1>2, <2>1, <2>2 DEF SettleCommit
<1>5. CASE \E s \in Sessions : ConfirmCommit(s)
  <2>1. PICK s \in Sessions : ConfirmCommit(s)
    BY <1>5
  <2> DEFINE d == call[s].match
  <2>2. /\ d \in Connections /\ connection[d] # NULL
        /\ connection' = [connection EXCEPT ![d] = [connection[d] EXCEPT !.agreed = TRUE]]
    BY <1>1, <2>1, CallFields DEF ConfirmCommit, InCall, Idle, Confirming, ConfirmStage,
       TypeInv, CallsNameRows, NamesRows
  <2>3. CASE c = d
    <3>1. /\ connection[c] \in MatchConnection
          /\ connection'[c] = [connection[c] EXCEPT !.agreed = TRUE]
      BY <1>1, <2>2, <2>3
    <3>2. /\ connection'[c] \in MatchConnection
          /\ connection'[c].request = connection[c].request
          /\ connection'[c].property = connection[c].property
          /\ connection'[c].tenant = connection[c].tenant
          /\ connection'[c].agreed
      BY <3>1 DEF MatchConnection
    <3> QED BY <2>1, <2>2, <2>3, <3>2, NullAssumption DEF Existing, Agreed
  <2>4. CASE c # d
    BY <1>1, <2>2, <2>4 DEF Existing, Agreed
  <2> QED BY <2>3, <2>4
<1>6. \/ UNCHANGED connection
      \/ \E s \in Sessions : AcceptOfferClaim(s) \/ SettleCommit(s)
      \/ \E s \in Sessions : ConfirmCommit(s)
  <2>1. CASE ListingsNext
    BY <2>1 DEF ListingsNext, CreateRequest, CloseRequest, ReviewRequestRead,
       ReviewRequestWrite, CreateProperty, ArchiveProperty, RemoveProperty,
       UnarchiveProperty, UpdatePropertyRead, UpdatePropertyWrite,
       ReviewPropertyRead, ReviewPropertyWrite, DeleteAccount,
       offersAndConnections
  <2>2. CASE OwnerOfferNext
    BY <2>2 DEF OwnerOfferNext, CreateOfferRead, CreateOfferWrite,
       ViewOfferRead, ViewOfferWrite, AcceptOfferRead, AcceptOfferLook, RejectOffer
  <2>3. CASE TenantOfferNext
    BY <2>3 DEF TenantOfferNext, CreateRead, CreateWrite, LandlordDeclineRead,
       LandlordDeclineWrite, LandlordCounterRead, LandlordCounterWrite,
       TenantWithdrawRead, TenantWithdrawWrite, LandlordAccept, TenantAccept,
       StartSettlement, SettleClaim, listings
  <2> QED
    BY <2>1, <2>2, <2>3 DEF MarketNext, marketVars, ConfirmClaim, SweepRequest,
       SweepProperty, SweepOffers, Sweep, Abandon, offersAndConnections
<1> QED
  BY <1>2, <1>3, <1>4, <1>5, <1>6

----------------------------------------------------------------------------
(* What a confirmation has claimed waits for its commit, and no two have   *)
(* claimed the same.                                                       *)

\* An approved request that is locked leaves the market only by that commit.
LEMMA LockedRequestsStep ==
    ASSUME TypeInv, [MarketNext]_marketVars, NEW r \in Requests,
           RequestLocked(r), request[r] = "APPROVED", request'[r] # "APPROVED"
    PROVE  \E s \in Sessions :
               ConfirmCommit(s) /\ connection[call[s].match].request = r
<1>1. request \in [Requests -> RequestStatus]
  BY DEF TypeInv, MarketTypeOK
<1>2. ASSUME ListingsNext PROVE FALSE
  <2>1. ASSUME NEW s \in Sessions, NEW q \in Requests,
               CreateRequest(s, q) \/ CloseRequest(s, q) \/ ReviewRequestRead(s, q)
        PROVE  FALSE
    BY <1>1, <2>1 DEF CreateRequest, CloseRequest, ReviewRequestRead, SetRequest
  <2>2. ASSUME NEW s \in Sessions, ReviewRequestWrite(s) PROVE FALSE
    BY <1>1, <2>2 DEF ReviewRequestWrite, SetRequest
  <2>3. ASSUME NEW u \in Users \ Admins, DeleteAccount(u) PROVE FALSE
    BY <1>1, <2>3 DEF DeleteAccount
  <2> QED
    BY <1>2, <2>1, <2>2, <2>3 DEF ListingsNext, CreateProperty, ArchiveProperty,
       RemoveProperty, UnarchiveProperty, UpdatePropertyRead, UpdatePropertyWrite,
       ReviewPropertyRead, ReviewPropertyWrite
<1>3. ASSUME OwnerOfferNext PROVE FALSE
  BY <1>3 DEF OwnerOfferNext, CreateOfferRead, CreateOfferWrite, ViewOfferRead,
     ViewOfferWrite, AcceptOfferRead, AcceptOfferLook, AcceptOfferClaim, RejectOffer
<1>4. ASSUME TenantOfferNext PROVE FALSE
  BY <1>4 DEF TenantOfferNext, CreateRead, CreateWrite, LandlordDeclineRead,
     LandlordDeclineWrite, LandlordCounterRead, LandlordCounterWrite,
     TenantWithdrawRead, TenantWithdrawWrite, LandlordAccept, TenantAccept,
     StartSettlement, SettleClaim, SettleCommit, listings
<1>5. ASSUME NEW s \in Sessions, ConfirmCommit(s)
      PROVE  connection[call[s].match].request = r
  BY <1>1, <1>5 DEF ConfirmCommit, SetRequest
<1> QED
  BY <1>2, <1>3, <1>4, <1>5 DEF MarketNext, marketVars, ConfirmClaim, SweepRequest,
     SweepProperty, SweepOffers, Sweep, Abandon

\* What a confirmation found when it wrote is so until it commits.
FoundUnspoilt(s) ==
    /\ ~Agreed(call[s].match)
    /\ RequestUnsettled(call[s].match)
    /\ \A o \in call[s].rejected : OwnerOfferIs(o, OpenOwnerOffer)

Apart(s, u) ==
    /\ call[s].match # call[u].match
    /\ connection[call[s].match].request # NULL =>
           connection[call[s].match].request # connection[call[u].match].request
    /\ \A o \in call[s].rejected : o \notin call[u].rejected

LockInv ==
    \A s \in Sessions :
        Confirming(s) =>
            /\ FoundUnspoilt(s)
            /\ \A u \in Sessions : Confirming(u) /\ u # s => Apart(s, u)

LEMMA UnspoiltStep ==
    ASSUME TypeInv, LockInv, [MarketNext]_marketVars, NEW s \in Sessions,
           Confirming(s), call'[s] = call[s]
    PROVE  FoundUnspoilt(s)'
<1> DEFINE c == call[s].match
<1>1. /\ c \in Connections /\ connection[c] # NULL /\ connection[c] \in MatchConnection
      /\ \A o \in call[s].rejected : o \in OwnerOffers /\ ownerOffer[o] # NULL
  BY CallFields, RowFields DEF Confirming, Idle, TypeInv, CallsNameRows, NamesRows
<1>2. FoundUnspoilt(s)
  BY DEF LockInv
<1>3. ASSUME NEW u \in Sessions, ConfirmCommit(u)
      PROVE  /\ u # s /\ Confirming(u)
             /\ Apart(s, u) /\ Apart(u, s)
  <2>1. u # s
    BY <1>3 DEF ConfirmCommit, Finish, TypeInv, MarketTypeOK, Confirming
  <2>2. Confirming(u)
    BY <1>3 DEF ConfirmCommit, InCall, Confirming, ConfirmStage
  <2> QED
    BY <2>1, <2>2 DEF LockInv
<1>4. ~Agreed(c)'
  BY <1>1, <1>2, <1>3, ConnectionsStep DEF Apart, FoundUnspoilt
<1>5. RequestUnsettled(c)'
  <2>1. connection'[c].request = connection[c].request
    BY <1>1, ConnectionsStep DEF Existing
  <2>2. SUFFICES ASSUME connection[c].request # NULL
                 PROVE  request'[connection[c].request] = "APPROVED"
    BY <2>1 DEF RequestUnsettled
  <2>3. /\ connection[c].request \in Requests
        /\ RequestLocked(connection[c].request)
        /\ request[connection[c].request] = "APPROVED"
    BY <1>1, <1>2, <2>2 DEF MatchConnection, RequestLocked, FoundUnspoilt,
       RequestUnsettled
  <2> QED
    BY <1>3, <2>2, <2>3, LockedRequestsStep DEF Apart
<1>6. ASSUME NEW o \in call[s].rejected PROVE OwnerOfferIs(o, OpenOwnerOffer)'
  <2>1. PitchLocked(o) /\ OwnerOfferIs(o, OpenOwnerOffer)
    BY <1>2, <1>6 DEF PitchLocked, FoundUnspoilt
  <2>2. ownerOffer'[o] = ownerOffer[o]
    BY <1>1, <1>3, <1>6, <2>1, OwnerOffersStep DEF Apart
  <2> QED
    BY <2>1, <2>2 DEF OwnerOfferIs
<1> QED
  BY <1>4, <1>5, <1>6 DEF FoundUnspoilt

\* A confirmation's claim and its sweeps lock only what nobody has locked.
LEMMA ClaimLocks ==
    ASSUME TypeInv, LockInv, NEW s \in Sessions, NEW c \in Connections,
           ConfirmClaim(s, c)
    PROVE  LockInv'
<1>1. /\ UNCHANGED <<request, ownerOffer, connection>>
      /\ \A u \in Sessions : u # s => call'[u] = call[u]
      /\ call'[s].match = c /\ call'[s].rejected = {}
  BY DEF ConfirmClaim, Start, TypeInv, MarketTypeOK, offersAndConnections
<1>2. FoundUnspoilt(s)'
  BY <1>1 DEF ConfirmClaim, FoundUnspoilt, RequestUnsettled, Agreed, Existing
<1>3. ASSUME NEW u \in Sessions, u # s, Confirming(u)'
      PROVE  /\ Confirming(u) /\ FoundUnspoilt(u)'
             /\ Apart(s, u)' /\ Apart(u, s)'
  <2>1. Confirming(u) /\ call'[u] = call[u]
    BY <1>1, <1>3 DEF Confirming
  <2>2. FoundUnspoilt(u)'
    BY <1>1, <2>1 DEF LockInv, FoundUnspoilt, RequestUnsettled, Agreed, Existing,
       OwnerOfferIs
  <2>3. call[u].match # c
    BY <2>1 DEF ConfirmClaim, MatchLocked
  <2>4. connection[c].request # NULL =>
            connection[c].request # connection[call[u].match].request
    BY <2>1 DEF ConfirmClaim, RequestLocked
  <2> QED
    BY <1>1, <2>1, <2>2, <2>3, <2>4 DEF Apart
<1>4. ASSUME NEW u \in Sessions, NEW v \in Sessions, u # v, u # s, v # s,
             Confirming(u)', Confirming(v)'
      PROVE  Apart(u, v)'
  BY <1>1, <1>3, <1>4 DEF LockInv, Apart
<1> QED
  BY <1>2, <1>3, <1>4 DEF LockInv

LEMMA SweepLocks ==
    ASSUME TypeInv, LockInv, NEW s \in Sessions, Confirming(s),
           NEW next, NEW pitches \in SUBSET OwnerOffers, NEW offers,
           \A o \in pitches : OwnerOfferIs(o, OpenOwnerOffer),
           Sweep(s, next, pitches, offers)
    PROVE  LockInv'
<1>1. /\ UNCHANGED <<request, ownerOffer, connection>>
      /\ \A u \in Sessions : u # s => call'[u] = call[u]
      /\ call'[s].match = call[s].match
      /\ call'[s].rejected = call[s].rejected \cup pitches
  BY DEF Sweep, TypeInv, MarketTypeOK, offersAndConnections
<1>2. FoundUnspoilt(s)'
  BY <1>1 DEF LockInv, FoundUnspoilt, RequestUnsettled, Agreed, Existing, OwnerOfferIs
<1>3. ASSUME NEW u \in Sessions, u # s, Confirming(u)'
      PROVE  /\ Confirming(u) /\ FoundUnspoilt(u)'
             /\ Apart(s, u)' /\ Apart(u, s)'
  <2>1. Confirming(u) /\ call'[u] = call[u]
    BY <1>1, <1>3 DEF Confirming
  <2>2. FoundUnspoilt(u)'
    BY <1>1, <2>1 DEF LockInv, FoundUnspoilt, RequestUnsettled, Agreed, Existing,
       OwnerOfferIs
  <2>3. Apart(s, u) /\ Apart(u, s)
    BY <1>3, <2>1 DEF LockInv
  <2>4. \A o \in call[s].rejected \cup pitches : o \notin call[u].rejected
    BY <2>1, <2>3 DEF Apart, Sweep, PitchLocked
  <2> QED
    BY <1>1, <2>1, <2>2, <2>3, <2>4 DEF Apart
<1>4. ASSUME NEW u \in Sessions, NEW v \in Sessions, u # v, u # s, v # s,
             Confirming(u)', Confirming(v)'
      PROVE  Apart(u, v)'
  BY <1>1, <1>3, <1>4 DEF LockInv, Apart
<1> QED
  BY <1>2, <1>3, <1>4 DEF LockInv

LEMMA LockStep ==
    ASSUME TypeInv, LockInv, [MarketNext]_marketVars
    PROVE  LockInv'
<1>1. ASSUME NEW s \in Sessions, SweepRequest(s) \/ SweepProperty(s) \/ SweepOffers(s)
      PROVE  LockInv'
  <2>1. Confirming(s)
    BY <1>1 DEF SweepRequest, SweepProperty, SweepOffers, InCall, Confirming,
       ConfirmStage
  <2>2. CASE SweepRequest(s)
    BY <2>1, <2>2, SweepLocks DEF SweepRequest
  <2>3. CASE SweepProperty(s)
    BY <2>1, <2>3, SweepLocks DEF SweepProperty
  <2>4. CASE SweepOffers(s)
    BY <2>1, <2>4, SweepLocks DEF SweepOffers
  <2> QED BY <1>1, <2>2, <2>3, <2>4
<1>2. ASSUME \A s \in Sessions : Confirming(s)' => call'[s] = call[s]
      PROVE  LockInv'
  <2> SUFFICES ASSUME NEW s \in Sessions, Confirming(s)'
               PROVE  /\ FoundUnspoilt(s)'
                      /\ \A u \in Sessions : Confirming(u)' /\ u # s => Apart(s, u)'
    BY DEF LockInv
  <2>1. Confirming(s) /\ call'[s] = call[s]
    BY <1>2 DEF Confirming
  <2>2. FoundUnspoilt(s)'
    BY <2>1, UnspoiltStep
  <2>3. ASSUME NEW u \in Sessions, Confirming(u)', u # s PROVE Apart(s, u)'
    <3>1. Confirming(u) /\ call'[u] = call[u]
      BY <1>2, <2>3 DEF Confirming
    <3>2. Apart(s, u)
      BY <2>1, <2>3, <3>1 DEF LockInv
    <3>3. /\ call[s].match \in Connections /\ connection[call[s].match] # NULL
          /\ call[u].match \in Connections /\ connection[call[u].match] # NULL
      BY <2>1, <3>1, CallFields DEF Confirming, Idle, TypeInv, CallsNameRows, NamesRows
    <3>4. /\ connection'[call[s].match].request = connection[call[s].match].request
          /\ connection'[call[u].match].request = connection[call[u].match].request
      BY <3>3, ConnectionsStep DEF Existing
    <3> QED BY <2>1, <3>1, <3>2, <3>4 DEF Apart
  <2> QED BY <2>2, <2>3
<1>3. CASE \E s \in Sessions : Confirming(s)' /\ call'[s] # call[s]
  <2>1. PICK s \in Sessions : Confirming(s)' /\ call'[s] # call[s]
    BY <1>3
  <2>2. /\ call'[s] # NULL
        /\ call'[s].op \in ConfirmStage
    BY <2>1 DEF Confirming
  <2>3. \/ \E c \in Connections : ConfirmClaim(s, c)
        \/ SweepRequest(s) \/ SweepProperty(s) \/ SweepOffers(s)
    BY <2>1, <2>2, CallsGoOn DEF CreateOfferRead, ViewOfferRead, AcceptOfferRead,
       LandlordDeclineRead, LandlordCounterRead, TenantWithdrawRead, LandlordAccept,
       TenantAccept, StartSettlement, Start, SettleClaim, AcceptOfferLook, TypeInv,
       MarketTypeOK, ConfirmStage
  <2> QED BY <1>1, <2>3, ClaimLocks
<1> QED
  BY <1>2, <1>3

LEMMA LockInit == MarketInit => LockInv
BY DEF MarketInit, LockInv, Confirming

LEMMA LocksHold == MarketSpec => [](TypeInv /\ LockInv)
<1>1. MarketInit => TypeInv /\ LockInv
  BY TypeInit, LockInit
<1>2. TypeInv /\ LockInv /\ [MarketNext]_marketVars => (TypeInv /\ LockInv)'
  BY TypeStep, LockStep
<1> QED
  BY <1>1, <1>2, PTL DEF MarketSpec

----------------------------------------------------------------------------
(* A settled request stays off the market when moderation is done from a   *)
(* single session.  (With two, a second admin who read the request while   *)
(* it was PENDING can approve it again after it was agreed.)               *)

OneModerator ==
    \A s, u \in Sessions : UserOf[s] \in Admins /\ UserOf[u] \in Admins => s = u

\* The request of connection c, when the match came from one, is r.
AgreedFor(c, r) == Agreed(c) /\ connection[c].request = r

\* What a moderator is deciding on is on no side of an agreement: it was
\* PENDING when it was read, and only another decision could have moved it
\* to APPROVED, from where it can be agreed.
UndecidedUnderReview ==
    \A s \in Sessions :
        InCall(s, "reviewRequest") =>
            /\ UserOf[s] \in Admins
            /\ request[call[s].request] # "APPROVED"
            /\ \A c \in Connections : ~AgreedFor(c, call[s].request)

SettleInv ==
    /\ SettledRequestsOffMarket
    /\ OneAgreementPerRequest
    /\ UndecidedUnderReview

\* Steps that leave requests, connections and reviews under way alone.
LEMMA SettleFrame ==
    ASSUME SettleInv, UNCHANGED <<request, connection>>,
           \A s \in Sessions :
               InCall(s, "reviewRequest")' =>
                   InCall(s, "reviewRequest") /\ call'[s] = call[s]
    PROVE  SettleInv'
<1>1. SettledRequestsOffMarket' /\ OneAgreementPerRequest'
  BY DEF SettleInv, SettledRequestsOffMarket, OneAgreementPerRequest, Agreed,
     Existing
<1>2. UndecidedUnderReview'
  BY DEF SettleInv, UndecidedUnderReview, AgreedFor, Agreed, Existing
<1> QED
  BY <1>1, <1>2 DEF SettleInv

\* Steps that open a connection that is not agreed.
LEMMA SettleOpen ==
    ASSUME TypeInv, SettleInv, NEW c \in Connections, connection[c] = NULL,
           NEW row \in MatchConnection, row.agreed = FALSE,
           connection' = [connection EXCEPT ![c] = row],
           UNCHANGED request,
           \A s \in Sessions :
               InCall(s, "reviewRequest")' =>
                   InCall(s, "reviewRequest") /\ call'[s] = call[s]
    PROVE  SettleInv'
<1>1. \A d \in Connections :
          Agreed(d)' => Agreed(d) /\ connection'[d] = connection[d]
  BY DEF Agreed, Existing, TypeInv, MarketTypeOK
<1>2. SettledRequestsOffMarket' /\ OneAgreementPerRequest'
  BY <1>1 DEF SettleInv, SettledRequestsOffMarket, OneAgreementPerRequest
<1>3. UndecidedUnderReview'
  BY <1>1 DEF SettleInv, UndecidedUnderReview, AgreedFor
<1> QED
  BY <1>2, <1>3 DEF SettleInv

\* Steps that change one request, but not to APPROVED and not from a
\* settled status to an open one.
LEMMA SettleRequest ==
    ASSUME TypeInv, SettleInv, UNCHANGED <<connection, call>>,
           \A r \in Requests :
               \/ request'[r] = request[r]
               \/ request'[r] \in {"CLOSED", "ARCHIVED"}
               \/ request'[r] = "PENDING" /\ request[r] = "NONE"
    PROVE  SettleInv'
<1>1. SettledRequestsOffMarket'
  <2> SUFFICES ASSUME NEW c \in Connections, Agreed(c),
                      connection[c].request # NULL
               PROVE  request'[connection[c].request]
                          \in {"FULFILLED", "CLOSED", "ARCHIVED"}
    BY DEF SettledRequestsOffMarket, Agreed, Existing
  <2>1. connection[c].request \in Requests
    BY RowFields DEF Agreed, Existing, MatchConnection, TypeInv
  <2> QED BY <2>1 DEF SettleInv, SettledRequestsOffMarket
<1>2. OneAgreementPerRequest'
  BY DEF SettleInv, OneAgreementPerRequest, Agreed, Existing
<1>3. UndecidedUnderReview'
  <2> SUFFICES ASSUME NEW s \in Sessions, InCall(s, "reviewRequest")
               PROVE  request'[call[s].request] # "APPROVED"
    BY DEF SettleInv, UndecidedUnderReview, InCall, AgreedFor, Agreed, Existing
  <2>1. call[s].request \in Requests
    BY CallFields DEF TypeInv, InCall, Idle
  <2> QED BY <2>1 DEF SettleInv, UndecidedUnderReview
<1> QED
  BY <1>1, <1>2, <1>3 DEF SettleInv

LEMMA ReviewReadSettle ==
    ASSUME TypeInv, SettleInv, NEW s \in Sessions, NEW r \in Requests,
           ReviewRequestRead(s, r)
    PROVE  SettleInv'
<1>1. SettledRequestsOffMarket' /\ OneAgreementPerRequest'
  BY DEF SettleInv, SettledRequestsOffMarket, OneAgreementPerRequest, Agreed,
     Existing, ReviewRequestRead, offersAndConnections
<1>2. UndecidedUnderReview'
  <2> SUFFICES ASSUME NEW u \in Sessions, InCall(u, "reviewRequest")'
               PROVE  /\ UserOf[u] \in Admins
                      /\ request'[call'[u].request] # "APPROVED"
                      /\ \A c \in Connections :
                             ~AgreedFor(c, call[u].request)'
    BY DEF UndecidedUnderReview, AgreedFor, Agreed, Existing
  <2>1. UNCHANGED <<request, connection>>
    BY DEF ReviewRequestRead, offersAndConnections
  <2>2. CASE u = s
    <3>1. call'[u].request = r /\ UserOf[u] \in Admins /\ request[r] = "PENDING"
      BY <2>2 DEF ReviewRequestRead, Start, TypeInv, MarketTypeOK
    <3>2. \A c \in Connections : ~AgreedFor(c, r)
      BY <3>1, NullAssumption
      DEF SettleInv, SettledRequestsOffMarket, AgreedFor
    <3> QED BY <2>1, <3>1, <3>2 DEF AgreedFor, Agreed, Existing
  <2>3. CASE u # s
    <3>1. InCall(u, "reviewRequest") /\ call'[u] = call[u]
      BY <2>3 DEF ReviewRequestRead, Start, TypeInv, MarketTypeOK, InCall
    <3> QED
      BY <2>1, <3>1 DEF SettleInv, UndecidedUnderReview, AgreedFor, Agreed,
         Existing
  <2> QED BY <2>2, <2>3
<1> QED
  BY <1>1, <1>2 DEF SettleInv

\* The only step that can put a request back on the market.
LEMMA ReviewWriteSettle ==
    ASSUME OneModerator, TypeInv, SettleInv, NEW s \in Sessions,
           ReviewRequestWrite(s)
    PROVE  SettleInv'
<1> DEFINE r == call[s].request
<1>1. /\ r \in Requests /\ UserOf[s] \in Admins
      /\ \A c \in Connections : ~AgreedFor(c, r)
  BY CallFields DEF ReviewRequestWrite, InCall, Idle, TypeInv, SettleInv,
     UndecidedUnderReview
<1>2. /\ UNCHANGED connection
      /\ \A q \in Requests : q # r => request'[q] = request[q]
  BY DEF ReviewRequestWrite, SetRequest, TypeInv, MarketTypeOK,
     offersAndConnections
<1>3. SettledRequestsOffMarket'
  <2> SUFFICES ASSUME NEW c \in Connections, Agreed(c),
                      connection[c].request # NULL
               PROVE  request'[connection[c].request]
                          \in {"FULFILLED", "CLOSED", "ARCHIVED"}
    BY <1>2 DEF SettledRequestsOffMarket, Agreed, Existing
  <2>1. connection[c].request \in Requests
    BY RowFields DEF Agreed, Existing, MatchConnection, TypeInv
  <2>2. connection[c].request # r
    BY <1>1 DEF AgreedFor
  <2> QED BY <1>2, <2>1, <2>2 DEF SettleInv, SettledRequestsOffMarket
<1>4. OneAgreementPerRequest'
  BY <1>2 DEF SettleInv, OneAgreementPerRequest, Agreed, Existing
<1>5. UndecidedUnderReview'
  <2> SUFFICES ASSUME NEW u \in Sessions, InCall(u, "reviewRequest")'
               PROVE  FALSE
    BY DEF UndecidedUnderReview
  <2>1. u # s
    BY DEF ReviewRequestWrite, Finish, TypeInv, MarketTypeOK, InCall
  <2>2. InCall(u, "reviewRequest")
    BY <2>1 DEF ReviewRequestWrite, Finish, TypeInv, MarketTypeOK, InCall
  <2>3. UserOf[u] \in Admins
    BY <2>2 DEF SettleInv, UndecidedUnderReview
  <2> QED BY <1>1, <2>1, <2>3 DEF OneModerator
<1> QED
  BY <1>3, <1>4, <1>5 DEF SettleInv

\* The statements of a confirmation before its commit.
LEMMA ConfirmingSettle ==
    ASSUME TypeInv, SettleInv, NEW s \in Sessions,
           \/ \E c \in Connections : ConfirmClaim(s, c)
           \/ SweepRequest(s) \/ SweepProperty(s) \/ SweepOffers(s)
    PROVE  SettleInv'
<1>1. CASE \E c \in Connections : ConfirmClaim(s, c)
  BY <1>1, SettleFrame DEF ConfirmClaim, Start, InCall, TypeInv, MarketTypeOK,
     offersAndConnections
<1>2. CASE SweepRequest(s) \/ SweepProperty(s) \/ SweepOffers(s)
  BY <1>2, SettleFrame DEF SweepRequest, SweepProperty, SweepOffers, Sweep, InCall,
     TypeInv, MarketTypeOK, offersAndConnections
<1> QED
  BY <1>1, <1>2

\* The request has stayed APPROVED under the lock: no other match of it can have
\* been agreed in the meantime.
LEMMA CommitSettle ==
    ASSUME TypeInv, LockInv, SettleInv, NEW s \in Sessions, ConfirmCommit(s)
    PROVE  SettleInv'
<1> DEFINE c == call[s].match
           r == connection[c].request
<1>0. Confirming(s)
  BY DEF ConfirmCommit, InCall, Confirming, ConfirmStage
<1>1. c \in Connections /\ Existing(c) /\ connection[c] \in MatchConnection
  BY <1>0, CallFields, RowFields DEF Confirming, Idle, TypeInv, CallsNameRows,
     NamesRows, Existing
<1>2. \A d \in Connections :
          /\ d # c => connection'[d] = connection[d]
          /\ Existing(d)' => Existing(d) /\ connection'[d].request = connection[d].request
          /\ Agreed(d)' => Agreed(d) \/ d = c
  BY <1>1 DEF ConfirmCommit, Existing, Agreed, TypeInv, MarketTypeOK,
     MatchConnection
<1>3. /\ r = NULL => UNCHANGED request
      /\ r # NULL => /\ r \in Requests
                     /\ request[r] = "APPROVED"
                     /\ request' = [request EXCEPT ![r] = "FULFILLED"]
  BY <1>0, <1>1 DEF LockInv, FoundUnspoilt, ConfirmCommit, RequestUnsettled, SetRequest,
     MatchConnection
<1>4. SettledRequestsOffMarket'
  <2> SUFFICES ASSUME NEW d \in Connections, Agreed(d)',
                      connection'[d].request # NULL
               PROVE  request'[connection'[d].request]
                          \in {"FULFILLED", "CLOSED", "ARCHIVED"}
    BY DEF SettledRequestsOffMarket
  <2>1. Existing(d) /\ connection'[d].request = connection[d].request
    BY <1>2 DEF Agreed
  <2>2. connection[d].request \in Requests
    BY <2>1, RowFields DEF Existing, MatchConnection, TypeInv
  <2>3. CASE connection[d].request = r
    BY <1>3, <2>1, <2>2, <2>3 DEF TypeInv, MarketTypeOK
  <2>4. CASE connection[d].request # r
    <3>1. Agreed(d)
      BY <1>2, <2>4
    <3> QED
      BY <1>3, <2>1, <2>2, <2>4, <3>1
      DEF SettleInv, SettledRequestsOffMarket, TypeInv, MarketTypeOK
  <2> QED BY <2>3, <2>4
<1>5. OneAgreementPerRequest'
  <2> SUFFICES ASSUME NEW d \in Connections, NEW e \in Connections,
                      Agreed(d)', Agreed(e)', connection'[d].request # NULL,
                      connection'[d].request = connection'[e].request
               PROVE  d = e
    BY DEF OneAgreementPerRequest
  <2>1. /\ connection'[d].request = connection[d].request
        /\ connection'[e].request = connection[e].request
    BY <1>2 DEF Agreed
  <2>2. CASE Agreed(d) /\ Agreed(e)
    BY <2>1, <2>2 DEF SettleInv, OneAgreementPerRequest
  <2>3. CASE connection[d].request = r /\ r # NULL
    <3>1. ~Agreed(d) /\ ~Agreed(e)
      BY <1>3, <2>1, <2>3 DEF SettleInv, SettledRequestsOffMarket
    <3> QED BY <1>2, <3>1
  <2> QED BY <1>2, <2>1, <2>2, <2>3
<1>6. UndecidedUnderReview'
  <2> SUFFICES ASSUME NEW u \in Sessions, InCall(u, "reviewRequest"),
                      call'[u] = call[u]
               PROVE  /\ UserOf[u] \in Admins
                      /\ request'[call[u].request] # "APPROVED"
                      /\ \A d \in Connections : ~AgreedFor(d, call[u].request)'
    BY DEF UndecidedUnderReview, InCall, ConfirmCommit, Finish, TypeInv, MarketTypeOK
  <2>1. /\ UserOf[u] \in Admins
        /\ request[call[u].request] # "APPROVED"
        /\ \A d \in Connections : ~AgreedFor(d, call[u].request)
    BY DEF SettleInv, UndecidedUnderReview
  <2>2. call[u].request \in Requests
    BY CallFields DEF TypeInv, InCall, Idle
  <2>3. call[u].request # r
    BY <1>3, <2>1, <2>2, NullAssumption
  <2>4. request'[call[u].request] # "APPROVED"
    BY <1>3, <2>1, <2>2, <2>3 DEF TypeInv, MarketTypeOK
  <2>5. ASSUME NEW d \in Connections, Agreed(d)',
               connection'[d].request = call[u].request
        PROVE  FALSE
    BY <1>2, <2>1, <2>3, <2>5 DEF AgreedFor, Agreed
  <2> QED BY <2>1, <2>4, <2>5 DEF AgreedFor
<1> QED
  BY <1>4, <1>5, <1>6 DEF SettleInv

LEMMA ListingsSettle ==
    ASSUME OneModerator, TypeInv, SettleInv, ListingsNext
    PROVE  SettleInv'
<1>1. ASSUME NEW s \in Sessions, NEW r \in Requests,
             CreateRequest(s, r) \/ CloseRequest(s, r)
      PROVE  SettleInv'
  <2>1. /\ UNCHANGED <<connection, call>>
        /\ \A q \in Requests :
               \/ request'[q] = request[q]
               \/ request'[q] \in {"CLOSED", "ARCHIVED"}
               \/ request'[q] = "PENDING" /\ request[q] = "NONE"
    BY <1>1 DEF CreateRequest, CloseRequest, SetRequest, TypeInv, MarketTypeOK,
       offersAndConnections
  <2> QED BY <2>1, SettleRequest
<1>2. ASSUME NEW u \in Users \ Admins, DeleteAccount(u) PROVE SettleInv'
  <2>1. /\ UNCHANGED <<connection, call>>
        /\ \A q \in Requests :
               request'[q] = request[q] \/ request'[q] = "ARCHIVED"
    BY <1>2 DEF DeleteAccount, offersAndConnections
  <2> QED BY <2>1, SettleRequest
<1>3. ASSUME NEW s \in Sessions, NEW p \in Properties,
             \/ CreateProperty(s, p) \/ ArchiveProperty(s, p)
             \/ RemoveProperty(s, p) \/ UnarchiveProperty(s, p)
      PROVE  SettleInv'
  BY <1>3, SettleFrame DEF CreateProperty, ArchiveProperty, RemoveProperty,
     UnarchiveProperty, offersAndConnections, InCall
<1>4. ASSUME NEW s \in Sessions, NEW p \in Properties,
             UpdatePropertyRead(s, p) \/ ReviewPropertyRead(s, p)
      PROVE  SettleInv'
  BY <1>4, SettleFrame DEF UpdatePropertyRead, ReviewPropertyRead, Start,
     offersAndConnections, InCall, TypeInv, MarketTypeOK
<1>5. ASSUME NEW s \in Sessions,
             UpdatePropertyWrite(s) \/ ReviewPropertyWrite(s)
      PROVE  SettleInv'
  BY <1>5, SettleFrame DEF UpdatePropertyWrite, ReviewPropertyWrite, Finish,
     offersAndConnections, InCall, TypeInv, MarketTypeOK
<1> QED
  BY <1>1, <1>2, <1>3, <1>4, <1>5, ReviewReadSettle, ReviewWriteSettle
  DEF ListingsNext

LEMMA OwnerOfferSettle ==
    ASSUME TypeInv, SettleInv, OwnerOfferNext
    PROVE  SettleInv'
<1>1. ASSUME NEW s \in Sessions, NEW r \in Requests, NEW p \in Properties,
             CreateOfferRead(s, r, p)
      PROVE  SettleInv'
  BY <1>1, SettleFrame DEF CreateOfferRead, Start, InCall, TypeInv, MarketTypeOK
<1>2. ASSUME NEW s \in Sessions, NEW o \in OwnerOffers,
             ViewOfferRead(s, o) \/ AcceptOfferRead(s, o) \/ RejectOffer(s, o)
      PROVE  SettleInv'
  BY <1>2, SettleFrame DEF ViewOfferRead, AcceptOfferRead, RejectOffer, Start,
     InCall, TypeInv, MarketTypeOK
<1>3. ASSUME NEW s \in Sessions, CreateOfferWrite(s) \/ ViewOfferWrite(s)
      PROVE  SettleInv'
  BY <1>3, SettleFrame DEF CreateOfferWrite, ViewOfferWrite, Finish, InCall,
     TypeInv, MarketTypeOK
<1>4. ASSUME NEW s \in Sessions, AcceptOfferClaim(s) PROVE SettleInv'
  <2> DEFINE o == call[s].offer
             row == [tenant |-> UserOf[s], property |-> ownerOffer[o].property,
                     request |-> ownerOffer[o].request, agreed |-> FALSE]
  <2>1. ownerOffer[o] \in OwnerOffer
    BY <1>4, CallFields, RowFields
    DEF AcceptOfferClaim, InCall, Idle, TypeInv, CallsNameRows, NamesRows
  <2>2. row \in MatchConnection /\ row.agreed = FALSE
    BY <2>1, AccountsAssumption DEF OwnerOffer, MatchConnection
  <2>3. PICK c \in Connections :
            /\ connection[c] = NULL
            /\ connection' = [connection EXCEPT ![c] = row]
    BY <1>4 DEF AcceptOfferClaim
  <2>4. /\ UNCHANGED request
        /\ \A u \in Sessions : InCall(u, "reviewRequest")' =>
               InCall(u, "reviewRequest") /\ call'[u] = call[u]
    BY <1>4 DEF AcceptOfferClaim, Finish, InCall, TypeInv, MarketTypeOK
  <2> QED BY <2>2, <2>3, <2>4, SettleOpen
<1>5. ASSUME NEW s \in Sessions, AcceptOfferLook(s) PROVE SettleInv'
  BY <1>5, SettleFrame DEF AcceptOfferLook, InCall, TypeInv, MarketTypeOK
<1> QED
  BY <1>1, <1>2, <1>3, <1>4, <1>5 DEF OwnerOfferNext

LEMMA TenantOfferSettle ==
    ASSUME TypeInv, SettleInv, TenantOfferNext
    PROVE  SettleInv'
<1>1. ASSUME NEW s \in Sessions, NEW p \in Properties, CreateRead(s, p)
      PROVE  SettleInv'
  BY <1>1, SettleFrame DEF CreateRead, Start, InCall, listings, TypeInv,
     MarketTypeOK
<1>2. ASSUME NEW s \in Sessions, NEW o \in TenantOffers,
             \/ LandlordDeclineRead(s, o) \/ LandlordCounterRead(s, o)
             \/ TenantWithdrawRead(s, o) \/ LandlordAccept(s, o)
             \/ TenantAccept(s, o)
      PROVE  SettleInv'
  BY <1>2, SettleFrame DEF LandlordDeclineRead, LandlordCounterRead,
     TenantWithdrawRead, LandlordAccept, TenantAccept, StartSettlement, Start,
     InCall, listings, TypeInv, MarketTypeOK
<1>3. ASSUME NEW s \in Sessions,
             \/ CreateWrite(s) \/ LandlordDeclineWrite(s)
             \/ LandlordCounterWrite(s) \/ TenantWithdrawWrite(s)
      PROVE  SettleInv'
  BY <1>3, SettleFrame DEF CreateWrite, LandlordDeclineWrite,
     LandlordCounterWrite, TenantWithdrawWrite, Finish, InCall, listings,
     TypeInv, MarketTypeOK
<1>4. ASSUME NEW s \in Sessions, SettleClaim(s) PROVE SettleInv'
  BY <1>4, SettleFrame DEF SettleClaim, InCall, listings, TypeInv, MarketTypeOK
<1>5. ASSUME NEW s \in Sessions, SettleCommit(s) PROVE SettleInv'
  <2> DEFINE o == call[s].offer
             row == [tenant |-> tenantOffer[o].tenant,
                     property |-> tenantOffer[o].property,
                     request |-> NULL, agreed |-> FALSE]
  <2>1. tenantOffer[o] \in TenantOffer
    BY <1>5, CallFields, RowFields
    DEF SettleCommit, InCall, Idle, TypeInv, CallsNameRows, NamesRows
  <2>2. row \in MatchConnection /\ row.agreed = FALSE
    BY <2>1 DEF TenantOffer, MatchConnection
  <2>3. /\ UNCHANGED request
        /\ \A u \in Sessions : InCall(u, "reviewRequest")' =>
               InCall(u, "reviewRequest") /\ call'[u] = call[u]
    BY <1>5 DEF SettleCommit, Finish, InCall, listings, TypeInv, MarketTypeOK
  <2>4. CASE UNCHANGED connection
    BY <2>3, <2>4, SettleFrame
  <2>5. CASE \E c \in Connections :
                 /\ connection[c] = NULL
                 /\ connection' = [connection EXCEPT ![c] = row]
    BY <2>2, <2>3, <2>5, SettleOpen
  <2> QED BY <1>5, <2>4, <2>5 DEF SettleCommit
<1> QED
  BY <1>1, <1>2, <1>3, <1>4, <1>5 DEF TenantOfferNext

LEMMA SettleStep ==
    ASSUME OneModerator, TypeInv, LockInv, SettleInv, [MarketNext]_marketVars
    PROVE  SettleInv'
<1>1. ASSUME NEW s \in Sessions, Abandon(s) PROVE SettleInv'
  BY <1>1, SettleFrame DEF Abandon, Finish, InCall, TypeInv, MarketTypeOK
<1>2. CASE UNCHANGED marketVars
  BY <1>2, SettleFrame DEF marketVars, InCall
<1> QED
  BY <1>1, <1>2, ListingsSettle, OwnerOfferSettle, TenantOfferSettle,
     ConfirmingSettle, CommitSettle DEF MarketNext

LEMMA SettleInit == MarketInit => SettleInv
BY DEF MarketInit, SettleInv, SettledRequestsOffMarket, OneAgreementPerRequest,
   UndecidedUnderReview, InCall, Agreed, Existing

LEMMA SettleHolds ==
    ASSUME OneModerator
    PROVE  MarketSpec => []SettleInv
<1>1. TypeInv /\ LockInv /\ SettleInv /\ [MarketNext]_marketVars => SettleInv'
  BY SettleStep
<1> QED
  BY SettleInit, <1>1, LocksHold, PTL DEF MarketSpec

\* With one moderating session, a request that was agreed is never offered
\* on the market again, for any number of tenants, tabs, landlords and offers.
THEOREM SettledStaysSettled ==
    ASSUME OneModerator
    PROVE  MarketSpec => []SettledRequestsOffMarket
<1>1. SettleInv => SettledRequestsOffMarket
  BY DEF SettleInv
<1> QED
  BY SettleHolds, <1>1, PTL

\* ... and a tenant agrees to at most one match per request.
THEOREM AgreementsAreUnique ==
    ASSUME OneModerator
    PROVE  MarketSpec => []OneAgreementPerRequest
<1>1. SettleInv => OneAgreementPerRequest
  BY DEF SettleInv
<1> QED
  BY SettleHolds, <1>1, PTL

\* Only a look at a request on the market lets a call go on to an offer or to a
\* match of it.
LEMMA OnlyLooksLetCallsGoOn ==
    ASSUME TypeInv, [MarketNext]_marketVars, NEW r \in Requests,
           request[r] # "APPROVED"
    PROVE  /\ Pitching(r)' \subseteq Pitching(r)
           /\ Accepting(r)' \subseteq Accepting(r)
<1>1. call \in [Sessions -> Call \cup {NULL}]
  BY DEF TypeInv, MarketTypeOK
<1>2. ASSUME NEW s \in Sessions, InCall(s, "createOffer")', call'[s].request = r
      PROVE  s \in Pitching(r)
  <2>1. CASE call'[s] = call[s]
    BY <1>2, <2>1 DEF Pitching, InCall
  <2>2. CASE call'[s] # call[s]
    <3>1. \E q \in Requests, p \in Properties : CreateOfferRead(s, q, p)
      BY <1>2, <2>2, OfferCallsStep
    <3> QED
      BY <1>1, <1>2, <3>1 DEF CreateOfferRead, Start
  <2> QED BY <2>1, <2>2
<1>3. ASSUME NEW s \in Sessions, InCall(s, "acceptTx")',
             ownerOffer'[call'[s].offer].request = r
      PROVE  s \in Accepting(r)
  <2>1. CASE call'[s] = call[s]
    <3>1. InCall(s, "acceptTx")
      BY <1>3, <2>1 DEF InCall
    <3>2. call[s].offer \in OwnerOffers /\ ownerOffer[call[s].offer] # NULL
      BY <3>1, CallFields DEF InCall, Idle, TypeInv, CallsNameRows, NamesRows
    <3> QED
      BY <1>3, <2>1, <3>1, <3>2, OwnerOffersStep DEF Accepting
  <2>2. CASE call'[s] # call[s]
    <3>1. AcceptOfferLook(s)
      BY <1>3, <2>2, OfferCallsStep
    <3> QED
      BY <1>1, <1>3, <3>1 DEF AcceptOfferLook
  <2> QED BY <2>1, <2>2
<1> QED
  BY <1>2, <1>3 DEF Pitching, Accepting

\* A step that inserts an offer or a match of a request ends the call it is of.
LEMMA InsertsEndCalls ==
    ASSUME TypeInv, [MarketNext]_marketVars, NEW r \in Requests
    PROVE  /\ OffersOn(r)' # OffersOn(r) => Pitching(r)' # Pitching(r)
           /\ MatchesOf(r)' # MatchesOf(r) => Accepting(r)' # Accepting(r)
<1>1. call \in [Sessions -> Call \cup {NULL}]
  BY DEF TypeInv, MarketTypeOK
<1>2. ASSUME OffersOn(r)' # OffersOn(r) PROVE Pitching(r)' # Pitching(r)
  <2>1. OffersOn(r) \subseteq OffersOn(r)'
    BY OwnerOffersStep DEF OffersOn
  <2>2. PICK o \in OwnerOffers :
            /\ ownerOffer'[o] # NULL /\ ownerOffer'[o].request = r
            /\ o \notin OffersOn(r)
    BY <1>2, <2>1 DEF OffersOn
  <2>3. ownerOffer[o] = NULL
    BY <2>2, OwnerOffersStep DEF OffersOn
  <2>4. PICK s \in Sessions :
            /\ CreateOfferWrite(s)
            /\ ownerOffer' = [ownerOffer EXCEPT ![o] =
                   [request |-> call[s].request,
                    property |-> call[s].property, status |-> "SENT"]]
    BY <2>2, <2>3, OwnerOffersStep
  <2>5. call[s].request = r
    BY <2>2, <2>4 DEF TypeInv, MarketTypeOK
  <2>6. s \in Pitching(r)
    BY <2>4, <2>5 DEF CreateOfferWrite, Pitching
  <2>7. s \notin Pitching(r)'
    BY <1>1, <2>4 DEF CreateOfferWrite, Finish, Pitching, InCall
  <2> QED BY <2>6, <2>7
<1>3. ASSUME MatchesOf(r)' # MatchesOf(r) PROVE Accepting(r)' # Accepting(r)
  <2>1. MatchesOf(r) \subseteq MatchesOf(r)'
    BY ConnectionsStep DEF MatchesOf
  <2>2. PICK c \in Connections :
            Existing(c)' /\ connection'[c].request = r /\ c \notin MatchesOf(r)
    BY <1>3, <2>1 DEF MatchesOf
  <2>3. ~Existing(c)
    BY <2>2, ConnectionsStep DEF MatchesOf
  <2>4. PICK s \in Sessions :
            /\ AcceptOfferClaim(s)
            /\ connection' = [connection EXCEPT ![c] =
                   [tenant |-> UserOf[s],
                    property |-> ownerOffer[call[s].offer].property,
                    request |-> ownerOffer[call[s].offer].request,
                    agreed |-> FALSE]]
    BY <2>2, <2>3, ConnectionsStep, NullAssumption
  <2>5. ownerOffer[call[s].offer].request = r
    BY <2>2, <2>4 DEF TypeInv, MarketTypeOK
  <2>6. s \in Accepting(r)
    BY <2>4, <2>5 DEF AcceptOfferClaim, Accepting
  <2>7. s \notin Accepting(r)'
    BY <1>1, <2>4 DEF AcceptOfferClaim, Finish, Accepting, InCall
  <2> QED BY <2>6, <2>7
<1> QED
  BY <1>2, <1>3

\* ... and after an agreement no call on the request gets past its checks: what
\* is still inserted for it is of the calls that were under way, each of them
\* inserts once, and their number is all there will be.
THEOREM DealsLeaveOnlyCallsUnderWay ==
    ASSUME OneModerator
    PROVE  MarketSpec => OnlyCallsUnderWayOutliveTheDeal
<1>1. ASSUME TypeInv, SettleInv, [MarketNext]_marketVars,
             NEW r \in Requests, NEW c \in Connections,
             Agreed(c), connection[c].request = r
      PROVE  request[r] # "APPROVED"
  <2>1. r # NULL
    BY NullAssumption
  <2> QED
    BY <1>1, <2>1 DEF SettleInv, SettledRequestsOffMarket
<1>2. TypeInv /\ SettleInv /\ [MarketNext]_marketVars =>
          [\A r \in Requests :
              (\E c \in Connections : Agreed(c) /\ connection[c].request = r) =>
                  /\ Pitching(r)' \subseteq Pitching(r)
                  /\ Accepting(r)' \subseteq Accepting(r)
                  /\ OffersOn(r)' # OffersOn(r) => Pitching(r)' # Pitching(r)
                  /\ MatchesOf(r)' # MatchesOf(r) => Accepting(r)' # Accepting(r)
          ]_marketVars
  BY <1>1, OnlyLooksLetCallsGoOn, InsertsEndCalls
<1> QED
  BY <1>2, TypesHold, SettleHolds, PTL DEF MarketSpec, OnlyCallsUnderWayOutliveTheDeal

----------------------------------------------------------------------------
(* Tenant offers: what one step can do to their rows, and to what was told *)
(* of them.                                                                *)

LEMMA TenantOffersStep ==
    ASSUME TypeInv, [MarketNext]_marketVars, NEW o \in TenantOffers
    PROVE  /\ tenantOffer[o] # NULL =>
                  /\ tenantOffer'[o] # NULL
                  /\ tenantOffer'[o].tenant = tenantOffer[o].tenant
                  /\ tenantOffer'[o].property = tenantOffer[o].property
                  /\ tenantOffer'[o].proposedPrice = tenantOffer[o].proposedPrice
                  /\ tenantOffer'[o].status = "PENDING" =>
                         /\ tenantOffer[o].status = "PENDING"
                         /\ tenantOffer'[o].counterPrice = tenantOffer[o].counterPrice
                  /\ \/ /\ tenantOffer'[o].counterPrice = tenantOffer[o].counterPrice
                        /\ tenantOffer'[o].status = "COUNTERED" =>
                               tenantOffer[o].status = "COUNTERED"
                     \/ \E s \in Sessions :
                            LandlordCounterWrite(s) /\ call[s].offer = o
           /\ tenantOffer[o] = NULL /\ tenantOffer'[o] # NULL =>
                  /\ tenantOffer'[o].status = "PENDING"
                  /\ tenantOffer'[o].counterPrice = NULL
                  /\ \E s \in Sessions : CreateWrite(s)
<1>1. /\ tenantOffer \in [TenantOffers -> TenantOffer \cup {NULL}]
      /\ tenantOffer' \in [TenantOffers -> TenantOffer \cup {NULL}]
  BY TypeStep DEF TypeInv, MarketTypeOK
<1>2. CASE UNCHANGED tenantOffer
  BY <1>2
<1>3. CASE \E s \in Sessions : CreateWrite(s)
  <2>1. PICK s \in Sessions : CreateWrite(s)
    BY <1>3
  <2>2. PICK new \in TenantOffers, price \in Prices :
            /\ tenantOffer[new] = NULL
            /\ tenantOffer' = [tenantOffer EXCEPT ![new] =
                   [tenant |-> UserOf[s], property |-> call[s].property,
                    status |-> "PENDING", proposedPrice |-> price,
                    counterPrice |-> NULL]]
    BY <2>1 DEF CreateWrite
  <2>3. CASE o = new
    <3>1. \E r \in Sessions : CreateWrite(r)
      BY <2>1
    <3>2. /\ tenantOffer[o] = NULL
          /\ tenantOffer'[o].status = "PENDING"
          /\ tenantOffer'[o].counterPrice = NULL
      BY <1>1, <2>2, <2>3
    <3> QED BY <3>1, <3>2
  <2>4. CASE o # new
    BY <1>1, <2>2, <2>4
  <2> QED BY <2>1, <2>3, <2>4
<1>4. ASSUME NEW q \in TenantOffers, tenantOffer[q] # NULL,
             NEW new \in {"ACCEPTED", "DECLINED", "WITHDRAWN"},
             SetTenantOffer(q, new)
      PROVE  /\ o # q => tenantOffer'[o] = tenantOffer[o]
             /\ o = q => /\ tenantOffer'[o] # NULL
                         /\ tenantOffer'[o].status = new
                         /\ tenantOffer'[o].tenant = tenantOffer[o].tenant
                         /\ tenantOffer'[o].property = tenantOffer[o].property
                         /\ tenantOffer'[o].proposedPrice = tenantOffer[o].proposedPrice
                         /\ tenantOffer'[o].counterPrice = tenantOffer[o].counterPrice
  <2>1. tenantOffer[q] \in TenantOffer
    BY <1>1, <1>4
  <2>2. tenantOffer' = [tenantOffer EXCEPT ![q] = [tenantOffer[q] EXCEPT !.status = new]]
    BY <1>1, <1>4 DEF SetTenantOffer
  <2>3. tenantOffer'[q] = [tenantOffer[q] EXCEPT !.status = new]
    BY <1>1, <2>2
  <2>4. tenantOffer'[q] \in TenantOffer
    BY <2>1, <2>3 DEF TenantOffer
  <2>5. /\ tenantOffer'[q].status = new
        /\ tenantOffer'[q].tenant = tenantOffer[q].tenant
        /\ tenantOffer'[q].property = tenantOffer[q].property
        /\ tenantOffer'[q].proposedPrice = tenantOffer[q].proposedPrice
        /\ tenantOffer'[q].counterPrice = tenantOffer[q].counterPrice
    BY <2>1, <2>3 DEF TenantOffer
  <2>6. tenantOffer'[q] # NULL
    BY <2>4, NullAssumption
  <2> QED BY <1>1, <2>2, <2>5, <2>6
<1>5. CASE \E s \in Sessions : LandlordCounterWrite(s)
  <2>1. PICK s \in Sessions : LandlordCounterWrite(s)
    BY <1>5
  <2> DEFINE q == call[s].offer
  <2>2. q \in TenantOffers /\ tenantOffer[q] # NULL
    BY <2>1, CallFields DEF LandlordCounterWrite, InCall, Idle, TypeInv, CallsNameRows, NamesRows
  <2>3. PICK price \in Prices :
            tenantOffer' = [tenantOffer EXCEPT ![q] =
                [@ EXCEPT !.status = "COUNTERED", !.counterPrice = price]]
    BY <2>1 DEF LandlordCounterWrite
  <2>4. CASE o = q
    <3>1. /\ tenantOffer[o] \in TenantOffer
          /\ tenantOffer'[o] = [tenantOffer[o] EXCEPT !.status = "COUNTERED",
                                                      !.counterPrice = price]
      BY <1>1, <2>2, <2>3, <2>4
    <3>2. tenantOffer'[o] \in TenantOffer
      BY <3>1 DEF TenantOffer, OpenTenantOffer
    <3>3. /\ tenantOffer'[o].status = "COUNTERED"
          /\ tenantOffer'[o].tenant = tenantOffer[o].tenant
          /\ tenantOffer'[o].property = tenantOffer[o].property
          /\ tenantOffer'[o].proposedPrice = tenantOffer[o].proposedPrice
      BY <3>1 DEF TenantOffer
    <3>4. tenantOffer'[o] # NULL
      BY <3>2, NullAssumption
    <3> QED BY <2>1, <2>2, <2>4, <3>3, <3>4
  <2>5. CASE o # q
    BY <1>1, <2>2, <2>3, <2>5
  <2> QED BY <2>4, <2>5
<1>6. CASE \E s \in Sessions : LandlordDeclineWrite(s)
  <2>1. PICK s \in Sessions : LandlordDeclineWrite(s)
    BY <1>6
  <2>2. call[s].offer \in TenantOffers /\ tenantOffer[call[s].offer] # NULL
    BY <2>1, CallFields DEF LandlordDeclineWrite, InCall, Idle, TypeInv, CallsNameRows, NamesRows
  <2>3. SetTenantOffer(call[s].offer, "DECLINED")
    BY <2>1 DEF LandlordDeclineWrite
  <2> QED BY <2>2, <2>3, <1>4
<1>7. CASE \E s \in Sessions : TenantWithdrawWrite(s)
  <2>1. PICK s \in Sessions : TenantWithdrawWrite(s)
    BY <1>7
  <2>2. call[s].offer \in TenantOffers /\ tenantOffer[call[s].offer] # NULL
    BY <2>1, CallFields DEF TenantWithdrawWrite, InCall, Idle, TypeInv, CallsNameRows, NamesRows
  <2>3. SetTenantOffer(call[s].offer, "WITHDRAWN")
    BY <2>1 DEF TenantWithdrawWrite
  <2> QED BY <2>2, <2>3, <1>4
<1>8. CASE \E s \in Sessions : SettleCommit(s)
  <2>1. PICK s \in Sessions : SettleCommit(s)
    BY <1>8
  <2>2. call[s].offer \in TenantOffers /\ tenantOffer[call[s].offer] # NULL
    BY <2>1, CallFields DEF SettleCommit, InCall, Idle, TypeInv, CallsNameRows, NamesRows
  <2>3. SetTenantOffer(call[s].offer, "ACCEPTED")
    BY <2>1 DEF SettleCommit
  <2> QED BY <2>2, <2>3, <1>4
<1>9. CASE \E s \in Sessions : ConfirmCommit(s)
  <2>1. PICK s \in Sessions : ConfirmCommit(s)
    BY <1>9
  <2>2. tenantOffer'[o] = IF o \in call[s].declined
                          THEN [tenantOffer[o] EXCEPT !.status = "DECLINED"]
                          ELSE tenantOffer[o]
    BY <2>1 DEF ConfirmCommit
  <2>3. CASE o \in call[s].declined
    <3>1. tenantOffer[o] # NULL
      BY <2>1, <2>3 DEF ConfirmCommit, InCall, Confirming, ConfirmStage, TypeInv,
         CallsNameRows, NamesRows
    <3>2. /\ tenantOffer[o] \in TenantOffer
          /\ tenantOffer'[o] = [tenantOffer[o] EXCEPT !.status = "DECLINED"]
      BY <1>1, <2>2, <2>3, <3>1
    <3>3. /\ tenantOffer'[o] \in TenantOffer
          /\ tenantOffer'[o].status = "DECLINED"
          /\ tenantOffer'[o].tenant = tenantOffer[o].tenant
          /\ tenantOffer'[o].property = tenantOffer[o].property
          /\ tenantOffer'[o].proposedPrice = tenantOffer[o].proposedPrice
          /\ tenantOffer'[o].counterPrice = tenantOffer[o].counterPrice
      BY <3>2 DEF TenantOffer
    <3>4. tenantOffer'[o] # NULL
      BY <3>3, NullAssumption
    <3> QED BY <3>1, <3>3, <3>4
  <2>4. CASE o \notin call[s].declined
    BY <2>2, <2>4
  <2> QED BY <2>3, <2>4
<1>10. \/ UNCHANGED tenantOffer
       \/ \E s \in Sessions :
              \/ CreateWrite(s) \/ LandlordCounterWrite(s) \/ LandlordDeclineWrite(s)
              \/ TenantWithdrawWrite(s) \/ SettleCommit(s)
       \/ \E s \in Sessions : ConfirmCommit(s)
  <2>1. CASE ListingsNext
    BY <2>1 DEF ListingsNext, CreateRequest, CloseRequest, ReviewRequestRead,
       ReviewRequestWrite, CreateProperty, ArchiveProperty, RemoveProperty,
       UnarchiveProperty, UpdatePropertyRead, UpdatePropertyWrite,
       ReviewPropertyRead, ReviewPropertyWrite, DeleteAccount,
       offersAndConnections
  <2>2. CASE OwnerOfferNext
    BY <2>2 DEF OwnerOfferNext, CreateOfferRead, CreateOfferWrite,
       ViewOfferRead, ViewOfferWrite, AcceptOfferRead, AcceptOfferLook,
       AcceptOfferClaim, RejectOffer
  <2>3. CASE TenantOfferNext
    BY <2>3 DEF TenantOfferNext, CreateRead, LandlordDeclineRead,
       LandlordCounterRead, TenantWithdrawRead, LandlordAccept, TenantAccept,
       StartSettlement, SettleClaim
  <2> QED
    BY <2>1, <2>2, <2>3 DEF MarketNext, marketVars, ConfirmClaim, SweepRequest,
       SweepProperty, SweepOffers, Sweep, Abandon, offersAndConnections
<1> QED
  BY <1>2, <1>3, <1>5, <1>6, <1>7, <1>8, <1>9, <1>10

\* Only the end of a settlement tells a price.
LEMMA ToldStep ==
    ASSUME TypeInv, [MarketNext]_marketVars, NEW o \in TenantOffers,
           told'[o] # told[o]
    PROVE  \E s \in Sessions :
               /\ SettleCommit(s) /\ call[s].offer = o
               /\ told'[o] = call[s].price
               /\ tenantOffer[o] # NULL /\ tenantOffer'[o].status = "ACCEPTED"
<1>1. PICK s \in Sessions : SettleCommit(s)
  <2>1. CASE ListingsNext
    BY <2>1 DEF ListingsNext, CreateRequest, CloseRequest, ReviewRequestRead,
       ReviewRequestWrite, CreateProperty, ArchiveProperty, RemoveProperty,
       UnarchiveProperty, UpdatePropertyRead, UpdatePropertyWrite,
       ReviewPropertyRead, ReviewPropertyWrite, DeleteAccount,
       offersAndConnections
  <2>2. CASE OwnerOfferNext
    BY <2>2 DEF OwnerOfferNext, CreateOfferRead, CreateOfferWrite,
       ViewOfferRead, ViewOfferWrite, AcceptOfferRead, AcceptOfferLook,
       AcceptOfferClaim, RejectOffer
  <2>3. CASE TenantOfferNext
    BY <2>3 DEF TenantOfferNext, CreateRead, CreateWrite, LandlordDeclineRead,
       LandlordDeclineWrite, LandlordCounterRead, LandlordCounterWrite,
       TenantWithdrawRead, TenantWithdrawWrite, LandlordAccept, TenantAccept,
       StartSettlement, SettleClaim
  <2> QED
    BY <2>1, <2>2, <2>3 DEF MarketNext, marketVars, ConfirmClaim, SweepRequest,
       SweepProperty, SweepOffers, Sweep, ConfirmCommit, Abandon, offersAndConnections
<1>2. /\ call[s].offer \in TenantOffers /\ tenantOffer[call[s].offer] # NULL
      /\ told' = [told EXCEPT ![call[s].offer] = call[s].price]
      /\ SetTenantOffer(call[s].offer, "ACCEPTED")
  BY <1>1, CallFields DEF SettleCommit, InCall, Idle, TypeInv, CallsNameRows, NamesRows
<1>3. call[s].offer = o /\ told'[o] = call[s].price
  BY <1>2 DEF TypeInv, MarketTypeOK
<1>4. /\ tenantOffer[o] \in TenantOffer
      /\ tenantOffer'[o] = [tenantOffer[o] EXCEPT !.status = "ACCEPTED"]
  BY <1>2, <1>3, RowFields DEF SetTenantOffer, TypeInv, MarketTypeOK
<1>5. tenantOffer'[o].status = "ACCEPTED"
  BY <1>4 DEF TenantOffer
<1> QED
  BY <1>1, <1>2, <1>3, <1>5

\* Settlements under way and counters under way, when a step begins them.
LEMMA SettlementsBegin ==
    ASSUME TypeInv, [MarketNext]_marketVars, NEW u \in Sessions,
           call'[u] # call[u]
    PROVE  /\ InCall(u, "settleAsMatch")' =>
                  \E o \in TenantOffers :
                      /\ LandlordAccept(u, o) \/ TenantAccept(u, o)
                      /\ call'[u].offer = o
                      /\ call'[u].price = IF tenantOffer[o].status = "PENDING"
                                          THEN tenantOffer[o].proposedPrice
                                          ELSE PriceOnTheTable(o)
           /\ InCall(u, "settleTx")' =>
                  /\ SettleClaim(u)
                  /\ call'[u].offer = call[u].offer
                  /\ call'[u].price = call[u].price
                  /\ call'[u].existing # NULL =>
                         DirectConnection(call[u].offer, call'[u].existing)
           /\ InCall(u, "landlordCounter")' =>
                  \E o \in TenantOffers :
                      LandlordCounterRead(u, o) /\ call'[u].offer = o
<1>1. call \in [Sessions -> Call \cup {NULL}]
  BY DEF TypeInv, MarketTypeOK
<1>2. ASSUME NEW r \in Requests, NEW p \in Properties, CreateOfferRead(u, r, p)
      PROVE  call'[u].op = "createOffer"
  BY <1>1, <1>2 DEF CreateOfferRead, Start
<1>3. ASSUME NEW o \in OwnerOffers, ViewOfferRead(u, o) \/ AcceptOfferRead(u, o)
      PROVE  call'[u].op \in {"viewOffer", "acceptOffer"}
  BY <1>1, <1>3 DEF ViewOfferRead, AcceptOfferRead, Start
<1>4. ASSUME NEW o \in TenantOffers,
             LandlordDeclineRead(u, o) \/ TenantWithdrawRead(u, o)
      PROVE  call'[u].op \in {"landlordDecline", "tenantWithdraw"}
  BY <1>1, <1>4 DEF LandlordDeclineRead, TenantWithdrawRead, Start
<1>5. ASSUME NEW o \in TenantOffers, LandlordCounterRead(u, o)
      PROVE  call'[u].op = "landlordCounter" /\ call'[u].offer = o
  BY <1>1, <1>5 DEF LandlordCounterRead, Start
<1>6. ASSUME NEW o \in TenantOffers, LandlordAccept(u, o) \/ TenantAccept(u, o)
      PROVE  /\ call'[u].op = "settleAsMatch" /\ call'[u].offer = o
             /\ call'[u].price = IF tenantOffer[o].status = "PENDING"
                                 THEN tenantOffer[o].proposedPrice
                                 ELSE PriceOnTheTable(o)
  BY <1>1, <1>6 DEF LandlordAccept, TenantAccept, StartSettlement, Start,
     TenantOfferIs
<1>7. ASSUME SettleClaim(u)
      PROVE  /\ call'[u].op = "settleTx"
             /\ call'[u].offer = call[u].offer
             /\ call'[u].price = call[u].price
             /\ call'[u].existing # NULL =>
                    DirectConnection(call[u].offer, call'[u].existing)
  <2>1. PICK found \in Connections \cup {NULL} :
            /\ found # NULL => DirectConnection(call[u].offer, found)
            /\ call' = [call EXCEPT ![u] =
                   [op |-> "settleTx", offer |-> call[u].offer,
                    price |-> call[u].price, existing |-> found]]
    BY <1>7 DEF SettleClaim
  <2>2. call'[u] = [op |-> "settleTx", offer |-> call[u].offer,
                    price |-> call[u].price, existing |-> found]
    BY <1>1, <2>1
  <2>3. call'[u].existing = found
    BY <2>2
  <2> QED BY <2>1, <2>2, <2>3
<1>8. ASSUME call'[u] # NULL,
             call'[u].op \in {"settleAsMatch", "settleTx", "landlordCounter"}
      PROVE  \/ \E o \in TenantOffers :
                    \/ LandlordCounterRead(u, o)
                    \/ LandlordAccept(u, o) \/ TenantAccept(u, o)
             \/ SettleClaim(u)
  <2>1. ~AcceptOfferLook(u)
    BY <1>1, <1>8 DEF AcceptOfferLook
  <2>2. ASSUME NEW c \in Connections PROVE ~ConfirmClaim(u, c)
    BY <1>1, <1>8 DEF ConfirmClaim, Start
  <2>3. ~SweepRequest(u) /\ ~SweepProperty(u) /\ ~SweepOffers(u)
    BY <1>1, <1>8 DEF SweepRequest, SweepProperty, SweepOffers, Sweep
  <2> QED BY <1>8, <1>2, <1>3, <1>4, <2>1, <2>2, <2>3, CallsGoOn
<1> QED
  BY <1>5, <1>6, <1>7, <1>8 DEF InCall

----------------------------------------------------------------------------
(* A settled offer has its own conversation, for any number of tabs.       *)

\* A conversation that a settlement under way has found is one of the pair
\* that did not come from a request, and stays so.
FoundAreDirect ==
    \A s \in Sessions :
        InCall(s, "settleTx") /\ call[s].existing # NULL =>
            DirectConnection(call[s].offer, call[s].existing)

ToldHaveRows == \A o \in TenantOffers : told[o] # NULL => tenantOffer[o] # NULL

DirectInv == SettledOffersHaveDirectConnection /\ FoundAreDirect /\ ToldHaveRows

\* A direct conversation of an offer's pair stays one.
LEMMA DirectStays ==
    ASSUME TypeInv, [MarketNext]_marketVars,
           NEW o \in TenantOffers, tenantOffer[o] # NULL,
           NEW c \in Connections, DirectConnection(o, c)
    PROVE  /\ Existing(c)' /\ connection'[c].request = NULL
           /\ connection'[c].tenant = tenantOffer'[o].tenant
           /\ connection'[c].property = tenantOffer'[o].property
BY ConnectionsStep, TenantOffersStep DEF DirectConnection, Existing

LEMMA DirectStep ==
    ASSUME TypeInv, DirectInv, [MarketNext]_marketVars
    PROVE  DirectInv'
<1>1. ToldHaveRows'
  BY ToldStep, TenantOffersStep DEF DirectInv, ToldHaveRows
<1>2. FoundAreDirect'
  <2> SUFFICES ASSUME NEW u \in Sessions, InCall(u, "settleTx")',
                      call'[u].existing # NULL
               PROVE  DirectConnection(call[u].offer, call[u].existing)'
    BY DEF FoundAreDirect
  <2>1. /\ call'[u].offer \in TenantOffers
        /\ call'[u].existing \in Connections
        /\ call'[u].offer = call[u].offer
        /\ tenantOffer[call[u].offer] # NULL
        /\ DirectConnection(call[u].offer, call'[u].existing)
    <3>1. CASE call'[u] = call[u]
      <4>1. InCall(u, "settleTx")
        BY <3>1 DEF InCall
      <4> QED
        BY <3>1, <4>1, CallFields
        DEF InCall, Idle, TypeInv, CallsNameRows, NamesRows, DirectInv, FoundAreDirect
    <3>2. CASE call'[u] # call[u]
      <4>1. /\ SettleClaim(u) /\ call'[u].offer = call[u].offer
            /\ DirectConnection(call[u].offer, call'[u].existing)
        BY <3>2, SettlementsBegin
      <4>2. call[u].offer \in TenantOffers /\ tenantOffer[call[u].offer] # NULL
        BY <4>1, CallFields DEF SettleClaim, InCall, Idle, TypeInv, CallsNameRows, NamesRows
      <4>3. PICK found \in Connections \cup {NULL} :
                call' = [call EXCEPT ![u] =
                    [op |-> "settleTx", offer |-> call[u].offer,
                     price |-> call[u].price, existing |-> found]]
        BY <4>1 DEF SettleClaim
      <4>4. call'[u].existing = found
        BY <4>3 DEF TypeInv, MarketTypeOK
      <4> QED BY <4>1, <4>2, <4>4
    <3> QED BY <3>1, <3>2
  <2> QED
    BY <2>1, DirectStays DEF DirectConnection, Existing
<1>3. SettledOffersHaveDirectConnection'
  <2> SUFFICES ASSUME NEW o \in TenantOffers, told'[o] # NULL
               PROVE  \E c \in Connections :
                          /\ Existing(c)'
                          /\ connection'[c].request = NULL
                          /\ connection'[c].tenant = tenantOffer'[o].tenant
                          /\ connection'[c].property = tenantOffer'[o].property
    BY DEF SettledOffersHaveDirectConnection
  <2>1. CASE told'[o] = told[o]
    <3>1. PICK c \in Connections : DirectConnection(o, c)
      BY <2>1 DEF DirectInv, SettledOffersHaveDirectConnection,
         DirectConnection, Existing
    <3> QED
      BY <2>1, <3>1, DirectStays DEF DirectInv, ToldHaveRows
  <2>2. CASE told'[o] # told[o]
    <3>1. PICK s \in Sessions :
              SettleCommit(s) /\ call[s].offer = o /\ tenantOffer[o] # NULL
      BY <2>2, ToldStep
    <3>2. CASE call[s].existing # NULL
      <4>1. /\ call[s].existing \in Connections
            /\ DirectConnection(o, call[s].existing)
        BY <3>1, <3>2, CallFields DEF SettleCommit, InCall, Idle, TypeInv,
           DirectInv, FoundAreDirect
      <4> QED BY <3>1, <4>1, DirectStays
    <3>3. CASE call[s].existing = NULL
      <4> DEFINE row == [tenant |-> tenantOffer[o].tenant,
                         property |-> tenantOffer[o].property,
                         request |-> NULL, agreed |-> FALSE]
      <4>1. PICK c \in Connections :
                connection[c] = NULL /\ connection' = [connection EXCEPT ![c] = row]
        BY <3>1, <3>3 DEF SettleCommit
      <4>2. row \in MatchConnection
        BY <3>1, RowFields DEF TypeInv, TenantOffer, MatchConnection
      <4>3. connection'[c] = row /\ connection'[c] # NULL
        <5> HIDE DEF row
        <5> QED BY <4>1, <4>2, NullAssumption DEF TypeInv, MarketTypeOK
      <4> QED BY <3>1, <4>3, TenantOffersStep DEF Existing
    <3> QED BY <3>2, <3>3
  <2> QED BY <2>1, <2>2
<1> QED
  BY <1>1, <1>2, <1>3 DEF DirectInv

LEMMA DirectHolds == MarketSpec => []DirectInv
<1>1. MarketInit => DirectInv
  BY DEF MarketInit, DirectInv, SettledOffersHaveDirectConnection,
     FoundAreDirect, ToldHaveRows, InCall
<1>2. TypeInv /\ DirectInv /\ [MarketNext]_marketVars => DirectInv'
  BY DirectStep
<1> QED
  BY <1>1, <1>2, TypesHold, PTL DEF MarketSpec

\* Whoever was told that an offer is settled has a conversation about that
\* listing that did not come from a search request: for any number of tabs.
THEOREM SettledHaveConversations ==
    MarketSpec => []SettledOffersHaveDirectConnection
<1>1. DirectInv => SettledOffersHaveDirectConnection
  BY DEF DirectInv
<1> QED
  BY DirectHolds, <1>1, PTL

----------------------------------------------------------------------------
(* The price that both are told, when no landlord calls from two tabs at   *)
(* once: a counter would otherwise change the row between what his other   *)
(* tab read and what it answers.                                           *)

OneLandlordTab ==
    \A p \in Properties : \A s, u \in Sessions :
        UserOf[s] = OwnerOf[p] /\ UserOf[u] = OwnerOf[p] => s = u

\* An offer is countered once, by the landlord, while it is PENDING.
PendingAreAsProposed ==
    \A o \in TenantOffers :
        TenantOfferIs(o, {"PENDING"}) =>
            tenantOffer[o].counterPrice = NULL /\ told[o] = NULL

CountersAreFirst ==
    \A s \in Sessions :
        InCall(s, "landlordCounter") =>
            /\ IsLandlord(s, call[s].offer)
            /\ ~TenantOfferIs(call[s].offer, {"COUNTERED"})
            /\ told[call[s].offer] = NULL

Settling(s) == InCall(s, "settleAsMatch") \/ InCall(s, "settleTx")

\* A settlement carries the price on the table, and nobody is changing it.
SettlementsKnowThePrice ==
    \A s \in Sessions :
        Settling(s) =>
            /\ call[s].price = PriceOnTheTable(call[s].offer)
            /\ \/ IsLandlord(s, call[s].offer)
               \/ ~TenantOfferIs(call[s].offer, {"PENDING"})
            /\ \A u \in Sessions :
                   InCall(u, "landlordCounter") => call[u].offer # call[s].offer

PriceInv ==
    /\ ToldPriceIsOnTheRow
    /\ PendingAreAsProposed
    /\ CountersAreFirst
    /\ SettlementsKnowThePrice

\* A counter under way is still the first one of its offer after a step,
\* whether the step began it or not.
LEMMA CountersStep ==
    ASSUME OneLandlordTab, TypeInv, PriceInv, [MarketNext]_marketVars
    PROVE  CountersAreFirst'
<1> SUFFICES ASSUME NEW u \in Sessions, InCall(u, "landlordCounter")'
             PROVE  /\ UserOf[u] = OwnerOf[tenantOffer'[call'[u].offer].property]
                    /\ ~(/\ tenantOffer'[call'[u].offer] # NULL
                         /\ tenantOffer'[call'[u].offer].status = "COUNTERED")
                    /\ told'[call'[u].offer] = NULL
  BY DEF CountersAreFirst, IsLandlord, TenantOfferIs
<1>1. CASE call'[u] # call[u]
  <2>1. PICK o \in TenantOffers : LandlordCounterRead(u, o) /\ call'[u].offer = o
    BY <1>1, SettlementsBegin
  <2>2. /\ UNCHANGED <<tenantOffer, told>>
        /\ UserOf[u] = OwnerOf[tenantOffer[o].property]
        /\ tenantOffer[o] # NULL /\ tenantOffer[o].status = "PENDING"
    BY <2>1 DEF LandlordCounterRead, TenantOfferIs, IsLandlord
  <2>3. told[o] = NULL
    BY <2>2 DEF PriceInv, PendingAreAsProposed, TenantOfferIs
  <2> QED BY <2>1, <2>2, <2>3
<1>2. CASE call'[u] = call[u]
  <2> DEFINE o == call[u].offer
  <2>1. InCall(u, "landlordCounter")
    BY <1>2 DEF InCall
  <2>2. /\ o \in TenantOffers /\ tenantOffer[o] # NULL
        /\ UserOf[u] = OwnerOf[tenantOffer[o].property]
        /\ tenantOffer[o].status # "COUNTERED" /\ told[o] = NULL
    BY <2>1, CallFields DEF InCall, Idle, TypeInv, CallsNameRows, NamesRows, PriceInv,
       CountersAreFirst, IsLandlord, TenantOfferIs
  <2>3. ASSUME NEW s \in Sessions, LandlordCounterWrite(s), call[s].offer = o
        PROVE  FALSE
    <3>1. UserOf[s] = OwnerOf[tenantOffer[o].property]
      BY <2>3 DEF LandlordCounterWrite, PriceInv, CountersAreFirst, IsLandlord
    <3>2. s = u
      BY <2>2, <3>1, RowFields DEF OneLandlordTab, TypeInv, TenantOffer
    <3>3. call'[u] = NULL
      BY <2>3, <3>2 DEF LandlordCounterWrite, Finish, TypeInv, MarketTypeOK
    <3> QED BY <1>2, <2>1, <3>3 DEF InCall
  <2>4. ASSUME NEW s \in Sessions, SettleCommit(s), call[s].offer = o
        PROVE  FALSE
    BY <2>1, <2>4 DEF SettleCommit, PriceInv, SettlementsKnowThePrice, Settling
  <2>5. /\ tenantOffer'[o].property = tenantOffer[o].property
        /\ tenantOffer'[o].status # "COUNTERED"
    BY <2>2, <2>3, TenantOffersStep
  <2>6. told'[o] = NULL
    BY <2>2, <2>4, ToldStep
  <2> QED BY <1>2, <2>2, <2>5, <2>6
<1> QED
  BY <1>1, <1>2

\* No counter of an offer begins while the offer is being settled: the
\* landlord would have to be in both calls.
LEMMA NoCounterDuring ==
    ASSUME OneLandlordTab, TypeInv, PriceInv, [MarketNext]_marketVars,
           NEW u \in Sessions, NEW o \in TenantOffers,
           Settling(u), call'[u] # NULL, call[u].offer = o,
           call'[u].offer = o, Settling(u)',
           NEW v \in Sessions, InCall(v, "landlordCounter")', call'[v].offer = o
    PROVE  FALSE
<1>1. CASE call'[v] = call[v]
  BY <1>1 DEF InCall, PriceInv, SettlementsKnowThePrice
<1>2. CASE call'[v] # call[v]
  <2>1. LandlordCounterRead(v, o)
    BY <1>2, SettlementsBegin
  <2>2. UserOf[v] = OwnerOf[tenantOffer[o].property]
    BY <2>1 DEF LandlordCounterRead, IsLandlord
  <2>3. UserOf[u] = OwnerOf[tenantOffer[o].property]
    BY <2>1 DEF LandlordCounterRead, IsLandlord, PriceInv,
       SettlementsKnowThePrice
  <2>4. u = v
    BY <2>1, <2>2, <2>3, RowFields
    DEF OneLandlordTab, LandlordCounterRead, TenantOfferIs, TypeInv, TenantOffer
  <2> QED BY <2>4 DEF Settling, InCall
<1> QED
  BY <1>1, <1>2

LEMMA SettlementsStep ==
    ASSUME OneLandlordTab, TypeInv, PriceInv, [MarketNext]_marketVars
    PROVE  SettlementsKnowThePrice'
<1> SUFFICES ASSUME NEW u \in Sessions, Settling(u)'
             PROVE  \E o \in TenantOffers :
                        /\ call'[u].offer = o
                        /\ call'[u].price = IF tenantOffer'[o].counterPrice = NULL
                                            THEN tenantOffer'[o].proposedPrice
                                            ELSE tenantOffer'[o].counterPrice
                        /\ \/ UserOf[u] = OwnerOf[tenantOffer'[o].property]
                           \/ tenantOffer'[o].status # "PENDING"
                        /\ \A v \in Sessions :
                               InCall(v, "landlordCounter")' => call'[v].offer # o
  BY DEF SettlementsKnowThePrice, IsLandlord, TenantOfferIs, PriceOnTheTable
\* A settlement that goes on, in the same or in its second half.
<1>1. CASE /\ Settling(u) /\ call'[u].offer = call[u].offer
           /\ call'[u].price = call[u].price
  <2> DEFINE o == call[u].offer
  <2>1. o \in TenantOffers /\ tenantOffer[o] # NULL
    BY <1>1, CallFields DEF Settling, InCall, Idle, TypeInv, CallsNameRows, NamesRows
  <2>2. /\ call[u].price = PriceOnTheTable(o)
        /\ \/ UserOf[u] = OwnerOf[tenantOffer[o].property]
           \/ tenantOffer[o].status # "PENDING"
        /\ \A v \in Sessions : InCall(v, "landlordCounter") => call[v].offer # o
    BY <1>1, <2>1 DEF PriceInv, SettlementsKnowThePrice, IsLandlord, TenantOfferIs
  <2>3. /\ tenantOffer'[o].counterPrice = tenantOffer[o].counterPrice
        /\ tenantOffer'[o].proposedPrice = tenantOffer[o].proposedPrice
        /\ tenantOffer'[o].property = tenantOffer[o].property
        /\ tenantOffer'[o].status = "PENDING" => tenantOffer[o].status = "PENDING"
    BY <2>1, <2>2, TenantOffersStep DEF LandlordCounterWrite
  <2>4. ASSUME NEW v \in Sessions, InCall(v, "landlordCounter")', call'[v].offer = o
        PROVE  FALSE
    BY <1>1, <2>1, <2>4, NoCounterDuring DEF Settling, InCall
  <2> QED BY <1>1, <2>1, <2>2, <2>3, <2>4 DEF PriceOnTheTable
<1>2. CASE call'[u] = call[u]
  BY <1>1, <1>2 DEF Settling, InCall
<1>3. CASE call'[u] # call[u] /\ InCall(u, "settleTx")'
  BY <1>1, <1>3, SettlementsBegin DEF SettleClaim, Settling
\* A settlement that begins.
<1>4. CASE call'[u] # call[u] /\ InCall(u, "settleAsMatch")'
  <2>1. PICK o \in TenantOffers :
            /\ LandlordAccept(u, o) \/ TenantAccept(u, o)
            /\ call'[u].offer = o
            /\ call'[u].price = IF tenantOffer[o].status = "PENDING"
                                THEN tenantOffer[o].proposedPrice
                                ELSE PriceOnTheTable(o)
    BY <1>4, SettlementsBegin
  <2>2. UNCHANGED tenantOffer /\ tenantOffer[o] # NULL
    BY <2>1 DEF LandlordAccept, TenantAccept, StartSettlement, TenantOfferIs
  <2>3. tenantOffer[o].status = "PENDING" => tenantOffer[o].counterPrice = NULL
    BY <2>2 DEF PriceInv, PendingAreAsProposed, TenantOfferIs
  <2>4. \/ UserOf[u] = OwnerOf[tenantOffer[o].property]
        \/ tenantOffer[o].status = "COUNTERED"
    BY <2>1 DEF LandlordAccept, TenantAccept, IsLandlord, TenantOfferIs
  <2>5. ASSUME NEW v \in Sessions, InCall(v, "landlordCounter")', call'[v].offer = o
        PROVE  FALSE
    <3>1. v # u
      BY <1>4, <2>5 DEF InCall
    <3>2. call'[v] = call[v]
      BY <2>1, <3>1 DEF LandlordAccept, TenantAccept, StartSettlement, Start,
         TypeInv, MarketTypeOK
    <3>3. InCall(v, "landlordCounter") /\ call[v].offer = o
      BY <2>5, <3>2 DEF InCall
    <3>4. /\ UserOf[v] = OwnerOf[tenantOffer[o].property]
          /\ tenantOffer[o].status # "COUNTERED"
      BY <2>2, <3>3 DEF PriceInv, CountersAreFirst, IsLandlord, TenantOfferIs
    <3> QED
      BY <2>2, <2>4, <3>1, <3>4, RowFields DEF OneLandlordTab, TypeInv, TenantOffer
  <2>6. tenantOffer'[o].status # "PENDING"
        \/ UserOf[u] = OwnerOf[tenantOffer'[o].property]
    BY <2>2, <2>4
  <2> QED BY <2>1, <2>2, <2>3, <2>5, <2>6 DEF PriceOnTheTable
<1> QED
  BY <1>2, <1>3, <1>4 DEF Settling

LEMMA PriceStep ==
    ASSUME OneLandlordTab, TypeInv, DirectInv, PriceInv, [MarketNext]_marketVars
    PROVE  PriceInv'
<1>1. PendingAreAsProposed'
  <2> SUFFICES ASSUME NEW o \in TenantOffers, tenantOffer'[o] # NULL,
                      tenantOffer'[o].status = "PENDING"
               PROVE  tenantOffer'[o].counterPrice = NULL /\ told'[o] = NULL
    BY DEF PendingAreAsProposed, TenantOfferIs
  <2>1. told'[o] = told[o]
    BY ToldStep
  <2>2. CASE tenantOffer[o] = NULL
    BY <2>1, <2>2, TenantOffersStep DEF DirectInv, ToldHaveRows
  <2>3. CASE tenantOffer[o] # NULL
    BY <2>1, <2>3, TenantOffersStep
    DEF PriceInv, PendingAreAsProposed, TenantOfferIs
  <2> QED BY <2>2, <2>3
<1>2. ToldPriceIsOnTheRow'
  <2> SUFFICES ASSUME NEW o \in TenantOffers, told'[o] # NULL
               PROVE  told'[o] = IF tenantOffer'[o].counterPrice = NULL
                                 THEN tenantOffer'[o].proposedPrice
                                 ELSE tenantOffer'[o].counterPrice
    BY DEF ToldPriceIsOnTheRow
  <2>1. /\ tenantOffer[o] # NULL
        /\ told'[o] = PriceOnTheTable(o)
        /\ \A s \in Sessions : InCall(s, "landlordCounter") => call[s].offer # o
    <3>1. CASE told'[o] = told[o]
      BY <3>1 DEF PriceInv, ToldPriceIsOnTheRow, PriceOnTheTable,
         CountersAreFirst, DirectInv, ToldHaveRows
    <3>2. CASE told'[o] # told[o]
      <4>1. PICK s \in Sessions :
                /\ SettleCommit(s) /\ call[s].offer = o
                /\ told'[o] = call[s].price /\ tenantOffer[o] # NULL
        BY <3>2, ToldStep
      <4> QED
        BY <4>1 DEF SettleCommit, PriceInv, SettlementsKnowThePrice, Settling
    <3> QED BY <3>1, <3>2
  <2>2. /\ tenantOffer'[o].counterPrice = tenantOffer[o].counterPrice
        /\ tenantOffer'[o].proposedPrice = tenantOffer[o].proposedPrice
    BY <2>1, TenantOffersStep DEF LandlordCounterWrite
  <2> QED BY <2>1, <2>2 DEF PriceOnTheTable
<1> QED
  BY <1>1, <1>2, CountersStep, SettlementsStep DEF PriceInv

LEMMA PricesHold ==
    ASSUME OneLandlordTab
    PROVE  MarketSpec => []PriceInv
<1>1. MarketInit => PriceInv
  BY DEF MarketInit, PriceInv, ToldPriceIsOnTheRow, PendingAreAsProposed,
     CountersAreFirst, SettlementsKnowThePrice, Settling, InCall, TenantOfferIs
<1>2. TypeInv /\ DirectInv /\ PriceInv /\ [MarketNext]_marketVars => PriceInv'
  BY PriceStep
<1> QED
  BY <1>1, <1>2, TypesHold, DirectHolds, PTL DEF MarketSpec

\* When no landlord calls from two tabs at once, the rent that both parties are
\* told is the one on the offer's row for ever after: the counter price if the
\* landlord countered, else the tenant's own.
THEOREM ToldPricesStand ==
    ASSUME OneLandlordTab
    PROVE  MarketSpec => []ToldPriceIsOnTheRow
<1>1. PriceInv => ToldPriceIsOnTheRow
  BY DEF PriceInv
<1> QED
  BY PricesHold, <1>1, PTL

----------------------------------------------------------------------------
(* The promise of the tenant's side: what Deals says of a request.         *)

OnTheMarket == {r \in Requests : request[r] = "APPROVED"}
Taking == [r \in Requests |-> Accepting(r)]
Opened == {<<c, connection[c].request>> : c \in {d \in Connections : Existing(d)}}
AgreedPairs == {<<c, connection[c].request>> : c \in {d \in Connections : Agreed(d)}}

\* Who is in the two relations.
LEMMA PairsAreRows ==
    ASSUME NEW c, NEW r
    PROVE  /\ <<c, r>> \in Opened <=>
                  c \in Connections /\ Existing(c) /\ connection[c].request = r
           /\ <<c, r>> \in AgreedPairs <=>
                  c \in Connections /\ Agreed(c) /\ connection[c].request = r
BY DEF Opened, AgreedPairs

\* The request whose offer an acceptance is about.
LEMMA AcceptanceHasARequest ==
    ASSUME TypeInv, NEW s \in Sessions,
           InCall(s, "acceptOffer") \/ InCall(s, "acceptTx")
    PROVE  /\ call[s].offer \in OwnerOffers /\ ownerOffer[call[s].offer] # NULL
           /\ ownerOffer[call[s].offer] \in OwnerOffer
           /\ ownerOffer[call[s].offer].request \in Requests
BY CallFields, RowFields
DEF InCall, Idle, TypeInv, CallsNameRows, NamesRows, OwnerOffer

\* A step that leaves the acceptances under way alone.
LEMMA TakingStays ==
    ASSUME TypeInv, [MarketNext]_marketVars,
           \A u \in Sessions :
               InCall(u, "acceptTx") \/ InCall(u, "acceptTx")' => call'[u] = call[u]
    PROVE  Taking' = Taking
<1>1. ASSUME NEW r \in Requests, NEW u \in Sessions
      PROVE  u \in Accepting(r)' <=> u \in Accepting(r)
  <2>1. CASE InCall(u, "acceptTx")
    <3>1. call'[u] = call[u] /\ InCall(u, "acceptTx")'
      BY <2>1 DEF InCall
    <3>2. ownerOffer'[call[u].offer].request = ownerOffer[call[u].offer].request
      BY <2>1, AcceptanceHasARequest, OwnerOffersStep
    <3> QED BY <2>1, <3>1, <3>2 DEF Accepting
  <2>2. CASE ~InCall(u, "acceptTx")
    <3>1. ~InCall(u, "acceptTx")'
      BY <2>2 DEF InCall
    <3> QED BY <2>2, <3>1 DEF Accepting
  <2> QED BY <2>1, <2>2
<1>2. ASSUME NEW r \in Requests PROVE Accepting(r)' = Accepting(r)
  BY <1>1 DEF Accepting
<1> QED
  BY <1>2 DEF Taking

LEMMA TakingStep ==
    ASSUME TypeInv, [MarketNext]_marketVars
    PROVE  \/ Taking' = Taking
           \/ \E s \in Sessions :
                  \/ AcceptOfferLook(s) \/ AcceptOfferClaim(s)
                  \/ Abandon(s) /\ InCall(s, "acceptTx")
BY OfferCallsStep, TakingStays

\* An acceptance that ends is the one that leaves its request.
LEMMA TakingEnds ==
    ASSUME TypeInv, [MarketNext]_marketVars, NEW s \in Sessions,
           InCall(s, "acceptTx"), Finish(s)
    PROVE  LET r == ownerOffer[call[s].offer].request IN
           s \in Taking[r] /\ Taking' = [Taking EXCEPT ![r] = Taking[r] \ {s}]
<1> DEFINE r == ownerOffer[call[s].offer].request
<1>1. r \in Requests /\ s \in Accepting(r)
  BY AcceptanceHasARequest DEF Accepting
<1>2. \A u \in Sessions : u # s => call'[u] = call[u]
  BY DEF Finish, TypeInv, MarketTypeOK
<1>3. ~InCall(s, "acceptTx")'
  BY DEF Finish, InCall, TypeInv, MarketTypeOK
<1>4. ASSUME NEW u \in Sessions, u # s, NEW q \in Requests
      PROVE  u \in Accepting(q)' <=> u \in Accepting(q)
  <2>1. CASE InCall(u, "acceptTx")
    <3>1. call'[u] = call[u] /\ InCall(u, "acceptTx")'
      BY <1>2, <1>4, <2>1 DEF InCall
    <3>2. ownerOffer'[call[u].offer].request = ownerOffer[call[u].offer].request
      BY <2>1, AcceptanceHasARequest, OwnerOffersStep
    <3> QED BY <2>1, <3>1, <3>2 DEF Accepting
  <2>2. CASE ~InCall(u, "acceptTx")
    <3>1. ~InCall(u, "acceptTx")'
      BY <1>2, <1>4, <2>2 DEF InCall
    <3> QED BY <2>2, <3>1 DEF Accepting
  <2> QED BY <2>1, <2>2
<1>5. ASSUME NEW q \in Requests
      PROVE  Accepting(q)' = IF q = r THEN Accepting(q) \ {s} ELSE Accepting(q)
  <2>1. s \notin Accepting(q)'
    BY <1>3 DEF Accepting
  <2>2. q # r => s \notin Accepting(q)
    BY DEF Accepting
  <2> QED BY <1>4, <2>1, <2>2 DEF Accepting
<1> QED
  BY <1>1, <1>5 DEF Taking

\* A step that neither opens nor agrees anything, and publishes nothing.
LEMMA WithdrawIsADeal ==
    ASSUME UNCHANGED connection, Taking' = Taking, OnTheMarket' \subseteq OnTheMarket
    PROVE  Deal!Withdraw
BY DEF Deal!Withdraw, OnTheMarket, Taking, Opened, AgreedPairs, Existing, Agreed

\* A moderator's approval: what he decides on was not agreed in the meantime.
LEMMA ReviewIsADeal ==
    ASSUME TypeInv, SettleInv, NEW s \in Sessions, ReviewRequestWrite(s),
           Taking' = Taking
    PROVE  Deal!DealsNext
<1>1. PICK r \in Requests :
          r = call[s].request /\ \A c \in Connections : ~AgreedFor(c, r)
  BY CallFields DEF ReviewRequestWrite, InCall, Idle, TypeInv, SettleInv,
     UndecidedUnderReview
<1>2. UNCHANGED connection
  BY DEF ReviewRequestWrite, offersAndConnections
<1>3. PICK decision \in {"APPROVED", "REJECTED"} :
          request' = [request EXCEPT ![r] = decision]
  BY <1>1 DEF ReviewRequestWrite, SetRequest
<1>4. CASE decision = "APPROVED"
  <2>1. OnTheMarket' = OnTheMarket \cup {r}
    BY <1>1, <1>3, <1>4 DEF OnTheMarket, TypeInv, MarketTypeOK
  <2>2. ~Deal!Settled(r)
    BY <1>1, PairsAreRows DEF Deal!Settled, AgreedFor, AgreedPairs
  <2>3. Opened' = Opened /\ AgreedPairs' = AgreedPairs
    BY <1>2 DEF Opened, AgreedPairs, Existing, Agreed
  <2>4. Deal!Publish(r)
    BY <2>1, <2>2, <2>3 DEF Deal!Publish, OnTheMarket, Taking, Opened, AgreedPairs
  <2> QED BY <1>1, <2>4 DEF Deal!DealsNext
<1>5. CASE decision = "REJECTED"
  <2>1. OnTheMarket' \subseteq OnTheMarket
    BY <1>1, <1>3, <1>5 DEF OnTheMarket, TypeInv, MarketTypeOK
  <2> QED BY <1>2, <2>1, WithdrawIsADeal DEF Deal!DealsNext
<1> QED
  BY <1>4, <1>5

\* A conversation that is opened: one pair more.
LEMMA OpenAddsAPair ==
    ASSUME TypeInv, UNCHANGED request, NEW c \in Connections,
           connection[c] = NULL, NEW row \in MatchConnection, row.agreed = FALSE,
           connection' = [connection EXCEPT ![c] = row]
    PROVE  /\ Opened' = Opened \cup {<<c, row.request>>}
           /\ AgreedPairs' = AgreedPairs /\ OnTheMarket' = OnTheMarket
           /\ Deal!Unused(c)
<1> DEFINE r == row.request
<1>1. r \in Requests \cup {NULL} /\ row # NULL
  BY NullAssumption DEF MatchConnection
<1>2. \A d \in Connections : d # c => connection'[d] = connection[d]
  BY DEF TypeInv, MarketTypeOK
<1>3. connection'[c] = row
  BY DEF TypeInv, MarketTypeOK
<1>4. Opened' = Opened \cup {<<c, r>>}
  <2>1. \A d \in Connections :
            /\ Existing(d)' <=> Existing(d) \/ d = c
            /\ Existing(d) => d # c
    BY <1>1, <1>2, <1>3 DEF Existing
  <2> QED BY <1>2, <1>3, <2>1 DEF Opened
<1>5. AgreedPairs' = AgreedPairs
  <2>1. \A d \in Connections : Agreed(d)' <=> Agreed(d)
    BY <1>1, <1>2, <1>3 DEF Existing, Agreed
  <2>2. \A d \in Connections : Agreed(d) => connection'[d] = connection[d]
    BY <1>2 DEF Existing, Agreed
  <2> QED BY <2>1, <2>2 DEF AgreedPairs
<1>6. OnTheMarket' = OnTheMarket
  BY DEF OnTheMarket
<1>7. \A q \in Requests \cup {NULL} : <<c, q>> \notin Opened
  BY PairsAreRows DEF Existing
<1>8. Deal!Unused(c)
  BY <1>7 DEF Deal!Unused, Opened
<1> QED
  BY <1>4, <1>5, <1>6, <1>8

\* The three steps of an acceptance in its transaction.
LEMMA LookIsADeal ==
    ASSUME TypeInv, NEW s \in Sessions, AcceptOfferLook(s)
    PROVE  Deal!DealsNext
<1>1. PICK r \in Requests : r = ownerOffer[call[s].offer].request
  BY AcceptanceHasARequest DEF AcceptOfferLook
<1>2. /\ InCall(s, "acceptTx")' /\ call'[s].offer = call[s].offer
      /\ \A u \in Sessions : u # s => call'[u] = call[u]
      /\ UNCHANGED <<request, ownerOffer, connection>>
  <2>1. [op |-> "acceptTx", offer |-> call[s].offer] \in Call
    BY AcceptanceHasARequest DEF AcceptOfferLook, Call
  <2> QED
    BY <2>1, NullAssumption DEF AcceptOfferLook, InCall, TypeInv, MarketTypeOK
<1>3. r \in OnTheMarket
  BY <1>1 DEF AcceptOfferLook, OnTheMarket
<1>4. \A q \in Requests : s \notin Accepting(q)
  BY DEF AcceptOfferLook, Accepting, InCall
<1>5. ASSUME NEW q \in Requests
      PROVE  Accepting(q)' = IF q = r THEN Accepting(q) \cup {s} ELSE Accepting(q)
  BY <1>1, <1>2, <1>4 DEF Accepting, InCall
<1>6. Taking' = [Taking EXCEPT ![r] = Taking[r] \cup {s}]
  BY <1>1, <1>5 DEF Taking
<1>7. Deal!Look(s, r)
  BY <1>1, <1>2, <1>3, <1>4, <1>6
  DEF Deal!Look, OnTheMarket, Taking, Existing, Agreed
<1> QED
  BY <1>1, <1>7 DEF Deal!DealsNext

LEMMA LeaveIsADeal ==
    ASSUME TypeInv, [MarketNext]_marketVars, NEW s \in Sessions, Abandon(s),
           InCall(s, "acceptTx")
    PROVE  Deal!DealsNext
<1>1. PICK r \in Requests : r = ownerOffer[call[s].offer].request
  BY AcceptanceHasARequest
<1>2. s \in Taking[r] /\ Taking' = [Taking EXCEPT ![r] = Taking[r] \ {s}]
  BY <1>1, TakingEnds DEF Abandon
<1>3. UNCHANGED <<request, connection>>
  BY DEF Abandon
<1>4. Deal!Leave(s, r)
  BY <1>1, <1>2, <1>3 DEF Deal!Leave, Taking, Existing, Agreed
<1> QED
  BY <1>1, <1>4 DEF Deal!DealsNext

LEMMA AcceptanceIsADeal ==
    ASSUME TypeInv, [MarketNext]_marketVars, NEW s \in Sessions, AcceptOfferClaim(s)
    PROVE  Deal!DealsNext
<1> DEFINE o == call[s].offer
<1>1. PICK r \in Requests : r = ownerOffer[o].request
  BY AcceptanceHasARequest DEF AcceptOfferClaim
<1>2. PICK row \in MatchConnection :
          /\ row.request = r /\ row.agreed = FALSE
          /\ row = [tenant |-> UserOf[s], property |-> ownerOffer[o].property,
                    request |-> ownerOffer[o].request, agreed |-> FALSE]
  BY <1>1, AcceptanceHasARequest, AccountsAssumption
  DEF AcceptOfferClaim, OwnerOffer, MatchConnection
<1>3. PICK c \in Connections :
          connection[c] = NULL /\ connection' = [connection EXCEPT ![c] = row]
  BY <1>2 DEF AcceptOfferClaim
<1>4. UNCHANGED request /\ InCall(s, "acceptTx") /\ Finish(s)
  BY DEF AcceptOfferClaim
<1>5. s \in Taking[r] /\ Taking' = [Taking EXCEPT ![r] = Taking[r] \ {s}]
  BY <1>1, <1>4, TakingEnds
<1>6. /\ Opened' = Opened \cup {<<c, r>>}
      /\ AgreedPairs' = AgreedPairs /\ OnTheMarket' = OnTheMarket
      /\ Deal!Unused(c)
  BY <1>2, <1>3, <1>4, OpenAddsAPair
<1>7. Deal!Open(s, c, r)
  BY <1>1, <1>5, <1>6 DEF Deal!Open, OnTheMarket, Taking, Opened, AgreedPairs
<1> QED
  BY <1>1, <1>7 DEF Deal!DealsNext

\* A settlement opens a conversation that is for no request.
LEMMA SettlementIsADeal ==
    ASSUME TypeInv, NEW s \in Sessions, SettleCommit(s), Taking' = Taking
    PROVE  Deal!DealsNext \/ UNCHANGED <<request, connection>>
<1> DEFINE o == call[s].offer
<1>1. tenantOffer[o] \in TenantOffer
  BY CallFields, RowFields
  DEF SettleCommit, InCall, Idle, TypeInv, CallsNameRows, NamesRows
<1>2. PICK row \in MatchConnection :
          /\ row.request = NULL /\ row.agreed = FALSE
          /\ row = [tenant |-> tenantOffer[o].tenant,
                    property |-> tenantOffer[o].property,
                    request |-> NULL, agreed |-> FALSE]
  BY <1>1 DEF TenantOffer, MatchConnection
<1>3. UNCHANGED request
  BY DEF SettleCommit, listings
<1>4. CASE UNCHANGED connection
  BY <1>3, <1>4
<1>5. CASE \E c \in Connections :
               connection[c] = NULL /\ connection' = [connection EXCEPT ![c] = row]
  <2>1. PICK c \in Connections :
            connection[c] = NULL /\ connection' = [connection EXCEPT ![c] = row]
    BY <1>5
  <2>2. /\ Opened' = Opened \cup {<<c, NULL>>}
        /\ AgreedPairs' = AgreedPairs /\ OnTheMarket' = OnTheMarket
        /\ Deal!Unused(c)
    BY <1>2, <1>3, <2>1, OpenAddsAPair
  <2>3. Deal!OpenDirect(c)
    BY <2>2 DEF Deal!OpenDirect, OnTheMarket, Taking, Opened, AgreedPairs
  <2> QED BY <2>3 DEF Deal!DealsNext
<1> QED
  BY <1>2, <1>4, <1>5 DEF SettleCommit

\* The commit of a confirmation agrees one pair that was open and not agreed,
\* and takes its request off the market, where the lock has kept it.
LEMMA ConfirmIsADeal ==
    ASSUME TypeInv, LockInv, NEW s \in Sessions, ConfirmCommit(s), Taking' = Taking
    PROVE  Deal!DealsNext
<1>0. PICK c \in Connections :
          c = call[s].match /\ Existing(c) /\ ~Agreed(c) /\ RequestUnsettled(c)
  BY CallFields DEF ConfirmCommit, InCall, Idle, Confirming, ConfirmStage, TypeInv,
     CallsNameRows, NamesRows, Existing, LockInv, FoundUnspoilt
<1>1. PICK r \in Requests \cup {NULL} :
          /\ r = connection[c].request
          /\ connection[c] \in MatchConnection /\ connection[c] # NULL
          /\ ~connection[c].agreed
  BY <1>0, RowFields DEF Existing, Agreed, TypeInv, MatchConnection
<1>2. /\ \A d \in Connections : d # c => connection'[d] = connection[d]
      /\ connection'[c] = [connection[c] EXCEPT !.agreed = TRUE]
  BY <1>0 DEF ConfirmCommit, TypeInv, MarketTypeOK
<1>3. /\ connection'[c] \in MatchConnection
      /\ connection'[c].request = r /\ connection'[c].agreed
  BY <1>1, <1>2 DEF MatchConnection
<1>4. connection'[c] # NULL
  BY <1>3, NullAssumption
<1>5. Opened' = Opened
  <2>1. \A d \in Connections :
            /\ Existing(d)' <=> Existing(d)
            /\ connection'[d].request = connection[d].request
    BY <1>1, <1>2, <1>3, <1>4 DEF Existing
  <2> QED BY <2>1 DEF Opened
<1>6. AgreedPairs' = AgreedPairs \cup {<<c, r>>}
  <2>1. \A d \in Connections :
            /\ Agreed(d)' <=> Agreed(d) \/ d = c
            /\ connection'[d].request = connection[d].request
    BY <1>1, <1>2, <1>3, <1>4 DEF Existing, Agreed
  <2> QED BY <1>1, <2>1 DEF AgreedPairs
<1>7. /\ r # NULL => r \in OnTheMarket
      /\ OnTheMarket' = OnTheMarket \ {r}
  <2>1. CASE r = NULL
    <3>1. UNCHANGED request
      BY <1>0, <1>1, <2>1 DEF ConfirmCommit
    <3> QED BY <2>1, <3>1, NullAssumption DEF OnTheMarket
  <2>2. CASE r # NULL
    <3>1. /\ request[r] = "APPROVED" /\ r \in Requests
          /\ request' = [request EXCEPT ![r] = "FULFILLED"]
      BY <1>0, <1>1, <2>2 DEF ConfirmCommit, RequestUnsettled, SetRequest
    <3> QED BY <3>1 DEF OnTheMarket, TypeInv, MarketTypeOK
  <2> QED BY <2>1, <2>2
<1>8. <<c, r>> \in Opened /\ <<c, r>> \notin AgreedPairs
  BY <1>1, PairsAreRows DEF Existing, Agreed
<1>9. Deal!Agree(c, r)
  BY <1>5, <1>6, <1>7, <1>8 DEF Deal!Agree, OnTheMarket, Taking, Opened, AgreedPairs
<1> QED
  BY <1>1, <1>9 DEF Deal!DealsNext

LEMMA StepIsADeal ==
    ASSUME TypeInv, LockInv, SettleInv, [MarketNext]_marketVars
    PROVE  \/ Deal!DealsNext
           \/ /\ OnTheMarket' = OnTheMarket /\ Taking' = Taking
              /\ Opened' = Opened /\ AgreedPairs' = AgreedPairs
<1>1. CASE \E s \in Sessions :
               \/ AcceptOfferLook(s) \/ AcceptOfferClaim(s)
               \/ Abandon(s) /\ InCall(s, "acceptTx")
  BY <1>1, LookIsADeal, AcceptanceIsADeal, LeaveIsADeal
<1>2. CASE Taking' = Taking /\ UNCHANGED <<request, connection>>
  BY <1>2 DEF OnTheMarket, Opened, AgreedPairs, Existing, Agreed
<1>3. ASSUME NEW s \in Sessions, NEW r \in Requests,
             CreateRequest(s, r) \/ CloseRequest(s, r), Taking' = Taking
      PROVE  Deal!DealsNext
  <2>1. UNCHANGED connection /\ OnTheMarket' \subseteq OnTheMarket
    BY <1>3 DEF CreateRequest, CloseRequest, SetRequest, offersAndConnections,
       OnTheMarket, TypeInv, MarketTypeOK
  <2> QED BY <1>3, <2>1, WithdrawIsADeal DEF Deal!DealsNext
<1>4. ASSUME NEW u \in Users \ Admins, DeleteAccount(u), Taking' = Taking
      PROVE  Deal!DealsNext
  <2>1. UNCHANGED connection /\ OnTheMarket' \subseteq OnTheMarket
    BY <1>4 DEF DeleteAccount, offersAndConnections, OnTheMarket
  <2> QED BY <1>4, <2>1, WithdrawIsADeal DEF Deal!DealsNext
<1>5. CASE ListingsNext /\ Taking' = Taking
  BY <1>2, <1>3, <1>4, <1>5, ReviewIsADeal
  DEF ListingsNext, ReviewRequestRead, CreateProperty, ArchiveProperty,
      RemoveProperty, UnarchiveProperty, UpdatePropertyRead,
      UpdatePropertyWrite, ReviewPropertyRead, ReviewPropertyWrite,
      offersAndConnections
<1>6. CASE OwnerOfferNext /\ Taking' = Taking
  BY <1>1, <1>2, <1>6
  DEF OwnerOfferNext, CreateOfferRead, CreateOfferWrite, ViewOfferRead,
      ViewOfferWrite, AcceptOfferRead, RejectOffer
<1>7. CASE TenantOfferNext /\ Taking' = Taking
  BY <1>2, <1>7, SettlementIsADeal
  DEF TenantOfferNext, CreateRead, CreateWrite, LandlordDeclineRead,
      LandlordDeclineWrite, LandlordCounterRead, LandlordCounterWrite,
      TenantWithdrawRead, TenantWithdrawWrite, LandlordAccept, TenantAccept,
      StartSettlement, SettleClaim, listings
<1>8. CASE Taking' = Taking
  BY <1>2, <1>5, <1>6, <1>7, <1>8, ConfirmIsADeal
  DEF MarketNext, marketVars, ConfirmClaim, SweepRequest, SweepProperty, SweepOffers,
      Sweep, Abandon, offersAndConnections
<1> QED
  BY <1>1, <1>8, TakingStep

\* When a single session moderates, every behaviour of the two marketplaces is
\* one of the abstract promise to the tenant: a match is opened for a request
\* only by an acceptance that found it on the market, and one of them at most is
\* ever agreed.
THEOREM MarketKeepsDeals ==
    ASSUME OneModerator
    PROVE  MarketSpec => DealsAreKept
<1>1. MarketInit => Deal!DealsInit
  BY DEF MarketInit, Deal!DealsInit, Accepting, InCall, Existing, Agreed
<1>2. TypeInv /\ LockInv /\ SettleInv /\ [MarketNext]_marketVars =>
          [Deal!DealsNext]_<<OnTheMarket, Taking, Opened, AgreedPairs>>
  BY StepIsADeal
<1> QED
  BY <1>1, <1>2, LocksHold, SettleHolds, PTL
  DEF MarketSpec, DealsAreKept, Deal!DealsSpec, Deal!dealVars, OnTheMarket, Taking,
      Opened, AgreedPairs

\* What the promise gives: no state of a behaviour that keeps it has two agreed
\* matches of a request, or an agreed request on the market.
THEOREM KeptDealsAreUnique == Deal!DealsSpec => []Deal!DealsAreUnique
<1>1. Deal!DealsInit => Deal!DealsAreUnique
  BY DEF Deal!DealsInit, Deal!DealsAreUnique, Deal!Settled
<1>2. ASSUME Deal!DealsAreUnique, [Deal!DealsNext]_Deal!dealVars
      PROVE  Deal!DealsAreUnique'
  <2>1. /\ \A r \in Requests : \A c, d \in Connections :
               <<c, r>> \in AgreedPairs /\ <<d, r>> \in AgreedPairs => c = d
        /\ \A r \in OnTheMarket : \A c \in Connections : <<c, r>> \notin AgreedPairs
    BY <1>2 DEF Deal!DealsAreUnique, Deal!Settled, OnTheMarket, AgreedPairs
  <2> DEFINE UniqueNext ==
          /\ \A r \in Requests : \A c, d \in Connections :
                 <<c, r>> \in AgreedPairs' /\ <<d, r>> \in AgreedPairs' => c = d
          /\ \A r \in OnTheMarket' : \A c \in Connections : <<c, r>> \notin AgreedPairs'
  <2>2. SUFFICES UniqueNext
    BY DEF Deal!DealsAreUnique, Deal!Settled, OnTheMarket, AgreedPairs
  <2>3. ASSUME NEW r \in Requests, Deal!Publish(r)
        PROVE  /\ \A c \in Connections : <<c, r>> \notin AgreedPairs
               /\ OnTheMarket' = OnTheMarket \cup {r}
               /\ AgreedPairs' = AgreedPairs
    BY <2>3 DEF Deal!Publish, Deal!Settled, OnTheMarket, AgreedPairs
  <2>4. ASSUME NEW c \in Connections, NEW r \in Requests \cup {NULL},
               Deal!Agree(c, r)
        PROVE  /\ r # NULL => r \in OnTheMarket
               /\ AgreedPairs' = AgreedPairs \cup {<<c, r>>}
               /\ OnTheMarket' = OnTheMarket \ {r}
    BY <2>4 DEF Deal!Agree, OnTheMarket, AgreedPairs
  <2>5. CASE OnTheMarket' \subseteq OnTheMarket /\ AgreedPairs' = AgreedPairs
    BY <2>1, <2>5
  <2>6. \/ \E r \in Requests : Deal!Publish(r)
        \/ \E c \in Connections, r \in Requests \cup {NULL} : Deal!Agree(c, r)
        \/ OnTheMarket' \subseteq OnTheMarket /\ AgreedPairs' = AgreedPairs
    BY <1>2 DEF Deal!DealsNext, Deal!dealVars, Deal!Withdraw, Deal!Look, Deal!Leave,
       Deal!Open, Deal!OpenDirect,
       OnTheMarket, AgreedPairs
  <2>7. ASSUME NEW r \in Requests, Deal!Publish(r) PROVE  UniqueNext
    BY <2>1, <2>3, <2>7
  <2>8. ASSUME NEW c \in Connections, NEW r \in Requests \cup {NULL},
               Deal!Agree(c, r)
        PROVE  UniqueNext
    BY <2>1, <2>4, <2>8, NullAssumption
  <2> QED BY <2>5, <2>6, <2>7, <2>8
<1> QED
  BY <1>1, <1>2, PTL DEF Deal!DealsSpec

----------------------------------------------------------------------------
(* The promise of the reverse marketplace: what Pitches says of an offer   *)
(* on a request, for any number of tabs.                                   *)

DraftOf(s) == <<s, call[s].request, call[s].property>>
Drafts == {DraftOf(s) : s \in {t \in Sessions : InCall(t, "createOffer")}}
LookOf(s) == <<s, call[s].offer>>
Looks == {LookOf(s) : s \in {t \in Sessions : InCall(t, "viewOffer")}}
PitchOf(o) == <<o, ownerOffer[o].request, ownerOffer[o].property>>
Pitched == {PitchOf(o) : o \in {q \in OwnerOffers : ownerOffer[q] # NULL}}
AcceptedPitches ==
    {PitchOf(o) : o \in {q \in OwnerOffers : OwnerOfferIs(q, {"ACCEPTED"})}}
PitchMatches ==
    {<<c, connection[c].request, connection[c].property>> :
        c \in {d \in Connections :
                 /\ Existing(d)
                 /\ connection[d].request # NULL}}

LEMMA PitchesAreRows ==
           /\ \A pitch \in Pitched : \E o \in OwnerOffers :
                  ownerOffer[o] # NULL /\ pitch = PitchOf(o)
           /\ \A pitch \in AcceptedPitches : \E o \in OwnerOffers :
                  OwnerOfferIs(o, {"ACCEPTED"}) /\ pitch = PitchOf(o)
           /\ \A o \in OwnerOffers : ownerOffer[o] # NULL => PitchOf(o) \in Pitched
           /\ \A o \in OwnerOffers :
                  OwnerOfferIs(o, {"ACCEPTED"}) => PitchOf(o) \in AcceptedPitches
           /\ \A match \in PitchMatches : \E c \in Connections :
                  /\ Existing(c) /\ connection[c].request # NULL
                  /\ match = <<c, connection[c].request, connection[c].property>>
BY DEF Pitched, AcceptedPitches, PitchMatches

\* Calls that neither begin nor end leave the drafts and the looks alone.
LEMMA DraftsStay ==
    ASSUME \A u \in Sessions :
               InCall(u, "createOffer") \/ InCall(u, "createOffer")' => call'[u] = call[u]
    PROVE  Drafts' = Drafts
<1>1. \A u \in Sessions :
          /\ InCall(u, "createOffer")' <=> InCall(u, "createOffer")
          /\ InCall(u, "createOffer") => DraftOf(u)' = DraftOf(u)
  BY DEF InCall, DraftOf
<1> QED
  BY <1>1 DEF Drafts

LEMMA LooksStay ==
    ASSUME \A u \in Sessions :
               InCall(u, "viewOffer") \/ InCall(u, "viewOffer")' => call'[u] = call[u]
    PROVE  Looks' = Looks
<1>1. \A u \in Sessions :
          /\ InCall(u, "viewOffer")' <=> InCall(u, "viewOffer")
          /\ InCall(u, "viewOffer") => LookOf(u)' = LookOf(u)
  BY DEF InCall, LookOf
<1> QED
  BY <1>1 DEF Looks

\* One call that ends takes its draft, or its look, with it.
LEMMA DraftEnds ==
    ASSUME NEW s \in Sessions, InCall(s, "createOffer"), ~InCall(s, "createOffer")',
           \A u \in Sessions : u # s => call'[u] = call[u]
    PROVE  DraftOf(s) \in Drafts /\ Drafts' = Drafts \ {DraftOf(s)}
<1>1. \A u \in Sessions : u # s =>
          /\ InCall(u, "createOffer")' <=> InCall(u, "createOffer")
          /\ DraftOf(u)' = DraftOf(u) /\ DraftOf(u) # DraftOf(s)
  BY DEF InCall, DraftOf
<1> QED
  BY <1>1 DEF Drafts

LEMMA LookEnds ==
    ASSUME NEW s \in Sessions, InCall(s, "viewOffer"), ~InCall(s, "viewOffer")',
           \A u \in Sessions : u # s => call'[u] = call[u]
    PROVE  LookOf(s) \in Looks /\ Looks' = Looks \ {LookOf(s)}
<1>1. \A u \in Sessions : u # s =>
          /\ InCall(u, "viewOffer")' <=> InCall(u, "viewOffer")
          /\ LookOf(u)' = LookOf(u) /\ LookOf(u) # LookOf(s)
  BY DEF InCall, LookOf
<1> QED
  BY <1>1 DEF Looks

\* Steps that leave the rows' relations alone.
LEMMA PitchedStays ==
    ASSUME TypeInv, [MarketNext]_marketVars, ~\E s \in Sessions : CreateOfferWrite(s)
    PROVE  Pitched' = Pitched
<1>1. \A o \in OwnerOffers :
          /\ ownerOffer'[o] # NULL <=> ownerOffer[o] # NULL
          /\ ownerOffer[o] # NULL => PitchOf(o)' = PitchOf(o)
  BY OwnerOffersStep DEF PitchOf
<1> QED BY <1>1 DEF Pitched

LEMMA AcceptedStays ==
    ASSUME TypeInv, LockInv, [MarketNext]_marketVars,
           ~\E s \in Sessions : AcceptOfferClaim(s) \/ ViewOfferWrite(s)
    PROVE  AcceptedPitches' = AcceptedPitches
<1>1. ASSUME NEW s \in Sessions, ConfirmCommit(s), NEW o \in call[s].rejected,
             OwnerOfferIs(o, {"ACCEPTED"})
      PROVE  FALSE
  BY <1>1 DEF ConfirmCommit, InCall, Confirming, ConfirmStage, LockInv, FoundUnspoilt,
     OwnerOfferIs, OpenOwnerOffer
<1>2. \A o \in OwnerOffers :
          /\ OwnerOfferIs(o, {"ACCEPTED"})' <=> OwnerOfferIs(o, {"ACCEPTED"})
          /\ ownerOffer[o] # NULL => PitchOf(o)' = PitchOf(o)
  BY <1>1, OwnerOffersStep DEF PitchOf
<1>3. \A o \in OwnerOffers : OwnerOfferIs(o, {"ACCEPTED"}) => ownerOffer[o] # NULL
  BY DEF OwnerOfferIs
<1> QED BY <1>2, <1>3 DEF AcceptedPitches

LEMMA MatchesStay ==
    ASSUME TypeInv, [MarketNext]_marketVars, ~\E s \in Sessions : AcceptOfferClaim(s)
    PROVE  PitchMatches' = PitchMatches
<1>1. \A c \in Connections :
          /\ Existing(c)' /\ connection'[c].request # NULL
                 <=> Existing(c) /\ connection[c].request # NULL
          /\ Existing(c) => /\ connection'[c].request = connection[c].request
                            /\ connection'[c].property = connection[c].property
  BY ConnectionsStep
<1> QED BY <1>1 DEF PitchMatches

\* createOffer's checks found no offer of the landlord on the request.
LEMMA CheckIsADraft ==
    ASSUME TypeInv, NEW s \in Sessions, NEW r \in Requests, NEW p \in Properties,
           CreateOfferRead(s, r, p)
    PROVE  OwnerPitch!PitchesNext
<1> DEFINE new == [op |-> "createOffer", request |-> r, property |-> p]
<1>1. new \in Call
  BY DEF Call
<1>2. /\ call'[s] = new /\ Idle(s)
      /\ \A u \in Sessions : u # s => call'[u] = call[u]
      /\ UNCHANGED <<ownerOffer, connection>>
  BY DEF CreateOfferRead, Start, TypeInv, MarketTypeOK
<1>3. InCall(s, "createOffer")' /\ DraftOf(s)' = <<s, r, p>>
  BY <1>1, <1>2, NullAssumption DEF InCall, DraftOf
<1>4. Drafts' = Drafts \cup {<<s, r, p>>}
  <2>1. \A u \in Sessions : u # s =>
            /\ InCall(u, "createOffer")' <=> InCall(u, "createOffer")
            /\ DraftOf(u)' = DraftOf(u)
    BY <1>2 DEF InCall, DraftOf
  <2>2. ~InCall(s, "createOffer")
    BY <1>2 DEF InCall, Idle
  <2> QED BY <1>3, <2>1, <2>2 DEF Drafts
<1>5. Looks' = Looks
  BY <1>2, LooksStay DEF InCall, Idle
<1>6. \A pitch \in Pitched : pitch[2] = r => OwnerOf[pitch[3]] # OwnerOf[p]
  <2> SUFFICES ASSUME NEW q \in OwnerOffers, ownerOffer[q] # NULL,
                      ownerOffer[q].request = r
               PROVE  OwnerOf[ownerOffer[q].property] # OwnerOf[p]
    BY PitchesAreRows DEF PitchOf
  <2> QED BY DEF CreateOfferRead, NoOfferYet
<1>7. /\ Pitched' = Pitched /\ AcceptedPitches' = AcceptedPitches
      /\ PitchMatches' = PitchMatches
  BY <1>2 DEF Pitched, AcceptedPitches, PitchMatches, PitchOf, OwnerOfferIs, Existing
<1>8. OwnerPitch!Draft(s, r, p)
  BY <1>4, <1>5, <1>6, <1>7
  DEF OwnerPitch!Draft, Drafts, Looks, Pitched, AcceptedPitches, PitchMatches,
      DraftOf, LookOf, PitchOf
<1> QED
  BY <1>8 DEF OwnerPitch!PitchesNext

\* The quota transaction inserts the offer that was drafted.
LEMMA CreationIsAPitch ==
    ASSUME TypeInv, NEW s \in Sessions, CreateOfferWrite(s)
    PROVE  OwnerPitch!PitchesNext
<1>1. PICK draft \in Drafts : draft = DraftOf(s)
  BY DEF CreateOfferWrite, Drafts
<1>2. call[s].request \in Requests /\ call[s].property \in Properties
  BY CallFields DEF CreateOfferWrite, InCall, Idle, TypeInv
<1> DEFINE row == [request |-> call[s].request, property |-> call[s].property,
                   status |-> "SENT"]
<1>3. PICK o \in OwnerOffers :
          ownerOffer[o] = NULL /\ ownerOffer' = [ownerOffer EXCEPT ![o] = row]
  BY DEF CreateOfferWrite
<1>4. row \in OwnerOffer /\ row # NULL
  BY <1>2, NullAssumption DEF OwnerOffer, OpenOwnerOffer
<1>5. /\ ownerOffer'[o] = row
      /\ \A q \in OwnerOffers : q # o => ownerOffer'[q] = ownerOffer[q]
  BY <1>3 DEF TypeInv, MarketTypeOK
<1>6. PitchOf(o)' = <<o, draft[2], draft[3]>> /\ ~OwnerOfferIs(o, {"ACCEPTED"})'
  BY <1>1, <1>5 DEF PitchOf, DraftOf, OwnerOfferIs
<1>7. \A q \in OwnerOffers \ {o} :
          /\ PitchOf(q)' = PitchOf(q)
          /\ ownerOffer'[q] # NULL <=> ownerOffer[q] # NULL
          /\ OwnerOfferIs(q, {"ACCEPTED"})' <=> OwnerOfferIs(q, {"ACCEPTED"})
  BY <1>5 DEF PitchOf, OwnerOfferIs
<1>8. ownerOffer'[o] # NULL
  BY <1>4, <1>5
<1> HIDE DEF row
<1>9. Pitched' = Pitched \cup {<<o, draft[2], draft[3]>>}
  BY <1>3, <1>6, <1>7, <1>8 DEF Pitched
<1>10. AcceptedPitches' = AcceptedPitches
  <2>1. ~OwnerOfferIs(o, {"ACCEPTED"})
    BY <1>3 DEF OwnerOfferIs
  <2> QED BY <1>6, <1>7, <2>1 DEF AcceptedPitches
<1>11. PitchMatches' = PitchMatches
  BY DEF CreateOfferWrite, PitchMatches, Existing
<1>12. /\ InCall(s, "createOffer") /\ ~InCall(s, "createOffer")'
       /\ ~InCall(s, "viewOffer") /\ ~InCall(s, "viewOffer")'
       /\ \A u \in Sessions : u # s => call'[u] = call[u]
  BY DEF CreateOfferWrite, Finish, InCall, TypeInv, MarketTypeOK
<1>13. Drafts' = Drafts \ {draft} /\ Looks' = Looks
  BY <1>1, <1>12, DraftEnds, LooksStay
<1>14. \A pitch \in Pitched : pitch[1] # o
  BY <1>3, PitchesAreRows DEF PitchOf
<1>15. OwnerPitch!Pitch(draft, o)
  BY <1>9, <1>10, <1>11, <1>13, <1>14
  DEF OwnerPitch!Pitch, Drafts, Looks, Pitched, AcceptedPitches, PitchMatches,
      DraftOf, LookOf, PitchOf
<1> QED
  BY <1>15 DEF OwnerPitch!PitchesNext, Drafts, DraftOf

\* viewOffer reads an offer that is SENT.
LEMMA ViewIsALook ==
    ASSUME TypeInv, NEW s \in Sessions, NEW o \in OwnerOffers, ViewOfferRead(s, o)
    PROVE  OwnerPitch!PitchesNext
<1> DEFINE new == [op |-> "viewOffer", offer |-> o]
<1>1. new \in Call
  BY DEF Call
<1>2. /\ call'[s] = new /\ Idle(s)
      /\ \A u \in Sessions : u # s => call'[u] = call[u]
      /\ UNCHANGED <<ownerOffer, connection>>
      /\ ownerOffer[o] # NULL /\ ~OwnerOfferIs(o, {"ACCEPTED"})
  BY DEF ViewOfferRead, OwnerOfferIs, Start, TypeInv, MarketTypeOK
<1>3. InCall(s, "viewOffer")' /\ LookOf(s)' = <<s, o>>
  BY <1>1, <1>2, NullAssumption DEF InCall, LookOf
<1>4. Looks' = Looks \cup {<<s, o>>}
  <2>1. \A u \in Sessions : u # s =>
            /\ InCall(u, "viewOffer")' <=> InCall(u, "viewOffer")
            /\ LookOf(u)' = LookOf(u)
    BY <1>2 DEF InCall, LookOf
  <2>2. ~InCall(s, "viewOffer")
    BY <1>2 DEF InCall, Idle
  <2> QED BY <1>3, <2>1, <2>2 DEF Looks
<1>5. Drafts' = Drafts
  BY <1>2, DraftsStay DEF InCall, Idle
<1>6. PICK pitch \in Pitched :
          pitch = PitchOf(o) /\ pitch \notin AcceptedPitches /\ pitch[1] = o
  BY <1>2, PitchesAreRows DEF PitchOf
<1>7. /\ Pitched' = Pitched /\ AcceptedPitches' = AcceptedPitches
      /\ PitchMatches' = PitchMatches
  BY <1>2 DEF Pitched, AcceptedPitches, PitchMatches, PitchOf, OwnerOfferIs, Existing
<1>8. OwnerPitch!Look(s, pitch)
  BY <1>4, <1>5, <1>6, <1>7
  DEF OwnerPitch!Look, Drafts, Looks, Pitched, AcceptedPitches, PitchMatches,
      DraftOf, LookOf, PitchOf
<1> QED
  BY <1>6, <1>8 DEF OwnerPitch!PitchesNext, Pitched, PitchOf

\* viewOffer writes VIEWED over whatever became of the offer.
LEMMA LateViewIsALookAway ==
    ASSUME TypeInv, NEW s \in Sessions, ViewOfferWrite(s)
    PROVE  OwnerPitch!PitchesNext
<1>1. PICK o \in OwnerOffers :
          o = call[s].offer /\ ownerOffer[o] \in OwnerOffer /\ ownerOffer[o] # NULL
  BY CallFields, RowFields DEF ViewOfferWrite, InCall, Idle, TypeInv, CallsNameRows,
     NamesRows
<1>0. LookOf(s) \in Looks /\ LookOf(s)[2] = o
  <2>1. s \in {t \in Sessions : InCall(t, "viewOffer")}
    BY DEF ViewOfferWrite
  <2>2. LookOf(s) \in Looks
    BY <2>1 DEF Looks
  <2> QED BY <1>1, <2>2 DEF LookOf
<1>2. PICK look \in Looks : look = LookOf(s) /\ look[2] = o
  BY <1>0
<1>3. /\ InCall(s, "viewOffer") /\ ~InCall(s, "viewOffer")'
      /\ ~InCall(s, "createOffer") /\ ~InCall(s, "createOffer")'
      /\ \A u \in Sessions : u # s => call'[u] = call[u]
      /\ UNCHANGED connection
  BY DEF ViewOfferWrite, Finish, InCall, TypeInv, MarketTypeOK
<1>4. Looks' = Looks \ {look} /\ Drafts' = Drafts
  BY <1>2, <1>3, LookEnds, DraftsStay
<1>5. /\ ownerOffer'[o] = [ownerOffer[o] EXCEPT !.status = "VIEWED"]
      /\ \A q \in OwnerOffers : q # o => ownerOffer'[q] = ownerOffer[q]
  BY <1>1 DEF ViewOfferWrite, SetOwnerOffer, TypeInv, MarketTypeOK
<1>6. /\ ownerOffer'[o] \in OwnerOffer /\ ownerOffer'[o].status = "VIEWED"
      /\ PitchOf(o)' = PitchOf(o)
  BY <1>1, <1>5 DEF OwnerOffer, OpenOwnerOffer, PitchOf
<1>7. ownerOffer'[o] # NULL /\ ~OwnerOfferIs(o, {"ACCEPTED"})'
  BY <1>6, NullAssumption DEF OwnerOfferIs
<1>8. \A q \in OwnerOffers \ {o} :
          /\ PitchOf(q)' = PitchOf(q)
          /\ ownerOffer'[q] # NULL <=> ownerOffer[q] # NULL
          /\ OwnerOfferIs(q, {"ACCEPTED"})' <=> OwnerOfferIs(q, {"ACCEPTED"})
  BY <1>5 DEF PitchOf, OwnerOfferIs
<1>9. Pitched' = Pitched
  BY <1>1, <1>6, <1>7, <1>8 DEF Pitched
<1>10. AcceptedPitches' = {pitch \in AcceptedPitches : pitch[1] # o}
  <2>1. \A q \in OwnerOffers : PitchOf(q)[1] = q
    BY DEF PitchOf
  <2> QED BY <1>7, <1>8, <2>1 DEF AcceptedPitches
<1>11. PitchMatches' = PitchMatches
  BY <1>3 DEF PitchMatches, Existing
<1>12. AcceptedPitches'
           \in {AcceptedPitches, {pitch \in AcceptedPitches : pitch[1] # look[2]}}
  BY <1>2, <1>10
<1>13. OwnerPitch!LookAway(look)
  BY <1>4, <1>9, <1>11, <1>12
  DEF OwnerPitch!LookAway, Drafts, Looks, Pitched, AcceptedPitches, PitchMatches,
      DraftOf, LookOf, PitchOf
<1> QED
  BY <1>13 DEF OwnerPitch!PitchesNext, Looks, LookOf

\* A call that is abandoned.
LEMMA AbandonedPitchCalls ==
    ASSUME TypeInv, NEW s \in Sessions, Abandon(s),
           InCall(s, "createOffer") \/ InCall(s, "viewOffer")
    PROVE  OwnerPitch!PitchesNext
<1>1. /\ \A u \in Sessions : u # s => call'[u] = call[u]
      /\ ~InCall(s, "createOffer")' /\ ~InCall(s, "viewOffer")'
      /\ UNCHANGED <<ownerOffer, connection>>
  BY DEF Abandon, Finish, InCall, TypeInv, MarketTypeOK
<1>2. /\ Pitched' = Pitched /\ AcceptedPitches' = AcceptedPitches
      /\ PitchMatches' = PitchMatches
  BY <1>1 DEF Pitched, AcceptedPitches, PitchMatches, PitchOf, OwnerOfferIs, Existing
<1>3. CASE InCall(s, "createOffer")
  <2>1. PICK draft \in Drafts : Drafts' = Drafts \ {draft}
    BY <1>1, <1>3, DraftEnds
  <2>2. Looks' = Looks
    BY <1>1, <1>3, LooksStay DEF InCall
  <2>3. OwnerPitch!Discard(draft)
    BY <1>2, <2>1, <2>2
    DEF OwnerPitch!Discard, Drafts, Looks, Pitched, AcceptedPitches, PitchMatches,
        DraftOf, LookOf, PitchOf
  <2> QED
    BY <2>3 DEF OwnerPitch!PitchesNext, Drafts, DraftOf
<1>4. CASE InCall(s, "viewOffer")
  <2>1. PICK look \in Looks : Looks' = Looks \ {look}
    BY <1>1, <1>4, LookEnds
  <2>2. Drafts' = Drafts
    BY <1>1, <1>4, DraftsStay DEF InCall
  <2>3. OwnerPitch!LookAway(look)
    BY <1>2, <2>1, <2>2
    DEF OwnerPitch!LookAway, Drafts, Looks, Pitched, AcceptedPitches, PitchMatches,
        DraftOf, LookOf, PitchOf
  <2> QED
    BY <2>3 DEF OwnerPitch!PitchesNext, Looks, LookOf
<1> QED
  BY <1>3, <1>4

\* The acceptance takes a pitch that is not accepted and opens its match.
LEMMA AcceptanceIsAPitch ==
    ASSUME TypeInv, NEW s \in Sessions, AcceptOfferClaim(s)
    PROVE  OwnerPitch!PitchesNext
<1>1. PICK o \in OwnerOffers : o = call[s].offer /\ ownerOffer[o] \in OwnerOffer
  BY CallFields, RowFields DEF AcceptOfferClaim, InCall, Idle, TypeInv, CallsNameRows, NamesRows
<1>2. PICK pitch \in Pitched : pitch = PitchOf(o)
  BY <1>1, PitchesAreRows, NullAssumption
<1> DEFINE row == [tenant |-> UserOf[s], property |-> ownerOffer[o].property,
                   request |-> ownerOffer[o].request, agreed |-> FALSE]
<1>3. PICK c \in Connections :
          connection[c] = NULL /\ connection' = [connection EXCEPT ![c] = row]
  BY <1>1 DEF AcceptOfferClaim
<1>4. /\ row \in MatchConnection /\ row # NULL /\ row.request # NULL
      /\ row.request = pitch[2] /\ row.property = pitch[3]
  <2>1. row \in MatchConnection /\ row.request \in Requests
    BY <1>1, AccountsAssumption DEF OwnerOffer, MatchConnection
  <2>2. row # NULL /\ row.request # NULL
    <3> HIDE DEF row
    <3> QED BY <2>1, NullAssumption
  <2>3. pitch[2] = ownerOffer[o].request /\ pitch[3] = ownerOffer[o].property
    BY <1>2 DEF PitchOf
  <2> QED BY <2>1, <2>2, <2>3
<1> HIDE DEF row
<1>5. /\ connection'[c] = row
      /\ \A d \in Connections : d # c => connection'[d] = connection[d]
  BY <1>3 DEF TypeInv, MarketTypeOK
<1>6. PitchMatches' = PitchMatches \cup {<<c, pitch[2], pitch[3]>>}
  <2>1. \A d \in Connections \ {c} :
            /\ connection'[d] = connection[d]
            /\ Existing(d)' <=> Existing(d)
    BY <1>5 DEF Existing
  <2>2. ~Existing(c) /\ Existing(c)'
    BY <1>3, <1>4, <1>5 DEF Existing
  <2> QED BY <1>4, <1>5, <2>1, <2>2 DEF PitchMatches
<1>7. \A match \in PitchMatches : match[1] # c
  BY <1>3, PitchesAreRows DEF Existing
<1>8. /\ ~OwnerOfferIs(o, {"ACCEPTED"})
      /\ ownerOffer' = [ownerOffer EXCEPT ![o] =
             [ownerOffer[o] EXCEPT !.status = "ACCEPTED"]]
  BY <1>1 DEF AcceptOfferClaim, SetOwnerOffer, OwnerOfferIs, OpenOwnerOffer,
     TypeInv, MarketTypeOK
<1>9. /\ ownerOffer'[o] \in OwnerOffer /\ ownerOffer'[o].status = "ACCEPTED"
      /\ PitchOf(o)' = pitch
  BY <1>1, <1>2, <1>8 DEF OwnerOffer, PitchOf, TypeInv, MarketTypeOK
<1>10. \A q \in OwnerOffers \ {o} :
           /\ ownerOffer'[q] = ownerOffer[q] /\ PitchOf(q)' = PitchOf(q)
           /\ OwnerOfferIs(q, {"ACCEPTED"})' <=> OwnerOfferIs(q, {"ACCEPTED"})
  BY <1>1, <1>8 DEF OwnerOfferIs, PitchOf, TypeInv, MarketTypeOK
<1>11. ownerOffer[o] # NULL /\ ownerOffer'[o] # NULL
       /\ OwnerOfferIs(o, {"ACCEPTED"})'
  BY <1>1, <1>9, NullAssumption DEF OwnerOfferIs
<1>12. AcceptedPitches' = AcceptedPitches \cup {pitch}
  BY <1>8, <1>9, <1>10, <1>11 DEF AcceptedPitches
<1>13. Pitched' = Pitched
  BY <1>2, <1>9, <1>10, <1>11 DEF Pitched
<1>14. pitch \notin AcceptedPitches
  BY <1>2, <1>8, PitchesAreRows DEF PitchOf
<1>15. Drafts' = Drafts /\ Looks' = Looks
  <2>1. /\ ~InCall(s, "createOffer") /\ ~InCall(s, "createOffer")'
        /\ ~InCall(s, "viewOffer") /\ ~InCall(s, "viewOffer")'
        /\ \A u \in Sessions : u # s => call'[u] = call[u]
    BY DEF AcceptOfferClaim, Finish, InCall, TypeInv, MarketTypeOK
  <2> QED BY <2>1, DraftsStay, LooksStay
<1>16. OwnerPitch!Accept(pitch, c)
  BY <1>6, <1>7, <1>12, <1>13, <1>14, <1>15
  DEF OwnerPitch!Accept, Drafts, Looks, Pitched, AcceptedPitches, PitchMatches,
      DraftOf, LookOf, PitchOf
<1>17. \E p \in Pitched, d \in Connections : OwnerPitch!Accept(p, d)
  BY <1>16
<1> QED
  BY <1>17 DEF OwnerPitch!PitchesNext, Pitched, PitchOf

LEMMA StepIsAPitch ==
    ASSUME TypeInv, LockInv, [MarketNext]_marketVars
    PROVE  \/ OwnerPitch!PitchesNext
           \/ UNCHANGED <<Drafts, Pitched, Looks, AcceptedPitches, PitchMatches>>
<1>1. CASE \/ \E s \in Sessions, r \in Requests, p \in Properties :
                 CreateOfferRead(s, r, p)
           \/ \E s \in Sessions, o \in OwnerOffers : ViewOfferRead(s, o)
           \/ \E s \in Sessions :
                  \/ CreateOfferWrite(s) \/ ViewOfferWrite(s) \/ AcceptOfferClaim(s)
                  \/ Abandon(s) /\ (InCall(s, "createOffer") \/ InCall(s, "viewOffer"))
  BY <1>1, CheckIsADraft, ViewIsALook, CreationIsAPitch, LateViewIsALookAway,
     AcceptanceIsAPitch, AbandonedPitchCalls
<1>2. CASE ~(\/ \E s \in Sessions, r \in Requests, p \in Properties :
                    CreateOfferRead(s, r, p)
             \/ \E s \in Sessions, o \in OwnerOffers : ViewOfferRead(s, o)
             \/ \E s \in Sessions :
                    \/ CreateOfferWrite(s) \/ ViewOfferWrite(s) \/ AcceptOfferClaim(s)
                    \/ Abandon(s) /\ (InCall(s, "createOffer") \/ InCall(s, "viewOffer")))
  <2>1. Drafts' = Drafts /\ Looks' = Looks
    BY <1>2, OfferCallsStep, DraftsStay, LooksStay
  <2>2. Pitched' = Pitched /\ PitchMatches' = PitchMatches
    BY <1>2, PitchedStays, MatchesStay
  <2>3. AcceptedPitches' = AcceptedPitches
    BY <1>2, AcceptedStays
  <2> QED BY <2>1, <2>2, <2>3
<1> QED
  BY <1>1, <1>2

\* Whatever the tabs of both sides do at once, every behaviour of the two
\* marketplaces is one of the abstract promise of a pitch: a further offer of a
\* landlord on a request was checked before the first was there, an acceptance
\* opens its conversation in the same step, and only a view that read the offer
\* before undoes it - no rejection, no sweep of a confirmation does.
THEOREM MarketKeepsPitches == MarketSpec => PitchesAreKept
<1>1. MarketInit => OwnerPitch!PitchesInit
  BY DEF MarketInit, OwnerPitch!PitchesInit, Existing, OwnerOfferIs, InCall
<1>2. TypeInv /\ LockInv /\ [MarketNext]_marketVars =>
          [OwnerPitch!PitchesNext]_
              <<Drafts, Pitched, Looks, AcceptedPitches, PitchMatches>>
  BY StepIsAPitch
<1> QED
  BY <1>1, <1>2, LocksHold, PTL
  DEF MarketSpec, PitchesAreKept, OwnerPitch!PitchesSpec, OwnerPitch!pitchVars,
      Drafts, Looks, Pitched, AcceptedPitches, PitchMatches, DraftOf, LookOf, PitchOf

\* The request and the property of pitches and of matches.
Subjects(S) == {<<x[2], x[3]>> : x \in S}

\* What the promise gives: an acceptance has its conversation, and a tenant's
\* request has conversations only about properties that were offered for it.
THEOREM KeptPitchesAreTalkedAbout ==
    OwnerPitch!PitchesSpec => []OwnerPitch!AcceptancesAreTalkedAbout
<1> DEFINE Talked == /\ AcceptedPitches \subseteq Pitched
                     /\ Subjects(AcceptedPitches) \subseteq Subjects(PitchMatches)
                     /\ Subjects(PitchMatches) \subseteq Subjects(Pitched)
<1>1. /\ Talked <=> OwnerPitch!AcceptancesAreTalkedAbout
      /\ Talked' <=> OwnerPitch!AcceptancesAreTalkedAbout'
  BY DEF OwnerPitch!AcceptancesAreTalkedAbout, Subjects, Pitched, AcceptedPitches,
     PitchMatches, PitchOf
<1>2. OwnerPitch!PitchesInit => Talked
  BY DEF OwnerPitch!PitchesInit, Subjects, Pitched, AcceptedPitches, PitchMatches,
     PitchOf
<1>3. ASSUME Talked, [OwnerPitch!PitchesNext]_OwnerPitch!pitchVars
      PROVE  Talked'
  <2>1. CASE /\ Pitched \subseteq Pitched' /\ AcceptedPitches' \subseteq AcceptedPitches
             /\ PitchMatches' = PitchMatches
    BY <1>3, <2>1 DEF Subjects
  <2>2. ASSUME NEW pitch \in Pitched, NEW c \in Connections,
               OwnerPitch!Accept(pitch, c)
        PROVE  Talked'
    <3>1. PICK new :
              /\ new[2] = pitch[2] /\ new[3] = pitch[3]
              /\ PitchMatches' = PitchMatches \cup {new}
              /\ AcceptedPitches' = AcceptedPitches \cup {pitch}
              /\ Pitched' = Pitched
      <4>1. /\ PitchMatches' = PitchMatches \cup {<<c, pitch[2], pitch[3]>>}
            /\ AcceptedPitches' = AcceptedPitches \cup {pitch}
            /\ Pitched' = Pitched
        BY <2>2 DEF OwnerPitch!Accept, Pitched, AcceptedPitches, PitchMatches, PitchOf
      <4> QED BY <4>1
    <3>2. /\ Subjects(PitchMatches') = Subjects(PitchMatches) \cup {<<pitch[2], pitch[3]>>}
          /\ Subjects(AcceptedPitches')
                 = Subjects(AcceptedPitches) \cup {<<pitch[2], pitch[3]>>}
      BY <3>1 DEF Subjects
    <3>3. <<pitch[2], pitch[3]>> \in Subjects(Pitched)
      BY DEF Subjects
    <3> QED BY <1>3, <3>1, <3>2, <3>3
  <2>3. \/ /\ Pitched \subseteq Pitched' /\ AcceptedPitches' \subseteq AcceptedPitches
           /\ PitchMatches' = PitchMatches
        \/ \E pitch \in Pitched, c \in Connections : OwnerPitch!Accept(pitch, c)
    BY <1>3 DEF OwnerPitch!PitchesNext, OwnerPitch!pitchVars, OwnerPitch!Draft,
       OwnerPitch!Discard, OwnerPitch!Pitch, OwnerPitch!Look, OwnerPitch!LookAway,
       Pitched, AcceptedPitches, PitchMatches, PitchOf
  <2> QED BY <2>1, <2>2, <2>3
<1> QED
  BY <1>1, <1>2, <1>3, PTL DEF OwnerPitch!PitchesSpec

----------------------------------------------------------------------------
(* The promise of the forward marketplace: what Bargains says of an offer. *)

\* The row lock: one transaction at a time is past its guarded update of an
\* offer, and nobody was told of the offer before it commits.
ClaimsAreExclusive ==
    \A s, u \in Sessions :
        InCall(s, "settleTx") /\ InCall(u, "settleTx") /\ call[s].offer = call[u].offer
            => s = u

ClaimsAreUnsettled ==
    \A s \in Sessions : InCall(s, "settleTx") => told[call[s].offer] = NULL

SettledAreClosed ==
    \A o \in TenantOffers : told[o] # NULL => ~TenantOfferIs(o, OpenTenantOffer)

\* A counter under way finds no counter price on the row, whatever became of
\* the row's status.
CountersAreOnlyOnes ==
    \A s \in Sessions :
        InCall(s, "landlordCounter") => tenantOffer[call[s].offer].counterPrice = NULL

ClaimInv ==
    /\ ClaimsAreExclusive
    /\ ClaimsAreUnsettled
    /\ SettledAreClosed
    /\ CountersAreOnlyOnes

LEMMA ClaimStep ==
    ASSUME OneLandlordTab, TypeInv, DirectInv, PriceInv, ClaimInv,
           [MarketNext]_marketVars
    PROVE  ClaimInv'
<1>1. call \in [Sessions -> Call \cup {NULL}]
  BY DEF TypeInv, MarketTypeOK
<1>2. SettledAreClosed'
  <2> SUFFICES ASSUME NEW o \in TenantOffers, told'[o] # NULL,
                      tenantOffer'[o].status \in OpenTenantOffer
               PROVE  FALSE
    BY DEF SettledAreClosed, TenantOfferIs
  <2>1. told'[o] = told[o] /\ tenantOffer[o] # NULL
    BY ToldStep DEF OpenTenantOffer, DirectInv, ToldHaveRows
  <2>2. tenantOffer[o].status \notin OpenTenantOffer
    BY <2>1 DEF ClaimInv, SettledAreClosed, TenantOfferIs
  <2>3. PICK s \in Sessions : LandlordCounterWrite(s) /\ call[s].offer = o
    BY <2>1, <2>2, TenantOffersStep DEF OpenTenantOffer
  <2> QED BY <2>1, <2>3 DEF LandlordCounterWrite, PriceInv, CountersAreFirst
\* A claim that is made finds the row open and nobody in another transaction.
<1>3. ASSUME NEW u \in Sessions, InCall(u, "settleTx")', call'[u] # call[u]
      PROVE  /\ told'[call'[u].offer] = NULL
             /\ \A s \in Sessions \ {u} :
                    /\ call'[s] = call[s]
                    /\ InCall(s, "settleTx") => call[s].offer # call'[u].offer
  <2>1. SettleClaim(u) /\ call'[u].offer = call[u].offer
    BY <1>3, SettlementsBegin
  <2>2. /\ call[u].offer \in TenantOffers
        /\ ~RowLocked(call[u].offer)
        /\ TenantOfferIs(call[u].offer, OpenTenantOffer)
        /\ UNCHANGED told
    BY <2>1, CallFields DEF SettleClaim, InCall, Idle, TypeInv
  <2>3. told[call[u].offer] = NULL
    BY <2>2 DEF ClaimInv, SettledAreClosed
  <2>4. \A s \in Sessions \ {u} : call'[s] = call[s]
    BY <1>1, <2>1 DEF SettleClaim
  <2> QED BY <2>1, <2>2, <2>3, <2>4 DEF RowLocked
<1>4. ClaimsAreExclusive'
  <2> SUFFICES ASSUME NEW s \in Sessions, NEW u \in Sessions, s # u,
                      InCall(s, "settleTx")', InCall(u, "settleTx")',
                      call'[s].offer = call'[u].offer
               PROVE  FALSE
    BY DEF ClaimsAreExclusive
  <2>1. CASE call'[s] = call[s] /\ call'[u] = call[u]
    BY <2>1 DEF InCall, ClaimInv, ClaimsAreExclusive
  <2>2. CASE call'[s] # call[s]
    BY <1>3, <2>2 DEF InCall
  <2>3. CASE call'[u] # call[u]
    BY <1>3, <2>3 DEF InCall
  <2> QED BY <2>1, <2>2, <2>3
<1>5. ClaimsAreUnsettled'
  <2> SUFFICES ASSUME NEW u \in Sessions, InCall(u, "settleTx")'
               PROVE  told'[call'[u].offer] = NULL
    BY DEF ClaimsAreUnsettled
  <2>1. CASE call'[u] = call[u]
    <3>1. /\ InCall(u, "settleTx") /\ call[u].offer \in TenantOffers
          /\ told[call[u].offer] = NULL
      BY <2>1, CallFields DEF InCall, Idle, TypeInv, ClaimInv, ClaimsAreUnsettled
    <3>2. ASSUME NEW s \in Sessions, SettleCommit(s), call[s].offer = call[u].offer
          PROVE  FALSE
      <4>1. s = u
        BY <3>1, <3>2 DEF SettleCommit, ClaimInv, ClaimsAreExclusive
      <4>2. call'[s] = NULL
        BY <1>1, <3>2 DEF SettleCommit, Finish
      <4> QED BY <4>1, <4>2 DEF InCall
    <3> QED BY <2>1, <3>1, <3>2, ToldStep
  <2>2. CASE call'[u] # call[u]
    BY <1>3, <2>2
  <2> QED BY <2>1, <2>2
<1>6. CountersAreOnlyOnes'
  <2> SUFFICES ASSUME NEW u \in Sessions, InCall(u, "landlordCounter")'
               PROVE  tenantOffer'[call'[u].offer].counterPrice = NULL
    BY DEF CountersAreOnlyOnes
  <2>1. CASE call'[u] # call[u]
    <3>1. PICK o \in TenantOffers : LandlordCounterRead(u, o) /\ call'[u].offer = o
      BY <2>1, SettlementsBegin
    <3> QED
      BY <3>1 DEF LandlordCounterRead, PriceInv, PendingAreAsProposed
  <2>2. CASE call'[u] = call[u]
    <3> DEFINE o == call[u].offer
    <3>1. InCall(u, "landlordCounter")
      BY <2>2 DEF InCall
    <3>2. /\ o \in TenantOffers /\ tenantOffer[o] # NULL
          /\ tenantOffer[o].counterPrice = NULL /\ IsLandlord(u, o)
      BY <3>1, CallFields DEF InCall, Idle, TypeInv, CallsNameRows, NamesRows, PriceInv,
         CountersAreFirst, ClaimInv, CountersAreOnlyOnes
    <3>3. ASSUME NEW s \in Sessions, LandlordCounterWrite(s), call[s].offer = o
          PROVE  FALSE
      <4>1. IsLandlord(s, o)
        BY <3>3 DEF LandlordCounterWrite, PriceInv, CountersAreFirst
      <4>2. s = u
        BY <3>2, <4>1, RowFields DEF OneLandlordTab, IsLandlord, TypeInv, TenantOffer
      <4>3. call'[u] = NULL
        BY <1>1, <3>3, <4>2 DEF LandlordCounterWrite, Finish
      <4> QED BY <4>3 DEF InCall
    <3> QED BY <2>2, <3>2, <3>3, TenantOffersStep
  <2> QED BY <2>1, <2>2
<1> QED
  BY <1>2, <1>4, <1>5, <1>6 DEF ClaimInv

LEMMA ClaimsHold ==
    ASSUME OneLandlordTab
    PROVE  MarketSpec => []ClaimInv
<1>1. MarketInit => ClaimInv
  BY DEF MarketInit, ClaimInv, ClaimsAreExclusive, ClaimsAreUnsettled,
     SettledAreClosed, CountersAreOnlyOnes, InCall
<1>2. TypeInv /\ DirectInv /\ PriceInv /\ ClaimInv /\ [MarketNext]_marketVars
          => ClaimInv'
  BY ClaimStep
<1>3. MarketSpec => []PriceInv
  BY PricesHold
<1> QED
  BY <1>1, <1>2, <1>3, TypesHold, DirectHolds, PTL DEF MarketSpec

Between ==
    [o \in TenantOffers |->
        IF tenantOffer[o] = NULL THEN NULL
        ELSE <<tenantOffer[o].tenant, tenantOffer[o].property>>]
Proposed ==
    [o \in TenantOffers |->
        IF tenantOffer[o] = NULL THEN NULL ELSE tenantOffer[o].proposedPrice]
Countered ==
    [o \in TenantOffers |->
        IF tenantOffer[o] = NULL THEN NULL ELSE tenantOffer[o].counterPrice]
Talking ==
    {<<connection[c].tenant, connection[c].property>> :
        c \in {d \in Connections :
                 Existing(d) /\ connection[d].request = NULL}}

\* What the relations say of a row.
LEMMA BargainsAreRows ==
    ASSUME TypeInv, NEW o \in TenantOffers
    PROVE  /\ Proposed[o] = NULL <=> tenantOffer[o] = NULL
           /\ tenantOffer[o] = NULL => Countered[o] = NULL
           /\ tenantOffer[o] # NULL =>
                  /\ Between[o] = <<tenantOffer[o].tenant, tenantOffer[o].property>>
                  /\ Proposed[o] = tenantOffer[o].proposedPrice
                  /\ Countered[o] = tenantOffer[o].counterPrice
<1>1. tenantOffer[o] # NULL => tenantOffer[o].proposedPrice \in Prices
  BY RowFields DEF TypeInv, TenantOffer
<1> QED
  BY <1>1, NullAssumption DEF Proposed, Countered, Between

\* Two tables of offers that agree on what a bargain is about.
LEMMA SameBargains ==
    ASSUME NEW set \in SUBSET TenantOffers,
           \A o \in set :
               \/ tenantOffer'[o] = NULL /\ tenantOffer[o] = NULL
               \/ /\ tenantOffer'[o] # NULL /\ tenantOffer[o] # NULL
                  /\ tenantOffer'[o].tenant = tenantOffer[o].tenant
                  /\ tenantOffer'[o].property = tenantOffer[o].property
                  /\ tenantOffer'[o].proposedPrice = tenantOffer[o].proposedPrice
    PROVE  /\ \A o \in set : Between'[o] = Between[o] /\ Proposed'[o] = Proposed[o]
           /\ set = TenantOffers => Between' = Between /\ Proposed' = Proposed
BY DEF Between, Proposed

\* What leaves the relations alone.
LEMMA BargainsFrame ==
    ASSUME TypeInv, [MarketNext]_marketVars,
           \A s \in Sessions : ~CreateWrite(s) /\ ~LandlordCounterWrite(s)
                               /\ ~SettleCommit(s)
    PROVE  /\ Between' = Between /\ Proposed' = Proposed /\ Countered' = Countered
           /\ told' = told /\ Talking' = Talking
<1>1. \A o \in TenantOffers :
          \/ tenantOffer'[o] = NULL /\ tenantOffer[o] = NULL
          \/ /\ tenantOffer'[o] # NULL /\ tenantOffer[o] # NULL
             /\ tenantOffer'[o].tenant = tenantOffer[o].tenant
             /\ tenantOffer'[o].property = tenantOffer[o].property
             /\ tenantOffer'[o].proposedPrice = tenantOffer[o].proposedPrice
             /\ tenantOffer'[o].counterPrice = tenantOffer[o].counterPrice
  BY TenantOffersStep
<1>2. Between' = Between /\ Proposed' = Proposed
  BY <1>1, SameBargains
<1>3. Countered' = Countered
  BY <1>1 DEF Countered
<1>4. told' = told
  <2>1. told \in [TenantOffers -> Prices \cup {NULL}]
        /\ told' \in [TenantOffers -> Prices \cup {NULL}]
    BY TypeStep DEF TypeInv, MarketTypeOK
  <2>2. \A o \in TenantOffers : told'[o] = told[o]
    BY ToldStep
  <2> QED BY <2>1, <2>2
<1>5. Talking' = Talking
  <2>1. ASSUME NEW s \in Sessions, AcceptOfferClaim(s)
        PROVE  ownerOffer[call[s].offer].request # NULL
    <3>1. ownerOffer[call[s].offer] \in OwnerOffer
      BY <2>1, CallFields, RowFields
      DEF AcceptOfferClaim, InCall, Idle, TypeInv, CallsNameRows, NamesRows
    <3> QED BY <3>1, NullAssumption DEF OwnerOffer
  <2>2. ASSUME NEW c \in Connections, ~Existing(c), Existing(c)'
        PROVE  connection'[c].request # NULL
    <3>1. PICK s \in Sessions :
              /\ AcceptOfferClaim(s)
              /\ connection' = [connection EXCEPT ![c] =
                     [tenant |-> UserOf[s],
                      property |-> ownerOffer[call[s].offer].property,
                      request |-> ownerOffer[call[s].offer].request,
                      agreed |-> FALSE]]
      BY <2>2, ConnectionsStep
    <3> QED BY <2>1, <3>1 DEF TypeInv, MarketTypeOK
  <2>3. \A c \in Connections :
            /\ Existing(c)' /\ connection'[c].request = NULL
                   <=> Existing(c) /\ connection[c].request = NULL
            /\ Existing(c) => /\ connection'[c].tenant = connection[c].tenant
                              /\ connection'[c].property = connection[c].property
    BY <2>2, ConnectionsStep
  <2> QED BY <2>3 DEF Talking
<1> QED
  BY <1>2, <1>3, <1>4, <1>5

\* A tenant's new offer.
LEMMA CreationIsABargain ==
    ASSUME TypeInv, NEW s \in Sessions, CreateWrite(s)
    PROVE  Bargain!BargainsNext
<1>1. PICK pair \in Users \X Properties : pair = <<UserOf[s], call[s].property>>
  BY CallFields, AccountsAssumption DEF CreateWrite, InCall, Idle, TypeInv
<1>2. PICK o \in TenantOffers, price \in Prices :
          /\ tenantOffer[o] = NULL
          /\ tenantOffer' = [tenantOffer EXCEPT ![o] =
                 [tenant |-> UserOf[s], property |-> call[s].property,
                  status |-> "PENDING", proposedPrice |-> price,
                  counterPrice |-> NULL]]
  BY DEF CreateWrite
<1>3. /\ tenantOffer'[o].tenant = UserOf[s]
      /\ tenantOffer'[o].property = call[s].property
      /\ tenantOffer'[o].proposedPrice = price
      /\ tenantOffer'[o].counterPrice = NULL
      /\ tenantOffer'[o] \in TenantOffer
      /\ \A q \in TenantOffers \ {o} : tenantOffer'[q] = tenantOffer[q]
  <2>1. call[s].property \in Properties
    BY CallFields DEF CreateWrite, InCall, Idle, TypeInv
  <2> QED
    BY <1>2, <2>1, AccountsAssumption
    DEF TypeInv, MarketTypeOK, TenantOffer, OpenTenantOffer
<1>4. tenantOffer'[o] # NULL
  BY <1>3, NullAssumption
<1>5. Between' = [Between EXCEPT ![o] = pair]
  BY <1>1, <1>3, <1>4 DEF Between
<1>6. Proposed' = [Proposed EXCEPT ![o] = price] /\ Proposed[o] = NULL
  <2>1. Proposed[o] = NULL
    BY <1>2, BargainsAreRows
  <2>2. Proposed' = [Proposed EXCEPT ![o] = price]
    BY <1>3, <1>4 DEF Proposed
  <2> QED BY <2>1, <2>2
<1>7. Countered' = Countered
  BY <1>2, <1>3, <1>4 DEF Countered
<1>8. told' = told /\ Talking' = Talking
  BY DEF CreateWrite, Talking, Existing
<1>9. Bargain!Propose(o, pair, price)
  BY <1>5, <1>6, <1>7, <1>8
  DEF Bargain!Propose, Between, Proposed, Countered, Talking
<1> QED
  BY <1>9 DEF Bargain!BargainsNext

\* The landlord's counter meets an offer that nobody countered or settled.
LEMMA CounterIsABargain ==
    ASSUME TypeInv, PriceInv, ClaimInv, NEW s \in Sessions,
           LandlordCounterWrite(s)
    PROVE  Bargain!BargainsNext
<1>1. PICK o \in TenantOffers :
          /\ o = call[s].offer /\ tenantOffer[o] \in TenantOffer
          /\ tenantOffer[o] # NULL
          /\ tenantOffer[o].counterPrice = NULL /\ told[o] = NULL
  BY CallFields, RowFields
  DEF LandlordCounterWrite, InCall, Idle, TypeInv, CallsNameRows, NamesRows, PriceInv,
      CountersAreFirst, ClaimInv, CountersAreOnlyOnes
<1>2. PICK price \in Prices :
          tenantOffer' = [tenantOffer EXCEPT ![o] =
              [@ EXCEPT !.status = "COUNTERED", !.counterPrice = price]]
  BY <1>1 DEF LandlordCounterWrite
<1>3. /\ tenantOffer'[o] \in TenantOffer
      /\ tenantOffer'[o].tenant = tenantOffer[o].tenant
      /\ tenantOffer'[o].property = tenantOffer[o].property
      /\ tenantOffer'[o].proposedPrice = tenantOffer[o].proposedPrice
      /\ tenantOffer'[o].counterPrice = price
      /\ \A q \in TenantOffers \ {o} : tenantOffer'[q] = tenantOffer[q]
  BY <1>1, <1>2 DEF TypeInv, MarketTypeOK, TenantOffer, OpenTenantOffer
<1>4. tenantOffer'[o] # NULL
  BY <1>3, NullAssumption
<1>5. Between' = Between /\ Proposed' = Proposed
  BY <1>1, <1>3, <1>4, SameBargains
<1>6. Countered' = [Countered EXCEPT ![o] = price]
  BY <1>3, <1>4 DEF Countered
<1>7. told' = told /\ Talking' = Talking
  BY DEF LandlordCounterWrite, Talking, Existing
<1>8. Proposed[o] # NULL /\ Countered[o] = NULL
  BY <1>1, BargainsAreRows
<1>9. Bargain!Counter(o, price)
  BY <1>1, <1>5, <1>6, <1>7, <1>8
  DEF Bargain!Counter, Between, Proposed, Countered, Talking
<1> QED
  BY <1>9 DEF Bargain!BargainsNext

\* The commit settles an offer that is not settled, at the price on the table,
\* and leaves its parties with a conversation: the one it found or a new one.
LEMMA SettlementIsABargain ==
    ASSUME TypeInv, DirectInv, PriceInv, ClaimInv, NEW s \in Sessions,
           SettleCommit(s)
    PROVE  Bargain!BargainsNext
<1>1. PICK o \in TenantOffers :
          /\ o = call[s].offer /\ tenantOffer[o] \in TenantOffer
          /\ tenantOffer[o] # NULL
          /\ told[o] = NULL /\ call[s].price = PriceOnTheTable(o)
  BY CallFields, RowFields
  DEF SettleCommit, InCall, Idle, TypeInv, CallsNameRows, NamesRows, PriceInv,
      SettlementsKnowThePrice, Settling, ClaimInv, ClaimsAreUnsettled
<1>2. tenantOffer' = [tenantOffer EXCEPT ![o] =
                         [tenantOffer[o] EXCEPT !.status = "ACCEPTED"]]
  BY <1>1 DEF SettleCommit, SetTenantOffer, TypeInv, MarketTypeOK
<1>3. /\ tenantOffer'[o] \in TenantOffer
      /\ tenantOffer'[o].tenant = tenantOffer[o].tenant
      /\ tenantOffer'[o].property = tenantOffer[o].property
      /\ tenantOffer'[o].proposedPrice = tenantOffer[o].proposedPrice
      /\ tenantOffer'[o].counterPrice = tenantOffer[o].counterPrice
      /\ \A q \in TenantOffers \ {o} : tenantOffer'[q] = tenantOffer[q]
  BY <1>1, <1>2 DEF TypeInv, MarketTypeOK, TenantOffer, OpenTenantOffer
<1>4. tenantOffer'[o] # NULL
  BY <1>3, NullAssumption
<1>5. Between' = Between /\ Proposed' = Proposed
  BY <1>1, <1>3, <1>4, SameBargains
<1>6. Countered' = Countered
  BY <1>1, <1>3, <1>4 DEF Countered
<1>7. /\ Proposed[o] # NULL
      /\ Between[o] = <<tenantOffer[o].tenant, tenantOffer[o].property>>
      /\ call[s].price = IF Countered[o] = NULL THEN Proposed[o] ELSE Countered[o]
  BY <1>1, BargainsAreRows DEF PriceOnTheTable
<1>8. told' = [told EXCEPT ![o] = IF Countered[o] = NULL THEN Proposed[o]
                                  ELSE Countered[o]]
  BY <1>1, <1>7 DEF SettleCommit
<1>9. Talking' = Talking \cup {Between[o]}
  <2>1. CASE call[s].existing # NULL
    <3>1. PICK c \in Connections : DirectConnection(o, c)
      BY <1>1, <2>1, CallFields
      DEF SettleCommit, InCall, Idle, TypeInv, DirectInv, FoundAreDirect
    <3>2. Between[o] \in Talking
      BY <1>7, <3>1 DEF Talking, DirectConnection, Existing
    <3>3. UNCHANGED connection
      BY <2>1 DEF SettleCommit
    <3> QED BY <3>2, <3>3 DEF Talking, Existing
  <2>2. CASE call[s].existing = NULL
    <3> DEFINE row == [tenant |-> tenantOffer[o].tenant,
                       property |-> tenantOffer[o].property,
                       request |-> NULL, agreed |-> FALSE]
    <3>1. PICK c \in Connections :
              connection[c] = NULL /\ connection' = [connection EXCEPT ![c] = row]
      BY <1>1, <2>2 DEF SettleCommit
    <3>2. /\ row \in MatchConnection /\ row.request = NULL
          /\ <<row.tenant, row.property>> = Between[o]
      BY <1>1, <1>7 DEF TenantOffer, MatchConnection
    <3> HIDE DEF row
    <3>3. /\ connection'[c] = row /\ row # NULL
          /\ \A d \in Connections \ {c} : connection'[d] = connection[d]
      BY <3>1, <3>2, NullAssumption DEF TypeInv, MarketTypeOK
    <3>4. ~Existing(c) /\ Existing(c)'
          /\ \A d \in Connections \ {c} : Existing(d)' <=> Existing(d)
      BY <3>1, <3>3 DEF Existing
    <3> QED BY <3>2, <3>3, <3>4 DEF Talking
  <2> QED BY <2>1, <2>2
<1>10. Bargain!Settle(o)
  BY <1>1, <1>5, <1>6, <1>7, <1>8, <1>9
  DEF Bargain!Settle, Bargain!OnTheTable, Between, Proposed, Countered, Talking
<1> QED
  BY <1>10 DEF Bargain!BargainsNext

\* When no landlord calls from two tabs at once, every behaviour of the two
\* marketplaces is one of the abstract promise of an offer on a listing: one
\* counter at most, one settlement at most, at the price on the table, and a
\* conversation of its own.
THEOREM MarketKeepsBargains ==
    ASSUME OneLandlordTab
    PROVE  MarketSpec => BargainsAreKept
<1>1. MarketInit => Bargain!BargainsInit
  BY DEF MarketInit, Bargain!BargainsInit, Bargain!Undone, Existing
<1>2. TypeInv /\ DirectInv /\ PriceInv /\ ClaimInv /\ [MarketNext]_marketVars =>
          [Bargain!BargainsNext]_<<Between, Proposed, Countered, told, Talking>>
  BY BargainsFrame, CreationIsABargain, CounterIsABargain, SettlementIsABargain
<1>3. MarketSpec => []PriceInv
  BY PricesHold
<1>4. MarketSpec => []ClaimInv
  BY ClaimsHold
<1> QED
  BY <1>1, <1>2, <1>3, <1>4, TypesHold, DirectHolds, PTL
  DEF MarketSpec, BargainsAreKept, Bargain!BargainsSpec, Bargain!bargainVars,
      Between, Proposed, Countered, Talking

\* What the promise gives: what was settled is what is on the table, and its
\* parties talk, for ever after.
THEOREM KeptBargainsAreAsAgreed ==
    Bargain!BargainsSpec => []Bargain!SettledAsAgreed
<1> DEFINE AsAgreed ==
               \A o \in TenantOffers :
                   told[o] # NULL =>
                       /\ Proposed[o] # NULL
                       /\ told[o] = IF Countered[o] = NULL THEN Proposed[o]
                                   ELSE Countered[o]
                       /\ Between[o] \in Talking
           Inv == AsAgreed /\ DOMAIN told = TenantOffers
<1>1. AsAgreed <=> Bargain!SettledAsAgreed
  BY DEF Bargain!SettledAsAgreed, Bargain!OnTheTable, Between, Proposed,
     Countered, Talking
<1>2. AsAgreed' <=> Bargain!SettledAsAgreed'
  BY DEF Bargain!SettledAsAgreed, Bargain!OnTheTable, Between, Proposed,
     Countered, Talking
<1>3. Bargain!BargainsInit => Inv
  BY DEF Bargain!BargainsInit, Bargain!Undone
<1>4. ASSUME Inv, [Bargain!BargainsNext]_Bargain!bargainVars
      PROVE  Inv'
  <2>1. ASSUME NEW o \in TenantOffers, NEW pair \in Users \X Properties,
               NEW price \in Prices, Bargain!Propose(o, pair, price)
        PROVE  Inv'
    <3>1. /\ Proposed[o] = NULL
          /\ Between' = [Between EXCEPT ![o] = pair]
          /\ Proposed' = [Proposed EXCEPT ![o] = price]
          /\ Countered' = Countered /\ told' = told /\ Talking' = Talking
      BY <2>1 DEF Bargain!Propose, Between, Proposed, Countered, Talking
    <3>2. \A q \in TenantOffers \ {o} :
              Between'[q] = Between[q] /\ Proposed'[q] = Proposed[q]
      <4>1. DOMAIN Between = TenantOffers /\ DOMAIN Proposed = TenantOffers
        BY DEF Between, Proposed
      <4> QED BY <3>1, <4>1
    <3> QED BY <1>4, <3>1, <3>2
  <2>2. ASSUME NEW o \in TenantOffers, NEW price \in Prices,
               Bargain!Counter(o, price)
        PROVE  Inv'
    <3>1. /\ told[o] = NULL
          /\ Between' = Between /\ Proposed' = Proposed
          /\ Countered' = [Countered EXCEPT ![o] = price]
          /\ told' = told /\ Talking' = Talking
      BY <2>2 DEF Bargain!Counter, Between, Proposed, Countered, Talking
    <3>2. \A q \in TenantOffers \ {o} : Countered'[q] = Countered[q]
      BY <3>1 DEF Countered
    <3> QED BY <1>4, <3>1, <3>2
  <2>3. ASSUME NEW o \in TenantOffers, Bargain!Settle(o)
        PROVE  Inv'
    <3>1. /\ Proposed[o] # NULL
          /\ Between' = Between /\ Proposed' = Proposed /\ Countered' = Countered
          /\ told' = [told EXCEPT ![o] = IF Countered[o] = NULL THEN Proposed[o]
                                         ELSE Countered[o]]
          /\ Talking' = Talking \cup {Between[o]}
      BY <2>3 DEF Bargain!Settle, Bargain!OnTheTable, Between, Proposed,
         Countered, Talking
    <3>2. \A q \in TenantOffers \ {o} : told'[q] = told[q]
      BY <1>4, <3>1
    <3> QED BY <1>4, <3>1, <3>2
  <2>4. CASE UNCHANGED <<Between, Proposed, Countered, told, Talking>>
    BY <1>4, <2>4
  <2>5. \/ \E o \in TenantOffers, pair \in Users \X Properties, price \in Prices :
               Bargain!Propose(o, pair, price)
        \/ \E o \in TenantOffers, price \in Prices : Bargain!Counter(o, price)
        \/ \E o \in TenantOffers : Bargain!Settle(o)
        \/ UNCHANGED <<Between, Proposed, Countered, told, Talking>>
    BY <1>4 DEF Bargain!BargainsNext, Bargain!bargainVars, Between, Proposed,
       Countered, Talking
  <2> QED BY <2>1, <2>2, <2>3, <2>4, <2>5
<1> QED
  BY <1>1, <1>2, <1>3, <1>4, PTL DEF Bargain!BargainsSpec
=============================================================================
