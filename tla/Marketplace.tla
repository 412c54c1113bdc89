----------------------------- MODULE Marketplace -----------------------------
(***************************************************************************)
(* The two marketplaces over one set of tables, and the step that closes a *)
(* deal: confirmAgreement marks a connection agreed and, in one            *)
(* transaction of several statements, takes the tenant's request, the      *)
(* property and the competing offers it finds off the market.              *)
(***************************************************************************)
EXTENDS Listings, OwnerOfferFlow, TenantOfferFlow

Existing(c) == connection[c] # NULL
Agreed(c) == Existing(c) /\ connection[c].agreed

\* The tenant confirms a match that began with the tenant's own request, the
\* landlord one that began with an offer on the listing.
Confirmer(c) ==
    IF connection[c].request # NULL
    THEN connection[c].tenant
    ELSE OwnerOf[connection[c].property]

\* Mutant: the connection is confirmed whatever became of the request.
RequestUnchecked(c) == TRUE

\* The guarded update of the request finds it APPROVED; otherwise the
\* transaction rolls back (TENANT_REQUEST_ALREADY_SETTLED).
RequestUnsettled(c) ==
    connection[c].request # NULL => request[connection[c].request] = "APPROVED"

\* The guarded updates of the match and of its request, which lock both rows.
\* A second confirmation changes nothing; the property's status is not checked.
ConfirmClaim(s, c) ==
    /\ Existing(c) /\ ~Agreed(c)
    /\ UserOf[s] = Confirmer(c)
    /\ RequestUnsettled(c)
    /\ ~MatchLocked(c)
    /\ connection[c].request # NULL => ~RequestLocked(connection[c].request)
    /\ Start(s, [op |-> IF connection[c].request = NULL
                        THEN "sweepProperty" ELSE "sweepRequest",
                 match |-> c, rejected |-> {}, declined |-> {}])
    /\ UNCHANGED <<request, property, offersAndConnections>>

\* One update more of the transaction of s: the offers it finds are written, and
\* locked until the end.
Sweep(s, next, pitches, offers) ==
    /\ \A o \in pitches \ call[s].rejected : ~PitchLocked(o)
    /\ \A o \in offers : ~RowLocked(o)
    /\ call' = [call EXCEPT ![s] =
           [op |-> next, match |-> call[s].match,
            rejected |-> call[s].rejected \cup pitches,
            declined |-> call[s].declined \cup offers]]
    /\ UNCHANGED <<request, property, offersAndConnections>>

\* The other landlords' open offers on the request.
SweepRequest(s) ==
    /\ InCall(s, "sweepRequest")
    /\ Sweep(s, "sweepProperty",
             {o \in OwnerOffers :
                 /\ OwnerOfferIs(o, OpenOwnerOffer)
                 /\ ownerOffer[o].request = connection[call[s].match].request}, {})

\* The landlord's open offers of the property to other tenants.
SweepProperty(s) ==
    /\ InCall(s, "sweepProperty")
    /\ Sweep(s, "sweepOffers",
             {o \in OwnerOffers :
                 /\ OwnerOfferIs(o, OpenOwnerOffer)
                 /\ ownerOffer[o].property = connection[call[s].match].property}, {})

\* The tenants' open offers on the property.
SweepOffers(s) ==
    /\ InCall(s, "sweepOffers")
    /\ Sweep(s, "closeDeal", {},
             {o \in TenantOffers :
                 /\ TenantOfferIs(o, OpenTenantOffer)
                 /\ tenantOffer[o].property = connection[call[s].match].property})

\* The property is archived and the transaction commits.
ConfirmCommit(s) ==
    /\ InCall(s, "closeDeal")
    /\ LET c == call[s].match IN
       /\ connection' = [connection EXCEPT ![c].agreed = TRUE]
       /\ IF connection[c].request = NULL
          THEN UNCHANGED request
          ELSE SetRequest(connection[c].request, "FULFILLED")
       /\ SetProperty(connection[c].property, "ARCHIVED")
    /\ ownerOffer' = [o \in OwnerOffers |->
           IF o \in call[s].rejected
           THEN [ownerOffer[o] EXCEPT !.status = "REJECTED"]
           ELSE ownerOffer[o]]
    /\ tenantOffer' = [o \in TenantOffers |->
           IF o \in call[s].declined
           THEN [tenantOffer[o] EXCEPT !.status = "DECLINED"]
           ELSE tenantOffer[o]]
    /\ Finish(s)
    /\ UNCHANGED told

----------------------------------------------------------------------------

MarketNext ==
    \/ ListingsNext
    \/ OwnerOfferNext
    \/ TenantOfferNext
    \/ \E s \in Sessions, c \in Connections : ConfirmClaim(s, c)
    \/ \E s \in Sessions :
           \/ SweepRequest(s)
           \/ SweepProperty(s)
           \/ SweepOffers(s)
           \/ ConfirmCommit(s)
           \/ Abandon(s)

MarketSpec == MarketInit /\ [][MarketNext]_marketVars

----------------------------------------------------------------------------
(* Properties.                                                             *)

\* The calls that passed createOffer's checks, or that found the request on the
\* market within the transaction of acceptOffer, and have not written yet.
Pitching(r) == {s \in Sessions : InCall(s, "createOffer") /\ call[s].request = r}
Accepting(r) ==
    {s \in Sessions : InCall(s, "acceptTx") /\ ownerOffer[call[s].offer].request = r}

OffersOn(r) ==
    {o \in OwnerOffers : ownerOffer[o] # NULL /\ ownerOffer[o].request = r}
MatchesOf(r) == {c \in Connections : Existing(c) /\ connection[c].request = r}

Deal == INSTANCE Deals
            WITH Matches <- Connections, Direct <- NULL, Takers <- Sessions,
                 wanted <- {r \in Requests : request[r] = "APPROVED"},
                 taking <- [r \in Requests |-> Accepting(r)],
                 opened <- {<<c, connection[c].request>> :
                               c \in {d \in Connections : Existing(d)}},
                 agreed <- {<<c, connection[c].request>> :
                               c \in {d \in Connections : Agreed(d)}}

\* Both marketplaces together keep what a request promises: no tab, landlord,
\* sweep, deletion or moderation puts an agreed request back on the market,
\* agrees another match of it or undoes the agreement, and a match is opened for
\* it only by an acceptance that found it on the market - which is all that the
\* unlocked read in acceptOffer's transaction gives: by the time the match is
\* inserted the request may be closed, archived or agreed with somebody else.
DealsAreKept == Deal!DealsSpec

Bargain == INSTANCE Bargains
               WITH Offers <- TenantOffers, Parties <- Users \X Properties,
                    parties <- [o \in TenantOffers |->
                        IF tenantOffer[o] = NULL THEN NULL
                        ELSE <<tenantOffer[o].tenant, tenantOffer[o].property>>],
                    proposed <- [o \in TenantOffers |->
                        IF tenantOffer[o] = NULL THEN NULL
                        ELSE tenantOffer[o].proposedPrice],
                    counter <- [o \in TenantOffers |->
                        IF tenantOffer[o] = NULL THEN NULL
                        ELSE tenantOffer[o].counterPrice],
                    settled <- told,
                    talks <- {<<connection[c].tenant, connection[c].property>> :
                                 c \in {d \in Connections :
                                          Existing(d) /\ connection[d].request = NULL}}

\* The forward marketplace keeps what an offer promises, although a counter, a
\* decline, a withdrawal and two acceptances of one offer may all be under way
\* at once, each on what it read before the others wrote.
BargainsAreKept == Bargain!BargainsSpec

OwnerPitch == INSTANCE Pitches
                  WITH Offers <- OwnerOffers, Matches <- Connections, Tabs <- Sessions,
                       drafts <- {<<s, call[s].request, call[s].property>> :
                                     s \in {t \in Sessions : InCall(t, "createOffer")}},
                       sent <- {<<o, ownerOffer[o].request, ownerOffer[o].property>> :
                                   o \in {q \in OwnerOffers : ownerOffer[q] # NULL}},
                       looks <- {<<s, call[s].offer>> :
                                    s \in {t \in Sessions : InCall(t, "viewOffer")}},
                       accepted <- {<<o, ownerOffer[o].request, ownerOffer[o].property>> :
                                       o \in {q \in OwnerOffers :
                                                OwnerOfferIs(q, {"ACCEPTED"})}},
                       opened <- {<<c, connection[c].request, connection[c].property>> :
                                     c \in {d \in Connections :
                                              /\ Existing(d)
                                              /\ connection[d].request # NULL}}

\* The reverse marketplace keeps what a pitch promises, whatever the tabs of
\* both sides do at once and whatever rejections and agreements sweep over it.
\* Two races break more than that and are as far as it goes: two tabs of a
\* landlord that both found no offer of his on the request (createOffer checks,
\* then inserts), and a view that read SENT and is written over an acceptance
\* (viewOffer updates by id).
PitchesAreKept == OwnerPitch!PitchesSpec

\* Once a match made for a request is agreed, that request is never again on
\* the market: no landlord can pitch to it and no other match of it can be
\* confirmed.  (confirmAgreement fulfils the request; closing and archiving
\* overwrite FULFILLED but do not reopen it; a moderation decision might.)
SettledRequestsOffMarket ==
    \A c \in Connections :
        Agreed(c) /\ connection[c].request # NULL =>
            request[connection[c].request] \in {"FULFILLED", "CLOSED", "ARCHIVED"}

\* A tenant agrees to at most one property per search request, however many
\* offers were accepted and whichever sessions confirm at the same time.
OneAgreementPerRequest ==
    \A c, d \in Connections :
        /\ Agreed(c) /\ Agreed(d)
        /\ connection[c].request # NULL
        /\ connection[c].request = connection[d].request
        => c = d

\* Whoever was told that an offer is settled has a direct conversation about
\* that listing: settleAsMatch must not pass off a conversation opened through
\* a search request as the one of this offer.
SettledOffersHaveDirectConnection ==
    \A o \in TenantOffers :
        told[o] # NULL =>
            \E c \in Connections :
                /\ Existing(c)
                /\ connection[c].request = NULL
                /\ connection[c].tenant = tenantOffer[o].tenant
                /\ connection[c].property = tenantOffer[o].property

\* The rent both parties are told is agreed is the rent on the offer's row:
\* the counter price if the landlord countered, else the tenant's own.
ToldPriceIsOnTheRow ==
    \A o \in TenantOffers :
        told[o] # NULL =>
            told[o] = IF tenantOffer[o].counterPrice = NULL
                      THEN tenantOffer[o].proposedPrice
                      ELSE tenantOffer[o].counterPrice

\* Once a tenant has agreed to one match of a request, the calls that passed the
\* checks on that request in time only run out: no further call passes them, and
\* every offer or match that is still inserted for the request uses up one of
\* them.  (createOffer and acceptOffer check the request and insert in another
\* statement, which the agreement neither sees nor stops.)
OnlyCallsUnderWayOutliveTheDeal ==
    [][\A r \in Requests :
          (\E c \in Connections : Agreed(c) /\ connection[c].request = r) =>
              /\ Pitching(r)' \subseteq Pitching(r)
              /\ Accepting(r)' \subseteq Accepting(r)
              /\ OffersOn(r)' # OffersOn(r) => Pitching(r)' # Pitching(r)
              /\ MatchesOf(r)' # MatchesOf(r) => Accepting(r)' # Accepting(r)
      ]_marketVars

\* The state machine in the comment of TenantOffersService has nothing lead out
\* of ACCEPTED: a decline, a counter or a withdrawal must not overwrite an
\* acceptance that opened a connection.
AcceptedTenantOfferIsFinal ==
    [][\A o \in TenantOffers :
          TenantOfferIs(o, {"ACCEPTED"}) => TenantOfferIs(o, {"ACCEPTED"})'
      ]_marketVars
=============================================================================
