# PropMatch backend: TLA+ models

PropMatch (`src/src`, NestJS over PostgreSQL through Prisma) matches tenants and
landlords: a tenant publishes a search request and landlords pitch properties to
it, or a landlord lists a property and tenants make priced offers on it. A match
opens a conversation, is agreed, is put into a lease contract and is paid for
through plans and add-ons. This directory holds TLA+ models of the parts of the
backend whose correctness depends on the order in which things happen, the TLC
configurations that check them on small instances and proofs for any instance.

The code is ordinary request handlers, and what makes it hard is the same
everywhere: a handler *reads* rows in one round trip to the database, checks
them, and *writes* in a later one. Some writes repeat the check (an `updateMany`
with the expected status in its `where`, a unique index, a transaction that reads
again), others update by id. Which of the two a handler does decides what another
tab, another user, an administrator, a webhook or an hourly job can do in between.

## Inventory

| component | source (under `src/src`) | state | operations | what must hold |
|---|---|---|---|---|
| Requests and listings | `tenant-requests`, `properties`, `admin`, `users` | `TenantRequest.status`, `Property.status` | create, close, edit, archive, unarchive, moderate, account deletion | what was settled does not come back on the market |
| Owner offers | `offers` | `OwnerOffer.status` | createOffer, viewOffer, acceptOffer, rejectOffer | one offer per landlord and request, unless two calls both found none; an acceptance opens exactly one conversation; only a view that began before it undoes it |
| Tenant offers | `tenant-offers` | `TenantOffer` (status, two prices) | create, accept, decline, counter, withdraw, settleAsMatch | one settled price, known to both; a settled offer has its conversation |
| Agreement | `messages` | `MatchConnection.agreementReachedAt` | confirmAgreement | one agreement per request; the competing offers that the transaction finds are closed with it, and only calls that had passed their checks before can add to the request |
| Lease contracts | `lease-contracts` | `LeaseContract` (two status columns, draft and reviewed revision, PDF) | saveDraft, sendForReview, reject, requestChanges, confirmReview, approve, downloadPdf | no PDF of a text the tenant did not approve; a confirmation is never lost |
| Reviews of the other party | `reviews/user-reviews` | `UserReview` | create | only after the deal, once per side |
| Payments | `payments` | `PaymentTransaction.status`, Paymob's orders and callbacks | checkout, webhook, settlement, hourly reconciliation | given at most once, only if paid, and eventually |
| Quota and entitlements | `quota` | `UserQuota`, `EntitlementGrant` | ensureCurrentPeriod, consume; written by settlements too | a paid plan is kept and lasts no longer than paid for; allowances and packs are not overdrawn |
| Boosts | `quota`, `payments` | `BoostCampaign`, `Property.boostedUntil` | activatePlanBoost, settlement of a bought boost, hourly expiry | a credit buys one campaign of its own; a boost ends |
| Commercial configuration | `commercial-config` | plan allowances, product snapshots | updatePlan (which rewrites the counters of every landlord on the plan), updateProduct | an edit gives nobody more than was ever allowed |
| Listing capacity | `properties`, `quota` | active listings, `listingGraceEndsAt` | create and update in serializable transactions, unarchive, archive, moderate, enforcement | no more active listings than the plan allows, after the grace period |
| Accounts and sessions | `auth`, `admin`, `users` | `User` (status, token version), reactivation requests | sign-in, refresh, socket ticket, suspend, delete, reactivate, anonymize | a revoked session stays revoked; a deleted account is forgotten |
| E-mail codes and password reset | `auth` | code, expiry and attempts; reset token | sign-up, verify, resend; forget, reset | guesses are limited; a used token is dead |
| Admin team | `admin` | admin role and activation of each member | createAdmin, updateTeamMember | somebody can always manage the team |
| Identity verification | `verification`, `admin` | `identity_verification`, uploaded documents | submit, resubmit, review | the documents of a row exist |
| Images of listings | `properties` | `property_image`, files | create, update, with clean-up and roll-back of files | a confirmed image has its file; a listing keeps an image |
| Matching queue and mail | `matching`, `mail`, `admin` | BullMQ jobs, notifications | enqueue on approval, process, retry, stall | one delivery per attempt; every job ends |
| Search index | `properties/*index*`, `messages` | vectors of approved listings | index on approval, remove on agreement, reindex, search | the index does not hide what meets an explicit condition |
| Customer support | `customer-support` | tickets, their messages, the queue | escalate, create, reply, status, appeal; ordering | an answered handover is on record; a try speaks once; nobody starves in the queue |
| Notifications and sockets | `notifications`, `realtime` | `notification`, `device_token`, rooms | notify, push, clean up; handshake, join, forced logout | a live device is kept; no socket of an ended session joins |
| Chat, favorites, analytics, property reviews, legal support, leads, regions | | one row per call, or none | | no shared state that another flow relies on |

Components meet in the database. `confirmAgreement` writes the request, the
listing and both kinds of offers; a lease contract needs an agreed match; a
review needs an approved contract; `createOffer` consumes quota in the transaction
that inserts the offer; a payment writes the quota row that the hourly job also
writes; account deletion archives requests and listings. Outside of the database
there are Paymob (callbacks that may be lost, repeated or reordered), the Redis
queues, the vector store, the files, the sockets and the push service.

The hazards, each at its line and with the properties that speak of it, are in
`PROJECT.json`.

## Modules

The marketplace, which shares its tables:

| module | models |
|---|---|
| `MarketTables` | the shared tables, the calls in flight, the type invariant |
| `Listings` | tenant requests and properties: their owners, the moderators, account deletion |
| `OwnerOfferFlow` | `OffersService` |
| `TenantOfferFlow` | `TenantOffersService` |
| `Deals` | what a search request promises its tenant, abstractly |
| `Pitches` | what a landlord's offer on a request promises, abstractly |
| `Bargains` | what a tenant's offer on a listing promises, abstractly |
| `Marketplace` | the flows composed, with `confirmAgreement`; implements the three promises |

Money:

| module | models |
|---|---|
| `Fulfilment` | what payments promise, abstractly |
| `Payments` | `PaymentsService` with Paymob behind it; implements `Fulfilment` |
| `Packs` | what is promised of packs of offers, abstractly |
| `Quota` | `QuotaService`'s row of one landlord, and what settled payments write into it; implements `Packs` |

The services that share no rows with each other:

| module | models |
|---|---|
| `Rows`, `Handlers` | `NULL`; handlers that wait between a read and a write (`Waits`, `Ends`) |
| `Signing` | what the lease flow promises its two parties, abstractly |
| `LeaseContract` | `LeaseContractsService` on one match, and `UserReviewsService.create`; implements `Signing` |
| `Accounts` | one account: sign-in, refresh, socket tickets, suspension, deletion, requests for reactivation, restoration, the nightly anonymization |
| `EmailCodes` | sign-up, `verifyEmail`, `resendEmailVerification` of one address |
| `PasswordReset` | `forgetPassword`, `resetPassword`, the administrator's reset |
| `AdminTeam` | `createAdmin`, `updateTeamMember`, the capabilities guard |
| `Verification` | submission, resubmission and review of identity documents, with the document store |
| `ListingImages` | the rows and the files of one listing's images |
| `Capacity` | how many listings one owner may have, and the hourly enforcement |
| `Boosts` | campaigns of one listing: out of the plan, bought, expiring |
| `BackgroundJobs` | the moderator's decision on a request with the two jobs it enqueues, `MatchingWorker`, `MailWorker`, BullMQ |
| `SupportTickets` | handovers of the support agent, tickets, appeals, replies |
| `SupportQueue` | the order of the queue, as plans and days change |
| `Notifications` | rows, pushes, device tokens |
| `Sockets` | handshakes and rooms of one account |
| `SearchIndex` | `semanticSearch` over the index and the database |
| `Allowances` | `CommercialConfigService` and the counters that follow from it |
| `Services` | all of these side by side |
| `Upkeep` | the jobs among them, with the fairness of their schedules |

`MCMarket`, `MCLease`, `MCQuota`, `MCServices`, `MCUpkeep` are instances and
symmetries for TLC. The proofs are in `Marketplace_proofs`, `Payments_proofs`,
`Quota_proofs`, `LeaseContract_proofs`, `Accounts_proofs` (`Accounts`, `Sockets`,
`PasswordReset`), `Storage_proofs` (`Verification`, `ListingImages`),
`Limits_proofs` (`Allowances`, `BackgroundJobs`, `Capacity`, `Boosts`) and
`Services_proofs` (the others, and the composition).

`PROJECT.json` maps every definition to the lines it stands for.

### How code becomes actions

* **A table** is a function from ids to rows, with `NULL` for an absent row.
  Columns that no property and no guard tells apart are left out
  (`MatchConnection.status` is always `CONNECTED`, so it is not there).
* **A handler whose write relies on an earlier read** is two actions, `XRead` and
  `XWrite`. Between them the session holds a record in `call` with what it read.
  All the reads before a write are one action. A session has one call in flight;
  a user with two tabs is two sessions of one account.
* **A handler whose write repeats its checks** in the `where` clause of
  a single statement is one action: the earlier read changes no outcome
  (`rejectOffer`, `requestChanges`, `confirmReview`).
* **Transactions** run at PostgreSQL's READ COMMITTED: each statement finds what was
  committed before it. So a statement is a step, and two are joined only where a row
  lock keeps what the first of them found. What a transaction wrote is in its
  session's `call` until it commits; reads of others find the old rows, and their
  updates of a locked row wait, which is a guard (`MatchLocked`, `RequestLocked`,
  `PitchLocked`, `RowLocked`): such an update is taken as made when the wait is over.
  * `acceptOffer`: `AcceptOfferLook` reads the request (`offers.service.ts:414`) and
    locks nothing; `AcceptOfferClaim` is the guarded update of the offer (420), the
    insert of the connection (428) and the commit. In between the request may be
    closed, archived, moderated or agreed.
  * `confirmAgreement`: `ConfirmClaim` is the guarded updates of the match and of its
    request (`messages.service.ts:135`, 151), `SweepRequest`, `SweepProperty` and
    `SweepOffers` are one update of competing offers each, `ConfirmCommit` archives
    the listing (184) and commits. Offers that others insert or accept meanwhile are
    found or missed, as the moment has it.
  * `settleAsMatch`: `SettleClaim` claims the offer and looks for a conversation,
    which nothing locks; `SettleCommit` inserts one or not.
* **Exceptions, deadlock victims and restarts** between a read and a write are
  `Abandon`. So are refusals that depend on data left out of the model: an
  exhausted quota, a capacity limit, an identity that is not verified.
* **No unique index** backs owner offers, tenant offers or connections in
  `schema.prisma`, so nothing in the model refuses a duplicate; where there is one
  (`LeaseContract.matchConnectionId`, `UserReview`) the write has a guard.
* **Account deletion** archives what the account published and nothing else: the
  model lets the account go on calling, as it may after a reactivation.
* **The text of a contract** is its `draftRevision`, which every save increments.
* **History variables**: `told` is the price answered when an offer was settled,
  `released` the revisions that the landlord sent or the tenant confirmed. No
  guard reads them.
* **Paymob** is external. It registers orders, fails or takes money in attempts,
  and reports each finished attempt. A report is delivered any number of times and
  in any order; one that is lost is not delivered. A wallet is charged as soon as
  the order is registered, so an order can be paid before its row is written.
  Amounts are left out: row and order carry the same product price, so the
  mismatch branch is not reached. Orders carry no metadata (README of the module,
  line 54), so a webhook without a row knows neither user nor product. Orders made
  through the intention API are not modelled: under which id Paymob reports them
  is not in the repository.
* **The quota row.** Landlords share no row, so `Quota` has one, inserted by sign-up.
  Dates are numbers, 0 is a null date, and a month and a year have any length. The
  offers stand for every counter, as all are reset and spent alike. Every call
  begins with `ensureCurrentPeriod`; a call that goes on to send an offer and one
  that only shows or counts something (the hourly job, the plan's priority) differ
  in whether `ResetPeriod` and `ReadCurrent` are followed by a choice. Settlement is
  a transaction that claims the payment's row, so it happens once per payment (that
  is `Payments`), but reads the quota row without a lock: `BeginSettlement` and
  `SettleSubscription` or `SettlePack`. `bought` and `used` are history: units of
  paid time bought and passed. Nothing reads them.
* **Time** in `Payments` is an order of rows: `createdAt` is a row's rank and `old`
  the rank up to which rows are older than 30 minutes. In `Boosts` and `SupportQueue`
  it is a number.
* **Handlers of the other services** are in the functions that `Handlers` describes:
  `Waits` begins with what was read, `Ends` ends with the write, with an error or
  with the death of the process. One with several awaits has several steps (an
  upload of two documents, a push, a search). Serializable transactions (`create`
  and `update` of listings) are one step, as one of two that overlap is refused;
  what is read outside of them, or on another connection, is read before.
* **Services share no rows**, so `Services` has two specifications. `WorkSpec` lets
  all of them work in one behaviour, their steps in any order; the proofs are about
  this one. In `Spec` one of them, `service`, works in each behaviour while the others
  rest: TLC explores the sum of their states instead of the product. Every behaviour
  of `Spec` is one of `WorkSpec` (`OneAtATimeIsAllowed`), and each part of a
  behaviour of `WorkSpec` is one of that service's own specification
  (`ServicesImplementEach`). What crosses services in the code (a deletion that
  archives listings, a settlement that extends a plan) is in both models, as an action
  of each.
* **Abstract specifications** (`Deals`, `Pitches`, `Bargains`, `Signing`, `Packs`,
  `Fulfilment`) know nothing of status columns, transactions, rejections or jobs.
  `Deals` and `Pitches` keep who looked and has not acted yet, since what such a
  latecomer may still do is part of what the code promises. A component instantiates one with state functions of its own variables (`Deal`,
  `OwnerPitch`, `Bargain`, `Signed`, `Pack`, `Promise`), and its property of the form
  `XAreKept` is the abstract specification itself: every step of every handler is a
  step of the promise, or changes nothing it speaks of.
* **External parties** are modelled by what the code expects of them and marked in
  the map: BullMQ takes up a job of a dead worker a limited number of times, the
  push service forgets tokens, the store may fail after any document, the index
  answers anything it holds.
* **Secrets and random names** (codes, reset tokens, object keys, file names) are
  drawn once each. That a guess is right by chance is left out.
* **More history**: `life`, `spent`, `mailed`, `guesses`, `answered`, `tries`, `keyed`,
  `confirmed`, `delivered`, `best`, `highest`, `wanted`, `overlapped`, `revived`,
  `uncounted`, and the fields `owed` and `missed` of a search say what was. No guard reads them but as a bound, or to draw what is new.

## Runs

Run `tlc -config <cfg> <module>`.

| run | cfg, module | checks |
|---|---|---|
| `two_tabs` | `TwoTabs`, `MCMarket` | a tenant and a landlord with two tabs each and an administrator; one listing, one request, two offers, two connections: `SettledRequestsOffMarket`, `OnlyCallsUnderWayOutliveTheDeal`, `DealsAreKept`, `PitchesAreKept` |
| `market` | `Market`, `MCMarket` | both marketplaces on two listings of one landlord; an offer of each kind, two connections, two prices, one call per account: `MarketTypeOK`, `BargainsAreKept` |
| `lease` | `Services`, `MCServices` | lease contracts and the other services, see below |
| `upkeep` | `Upkeep`, `MCUpkeep` | the jobs under fairness: `DeletedIsForgotten`, `JobsSettle`, `ExcessIsArchived`, `BoostsEnd` |
| `payments` | `Payments` | two orders, one reconciliation that looks at two rows: `PaymentsTypeOK`, `FulfilledOncePaid`, `SettledIsFinal`, `NotLeftPending` |
| `quota` | `Quota`, `MCQuota` | three subscriptions and a pack of one offer, two sessions: `QuotaTypeOK`, `PlanTimeIsPaid`, `PacksAreBought` |
| `tenant_offer_final` | `TenantOfferFinal`, `MCMarket` | violated: an acceptance is overwritten by a withdrawal, decline or counter read before it |
| `two_moderators` | `TwoModerators`, `MCMarket` | violated: the second of two moderators reopens an agreed request, which is agreed again |
| `lease_download` | `LeaseDownload`, `MCLease` | violated: a draft saved while `approve` renders becomes the approved text |
| `payments_batch` | `PaymentsBatch`, `Payments` | violated: abandoned checkouts fill every batch, a paid order stays pending for ever |
| `payments_failed` | `PaymentsFailed`, `Payments` | violated: a paid order ends `FAILED` and stays so, because a success callback that looked before the checkout wrote the row takes the branch of a failure, or because a failed attempt is reported of an order that another attempt pays; TLC prints one of the two |
| `quota_reset` | `QuotaReset`, `MCQuota` | violated: a reset computed before a settlement is written after it and takes the paid plan away |

The run `lease` (1.1 million states, about three minutes) checks in one pass, with
the types of all of them (`ServicesTypeOK`):

| service | property | says |
|---|---|---|
| `LeaseContract` | `ReviewsFollowTheDeal`, `PdfWasReleased`, `ConfirmationIsKept`, `ContractsAreSigned` | reviews follow an approval; a PDF shows what the landlord sent or the tenant confirmed; no other write takes a confirmation back; all of it together, from the first draft to the second review, is what `Signing` promises |
| `Accounts` | `DeletionEndsSessions` | a token from before a deletion is refused after the restoration |
| `EmailCodes` | `GuessesAreBounded` | guesses at once get no more than one each beyond the limit |
| `PasswordReset` | `SpentTokensStayDead` | a used token is never on the row again |
| `AdminTeam` | `LastSuperAdminIsKept` | no chain of changes, one after the other, loses the last super admin |
| `Verification` | `SubmittedDocumentsExist` | the documents of a row are in the store, whatever conflicts, clean-ups and crashes there were |
| `ListingImages` | `ConfirmedImagesHaveFiles`, `ListingsKeepAnImage` | no roll-back or clean-up takes a confirmed image's file; two updates do not remove all images |
| `Capacity` | `OnlyRevivalsExceed` | the limit is exceeded by listings that came back without a count and by no others |
| `Boosts` | `PlanBoostsFollow` | two boosts out of the plan do not run at once |
| `BackgroundJobs` | `DeliveriesAreBounded`, `JobsWearOut` | only a death of a worker, or a failed attempt at a mail, delivers twice; every step of a worker uses up something of a finite `Effort` |
| `SupportTickets` | `HandoversAreKept` | an answered handover has its own message on the ticket of the answer, or that ticket is the one of its run; a try speaks on one ticket only; tries that begin after the run's ticket was filed add nothing |
| `SupportQueue` | `PatienceIsRewarded` | a ticket is overtaken by plans for at most ten days |
| `Notifications` | `LiveDevicesStay` | cleaning up after a push takes no live device |
| `Sockets` | `SocketsOpenInTheirOwnLife` | no handshake lets in a token from before a deletion it followed |
| `SearchIndex` | `ExplicitMatchesAreFound` | an approved listing that meets every criterion throughout a search is answered, indexed or not, with three exceptions (below) |
| `Allowances` | `NobodyHasMoreThanAllowed` | no edit leaves anybody more than was ever allowed |

The violated runs check what a comment, a test or a README of the repository says;
`PROJECT.json` quotes the lines.

**Bounds.** In `two_tabs` two offers and two connections are what it takes for two
matches of one request to compete. Nothing but `createOffer`'s look for an earlier
offer tells one landlord from another, and two tabs of one landlord can both find
none, so the two offers may come from one landlord about one listing; two tabs are
what it takes for an account to race itself, and a third offer would only repeat the
second. In `market` two listings of the landlord let what is swept differ from what is
not, two prices let a counter differ from the proposal, and an offer of each kind lets
a conversation that came from a request be confused with one that came from a tenant's
offer. That both refinements hold for several offers, listings and landlords is
proved. In `payments`
two orders let one order's row delay or displace the other's and one job suffices,
because runs of the job share nothing; `BatchSize` stands for the code's 100: with
as many as there are orders no row is displaced, with fewer (`payments_batch`) one
is. One order is enough for a paid one to fail (`payments_failed`). In `quota` a yearly and a monthly subscription of one plan renew each other, the
third upgrades them and can be downgraded to them again, two sessions suffice for a
stale reset and for two calls on the last offer of the pack, and `MaxNow` 4 lets
months (2 units) and years (3) end and pending plans begin; `Allowance` gives offers
only to one plan, so that both the plan's and the pack's offers run out.

In `lease` three tabs of the landlord allow a save, a sending and a further save or
review to be under way together, and four drafts allow one of them to be confirmed
with stale saves before and after. Two callers of every other service are enough for
a stale write, since a write depends on one read. Beyond that:

* `Codes` and `ResetTokens` 3: the code that is guessed, the one that replaces it and
  one after that; `MaxAttempts` 2 (of 5), `MaxUncounted` 1 lost increment.
* `Members` 2: each super admin can act on the other. `MaxLife` and `MaxDeletions` 2:
  deleted, restored, deleted again, with tokens of both lives; one request for
  reactivation, which two administrators can decide on.
* `Submissions` 4 of 2 `Files`: two in a race, one after a resubmission is required,
  and half-finished uploads. `Images` 3, `MaxImages` 2 (of 10): two updates each keep
  another image and a third is new.
* `Tickets`, `Runs` and `MaxTries` 2: a run is tried again while its first try or another
  run is at work, with a ticket of its own and one of somebody else. `QueueTickets` 2, severities 1 and 2, `MaxDay` 11: beyond the ten days that a plan
  is worth. `Users`, `Notes`, `Devices` 2: devices change hands while a push is out.
* `Jobs` 2, one of each kind; 2 attempts (of 3; 3 in `upkeep` for mails), one stall:
  a job fails, is tried again and dies.
* `Listings` 2, `Limits` 1 and 2, `MaxRevived` 1: plans go down and up under a full
  set of listings, and one listing comes back uncounted. `MaxTime` 3,
  `MaxCampaigns` 2, `MaxCredits` 2: a campaign waits behind another and both end.
* `SearchListings` 2: each fits, or is elsewhere and says the query word for word
  (`SearchedFacts`); queries of a place, of a type, of the furnishing and of everything
  (`SearchedQueries`), as the code treats a place and a type alone differently; a task in
  the background; one of the two providers, as namespaces are apart. `Amounts` 1 and 2: an allowance goes up and down.

All bounds are named constants; TLC explores everything below them. The proofs need
none of them.

**Symmetry.** Rows are interchangeable, as are the tabs of one account, prices, the
listings of one landlord and the callers of the services: the code only compares them
for equality. No symmetry is used where a liveness property is checked.

**Deadlock** is checked except in `lease`, `lease_download` and `upkeep`, where
histories end: a contract that is approved and reviewed by both sides is over, a
code that was drawn is not drawn again, a job that is done is done.

**Fairness.** Safety runs assume none. `FairPaymentsSpec` assumes that time passes
(weak fairness of `TimePasses`), that the scheduler starts the hourly job again
(weak fairness of `StartReconciliation`), and that a look-up or a settlement that
the job attempts again and again is not cut short every time (strong fairness of
`CheckNegative`, `CheckPositive`, `SettleConfirmed`): look-ups may fail and runs
may die arbitrarily often, only not always. Nothing is assumed of customers,
Paymob's callbacks or their handlers, so `NotLeftPending` holds with every callback
lost. `UpkeepSpec` assumes the same of the other jobs: time passes and the scheduler
starts them (weak fairness), a query that is tried again and again succeeds at times
(strong fairness of the steps that compete with a failure), a worker is started
again. Nothing is assumed of users, administrators or the handlers of requests:
they may undo a job's work for ever, and the properties say what is owed in spite of
that (`DeletedIsForgotten` to accounts that stay deleted; `ExcessIsArchived` since
`MaxRevived` bounds the listings brought back).

## Proofs

`tlapm` checks every leaf. The theorems hold for all values of the constants under
the modules' assumptions (ids and rows are not `NULL`, every session belongs to an
account).

* `MarketTypes`: the type invariant alone is not inductive, because a write by id
  is well typed only on a row that exists. `CallsNameRows` adds that every call in
  flight names a row, which holds as rows are never deleted.
* `SettledStaysSettled`, `AgreementsAreUnique`, `DealsLeaveOnlyCallsUnderWay`: under
  `OneModerator` (one session moderates; `two_moderators` shows that it is needed).
  `LockInv` says that what a confirmation under way has locked stays as it found it
  and that no two confirmations hold the same row. `SettleInv` adds
  `UndecidedUnderReview`: the request a moderator is deciding on is neither `APPROVED`
  nor on any side of an agreement. Two agreements of one request are then impossible:
  the first to commit finds the request still `APPROVED` under its lock and leaves it
  settled. `createOffer` and `acceptOffer` check the request as it is when they look,
  so after an agreement no further call passes; whatever is still inserted ends one
  that had.
* `MarketKeepsDeals` (`OneModerator`), `MarketKeepsPitches` (nothing is assumed),
  `MarketKeepsBargains` (`OneLandlordTab`): the refinements, each a case per action of
  `MarketNext`: an action that touches what the promise speaks of is one of its steps,
  with its guard from the code's second check or from the invariant, and all others
  stutter. For `Deals`, a moderation decision, a closing and the sweep of a deleted
  account are `Publish` and `Withdraw`; `AcceptOfferLook` is `Look` and
  `AcceptOfferClaim` is `Open`, of a request that may have left the market since; a
  commit is `Agree`, by `LockInv`. For `Pitches`, a `createOffer` under way is a draft
  and a `viewOffer` under way a look, so that what they may still do to an offer or to
  an acceptance is part of the promise. For `Bargains`, `ClaimInv` says that the row
  lock lets one settlement at a time hold an offer, that nobody was told of an offer
  that is held, that a settled offer is not open (so it is not claimed again) and that
  a counter under way finds no counter price on its row; `PriceInv`, below, adds that
  nobody counters while a price is being settled. `KeptDealsAreUnique`,
  `KeptPitchesAreTalkedAbout` and `KeptBargainsAreAsAgreed` say what follows from each
  promise alone. Since the promises imply them, `OneAgreementPerRequest`,
  `ToldPriceIsOnTheRow` and `SettledOffersHaveDirectConnection`, which are proved by
  themselves too, are in no passing run.
* `SettledHaveConversations`, for any number of tabs: `FoundAreDirect` says that the
  conversation a settlement has found is one of the pair and stays so.
* `ToldPricesStand`, under `OneLandlordTab`: while a price is being settled nobody
  counters the offer (`SettlementsKnowThePrice`), and an offer is countered once, while
  it is `PENDING` (`CountersAreFirst`, `PendingAreAsProposed`).
* `LeaseTypes`, `ConfirmationsKept`: `CallsFoundTheRow` (a call past its read has a
  row to write to). Confirmation survives because every write that touches
  `tenantReviewStatus` either repeats the check or sets `REVIEW_CONFIRMED`.
* `ReviewsFollow`: `ReviewInv` adds that a row that is `APPROVED` has its PDF and
  that a review under way began on such a row.
* `PdfsWereReleased`: under `OneTenantTab`. `ReleaseInv` follows the released text
  through rejection and recovery under way; the comment at the property says what
  happens with two tabs.
* `LeaseIsSigned`: under `OneTenantTab`, the contract implements `Signing`. What was
  shown is what was `released`. A draft's write is `Draft`: the first finds no row,
  the others repeat the check that the tenant has not confirmed. A write of the
  status is `Show` or stutters, a confirmation is `Confirm`, an approval `PrintPdf`
  of a released text by `ReleaseInv`, and a review `Review` by `ReviewInv`. `SignedPrintsAreAgreed` is what follows: a PDF is
  of a text that was shown, with the tenant's agreement, and no review is older.
* `PaymentTypes`, `SettledStays`, `PaymentsRefine`: `PaymentsInv` adds that whoever
  speaks of a success (a report, a handler, a reconciliation past its look-up) speaks
  of a paid order, and that a purchase is given exactly when the row is `SUCCESS`.
  With it every step is one of `Fulfilment` or a stutter.
* `QuotaTypes`: a pack that is spent must exist (`ChosenGrantsExist`); the decrements
  repeat their check, so nothing falls below zero.
* `PlanTimePaid`: that no more time was used than bought is not inductive.
  `CoverInv` says it of every end of a plan that anyone holds, be it in the row, in
  its pending plan, in a reset that is about to be written or in what a settlement
  has read: `used` and what is left until that end are within `bought`. A payment
  may back several of these ends, since only one of them can become the row's. The
  assumption that dates are compared with one clock is in the model.

* `PacksAreGivenOnce`: `PackInv` says that a payment under settlement was not settled
  before and that there is a grant for exactly the settled payments of packs. A spend
  is one of `Packs` because it repeats its check on the row; the one that lost the
  race stutters. `KeptPacksAreOfPayments` follows from the promise alone.
* `JobsDoWearOut`: `Effort` is five for each try and each death a job has left, as a
  round has fewer than five steps, plus the steps left of this round. `WearInv` adds
  to the types that neither count falls below zero and that a job in a queue has some
  of both. That every step of a worker lowers it is why jobs
  end; what fairness adds (`JobsSettle`) is only that a worker goes on.

The services, each with an invariant that says what its waiting handlers know:

| module | invariant beyond the types | why the property follows |
|---|---|---|
| `Accounts` | a token, signed or about to be, has the row's version only if it is of this life | a deletion and a restoration each raise the version |
| `Sockets` | the same of signed tokens and handshakes past the check | the check came after the handshake began |
| `PasswordReset` | what was spent had been mailed | a token on the row was drawn anew, or is not spent yet |
| `Verification` | an upload owns its submission; what is being cleaned is on no row; a review found the row | nobody deletes or completes another's documents |
| `ListingImages` | files of uncommitted and of answered uploads exist; what is deleted is on no row; every write keeps an image | roll-backs and clean-ups name only their own images |
| `Capacity` | limits that handlers read were allowed at some time | a serializable count below such a limit stays within `best` |
| `Boosts` | campaigns are numbered; plan boosts queue; the credit's holder is the last booked | the row of the quota is locked from the credit to the campaign |
| `BackgroundJobs` | deliveries are paid for by attempts and deaths, by the step of the job | completing and dying both keep the account |
| `Allowances` | amounts that edits, checkouts and months carry were allowed | each write is at most one of them |
| `EmailCodes` | guesses on a code are counted, in flight or lost; what was not drawn has none | a caller has one guess in flight |
| `AdminTeam` | a check that is not stale holds of the team as it is | a change without overlap keeps another super admin |
| `SupportTickets` | tries under way are counted and each is one handler's; what is keyed is said | an answer comes after the message; a run's ticket is looked for when a try begins |
| `SupportQueue` | no ticket is of a later day | ten days outweigh the score of any plan |
| `Notifications` | what is being cleaned is not known to the push service | a token that comes again is a new one |
| `SearchIndex` | what a search still owes is approved and fits, and its place was recognized | the database finds it, if the index does not, unless a place or a type is all the query names |

`ServicesImplementEach` proves that every behaviour of `WorkSpec`, in which all
services are at work, is one of each service; `ServicesTypes`,
`ServicesKeepTheirPromises` and `ServicesSignContracts` that the properties therefore
hold of all of them together.

Only model-checked: liveness (`NotLeftPending`, `DeletedIsForgotten`, `JobsSettle`,
`ExcessIsArchived`, `BoostsEnd`), as reasoning about `ENABLED` and fairness is beyond
the prover, and the six violated runs. Every other property of the passing runs has
its theorem.

## What the code does not keep

Apart from the violated runs, writing the models showed more behaviours that a reader
of the code may not expect. All are behaviours of the specifications, and the
properties are worded so as to allow them. Of most, no comment and no test of the
repository speaks. These contradict a comment:

* `tenant-offers.service.ts:36-37` draws the states of a tenant offer; `PENDING` to
  `WITHDRAWN` and `COUNTERED` to `DECLINED` are possible though there are no such arrows.
* `customer-support.service.ts:154-157` calls retries of a handover idempotent: a run
  whose message was appended to another open ticket (179) has no ticket of its own, so
  every retry appends the message again; so does a try that looked for the run's ticket
  just before it was filed. Line 179 says that a different run must not create a
  duplicate ticket: two runs at once that both find no open ticket create one each.
* `properties.service.ts:277-279` says that the index must not hide what satisfies an
  explicit request: a query that names no more than a place is answered with nothing
  while the index has nothing (198-205), although the place would have been found in
  the catalogue (207-209). Where some listing says the query word for word, those that
  do not are left out, even when none of the former passes the last filter and the
  answer is empty (305-349). That a type alone is left to the index is intended
  (219-221).
* `semantic-match-reasons.ts:81-83` calls the maximum rent a hard constraint, but what
  the vectors find is not filtered by rent or bedrooms.
* `realtime.gateway.ts:85-88` says that the handshake checks what `JwtStrategy` checks, but
  it does not look at a suspension.

And these are only unspoken:

* `acceptOffer` reads the request without a lock, so a conversation can be opened for a
  request that is `CLOSED`, `ARCHIVED` or `FULFILLED` by the time it is inserted. An
  offer that is inserted behind `confirmAgreement`'s sweep (`messages.service.ts:162`)
  stays `SENT` on a settled request. While the request is off the market such a match
  cannot be agreed and such an offer not be accepted (`DealsAreKept`), and after an
  agreement both come from calls that were under way at the time
  (`OnlyCallsUnderWayOutliveTheDeal`).
* Two calls of `createOffer` from two tabs can both find no earlier offer and insert two
  offers of one landlord on one request.
* `viewOffer` writes `VIEWED` by id: from a second tab of the tenant it overwrites an
  acceptance, and the offer can be accepted again, with a second conversation.
* A moderation decision, or the landlord's edit, read before an archive overwrites
  it, so an archived or agreed listing can become `APPROVED` or `PENDING`.
* A tenant offer that is countered after its withdrawal was written is open again, next
  to a newer one.
* `settleAsMatch` does not look at the listing again: a conversation can be opened on
  a listing archived or agreed meanwhile. Two settlements of one pair can each create
  a conversation.
* Two matches on one property, of two requests, can both be agreed.
* `sendForReview` written over an approval takes `APPROVED` back; a save read before
  the draft was sent changes the text under review; a rejection after a confirmation
  whose approval failed leaves `DRAFTING` with `REVIEW_CONFIRMED`, which blocks the
  landlord.
* `unarchive` and `close` have no status condition.
* Quota: two settlements that read the same plan extend it once, so a paid period is
  lost; a renewal of the lower plan that settles during an upgrade stretches the
  higher plan to the end of the lower. A second downgrade overwrites the pending
  one; a pending plan is lost when its time passes unseen, or when a new plan is
  bought after the old one ended, and is never started if a renewal carries the old plan past its end. Two resets of one
  month give the allowance twice. A call that loses a race for the last offer of a
  pack is told that its quota is exhausted though the plan has offers left.
* Accounts: a request or a socket ticket that passed its guard before a deletion goes
  on after it, and a reactivation restores what it wrote; the anonymization scrubs an account that was restored after the job read
  its candidates; a `forgetPassword` under way then puts a token on the anonymized
  row. Reactivation requests of one account can be pending twice, can be approved and
  rejected at once, and a stale approval restores an account that was deleted again.
  Two resets with one token both set a password. The first `@Post('forgot-password')`
  in the controller shadows the alias, so only `forget-password` reaches
  `forgetPassword`.
* Admin team: two super admins can disable each other at once. An administrator can
  delete his own account (`DELETE /auth/account` asks for a token only), which the
  check for the last super admin does not see, as it does not look at `deletedAt`; and
  the first administrator can be created with a read-only role.
* Verification: a conflict or a crash leaves documents in the store that no row names.
  A review is written by the row's status alone, so a reviewer who opened the page
  before a resubmission decides on documents he has not seen.
* Images: when `create` or `update` fails after its transaction was committed, the
  roll-back deletes the files of committed rows (the answer was an error, so
  `ConfirmedImagesHaveFiles` says nothing of them). Two updates together can exceed
  the ten images. `create` announces the listing before its transaction ends.
* Capacity: unarchiving is not counted; an edit or an approval of a stale row revives
  an archived listing; the enforcement archives by counts it read before, so it can
  archive one too many.
* Boosts: bought boosts can overlap those of the plan and each other; `boostedUntil`
  can shrink; archiving drops the flag and not the campaign.
* Allowances: an edit that read an old allowance before another edit, or a counter
  before its use, loses one of them; lowering an allowance and raising it again gives
  used units back; a row that leaves the plan meanwhile gets the old plan's numbers.
* Matching: the worker does not look at the request's status again; two moderators
  who approve at once make two jobs; if enqueueing fails after the approval was
  written, nobody is notified and nothing tries again.
* Support: two appeals at once open two tickets. Internal notes are
  pushed to the owner's socket, and a stale one closes a ticket that was reopened. An
  edited listing's age in the moderation queue starts again.
* Realtime: `force_logout` is a message that a client may
  ignore, a handshake under way joins after it, and deleting one's own account sends
  none. A device that another user registers between a push's read and its sending is
  sent the former user's push. The list of notifications ends at twenty.
* Search: an archive leaves the listing in the index, and an older indexing can
  overwrite a newer one (answers are filtered by status, so only the ranking suffers).

## Not modelled

* Numbers that only order or describe: match scores, similarities, rankings,
  recommendations, dashboards and their statistics. What depends on them is any choice.
* Output: HTML and PDF rendering, the text of mails, of notifications and of
  announcements, the shape of answers.
* Chat messages, favorites, analytics, property reviews, partner leads and regions
  write one row of one user per call and nothing else depends on them. Two things we
  saw there: deleting a message deletes the file of its attachment though another
  message may have the same URL, and two edits of one message are announced in an
  order of their own.
* Legal support and the assistant's answers: retrieval and streams of external
  services. The support agent's handovers are modelled.
* Profiles, region data, uploads to chats, and the columns that describe a listing or
  a request.
* Checkouts through Paymob's intention API, and amounts of money (both are explained
  above).
