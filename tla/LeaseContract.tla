---------------------------- MODULE LeaseContract ----------------------------
(***************************************************************************)
(* The lease contract of one match: the landlord drafts it, the tenant     *)
(* reviews and approves it, and each may then review the other.            *)
(*                                                                         *)
(* The row has two status columns that different handlers read and write:  *)
(* status, of the older send-approve-reject flow, and tenantReviewStatus,  *)
(* of the revision-checked flow.  Handlers read the row, check it and      *)
(* write in a later query; only some of the writes repeat a check.         *)
(* Contracts of different matches share nothing, so one row is modelled.   *)
(*                                                                         *)
(* The text of a draft is its draftRevision: every save increments it.     *)
(***************************************************************************)
EXTENDS Naturals, Rows

CONSTANTS
    LandlordSessions,   \* client sessions of the match's landlord
    TenantSessions,     \* client sessions of the match's tenant
    MaxRevision         \* bound on the number of drafts

ASSUME LeaseAssumption ==
    /\ LandlordSessions \cap TenantSessions = {}
    /\ MaxRevision \in Nat

VARIABLES
    contract,     \* the lease_contract row, or NULL
    userReviews,  \* the sides whose user_review row exists
    released,     \* history: revisions sent by the landlord or confirmed
    call          \* what each session has read and not yet written

leaseVars == <<contract, userReviews, released, call>>

Sessions == LandlordSessions \cup TenantSessions
Side(s) == IF s \in LandlordSessions THEN "landlord" ELSE "tenant"

Status == {"DRAFTING", "PENDING_TENANT_APPROVAL", "APPROVED"}
ReviewStatus == {"PENDING_REVIEW", "CHANGES_REQUESTED", "REVIEW_CONFIRMED"}
Revision == 1 .. MaxRevision

\* reviewed is tenantReviewedRevision and pdf the revision pdfUrl was rendered
\* from; 0 is null.
Contract == [status: Status, review: ReviewStatus, revision: Revision,
             reviewed: Revision \cup {0}, pdf: Revision \cup {0}]

\* "confirmed": confirmReview has committed and goes on to approve.
\* "render": approve has read the row and renders and uploads the PDF.
Call ==
    [op: {"createDraft", "updateDraft", "sendForReview", "reject", "recover",
          "confirmed", "createReview"}]
        \cup [op: {"render"}, revision: Revision]

ASSUME LeaseNullAssumption == NULL \notin Contract \cup Call

LeaseTypeOK ==
    /\ contract \in Contract \cup {NULL}
    /\ userReviews \subseteq {"landlord", "tenant"}
    /\ released \subseteq Revision
    /\ call \in [Sessions -> Call \cup {NULL}]

LeaseInit ==
    /\ contract = NULL
    /\ userReviews = {}
    /\ released = {}
    /\ call = [s \in Sessions |-> NULL]

Idle(s) == call[s] = NULL
InCall(s, op) == call[s] # NULL /\ call[s].op = op
Begin(s, op) == call' = [call EXCEPT ![s] = [op |-> op]]
Finish(s) == call' = [call EXCEPT ![s] = NULL]

Written == contract # NULL
StatusIs(status) == Written /\ contract.status = status
ReviewIs(review) == Written /\ contract.review = review

----------------------------------------------------------------------------
(* The landlord's handlers.                                                *)

\* A tenant's change request unlocks a draft that was sent.
SaveDraftRead(s) ==
    /\ Idle(s) /\ s \in LandlordSessions
    /\ ~ReviewIs("REVIEW_CONFIRMED")
    /\ Written => StatusIs("DRAFTING") \/ ReviewIs("CHANGES_REQUESTED")
    /\ Begin(s, IF Written THEN "updateDraft" ELSE "createDraft")
    /\ UNCHANGED <<contract, userReviews, released>>

\* Mutant: a first draft is revision 0.
CreateDraftFromZero(s) ==
    /\ InCall(s, "createDraft")
    /\ ~Written
    /\ MaxRevision > 0
    /\ contract' = [status |-> "DRAFTING", review |-> "PENDING_REVIEW",
                    revision |-> 0, reviewed |-> 0, pdf |-> 0]
    /\ Finish(s)
    /\ UNCHANGED <<userReviews, released>>

\* The unique index on matchConnectionId refuses a second row.
CreateDraftWrite(s) ==
    /\ InCall(s, "createDraft")
    /\ ~Written
    /\ MaxRevision > 0
    /\ contract' = [status |-> "DRAFTING", review |-> "PENDING_REVIEW",
                    revision |-> 1, reviewed |-> 0, pdf |-> 0]
    /\ Finish(s)
    /\ UNCHANGED <<userReviews, released>>

\* Mutant: the write trusts the status that was read.
UpdateDraftUnguarded(s) ==
    /\ InCall(s, "updateDraft")
    /\ contract.revision < MaxRevision
    /\ contract' = [contract EXCEPT !.status = "DRAFTING", !.revision = @ + 1,
                                    !.review = "PENDING_REVIEW"]
    /\ Finish(s)
    /\ UNCHANGED <<userReviews, released>>

\* Mutant: a new draft stays with the tenant for approval.
UpdateDraftStaysSent(s) ==
    /\ InCall(s, "updateDraft")
    /\ ~ReviewIs("REVIEW_CONFIRMED")
    /\ contract.revision < MaxRevision
    /\ contract' = [contract EXCEPT !.revision = @ + 1,
                                    !.review = "PENDING_REVIEW"]
    /\ Finish(s)
    /\ UNCHANGED <<userReviews, released>>

\* The updateMany repeats the check of tenantReviewStatus, not of status.
UpdateDraftWrite(s) ==
    /\ InCall(s, "updateDraft")
    /\ ~ReviewIs("REVIEW_CONFIRMED")
    /\ contract.revision < MaxRevision
    /\ contract' = [contract EXCEPT !.status = "DRAFTING", !.revision = @ + 1,
                                    !.review = "PENDING_REVIEW"]
    /\ Finish(s)
    /\ UNCHANGED <<userReviews, released>>

SendForReviewRead(s) ==
    /\ Idle(s) /\ s \in LandlordSessions
    /\ StatusIs("DRAFTING")
    /\ Begin(s, "sendForReview")
    /\ UNCHANGED <<contract, userReviews, released>>

SendForReviewWrite(s) ==
    /\ InCall(s, "sendForReview")
    /\ contract' = [contract EXCEPT !.status = "PENDING_TENANT_APPROVAL"]
    /\ released' = released \cup {contract.revision}
    /\ Finish(s)
    /\ UNCHANGED userReviews

----------------------------------------------------------------------------
(* The tenant's handlers.                                                  *)

RejectRead(s) ==
    /\ Idle(s) /\ s \in TenantSessions
    /\ StatusIs("PENDING_TENANT_APPROVAL")
    /\ Begin(s, "reject")
    /\ UNCHANGED <<contract, userReviews, released>>

RejectWrite(s) ==
    /\ InCall(s, "reject")
    /\ contract' = [contract EXCEPT !.status = "DRAFTING"]
    /\ Finish(s)
    /\ UNCHANGED <<userReviews, released>>

\* The guarded updateMany repeats the checks: one action.
RequestChanges(s) ==
    /\ Idle(s) /\ s \in TenantSessions
    /\ ReviewIs("PENDING_REVIEW")
    /\ contract' = [contract EXCEPT !.review = "CHANGES_REQUESTED"]
    /\ UNCHANGED <<userReviews, released, call>>

\* The tenant passes the revision on screen; the guarded updateMany matches
\* it against the row.  The handler goes on to approve.
ConfirmReview(s) ==
    /\ Idle(s) /\ s \in TenantSessions
    /\ ReviewIs("PENDING_REVIEW")
    /\ contract' = [contract EXCEPT !.status = "PENDING_TENANT_APPROVAL",
                                    !.review = "REVIEW_CONFIRMED",
                                    !.reviewed = contract.revision]
    /\ released' = released \cup {contract.revision}
    /\ Begin(s, "confirmed")
    /\ UNCHANGED userReviews

\* confirmReview of a contract that is confirmed and not approved: it is put
\* back to PENDING_TENANT_APPROVAL, unless it was approved since.
RecoverRead(s) ==
    /\ Idle(s) /\ s \in TenantSessions
    /\ ReviewIs("REVIEW_CONFIRMED") /\ ~StatusIs("APPROVED")
    /\ Begin(s, "recover")
    /\ UNCHANGED <<contract, userReviews, released>>

RecoverWrite(s) ==
    /\ InCall(s, "recover")
    /\ IF StatusIs("APPROVED")
       THEN UNCHANGED contract
       ELSE contract' = [contract EXCEPT !.status = "PENDING_TENANT_APPROVAL"]
    /\ Begin(s, "confirmed")
    /\ UNCHANGED <<userReviews, released>>

\* approve, called by itself or from confirmReview.
ApproveRead(s) ==
    /\ s \in TenantSessions
    /\ Idle(s) \/ InCall(s, "confirmed")
    /\ StatusIs("PENDING_TENANT_APPROVAL")
    /\ call' = [call EXCEPT ![s] = [op |-> "render",
                                    revision |-> contract.revision]]
    /\ UNCHANGED <<contract, userReviews, released>>

\* Written by id after the identity checks, the rendering and the upload.
ApproveWrite(s) ==
    /\ InCall(s, "render")
    /\ contract' = [contract EXCEPT !.status = "APPROVED",
                                    !.review = "REVIEW_CONFIRMED",
                                    !.reviewed = call[s].revision,
                                    !.pdf = call[s].revision]
    /\ Finish(s)
    /\ UNCHANGED <<userReviews, released>>

----------------------------------------------------------------------------
(* User reviews, and calls that end without writing.                       *)

\* Mutant: a review of the other party before the deal is done.
CreateReviewReadEarly(s) ==
    /\ Idle(s)
    /\ Written
    /\ Side(s) \notin userReviews
    /\ Begin(s, "createReview")
    /\ UNCHANGED <<contract, userReviews, released>>

CreateReviewRead(s) ==
    /\ Idle(s)
    /\ StatusIs("APPROVED")
    /\ Side(s) \notin userReviews
    /\ Begin(s, "createReview")
    /\ UNCHANGED <<contract, userReviews, released>>

\* The unique index on contract and reviewer refuses a second row.
CreateReviewWrite(s) ==
    /\ InCall(s, "createReview")
    /\ Side(s) \notin userReviews
    /\ userReviews' = userReviews \cup {Side(s)}
    /\ Finish(s)
    /\ UNCHANGED <<contract, released>>

\* A check that fails after the read (among them an identity that is not
\* verified), a rendering, an upload or a query that fails, a restart.
Abandon(s) ==
    /\ ~Idle(s)
    /\ Finish(s)
    /\ UNCHANGED <<contract, userReviews, released>>

LeaseNext ==
    \E s \in Sessions :
        \/ SaveDraftRead(s) \/ CreateDraftWrite(s) \/ UpdateDraftWrite(s)
        \/ SendForReviewRead(s) \/ SendForReviewWrite(s)
        \/ RejectRead(s) \/ RejectWrite(s)
        \/ RequestChanges(s)
        \/ ConfirmReview(s)
        \/ RecoverRead(s) \/ RecoverWrite(s)
        \/ ApproveRead(s) \/ ApproveWrite(s)
        \/ CreateReviewRead(s) \/ CreateReviewWrite(s)
        \/ Abandon(s)

LeaseSpec == LeaseInit /\ [][LeaseNext]_leaseVars

\* downloadPdf renders the row as it is now, for an approved contract or a
\* confirmed draft.
Downloadable ==
    \/ StatusIs("APPROVED")
    \/ StatusIs("DRAFTING") /\ ReviewIs("REVIEW_CONFIRMED")

----------------------------------------------------------------------------
(* Properties.                                                             *)

\* "A tenant confirmation between the read above and this write must not be
\* lost" (saveDraft): once the tenant's review is confirmed it stays so and
\* the text no longer changes, whichever handlers of whichever tabs were
\* under way.
ConfirmationIsKept ==
    [][ReviewIs("REVIEW_CONFIRMED") =>
           /\ ReviewIs("REVIEW_CONFIRMED")'
           /\ contract'.revision = contract.revision]_leaseVars

\* The stored PDF is of a text that the landlord had sent for review or that
\* the tenant had confirmed by its revision number: never of a draft that
\* was neither, however the landlord's saves and the approval interleave.
\* (With one tab of the tenant.  From two, a rejection that was read before
\* an approval reopens what it approved, and the recovery of confirmReview
\* approves the landlord's newer draft unseen.)
PdfWasReleased == Written /\ contract.pdf # 0 => contract.pdf \in released

\* A party reviews the other only after a PDF was made.  (The handler checks
\* the status, which a late write of sendForReview can move back.)
ReviewsFollowTheDeal == userReviews # {} => Written /\ contract.pdf # 0

\* "Neither party can unilaterally produce a signed-looking PDF the other
\* never saw" (LeaseContractStatus): what downloadPdf renders is the
\* revision the tenant reviewed.
DownloadWasReviewed == Downloadable => contract.reviewed = contract.revision

\* The lease flow keeps what it promises the two parties (Signing), read off
\* the row: tenantReviewStatus REVIEW_CONFIRMED is the tenant's agreement, a
\* draft is shown by sendForReview or by confirmReview with its revision
\* number, pdfUrl is what was printed.  The other status column, the tabs and
\* the queries between them are no part of the promise.
Signed == INSTANCE Signing WITH
    Parties   <- {"landlord", "tenant"},
    text      <- IF Written THEN contract.revision ELSE 0,
    shown     <- released,
    confirmed <- ReviewIs("REVIEW_CONFIRMED"),
    printed   <- IF Written THEN contract.pdf ELSE 0,
    reviewers <- userReviews

ContractsAreSigned == Signed!SigningSpec
=============================================================================
