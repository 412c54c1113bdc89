------------------------- MODULE LeaseContract_proofs -------------------------
(***************************************************************************)
(* Proofs about the lease contract, for any number of tabs of both parties *)
(* and any number of drafts.                                               *)
(***************************************************************************)
EXTENDS LeaseContract, TLAPS

\* Every handler but the first saveDraft read the row before it writes, and
\* the row is never deleted.
CallsFoundTheRow ==
    \A s \in Sessions : ~Idle(s) /\ ~InCall(s, "createDraft") => Written

LeaseInv == LeaseTypeOK /\ CallsFoundTheRow

LEMMA StatusUpdate ==
    ASSUME NEW c \in Contract, NEW status \in Status
    PROVE  [c EXCEPT !.status = status] \in Contract
BY DEF Contract

LEMMA ReviewUpdate ==
    ASSUME NEW c \in Contract, NEW review \in ReviewStatus
    PROVE  [c EXCEPT !.review = review] \in Contract
BY DEF Contract

LEMMA RowUpdates ==
    ASSUME NEW c \in Contract,
           NEW status \in Status, NEW review \in ReviewStatus,
           NEW revision \in Revision
    PROVE  /\ [c EXCEPT !.status = status, !.review = review,
                        !.reviewed = revision] \in Contract
           /\ [c EXCEPT !.status = status, !.review = review,
                        !.reviewed = revision, !.pdf = revision] \in Contract
           /\ [c EXCEPT !.status = status, !.revision = revision,
                        !.review = review] \in Contract
BY DEF Contract

LEMMA LandlordStep ==
    ASSUME LeaseInv, NEW s \in Sessions,
           \/ SaveDraftRead(s) \/ CreateDraftWrite(s) \/ UpdateDraftWrite(s)
           \/ SendForReviewRead(s) \/ SendForReviewWrite(s)
    PROVE  LeaseInv'
<1> USE DEF LeaseInv
<1>1. CASE SaveDraftRead(s)
  <2>1. /\ [op |-> "createDraft"] \in Call
        /\ [op |-> "updateDraft"] \in Call
    BY DEF Call
  <2>2. LeaseTypeOK'
    BY <1>1, <2>1 DEF SaveDraftRead, Begin, LeaseTypeOK
  <2>3. CallsFoundTheRow'
    BY <1>1 DEF SaveDraftRead, Begin, LeaseTypeOK, CallsFoundTheRow, Idle,
       InCall, Written
  <2> QED BY <2>2, <2>3
<1>2. CASE CreateDraftWrite(s)
  <2>1. contract' \in Contract
    BY <1>2, LeaseAssumption DEF CreateDraftWrite, Contract, Status,
       ReviewStatus, Revision
  <2>2. LeaseTypeOK'
    BY <1>2, <2>1 DEF CreateDraftWrite, Finish, LeaseTypeOK
  <2>3. CallsFoundTheRow'
    BY <2>1, LeaseNullAssumption DEF CallsFoundTheRow, Written
  <2> QED BY <2>2, <2>3
<1>3. CASE UpdateDraftWrite(s)
  <2>1. contract \in Contract
    BY <1>3 DEF UpdateDraftWrite, LeaseTypeOK, CallsFoundTheRow, Written, Idle,
       InCall
  <2>2. contract.revision + 1 \in Revision
    BY <1>3, <2>1, LeaseAssumption DEF UpdateDraftWrite, Contract, Revision
  <2>3. contract' \in Contract
    BY <1>3, <2>1, <2>2, RowUpdates
    DEF UpdateDraftWrite, Status, ReviewStatus
  <2>4. LeaseTypeOK'
    BY <1>3, <2>3 DEF UpdateDraftWrite, Finish, LeaseTypeOK
  <2>5. CallsFoundTheRow'
    BY <2>3, LeaseNullAssumption DEF CallsFoundTheRow, Written
  <2> QED BY <2>4, <2>5
<1>4. CASE SendForReviewRead(s)
  <2>1. [op |-> "sendForReview"] \in Call
    BY DEF Call
  <2>2. LeaseTypeOK'
    BY <1>4, <2>1 DEF SendForReviewRead, Begin, LeaseTypeOK
  <2>3. CallsFoundTheRow'
    BY <1>4 DEF SendForReviewRead, StatusIs, CallsFoundTheRow, Written
  <2> QED BY <2>2, <2>3
<1>5. CASE SendForReviewWrite(s)
  <2>1. contract \in Contract
    BY <1>5 DEF SendForReviewWrite, LeaseTypeOK, CallsFoundTheRow, Written,
       Idle, InCall
  <2>2. contract' \in Contract /\ contract.revision \in Revision
    BY <1>5, <2>1, StatusUpdate DEF SendForReviewWrite, Contract, Status
  <2>3. LeaseTypeOK'
    BY <1>5, <2>2 DEF SendForReviewWrite, Finish, LeaseTypeOK
  <2>4. CallsFoundTheRow'
    BY <2>2, LeaseNullAssumption DEF CallsFoundTheRow, Written
  <2> QED BY <2>3, <2>4
<1> QED
  BY <1>1, <1>2, <1>3, <1>4, <1>5

LEMMA TenantStep ==
    ASSUME LeaseInv, NEW s \in Sessions,
           \/ RejectRead(s) \/ RejectWrite(s) \/ RequestChanges(s)
           \/ ConfirmReview(s) \/ RecoverRead(s) \/ RecoverWrite(s)
           \/ ApproveRead(s) \/ ApproveWrite(s)
    PROVE  LeaseInv'
<1> USE DEF LeaseInv
<1>1. contract \in Contract
  BY DEF RejectRead, RejectWrite, RequestChanges, ConfirmReview, RecoverRead,
     RecoverWrite, ApproveRead, ApproveWrite, StatusIs, ReviewIs, LeaseTypeOK,
     CallsFoundTheRow, Written, Idle, InCall
<1>2. contract.revision \in Revision
  BY <1>1 DEF Contract
<1>3. /\ [op |-> "reject"] \in Call /\ [op |-> "recover"] \in Call
      /\ [op |-> "confirmed"] \in Call
      /\ [op |-> "render", revision |-> contract.revision] \in Call
  BY <1>2 DEF Call
<1>4. contract' \in Contract
  <2>1. CASE ApproveWrite(s)
    <3>1. call[s].revision \in Revision
      BY <2>1 DEF ApproveWrite, InCall, LeaseTypeOK, Call
    <3> QED
      BY <1>1, <2>1, <3>1, RowUpdates DEF ApproveWrite, Status, ReviewStatus
  <2>2. CASE ConfirmReview(s)
    BY <1>1, <1>2, <2>2, RowUpdates DEF ConfirmReview, Status, ReviewStatus
  <2>3. CASE RejectWrite(s)
    BY <1>1, <2>3, StatusUpdate DEF RejectWrite, Status
  <2>4. CASE RecoverWrite(s)
    BY <1>1, <2>4, StatusUpdate DEF RecoverWrite, Status
  <2>5. CASE RequestChanges(s)
    BY <1>1, <2>5, ReviewUpdate DEF RequestChanges, ReviewStatus
  <2>6. CASE RejectRead(s) \/ RecoverRead(s) \/ ApproveRead(s)
    BY <1>1, <2>6 DEF RejectRead, RecoverRead, ApproveRead
  <2> QED BY <2>1, <2>2, <2>3, <2>4, <2>5, <2>6
<1>5. call' \in [Sessions -> Call \cup {NULL}]
  BY <1>3 DEF RejectRead, RejectWrite, RequestChanges, ConfirmReview,
     RecoverRead, RecoverWrite, ApproveRead, ApproveWrite, Begin, Finish,
     LeaseTypeOK
<1>6. UNCHANGED userReviews /\ released' \subseteq Revision
  BY <1>2 DEF RejectRead, RejectWrite, RequestChanges, ConfirmReview,
     RecoverRead, RecoverWrite, ApproveRead, ApproveWrite, LeaseTypeOK
<1>7. CallsFoundTheRow'
  BY <1>4, LeaseNullAssumption DEF CallsFoundTheRow, Written
<1> QED
  BY <1>4, <1>5, <1>6, <1>7 DEF LeaseTypeOK

LEMMA LeaseInvStep == LeaseInv /\ [LeaseNext]_leaseVars => LeaseInv'
<1> SUFFICES ASSUME LeaseInv, [LeaseNext]_leaseVars PROVE LeaseInv'
  OBVIOUS
<1> USE DEF LeaseInv
<1>1. ASSUME NEW s \in Sessions, CreateReviewRead(s) PROVE LeaseInv'
  <2>1. [op |-> "createReview"] \in Call
    BY DEF Call
  <2>2. LeaseTypeOK'
    BY <1>1, <2>1 DEF CreateReviewRead, Begin, LeaseTypeOK
  <2>3. CallsFoundTheRow'
    BY <1>1 DEF CreateReviewRead, StatusIs, CallsFoundTheRow, Written
  <2> QED BY <2>2, <2>3
<1>2. ASSUME NEW s \in Sessions, CreateReviewWrite(s) PROVE LeaseInv'
  <2>1. LeaseTypeOK'
    BY <1>2 DEF CreateReviewWrite, Finish, Side, LeaseTypeOK
  <2>2. CallsFoundTheRow'
    BY <1>2 DEF CreateReviewWrite, CallsFoundTheRow, Written, Idle, InCall
  <2> QED BY <2>1, <2>2
<1>3. ASSUME NEW s \in Sessions, Abandon(s) PROVE LeaseInv'
  BY <1>3 DEF Abandon, Finish, LeaseTypeOK, CallsFoundTheRow, Written, Idle,
     InCall
<1>4. CASE UNCHANGED leaseVars
  BY <1>4 DEF leaseVars, LeaseTypeOK, CallsFoundTheRow, Written, Idle, InCall
<1> QED
  BY <1>1, <1>2, <1>3, <1>4, LandlordStep, TenantStep DEF LeaseNext

LEMMA LeaseInvInit == LeaseInit => LeaseInv
BY DEF LeaseInit, LeaseInv, LeaseTypeOK, CallsFoundTheRow, Idle, InCall

LEMMA LeaseInvHolds == LeaseSpec => []LeaseInv
BY LeaseInvInit, LeaseInvStep, PTL DEF LeaseSpec

\* No handler writes to a contract that is not there, and revisions stay
\* within what was saved.
THEOREM LeaseTypes == LeaseSpec => []LeaseTypeOK
<1>1. LeaseInv => LeaseTypeOK
  BY DEF LeaseInv
<1> QED
  BY LeaseInvHolds, <1>1, PTL

----------------------------------------------------------------------------
(* What the writes leave of the row, for the arguments below.              *)

LEMMA RowFound ==
    ASSUME LeaseInv, NEW s \in Sessions, ~Idle(s), ~InCall(s, "createDraft")
    PROVE  contract \in Contract /\ Written
BY DEF LeaseInv, LeaseTypeOK, CallsFoundTheRow, Written

LEMMA UpdateDraftEffect ==
    ASSUME LeaseInv, NEW s \in Sessions, UpdateDraftWrite(s)
    PROVE  /\ contract' \in Contract
           /\ contract'.status = "DRAFTING" /\ contract'.review = "PENDING_REVIEW"
           /\ contract'.pdf = contract.pdf
<1>1. contract \in Contract
  BY RowFound DEF UpdateDraftWrite, InCall, Idle
<1>2. contract.revision + 1 \in Revision
  BY <1>1, LeaseAssumption DEF UpdateDraftWrite, Contract, Revision
<1> QED
  BY <1>1, <1>2 DEF UpdateDraftWrite, Contract, Status, ReviewStatus

LEMMA StatusWriteEffect ==
    ASSUME LeaseInv, NEW s \in Sessions,
           SendForReviewWrite(s) \/ RejectWrite(s) \/ RecoverWrite(s)
    PROVE  /\ contract \in Contract /\ contract' \in Contract
           /\ contract'.review = contract.review
           /\ contract'.revision = contract.revision
           /\ contract'.pdf = contract.pdf
<1>1. contract \in Contract
  BY RowFound DEF SendForReviewWrite, RejectWrite, RecoverWrite, InCall, Idle
<1>2. PICK status \in Status : contract' = [contract EXCEPT !.status = status]
  <2>1. CASE RecoverWrite(s) /\ StatusIs("APPROVED")
    <3>1. contract' = [contract EXCEPT !.status = "APPROVED"]
      BY <1>1, <2>1 DEF RecoverWrite, StatusIs, Contract
    <3> QED BY <3>1 DEF Status
  <2> QED
    BY <2>1 DEF SendForReviewWrite, RejectWrite, RecoverWrite, Status
<1> QED
  BY <1>1, <1>2 DEF Contract

LEMMA RequestChangesEffect ==
    ASSUME LeaseInv, NEW s \in Sessions, RequestChanges(s)
    PROVE  /\ contract' \in Contract
           /\ contract'.review = "CHANGES_REQUESTED"
           /\ contract'.status = contract.status
           /\ contract'.revision = contract.revision
           /\ contract'.pdf = contract.pdf
<1>1. contract \in Contract
  BY DEF RequestChanges, ReviewIs, Written, LeaseInv, LeaseTypeOK
<1> QED
  BY <1>1 DEF RequestChanges, Contract, ReviewStatus

LEMMA ConfirmReviewEffect ==
    ASSUME LeaseInv, NEW s \in Sessions, ConfirmReview(s)
    PROVE  /\ contract' \in Contract
           /\ contract'.revision = contract.revision
           /\ contract'.pdf = contract.pdf
<1>1. contract \in Contract
  BY DEF ConfirmReview, ReviewIs, Written, LeaseInv, LeaseTypeOK
<1> QED
  BY <1>1 DEF ConfirmReview, Contract, Status, ReviewStatus, Revision

LEMMA ApproveEffect ==
    ASSUME LeaseInv, NEW s \in Sessions, ApproveWrite(s)
    PROVE  /\ contract' \in Contract
           /\ contract'.status = "APPROVED"
           /\ contract'.review = "REVIEW_CONFIRMED"
           /\ contract'.revision = contract.revision
           /\ contract'.pdf = call[s].revision
           /\ call[s].revision \in Revision
<1>1. contract \in Contract
  BY RowFound DEF ApproveWrite, InCall, Idle
<1>2. call[s].revision \in Revision
  BY DEF ApproveWrite, InCall, LeaseInv, LeaseTypeOK, Call
<1> QED
  BY <1>1, <1>2 DEF ApproveWrite, Contract, Status, ReviewStatus

----------------------------------------------------------------------------
(* Confirmations are kept.                                                 *)

\* Whatever the tabs of both parties do at the same time, the tenant's
\* confirmation is not lost and the confirmed text does not change.
THEOREM ConfirmationsKept == LeaseSpec => ConfirmationIsKept
<1> DEFINE Kept == ReviewIs("REVIEW_CONFIRMED") =>
                       /\ ReviewIs("REVIEW_CONFIRMED")'
                       /\ contract'.revision = contract.revision
<1>1. LeaseInv /\ [LeaseNext]_leaseVars => [Kept]_leaseVars
  <2> SUFFICES ASSUME LeaseInv, NEW s \in Sessions,
                      ReviewIs("REVIEW_CONFIRMED"),
                      \/ SaveDraftRead(s) \/ CreateDraftWrite(s)
                      \/ UpdateDraftWrite(s) \/ SendForReviewRead(s)
                      \/ SendForReviewWrite(s) \/ RejectRead(s)
                      \/ RejectWrite(s) \/ RequestChanges(s)
                      \/ ConfirmReview(s) \/ RecoverRead(s)
                      \/ RecoverWrite(s) \/ ApproveRead(s)
                      \/ ApproveWrite(s) \/ CreateReviewRead(s)
                      \/ CreateReviewWrite(s) \/ Abandon(s)
               PROVE  Kept
    BY DEF LeaseNext
  <2>1. CASE ApproveWrite(s)
    BY <2>1, ApproveEffect, LeaseNullAssumption DEF ReviewIs, Written
  <2>2. CASE SendForReviewWrite(s) \/ RejectWrite(s) \/ RecoverWrite(s)
    BY <2>2, StatusWriteEffect, LeaseNullAssumption DEF ReviewIs, Written
  <2>3. CASE CreateDraftWrite(s) \/ UpdateDraftWrite(s)
    BY <2>3 DEF CreateDraftWrite, UpdateDraftWrite, ReviewIs
  <2>4. CASE RequestChanges(s) \/ ConfirmReview(s)
    BY <2>4 DEF RequestChanges, ConfirmReview, ReviewIs
  <2>5. CASE UNCHANGED contract
    BY <2>5 DEF ReviewIs, Written
  <2> QED
    BY <2>1, <2>2, <2>3, <2>4, <2>5
    DEF SaveDraftRead, SendForReviewRead, RejectRead, RecoverRead, ApproveRead,
        CreateReviewRead, CreateReviewWrite, Abandon
<1> QED
  BY <1>1, LeaseInvHolds, PTL DEF LeaseSpec, ConfirmationIsKept

----------------------------------------------------------------------------
(* User reviews follow the deal.                                           *)

\* pdfUrl is never cleared, although an approved contract can lose its status.
ReviewInv ==
    /\ StatusIs("APPROVED") => contract.pdf # 0
    /\ \A s \in Sessions : InCall(s, "createReview") => contract.pdf # 0
    /\ ReviewsFollowTheDeal

LEMMA ReviewInvStep ==
    ASSUME LeaseInv, ReviewInv, [LeaseNext]_leaseVars
    PROVE  ReviewInv'
<1>1. ASSUME NEW s \in Sessions, ApproveWrite(s) PROVE ReviewInv'
  <2>1. contract'.pdf # 0 /\ contract' # NULL
    BY <1>1, ApproveEffect, LeaseNullAssumption DEF Revision
  <2> QED BY <2>1 DEF ReviewInv, ReviewsFollowTheDeal, Written
<1>2. ASSUME NEW s \in Sessions,
             \/ SendForReviewWrite(s) \/ RejectWrite(s) \/ RecoverWrite(s)
             \/ UpdateDraftWrite(s) \/ RequestChanges(s) \/ ConfirmReview(s)
      PROVE  ReviewInv'
  <2>1. /\ contract' \in Contract
        /\ contract'.pdf = contract.pdf
        /\ StatusIs("APPROVED")' => StatusIs("APPROVED")
    <3>1. CASE SendForReviewWrite(s) \/ RejectWrite(s) \/ RecoverWrite(s)
      <4>1. /\ contract \in Contract /\ contract' \in Contract
            /\ contract'.pdf = contract.pdf
        BY <3>1, StatusWriteEffect
      <4>2. StatusIs("APPROVED")' => StatusIs("APPROVED")
        BY <3>1, <4>1 DEF SendForReviewWrite, RejectWrite, RecoverWrite,
           StatusIs, Written, Contract
      <4> QED BY <4>1, <4>2
    <3>2. CASE UpdateDraftWrite(s)
      BY <3>2, UpdateDraftEffect DEF StatusIs
    <3>3. CASE RequestChanges(s)
      BY <3>3, RequestChangesEffect DEF StatusIs, RequestChanges, ReviewIs, Written
    <3>4. CASE ConfirmReview(s)
      <4>1. contract \in Contract
        BY <3>4 DEF ConfirmReview, ReviewIs, Written, LeaseInv, LeaseTypeOK
      <4>2. contract'.status = "PENDING_TENANT_APPROVAL"
        BY <3>4, <4>1 DEF ConfirmReview, Contract
      <4> QED BY <3>4, <4>2, ConfirmReviewEffect DEF StatusIs
    <3> QED BY <1>2, <3>1, <3>2, <3>3, <3>4
  <2>2. UNCHANGED userReviews
    BY <1>2 DEF SendForReviewWrite, RejectWrite, RecoverWrite,
       UpdateDraftWrite, RequestChanges, ConfirmReview
  <2>3. \A u \in Sessions : InCall(u, "createReview")' => InCall(u, "createReview")
    BY <1>2 DEF SendForReviewWrite, RejectWrite, RecoverWrite, UpdateDraftWrite,
       RequestChanges, ConfirmReview, Begin, Finish, InCall, LeaseInv,
       LeaseTypeOK
  <2>4. contract' # NULL
    BY <2>1, LeaseNullAssumption
  <2> QED
    BY <2>1, <2>2, <2>3, <2>4 DEF ReviewInv, ReviewsFollowTheDeal, Written
<1>3. ASSUME NEW s \in Sessions, CreateDraftWrite(s) PROVE ReviewInv'
  <2>1. userReviews = {} /\ UNCHANGED userReviews
    BY <1>3 DEF CreateDraftWrite, ReviewInv, ReviewsFollowTheDeal
  <2>2. contract'.status = "DRAFTING"
    BY <1>3 DEF CreateDraftWrite
  <2>3. \A u \in Sessions : ~InCall(u, "createReview")
    BY <1>3, LeaseNullAssumption DEF CreateDraftWrite, LeaseInv,
       CallsFoundTheRow, InCall, Idle
  <2>4. \A u \in Sessions : ~InCall(u, "createReview")'
    BY <1>3, <2>3 DEF CreateDraftWrite, Finish, InCall, LeaseInv, LeaseTypeOK
  <2> QED BY <2>1, <2>2, <2>4 DEF ReviewInv, ReviewsFollowTheDeal, StatusIs
<1>4. ASSUME NEW s \in Sessions, CreateReviewRead(s) PROVE ReviewInv'
  BY <1>4 DEF CreateReviewRead, Begin, InCall, ReviewInv,
     ReviewsFollowTheDeal, StatusIs, Written, LeaseInv, LeaseTypeOK
<1>5. ASSUME NEW s \in Sessions, CreateReviewWrite(s) PROVE ReviewInv'
  BY <1>5, RowFound DEF CreateReviewWrite, Finish, InCall, Idle, ReviewInv,
     ReviewsFollowTheDeal, StatusIs, Written, LeaseInv, LeaseTypeOK
<1>6. ASSUME NEW s \in Sessions,
             \/ SaveDraftRead(s) \/ SendForReviewRead(s) \/ RejectRead(s)
             \/ RecoverRead(s) \/ ApproveRead(s) \/ Abandon(s)
      PROVE  ReviewInv'
  <2>1. UNCHANGED <<contract, userReviews>>
    BY <1>6 DEF SaveDraftRead, SendForReviewRead, RejectRead, RecoverRead,
       ApproveRead, Abandon
  <2>2. \A u \in Sessions : InCall(u, "createReview")' => InCall(u, "createReview")
    BY <1>6 DEF SaveDraftRead, SendForReviewRead, RejectRead, RecoverRead,
       ApproveRead, Abandon, Begin, Finish, InCall, LeaseInv, LeaseTypeOK
  <2> QED
    BY <2>1, <2>2 DEF ReviewInv, ReviewsFollowTheDeal, StatusIs, Written
<1>7. CASE UNCHANGED leaseVars
  BY <1>7 DEF leaseVars, ReviewInv, ReviewsFollowTheDeal, StatusIs, Written,
     InCall
<1> QED
  BY <1>1, <1>2, <1>3, <1>4, <1>5, <1>6, <1>7 DEF LeaseNext

\* A party reviews the other only after the PDF of their contract was made.
THEOREM ReviewsFollow == LeaseSpec => []ReviewsFollowTheDeal
<1>1. LeaseInit => ReviewInv
  BY DEF LeaseInit, ReviewInv, ReviewsFollowTheDeal, StatusIs, Written, InCall
<1>2. LeaseInv /\ ReviewInv /\ [LeaseNext]_leaseVars => ReviewInv'
  BY ReviewInvStep
<1>3. ReviewInv => ReviewsFollowTheDeal
  BY DEF ReviewInv
<1> QED
  BY <1>1, <1>2, <1>3, LeaseInvHolds, PTL DEF LeaseSpec

----------------------------------------------------------------------------
(* The stored PDF, when the tenant uses a single tab.                      *)

OneTenantTab == \A s, u \in TenantSessions : s = u

RevisionReleased == contract.revision \in released

\* The row is up for approval, or confirmed and not yet approved, only with a
\* released text; and a rejection or a recovery under way will not put an
\* unreleased one there.
ReleaseInv ==
    /\ PdfWasReleased
    /\ StatusIs("PENDING_TENANT_APPROVAL") => RevisionReleased
    /\ ReviewIs("REVIEW_CONFIRMED") /\ ~StatusIs("APPROVED") => RevisionReleased
    /\ \A s \in Sessions :
           /\ InCall(s, "render") =>
                  s \in TenantSessions /\ call[s].revision \in released
           /\ InCall(s, "reject") =>
                  /\ s \in TenantSessions
                  /\ ReviewIs("REVIEW_CONFIRMED") => RevisionReleased
           /\ InCall(s, "recover") => s \in TenantSessions /\ RevisionReleased
           /\ InCall(s, "recover") => ReviewIs("REVIEW_CONFIRMED")

\* Calls that stay as they are or end.
LEMMA OnlyEnds ==
    ASSUME LeaseInv, NEW s \in Sessions, Finish(s), NEW u \in Sessions,
           call'[u] # NULL
    PROVE  u # s /\ call'[u] = call[u]
BY DEF Finish, LeaseInv, LeaseTypeOK

LEMMA ReleaseInvStep ==
    ASSUME OneTenantTab, LeaseInv, ReleaseInv, [LeaseNext]_leaseVars
    PROVE  ReleaseInv'
<1>1. ASSUME NEW s \in Sessions, CreateDraftWrite(s) PROVE ReleaseInv'
  <2>1. /\ contract'.status = "DRAFTING" /\ contract'.review = "PENDING_REVIEW"
        /\ contract'.pdf = 0 /\ UNCHANGED released
    BY <1>1 DEF CreateDraftWrite
  <2>2. ASSUME NEW u \in Sessions, call'[u] # NULL
        PROVE  call'[u].op \notin {"render", "reject", "recover"}
    <3>1. call'[u] = call[u] /\ ~Written
      BY <1>1, <2>2, OnlyEnds DEF CreateDraftWrite
    <3>2. InCall(u, "createDraft")
      BY <2>2, <3>1 DEF LeaseInv, CallsFoundTheRow, Idle
    <3> QED BY <3>1, <3>2 DEF InCall
  <2> QED
    BY <2>1, <2>2 DEF ReleaseInv, PdfWasReleased, StatusIs, ReviewIs, InCall
<1>2. ASSUME NEW s \in Sessions, UpdateDraftWrite(s) PROVE ReleaseInv'
  <2>1. /\ contract'.status = "DRAFTING" /\ contract'.review = "PENDING_REVIEW"
        /\ contract'.pdf = contract.pdf /\ UNCHANGED released
        /\ ~ReviewIs("REVIEW_CONFIRMED") /\ Written
    BY <1>2, UpdateDraftEffect, RowFound DEF UpdateDraftWrite, InCall, Idle
  <2>2. PdfWasReleased'
    BY <2>1 DEF ReleaseInv, PdfWasReleased
  <2>3. ASSUME NEW u \in Sessions, call'[u] # NULL PROVE call'[u] = call[u]
    BY <1>2, <2>3, OnlyEnds DEF UpdateDraftWrite
  <2> QED
    BY <2>1, <2>2, <2>3 DEF ReleaseInv, StatusIs, ReviewIs, InCall
<1>3. ASSUME NEW s \in Sessions, SendForReviewWrite(s) PROVE ReleaseInv'
  <2>1. /\ Written /\ Written'
        /\ contract'.review = contract.review
        /\ contract'.revision = contract.revision
        /\ contract'.pdf = contract.pdf
    BY <1>3, StatusWriteEffect, LeaseNullAssumption DEF Written
  <2>2. released' = released \cup {contract'.revision}
    BY <1>3, <2>1 DEF SendForReviewWrite
  <2>3. PdfWasReleased'
    BY <2>1, <2>2 DEF ReleaseInv, PdfWasReleased
  <2>4. ASSUME NEW u \in Sessions, call'[u] # NULL PROVE call'[u] = call[u]
    BY <1>3, <2>4, OnlyEnds DEF SendForReviewWrite
  <2> QED
    BY <2>1, <2>2, <2>3, <2>4
    DEF ReleaseInv, RevisionReleased, StatusIs, ReviewIs, InCall
<1>4. ASSUME NEW s \in Sessions, RejectWrite(s) \/ RecoverWrite(s)
      PROVE  ReleaseInv'
  <2>1. /\ Written /\ Written' /\ UNCHANGED released
        /\ contract'.review = contract.review
        /\ contract'.revision = contract.revision
        /\ contract'.pdf = contract.pdf
    BY <1>4, StatusWriteEffect, LeaseNullAssumption
    DEF Written, RejectWrite, RecoverWrite
  <2>2. s \in TenantSessions /\ (ReviewIs("REVIEW_CONFIRMED") => RevisionReleased)
    BY <1>4 DEF RejectWrite, RecoverWrite, ReleaseInv
  <2>3. StatusIs("PENDING_TENANT_APPROVAL")' => RevisionReleased
    <3>1. CASE RejectWrite(s)
      <4>1. contract \in Contract
        BY <3>1, StatusWriteEffect
      <4> QED BY <3>1, <4>1 DEF RejectWrite, StatusIs, Contract
    <3>2. CASE RecoverWrite(s)
      BY <3>2 DEF RecoverWrite, ReleaseInv
    <3> QED BY <1>4, <3>1, <3>2
  <2>4. PdfWasReleased'
    BY <2>1 DEF ReleaseInv, PdfWasReleased
  <2>5. ASSUME NEW u \in Sessions, InCall(u, "render") \/ InCall(u, "reject")
                                       \/ InCall(u, "recover")
        PROVE  u = s
    BY <2>2, <2>5 DEF ReleaseInv, OneTenantTab
  <2>6. ASSUME NEW u \in Sessions
        PROVE  ~InCall(u, "render")' /\ ~InCall(u, "reject")'
                   /\ ~InCall(u, "recover")'
    BY <1>4, <2>5 DEF RejectWrite, RecoverWrite, Finish, Begin, InCall,
       LeaseInv, LeaseTypeOK
  <2> QED
    BY <2>1, <2>2, <2>3, <2>4, <2>6
    DEF ReleaseInv, RevisionReleased, ReviewIs
<1>5. ASSUME NEW s \in Sessions, ApproveWrite(s) PROVE ReleaseInv'
  <2>1. /\ contract'.status = "APPROVED" /\ Written'
        /\ contract'.pdf = call[s].revision /\ UNCHANGED released
        /\ call[s].revision \in released /\ s \in TenantSessions
    BY <1>5, ApproveEffect, LeaseNullAssumption
    DEF ApproveWrite, ReleaseInv, Written
  <2>2. ASSUME NEW u \in Sessions, call'[u] # NULL
        PROVE  call'[u].op \notin {"render", "reject", "recover"}
    <3>1. u # s /\ call'[u] = call[u]
      BY <1>5, <2>2, OnlyEnds DEF ApproveWrite
    <3> QED BY <2>1, <2>2, <3>1 DEF ReleaseInv, OneTenantTab, InCall
  <2> QED
    BY <2>1, <2>2 DEF ReleaseInv, PdfWasReleased, StatusIs, InCall
<1>6. ASSUME NEW s \in Sessions, RequestChanges(s) PROVE ReleaseInv'
  <2>1. /\ contract'.review = "CHANGES_REQUESTED" /\ Written /\ Written'
        /\ contract'.status = contract.status
        /\ contract'.revision = contract.revision
        /\ contract'.pdf = contract.pdf
        /\ UNCHANGED <<released, call>>
        /\ ~ReviewIs("REVIEW_CONFIRMED")
    BY <1>6, RequestChangesEffect, LeaseNullAssumption
    DEF RequestChanges, ReviewIs, Written
  <2> QED
    BY <2>1 DEF ReleaseInv, PdfWasReleased, RevisionReleased, StatusIs,
       ReviewIs, InCall
<1>7. ASSUME NEW s \in Sessions, ConfirmReview(s) PROVE ReleaseInv'
  <2>1. /\ Written /\ Written' /\ s \in TenantSessions /\ Idle(s)
        /\ contract'.revision = contract.revision
        /\ contract'.pdf = contract.pdf
        /\ released' = released \cup {contract.revision}
    BY <1>7, ConfirmReviewEffect, LeaseNullAssumption
    DEF ConfirmReview, ReviewIs, Written
  <2>2. ASSUME NEW u \in Sessions
        PROVE  ~InCall(u, "render")' /\ ~InCall(u, "reject")'
                   /\ ~InCall(u, "recover")'
    BY <1>7, <2>1 DEF ConfirmReview, Begin, InCall, Idle, ReleaseInv,
       OneTenantTab, LeaseInv, LeaseTypeOK
  <2> QED
    BY <2>1, <2>2 DEF ReleaseInv, PdfWasReleased, RevisionReleased
<1>8. ASSUME NEW s \in Sessions,
             \/ SaveDraftRead(s) \/ SendForReviewRead(s) \/ RejectRead(s)
             \/ RecoverRead(s) \/ ApproveRead(s) \/ CreateReviewRead(s)
             \/ CreateReviewWrite(s) \/ Abandon(s)
      PROVE  ReleaseInv'
  <2>1. UNCHANGED <<contract, released>>
    BY <1>8 DEF SaveDraftRead, SendForReviewRead, RejectRead, RecoverRead,
       ApproveRead, CreateReviewRead, CreateReviewWrite, Abandon
  <2>2. \A u \in Sessions \ {s} : call'[u] = call[u]
    BY <1>8 DEF SaveDraftRead, SendForReviewRead, RejectRead, RecoverRead,
       ApproveRead, CreateReviewRead, CreateReviewWrite, Abandon, Begin,
       Finish, LeaseInv, LeaseTypeOK
  <2>3. /\ InCall(s, "render")' =>
               s \in TenantSessions /\ call'[s].revision \in released
        /\ InCall(s, "reject")' =>
               /\ s \in TenantSessions
               /\ ReviewIs("REVIEW_CONFIRMED") => RevisionReleased
        /\ InCall(s, "recover")' => s \in TenantSessions /\ RevisionReleased
        /\ InCall(s, "recover")' => ReviewIs("REVIEW_CONFIRMED")
    BY <1>8 DEF SaveDraftRead, SendForReviewRead, RejectRead, RecoverRead,
       ApproveRead, CreateReviewRead, CreateReviewWrite, Abandon, Begin,
       Finish, InCall, ReleaseInv, RevisionReleased, LeaseInv, LeaseTypeOK
  <2>4. ReleaseInv!4'
    BY <2>1, <2>2, <2>3
    DEF ReleaseInv, InCall, ReviewIs, Written, RevisionReleased
  <2> QED
    BY <2>1, <2>4
    DEF ReleaseInv, PdfWasReleased, RevisionReleased, StatusIs, ReviewIs,
        Written
<1>9. CASE UNCHANGED leaseVars
  BY <1>9 DEF leaseVars, ReleaseInv, PdfWasReleased, RevisionReleased, StatusIs,
     ReviewIs, Written, InCall
<1> QED
  BY <1>1, <1>2, <1>3, <1>4, <1>5, <1>6, <1>7, <1>8, <1>9 DEF LeaseNext

\* With one tab of the tenant and any number of the landlord's, the stored
\* PDF is of a text the landlord sent or the tenant confirmed.
THEOREM PdfsWereReleased ==
    ASSUME OneTenantTab
    PROVE  LeaseSpec => []PdfWasReleased
<1>1. LeaseInit => ReleaseInv
  BY DEF LeaseInit, ReleaseInv, PdfWasReleased, StatusIs, ReviewIs, Written,
     InCall
<1>2. LeaseInv /\ ReleaseInv /\ [LeaseNext]_leaseVars => ReleaseInv'
  BY ReleaseInvStep
<1>3. ReleaseInv => PdfWasReleased
  BY DEF ReleaseInv
<1> QED
  BY <1>1, <1>2, <1>3, LeaseInvHolds, PTL DEF LeaseSpec

----------------------------------------------------------------------------
(* The refinement of Signing.  Every step is a step of the promise or      *)
(* leaves its variables alone; which one is read off what the step writes. *)

Text == IF Written THEN contract.revision ELSE 0
Printed == IF Written THEN contract.pdf ELSE 0

\* The parts of the row that the promise is about.
LEMMA RowParts ==
    ASSUME contract \in Contract
    PROVE  /\ Written /\ Text = contract.revision /\ Printed = contract.pdf
           /\ Text \in Revision /\ Text # 0
BY LeaseNullAssumption DEF Text, Printed, Written, Contract, Revision

LEMMA RowPartsAfter ==
    ASSUME contract' \in Contract
    PROVE  /\ Written' /\ Text' = contract'.revision /\ Printed' = contract'.pdf
           /\ ReviewIs("REVIEW_CONFIRMED")' <=> contract'.review = "REVIEW_CONFIRMED"
BY LeaseNullAssumption DEF Text, Printed, Written, ReviewIs

\* Reads, refusals and failures change nothing of it.
LEMMA RestsSigned ==
    ASSUME UNCHANGED <<contract, released, userReviews>>
    PROVE  UNCHANGED Signed!signingVars
BY DEF Signed!signingVars, Written, ReviewIs

LEMMA DraftIsSigned ==
    ASSUME LeaseInv, NEW s \in Sessions, CreateDraftWrite(s) \/ UpdateDraftWrite(s)
    PROVE  Signed!Draft
<1>1. CASE CreateDraftWrite(s)
  <2>1. /\ ~Written /\ UNCHANGED <<released, userReviews>>
        /\ contract' = [status |-> "DRAFTING", review |-> "PENDING_REVIEW",
                        revision |-> 1, reviewed |-> 0, pdf |-> 0]
    BY <1>1 DEF CreateDraftWrite
  <2>2. contract' \in Contract
    BY <1>1, <2>1, LeaseAssumption DEF CreateDraftWrite, Contract, Status,
       ReviewStatus, Revision
  <2>3. /\ Text = 0 /\ Text' = 1 /\ Printed = 0 /\ Printed' = 0
        /\ ~ReviewIs("REVIEW_CONFIRMED") /\ ~ReviewIs("REVIEW_CONFIRMED")'
    BY <2>1, <2>2, RowPartsAfter DEF Text, Printed, ReviewIs
  <2> QED
    BY <2>1, <2>3 DEF Signed!Draft, Text, Printed, ReviewIs, Written
<1>2. CASE UpdateDraftWrite(s)
  <2>1. /\ ~ReviewIs("REVIEW_CONFIRMED") /\ UNCHANGED <<released, userReviews>>
    BY <1>2 DEF UpdateDraftWrite
  <2>2. contract \in Contract /\ contract' \in Contract
    BY <1>2, RowFound, UpdateDraftEffect DEF UpdateDraftWrite, InCall, Idle
  <2>3. /\ contract'.review = "PENDING_REVIEW" /\ contract'.pdf = contract.pdf
        /\ contract'.revision = contract.revision + 1
    BY <1>2, <2>2, UpdateDraftEffect DEF UpdateDraftWrite, Contract
  <2>4. /\ Text' = Text + 1 /\ Printed' = Printed
        /\ ~ReviewIs("REVIEW_CONFIRMED")'
    BY <2>2, <2>3, RowParts, RowPartsAfter
  <2> QED
    BY <2>1, <2>4 DEF Signed!Draft, Text, Printed, ReviewIs, Written
<1> QED BY <1>1, <1>2

LEMMA StatusWriteIsSigned ==
    ASSUME LeaseInv, NEW s \in Sessions,
           SendForReviewWrite(s) \/ RejectWrite(s) \/ RecoverWrite(s)
    PROVE  Signed!Show \/ UNCHANGED Signed!signingVars
<1>1. /\ contract \in Contract /\ contract' \in Contract
      /\ contract'.review = contract.review
      /\ contract'.revision = contract.revision
      /\ contract'.pdf = contract.pdf
  BY StatusWriteEffect
<1>2. /\ Text' = Text /\ Printed' = Printed /\ Text # 0
      /\ ReviewIs("REVIEW_CONFIRMED")' = ReviewIs("REVIEW_CONFIRMED")
  BY <1>1, RowParts, RowPartsAfter DEF ReviewIs
<1>3. UNCHANGED userReviews
  BY DEF SendForReviewWrite, RejectWrite, RecoverWrite
<1>4. released' = released \cup {Text} \/ UNCHANGED released
  BY <1>1, RowParts DEF SendForReviewWrite, RejectWrite, RecoverWrite
<1> QED
  BY <1>2, <1>3, <1>4
  DEF Signed!Show, Signed!signingVars, Text, Printed, ReviewIs, Written

LEMMA RequestChangesIsSigned ==
    ASSUME LeaseInv, NEW s \in Sessions, RequestChanges(s)
    PROVE  UNCHANGED Signed!signingVars
<1>1. /\ contract \in Contract /\ ReviewIs("PENDING_REVIEW")
      /\ UNCHANGED <<released, userReviews>>
  BY DEF RequestChanges, ReviewIs, Written, LeaseInv, LeaseTypeOK
<1>2. /\ Text' = Text /\ Printed' = Printed
      /\ ~ReviewIs("REVIEW_CONFIRMED") /\ ~ReviewIs("REVIEW_CONFIRMED")'
  BY <1>1, RequestChangesEffect, RowParts, RowPartsAfter DEF ReviewIs
<1> QED
  BY <1>1, <1>2 DEF Signed!signingVars, Text, Printed, ReviewIs, Written

LEMMA ConfirmReviewIsSigned ==
    ASSUME LeaseInv, NEW s \in Sessions, ConfirmReview(s)
    PROVE  Signed!Confirm
<1>1. /\ contract \in Contract /\ UNCHANGED userReviews
      /\ released' = released \cup {contract.revision}
  BY DEF ConfirmReview, ReviewIs, Written, LeaseInv, LeaseTypeOK
<1>2. contract'.review = "REVIEW_CONFIRMED"
  BY <1>1 DEF ConfirmReview, Contract
<1>3. /\ Text' = Text /\ Printed' = Printed /\ Text # 0
      /\ ReviewIs("REVIEW_CONFIRMED")' /\ released' = released \cup {Text}
  BY <1>1, <1>2, ConfirmReviewEffect, RowParts, RowPartsAfter
<1> QED
  BY <1>1, <1>3 DEF Signed!Confirm, Text, Printed, ReviewIs, Written

LEMMA ApproveIsSigned ==
    ASSUME LeaseInv, ReleaseInv, NEW s \in Sessions, ApproveWrite(s)
    PROVE  \E draft \in released : Signed!PrintPdf(draft)
<1>1. PICK draft \in released : draft = call[s].revision
  BY DEF ReleaseInv, ApproveWrite
<1>2. contract \in Contract /\ UNCHANGED <<released, userReviews>>
  BY RowFound DEF ApproveWrite, InCall, Idle
<1>3. /\ Text' = Text /\ Printed' = draft /\ ReviewIs("REVIEW_CONFIRMED")'
  BY <1>1, <1>2, ApproveEffect, RowParts, RowPartsAfter
<1>4. Signed!PrintPdf(draft)
  BY <1>2, <1>3 DEF Signed!PrintPdf, Text, Printed, ReviewIs, Written
<1> QED BY <1>4

LEMMA CreateReviewIsSigned ==
    ASSUME LeaseInv, ReviewInv, NEW s \in Sessions, CreateReviewWrite(s)
    PROVE  \E p \in {"landlord", "tenant"} : Signed!Review(p)
<1>1. PICK p \in {"landlord", "tenant"} : p = Side(s)
  BY DEF Side
<1>2. /\ contract \in Contract /\ contract.pdf # 0
      /\ UNCHANGED <<contract, released>>
      /\ p \notin userReviews /\ userReviews' = userReviews \cup {p}
  BY <1>1, RowFound DEF CreateReviewWrite, InCall, Idle, ReviewInv
<1>3. /\ Text' = Text /\ Printed' = Printed /\ Printed # 0
      /\ ReviewIs("REVIEW_CONFIRMED")' = ReviewIs("REVIEW_CONFIRMED")
  BY <1>2, RowParts DEF Text, Printed, ReviewIs, Written
<1>4. Signed!Review(p)
  BY <1>2, <1>3 DEF Signed!Review, Text, Printed, ReviewIs, Written
<1> QED BY <1>4

LEMMA LeaseStepIsSigned ==
    ASSUME LeaseInv, ReviewInv, ReleaseInv, [LeaseNext]_leaseVars
    PROVE  [Signed!SigningNext]_Signed!signingVars
<1>1. ASSUME NEW s \in Sessions,
             \/ SaveDraftRead(s) \/ SendForReviewRead(s) \/ RejectRead(s)
             \/ RecoverRead(s) \/ ApproveRead(s) \/ CreateReviewRead(s)
             \/ Abandon(s)
      PROVE  UNCHANGED Signed!signingVars
  BY <1>1, RestsSigned DEF SaveDraftRead, SendForReviewRead, RejectRead,
     RecoverRead, ApproveRead, CreateReviewRead, Abandon
<1>2. CASE UNCHANGED leaseVars
  BY <1>2, RestsSigned DEF leaseVars
<1>3. ASSUME NEW s \in Sessions, CreateDraftWrite(s) \/ UpdateDraftWrite(s)
      PROVE  Signed!SigningNext
  BY <1>3, DraftIsSigned DEF Signed!SigningNext
<1>4. ASSUME NEW s \in Sessions,
             SendForReviewWrite(s) \/ RejectWrite(s) \/ RecoverWrite(s)
      PROVE  [Signed!SigningNext]_Signed!signingVars
  BY <1>4, StatusWriteIsSigned DEF Signed!SigningNext
<1>5. ASSUME NEW s \in Sessions, RequestChanges(s)
      PROVE  UNCHANGED Signed!signingVars
  BY <1>5, RequestChangesIsSigned
<1>6. ASSUME NEW s \in Sessions, ConfirmReview(s)
      PROVE  Signed!SigningNext
  BY <1>6, ConfirmReviewIsSigned DEF Signed!SigningNext
<1>7. ASSUME NEW s \in Sessions, ApproveWrite(s)
      PROVE  Signed!SigningNext
  BY <1>7, ApproveIsSigned DEF Signed!SigningNext
<1>8. ASSUME NEW s \in Sessions, CreateReviewWrite(s)
      PROVE  Signed!SigningNext
  BY <1>8, CreateReviewIsSigned DEF Signed!SigningNext
<1> QED
  BY <1>1, <1>2, <1>3, <1>4, <1>5, <1>6, <1>7, <1>8 DEF LeaseNext

\* With one tab of the tenant and any number of the landlord's, the lease flow
\* implements Signing: drafts end with the tenant's agreement, what is printed
\* was shown, and reviews come after it.
THEOREM LeaseIsSigned ==
    ASSUME OneTenantTab
    PROVE  LeaseSpec => ContractsAreSigned
<1>1. LeaseInit => Signed!SigningInit /\ ReviewInv /\ ReleaseInv
  BY DEF LeaseInit, Signed!SigningInit, ReviewInv, ReviewsFollowTheDeal,
     ReleaseInv, PdfWasReleased, StatusIs, ReviewIs, Written, InCall
<1>2. LeaseInv /\ ReviewInv /\ ReleaseInv /\ [LeaseNext]_leaseVars
          => ReviewInv' /\ ReleaseInv' /\ [Signed!SigningNext]_Signed!signingVars
  BY ReviewInvStep, ReleaseInvStep, LeaseStepIsSigned
<1> QED
  BY <1>1, <1>2, LeaseInvHolds, PTL
  DEF LeaseSpec, ContractsAreSigned, Signed!SigningSpec

\* What a contract that is kept so comes to: every PDF is of a draft that
\* exists and was shown, with the tenant's agreement, and no review is older.
THEOREM SignedPrintsAreAgreed == Signed!SigningSpec => []Signed!PrintsAreAgreed
<1> DEFINE Inv == Text \in Nat /\ Signed!PrintsAreAgreed
<1>1. Signed!SigningInit => Inv
  BY DEF Signed!SigningInit, Signed!PrintsAreAgreed, Text, Written
<1>2. ASSUME Inv, [Signed!SigningNext]_Signed!signingVars
      PROVE  Inv'
  BY <1>2 DEF Signed!PrintsAreAgreed, Signed!SigningNext, Signed!signingVars, Signed!Draft, Signed!Show,
     Signed!Confirm, Signed!PrintPdf, Signed!Review, Text, Written
<1> QED
  BY <1>1, <1>2, PTL DEF Signed!SigningSpec
=============================================================================
