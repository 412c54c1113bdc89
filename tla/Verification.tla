----------------------------- MODULE Verification -----------------------------
(***************************************************************************)
(* Identity verification of one user (VerificationService,                 *)
(* VerificationDocumentUploadService, LocalPrivateObjectStorageService and *)
(* AdminService.reviewKyc).                                                *)
(*                                                                         *)
(* A submission stores its documents one by one, then writes the row that  *)
(* names them, then deletes the documents the row named before.  Only the  *)
(* rows are transactional: a failure, or the death of the server, may come *)
(* between any two steps, and deletions are attempted once.                *)
(***************************************************************************)
EXTENDS Handlers

CONSTANTS
    Submissions,   \* object keys: those of one submission stand as one
    Files          \* documents in a submission

VARIABLES
    kyc,           \* the identity_verification row, or NULL
    stored,        \* how many documents of each submission are in the store
    kycCall        \* handlers under way

kycVars == <<kyc, stored, kycCall>>

KycStatus == {"PENDING", "APPROVED", "RESUBMISSION_REQUIRED"}
KycRow == [status: KycStatus, docs: Submissions]
\* existing: the documents named by the row that was read, if there was one.
KycCall ==
    [op: {"upload"}, docs: Submissions, existing: Submissions \cup {NULL}]
        \cup [op: {"clean"}, docs: Submissions]
        \cup [op: {"review"}, decision: KycStatus \ {"PENDING"}]

ASSUME VerificationAssumption ==
    /\ Files \in Nat \ {0}
    /\ NULL \notin Submissions \cup KycRow \cup KycCall

VerificationTypeOK ==
    /\ kyc \in KycRow \cup {NULL}
    /\ stored \in [Submissions -> 0 .. Files]
    /\ kycCall \in [Callers -> KycCall \cup {NULL}]

VerificationInit ==
    /\ kyc = NULL
    /\ stored = [d \in Submissions |-> 0]
    /\ kycCall = NobodyWaits

----------------------------------------------------------------------------

Names(row) == IF row = NULL THEN {} ELSE {row.docs}

Concerns(call) ==
    CASE call = NULL -> {}
      [] call # NULL /\ call.op = "review" -> {}
      [] call # NULL /\ call.op = "clean"  -> {call.docs}
      [] call # NULL /\ call.op = "upload" -> {call.docs, call.existing}

\* Object keys are random: a submission does not meet another one's.
Unused(d) ==
    /\ stored[d] = 0
    /\ d \notin Names(kyc)
    /\ \A c \in Callers : d \notin Concerns(kycCall[c])

Submit(c) ==
    /\ kyc # NULL => kyc.status = "RESUBMISSION_REQUIRED"
    /\ \E d \in Submissions :
           /\ Unused(d)
           /\ Waits(kycCall, c,
                    [op |-> "upload", docs |-> d,
                     existing |-> IF kyc = NULL THEN NULL ELSE kyc.docs])
    /\ UNCHANGED <<kyc, stored>>

Uploading(c) == kycCall[c] # NULL /\ kycCall[c].op = "upload"

Upload(c) ==
    /\ Uploading(c)
    /\ stored[kycCall[c].docs] < Files
    /\ stored' = [stored EXCEPT ![kycCall[c].docs] = @ + 1]
    /\ UNCHANGED <<kyc, kycCall>>

\* Each document is tried once; those that cannot be deleted stay.
DeleteDocuments(d) ==
    \E left \in 0 .. stored[d] : stored' = [stored EXCEPT ![d] = left]

Uploaded(c) == Uploading(c) /\ stored[kycCall[c].docs] = Files

CreateVerification(c) ==
    /\ Uploaded(c)
    /\ kycCall[c].existing = NULL
    /\ kyc = NULL
    /\ kyc' = [status |-> "PENDING", docs |-> kycCall[c].docs]
    /\ Ends(kycCall, c)
    /\ UNCHANGED stored

ReplaceDocuments(c) ==
    /\ Uploaded(c)
    /\ kycCall[c].existing # NULL
    /\ kyc # NULL
    /\ kyc.status = "RESUBMISSION_REQUIRED"
    /\ kyc' = [status |-> "PENDING", docs |-> kycCall[c].docs]
    /\ kycCall' = [kycCall EXCEPT ![c] = [op |-> "clean", docs |-> @.existing]]
    /\ UNCHANGED stored

DeleteOldDocuments(c) ==
    /\ kycCall[c] # NULL
    /\ kycCall[c].op = "clean"
    /\ DeleteDocuments(kycCall[c].docs)
    /\ Ends(kycCall, c)
    /\ UNCHANGED kyc

\* Mutant: a failed resubmission deletes the old documents.
RollBackOld(c) ==
    /\ Uploading(c)
    /\ kycCall[c].existing # NULL
    /\ DeleteDocuments(kycCall[c].existing)
    /\ Ends(kycCall, c)
    /\ UNCHANGED kyc

\* The row is there already, is not to be resubmitted any more, or cannot be
\* written, or an upload failed: what was stored is deleted.
RollBack(c) ==
    /\ Uploading(c)
    /\ DeleteDocuments(kycCall[c].docs)
    /\ Ends(kycCall, c)
    /\ UNCHANGED kyc

ReadKyc(c) ==
    /\ kyc # NULL
    /\ kyc.status = "PENDING"
    /\ \E decision \in KycStatus \ {"PENDING"} :
           Waits(kycCall, c, [op |-> "review", decision |-> decision])
    /\ UNCHANGED <<kyc, stored>>

ReviewKyc(c) ==
    /\ kycCall[c] # NULL
    /\ kycCall[c].op = "review"
    /\ kyc' = [kyc EXCEPT !.status = kycCall[c].decision]
    /\ Ends(kycCall, c)
    /\ UNCHANGED stored

\* The server dies, or the review cannot be written.
KycHandlerDies(c) == Ends(kycCall, c) /\ UNCHANGED <<kyc, stored>>

VerificationNext ==
    \E c \in Callers :
        \/ Submit(c) \/ Upload(c)
        \/ CreateVerification(c) \/ ReplaceDocuments(c)
        \/ DeleteOldDocuments(c) \/ RollBack(c)
        \/ ReadKyc(c) \/ ReviewKyc(c) \/ KycHandlerDies(c)

VerificationSpec == VerificationInit /\ [][VerificationNext]_kycVars

----------------------------------------------------------------------------

\* The documents that the row names are all in the store, however
\* submissions, reviews, failures and deletions interleave.
SubmittedDocumentsExist == kyc # NULL => stored[kyc.docs] = Files
=============================================================================
