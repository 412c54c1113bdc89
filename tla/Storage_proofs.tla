----------------------------- MODULE Storage_proofs -----------------------------
(***************************************************************************)
(* Proofs about what is kept outside the database: the documents of an     *)
(* identity verification (Verification) and the images of a listing        *)
(* (ListingImages), for any number of submissions, images and handlers.    *)
(***************************************************************************)
EXTENDS Verification, ListingImages, FiniteSetTheorems, TLAPS

----------------------------------------------------------------------------
(* Documents.  Those of an upload are named by nobody else: neither by the *)
(* row nor by another handler; those that are being deleted are not named  *)
(* by the row any more.                                                    *)

KycOp(c, op) == kycCall[c] # NULL /\ kycCall[c].op = op

UploadsAreOwn ==
    \A c \in Callers : KycOp(c, "upload") =>
        /\ kyc # NULL => kycCall[c].docs # kyc.docs
        /\ \A d \in Callers :
               /\ KycOp(d, "upload") => kycCall[d].existing # kycCall[c].docs
               /\ KycOp(d, "upload") /\ d # c => kycCall[d].docs # kycCall[c].docs
               /\ KycOp(d, "clean") => kycCall[d].docs # kycCall[c].docs

CleanedAreReplaced ==
    \A c \in Callers : KycOp(c, "clean") /\ kyc # NULL => kycCall[c].docs # kyc.docs

ReviewsFoundTheRow == \A c \in Callers : KycOp(c, "review") => kyc # NULL

KycInv ==
    /\ VerificationTypeOK
    /\ UploadsAreOwn
    /\ CleanedAreReplaced
    /\ ReviewsFoundTheRow
    /\ SubmittedDocumentsExist

LEMMA KycCallParts ==
    ASSUME VerificationTypeOK, NEW c \in Callers, kycCall[c] # NULL
    PROVE  /\ kycCall[c] \in KycCall
           /\ kycCall[c].op \in {"upload", "clean", "review"}
           /\ KycOp(c, "upload") => /\ kycCall[c].docs \in Submissions
                                    /\ kycCall[c].existing \in Submissions \cup {NULL}
           /\ KycOp(c, "clean") => kycCall[c].docs \in Submissions
           /\ KycOp(c, "review") => kycCall[c].decision \in KycStatus
<1>1. kycCall[c] \in KycCall
  BY DEF VerificationTypeOK
<1> QED BY <1>1 DEF KycCall, KycOp

LEMMA KycCallsTyped ==
    ASSUME NEW d \in Submissions
    PROVE  /\ \A e \in Submissions \cup {NULL} :
                  [op |-> "upload", docs |-> d, existing |-> e] \in KycCall
           /\ [op |-> "clean", docs |-> d] \in KycCall
           /\ [status |-> "PENDING", docs |-> d] \in KycRow
BY DEF KycCall, KycRow, KycStatus

LEMMA ReviewCallsTyped ==
    ASSUME NEW decision \in KycStatus \ {"PENDING"}
    PROVE  [op |-> "review", decision |-> decision] \in KycCall
BY DEF KycCall

LEMMA KycReviewed ==
    ASSUME NEW row \in KycRow, NEW s \in KycStatus
    PROVE  [row EXCEPT !.status = s] \in KycRow
           /\ [row EXCEPT !.status = s].docs = row.docs
BY DEF KycRow

\* What Unused says, by the kind of the handlers.
LEMMA UnusedIsOwn ==
    ASSUME VerificationTypeOK, NEW d \in Submissions, Unused(d)
    PROVE  /\ kyc # NULL => kyc.docs # d
           /\ \A c \in Callers :
                  /\ KycOp(c, "upload") => kycCall[c].docs # d
                                           /\ kycCall[c].existing # d
                  /\ KycOp(c, "clean") => kycCall[c].docs # d
<1>1. kyc # NULL => kyc.docs # d
  BY DEF Unused, Names
<1>2. ASSUME NEW c \in Callers, KycOp(c, "upload")
      PROVE  kycCall[c].docs # d /\ kycCall[c].existing # d
  <2>1. Concerns(kycCall[c]) = {kycCall[c].docs, kycCall[c].existing}
    BY <1>2 DEF Concerns, KycOp
  <2> QED BY <2>1 DEF Unused
<1>3. ASSUME NEW c \in Callers, KycOp(c, "clean")
      PROVE  kycCall[c].docs # d
  <2>1. Concerns(kycCall[c]) = {kycCall[c].docs}
    BY <1>3 DEF Concerns, KycOp
  <2> QED BY <2>1 DEF Unused
<1> QED BY <1>1, <1>2, <1>3

LEMMA KycEnds ==
    ASSUME VerificationTypeOK, NEW c \in Callers, Ends(kycCall, c)
    PROVE  /\ kycCall' \in [Callers -> KycCall \cup {NULL}]
           /\ \A d \in Callers :
                  kycCall'[d] # NULL => kycCall'[d] = kycCall[d] /\ d # c
BY DEF VerificationTypeOK, Ends

\* Deleting documents that the row does not name.
LEMMA KycDeletes ==
    ASSUME KycInv, NEW d \in Submissions, DeleteDocuments(d),
           kyc # NULL => kyc.docs # d
    PROVE  /\ stored' \in [Submissions -> 0 .. Files]
           /\ kyc # NULL => stored'[kyc.docs] = Files
<1>1. stored \in [Submissions -> 0 .. Files] /\ Files \in Nat
  BY VerificationAssumption DEF KycInv, VerificationTypeOK
<1>2. PICK n \in 0 .. stored[d] : stored' = [stored EXCEPT ![d] = n]
  BY DEF DeleteDocuments
<1>3. n \in 0 .. Files
  BY <1>1, <1>2
<1>4. stored' \in [Submissions -> 0 .. Files]
  BY <1>1, <1>2, <1>3
<1>5. kyc # NULL => kyc.docs \in Submissions /\ stored[kyc.docs] = Files
  BY DEF KycInv, VerificationTypeOK, SubmittedDocumentsExist, KycRow
<1>6. kyc # NULL => stored'[kyc.docs] = stored[kyc.docs]
  BY <1>1, <1>2, <1>5
<1> QED BY <1>4, <1>5, <1>6

\* A handler that ends, with at most some documents deleted.
LEMMA KycHandlerEnds ==
    ASSUME KycInv, NEW c \in Callers, Ends(kycCall, c), UNCHANGED kyc,
           stored' \in [Submissions -> 0 .. Files],
           kyc # NULL => stored'[kyc.docs] = Files
    PROVE  KycInv'
<1> USE DEF KycInv
<1>1. VerificationTypeOK'
  BY KycEnds DEF VerificationTypeOK
<1>2. \A d \in Callers :
          kycCall'[d] # NULL => kycCall'[d] = kycCall[d] /\ d # c
  BY KycEnds
<1>3. UploadsAreOwn'
  BY <1>2 DEF UploadsAreOwn, KycOp
<1>4. CleanedAreReplaced' /\ ReviewsFoundTheRow'
  BY <1>2 DEF CleanedAreReplaced, ReviewsFoundTheRow, KycOp
<1>5. SubmittedDocumentsExist'
  BY DEF SubmittedDocumentsExist
<1> QED BY <1>1, <1>3, <1>4, <1>5

LEMMA SubmitStep ==
    ASSUME KycInv, NEW c \in Callers, Submit(c)
    PROVE  KycInv'
<1> USE DEF KycInv
<1> DEFINE existing == IF kyc = NULL THEN NULL ELSE kyc.docs
<1>1. PICK d \in Submissions :
          /\ Unused(d)
          /\ Waits(kycCall, c,
                   [op |-> "upload", docs |-> d, existing |-> existing])
  BY DEF Submit
<1> DEFINE call == [op |-> "upload", docs |-> d, existing |-> existing]
<1>2. existing \in Submissions \cup {NULL}
  BY DEF VerificationTypeOK, KycRow
<1>3. /\ call \in KycCall
      /\ call.op = "upload" /\ call.docs = d /\ call.existing = existing
  BY <1>2, KycCallsTyped
<1>4. kycCall' = [kycCall EXCEPT ![c] = call] /\ UNCHANGED <<kyc, stored>>
  BY <1>1 DEF Waits, Submit
<1>5. /\ existing # d
      /\ \A e \in Callers : KycOp(e, "upload") => kycCall[e].docs # existing
  <2>1. existing # d
    BY <1>1, VerificationAssumption, UnusedIsOwn
  <2>2. ASSUME NEW e \in Callers, KycOp(e, "upload")
        PROVE  kycCall[e].docs # existing
    <3>1. kycCall[e].docs \in Submissions
      BY <2>2, KycCallParts DEF KycOp
    <3>2. kyc # NULL => kycCall[e].docs # kyc.docs
      BY <2>2 DEF UploadsAreOwn
    <3> QED BY <3>1, <3>2, VerificationAssumption
  <2> QED BY <2>1, <2>2
<1> HIDE DEF call, existing
<1>6. \A e \in Callers : kycCall'[e] = IF e = c THEN call ELSE kycCall[e]
  BY <1>4 DEF VerificationTypeOK
<1>7. VerificationTypeOK'
  BY <1>3, <1>4 DEF VerificationTypeOK
<1>8. UploadsAreOwn'
  BY <1>1, <1>3, <1>4, <1>5, <1>6, UnusedIsOwn DEF UploadsAreOwn, KycOp
<1>9. CleanedAreReplaced' /\ ReviewsFoundTheRow'
  BY <1>3, <1>4, <1>6 DEF CleanedAreReplaced, ReviewsFoundTheRow, KycOp
<1>10. SubmittedDocumentsExist'
  BY <1>4 DEF SubmittedDocumentsExist
<1> QED BY <1>7, <1>8, <1>9, <1>10

LEMMA UploadStep ==
    ASSUME KycInv, NEW c \in Callers, Upload(c)
    PROVE  KycInv'
<1> USE DEF KycInv
<1>1. /\ KycOp(c, "upload") /\ kycCall[c].docs \in Submissions
      /\ kyc # NULL => kyc.docs # kycCall[c].docs
  BY KycCallParts DEF Upload, Uploading, KycOp, UploadsAreOwn
<1>2. /\ stored \in [Submissions -> 0 .. Files] /\ Files \in Nat
      /\ UNCHANGED <<kyc, kycCall>>
      /\ stored[kycCall[c].docs] < Files
      /\ stored' = [stored EXCEPT ![kycCall[c].docs] = @ + 1]
  BY VerificationAssumption DEF VerificationTypeOK, Upload
<1>3. stored[kycCall[c].docs] + 1 \in 0 .. Files
  BY <1>1, <1>2
<1>4. stored' \in [Submissions -> 0 .. Files]
  BY <1>1, <1>2, <1>3
<1>5. VerificationTypeOK'
  BY <1>2, <1>4 DEF VerificationTypeOK
<1>6. SubmittedDocumentsExist'
  BY <1>1, <1>2 DEF SubmittedDocumentsExist, VerificationTypeOK, KycRow
<1>7. UploadsAreOwn' /\ CleanedAreReplaced' /\ ReviewsFoundTheRow'
  BY <1>2 DEF UploadsAreOwn, CleanedAreReplaced, ReviewsFoundTheRow, KycOp
<1> QED BY <1>5, <1>6, <1>7

\* The row is written with the documents of an upload that is complete.
LEMMA WriteRowStep ==
    ASSUME KycInv, NEW c \in Callers,
           CreateVerification(c) \/ ReplaceDocuments(c)
    PROVE  KycInv'
<1> USE DEF KycInv
<1> DEFINE row == [status |-> "PENDING", docs |-> kycCall[c].docs]
<1>1. /\ KycOp(c, "upload")
      /\ kycCall[c].docs \in Submissions
      /\ stored[kycCall[c].docs] = Files
      /\ kyc' = row /\ UNCHANGED stored
  BY KycCallParts DEF CreateVerification, ReplaceDocuments, Uploaded, Uploading,
     KycOp
<1>2. row \in KycRow /\ row # NULL /\ row.docs = kycCall[c].docs
  BY <1>1, KycCallsTyped, VerificationAssumption
<1>3. /\ kycCall' \in [Callers -> KycCall \cup {NULL}]
      /\ \A d \in Callers \ {c} : kycCall'[d] = kycCall[d]
      /\ \/ kycCall'[c] = NULL
         \/ /\ kycCall'[c].op = "clean"
            /\ kycCall'[c].docs = kycCall[c].existing
  <2>1. CASE CreateVerification(c)
    BY <2>1 DEF CreateVerification, Ends, VerificationTypeOK
  <2>2. CASE ReplaceDocuments(c)
    <3> DEFINE call == [op |-> "clean", docs |-> kycCall[c].existing]
    <3>1. kycCall[c].existing \in Submissions
      BY <1>1, <2>2, KycCallParts DEF ReplaceDocuments, KycOp
    <3>2. call \in KycCall /\ call.op = "clean" /\ call.docs = kycCall[c].existing
      BY <3>1, KycCallsTyped
    <3>3. kycCall' = [kycCall EXCEPT ![c] = call]
      BY <2>2 DEF ReplaceDocuments, VerificationTypeOK
    <3> HIDE DEF call
    <3> QED BY <3>2, <3>3 DEF VerificationTypeOK
  <2> QED BY <2>1, <2>2
<1> HIDE DEF row
<1>4. VerificationTypeOK'
  BY <1>1, <1>2, <1>3 DEF VerificationTypeOK
<1>5. UploadsAreOwn'
  BY <1>1, <1>2, <1>3 DEF UploadsAreOwn, KycOp
<1>6. CleanedAreReplaced'
  BY <1>1, <1>2, <1>3 DEF UploadsAreOwn, CleanedAreReplaced, KycOp
<1>7. SubmittedDocumentsExist' /\ ReviewsFoundTheRow'
  BY <1>1, <1>2 DEF SubmittedDocumentsExist, ReviewsFoundTheRow
<1> QED BY <1>4, <1>5, <1>6, <1>7

LEMMA ReviewStepKeeps ==
    ASSUME KycInv, NEW c \in Callers, ReadKyc(c) \/ ReviewKyc(c)
    PROVE  KycInv'
<1> USE DEF KycInv
<1>1. CASE ReadKyc(c)
  <2>1. PICK decision \in KycStatus \ {"PENDING"} :
            Waits(kycCall, c, [op |-> "review", decision |-> decision])
    BY <1>1 DEF ReadKyc
  <2> DEFINE call == [op |-> "review", decision |-> decision]
  <2>2. call \in KycCall /\ call.op = "review"
    BY ReviewCallsTyped
  <2>3. kycCall' = [kycCall EXCEPT ![c] = call] /\ UNCHANGED <<kyc, stored>>
        /\ kyc # NULL
    BY <1>1, <2>1 DEF Waits, ReadKyc
  <2> HIDE DEF call
  <2>4. \A e \in Callers : kycCall'[e] = IF e = c THEN call ELSE kycCall[e]
    BY <2>3 DEF VerificationTypeOK
  <2>5. VerificationTypeOK'
    BY <2>2, <2>3 DEF VerificationTypeOK
  <2>6. UploadsAreOwn' /\ CleanedAreReplaced'
    BY <2>2, <2>3, <2>4 DEF UploadsAreOwn, CleanedAreReplaced, KycOp
  <2>7. ReviewsFoundTheRow' /\ SubmittedDocumentsExist'
    BY <2>3 DEF ReviewsFoundTheRow, SubmittedDocumentsExist
  <2> QED BY <2>5, <2>6, <2>7
<1>2. CASE ReviewKyc(c)
  <2>1. /\ KycOp(c, "review") /\ kyc # NULL
        /\ kycCall[c].decision \in KycStatus
    BY <1>2, KycCallParts DEF ReviewKyc, KycOp, ReviewsFoundTheRow
  <2>2. kyc \in KycRow
    BY <2>1 DEF VerificationTypeOK
  <2>3. /\ kyc' \in KycRow /\ kyc'.docs = kyc.docs /\ kyc' # NULL
        /\ UNCHANGED stored /\ Ends(kycCall, c)
    BY <1>2, <2>1, <2>2, KycReviewed, VerificationAssumption DEF ReviewKyc
  <2>4. \A d \in Callers :
            kycCall'[d] # NULL => kycCall'[d] = kycCall[d] /\ d # c
    BY <2>3, KycEnds
  <2>5. VerificationTypeOK'
    BY <2>3, KycEnds DEF VerificationTypeOK
  <2>6. UploadsAreOwn' /\ CleanedAreReplaced'
    BY <2>1, <2>3, <2>4 DEF UploadsAreOwn, CleanedAreReplaced, KycOp
  <2>7. ReviewsFoundTheRow' /\ SubmittedDocumentsExist'
    BY <2>1, <2>3 DEF ReviewsFoundTheRow, SubmittedDocumentsExist
  <2> QED BY <2>5, <2>6, <2>7
<1> QED BY <1>1, <1>2

LEMMA DeletionsStep ==
    ASSUME KycInv, NEW c \in Callers,
           DeleteOldDocuments(c) \/ RollBack(c) \/ KycHandlerDies(c)
    PROVE  KycInv'
<1>1. Ends(kycCall, c) /\ UNCHANGED kyc
  BY DEF DeleteOldDocuments, RollBack, KycHandlerDies
<1>2. CASE DeleteOldDocuments(c) \/ RollBack(c)
  <2>1. KycOp(c, "clean") \/ KycOp(c, "upload")
    BY <1>2 DEF DeleteOldDocuments, RollBack, Uploading, KycOp
  <2>2. /\ kycCall[c].docs \in Submissions
        /\ kyc # NULL => kyc.docs # kycCall[c].docs
    BY <2>1, KycCallParts DEF KycInv, UploadsAreOwn, CleanedAreReplaced, KycOp
  <2>3. DeleteDocuments(kycCall[c].docs)
    BY <1>2 DEF DeleteOldDocuments, RollBack
  <2> QED BY <1>1, <2>2, <2>3, KycDeletes, KycHandlerEnds
<1>3. CASE KycHandlerDies(c)
  BY <1>1, <1>3, KycHandlerEnds
  DEF KycHandlerDies, KycInv, VerificationTypeOK, SubmittedDocumentsExist
<1> QED BY <1>2, <1>3

LEMMA KycInitInv ==
    ASSUME VerificationInit
    PROVE  KycInv
<1>1. VerificationTypeOK
  BY VerificationAssumption DEF VerificationInit, VerificationTypeOK, NobodyWaits
<1>2. \A c \in Callers : kycCall[c] = NULL
  BY DEF VerificationInit, NobodyWaits
<1>3. UploadsAreOwn /\ CleanedAreReplaced /\ ReviewsFoundTheRow
  BY <1>2 DEF UploadsAreOwn, CleanedAreReplaced, ReviewsFoundTheRow, KycOp
<1> QED BY <1>1, <1>3 DEF KycInv, VerificationInit, SubmittedDocumentsExist

LEMMA KycNextInv ==
    ASSUME KycInv, [VerificationNext]_kycVars
    PROVE  KycInv'
<1>1. CASE UNCHANGED kycVars
  BY <1>1 DEF kycVars, KycInv, VerificationTypeOK, UploadsAreOwn,
     CleanedAreReplaced, ReviewsFoundTheRow, SubmittedDocumentsExist, KycOp
<1>2. CASE VerificationNext
  BY <1>2, SubmitStep, UploadStep, WriteRowStep, DeletionsStep, ReviewStepKeeps
  DEF VerificationNext
<1> QED BY <1>1, <1>2

\* What the action property says of one step.
\* The documents that the row of a verification names are all in the store.
THEOREM Submitted == VerificationSpec => []SubmittedDocumentsExist
<1>1. VerificationInit => KycInv
  BY KycInitInv
<1>2. KycInv /\ [VerificationNext]_kycVars => KycInv'
  BY KycNextInv
<1>3. KycInv => SubmittedDocumentsExist
  BY DEF KycInv
<1> QED BY <1>1, <1>2, <1>3, PTL DEF VerificationSpec

----------------------------------------------------------------------------
(* Images.  A handler's new images are its own; until its transaction      *)
(* commits they have their files and no rows.  Images that are to be       *)
(* deleted are nobody's new ones, and have no rows once that is certain.   *)

HasNew(c) ==
    /\ imageCall[c] # NULL
    /\ imageCall[c].op \in {"create", "read", "cleanup", "write", "answer"}
Uncommitted(c) ==
    imageCall[c] # NULL /\ imageCall[c].op \in {"create", "read", "write"}
HasRemoved(c) ==
    imageCall[c] # NULL /\ imageCall[c].op \in {"write", "answer", "delete"}
Committed(c) ==
    imageCall[c] # NULL /\ imageCall[c].op \in {"answer", "delete"}

NewAreOwn ==
    \A c \in Callers : HasNew(c) =>
        /\ imageCall[c].new \cap confirmed = {}
        /\ \A d \in Callers \ {c} :
               HasNew(d) => imageCall[c].new \cap imageCall[d].new = {}

UncommittedHaveFiles ==
    \A c \in Callers : Uncommitted(c) =>
        /\ imageCall[c].new \cap rows = {}
        /\ imageCall[c].new \subseteq files
        /\ \A d \in Callers :
               HasRemoved(d) => imageCall[c].new \cap imageCall[d].removed = {}

AnsweredHaveFiles ==
    \A c \in Callers : ImageOp(c, "answer") => imageCall[c].new \cap rows \subseteq files

RemovedAreGone ==
    \A c \in Callers : Committed(c) => imageCall[c].removed \cap rows = {}

WritesKeepAnImage ==
    \A c \in Callers : ImageOp(c, "write") =>
        /\ imageCall[c].kept \cup imageCall[c].new # {}
        /\ imageCall[c].kept \cap imageCall[c].removed = {}

ImagesInv ==
    /\ ListingImagesTypeOK
    /\ NewAreOwn
    /\ UncommittedHaveFiles
    /\ AnsweredHaveFiles
    /\ RemovedAreGone
    /\ WritesKeepAnImage
    /\ ConfirmedImagesHaveFiles

LEMMA ImageCallParts ==
    ASSUME ListingImagesTypeOK, NEW c \in Callers, imageCall[c] # NULL
    PROVE  /\ imageCall[c].op \in {"create", "read", "cleanup", "write", "answer", "delete"}
           /\ HasNew(c) => imageCall[c].new \subseteq Images
           /\ HasRemoved(c) => imageCall[c].removed \subseteq Images
<1>1. imageCall[c] \in ImageCall
  BY DEF ListingImagesTypeOK
<1>2. imageCall[c].op \in {"create", "read", "cleanup", "write", "answer", "delete"}
  BY <1>1 DEF ImageCall
<1>3. HasNew(c) => imageCall[c].new \subseteq Images
  BY <1>1 DEF ImageCall, HasNew
<1>4. HasRemoved(c) => imageCall[c].removed \subseteq Images
  BY <1>1 DEF ImageCall, HasRemoved
<1> QED BY <1>2, <1>3, <1>4

LEMMA NewCallsTyped ==
    ASSUME NEW new \in SUBSET Images, NEW op \in {"create", "read", "cleanup"}
    PROVE  [op |-> op, new |-> new] \in ImageCall
BY DEF ImageCall

LEMMA WriteCallsTyped ==
    ASSUME NEW new \in SUBSET Images, NEW kept \in SUBSET Images,
           NEW removed \in SUBSET Images
    PROVE  [op |-> "write", new |-> new, kept |-> kept, removed |-> removed]
               \in ImageCall
BY DEF ImageCall

LEMMA AnswerCallsTyped ==
    ASSUME NEW new \in SUBSET Images, NEW removed \in SUBSET Images
    PROVE  /\ [op |-> "answer", new |-> new, removed |-> removed] \in ImageCall
           /\ [op |-> "delete", removed |-> removed] \in ImageCall
BY DEF ImageCall

LEMMA FreeImages ==
    ASSUME ListingImagesTypeOK, NEW new \in SUBSET (Images \ Taken)
    PROVE  /\ new \in SUBSET Images
           /\ new \cap rows = {} /\ new \cap confirmed = {}
           /\ \A c \in Callers :
                  /\ HasNew(c) => new \cap imageCall[c].new = {}
                  /\ HasRemoved(c) => new \cap imageCall[c].removed = {}
<1>1. ASSUME NEW c \in Callers, imageCall[c] # NULL
      PROVE  Mentions(imageCall[c]) \subseteq Taken
  BY <1>1 DEF Taken
<1>2. ASSUME NEW c \in Callers, HasNew(c)
      PROVE  imageCall[c].new \subseteq Mentions(imageCall[c])
  BY <1>2 DEF HasNew, Mentions
<1>3. ASSUME NEW c \in Callers, HasRemoved(c)
      PROVE  imageCall[c].removed \subseteq Mentions(imageCall[c])
  BY <1>3 DEF HasRemoved, Mentions
<1>4. rows \subseteq Taken /\ confirmed \subseteq Taken
  BY DEF Taken
<1>5. \A c \in Callers : HasNew(c) \/ HasRemoved(c) => imageCall[c] # NULL
  BY DEF HasNew, HasRemoved
<1> QED BY <1>1, <1>2, <1>3, <1>4, <1>5

\* The other handlers' calls stay as they are in every step.
LEMMA OneImageCall ==
    ASSUME ListingImagesTypeOK, NEW c \in Callers, NEW call \in ImageCall \cup {NULL},
           imageCall' = [imageCall EXCEPT ![c] = call]
    PROVE  /\ imageCall' \in [Callers -> ImageCall \cup {NULL}]
           /\ \A d \in Callers : imageCall'[d] = IF d = c THEN call ELSE imageCall[d]
BY DEF ListingImagesTypeOK

LEMMA ImageUploadStep ==
    ASSUME ImagesInv, NEW c \in Callers, NEW op \in {"create", "read"},
           UploadMany(c, op)
    PROVE  ImagesInv'
<1> USE DEF ImagesInv
<1>1. PICK new \in SUBSET (Images \ Taken) :
          Waits(imageCall, c, [op |-> op, new |-> new]) /\ files' = files \cup new
  BY DEF UploadMany
<1> DEFINE call == [op |-> op, new |-> new]
<1>2. new \in SUBSET Images
  BY FreeImages
<1>3. call \in ImageCall /\ call # NULL /\ call.op = op /\ call.new = new
  BY <1>2, NewCallsTyped, ImagesAssumption
<1>4. imageCall' = [imageCall EXCEPT ![c] = call] /\ UNCHANGED <<rows, confirmed>>
  BY <1>1 DEF Waits, UploadMany
<1>4a. /\ new \cap rows = {} /\ new \cap confirmed = {}
      /\ \A d \in Callers :
             /\ HasNew(d) => new \cap imageCall[d].new = {}
             /\ HasRemoved(d) => new \cap imageCall[d].removed = {}
  BY FreeImages
<1> HIDE DEF call
<1>5. \A d \in Callers : imageCall'[d] = IF d = c THEN call ELSE imageCall[d]
  BY <1>3, <1>4, OneImageCall
<1>6. ListingImagesTypeOK'
  BY <1>1, <1>2, <1>3, <1>4, OneImageCall DEF ListingImagesTypeOK
<1>7. NewAreOwn'
  BY <1>3, <1>4, <1>5, <1>4a DEF NewAreOwn, HasNew
<1>8. UncommittedHaveFiles'
  BY <1>1, <1>3, <1>4, <1>5, <1>4a
  DEF UncommittedHaveFiles, Uncommitted, HasRemoved
<1>9. AnsweredHaveFiles' /\ RemovedAreGone' /\ WritesKeepAnImage'
  BY <1>1, <1>3, <1>4, <1>5
  DEF AnsweredHaveFiles, RemovedAreGone, WritesKeepAnImage, Committed, ImageOp
<1>10. ConfirmedImagesHaveFiles'
  BY <1>1, <1>4 DEF ConfirmedImagesHaveFiles
<1> QED BY <1>6, <1>7, <1>8, <1>9, <1>10

\* A transaction that commits, of a creation or an update.
LEMMA ImageCommitStep ==
    ASSUME ImagesInv, NEW c \in Callers, Uncommitted(c),
           NEW removed \in SUBSET Images,
           rows' = (rows \ removed) \cup imageCall[c].new,
           Then(c, [op |-> "answer", new |-> imageCall[c].new, removed |-> removed]),
           UNCHANGED <<files, confirmed>>,
           \A d \in Callers : Uncommitted(d) => imageCall[d].new \cap removed = {}
    PROVE  ImagesInv'
<1> USE DEF ImagesInv
<1> DEFINE new == imageCall[c].new
           call == [op |-> "answer", new |-> new, removed |-> removed]
<1>1. HasNew(c) /\ new \in SUBSET Images
  BY ImageCallParts DEF Uncommitted, HasNew
<1>2. /\ call \in ImageCall /\ call # NULL
      /\ call.op = "answer" /\ call.new = new /\ call.removed = removed
  BY <1>1, AnswerCallsTyped, ImagesAssumption
<1>3. imageCall' = [imageCall EXCEPT ![c] = call]
  BY DEF Then
<1> HIDE DEF call
<1>4. /\ new \cap rows = {} /\ new \subseteq files /\ new \cap confirmed = {}
      /\ new \cap removed = {}
  BY <1>1 DEF UncommittedHaveFiles, NewAreOwn
<1>5. \A d \in Callers : HasRemoved(d) => imageCall[d].removed \cap new = {}
  BY DEF UncommittedHaveFiles
<1>6. \A d \in Callers \ {c} : HasNew(d) => imageCall[d].new \cap new = {}
  BY <1>1 DEF NewAreOwn
<1> HIDE DEF new
<1>7. rows' = (rows \ removed) \cup new
  BY DEF new
<1>8. \A d \in Callers : imageCall'[d] = IF d = c THEN call ELSE imageCall[d]
  BY <1>2, <1>3, OneImageCall
<1>9. ListingImagesTypeOK'
  BY <1>1, <1>2, <1>3, <1>7, OneImageCall DEF ListingImagesTypeOK
<1>10. NewAreOwn'
  BY <1>1, <1>2, <1>8 DEF NewAreOwn, HasNew, new
<1>11. UncommittedHaveFiles'
  BY <1>2, <1>6, <1>7, <1>8
  DEF UncommittedHaveFiles, Uncommitted, HasRemoved, HasNew
<1>12. AnsweredHaveFiles'
  BY <1>2, <1>4, <1>6, <1>7, <1>8 DEF AnsweredHaveFiles, ImageOp, HasNew
<1>13. RemovedAreGone'
  BY <1>2, <1>4, <1>5, <1>7, <1>8 DEF RemovedAreGone, Committed, HasRemoved
<1>14. WritesKeepAnImage'
  BY <1>2, <1>8 DEF WritesKeepAnImage, ImageOp
<1>15. ConfirmedImagesHaveFiles'
  BY <1>4, <1>7 DEF ConfirmedImagesHaveFiles
<1> QED BY <1>9, <1>10, <1>11, <1>12, <1>13, <1>14, <1>15

LEMMA ImageWriteStep ==
    ASSUME ImagesInv, NEW c \in Callers, CreateRows(c) \/ WriteRows(c)
    PROVE  ImagesInv'
<1>1. CASE CreateRows(c)
  <2>1. Uncommitted(c)
    BY <1>1 DEF CreateRows, ImageOp, Uncommitted
  <2>2. /\ rows' = (rows \ {}) \cup imageCall[c].new
        /\ Then(c, [op |-> "answer", new |-> imageCall[c].new, removed |-> {}])
        /\ UNCHANGED <<files, confirmed>>
    BY <1>1 DEF CreateRows
  <2> QED BY <2>1, <2>2, ImageCommitStep
<1>2. CASE WriteRows(c)
  <2>1. Uncommitted(c) /\ HasRemoved(c)
    BY <1>2 DEF WriteRows, ImageOp, Uncommitted, HasRemoved
  <2>2. imageCall[c].removed \in SUBSET Images
    BY <2>1, ImageCallParts DEF ImagesInv, HasRemoved
  <2>3. \A d \in Callers :
            Uncommitted(d) => imageCall[d].new \cap imageCall[c].removed = {}
    BY <2>1 DEF ImagesInv, UncommittedHaveFiles
  <2> QED BY <1>2, <2>1, <2>2, <2>3, ImageCommitStep DEF WriteRows
<1> QED BY <1>1, <1>2

LEMMA ReadImagesStep ==
    ASSUME ImagesInv, NEW c \in Callers, ReadImages(c)
    PROVE  ImagesInv'
<1> USE DEF ImagesInv
<1> DEFINE new == imageCall[c].new
<1>1. PICK kept \in SUBSET rows :
          /\ Cardinality(kept \cup new) \in 1 .. MaxImages
          /\ Then(c, [op |-> "write", new |-> new, kept |-> kept,
                      removed |-> rows \ kept])
  BY DEF ReadImages
<1> DEFINE removed == rows \ kept
           call == [op |-> "write", new |-> new, kept |-> kept, removed |-> removed]
<1>2. kept \cup new # {}
  BY <1>1, FS_EmptySet
<1>3. Uncommitted(c) /\ HasNew(c) /\ new \in SUBSET Images
  BY ImageCallParts DEF ReadImages, ImageOp, Uncommitted, HasNew
<1>4. kept \in SUBSET Images /\ removed \in SUBSET Images
  BY DEF ListingImagesTypeOK
<1>5. /\ call \in ImageCall /\ call # NULL /\ call.op = "write" /\ call.new = new
      /\ call.kept = kept /\ call.removed = removed
  BY <1>3, <1>4, WriteCallsTyped, ImagesAssumption
<1>6. imageCall' = [imageCall EXCEPT ![c] = call] /\ UNCHANGED <<rows, files, confirmed>>
  BY <1>1 DEF Then, ReadImages
<1> HIDE DEF call
<1>7. \A d \in Callers : imageCall'[d] = IF d = c THEN call ELSE imageCall[d]
  BY <1>5, <1>6, OneImageCall
<1>8. ListingImagesTypeOK'
  BY <1>5, <1>6, OneImageCall DEF ListingImagesTypeOK
<1>9. NewAreOwn'
  BY <1>3, <1>5, <1>6, <1>7 DEF NewAreOwn, HasNew
<1>10. UncommittedHaveFiles'
  BY <1>3, <1>5, <1>6, <1>7 DEF UncommittedHaveFiles, Uncommitted, HasRemoved
<1>11. AnsweredHaveFiles' /\ RemovedAreGone'
  BY <1>5, <1>6, <1>7 DEF AnsweredHaveFiles, RemovedAreGone, Committed, ImageOp
<1>12. WritesKeepAnImage'
  BY <1>2, <1>5, <1>7 DEF WritesKeepAnImage, ImageOp
<1>13. ConfirmedImagesHaveFiles'
  BY <1>6 DEF ConfirmedImagesHaveFiles
<1> QED BY <1>8, <1>9, <1>10, <1>11, <1>12, <1>13

LEMMA AnswerStep ==
    ASSUME ImagesInv, NEW c \in Callers, Answer(c)
    PROVE  ImagesInv'
<1> USE DEF ImagesInv
<1> DEFINE call == [op |-> "delete", removed |-> imageCall[c].removed]
<1>1. ImageOp(c, "answer") /\ HasNew(c) /\ HasRemoved(c) /\ Committed(c)
  BY DEF Answer, ImageOp, HasNew, HasRemoved, Committed
<1>2. imageCall[c].new \subseteq Images /\ imageCall[c].removed \in SUBSET Images
  BY <1>1, ImageCallParts DEF HasNew
<1>3. /\ call \in ImageCall /\ call # NULL /\ call.op = "delete"
      /\ call.removed = imageCall[c].removed
  BY <1>2, AnswerCallsTyped, ImagesAssumption
<1>4. /\ imageCall' = [imageCall EXCEPT ![c] = call]
      /\ UNCHANGED <<rows, files>>
      /\ confirmed' = confirmed \cup imageCall[c].new
  BY DEF Then, Answer
<1> HIDE DEF call
<1>5. \A d \in Callers : imageCall'[d] = IF d = c THEN call ELSE imageCall[d]
  BY <1>3, <1>4, OneImageCall
<1>6. ListingImagesTypeOK'
  BY <1>2, <1>3, <1>4, OneImageCall DEF ListingImagesTypeOK
<1>7. NewAreOwn'
  BY <1>1, <1>3, <1>4, <1>5 DEF NewAreOwn, HasNew
<1>8. UncommittedHaveFiles'
  BY <1>1, <1>3, <1>4, <1>5 DEF UncommittedHaveFiles, Uncommitted, HasRemoved
<1>9. AnsweredHaveFiles' /\ WritesKeepAnImage'
  BY <1>3, <1>4, <1>5 DEF AnsweredHaveFiles, WritesKeepAnImage, ImageOp
<1>10. RemovedAreGone'
  BY <1>1, <1>3, <1>4, <1>5 DEF RemovedAreGone, Committed
<1>11. ConfirmedImagesHaveFiles'
  BY <1>1, <1>4 DEF ConfirmedImagesHaveFiles, AnsweredHaveFiles
<1> QED BY <1>6, <1>7, <1>8, <1>9, <1>10, <1>11

LEMMA ThrowStep ==
    ASSUME ImagesInv, NEW c \in Callers, Throw(c)
    PROVE  ImagesInv'
<1> USE DEF ImagesInv
<1> DEFINE call == [op |-> "cleanup", new |-> imageCall[c].new]
<1>1. HasNew(c) /\ imageCall[c].new \in SUBSET Images
  BY ImageCallParts DEF Throw, HasNew
<1>2. /\ call \in ImageCall /\ call # NULL /\ call.op = "cleanup"
      /\ call.new = imageCall[c].new
  BY <1>1, NewCallsTyped, ImagesAssumption
<1>3. /\ imageCall' = [imageCall EXCEPT ![c] = call]
      /\ UNCHANGED <<rows, files, confirmed>>
  BY DEF Then, Throw
<1> HIDE DEF call
<1>4. \A d \in Callers : imageCall'[d] = IF d = c THEN call ELSE imageCall[d]
  BY <1>2, <1>3, OneImageCall
<1>5. ListingImagesTypeOK'
  BY <1>2, <1>3, OneImageCall DEF ListingImagesTypeOK
<1>6. NewAreOwn'
  BY <1>1, <1>2, <1>3, <1>4 DEF NewAreOwn, HasNew
<1>7. UncommittedHaveFiles'
  BY <1>2, <1>3, <1>4 DEF UncommittedHaveFiles, Uncommitted, HasRemoved
<1>8. AnsweredHaveFiles' /\ RemovedAreGone' /\ WritesKeepAnImage'
  BY <1>2, <1>3, <1>4
  DEF AnsweredHaveFiles, RemovedAreGone, WritesKeepAnImage, Committed, ImageOp
<1>9. ConfirmedImagesHaveFiles'
  BY <1>3 DEF ConfirmedImagesHaveFiles
<1> QED BY <1>5, <1>6, <1>7, <1>8, <1>9

\* A handler that ends and deletes some files: those of its removed rows or of
\* its failed upload, or none.
LEMMA ImageEndStep ==
    ASSUME ImagesInv, NEW c \in Callers,
           DeleteRemoved(c) \/ CleanUp(c) \/ ServerStops(c)
    PROVE  ImagesInv'
<1> USE DEF ImagesInv
<1>1. PICK gone : /\ files' = files \ gone
                  /\ gone \cap rows \cap confirmed = {}
                  /\ \A d \in Callers \ {c} :
                         /\ Uncommitted(d) => gone \cap imageCall[d].new = {}
                         /\ ImageOp(d, "answer") =>
                                gone \cap rows \cap imageCall[d].new = {}
  <2>1. CASE DeleteRemoved(c)
    <3>1. PICK gone \in SUBSET imageCall[c].removed : files' = files \ gone
      BY <2>1 DEF DeleteRemoved, DeleteMany
    <3>2. HasRemoved(c) /\ imageCall[c].removed \cap rows = {}
      BY <2>1 DEF DeleteRemoved, ImageOp, HasRemoved, RemovedAreGone, Committed
    <3>3. \A d \in Callers :
              Uncommitted(d) => imageCall[c].removed \cap imageCall[d].new = {}
      BY <3>2 DEF UncommittedHaveFiles
    <3> QED BY <3>1, <3>2, <3>3
  <2>2. CASE CleanUp(c)
    <3>1. PICK gone \in SUBSET imageCall[c].new : files' = files \ gone
      BY <2>2 DEF CleanUp, DeleteMany
    <3>2. HasNew(c)
      BY <2>2 DEF CleanUp, ImageOp, HasNew
    <3>3. imageCall[c].new \cap confirmed = {}
      BY <3>2 DEF NewAreOwn
    <3>4. \A d \in Callers \ {c} :
              Uncommitted(d) \/ ImageOp(d, "answer") =>
                  imageCall[c].new \cap imageCall[d].new = {}
      BY <3>2 DEF NewAreOwn, HasNew, Uncommitted, ImageOp
    <3> QED BY <3>1, <3>3, <3>4
  <2>3. CASE ServerStops(c)
    <3>1. files' = files \ {}
      BY <2>3 DEF ServerStops
    <3>2. \A S, T : {} \cap S = {} /\ {} \cap S \cap T = {}
      OBVIOUS
    <3> QED BY <3>1, <3>2, Zenon
  <2> QED BY <2>1, <2>2, <2>3
<1>2. Ends(imageCall, c) /\ UNCHANGED <<rows, confirmed>>
  BY DEF DeleteRemoved, CleanUp, ServerStops
<1>3. \A d \in Callers : imageCall'[d] = IF d = c THEN NULL ELSE imageCall[d]
  BY <1>2, OneImageCall DEF Ends
<1>4. ListingImagesTypeOK'
  BY <1>1, <1>2, OneImageCall DEF Ends, ListingImagesTypeOK
<1>5. NewAreOwn'
  BY <1>2, <1>3 DEF NewAreOwn, HasNew
<1>6. UncommittedHaveFiles'
  BY <1>1, <1>2, <1>3 DEF UncommittedHaveFiles, Uncommitted, HasRemoved
<1>7. AnsweredHaveFiles'
  BY <1>1, <1>2, <1>3 DEF AnsweredHaveFiles, ImageOp
<1>8. RemovedAreGone' /\ WritesKeepAnImage'
  BY <1>2, <1>3 DEF RemovedAreGone, WritesKeepAnImage, Committed, ImageOp
<1>9. ConfirmedImagesHaveFiles'
  BY <1>1, <1>2 DEF ConfirmedImagesHaveFiles
<1> QED BY <1>4, <1>5, <1>6, <1>7, <1>8, <1>9

LEMMA ImagesInitInv ==
    ASSUME ListingImagesInit
    PROVE  ImagesInv
BY DEF ListingImagesInit, NobodyWaits, ImagesInv, ListingImagesTypeOK, NewAreOwn,
   UncommittedHaveFiles, AnsweredHaveFiles, RemovedAreGone, WritesKeepAnImage,
   ConfirmedImagesHaveFiles, HasNew, Uncommitted, HasRemoved, Committed, ImageOp

LEMMA ImagesNextInv ==
    ASSUME ImagesInv, [ListingImagesNext]_imageVars
    PROVE  ImagesInv'
<1>1. CASE UNCHANGED imageVars
  BY <1>1 DEF imageVars, ImagesInv, ListingImagesTypeOK, NewAreOwn,
     UncommittedHaveFiles, AnsweredHaveFiles, RemovedAreGone, WritesKeepAnImage,
     ConfirmedImagesHaveFiles, HasNew, Uncommitted, HasRemoved, Committed, ImageOp
<1>2. CASE ListingImagesNext
  BY <1>2, ImageUploadStep, ImageWriteStep, ReadImagesStep, AnswerStep, ThrowStep,
     ImageEndStep
  DEF ListingImagesNext
<1> QED BY <1>1, <1>2

\* What the action property says of one step.
LEMMA KeptImageStep ==
    ASSUME ImagesInv, [ListingImagesNext]_imageVars, rows # {}
    PROVE  rows' # {}
<1>1. ASSUME NEW c \in Callers, WriteRows(c)
      PROVE  rows' # {}
  BY <1>1 DEF WriteRows, ImagesInv, WritesKeepAnImage
<1>2. CASE ListingImagesNext
  BY <1>1, <1>2 DEF ListingImagesNext, UploadMany, CreateRows, ReadImages, Answer,
     DeleteRemoved, Throw, CleanUp, ServerStops
<1> QED BY <1>2 DEF imageVars

\* An image whose upload was answered with success keeps its file as long as it
\* keeps its row.
THEOREM ConfirmedImages == ListingImagesSpec => []ConfirmedImagesHaveFiles
<1>1. ListingImagesInit => ImagesInv
  BY ImagesInitInv
<1>2. ImagesInv /\ [ListingImagesNext]_imageVars => ImagesInv'
  BY ImagesNextInv
<1>3. ImagesInv => ConfirmedImagesHaveFiles
  BY DEF ImagesInv
<1> QED BY <1>1, <1>2, <1>3, PTL DEF ListingImagesSpec

\* No two updates, although each keeps an image, leave a listing without any.
THEOREM ImageKept == ListingImagesSpec => ListingsKeepAnImage
<1>1. ListingImagesInit => ImagesInv
  BY ImagesInitInv
<1>2. ImagesInv /\ [ListingImagesNext]_imageVars => ImagesInv'
  BY ImagesNextInv
<1>3. ImagesInv /\ [ListingImagesNext]_imageVars =>
          [rows # {} => rows' # {}]_imageVars
  BY KeptImageStep
<1> QED BY <1>1, <1>2, <1>3, PTL DEF ListingImagesSpec, ListingsKeepAnImage

=============================================================================
