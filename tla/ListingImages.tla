---------------------------- MODULE ListingImages ----------------------------
(***************************************************************************)
(* The images of one listing: their files, written and deleted by          *)
(* PropertyImageStorageService, and their rows, written by the             *)
(* transactions of PropertiesService.create and update.                    *)
(*                                                                         *)
(* The controller stores the new files first.  If the service throws, it   *)
(* deletes them again, also when the transaction had been committed        *)
(* already; if not, it deletes the files of the rows that were removed.    *)
(* Deleting a file is tried once.                                          *)
(***************************************************************************)
EXTENDS Handlers

CONSTANTS
    Images,      \* random file names, and the rows that name them
    MaxImages    \* MAX_PROPERTY_IMAGES

VARIABLES
    rows,        \* the listing's rows of property_image; none, no listing
    files,       \* the files in public/properties
    imageCall,   \* handlers under way
    confirmed    \* history: the images of the handlers that succeeded

imageVars == <<rows, files, imageCall, confirmed>>

\* new: stored by the handler; kept, removed: the rows it found, as the owner
\* wants it.
ImageCall ==
    [op: {"create", "read", "cleanup"}, new: SUBSET Images]
        \cup [op: {"write"}, new: SUBSET Images, kept: SUBSET Images,
              removed: SUBSET Images]
        \cup [op: {"answer"}, new: SUBSET Images, removed: SUBSET Images]
        \cup [op: {"delete"}, removed: SUBSET Images]

ASSUME ImagesAssumption == NULL \notin ImageCall /\ MaxImages \in Nat \ {0}

ListingImagesTypeOK ==
    /\ rows \subseteq Images
    /\ files \subseteq Images
    /\ imageCall \in [Callers -> ImageCall \cup {NULL}]
    /\ confirmed \subseteq Images

ListingImagesInit ==
    /\ rows = {}
    /\ files = {}
    /\ imageCall = NobodyWaits
    /\ confirmed = {}

----------------------------------------------------------------------------

ImageOp(c, op) == imageCall[c] # NULL /\ imageCall[c].op = op

Then(c, call) == imageCall' = [imageCall EXCEPT ![c] = call]

Mentions(call) ==
    CASE call.op \in {"create", "read", "cleanup"} -> call.new
      [] call.op \in {"write", "answer"} -> call.new \cup call.removed
      [] call.op = "delete" -> call.removed

\* File names are random: none is drawn that is still in use.
Taken ==
    files \cup rows \cup confirmed \cup
        UNION {Mentions(imageCall[c]) : c \in {d \in Callers : imageCall[d] # NULL}}

\* Both handlers store their files one by one; all of one handler's are one
\* step here, or none if that fails half-way.
UploadMany(c, then) ==
    /\ \E new \in SUBSET (Images \ Taken) :
           /\ Cardinality(new) <= MaxImages
           /\ Waits(imageCall, c, [op |-> then, new |-> new])
           /\ files' = files \cup new
    /\ UNCHANGED <<rows, confirmed>>

\* A listing has at least one image from the start.
CreateRows(c) ==
    /\ ImageOp(c, "create")
    /\ rows = {}
    /\ imageCall[c].new # {}
    /\ rows' = imageCall[c].new
    /\ Then(c, [op |-> "answer", new |-> imageCall[c].new, removed |-> {}])
    /\ UNCHANGED <<files, confirmed>>

\* The rows are read, and what the owner wants is checked, before the
\* transaction.
ReadImages(c) ==
    /\ ImageOp(c, "read")
    /\ rows # {}
    /\ \E kept \in SUBSET rows :
           /\ Cardinality(kept \cup imageCall[c].new) \in 1 .. MaxImages
           /\ Then(c, [op |-> "write", new |-> imageCall[c].new, kept |-> kept,
                       removed |-> rows \ kept])
    /\ UNCHANGED <<rows, files, confirmed>>

\* Mutant: rows to be kept that are gone are passed over.
WriteWhatIsLeft(c) ==
    /\ ImageOp(c, "write")
    /\ rows' = (rows \ imageCall[c].removed) \cup imageCall[c].new
    /\ Then(c, [op |-> "answer", new |-> imageCall[c].new,
                removed |-> imageCall[c].removed])
    /\ UNCHANGED <<files, confirmed>>

\* Reordering a row that is gone throws.
WriteRows(c) ==
    /\ ImageOp(c, "write")
    /\ imageCall[c].kept \subseteq rows
    /\ rows' = (rows \ imageCall[c].removed) \cup imageCall[c].new
    /\ Then(c, [op |-> "answer", new |-> imageCall[c].new,
                removed |-> imageCall[c].removed])
    /\ UNCHANGED <<files, confirmed>>

\* The listing could be read back.
Answer(c) ==
    /\ ImageOp(c, "answer")
    /\ confirmed' = confirmed \cup imageCall[c].new
    /\ Then(c, [op |-> "delete", removed |-> imageCall[c].removed])
    /\ UNCHANGED <<rows, files>>

DeleteMany(images) == \E gone \in SUBSET images : files' = files \ gone

DeleteRemoved(c) ==
    /\ ImageOp(c, "delete")
    /\ DeleteMany(imageCall[c].removed)
    /\ Ends(imageCall, c)
    /\ UNCHANGED <<rows, confirmed>>

\* A check, the transaction, or what comes after it throws.
Throw(c) ==
    /\ imageCall[c] # NULL
    /\ imageCall[c].op \in {"create", "read", "write", "answer"}
    /\ Then(c, [op |-> "cleanup", new |-> imageCall[c].new])
    /\ UNCHANGED <<rows, files, confirmed>>

\* Mutant: the removed files are deleted although the update failed.
CleanUpRemoved(c) ==
    /\ ImageOp(c, "write")
    /\ DeleteMany(imageCall[c].new \cup imageCall[c].removed)
    /\ Ends(imageCall, c)
    /\ UNCHANGED <<rows, confirmed>>

CleanUp(c) ==
    /\ ImageOp(c, "cleanup")
    /\ DeleteMany(imageCall[c].new)
    /\ Ends(imageCall, c)
    /\ UNCHANGED <<rows, confirmed>>

ServerStops(c) == Ends(imageCall, c) /\ UNCHANGED <<rows, files, confirmed>>

ListingImagesNext ==
    \E c \in Callers :
        \/ UploadMany(c, "create") \/ UploadMany(c, "read")
        \/ CreateRows(c) \/ ReadImages(c) \/ WriteRows(c) \/ Answer(c)
        \/ DeleteRemoved(c) \/ Throw(c) \/ CleanUp(c) \/ ServerStops(c)

ListingImagesSpec == ListingImagesInit /\ [][ListingImagesNext]_imageVars

----------------------------------------------------------------------------

\* No two updates that want to keep different images leave a listing without
\* any, although each checks this before its transaction, on rows that the
\* other one may remove.
ListingsKeepAnImage == [][rows # {} => rows' # {}]_imageVars

\* An image whose upload was answered with success has its file as long as it
\* has its row, whatever other updates, failures and clean-ups there are.
ConfirmedImagesHaveFiles == rows \cap confirmed \subseteq files
=============================================================================
