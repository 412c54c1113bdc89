------------------------------- MODULE Signing -------------------------------
(***************************************************************************)
(* What the lease flow promises the two parties of a match, without status *)
(* columns, tabs or calls under way: the landlord drafts until the tenant  *)
(* confirms, what is printed is a text the tenant was shown, and the two   *)
(* review each other after that.                                           *)
(***************************************************************************)
EXTENDS Naturals

CONSTANT Parties

VARIABLES
    text,        \* the draft as it is now, by number; 0 before the first
    shown,       \* the drafts that were put before the tenant
    confirmed,   \* the tenant agreed
    printed,     \* the draft the PDF is of, or 0
    reviewers    \* the parties who reviewed the other

signingVars == <<text, shown, confirmed, printed, reviewers>>

SigningInit ==
    /\ text = 0
    /\ shown = {}
    /\ confirmed = FALSE
    /\ printed = 0
    /\ reviewers = {}

Draft ==
    /\ ~confirmed
    /\ text' = text + 1
    /\ UNCHANGED <<shown, confirmed, printed, reviewers>>

Show ==
    /\ text # 0
    /\ shown' = shown \cup {text}
    /\ UNCHANGED <<text, confirmed, printed, reviewers>>

Confirm ==
    /\ text # 0
    /\ shown' = shown \cup {text}
    /\ confirmed' = TRUE
    /\ UNCHANGED <<text, printed, reviewers>>

\* An approval confirms.  The draft may be an earlier one: rendering takes
\* time, and the landlord may save meanwhile.
PrintPdf(draft) ==
    /\ draft \in shown
    /\ printed' = draft
    /\ confirmed' = TRUE
    /\ UNCHANGED <<text, shown, reviewers>>

Review(p) ==
    /\ printed # 0
    /\ p \notin reviewers
    /\ reviewers' = reviewers \cup {p}
    /\ UNCHANGED <<text, shown, confirmed, printed>>

SigningNext ==
    \/ Draft \/ Show \/ Confirm
    \/ \E draft \in shown : PrintPdf(draft)
    \/ \E p \in Parties : Review(p)

SigningSpec == SigningInit /\ [][SigningNext]_signingVars

----------------------------------------------------------------------------

\* What follows from the promise alone: a PDF is of a text that exists and
\* was shown, it is made with the tenant's agreement, and no review is older.
PrintsAreAgreed ==
    /\ \A draft \in shown : draft \in 1 .. text
    /\ printed # 0 => printed \in shown /\ confirmed
    /\ reviewers # {} => printed # 0
=============================================================================
