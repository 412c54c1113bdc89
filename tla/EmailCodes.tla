------------------------------ MODULE EmailCodes ------------------------------
(***************************************************************************)
(* The verification of an e-mail address (AuthService.signup, verifyEmail, *)
(* resendEmailVerification), with the code that developers may use instead *)
(* switched off, as it is in production.                                   *)
(*                                                                         *)
(* The attempts of a code are counted on the row.  The counter is read     *)
(* with the row, the guess is compared, and only then is it incremented,   *)
(* so callers who guess at the same time all see the counter of before.    *)
(***************************************************************************)
EXTENDS Handlers

CONSTANTS
    Codes,          \* the codes that are sent, in the order they are drawn
    MaxAttempts,    \* OTP_MAX_ATTEMPTS
    MaxUncounted    \* bound on increments that are lost

VARIABLES
    signup,         \* the user row, or NULL
    codeCall,       \* handlers that have read and not yet written
    drawn,          \* history: codes that have been on the row
    guesses,        \* history: wrong guesses compared with each code
    uncounted       \* history: guesses whose increment failed

codeVars == <<signup, codeCall, drawn, guesses, uncounted>>

\* fresh: emailOtpExpiresAt is ahead; cooling: the last mail was sent less
\* than the cooldown ago.
SignupRow == [verified: BOOLEAN, code: Codes \cup {NULL}, fresh: BOOLEAN,
              cooling: BOOLEAN, attempts: Nat]
CodeCall == [op: {"wrong", "right"}, code: Codes]
                \cup [op: {"signup", "resend"}]

ASSUME CodesAssumption ==
    /\ MaxAttempts \in Nat \ {0} /\ MaxUncounted \in Nat
    /\ NULL \notin Codes \cup CodeCall \cup SignupRow

EmailCodesTypeOK ==
    /\ signup \in SignupRow \cup {NULL}
    /\ codeCall \in [Callers -> CodeCall \cup {NULL}]
    /\ drawn \subseteq Codes
    /\ guesses \in [Codes -> Nat]
    /\ uncounted \in Nat

EmailCodesInit ==
    /\ signup = NULL
    /\ codeCall = NobodyWaits
    /\ drawn = {}
    /\ guesses = [k \in Codes |-> 0]
    /\ uncounted = 0

----------------------------------------------------------------------------

AskSignup(c) ==
    /\ signup = NULL
    /\ Waits(codeCall, c, [op |-> "signup"])
    /\ UNCHANGED <<signup, drawn, guesses, uncounted>>

\* The address is unique: of two sign-ups that found it free, one fails.
Signup(c) ==
    /\ Ends(codeCall, c)
    /\ codeCall[c].op = "signup"
    /\ signup = NULL
    /\ \E k \in Codes \ drawn :
           /\ signup' = [verified |-> FALSE, code |-> k, fresh |-> TRUE,
                         cooling |-> TRUE, attempts |-> 0]
           /\ drawn' = drawn \cup {k}
    /\ UNCHANGED <<guesses, uncounted>>

CodeCanBeTried ==
    /\ signup # NULL
    /\ ~signup.verified
    /\ signup.code # NULL
    /\ signup.fresh
    /\ signup.attempts < MaxAttempts

\* Mutant: one attempt too many.
TryWrongCodeOnceMore(c) ==
    /\ signup # NULL
    /\ ~signup.verified
    /\ signup.code # NULL
    /\ signup.fresh
    /\ signup.attempts <= MaxAttempts
    /\ Waits(codeCall, c, [op |-> "wrong", code |-> signup.code])
    /\ guesses' = [guesses EXCEPT ![signup.code] = @ + 1]
    /\ UNCHANGED <<signup, drawn, uncounted>>

TryWrongCode(c) ==
    /\ CodeCanBeTried
    /\ Waits(codeCall, c, [op |-> "wrong", code |-> signup.code])
    /\ guesses' = [guesses EXCEPT ![signup.code] = @ + 1]
    /\ UNCHANGED <<signup, drawn, uncounted>>

\* By id: the counter may meanwhile belong to another code.
CountWrongCode(c) ==
    /\ Ends(codeCall, c)
    /\ codeCall[c].op = "wrong"
    /\ signup' = [signup EXCEPT !.attempts = @ + 1]
    /\ UNCHANGED <<drawn, guesses, uncounted>>

TryRightCode(c) ==
    /\ CodeCanBeTried
    /\ Waits(codeCall, c, [op |-> "right", code |-> signup.code])
    /\ UNCHANGED <<signup, drawn, guesses, uncounted>>

VerifyEmail(c) ==
    /\ Ends(codeCall, c)
    /\ codeCall[c].op = "right"
    /\ signup' = [signup EXCEPT !.verified = TRUE, !.code = NULL,
                                !.fresh = FALSE, !.attempts = 0]
    /\ UNCHANGED <<drawn, guesses, uncounted>>

AskResend(c) ==
    /\ signup # NULL
    /\ ~signup.verified
    /\ ~signup.cooling
    /\ Waits(codeCall, c, [op |-> "resend"])
    /\ UNCHANGED <<signup, drawn, guesses, uncounted>>

ResendEmailVerification(c) ==
    /\ Ends(codeCall, c)
    /\ codeCall[c].op = "resend"
    /\ \E k \in Codes \ drawn :
           /\ signup' = [signup EXCEPT !.code = k, !.fresh = TRUE,
                                       !.cooling = TRUE, !.attempts = 0]
           /\ drawn' = drawn \cup {k}
    /\ UNCHANGED <<guesses, uncounted>>

CodeExpires ==
    /\ signup # NULL
    /\ signup.fresh
    /\ signup' = [signup EXCEPT !.fresh = FALSE]
    /\ UNCHANGED <<codeCall, drawn, guesses, uncounted>>

CooldownEnds ==
    /\ signup # NULL
    /\ signup.cooling
    /\ signup' = [signup EXCEPT !.cooling = FALSE]
    /\ UNCHANGED <<codeCall, drawn, guesses, uncounted>>

CodeHandlerFails(c) ==
    /\ Ends(codeCall, c)
    /\ IF codeCall[c].op = "wrong"
       THEN uncounted < MaxUncounted /\ uncounted' = uncounted + 1
       ELSE UNCHANGED uncounted
    /\ UNCHANGED <<signup, drawn, guesses>>

EmailCodesNext ==
    \/ \E c \in Callers :
           \/ AskSignup(c) \/ Signup(c)
           \/ TryWrongCode(c) \/ CountWrongCode(c)
           \/ TryRightCode(c) \/ VerifyEmail(c)
           \/ AskResend(c) \/ ResendEmailVerification(c)
           \/ CodeHandlerFails(c)
    \/ CodeExpires \/ CooldownEnds

EmailCodesSpec == EmailCodesInit /\ [][EmailCodesNext]_codeVars

----------------------------------------------------------------------------

\* Against one code nobody has more wrong guesses than OTP_MAX_ATTEMPTS and
\* one for each other caller at that time, but for increments that failed:
\* the counter that a resend resets, or that counts for an older code, is
\* never worth an extra guess.
GuessesAreBounded ==
    \A k \in Codes :
        guesses[k] < MaxAttempts + Cardinality(Callers) + uncounted
=============================================================================
