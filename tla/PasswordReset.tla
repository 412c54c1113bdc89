---------------------------- MODULE PasswordReset ----------------------------
(***************************************************************************)
(* The reset token of one account (AuthService.forgetPassword and          *)
(* resetPassword, AdminService.resetAdminPassword, and the nightly         *)
(* anonymization, which clears it).                                        *)
(*                                                                         *)
(* A token is found on the row and cleared by id after the new password    *)
(* has been hashed; meanwhile the row may have got another token, or the   *)
(* same one may be used by somebody else.                                  *)
(***************************************************************************)
EXTENDS Handlers

CONSTANT ResetTokens   \* random tokens: each is drawn once

VARIABLES
    resetToken,   \* the column of the user row
    ghostRow,     \* the row is anonymized: its address is not found
    resetCall,    \* handlers that have read and not yet written
    mailed,       \* history: tokens that were sent
    spent         \* history: tokens that have set a password

resetVars == <<resetToken, ghostRow, resetCall, mailed, spent>>

ResetCall == [op: {"forget"}] \cup [op: {"reset"}, token: ResetTokens]

ASSUME ResetAssumption == NULL \notin ResetTokens \cup ResetCall

PasswordResetTypeOK ==
    /\ resetToken \in ResetTokens \cup {NULL}
    /\ ghostRow \in BOOLEAN
    /\ resetCall \in [Callers -> ResetCall \cup {NULL}]
    /\ mailed \subseteq ResetTokens
    /\ spent \subseteq ResetTokens

PasswordResetInit ==
    /\ resetToken = NULL
    /\ ghostRow = FALSE
    /\ resetCall = NobodyWaits
    /\ mailed = {}
    /\ spent = {}

----------------------------------------------------------------------------

\* By address, or by id when a super admin does it for a colleague.
AskForgetPassword(c) ==
    /\ ~ghostRow
    /\ Waits(resetCall, c, [op |-> "forget"])
    /\ UNCHANGED <<resetToken, ghostRow, mailed, spent>>

ForgetPassword(c) ==
    /\ Ends(resetCall, c)
    /\ resetCall[c].op = "forget"
    /\ \E t \in ResetTokens \ mailed :
           /\ resetToken' = t
           /\ mailed' = mailed \cup {t}
    /\ UNCHANGED <<ghostRow, spent>>

\* A token that has expired is one that nobody comes with.
FindResetToken(c) ==
    /\ resetToken # NULL
    /\ Waits(resetCall, c, [op |-> "reset", token |-> resetToken])
    /\ UNCHANGED <<resetToken, ghostRow, mailed, spent>>

\* Mutant: the token stays on the row.
ResetAndKeepToken(c) ==
    /\ Ends(resetCall, c)
    /\ resetCall[c].op = "reset"
    /\ spent' = spent \cup {resetCall[c].token}
    /\ UNCHANGED <<resetToken, ghostRow, mailed>>

ResetPassword(c) ==
    /\ Ends(resetCall, c)
    /\ resetCall[c].op = "reset"
    /\ resetToken' = NULL
    /\ spent' = spent \cup {resetCall[c].token}
    /\ UNCHANGED <<ghostRow, mailed>>

ScrubResetToken ==
    /\ ghostRow' = TRUE
    /\ resetToken' = NULL
    /\ UNCHANGED <<resetCall, mailed, spent>>

ResetHandlerFails(c) ==
    /\ Ends(resetCall, c)
    /\ UNCHANGED <<resetToken, ghostRow, mailed, spent>>

PasswordResetNext ==
    \/ \E c \in Callers :
           \/ AskForgetPassword(c) \/ ForgetPassword(c)
           \/ FindResetToken(c) \/ ResetPassword(c)
           \/ ResetHandlerFails(c)
    \/ ScrubResetToken

PasswordResetSpec == PasswordResetInit /\ [][PasswordResetNext]_resetVars

----------------------------------------------------------------------------

\* A token that has set a password is never on the row again, however many
\* resets and forgotten passwords are under way.
SpentTokensStayDead == resetToken \notin spent
=============================================================================
