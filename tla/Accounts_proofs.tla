---------------------------- MODULE Accounts_proofs ----------------------------
(***************************************************************************)
(* Proofs about one account: its sessions (Accounts), its sockets          *)
(* (Sockets) and its reset tokens (PasswordReset), for any number of       *)
(* callers, of reactivation requests and of tokens.                        *)
(***************************************************************************)
EXTENDS Accounts, PasswordReset, Sockets, TLAPS

----------------------------------------------------------------------------
(* Sessions.  A token is never newer than the row; one that has the row's  *)
(* version while the account is not deleted was signed in this life.       *)

Fresh(token) ==
    /\ token.version <= account.version
    /\ token.version = account.version /\ account.deleted = "no"
           => token.life = life

Signing(c) == accountCall[c] # NULL /\ accountCall[c].op = "sign"

TokensAreFresh ==
    /\ \A token \in tokens : Fresh(token)
    /\ \A c \in Callers : Signing(c) => Fresh(accountCall[c].token)

AccountsInv == AccountsTypeOK /\ TokensAreFresh

LEMMA AccountUpdates ==
    ASSUME NEW row \in AccountRow
    PROVE  /\ \A b \in BOOLEAN : [row EXCEPT !.suspended = b] \in AccountRow
           /\ [row EXCEPT !.ghost = TRUE] \in AccountRow
           /\ \A d \in {"no", "recent", "expired"} :
                  [row EXCEPT !.deleted = d] \in AccountRow
<1>1. \A b \in BOOLEAN : [row EXCEPT !.suspended = b] \in AccountRow
  BY DEF AccountRow
<1>2. [row EXCEPT !.ghost = TRUE] \in AccountRow
  BY DEF AccountRow
<1>3. \A d \in {"no", "recent", "expired"} :
          [row EXCEPT !.deleted = d] \in AccountRow
  BY DEF AccountRow
<1> QED BY <1>1, <1>2, <1>3

LEMMA VersionUpdate ==
    ASSUME NEW row \in AccountRow, NEW d \in {"no", "recent"}
    PROVE  /\ [row EXCEPT !.deleted = d, !.version = @ + 1] \in AccountRow
           /\ [row EXCEPT !.deleted = d, !.version = @ + 1].version > row.version
<1> DEFINE deleted == [row EXCEPT !.deleted = d]
<1>1. deleted \in AccountRow /\ deleted.version = row.version
  BY AccountUpdates DEF AccountRow
<1>2. row.version \in Nat
  BY DEF AccountRow
<1>3. [row EXCEPT !.deleted = d, !.version = @ + 1]
          = [deleted EXCEPT !.version = @ + 1]
  OBVIOUS
<1> HIDE DEF deleted
<1>4. /\ [deleted EXCEPT !.version = @ + 1] \in AccountRow
      /\ [deleted EXCEPT !.version = @ + 1].version = deleted.version + 1
  BY <1>1 DEF AccountRow
<1> QED BY <1>1, <1>2, <1>3, <1>4

LEMMA SignTyped ==
    ASSUME NEW token \in Token
    PROVE  /\ [op |-> "sign", token |-> token] \in AccountCall
           /\ [op |-> "sign", token |-> token] # NULL
           /\ [op |-> "sign", token |-> token].op = "sign"
           /\ [op |-> "sign", token |-> token].token = token
<1>1. [op |-> "sign", token |-> token] \in AccountCall
  BY DEF AccountCall
<1> QED BY <1>1, AccountsAssumption

LEMMA PlainCallsTyped ==
    ASSUME NEW op \in {"socketTicket", "deleteAccount", "softDelete", "ask"}
    PROVE  [op |-> op] \in AccountCall /\ [op |-> op].op = op
BY DEF AccountCall

LEMMA AskCallsTyped ==
    ASSUME NEW op \in {"approve", "reject"}, NEW a \in Asks
    PROVE  [op |-> op, ask |-> a] \in AccountCall
           /\ [op |-> op, ask |-> a].op = op
BY DEF AccountCall

LEMMA SignCallToken ==
    ASSUME AccountsTypeOK, NEW c \in Callers, Signing(c)
    PROVE  accountCall[c].token \in Token
BY DEF AccountsTypeOK, Signing, AccountCall

LEMMA AskCallAsk ==
    ASSUME AccountsTypeOK, NEW c \in Callers, accountCall[c] # NULL,
           accountCall[c].op \in {"approve", "reject"}
    PROVE  accountCall[c].ask \in Asks
BY DEF AccountsTypeOK, AccountCall

LEMMA CurrentTokenFresh ==
    ASSUME AccountsTypeOK
    PROVE  CurrentToken \in Token /\ Fresh(CurrentToken)
BY DEF AccountsTypeOK, AccountRow, Token, CurrentToken, Fresh

\* Handlers that only begin: they write nothing but their own call.
LEMMA BeginStep ==
    ASSUME AccountsInv, NEW c \in Callers,
           NEW call \in AccountCall, Waits(accountCall, c, call), Unchecked,
           call.op = "sign" => Fresh(call.token)
    PROVE  AccountsInv'
<1> USE DEF AccountsInv
<1>1. AccountsTypeOK'
  BY DEF AccountsTypeOK, Waits, Unchecked
<1>2. \A d \in Callers : accountCall'[d] = IF d = c THEN call ELSE accountCall[d]
  BY DEF Waits, AccountsTypeOK
<1>3. TokensAreFresh'
  BY <1>2 DEF TokensAreFresh, Fresh, Signing, Unchecked
<1> QED BY <1>1, <1>3

\* A call that has ended was not, or is not any more, a signing one.
LEMMA EndedCalls ==
    ASSUME AccountsTypeOK, NEW c \in Callers, Ends(accountCall, c)
    PROVE  /\ accountCall' \in [Callers -> AccountCall \cup {NULL}]
           /\ \A d \in Callers :
                  accountCall'[d] # NULL => accountCall'[d] = accountCall[d]
BY DEF AccountsTypeOK, Ends

LEMMA SessionStep ==
    ASSUME AccountsInv, NEW c \in Callers,
           \/ SignIn(c) \/ Refresh(c) \/ Sign(c)
           \/ AskSocketTicket(c) \/ CreateSocketTicket(c)
           \/ AskDeleteAccount(c) \/ ChooseSoftDelete(c)
           \/ RequestReactivation(c) \/ ReadAsk(c)
           \/ AccountHandlerFails(c)
    PROVE  AccountsInv'
<1> USE DEF AccountsInv
<1>1. CASE SignIn(c) \/ Refresh(c)
  <2> DEFINE call == [op |-> "sign", token |-> CurrentToken]
  <2>1. CurrentToken \in Token /\ Fresh(CurrentToken)
    BY CurrentTokenFresh
  <2>2. call \in AccountCall /\ call.token = CurrentToken
    BY <2>1, SignTyped
  <2>3. Waits(accountCall, c, call) /\ Unchecked
    BY <1>1 DEF SignIn, Refresh
  <2> HIDE DEF call
  <2> QED BY <2>1, <2>2, <2>3, BeginStep
<1>2. CASE Sign(c)
  <2>1. Signing(c)
    BY <1>2 DEF Sign, Ends, Signing
  <2>2. accountCall[c].token \in Token /\ Fresh(accountCall[c].token)
    BY <2>1, SignCallToken DEF TokensAreFresh
  <2>3. Ends(accountCall, c)
    BY <1>2 DEF Sign
  <2>4. AccountsTypeOK'
    BY <1>2, <2>2, <2>3, EndedCalls DEF Sign, AccountsTypeOK
  <2>5. TokensAreFresh'
    BY <1>2, <2>2, <2>3, EndedCalls DEF Sign, TokensAreFresh, Fresh, Signing
  <2> QED BY <2>4, <2>5
<1>3. CASE CreateSocketTicket(c)
  <2>1. Ends(accountCall, c)
    BY <1>3 DEF CreateSocketTicket
  <2>2. CurrentToken \in Token /\ Fresh(CurrentToken)
    BY CurrentTokenFresh
  <2>3. AccountsTypeOK'
    BY <1>3, <2>1, <2>2, EndedCalls DEF CreateSocketTicket, AccountsTypeOK
  <2>4. TokensAreFresh'
    BY <1>3, <2>1, <2>2, EndedCalls
    DEF CreateSocketTicket, TokensAreFresh, Fresh, Signing
  <2> QED BY <2>3, <2>4
<1>4. CASE AskSocketTicket(c) \/ AskDeleteAccount(c) \/ ChooseSoftDelete(c)
           \/ RequestReactivation(c)
  <2>1. PICK op \in {"socketTicket", "deleteAccount", "softDelete", "ask"} :
            Waits(accountCall, c, [op |-> op]) /\ Unchecked
    BY <1>4 DEF AskSocketTicket, AskDeleteAccount, ChooseSoftDelete,
       RequestReactivation
  <2> DEFINE call == [op |-> op]
  <2>2. call \in AccountCall /\ call.op = op
    BY PlainCallsTyped
  <2>3. Waits(accountCall, c, call)
    BY <2>1
  <2> HIDE DEF call
  <2> QED BY <2>1, <2>2, <2>3, BeginStep
<1>5. CASE ReadAsk(c)
  <2>1. PICK a \in Asks, op \in {"approve", "reject"} :
            Waits(accountCall, c, [op |-> op, ask |-> a]) /\ Unchecked
    BY <1>5 DEF ReadAsk
  <2> DEFINE call == [op |-> op, ask |-> a]
  <2>2. call \in AccountCall /\ call.op = op
    BY AskCallsTyped
  <2>3. Waits(accountCall, c, call)
    BY <2>1
  <2> HIDE DEF call
  <2> QED BY <2>1, <2>2, <2>3, BeginStep
<1>6. CASE AccountHandlerFails(c)
  <2>1. Ends(accountCall, c) /\ Unchecked
    BY <1>6 DEF AccountHandlerFails
  <2>2. AccountsTypeOK'
    BY <2>1, EndedCalls DEF Unchecked, AccountsTypeOK
  <2>3. TokensAreFresh'
    BY <2>1, EndedCalls DEF Unchecked, TokensAreFresh, Fresh, Signing
  <2> QED BY <2>2, <2>3
<1> QED BY <1>1, <1>2, <1>3, <1>4, <1>5, <1>6

\* A row with a higher version outdates all tokens; one that is deleted, or
\* whose version and deletion stay, makes no token acceptable.
LEMMA RowStep ==
    ASSUME AccountsInv, AccountsTypeOK', UNCHANGED tokens,
           \A d \in Callers :
               accountCall'[d] # NULL => accountCall'[d] = accountCall[d],
           \/ account'.version > account.version
           \/ account'.version = account.version /\ account'.deleted # "no"
           \/ /\ account'.version = account.version
              /\ account'.deleted = account.deleted
              /\ life' = life
    PROVE  AccountsInv'
<1> USE DEF AccountsInv
<1>1. account.version \in Nat /\ account'.version \in Nat
  BY DEF AccountsTypeOK, AccountRow
<1>2. \A token \in Token : Fresh(token) => Fresh(token)'
  BY <1>1 DEF Fresh, Token
<1>3. tokens \subseteq Token
  BY DEF AccountsTypeOK
<1>4. \A d \in Callers : Signing(d) => accountCall[d].token \in Token
  BY SignCallToken
<1>5. \A d \in Callers : Signing(d)' => Signing(d) /\ accountCall'[d] = accountCall[d]
  BY DEF Signing
<1>6. \A token \in tokens' : Fresh(token)'
  BY <1>2, <1>3 DEF TokensAreFresh
<1>7. ASSUME NEW d \in Callers, Signing(d)'
      PROVE  Fresh(accountCall[d].token)'
  BY <1>2, <1>4, <1>5, <1>7 DEF TokensAreFresh, Fresh
<1> QED BY <1>6, <1>7 DEF TokensAreFresh

LEMMA DeletionStep ==
    ASSUME AccountsInv, NEW c \in Callers,
           DeleteAccount(c) \/ SoftDeleteUser(c)
    PROVE  AccountsInv'
<1> USE DEF AccountsInv
<1>1. account \in AccountRow /\ life + 1 \in Nat
  BY DEF AccountsTypeOK
<1>2. CASE DeleteAccount(c)
  <2>1. Ends(accountCall, c)
    BY <1>2 DEF DeleteAccount
  <2>2. account' \in AccountRow /\ account'.version > account.version
    BY <1>1, <1>2, VersionUpdate DEF DeleteAccount
  <2>3. AccountsTypeOK'
    BY <1>1, <1>2, <2>1, <2>2, EndedCalls DEF DeleteAccount, AccountsTypeOK
  <2>4. UNCHANGED tokens
    BY <1>2 DEF DeleteAccount
  <2> QED BY <2>1, <2>2, <2>3, <2>4, EndedCalls, RowStep
<1>3. CASE SoftDeleteUser(c)
  <2>1. Ends(accountCall, c)
    BY <1>3 DEF SoftDeleteUser
  <2>2. account' \in AccountRow /\ account'.version = account.version
        /\ account'.deleted # "no"
    BY <1>1, <1>3, AccountUpdates DEF SoftDeleteUser, AccountRow
  <2>3. AccountsTypeOK'
    BY <1>1, <1>3, <2>1, <2>2, EndedCalls DEF SoftDeleteUser, AccountsTypeOK
  <2>4. UNCHANGED tokens
    BY <1>3 DEF SoftDeleteUser
  <2> QED BY <2>1, <2>2, <2>3, <2>4, EndedCalls, RowStep
<1> QED BY <1>2, <1>3

LEMMA ReactivationStep ==
    ASSUME AccountsInv, NEW c \in Callers,
           CreateActivationRequest(c) \/ ApproveReactivation(c)
           \/ RejectReactivation(c)
    PROVE  AccountsInv'
<1> USE DEF AccountsInv
<1>1. account \in AccountRow
  BY DEF AccountsTypeOK
<1>2. CASE CreateActivationRequest(c)
  <2>1. Ends(accountCall, c)
    BY <1>2 DEF CreateActivationRequest
  <2>2. AccountsTypeOK'
    BY <1>2, <2>1, EndedCalls
    DEF CreateActivationRequest, AccountsTypeOK, AskStatus
  <2>3. UNCHANGED <<tokens, account, life>>
    BY <1>2 DEF CreateActivationRequest
  <2> QED BY <2>1, <2>2, <2>3, EndedCalls, RowStep
<1>3. CASE ApproveReactivation(c)
  <2>1. Ends(accountCall, c) /\ accountCall[c].ask \in Asks
    BY <1>3, AskCallAsk DEF ApproveReactivation, Ends
  <2>2. account' \in AccountRow /\ account'.version > account.version
    BY <1>1, <1>3, VersionUpdate DEF ApproveReactivation
  <2>3. asks' \in [Asks -> AskStatus \cup {NULL}]
    BY <1>3, <2>1 DEF ApproveReactivation, AccountsTypeOK, AskStatus
  <2>4. AccountsTypeOK'
    BY <1>3, <2>1, <2>2, <2>3, EndedCalls DEF ApproveReactivation, AccountsTypeOK
  <2>5. UNCHANGED tokens
    BY <1>3 DEF ApproveReactivation
  <2> QED BY <2>1, <2>2, <2>4, <2>5, EndedCalls, RowStep
<1>4. CASE RejectReactivation(c)
  <2>1. Ends(accountCall, c) /\ accountCall[c].ask \in Asks
    BY <1>4, AskCallAsk DEF RejectReactivation, Ends
  <2>2. asks' \in [Asks -> AskStatus \cup {NULL}]
    BY <1>4, <2>1 DEF RejectReactivation, AccountsTypeOK, AskStatus
  <2>3. AccountsTypeOK'
    BY <1>4, <2>1, <2>2, EndedCalls DEF RejectReactivation, AccountsTypeOK
  <2>4. UNCHANGED <<tokens, account, life>>
    BY <1>4 DEF RejectReactivation
  <2> QED BY <2>1, <2>3, <2>4, EndedCalls, RowStep
<1> QED BY <1>2, <1>3, <1>4

LEMMA JobStep ==
    ASSUME AccountsInv,
           \/ SuspendUser \/ UnsuspendUser
           \/ GraceEnds \/ ReadCandidates \/ Anonymize \/ AnonymizationFails
    PROVE  AccountsInv'
<1> USE DEF AccountsInv
<1>1. account \in AccountRow
  BY DEF AccountsTypeOK
<1>2. CASE GraceEnds
  <2>1. account' \in AccountRow /\ account'.version = account.version
        /\ account'.deleted # "no"
    BY <1>1, <1>2, AccountUpdates DEF GraceEnds, AccountRow
  <2>2. UNCHANGED <<tokens, accountCall>> /\ AccountsTypeOK'
    BY <1>2, <2>1 DEF GraceEnds, AccountsTypeOK
  <2> QED BY <2>1, <2>2, RowStep
<1>3. CASE SuspendUser \/ UnsuspendUser \/ ReadCandidates \/ Anonymize
           \/ AnonymizationFails
  <2>1. account' \in AccountRow
    BY <1>1, <1>3, AccountUpdates
    DEF SuspendUser, UnsuspendUser, ReadCandidates, Anonymize, AnonymizationFails
  <2>2. account'.version = account.version /\ account'.deleted = account.deleted
    BY <1>1, <1>3 DEF SuspendUser, UnsuspendUser, ReadCandidates, Anonymize,
       AnonymizationFails, AccountRow
  <2>3. UNCHANGED <<tokens, accountCall, life>> /\ AccountsTypeOK'
    BY <1>3, <2>1 DEF SuspendUser, UnsuspendUser, ReadCandidates, Anonymize,
       AnonymizationFails, AccountsTypeOK
  <2> QED BY <2>2, <2>3, RowStep
<1> QED BY <1>2, <1>3

LEMMA AccountsInitInv ==
    ASSUME AccountsInit
    PROVE  AccountsInv
<1>1. AccountsTypeOK
  BY DEF AccountsInit, AccountsTypeOK, AccountRow, NobodyWaits
<1>2. TokensAreFresh
  BY DEF AccountsInit, TokensAreFresh, Signing, NobodyWaits
<1> QED BY <1>1, <1>2 DEF AccountsInv

LEMMA AccountsNextInv ==
    ASSUME AccountsInv, [AccountsNext]_accountVars
    PROVE  AccountsInv'
<1>1. CASE UNCHANGED accountVars
  BY <1>1 DEF accountVars, AccountsInv, AccountsTypeOK, TokensAreFresh, Fresh,
     Signing
<1>2. CASE AccountsNext
  BY <1>2, SessionStep, DeletionStep, ReactivationStep, JobStep DEF AccountsNext
<1> QED BY <1>1, <1>2

LEMMA FreshTokensEndWithTheirLife ==
    ASSUME AccountsInv
    PROVE  DeletionEndsSessions
BY DEF AccountsInv, TokensAreFresh, Fresh, DeletionEndsSessions, Accepts,
   InGoodStanding

\* A token that JwtStrategy accepts was signed in this life of the account:
\* whatever handlers and anonymizations overlap, a deletion ends every session.
THEOREM SessionsEnd == AccountsSpec => []DeletionEndsSessions
<1>1. AccountsInit => AccountsInv
  BY AccountsInitInv
<1>2. AccountsInv /\ [AccountsNext]_accountVars => AccountsInv'
  BY AccountsNextInv
<1>3. AccountsInv => DeletionEndsSessions
  BY FreshTokensEndWithTheirLife
<1> QED BY <1>1, <1>2, <1>3, PTL DEF AccountsSpec

----------------------------------------------------------------------------
(* Sockets.  As above, and a handshake that was let in began no later than *)
(* in the life of its token.                                               *)

Current(token) ==
    /\ token.version <= owner.version
    /\ token.life <= lives
    /\ token.version = owner.version /\ ~owner.deleted => token.life = lives

Shaking(c) == handshakes[c] # NULL

SignedAreCurrent ==
    /\ \A token \in signed : Current(token)
    /\ \A c \in Callers : Shaking(c) =>
           /\ Current(handshakes[c].token)
           /\ handshakes[c].since <= lives
           /\ handshakes[c].step = "join" =>
                  handshakes[c].since <= handshakes[c].token.life

SocketsInv == SocketsTypeOK /\ SignedAreCurrent /\ SocketsOpenInTheirOwnLife

LEMMA HandshakeTyped ==
    ASSUME NEW token \in SignedToken, NEW since \in Nat
    PROVE  /\ [step |-> "verify", token |-> token, since |-> since] \in Handshake
           /\ [token |-> token, since |-> since, told |-> FALSE] \in Socket
BY DEF Handshake, Socket

LEMMA HandshakeAccepted ==
    ASSUME NEW h \in Handshake
    PROVE  [h EXCEPT !.step = "join"] \in Handshake
BY DEF Handshake

LEMMA SocketTold ==
    ASSUME NEW socket \in Socket
    PROVE  [socket EXCEPT !.told = TRUE] \in Socket
BY DEF Socket

LEMMA TokenSigned ==
    ASSUME NEW v \in Nat, NEW l \in Nat
    PROVE  [version |-> v, life |-> l] \in SignedToken
BY DEF SignedToken

LEMMA HandshakeParts ==
    ASSUME SocketsTypeOK, NEW c \in Callers, Shaking(c)
    PROVE  /\ handshakes[c] \in Handshake
           /\ handshakes[c].token \in SignedToken
           /\ handshakes[c].since \in Nat
BY DEF SocketsTypeOK, Shaking, Handshake

\* The row changes, tokens, handshakes and the room stay.
LEMMA OwnerStep ==
    ASSUME SocketsInv, DeleteOwnAccount \/ DeleteByAdmin \/ RestoreOwner
    PROVE  SocketsInv'
<1> USE DEF SocketsInv
<1>1. /\ owner \in [version: Nat, deleted: BOOLEAN]
      /\ owner.version \in Nat /\ lives \in Nat
  BY DEF SocketsTypeOK
<1>2. /\ owner' \in [version: Nat, deleted: BOOLEAN]
      /\ lives' \in Nat /\ lives' >= lives
      /\ \/ owner'.version > owner.version
         \/ owner'.version = owner.version /\ owner'.deleted
  <2>1. CASE DeleteOwnAccount
    BY <1>1, <2>1 DEF DeleteOwnAccount
  <2>2. CASE DeleteByAdmin
    <3>1. /\ owner' = [owner EXCEPT !.deleted = TRUE]
          /\ lives' = lives + 1
      BY <2>2 DEF DeleteByAdmin
    <3>2. owner' \in [version: Nat, deleted: BOOLEAN]
      BY <1>1, <3>1
    <3>3. owner'.version = owner.version /\ owner'.deleted = TRUE
      BY <1>1, <3>1
    <3> QED BY <1>1, <3>1, <3>2, <3>3
  <2>3. CASE RestoreOwner
    BY <1>1, <2>3 DEF RestoreOwner
  <2> QED BY <2>1, <2>2, <2>3
<1>3. UNCHANGED <<signed, handshakes, room>>
  BY DEF DeleteOwnAccount, DeleteByAdmin, RestoreOwner
<1>4. SocketsTypeOK'
  BY <1>2, <1>3 DEF SocketsTypeOK
<1>5. \A token \in SignedToken : Current(token) => Current(token)'
  BY <1>1, <1>2 DEF Current, SignedToken
<1>6. \A token \in signed' : Current(token)'
  BY <1>3, <1>5 DEF SignedAreCurrent, SocketsTypeOK
<1>7. ASSUME NEW c \in Callers, Shaking(c)
      PROVE  /\ Current(handshakes[c].token)'
             /\ handshakes[c].since <= lives'
  <2>1. handshakes[c].token \in SignedToken /\ handshakes[c].since \in Nat
    BY <1>7, HandshakeParts
  <2>2. Current(handshakes[c].token) /\ handshakes[c].since <= lives
    BY <1>7 DEF SignedAreCurrent
  <2>3. handshakes[c].since <= lives'
    BY <1>1, <1>2, <2>1, <2>2
  <2> QED BY <1>3, <1>5, <2>1, <2>2, <2>3 DEF Current
<1>8. SignedAreCurrent'
  BY <1>3, <1>6, <1>7 DEF SignedAreCurrent, Shaking
<1>9. SocketsOpenInTheirOwnLife'
  BY <1>3 DEF SocketsOpenInTheirOwnLife
<1> QED BY <1>4, <1>8, <1>9

LEMMA SignTokenStep ==
    ASSUME SocketsInv, SignToken
    PROVE  SocketsInv'
<1> USE DEF SocketsInv
<1> DEFINE new == [version |-> owner.version, life |-> lives]
<1>1. new \in SignedToken /\ Current(new)
  BY TokenSigned DEF SocketsTypeOK, Current
<1>2. signed' = signed \cup {new} /\ UNCHANGED <<owner, handshakes, room, lives>>
  BY DEF SignToken
<1> HIDE DEF new
<1>3. SocketsTypeOK'
  BY <1>1, <1>2 DEF SocketsTypeOK
<1>4. SignedAreCurrent'
  BY <1>1, <1>2 DEF SignedAreCurrent, Current, Shaking
<1>5. SocketsOpenInTheirOwnLife'
  BY <1>2 DEF SocketsOpenInTheirOwnLife
<1> QED BY <1>3, <1>4, <1>5

LEMMA HandshakeStep ==
    ASSUME SocketsInv, NEW c \in Callers,
           \/ Connect(c) \/ AcceptHandshake(c) \/ RefuseHandshake(c)
           \/ HandleConnection(c)
    PROVE  SocketsInv'
<1> USE DEF SocketsInv
<1>1. CASE Connect(c)
  <2>1. PICK token \in signed :
            Waits(handshakes, c, [step |-> "verify", token |-> token, since |-> lives])
    BY <1>1 DEF Connect
  <2> DEFINE h == [step |-> "verify", token |-> token, since |-> lives]
  <2>2. token \in SignedToken /\ lives \in Nat /\ Current(token)
    BY DEF SocketsTypeOK, SignedAreCurrent
  <2>3. h \in Handshake /\ h.step = "verify" /\ h.token = token /\ h.since = lives
    BY <2>2, HandshakeTyped
  <2>4. handshakes' = [handshakes EXCEPT ![c] = h]
    BY <2>1 DEF Waits
  <2>5. UNCHANGED <<owner, signed, room, lives>>
    BY <1>1 DEF Connect
  <2> HIDE DEF h
  <2>6. SocketsTypeOK'
    BY <2>3, <2>4, <2>5 DEF SocketsTypeOK
  <2>7. \A d \in Callers : handshakes'[d] = IF d = c THEN h ELSE handshakes[d]
    BY <2>4 DEF SocketsTypeOK
  <2>8. SignedAreCurrent'
    BY <2>2, <2>3, <2>5, <2>7 DEF SignedAreCurrent, Current, Shaking
  <2>9. SocketsOpenInTheirOwnLife'
    BY <2>5 DEF SocketsOpenInTheirOwnLife
  <2> QED BY <2>6, <2>8, <2>9
<1>2. CASE AcceptHandshake(c)
  <2> DEFINE h == [handshakes[c] EXCEPT !.step = "join"]
  <2>1. Shaking(c) /\ NotRevoked(handshakes[c].token)
    BY <1>2 DEF AcceptHandshake, Shaking
  <2>2. handshakes[c] \in Handshake
    BY <2>1, HandshakeParts
  <2>3. h \in Handshake /\ h.token = handshakes[c].token
        /\ h.since = handshakes[c].since /\ h.step = "join"
    BY <2>2, HandshakeAccepted DEF Handshake
  <2>4. handshakes' = [handshakes EXCEPT ![c] = h]
    BY <1>2 DEF AcceptHandshake
  <2>5. UNCHANGED <<owner, signed, room, lives>>
    BY <1>2 DEF AcceptHandshake
  <2>6. h.since <= h.token.life /\ h.since <= lives /\ Current(h.token)
    BY <2>1, <2>3 DEF SignedAreCurrent, Current, NotRevoked
  <2> HIDE DEF h
  <2>7. SocketsTypeOK'
    BY <2>3, <2>4, <2>5 DEF SocketsTypeOK
  <2>8. \A d \in Callers : handshakes'[d] = IF d = c THEN h ELSE handshakes[d]
    BY <2>4 DEF SocketsTypeOK
  <2>9. SignedAreCurrent'
    BY <2>3, <2>5, <2>6, <2>8 DEF SignedAreCurrent, Current, Shaking
  <2>10. SocketsOpenInTheirOwnLife'
    BY <2>5 DEF SocketsOpenInTheirOwnLife
  <2> QED BY <2>7, <2>9, <2>10
<1>3. ASSUME Ends(handshakes, c)
      PROVE  /\ handshakes' \in [Callers -> Handshake \cup {NULL}]
             /\ \A d \in Callers : Shaking(d)' =>
                    Shaking(d) /\ handshakes'[d] = handshakes[d]
  BY <1>3 DEF Ends, SocketsTypeOK, Shaking
<1>4. CASE RefuseHandshake(c)
  <2>1. SocketsTypeOK'
    BY <1>3, <1>4 DEF RefuseHandshake, SocketsTypeOK
  <2>2. SignedAreCurrent'
    BY <1>3, <1>4 DEF RefuseHandshake, SignedAreCurrent, Current
  <2>3. SocketsOpenInTheirOwnLife'
    BY <1>4 DEF RefuseHandshake, SocketsOpenInTheirOwnLife
  <2> QED BY <2>1, <2>2, <2>3
<1>5. CASE HandleConnection(c)
  <2> DEFINE new == [token |-> handshakes[c].token,
                     since |-> handshakes[c].since, told |-> FALSE]
  <2>1. Shaking(c) /\ handshakes[c].step = "join"
    BY <1>5 DEF HandleConnection, Shaking
  <2>2. new \in Socket
    BY <2>1, HandshakeParts, HandshakeTyped
  <2>3. new.since <= new.token.life
    BY <2>1 DEF SignedAreCurrent
  <2>4. room' = room \cup {new} /\ UNCHANGED <<owner, signed, lives>>
    BY <1>5 DEF HandleConnection
  <2> HIDE DEF new
  <2>5. SocketsTypeOK'
    BY <1>3, <1>5, <2>2, <2>4 DEF HandleConnection, SocketsTypeOK
  <2>6. SignedAreCurrent'
    BY <1>3, <1>5, <2>4 DEF HandleConnection, SignedAreCurrent, Current
  <2>7. SocketsOpenInTheirOwnLife'
    BY <2>3, <2>4 DEF SocketsOpenInTheirOwnLife
  <2> QED BY <2>5, <2>6, <2>7
<1> QED BY <1>1, <1>2, <1>4, <1>5

LEMMA RoomStep ==
    ASSUME SocketsInv,
           ForceLogout \/ \E socket \in room : HandleDisconnect(socket)
    PROVE  SocketsInv'
<1> USE DEF SocketsInv
<1>1. UNCHANGED <<owner, signed, handshakes, lives>>
  BY DEF ForceLogout, HandleDisconnect
<1>2. \A s \in room' : s \in Socket /\ s.since <= s.token.life
  <2>1. CASE ForceLogout
    <3>1. SUFFICES ASSUME NEW s \in room
                   PROVE  /\ [s EXCEPT !.told = TRUE] \in Socket
                          /\ [s EXCEPT !.told = TRUE].since
                                 <= [s EXCEPT !.told = TRUE].token.life
      BY <2>1 DEF ForceLogout
    <3>2. s \in Socket /\ s.since <= s.token.life
      BY DEF SocketsTypeOK, SocketsOpenInTheirOwnLife
    <3>3. [s EXCEPT !.told = TRUE] \in Socket
      BY <3>2, SocketTold
    <3>4. /\ [s EXCEPT !.told = TRUE].since = s.since
          /\ [s EXCEPT !.told = TRUE].token = s.token
      BY <3>2 DEF Socket
    <3> QED BY <3>2, <3>3, <3>4
  <2>2. CASE \E socket \in room : HandleDisconnect(socket)
    BY <2>2 DEF HandleDisconnect, SocketsTypeOK, SocketsOpenInTheirOwnLife
  <2> QED BY <2>1, <2>2
<1>3. SocketsTypeOK'
  BY <1>1, <1>2 DEF SocketsTypeOK
<1>4. SignedAreCurrent'
  BY <1>1 DEF SignedAreCurrent, Current, Shaking
<1>5. SocketsOpenInTheirOwnLife'
  BY <1>2 DEF SocketsOpenInTheirOwnLife
<1> QED BY <1>3, <1>4, <1>5

LEMMA SocketsInitInv ==
    ASSUME SocketsInit
    PROVE  SocketsInv
BY DEF SocketsInit, SocketsInv, SocketsTypeOK, SignedAreCurrent, Shaking,
   SocketsOpenInTheirOwnLife, NobodyWaits

LEMMA SocketsNextInv ==
    ASSUME SocketsInv, [SocketsNext]_socketVars
    PROVE  SocketsInv'
<1>1. CASE UNCHANGED socketVars
  BY <1>1 DEF socketVars, SocketsInv, SocketsTypeOK, SignedAreCurrent, Current,
     Shaking, SocketsOpenInTheirOwnLife
<1>2. CASE SocketsNext
  BY <1>2, SignTokenStep, HandshakeStep, OwnerStep, RoomStep DEF SocketsNext
<1> QED BY <1>1, <1>2

\* No handshake of the gateway that began after a deletion joins the rooms with
\* a token from before it.
THEOREM SocketsOpen == SocketsSpec => []SocketsOpenInTheirOwnLife
<1>1. SocketsInit => SocketsInv
  BY SocketsInitInv
<1>2. SocketsInv /\ [SocketsNext]_socketVars => SocketsInv'
  BY SocketsNextInv
<1>3. SocketsInv => SocketsOpenInTheirOwnLife
  BY DEF SocketsInv
<1> QED BY <1>1, <1>2, <1>3, PTL DEF SocketsSpec

----------------------------------------------------------------------------
(* Reset tokens.  What is on the row, or was found on it, was mailed.      *)

ResetInv ==
    /\ PasswordResetTypeOK
    /\ SpentTokensStayDead
    /\ spent \subseteq mailed
    /\ resetToken # NULL => resetToken \in mailed
    /\ \A c \in Callers :
           resetCall[c] # NULL /\ resetCall[c].op = "reset" =>
               resetCall[c].token \in mailed

LEMMA ResetCallsTyped ==
    ASSUME NEW t \in ResetTokens
    PROVE  /\ [op |-> "forget"] \in ResetCall
           /\ [op |-> "reset", token |-> t] \in ResetCall
BY DEF ResetCall

LEMMA ResetStep ==
    ASSUME ResetInv, NEW c \in Callers,
           \/ AskForgetPassword(c) \/ ForgetPassword(c)
           \/ FindResetToken(c) \/ ResetPassword(c)
           \/ ResetHandlerFails(c)
    PROVE  ResetInv'
<1> USE DEF ResetInv, PasswordResetTypeOK, SpentTokensStayDead
<1>1. ASSUME Ends(resetCall, c)
      PROVE  /\ resetCall' \in [Callers -> ResetCall \cup {NULL}]
             /\ \A d \in Callers :
                    resetCall'[d] # NULL => resetCall'[d] = resetCall[d]
  BY <1>1 DEF Ends
<1>2. CASE AskForgetPassword(c)
  <2> DEFINE call == [op |-> "forget"]
  <2>1. call \in ResetCall /\ call.op = "forget"
    BY DEF ResetCall
  <2>2. resetCall' = [resetCall EXCEPT ![c] = call]
    BY <1>2 DEF AskForgetPassword, Waits
  <2> HIDE DEF call
  <2>3. \A d \in Callers : resetCall'[d] = IF d = c THEN call ELSE resetCall[d]
    BY <2>2
  <2> QED BY <1>2, <2>1, <2>2, <2>3 DEF AskForgetPassword
<1>3. CASE ForgetPassword(c)
  BY <1>1, <1>3, ResetAssumption DEF ForgetPassword
<1>4. CASE FindResetToken(c)
  <2> DEFINE call == [op |-> "reset", token |-> resetToken]
  <2>1. resetToken \in ResetTokens
    BY <1>4 DEF FindResetToken
  <2>2. call \in ResetCall /\ call.op = "reset" /\ call.token = resetToken
    BY <2>1, ResetCallsTyped
  <2>3. resetCall' = [resetCall EXCEPT ![c] = call]
    BY <1>4 DEF FindResetToken, Waits
  <2> HIDE DEF call
  <2>4. \A d \in Callers : resetCall'[d] = IF d = c THEN call ELSE resetCall[d]
    BY <2>3
  <2> QED BY <1>4, <2>1, <2>2, <2>3, <2>4 DEF FindResetToken
<1>5. CASE ResetPassword(c)
  <2>1. resetCall[c].token \in mailed /\ Ends(resetCall, c)
    BY <1>5 DEF ResetPassword, Ends
  <2> QED BY <1>1, <1>5, <2>1, ResetAssumption DEF ResetPassword
<1>6. CASE ResetHandlerFails(c)
  BY <1>1, <1>6 DEF ResetHandlerFails
<1> QED BY <1>2, <1>3, <1>4, <1>5, <1>6

LEMMA ResetInitInv ==
    ASSUME PasswordResetInit
    PROVE  ResetInv
BY DEF PasswordResetInit, ResetInv, PasswordResetTypeOK, SpentTokensStayDead,
   NobodyWaits

LEMMA ResetNextInv ==
    ASSUME ResetInv, [PasswordResetNext]_resetVars
    PROVE  ResetInv'
<1>1. CASE UNCHANGED resetVars
  BY <1>1 DEF resetVars, ResetInv, PasswordResetTypeOK, SpentTokensStayDead
<1>2. CASE ScrubResetToken
  BY <1>2, ResetAssumption
  DEF ScrubResetToken, ResetInv, PasswordResetTypeOK, SpentTokensStayDead
<1> QED BY <1>1, <1>2, ResetStep DEF PasswordResetNext

\* A token that resetPassword accepted is never on the row again, whichever
\* mails and resets were under way.
THEOREM SpentTokens == PasswordResetSpec => []SpentTokensStayDead
<1>1. PasswordResetInit => ResetInv
  BY ResetInitInv
<1>2. ResetInv /\ [PasswordResetNext]_resetVars => ResetInv'
  BY ResetNextInv
<1>3. ResetInv => SpentTokensStayDead
  BY DEF ResetInv
<1> QED BY <1>1, <1>2, <1>3, PTL DEF PasswordResetSpec

=============================================================================
