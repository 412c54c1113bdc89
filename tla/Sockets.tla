------------------------------- MODULE Sockets -------------------------------
(***************************************************************************)
(* The sockets of one account (RealtimeGateway), and what deleting,        *)
(* suspending and restoring the account does to them.                      *)
(*                                                                         *)
(* A handshake awaits the verification of the token and the account's row; *)
(* a socket that is let in joins the user's room and stays there until the *)
(* client leaves.  Nothing on the server disconnects it: force_logout and  *)
(* account_suspended are messages to the room.  Lives are counted as in    *)
(* Accounts; the handlers that write the row are one step here.            *)
(***************************************************************************)
EXTENDS Handlers

CONSTANT MaxDeletions   \* bound on deletions

VARIABLES
    owner,        \* the user row: [version, deleted]
    signed,       \* tokens that were signed: [version, life]
    handshakes,   \* handshakes under way
    room,         \* sockets in the user's room: [token, since, told]
    lives         \* history: the number of deletions

socketVars == <<owner, signed, handshakes, room, lives>>

SignedToken == [version: Nat, life: Nat]
\* since: the life of the account when the handshake began.
Handshake == [step: {"verify", "join"}, token: SignedToken, since: Nat]
Socket == [token: SignedToken, since: Nat, told: BOOLEAN]

ASSUME SocketsAssumption == NULL \notin Handshake /\ MaxDeletions \in Nat

SocketsTypeOK ==
    /\ owner \in [version: Nat, deleted: BOOLEAN]
    /\ signed \subseteq SignedToken
    /\ handshakes \in [Callers -> Handshake \cup {NULL}]
    /\ room \subseteq Socket
    /\ lives \in Nat

SocketsInit ==
    /\ owner = [version |-> 0, deleted |-> FALSE]
    /\ signed = {}
    /\ handshakes = NobodyWaits
    /\ room = {}
    /\ lives = 0

----------------------------------------------------------------------------

SignToken ==
    /\ ~owner.deleted
    /\ signed' = signed \cup {[version |-> owner.version, life |-> lives]}
    /\ UNCHANGED <<owner, handshakes, room, lives>>

Connect(c) ==
    /\ \E token \in signed :
           Waits(handshakes, c, [step |-> "verify", token |-> token, since |-> lives])
    /\ UNCHANGED <<owner, signed, room, lives>>

\* Mutant: only the version of the token is compared.
VersionIsCurrent(token) == token.version = owner.version

\* A suspended account is not asked about, unlike in JwtStrategy.
NotRevoked(token) == ~owner.deleted /\ token.version = owner.version

AcceptHandshake(c) ==
    /\ handshakes[c] # NULL
    /\ handshakes[c].step = "verify"
    /\ NotRevoked(handshakes[c].token)
    /\ handshakes' = [handshakes EXCEPT ![c].step = "join"]
    /\ UNCHANGED <<owner, signed, room, lives>>

\* Refused, or given up by the client.
RefuseHandshake(c) ==
    /\ Ends(handshakes, c)
    /\ UNCHANGED <<owner, signed, room, lives>>

HandleConnection(c) ==
    /\ handshakes[c] # NULL
    /\ handshakes[c].step = "join"
    /\ room' = room \cup {[token |-> handshakes[c].token,
                           since |-> handshakes[c].since, told |-> FALSE]}
    /\ Ends(handshakes, c)
    /\ UNCHANGED <<owner, signed, lives>>

HandleDisconnect(socket) ==
    /\ socket \in room
    /\ room' = room \ {socket}
    /\ UNCHANGED <<owner, signed, handshakes, lives>>

\* By the user himself: his tabs are not told.
DeleteOwnAccount ==
    /\ lives < MaxDeletions
    /\ ~owner.deleted
    /\ owner' = [version |-> owner.version + 1, deleted |-> TRUE]
    /\ lives' = lives + 1
    /\ UNCHANGED <<signed, handshakes, room>>

\* By an administrator: tokenVersion stays.
DeleteByAdmin ==
    /\ lives < MaxDeletions
    /\ ~owner.deleted
    /\ owner' = [owner EXCEPT !.deleted = TRUE]
    /\ lives' = lives + 1
    /\ UNCHANGED <<signed, handshakes, room>>

\* After a deletion or a suspension by an administrator.
ForceLogout ==
    /\ room' = {[socket EXCEPT !.told = TRUE] : socket \in room}
    /\ UNCHANGED <<owner, signed, handshakes, lives>>

RestoreOwner ==
    /\ owner.deleted
    /\ owner' = [version |-> owner.version + 1, deleted |-> FALSE]
    /\ UNCHANGED <<signed, handshakes, room, lives>>

SocketsNext ==
    \/ SignToken
    \/ \E c \in Callers :
           \/ Connect(c) \/ AcceptHandshake(c) \/ RefuseHandshake(c)
           \/ HandleConnection(c)
    \/ \E socket \in room : HandleDisconnect(socket)
    \/ DeleteOwnAccount \/ DeleteByAdmin \/ ForceLogout \/ RestoreOwner

SocketsSpec == SocketsInit /\ [][SocketsNext]_socketVars

----------------------------------------------------------------------------

\* No handshake that begins after a deletion lets in a token from before it,
\* neither while the account is deleted nor after it was restored.
SocketsOpenInTheirOwnLife == \A socket \in room : socket.since <= socket.token.life
=============================================================================
