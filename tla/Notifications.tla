---------------------------- MODULE Notifications ----------------------------
(***************************************************************************)
(* Notifications: their rows, the tabs and the devices they are shown on   *)
(* (RealtimeService.notifyUser and notifyUsers, NotificationsService,      *)
(* PushNotificationService).                                               *)
(*                                                                         *)
(* The row is written first and awaited; emitting to the tabs of the user  *)
(* is immediate; the push to his devices goes on by itself, over several   *)
(* awaits, after the handler has gone on.                                  *)
(***************************************************************************)
EXTENDS Handlers

CONSTANTS
    Users,
    Notes,      \* rows of notification
    Devices     \* tokens the push service has given to devices

VARIABLES
    notes,      \* the rows: [user, read], or NULL
    devices,    \* device_token: the user of each token, or NULL
    pushes,     \* where each notification's handler and push are, or NULL
    known,      \* external: the tokens the push service still knows
    wanted      \* history: the user that a device last registered for

noteVars == <<notes, devices, pushes, known, wanted>>

NoteRow == [user: Users, read: BOOLEAN]
Push == [step: {"create", "emit", "tokens"}, user: Users]
            \cup [step: {"send", "clean"}, to: SUBSET Devices]

ASSUME NotificationsAssumption == NULL \notin Users \cup NoteRow \cup Push

NotificationsTypeOK ==
    /\ notes \in [Notes -> NoteRow \cup {NULL}]
    /\ devices \in [Devices -> Users \cup {NULL}]
    /\ pushes \in [Notes -> Push \cup {NULL}]
    /\ known \subseteq Devices
    /\ wanted \in [Devices -> Users \cup {NULL}]

NotificationsInit ==
    /\ notes = [n \in Notes |-> NULL]
    /\ devices = [d \in Devices |-> NULL]
    /\ pushes = [n \in Notes |-> NULL]
    /\ known = Devices
    /\ wanted = [d \in Devices |-> NULL]

----------------------------------------------------------------------------

NoteAt(n, step) == pushes[n] # NULL /\ pushes[n].step = step

SetPush(n, push) == pushes' = [pushes EXCEPT ![n] = push]

NotifyUser(n, u) ==
    /\ notes[n] = NULL
    /\ pushes[n] = NULL
    /\ SetPush(n, [step |-> "create", user |-> u])
    /\ UNCHANGED <<notes, devices, known, wanted>>

CreateNote(n) ==
    /\ NoteAt(n, "create")
    /\ notes' = [notes EXCEPT ![n] = [user |-> pushes[n].user, read |-> FALSE]]
    /\ SetPush(n, [pushes[n] EXCEPT !.step = "emit"])
    /\ UNCHANGED <<devices, known, wanted>>

EmitNote(n) ==
    /\ NoteAt(n, "emit")
    /\ SetPush(n, [pushes[n] EXCEPT !.step = "tokens"])
    /\ UNCHANGED <<notes, devices, known, wanted>>

ReadTokens(n) ==
    /\ NoteAt(n, "tokens")
    /\ LET to == {d \in Devices : devices[d] = pushes[n].user}
       IN  SetPush(n, IF to = {} THEN NULL ELSE [step |-> "send", to |-> to])
    /\ UNCHANGED <<notes, devices, known, wanted>>

\* Mutant: any failure counts.
AnyFailure(to) == to

\* Only tokens the service does not know any more are given up.
Failed(to) == to \ known

SendMulticast(n) ==
    /\ NoteAt(n, "send")
    /\ LET failed == Failed(pushes[n].to)
       IN  SetPush(n, IF failed = {} THEN NULL ELSE [step |-> "clean", to |-> failed])
    /\ UNCHANGED <<notes, devices, known, wanted>>

DeleteFailedTokens(n) ==
    /\ NoteAt(n, "clean")
    /\ devices' = [d \in Devices |-> IF d \in pushes[n].to THEN NULL ELSE devices[d]]
    /\ SetPush(n, NULL)
    /\ UNCHANGED <<notes, known, wanted>>

\* A write or the push service fails, or the server dies.
NotifyFails(n) ==
    /\ pushes[n] # NULL
    /\ SetPush(n, NULL)
    /\ UNCHANGED <<notes, devices, known, wanted>>

----------------------------------------------------------------------------

MarkRead(n) ==
    /\ notes[n] # NULL
    /\ notes' = [notes EXCEPT ![n].read = TRUE]
    /\ UNCHANGED <<devices, pushes, known, wanted>>

MarkAllRead(u) ==
    /\ notes' = [n \in Notes |->
                    IF notes[n] # NULL /\ notes[n].user = u
                    THEN [notes[n] EXCEPT !.read = TRUE] ELSE notes[n]]
    /\ UNCHANGED <<devices, pushes, known, wanted>>

\* The same device may have been somebody else's before.
SaveDeviceToken(d, u) ==
    /\ d \in known
    /\ devices' = [devices EXCEPT ![d] = u]
    /\ wanted' = [wanted EXCEPT ![d] = u]
    /\ UNCHANGED <<notes, pushes, known>>

RemoveDeviceToken(d) ==
    /\ devices' = [devices EXCEPT ![d] = NULL]
    /\ wanted' = [wanted EXCEPT ![d] = NULL]
    /\ UNCHANGED <<notes, pushes, known>>

\* External: the app is uninstalled; its token does not come back.
TokenExpires(d) ==
    /\ known' = known \ {d}
    /\ UNCHANGED <<notes, devices, pushes, wanted>>

NotificationsNext ==
    \/ \E n \in Notes :
           \/ \E u \in Users : NotifyUser(n, u)
           \/ CreateNote(n) \/ EmitNote(n) \/ ReadTokens(n)
           \/ SendMulticast(n) \/ DeleteFailedTokens(n) \/ NotifyFails(n)
           \/ MarkRead(n)
    \/ \E u \in Users : MarkAllRead(u)
    \/ \E d \in Devices :
           \/ \E u \in Users : SaveDeviceToken(d, u)
           \/ RemoveDeviceToken(d) \/ TokenExpires(d)

NotificationsSpec == NotificationsInit /\ [][NotificationsNext]_noteVars

----------------------------------------------------------------------------

\* Cleaning up after a push takes no device from a user who still has it,
\* although devices come and change hands while the push is under way.
LiveDevicesStay == \A d \in known : devices[d] = wanted[d]
=============================================================================
