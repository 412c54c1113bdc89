------------------------------ MODULE AdminTeam ------------------------------
(***************************************************************************)
(* The team of administrators (AdminService.createAdmin, updateTeamMember, *)
(* CapabilitiesGuard, capabilities.ts).                                    *)
(*                                                                         *)
(* Every other admin role has none of the capabilities that matter here    *)
(* and stands as READ_ONLY; LEGACY is a row without a role, which counts   *)
(* as SUPER_ADMIN.  A handler that waits carries whether the team was      *)
(* written to since it read it.                                            *)
(***************************************************************************)
EXTENDS Handlers

CONSTANT Members   \* accounts that are or become administrators

VARIABLES
    team,          \* the row of each member, or NULL
    teamCall,      \* handlers that have read and not yet written
    overlapped     \* history: a change was written over another one

teamVars == <<team, teamCall, overlapped>>

AdminRole == {"SUPER_ADMIN", "READ_ONLY"}
Member == [role: AdminRole \cup {"LEGACY"}, active: BOOLEAN]
\* NULL in an edit: the request does not name that field.
TeamCall ==
    [op: {"authorized"}, actor: Members, stale: BOOLEAN]
        \cup [op: {"create"}, role: AdminRole, stale: BOOLEAN]
        \cup [op: {"edit"}, target: Members, role: AdminRole \cup {NULL},
              active: BOOLEAN \cup {NULL}, stale: BOOLEAN]

ASSUME TeamAssumption == NULL \notin Member \cup TeamCall \cup AdminRole \cup BOOLEAN

AdminTeamTypeOK ==
    /\ team \in [Members -> Member \cup {NULL}]
    /\ teamCall \in [Callers -> TeamCall \cup {NULL}]
    /\ overlapped \in BOOLEAN

\* An empty system, or one whose first admin predates the roles.
AdminTeamInit ==
    /\ \E first \in SUBSET Members :
           /\ Cardinality(first) <= 1
           /\ team = [m \in Members |->
                          IF m \in first
                          THEN [role |-> "LEGACY", active |-> TRUE] ELSE NULL]
    /\ teamCall = NobodyWaits
    /\ overlapped = FALSE

----------------------------------------------------------------------------

Admins == {m \in Members : team[m] # NULL}

\* capabilitiesFor: "admin:manage" and "admin:create".
IsSuper(member) == member.role # "READ_ONLY" /\ member.active

SuperAdmins == {m \in Admins : IsSuper(team[m])}

\* What the other handlers read is out of date after a write.
NowStale(c) ==
    teamCall' = [d \in Callers |->
                     IF d = c \/ teamCall[d] = NULL THEN NULL
                     ELSE [teamCall[d] EXCEPT !.stale = TRUE]]

\* The first administrator is nobody's choice and is a SUPER_ADMIN unless
\* the request says otherwise; then only super admins create others.
ChooseCreate(c) ==
    /\ Admins = {} \/ SuperAdmins # {}
    /\ \E role \in AdminRole :
           Waits(teamCall, c, [op |-> "create", role |-> role, stale |-> FALSE])
    /\ UNCHANGED <<team, overlapped>>

CreateAdmin(c) ==
    /\ teamCall[c] # NULL
    /\ teamCall[c].op = "create"
    /\ \E m \in Members :
           /\ team[m] = NULL
           /\ team' = [team EXCEPT ![m] = [role |-> teamCall[c].role,
                                           active |-> TRUE]]
    /\ overlapped' = (overlapped \/ teamCall[c].stale)
    /\ NowStale(c)

Edited(row, edit) ==
    [role |-> IF edit.role = NULL THEN row.role ELSE edit.role,
     active |-> IF edit.active = NULL THEN row.active ELSE edit.active]

\* Mutant: the other super admins are not counted.
LastIsNotCounted(target, next) == TRUE

\* "Guard the last super-admin": if the target is one and would not stay
\* one, another one must be left.
LastIsKept(target, next) ==
    IsSuper(team[target]) /\ ~IsSuper(next) => SuperAdmins \ {target} # {}

\* JwtStrategy and CapabilitiesGuard look at the actor before the handler
\* reads the team: he may be disabled in between.
Authorize(c) ==
    /\ \E actor \in SuperAdmins :
           Waits(teamCall, c, [op |-> "authorized", actor |-> actor, stale |-> FALSE])
    /\ UNCHANGED <<team, overlapped>>

\* Nobody edits himself.
ChooseEdit(c) ==
    /\ teamCall[c] # NULL
    /\ teamCall[c].op = "authorized"
    /\ \E target \in Admins \ {teamCall[c].actor},
          role \in AdminRole \cup {NULL}, active \in BOOLEAN \cup {NULL} :
           LET edit == [op |-> "edit", target |-> target, role |-> role,
                        active |-> active, stale |-> FALSE]
           IN  /\ LastIsKept(target, Edited(team[target], edit))
               /\ teamCall' = [teamCall EXCEPT ![c] = edit]
    /\ UNCHANGED <<team, overlapped>>

UpdateTeamMember(c) ==
    /\ teamCall[c] # NULL
    /\ teamCall[c].op = "edit"
    /\ team' = [team EXCEPT ![teamCall[c].target] = Edited(@, teamCall[c])]
    /\ overlapped' = (overlapped \/ teamCall[c].stale)
    /\ NowStale(c)

TeamHandlerFails(c) == Ends(teamCall, c) /\ UNCHANGED <<team, overlapped>>

AdminTeamNext ==
    \E c \in Callers :
        \/ ChooseCreate(c) \/ CreateAdmin(c)
        \/ Authorize(c) \/ ChooseEdit(c) \/ UpdateTeamMember(c)
        \/ TeamHandlerFails(c)

AdminTeamSpec == AdminTeamInit /\ [][AdminTeamNext]_teamVars

----------------------------------------------------------------------------

\* However roles, activations and new colleagues follow each other, the last
\* active super admin is never lost, unless two changes overlap: each was
\* checked against the team before the other one was written.
LastSuperAdminIsKept ==
    [][SuperAdmins # {} => SuperAdmins' # {} \/ overlapped']_teamVars
=============================================================================
