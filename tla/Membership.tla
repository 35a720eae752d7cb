----------------------------- MODULE Membership -----------------------------
(***************************************************************************)
(* Members, their responsibilities and their teams: the lifecycle of an    *)
(* account (api/routes/users.py, services/operational_integrity.py), the   *)
(* role links, and the memberships of poles and projects                   *)
(* (api/routes/poles.py, api/routes/projects.py), which are one thing here *)
(* up to the names of the positions.                                       *)
(*                                                                         *)
(* A handler is one step, except the three that keep what they read before *)
(* the rows it depends on are locked: suspend_user reads the roles of the  *)
(* actor under the lock of the target alone, assign_roles_to_user reads    *)
(* the roles of its target before it locks the exclusive role, and the     *)
(* removal from a team takes no lock at all.  Those are a request that     *)
(* begins (and reads) in one step and commits in another.                  *)
(*                                                                         *)
(* The session does not flush before a query (autoflush=False), so the     *)
(* responsibility role that follows a position is computed from the rows   *)
(* as they were BEFORE the position changed, unless a notification to a    *)
(* member with push preferences flushed them in between.                   *)
(***************************************************************************)
CONSTANTS
    Users,        \* accounts
    Poles,        \* poles
    VeillePoles,  \* the poles whose leaders review the requests to join
    Projects,     \* projects
    Actors,       \* the users whose requests are modelled
    Wanted,       \* the role sets a request may ask for
    Named,        \* the positions a request may name somebody to
    Idle          \* an actor with no request in progress

ASSUME MembershipAssumption ==
    /\ Actors \subseteq Users
    /\ VeillePoles \subseteq Poles
    /\ Poles \cap Projects = {}
    /\ Idle.op \notin {"suspend", "assign", "leave"}

VARIABLES
    status,       \* users.status ("none": no row yet)
    profile,      \* users.profile_type
    roles,        \* the user_roles links of each user
    position,     \* position of the membership row of a group ("none": no row)
    inTeam,       \* is_active of that row
    request       \* per actor, the request that has read and not committed

vars == <<status, profile, roles, position, inTeam, request>>
-----------------------------------------------------------------------------
Groups == Poles \cup Projects

\* Positions of the two kinds of group; a leading position is the name of the
\* responsibility role that follows it.
Leading(g) == IF g \in Poles THEN {"chef_pole", "adjoint_chef_pole"}
                             ELSE {"chef_projet", "adjoint_chef_projet"}
Positions(g) == Leading(g) \cup {"membre"}

ScopedRoles == UNION {Leading(g) : g \in Groups}
Exclusive == {"team_leader", "secretaire_generale"}
GlobalRoles == Exclusive \cup {"administrateur", "financier"}
RoleNames == GlobalRoles \cup ScopedRoles \cup {"enacteur", "alumni"}

AdminManaged == GlobalRoles \cup {"enacteur"}
TeamLeaderManaged == {"secretaire_generale", "financier", "enacteur"}
SecretaryManaged == {"financier", "enacteur"}

ManagedBy(held) ==
    CASE "administrateur" \in held -> AdminManaged
      [] "administrateur" \notin held /\ "team_leader" \in held -> TeamLeaderManaged
      [] held \cap {"administrateur", "team_leader"} = {}
         /\ "secretaire_generale" \in held -> SecretaryManaged
      [] OTHER -> {}

Management == {"administrateur", "team_leader"}
Secretariat == Management \cup {"secretaire_generale"}

\* The account may use the routes of validated members, and holds one of S.
Validated(u) == status[u] \in {"active", "alumni"}
Holds(u, S) == Validated(u) /\ roles[u] \cap S # {}

ReviewsRequests(u) ==
    /\ Validated(u)
    /\ \/ Holds(u, Secretariat)
       \/ \E g \in VeillePoles : inTeam[g][u] /\ position[g][u] \in Leading(g)

\* TRUE for a global manager, who may name and remove leaders.
LeadsTeam(u, g) == inTeam[g][u] /\ position[g][u] \in Leading(g)
ManagesTeam(u, g) == Validated(u) /\ (Holds(u, Secretariat) \/ LeadsTeam(u, g))

Operational(u) == status[u] = "active" /\ profile[u] = "enacteur"

\* Lifecycle roles a set of roles is completed with.
Completed(u, held) ==
    IF /\ status[u] # "alumni"
       /\ \/ status[u] \in {"active", "pending"}
          \/ held \cap ((GlobalRoles \ {"administrateur"}) \cup ScopedRoles) # {}
    THEN held \cup {"enacteur"} ELSE held

\* Rows of users locked by a request that has not committed.
Locked(u) == \E a \in Actors : /\ request[a].op \in {"suspend", "assign"}
                              /\ request[a].target = u
Free(a) == request[a] = Idle
-----------------------------------------------------------------------------
Init ==
    /\ status = [u \in Users |-> "none"]
    /\ profile = [u \in Users |-> "enacteur"]
    /\ roles = [u \in Users |-> {}]
    /\ position = [g \in Groups |-> [u \in Users |-> "none"]]
    /\ inTeam = [g \in Groups |-> [u \in Users |-> FALSE]]
    /\ request = [a \in Actors |-> Idle]

\* A request to join, made by the applicant.
CreateJoinRequest(u, p) ==
    /\ status[u] = "none"
    /\ status' = [status EXCEPT ![u] = "pending"]
    /\ profile' = [profile EXCEPT ![u] = p]
    /\ UNCHANGED <<roles, position, inTeam, request>>

\* The secretariat types one in: nobody is admitted without an approval.
CreateUser(a, u, p) == Free(a) /\ Holds(a, Secretariat) /\ CreateJoinRequest(u, p)

\* Mutant: the teams of an account that stops being operational are left open.
ReconcileKeepsTeams(u, lifecycle) ==
    /\ status' = [status EXCEPT ![u] = lifecycle]
    /\ profile' = [profile EXCEPT ![u] = IF lifecycle = "alumni" THEN "alumni" ELSE @]
    /\ roles' = [roles EXCEPT ![u] = IF lifecycle \in {"active", "alumni"}
                                     THEN {lifecycle} ELSE {}]
    /\ UNCHANGED <<inTeam, position>>

\* The lifecycle an account is brought to: its status, the roles it keeps and
\* gains, and the end of its teams when it stops being operational.
ReconcileLifecycle(u, lifecycle) ==
    /\ status' = [status EXCEPT ![u] = lifecycle]
    /\ profile' = [profile EXCEPT ![u] = IF lifecycle = "alumni" THEN "alumni" ELSE @]
    /\ roles' = [roles EXCEPT ![u] =
           CASE lifecycle = "active" -> {"enacteur"}
             [] lifecycle = "suspended" -> @ \cap {"enacteur"}
             [] lifecycle = "rejected" -> {}
             [] lifecycle = "alumni" -> {"alumni"}]
    /\ IF lifecycle = "active" THEN UNCHANGED inTeam
       ELSE inTeam' = [g \in Groups |-> [inTeam[g] EXCEPT ![u] = FALSE]]
    /\ UNCHANGED position

\* Mutant: the way back of an account does not look at its profile.
AlwaysActive(u) == "active"

LifecycleOf(u) == IF profile[u] = "alumni" THEN "alumni" ELSE "active"

ApproveUser(a, u) ==
    /\ Free(a) /\ ReviewsRequests(a)
    /\ ~Locked(u) /\ status[u] = "pending"
    /\ ReconcileLifecycle(u, LifecycleOf(u))
    /\ UNCHANGED request

RejectUser(a, u) ==
    /\ Free(a) /\ ReviewsRequests(a)
    /\ ~Locked(u) /\ status[u] = "pending"
    /\ ReconcileLifecycle(u, "rejected")
    /\ UNCHANGED request

ReactivateUser(a, u) ==
    /\ Free(a) /\ Holds(a, Management)
    /\ ~Locked(u) /\ status[u] = "suspended"
    /\ ReconcileLifecycle(u, LifecycleOf(u))
    /\ UNCHANGED request

MakeAlumni(a, u) ==
    /\ Free(a) /\ Holds(a, Management) /\ a # u
    /\ ~Locked(u) /\ Operational(u)
    /\ "administrateur" \notin roles[u]
    /\ ReconcileLifecycle(u, "alumni")
    /\ UNCHANGED request

\* The first administrator: seed and production initialisation.
Bootstrap(u) ==
    /\ status[u] = "none"
    /\ \A v \in Users : "administrateur" \notin roles[v]
    /\ status' = [status EXCEPT ![u] = "active"]
    /\ roles' = [roles EXCEPT ![u] = {"administrateur", "enacteur"}]
    /\ UNCHANGED <<profile, position, inTeam, request>>

\* suspend_user: the target is locked, the actor is not.
SuspendRead(a, u) ==
    /\ Free(a) /\ Holds(a, Management) /\ a # u
    /\ ~Locked(u)
    /\ "administrateur" \in roles[u] => "administrateur" \in roles[a]
    /\ \/ Operational(u)
       \/ status[u] = "alumni" /\ profile[u] = "alumni"
    /\ request' = [request EXCEPT ![a] = [op |-> "suspend", target |-> u]]
    /\ UNCHANGED <<status, profile, roles, position, inTeam>>

SuspendCommit(a) ==
    /\ request[a].op = "suspend"
    /\ ReconcileLifecycle(request[a].target, "suspended")
    /\ request' = [request EXCEPT ![a] = Idle]

\* assign_roles_to_user: authority and current roles are read once the target
\* is locked, and kept while the exclusive roles asked for are locked.
AssignRead(a, u, wanted) ==
    /\ Free(a) /\ Validated(a)
    /\ ~Locked(u) /\ Operational(u)
    /\ ManagedBy(roles[a]) # {}
    /\ wanted \subseteq ManagedBy(roles[a])
    /\ request' = [request EXCEPT ![a] =
           [op |-> "assign", target |-> u, wanted |-> wanted,
            managed |-> ManagedBy(roles[a]), current |-> roles[u]]]
    /\ UNCHANGED <<status, profile, roles, position, inTeam>>

\* The other holders of an exclusive role lose it; the target loses the
\* managed roles it should no longer have and gains the others.
AssignCommit(a) ==
    LET r == request[a]
        next == Completed(r.target, (r.current \ r.managed) \cup r.wanted)
    IN  /\ r.op = "assign"
        /\ roles' = [u \in Users |->
               IF u = r.target THEN (roles[u] \ (r.managed \ next)) \cup next
                               ELSE roles[u] \ (r.wanted \cap Exclusive)]
        /\ request' = [request EXCEPT ![a] = Idle]
        /\ UNCHANGED <<status, profile, position, inTeam>>

\* remove_role_from_user: the links of the administrators are locked together.
RemoveRole(a, u, name) ==
    /\ Free(a) /\ Validated(a)
    /\ ~Locked(u) /\ status[u] # "none"
    /\ name \in ManagedBy(roles[a])
    /\ name = "administrateur" =>
           \E v, w \in Users : /\ v # w
                              /\ "administrateur" \in roles[v] \cap roles[w]
    /\ roles' = [roles EXCEPT ![u] = Completed(u, @ \ {name})]
    /\ UNCHANGED <<status, profile, position, inTeam, request>>
-----------------------------------------------------------------------------
(* Poles and projects. *)

\* What sync_*_responsibility_role makes of the roles held by u, given
\* whether it finds an active row of u at the position.
Synced(held, role, found) == IF found THEN held \cup {role} ELSE held \ {role}

\* The rows at a leading position, as the database has them.
LeadsAs(u, role, pos, team) ==
    \E g \in Groups : team[g][u] /\ pos[g][u] = role

\* A global manager names the leaders; the target is operational.
MayAssign(a, g, u, p) ==
    /\ Free(a) /\ ManagesTeam(a, g) /\ ~Locked(u)
    /\ p \in Leading(g) => Holds(a, Secretariat)
    /\ Operational(u)

\* Naming u to a leading position takes it from those who hold it.
Replaced(g, u, p) ==
    {v \in Users \ {u} : p \in Leading(g) /\ position[g][v] = p /\ inTeam[g][v]}

\* assign_*_member: the group and the target are locked.  flushed says whether
\* a push notification to the leader who is replaced wrote the pending changes.
AssignMember(a, g, u, p, flushed) ==
    LET old == position[g][u]
        replaced == Replaced(g, u, p)
        pos == [position EXCEPT ![g] = [v \in Users |->
                   IF v = u THEN p ELSE IF v \in replaced THEN "membre" ELSE @[v]]]
        team == [inTeam EXCEPT ![g][u] = TRUE]
        seen(role) == IF flushed THEN LeadsAs(u, role, pos, team)
                                 ELSE LeadsAs(u, role, position, inTeam)
        first == IF old \in Leading(g) THEN Synced(roles[u], old, seen(old)) ELSE roles[u]
        second == IF p \in Leading(g) THEN Synced(first, p, seen(p)) ELSE first
    IN  /\ MayAssign(a, g, u, p)
        /\ flushed => replaced # {}
        \* Naming the leader in place again inserts a missing link twice: 409.
        /\ ~(old = p /\ p \in Leading(g) /\ seen(p) /\ p \notin roles[u])
        /\ position' = pos
        /\ inTeam' = team
        /\ roles' = [v \in Users |->
               IF v = u THEN second
               ELSE IF v \in replaced
                    THEN Synced(roles[v], p, LeadsAs(v, p, position, inTeam))
               ELSE roles[v]]
        /\ UNCHANGED <<status, profile, request>>

\* remove_*_member: nothing is locked; the role is decided from the row as it
\* is before the removal is written.
LeaveRead(a, g, u) ==
    LET p == position[g][u]
    IN  /\ Free(a) /\ ManagesTeam(a, g)
        /\ p # "none"
        /\ p \in Leading(g) => Holds(a, Secretariat)
        /\ request' = [request EXCEPT ![a] =
               [op |-> "leave", group |-> g, user |-> u,
                role |-> p,
                gain |-> p \in Leading(g) /\ LeadsAs(u, p, position, inTeam)
                         /\ p \notin roles[u],
                lose |-> p \in Leading(g) /\ ~LeadsAs(u, p, position, inTeam)
                         /\ p \in roles[u]]]
        /\ UNCHANGED <<status, profile, roles, position, inTeam>>

\* The insertion of a link that exists, or the deletion of one that is gone,
\* fails the request.
LeaveCommit(a) ==
    LET r == request[a]
        u == r.user
        fails == (r.gain /\ r.role \in roles[u]) \/ (r.lose /\ r.role \notin roles[u])
    IN  /\ r.op = "leave"
        /\ request' = [request EXCEPT ![a] = Idle]
        /\ inTeam' = IF fails THEN inTeam ELSE [inTeam EXCEPT ![r.group][u] = FALSE]
        /\ roles' = IF fails THEN roles
                    ELSE [roles EXCEPT ![u] =
                             IF r.gain THEN @ \cup {r.role}
                             ELSE IF r.lose THEN @ \ {r.role} ELSE @]
        /\ UNCHANGED <<status, profile, position>>
-----------------------------------------------------------------------------
Next ==
    \/ \E u \in Users : Bootstrap(u) \/ \E p \in {"enacteur", "alumni"} : CreateJoinRequest(u, p)
    \/ \E a \in Actors, u \in Users :
          \/ \E p \in {"enacteur", "alumni"} : CreateUser(a, u, p)
          \/ ApproveUser(a, u)
          \/ RejectUser(a, u)
          \/ ReactivateUser(a, u)
          \/ MakeAlumni(a, u)
          \/ SuspendRead(a, u)
          \/ \E wanted \in Wanted : AssignRead(a, u, wanted)
          \/ \E name \in GlobalRoles : RemoveRole(a, u, name)
          \/ \E g \in Groups :
                \/ LeaveRead(a, g, u)
                \/ \E p \in Positions(g) \cap Named, flushed \in BOOLEAN :
                      AssignMember(a, g, u, p, flushed)
    \/ \E a \in Actors : SuspendCommit(a) \/ AssignCommit(a) \/ LeaveCommit(a)

Spec == Init /\ [][Next]_vars
-----------------------------------------------------------------------------
(* Properties. *)

Requests ==
    [op : {"suspend"}, target : Users]
    \cup [op : {"assign"}, target : Users, wanted : SUBSET RoleNames,
          managed : SUBSET RoleNames, current : SUBSET RoleNames]
    \cup [op : {"leave"}, group : Groups, user : Users,
          role : UNION {Positions(g) : g \in Groups}, gain : BOOLEAN, lose : BOOLEAN]

\* Types: rows, links and requests have the shapes above.
MembershipTypeOK ==
    /\ status \in [Users -> {"none", "pending", "active", "suspended", "rejected", "alumni"}]
    /\ profile \in [Users -> {"enacteur", "alumni"}]
    /\ roles \in [Users -> SUBSET RoleNames]
    /\ \A g \in Groups : /\ position[g] \in [Users -> Positions(g) \cup {"none"}]
                         /\ inTeam[g] \in [Users -> BOOLEAN]
    /\ \A a \in Actors : request[a] = Idle \/ request[a] \in Requests

\* Who is in a team or holds a global responsibility is an active operational
\* member: every way out of that state ends teams and responsibilities, and no
\* request that was under way gives them back.
OnlyActiveMembersServe ==
    \A u \in Users :
        (roles[u] \cap GlobalRoles # {} \/ \E g \in Groups : inTeam[g][u])
            => Operational(u)

\* A group never has two active leaders at one position.
OneLeaderPerPosition ==
    \A g \in Groups, u, v \in Users :
        /\ inTeam[g][u] /\ inTeam[g][v]
        /\ position[g][u] = position[g][v]
        /\ position[g][u] \in Leading(g)
        => u = v

\* The three together, the invariant of the members.
MembershipInv == MembershipTypeOK /\ OnlyActiveMembersServe /\ OneLeaderPerPosition

\* An Alumni stays one through suspension and reactivation, and a rejected
\* request is never revived.
LifecycleIsOneWay ==
    [][\A u \in Users :
          /\ status[u] = "alumni" => status'[u] \in {"alumni", "suspended"}
          /\ status[u] # "none" /\ profile[u] = "alumni"
                => status'[u] # "active" /\ profile'[u] = "alumni"
          /\ status[u] = "rejected" => status'[u] = "rejected"]_vars

\* What docs/design/ui_projects_team_v1.md:120 says of a removed leader: who leaves
\* a team, and leads no other, does not keep the responsibility role.
RoleLeavesWithPosition ==
    [][\A u \in Users, role \in ScopedRoles :
          /\ \E g \in Groups : inTeam[g][u] /\ ~inTeam'[g][u]
          /\ LeadsAs(u, role, position, inTeam) /\ ~LeadsAs(u, role, position', inTeam')
          => role \notin roles'[u]]_vars

\* There is at most one team leader and one secretary general.
OneHolderOfExclusiveRoles ==
    \A name \in Exclusive, u, v \in Users : name \in roles[u] \cap roles[v] => u = v

\* The last administrator cannot be removed.
AnAdministratorRemains ==
    [][(\E u \in Users : "administrateur" \in roles[u])
          => (\E u \in Users : "administrateur" \in roles'[u])]_vars
=============================================================================
