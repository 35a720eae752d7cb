-------------------------- MODULE MembershipProofs --------------------------
(***************************************************************************)
(* Theorems about Membership, for any number of members, poles, projects   *)
(* and requests.  Serving members and leaders are not inductive: a         *)
(* suspension and an assignment act on what they read before.  What carries *)
(* them from the read to the commit is RequestsStand: a row that is locked  *)
(* keeps its lifecycle until the request that locked it commits.            *)
(***************************************************************************)
EXTENDS Membership, TLAPS

RequestOps == {"suspend", "assign"}

\* What a request read under the lock of its target is still true, and no two
\* requests hold one row.
RequestsStand ==
    \A a \in Actors :
        /\ request[a].op = "suspend" => status[request[a].target] \in {"active", "alumni"}
        /\ request[a].op = "assign" => Operational(request[a].target)
        /\ request[a].op = "leave" /\ request[a].gain => request[a].role \in ScopedRoles
        /\ \A b \in Actors :
              /\ request[a].op \in RequestOps /\ request[b].op \in RequestOps
              /\ request[a].target = request[b].target
              => a = b

\* Nobody is active with the profile of an Alumni.
ProfileFollowsStatus ==
    \A u \in Users : /\ status[u] \in {"none", "active"} => profile[u] = "enacteur"
                     /\ status[u] = "alumni" => profile[u] = "alumni"

\* The functions have no more rows than their types say.
Shape ==
    /\ position \in [Groups -> [Users -> (UNION {Positions(g) : g \in Groups}) \cup {"none"}]]
    /\ inTeam \in [Groups -> [Users -> BOOLEAN]]
    /\ request = [a \in Actors |-> request[a]]

MembershipIInv ==
    /\ MembershipTypeOK /\ Shape /\ RequestsStand /\ ProfileFollowsStatus
    /\ OnlyActiveMembersServe /\ OneLeaderPerPosition
----------------------------------------------------------------------------
(* Names, and what a request holds *)

LEMMA RoleFacts ==
  /\ GlobalRoles \subseteq RoleNames
  /\ {"enacteur", "alumni"} \subseteq RoleNames
  /\ \A g \in Groups : Leading(g) \subseteq RoleNames /\ Leading(g) \cap GlobalRoles = {}
  /\ {"enacteur", "alumni"} \cap GlobalRoles = {}
BY DEF RoleNames, GlobalRoles, Exclusive, ScopedRoles, Leading

LEMMA PositionFacts ==
  /\ \A g \in Groups : Leading(g) \subseteq Positions(g) /\ "membre" \in Positions(g)
  /\ \A g \in Groups : "none" \notin Leading(g) /\ "membre" \notin Leading(g)
  /\ \A g \in Groups : Positions(g) \cap GlobalRoles = {}
BY DEF Positions, GlobalRoles, Exclusive, Leading

LEMMA RequestFields ==
  ASSUME MembershipTypeOK, NEW a \in Actors
  PROVE  /\ request[a].op \in RequestOps => request[a].target \in Users
         /\ request[a].op = "assign" =>
               /\ request[a].wanted \subseteq RoleNames
               /\ request[a].managed \subseteq RoleNames
               /\ request[a].current \subseteq RoleNames
         /\ request[a].op = "leave" =>
               /\ request[a].group \in Groups /\ request[a].user \in Users
               /\ request[a].role \in UNION {Positions(g) : g \in Groups}
         /\ request[a] = Idle => request[a].op \notin RequestOps \cup {"leave"}
<1>1. request[a] = Idle \/ request[a] \in Requests
  BY DEF MembershipTypeOK
<1>2. CASE request[a] = Idle
  BY <1>2, MembershipAssumption DEF RequestOps
<1>3. CASE request[a] \in Requests
  BY <1>3, MembershipAssumption DEF Requests, RequestOps
<1>4. QED
  BY <1>1, <1>2, <1>3

\* The roles a set is completed with: at most the lifecycle role.
LEMMA CompletedRoles ==
  ASSUME NEW u \in Users, NEW held \in SUBSET RoleNames
  PROVE  /\ Completed(u, held) \in SUBSET RoleNames
         /\ Completed(u, held) \cap GlobalRoles = held \cap GlobalRoles
BY RoleFacts DEF Completed

LEMMA ManagedRoles ==
  ASSUME NEW held
  PROVE  ManagedBy(held) \in SUBSET RoleNames
BY DEF ManagedBy, AdminManaged, TeamLeaderManaged, SecretaryManaged, RoleNames, GlobalRoles, Exclusive

----------------------------------------------------------------------------
(* A new lifecycle *)

\* What ReconcileLifecycle does to each row.
LEMMA ReconciledRows ==
  ASSUME MembershipIInv, NEW u \in Users,
         NEW l \in {"active", "suspended", "rejected", "alumni"},
         ReconcileLifecycle(u, l)
  PROVE  /\ status' = [status EXCEPT ![u] = l]
         /\ profile' = [profile EXCEPT ![u] = IF l = "alumni" THEN "alumni" ELSE profile[u]]
         /\ roles' \in [Users -> SUBSET RoleNames]
         /\ roles'[u] \cap GlobalRoles = {}
         /\ \A v \in Users \ {u} : roles'[v] = roles[v]
         /\ inTeam' \in [Groups -> [Users -> BOOLEAN]]
         /\ \A g \in Groups, v \in Users : inTeam'[g][v] => inTeam[g][v]
         /\ l # "active" => \A g \in Groups : ~inTeam'[g][u]
         /\ position' = position
<1>1. roles' \in [Users -> SUBSET RoleNames] /\ roles'[u] \cap GlobalRoles = {}
      /\ \A v \in Users \ {u} : roles'[v] = roles[v]
  <2>1. CASE l = "active"
    BY <2>1, RoleFacts DEF ReconcileLifecycle, MembershipIInv, MembershipTypeOK
  <2>2. CASE l = "suspended"
    BY <2>2, RoleFacts DEF ReconcileLifecycle, MembershipIInv, MembershipTypeOK
  <2>3. CASE l = "rejected"
    BY <2>3, RoleFacts DEF ReconcileLifecycle, MembershipIInv, MembershipTypeOK
  <2>4. CASE l = "alumni"
    BY <2>4, RoleFacts DEF ReconcileLifecycle, MembershipIInv, MembershipTypeOK
  <2>5. QED
    BY <2>1, <2>2, <2>3, <2>4
<1>2. /\ inTeam' \in [Groups -> [Users -> BOOLEAN]]
      /\ \A g \in Groups, v \in Users : inTeam'[g][v] => inTeam[g][v]
      /\ l # "active" => \A g \in Groups : ~inTeam'[g][u]
  <2>1. CASE l = "active"
    BY <2>1 DEF ReconcileLifecycle, MembershipIInv, Shape
  <2>2. CASE l # "active"
    <3>1. inTeam' = [g \in Groups |-> [inTeam[g] EXCEPT ![u] = FALSE]]
      BY <2>2 DEF ReconcileLifecycle
    <3>2. \A g \in Groups : inTeam[g] \in [Users -> BOOLEAN]
      BY DEF MembershipIInv, Shape
    <3>3. \A g \in Groups : inTeam'[g] \in [Users -> BOOLEAN]
      BY <3>1, <3>2
    <3>4. \A g \in Groups, v \in Users : inTeam'[g][v] <=> inTeam[g][v] /\ v # u
      BY <3>1, <3>2, Zenon
    <3>5. QED
      BY <3>1, <3>3, <3>4
  <2>3. QED
    BY <2>1, <2>2
<1>3. QED
  BY <1>1, <1>2 DEF ReconcileLifecycle

\* A change of lifecycle keeps the invariant, whatever happens to the requests.
LEMMA ReconcileInv ==
  ASSUME MembershipIInv, NEW u \in Users,
         NEW l \in {"active", "suspended", "rejected", "alumni"},
         ReconcileLifecycle(u, l),
         l = "active" => profile[u] = "enacteur" /\ status[u] # "active",
         \A a \in Actors : request'[a] = Idle \/ request'[a] = request[a],
         request' = [a \in Actors |-> request'[a]],
         \A a \in Actors : request'[a].op \in RequestOps => request'[a].target # u
  PROVE  MembershipIInv'
<1> USE DEF MembershipIInv
<1>0. /\ status' = [status EXCEPT ![u] = l]
      /\ profile' = [profile EXCEPT ![u] = IF l = "alumni" THEN "alumni" ELSE profile[u]]
      /\ roles' \in [Users -> SUBSET RoleNames]
      /\ roles'[u] \cap GlobalRoles = {}
      /\ \A v \in Users \ {u} : roles'[v] = roles[v]
      /\ inTeam' \in [Groups -> [Users -> BOOLEAN]]
      /\ \A g \in Groups, v \in Users : inTeam'[g][v] => inTeam[g][v]
      /\ l # "active" => \A g \in Groups : ~inTeam'[g][u]
      /\ position' = position
  BY ReconciledRows
<1>1. MembershipTypeOK'
  BY <1>0 DEF MembershipTypeOK
<1>2. Shape'
  BY <1>0 DEF Shape
<1>3. RequestsStand'
  <2>1. \A a \in Actors : request'[a].op \in RequestOps =>
            request'[a] = request[a] /\ request[a].target \in Users \ {u}
    BY RequestFields, MembershipAssumption DEF RequestOps
  <2>2. \A a \in Actors : request'[a].op = "leave" => request'[a] = request[a]
    BY MembershipAssumption
  <2>3. QED
    BY <1>0, <2>1, <2>2 DEF RequestsStand, Operational, RequestOps, MembershipTypeOK
<1>4. ProfileFollowsStatus'
  BY <1>0 DEF ProfileFollowsStatus, MembershipTypeOK
<1>5. OnlyActiveMembersServe'
  <2>1. \A v \in Users \ {u} : Operational(v)' = Operational(v)
    BY <1>0 DEF Operational, MembershipTypeOK
  <2>2. roles'[u] \cap GlobalRoles = {} /\ \A g \in Groups : ~inTeam'[g][u]
    BY <1>0 DEF OnlyActiveMembersServe, Operational
  <2>3. QED
    BY <1>0, <2>1, <2>2 DEF OnlyActiveMembersServe
<1>6. OneLeaderPerPosition'
  BY <1>0 DEF OneLeaderPerPosition
<1>7. QED
  BY <1>1, <1>2, <1>3, <1>4, <1>5, <1>6

\* The ways out of waiting and of suspension, and the passage to alumni.
LEMMA LifecycleActionsInv ==
  ASSUME MembershipIInv, NEW a \in Actors, NEW u \in Users,
         ApproveUser(a, u) \/ RejectUser(a, u) \/ ReactivateUser(a, u) \/ MakeAlumni(a, u)
  PROVE  MembershipIInv'
<1>1. PICK l \in {"active", "suspended", "rejected", "alumni"} :
        /\ ReconcileLifecycle(u, l)
        /\ l = "active" => profile[u] = "enacteur" /\ status[u] # "active"
  <2>1. profile[u] \in {"enacteur", "alumni"}
    BY DEF MembershipIInv, MembershipTypeOK
  <2>2. QED
    BY <2>1 DEF ApproveUser, RejectUser, ReactivateUser, MakeAlumni, LifecycleOf
<1>2. ~Locked(u) /\ UNCHANGED request
  BY DEF ApproveUser, RejectUser, ReactivateUser, MakeAlumni
<1>3. \A b \in Actors : request'[b].op \in RequestOps => request'[b].target # u
  BY <1>2 DEF Locked, RequestOps
<1>4. request' = [b \in Actors |-> request'[b]]
  BY <1>2 DEF MembershipIInv, Shape
<1>5. QED
  BY <1>1, <1>2, <1>3, <1>4, ReconcileInv

LEMMA SuspendCommitInv ==
  ASSUME MembershipIInv, NEW a \in Actors, SuspendCommit(a)
  PROVE  MembershipIInv'
<1> DEFINE u == request[a].target
<1>1. u \in Users /\ request[a].op \in RequestOps
  BY RequestFields DEF SuspendCommit, MembershipIInv, RequestOps
<1>2. ReconcileLifecycle(u, "suspended")
  BY DEF SuspendCommit
<1>3. request' = [request EXCEPT ![a] = Idle] /\ request = [b \in Actors |-> request[b]]
  BY DEF SuspendCommit, MembershipIInv, Shape
<1>4. \A b \in Actors : request'[b] = Idle \/ request'[b] = request[b]
  BY <1>3
<1>5. \A b \in Actors : request'[b].op \in RequestOps => request'[b].target # u
  BY <1>1, <1>3, MembershipAssumption DEF MembershipIInv, RequestsStand, RequestOps
<1>6. request' = [b \in Actors |-> request'[b]]
  BY <1>3
<1>7. QED
  BY <1>1, <1>2, <1>4, <1>5, <1>6, ReconcileInv

----------------------------------------------------------------------------
(* New accounts, requests that begin, changes of roles *)

\* A row that is written for the first time: nobody holds it, and it has no team.
LEMMA NewAccountInv ==
  ASSUME MembershipIInv, NEW u \in Users, status[u] = "none",
         NEW l \in {"pending", "active"}, NEW p \in {"enacteur", "alumni"},
         l = "active" => p = "enacteur",
         status' = [status EXCEPT ![u] = l],
         profile' = [profile EXCEPT ![u] = p],
         roles' \in [Users -> SUBSET RoleNames],
         \A v \in Users \ {u} : roles'[v] = roles[v],
         l = "pending" => roles' = roles,
         UNCHANGED <<position, inTeam, request>>
  PROVE  MembershipIInv'
<1> USE DEF MembershipIInv
<1>1. MembershipTypeOK'
  BY DEF MembershipTypeOK
<1>2. Shape'
  BY DEF Shape
<1>3. \A v \in Users \ {u} : Operational(v)' = Operational(v)
  BY DEF Operational, MembershipTypeOK
<1>4. RequestsStand'
  <2>1. \A a \in Actors : request[a].op \in RequestOps => request[a].target \in Users \ {u}
    BY RequestFields DEF RequestsStand, Operational, RequestOps
  <2>2. QED
    BY <1>3, <2>1 DEF RequestsStand, RequestOps, MembershipTypeOK
<1>5. ProfileFollowsStatus'
  BY DEF ProfileFollowsStatus, MembershipTypeOK
<1>6. OnlyActiveMembersServe'
  <2>1. roles[u] \cap GlobalRoles = {} /\ \A g \in Groups : ~inTeam[g][u]
    BY DEF OnlyActiveMembersServe, Operational
  <2>2. l = "active" => Operational(u)'
    BY DEF Operational, MembershipTypeOK
  <2>3. QED
    BY <1>3, <2>1, <2>2 DEF OnlyActiveMembersServe
<1>7. OneLeaderPerPosition'
  BY DEF OneLeaderPerPosition
<1>8. QED
  BY <1>1, <1>2, <1>4, <1>5, <1>6, <1>7

LEMMA JoinInv ==
  ASSUME MembershipIInv, NEW u \in Users, NEW p \in {"enacteur", "alumni"},
         CreateJoinRequest(u, p)
  PROVE  MembershipIInv'
<1>1. roles' \in [Users -> SUBSET RoleNames]
  BY DEF CreateJoinRequest, MembershipIInv, MembershipTypeOK
<1>2. QED
  BY <1>1, NewAccountInv DEF CreateJoinRequest

LEMMA BootstrapInv ==
  ASSUME MembershipIInv, NEW u \in Users, Bootstrap(u)
  PROVE  MembershipIInv'
<1>1. profile[u] = "enacteur" /\ profile \in [Users -> {"enacteur", "alumni"}]
  BY DEF Bootstrap, MembershipIInv, MembershipTypeOK, ProfileFollowsStatus
<1>2. profile' = [profile EXCEPT ![u] = "enacteur"]
  BY <1>1 DEF Bootstrap
<1>3. roles' \in [Users -> SUBSET RoleNames] /\ \A v \in Users \ {u} : roles'[v] = roles[v]
  BY DEF Bootstrap, MembershipIInv, MembershipTypeOK, RoleNames, GlobalRoles
<1>4. QED
  BY <1>2, <1>3, NewAccountInv DEF Bootstrap

\* A request that has only read.
LEMMA RequestBeginsInv ==
  ASSUME MembershipIInv, NEW a \in Actors, NEW q \in Requests,
         request' = [request EXCEPT ![a] = q],
         UNCHANGED <<status, profile, roles, position, inTeam>>,
         q.op \in RequestOps => ~Locked(q.target),
         q.op = "suspend" => status[q.target] \in {"active", "alumni"},
         q.op = "assign" => Operational(q.target),
         q.op = "leave" /\ q.gain => q.role \in ScopedRoles
  PROVE  MembershipIInv'
<1> USE DEF MembershipIInv
<1>1. request' \in [Actors -> {request'[b] : b \in Actors}]
      /\ \A b \in Actors : request'[b] = IF b = a THEN q ELSE request[b]
  BY DEF Shape
<1>2. MembershipTypeOK' /\ Shape'
  BY <1>1 DEF MembershipTypeOK, Shape
<1>3. RequestsStand'
  <2>1. \A b \in Actors : request[b].op \in RequestOps /\ q.op \in RequestOps =>
            request[b].target # q.target
    BY DEF Locked, RequestOps
  <2>2. QED
    BY <1>1, <2>1 DEF RequestsStand, RequestOps, Operational
<1>4. ProfileFollowsStatus' /\ OnlyActiveMembersServe' /\ OneLeaderPerPosition'
  BY DEF ProfileFollowsStatus, OnlyActiveMembersServe, OneLeaderPerPosition, Operational
<1>5. QED
  BY <1>2, <1>3, <1>4

LEMMA ReadsInv ==
  ASSUME MembershipIInv, NEW a \in Actors, NEW u \in Users,
         \/ SuspendRead(a, u)
         \/ \E wanted \in Wanted : AssignRead(a, u, wanted)
         \/ \E g \in Groups : LeaveRead(a, g, u)
  PROVE  MembershipIInv'
<1>1. CASE SuspendRead(a, u)
  <2> DEFINE q == [op |-> "suspend", target |-> u]
  <2>1. q \in Requests
    BY DEF Requests
  <2>2. QED
    BY <1>1, <2>1, RequestBeginsInv DEF SuspendRead, Operational
<1>2. ASSUME NEW wanted \in Wanted, AssignRead(a, u, wanted) PROVE MembershipIInv'
  <2> DEFINE q == [op |-> "assign", target |-> u, wanted |-> wanted,
                   managed |-> ManagedBy(roles[a]), current |-> roles[u]]
  <2>1. ManagedBy(roles[a]) \in SUBSET RoleNames /\ wanted \in SUBSET RoleNames
    BY <1>2, ManagedRoles DEF AssignRead
  <2>2. roles[u] \in SUBSET RoleNames
    BY DEF MembershipIInv, MembershipTypeOK
  <2>3. q \in Requests
    BY <2>1, <2>2 DEF Requests
  <2>4. QED
    BY <1>2, <2>3, RequestBeginsInv DEF AssignRead
<1>3. ASSUME NEW g \in Groups, LeaveRead(a, g, u) PROVE MembershipIInv'
  <2> DEFINE p == position[g][u]
             q == [op |-> "leave", group |-> g, user |-> u, role |-> p,
                   gain |-> p \in Leading(g) /\ LeadsAs(u, p, position, inTeam)
                            /\ p \notin roles[u],
                   lose |-> p \in Leading(g) /\ ~LeadsAs(u, p, position, inTeam)
                            /\ p \in roles[u]]
  <2>1. p \in Positions(g)
    BY <1>3 DEF LeaveRead, MembershipIInv, MembershipTypeOK
  <2>2. q \in Requests
    BY <2>1, Zenon DEF Requests
  <2>3. q.op \notin RequestOps /\ q.op = "leave"
    BY DEF RequestOps
  <2>6. q.gain => q.role \in ScopedRoles
    BY Zenon DEF ScopedRoles
  <2>4. request' = [request EXCEPT ![a] = q]
        /\ UNCHANGED <<status, profile, roles, position, inTeam>>
    BY <1>3 DEF LeaveRead
  <2> HIDE DEF q
  <2>5. QED
    BY <2>2, <2>3, <2>4, <2>6, RequestBeginsInv
<1>4. QED
  BY <1>1, <1>2, <1>3

\* Roles change: only who is operational gains a global one.
LEMMA RolesChangeInv ==
  ASSUME MembershipIInv,
         roles' \in [Users -> SUBSET RoleNames],
         \A v \in Users : roles'[v] \cap GlobalRoles \subseteq roles[v] \/ Operational(v),
         \A b \in Actors : request'[b] = Idle \/ request'[b] = request[b],
         request' = [b \in Actors |-> request'[b]],
         inTeam' \in [Groups -> [Users -> BOOLEAN]],
         \A g \in Groups, v \in Users : inTeam'[g][v] => inTeam[g][v],
         UNCHANGED <<status, profile, position>>
  PROVE  MembershipIInv'
<1> USE DEF MembershipIInv
<1>1. MembershipTypeOK' /\ Shape'
  BY DEF MembershipTypeOK, Shape
<1>2. RequestsStand'
  <2>1. \A b \in Actors : request'[b].op \in RequestOps \cup {"leave"} =>
            request'[b] = request[b]
    BY MembershipAssumption DEF RequestOps
  <2>2. QED
    BY <2>1 DEF RequestsStand, Operational, RequestOps
<1>3. ProfileFollowsStatus'
  BY DEF ProfileFollowsStatus
<1>4. OnlyActiveMembersServe'
  BY DEF OnlyActiveMembersServe, Operational
<1>5. OneLeaderPerPosition'
  BY DEF OneLeaderPerPosition
<1>6. QED
  BY <1>1, <1>2, <1>3, <1>4, <1>5

LEMMA RemoveRoleInv ==
  ASSUME MembershipIInv, NEW a \in Actors, NEW u \in Users, NEW name \in GlobalRoles,
         RemoveRole(a, u, name)
  PROVE  MembershipIInv'
<1>1. roles \in [Users -> SUBSET RoleNames] /\ inTeam \in [Groups -> [Users -> BOOLEAN]]
      /\ request = [b \in Actors |-> request[b]]
  BY DEF MembershipIInv, MembershipTypeOK, Shape
<1>2. /\ Completed(u, roles[u] \ {name}) \in SUBSET RoleNames
      /\ Completed(u, roles[u] \ {name}) \cap GlobalRoles \subseteq roles[u]
  BY <1>1, CompletedRoles
<1>3. roles' \in [Users -> SUBSET RoleNames]
      /\ \A v \in Users : roles'[v] \cap GlobalRoles \subseteq roles[v]
  BY <1>1, <1>2 DEF RemoveRole
<1>4. QED
  BY <1>1, <1>3, RolesChangeInv DEF RemoveRole

LEMMA AssignCommitInv ==
  ASSUME MembershipIInv, NEW a \in Actors, AssignCommit(a)
  PROVE  MembershipIInv'
<1> DEFINE r == request[a]
           next == Completed(r.target, (r.current \ r.managed) \cup r.wanted)
<1>1. roles \in [Users -> SUBSET RoleNames] /\ inTeam \in [Groups -> [Users -> BOOLEAN]]
      /\ request = [b \in Actors |-> request[b]]
  BY DEF MembershipIInv, MembershipTypeOK, Shape
<1>2. /\ r.op = "assign" /\ r.target \in Users
      /\ r.wanted \subseteq RoleNames /\ r.current \subseteq RoleNames
  BY RequestFields DEF AssignCommit, MembershipIInv, RequestOps
<1>3. Operational(r.target)
  BY <1>2 DEF MembershipIInv, RequestsStand
<1>4. next \in SUBSET RoleNames
  BY <1>2, CompletedRoles
<1>5. roles' = [u \in Users |->
               IF u = r.target THEN (roles[u] \ (r.managed \ next)) \cup next
                               ELSE roles[u] \ (r.wanted \cap Exclusive)]
  BY DEF AssignCommit
<1> HIDE DEF next
<1>6. roles' \in [Users -> SUBSET RoleNames]
      /\ \A v \in Users : roles'[v] \cap GlobalRoles \subseteq roles[v] \/ Operational(v)
  BY <1>1, <1>3, <1>4, <1>5
<1>7. request' = [request EXCEPT ![a] = Idle]
      /\ UNCHANGED <<status, profile, position, inTeam>>
  BY DEF AssignCommit
<1>8. /\ \A b \in Actors : request'[b] = Idle \/ request'[b] = request[b]
      /\ request' = [b \in Actors |-> request'[b]]
  BY <1>1, <1>7
<1>9. QED
  BY <1>1, <1>6, <1>7, <1>8, RolesChangeInv

----------------------------------------------------------------------------
(* Teams *)

\* A removal gives or takes a responsibility of a team, never a global one.
LEMMA LeaveCommitInv ==
  ASSUME MembershipIInv, NEW a \in Actors, LeaveCommit(a)
  PROVE  MembershipIInv'
<1> DEFINE r == request[a]
           u == r.user
           fails == (r.gain /\ r.role \in roles[u]) \/ (r.lose /\ r.role \notin roles[u])
<1>1. roles \in [Users -> SUBSET RoleNames] /\ inTeam \in [Groups -> [Users -> BOOLEAN]]
      /\ request = [b \in Actors |-> request[b]]
  BY DEF MembershipIInv, MembershipTypeOK, Shape
<1>2. r.op = "leave" /\ u \in Users /\ r.group \in Groups
  BY RequestFields DEF LeaveCommit, MembershipIInv
<1>3. r.gain => r.role \in RoleNames \ GlobalRoles
  <2>1. r.gain => \E g \in Groups : r.role \in Leading(g)
    BY <1>2 DEF MembershipIInv, RequestsStand, ScopedRoles
  <2>2. QED
    BY <2>1, RoleFacts
<1>4. /\ inTeam' = IF fails THEN inTeam ELSE [inTeam EXCEPT ![r.group][u] = FALSE]
      /\ roles' = IF fails THEN roles
                  ELSE [roles EXCEPT ![u] =
                           IF r.gain THEN roles[u] \cup {r.role}
                           ELSE IF r.lose THEN roles[u] \ {r.role} ELSE roles[u]]
      /\ request' = [request EXCEPT ![a] = Idle]
      /\ UNCHANGED <<status, profile, position>>
  BY DEF LeaveCommit
<1> HIDE DEF fails
<1>5. roles' \in [Users -> SUBSET RoleNames]
      /\ \A v \in Users : roles'[v] \cap GlobalRoles \subseteq roles[v]
  BY <1>1, <1>2, <1>3, <1>4
<1>6. inTeam' \in [Groups -> [Users -> BOOLEAN]]
      /\ \A g \in Groups, v \in Users : inTeam'[g][v] => inTeam[g][v]
  <2>1. CASE fails
    BY <1>1, <1>4, <2>1
  <2>2. CASE ~fails
    <3>1. inTeam' = [inTeam EXCEPT ![r.group][u] = FALSE]
      BY <1>4, <2>2
    <3>2. \A g \in Groups : inTeam'[g] = IF g = r.group THEN [inTeam[g] EXCEPT ![u] = FALSE]
                                         ELSE inTeam[g]
      BY <1>1, <1>2, <3>1
    <3>3. QED
      BY <1>1, <1>2, <3>1, <3>2
  <2>3. QED
    BY <2>1, <2>2
<1>7. /\ \A b \in Actors : request'[b] = Idle \/ request'[b] = request[b]
      /\ request' = [b \in Actors |-> request'[b]]
  BY <1>1, <1>4
<1>8. QED
  BY <1>4, <1>5, <1>6, <1>7, RolesChangeInv

\* The roles of who follows a position change by that role alone.
LEMMA SyncedRoles ==
  ASSUME NEW held \in SUBSET RoleNames, NEW g \in Groups, NEW role \in Leading(g),
         NEW found
  PROVE  /\ Synced(held, role, found) \in SUBSET RoleNames
         /\ Synced(held, role, found) \cap GlobalRoles \subseteq held
BY RoleFacts DEF Synced

\* A member who is named becomes the only leader at the position, and is operational.
LEMMA AssignMemberInv ==
  ASSUME MembershipIInv, NEW a \in Actors, NEW g \in Groups, NEW u \in Users,
         NEW p \in Positions(g), NEW flushed \in BOOLEAN, AssignMember(a, g, u, p, flushed)
  PROVE  MembershipIInv'
<1> DEFINE old == position[g][u]
           replaced == Replaced(g, u, p)
           pos == [position EXCEPT ![g] = [v \in Users |->
                     IF v = u THEN p ELSE IF v \in replaced THEN "membre" ELSE position[g][v]]]
           team == [inTeam EXCEPT ![g][u] = TRUE]
           seen(role) == IF flushed THEN LeadsAs(u, role, pos, team)
                                    ELSE LeadsAs(u, role, position, inTeam)
           first == IF old \in Leading(g) THEN Synced(roles[u], old, seen(old)) ELSE roles[u]
           second == IF p \in Leading(g) THEN Synced(first, p, seen(p)) ELSE first
<1>1. /\ roles \in [Users -> SUBSET RoleNames]
      /\ position \in [Groups -> [Users -> (UNION {Positions(h) : h \in Groups}) \cup {"none"}]]
      /\ \A h \in Groups : position[h] \in [Users -> Positions(h) \cup {"none"}]
      /\ inTeam \in [Groups -> [Users -> BOOLEAN]]
  BY DEF MembershipIInv, MembershipTypeOK, Shape
<1>2. /\ Operational(u)
      /\ position' = pos /\ inTeam' = team
      /\ roles' = [v \in Users |->
             IF v = u THEN second
             ELSE IF v \in replaced THEN Synced(roles[v], p, LeadsAs(v, p, position, inTeam))
             ELSE roles[v]]
      /\ UNCHANGED <<status, profile, request>>
  BY DEF AssignMember, MayAssign
<1>3. first \in SUBSET RoleNames /\ first \cap GlobalRoles \subseteq roles[u]
  BY <1>1, SyncedRoles
<1>4. second \in SUBSET RoleNames /\ second \cap GlobalRoles \subseteq roles[u]
  <2> HIDE DEF first
  <2>1. QED
    BY <1>3, SyncedRoles
<1>5. \A v \in replaced : p \in Leading(g) /\ v \in Users \ {u}
  BY DEF Replaced
<1>6. /\ roles' \in [Users -> SUBSET RoleNames]
      /\ \A v \in Users : roles'[v] \cap GlobalRoles \subseteq roles[v]
  <2>1. \A v \in replaced :
           /\ Synced(roles[v], p, LeadsAs(v, p, position, inTeam)) \in SUBSET RoleNames
           /\ Synced(roles[v], p, LeadsAs(v, p, position, inTeam)) \cap GlobalRoles
                \subseteq roles[v]
    BY <1>1, <1>5, SyncedRoles
  <2> HIDE DEF second, replaced
  <2>2. QED
    BY <1>1, <1>2, <1>4, <2>1
<1>7. /\ position' = [h \in Groups |-> position'[h]]
      /\ position'[g] = [v \in Users |-> IF v = u THEN p ELSE
                                         IF v \in replaced THEN "membre" ELSE position[g][v]]
      /\ \A h \in Groups \ {g} : position'[h] = position[h]
  BY <1>1, <1>2
<1>8. /\ inTeam' \in [Groups -> [Users -> BOOLEAN]]
      /\ \A h \in Groups, v \in Users : inTeam'[h][v] <=> inTeam[h][v] \/ (h = g /\ v = u)
  <2>1. inTeam' = [inTeam EXCEPT ![g] = [inTeam[g] EXCEPT ![u] = TRUE]]
    BY <1>2
  <2>2. inTeam[g] \in [Users -> BOOLEAN]
    BY <1>1
  <2>3. [inTeam[g] EXCEPT ![u] = TRUE] \in [Users -> BOOLEAN]
    BY <2>2
  <2>4. inTeam' \in [Groups -> [Users -> BOOLEAN]]
    BY <1>1, <2>1, <2>3
  <2>5. \A h \in Groups : inTeam'[h] = IF h = g THEN [inTeam[g] EXCEPT ![u] = TRUE]
                                       ELSE inTeam[h]
    BY <1>1, <2>1
  <2>6. \A v \in Users : [inTeam[g] EXCEPT ![u] = TRUE][v] <=> inTeam[g][v] \/ v = u
    BY <2>2, Zenon
  <2>7. QED
    BY <2>4, <2>5, <2>6
<1> HIDE DEF pos, team, second, replaced
<1>9. MembershipTypeOK' /\ Shape'
  <2>1. position'[g] \in [Users -> Positions(g) \cup {"none"}]
    BY <1>1, <1>7, PositionFacts
  <2>2. \A h \in Groups : position'[h] \in [Users -> Positions(h) \cup {"none"}]
    BY <1>1, <1>7, <2>1
  <2>3. position' \in [Groups -> [Users -> (UNION {Positions(h) : h \in Groups}) \cup {"none"}]]
    <3>1. \A h \in Groups :
             position'[h] \in [Users -> (UNION {Positions(x) : x \in Groups}) \cup {"none"}]
      BY <2>2
    <3>2. QED
      BY <1>7, <3>1
  <2>4. QED
    BY <1>2, <1>6, <1>8, <2>2, <2>3 DEF MembershipIInv, MembershipTypeOK, Shape
<1>10. RequestsStand' /\ ProfileFollowsStatus'
  BY <1>2 DEF MembershipIInv, RequestsStand, ProfileFollowsStatus, Operational
<1>11. OnlyActiveMembersServe'
  BY <1>2, <1>6, <1>8 DEF MembershipIInv, OnlyActiveMembersServe, Operational
<1>12. OneLeaderPerPosition'
  <2> SUFFICES ASSUME NEW h \in Groups, NEW v \in Users, NEW w \in Users,
                      inTeam'[h][v], inTeam'[h][w], position'[h][v] = position'[h][w],
                      position'[h][v] \in Leading(h)
               PROVE  v = w
    BY DEF OneLeaderPerPosition
  <2>1. CASE h # g
    BY <1>7, <1>8, <2>1 DEF MembershipIInv, OneLeaderPerPosition
  <2>2. CASE h = g
    <3>1. \A x \in Users \ {u} : position'[g][x] \in Leading(g) /\ inTeam'[g][x] =>
             /\ position'[g][x] = position[g][x] /\ inTeam[g][x] /\ x \notin replaced
      BY <1>7, <1>8, PositionFacts
    <3>2. \A x \in Users \ {u} : position'[g][x] \in Leading(g) /\ inTeam'[g][x] =>
             position'[g][x] # p
      BY <3>1 DEF replaced, Replaced
    <3>3. position'[g][u] = p
      BY <1>7
    <3>4. QED
      BY <2>2, <3>1, <3>2, <3>3 DEF MembershipIInv, OneLeaderPerPosition
  <2>3. QED
    BY <2>1, <2>2
<1>13. QED
  BY <1>9, <1>10, <1>11, <1>12 DEF MembershipIInv

----------------------------------------------------------------------------
(* The specification *)

LEMMA MembershipInitInv == Init => MembershipIInv
<1>1. ASSUME Init PROVE MembershipIInv
  <2>1. MembershipTypeOK /\ Shape
    BY <1>1 DEF Init, MembershipTypeOK, Shape
  <2>2. RequestsStand
    BY <1>1, MembershipAssumption DEF Init, RequestsStand, RequestOps
  <2>3. ProfileFollowsStatus /\ OnlyActiveMembersServe /\ OneLeaderPerPosition
    BY <1>1 DEF Init, ProfileFollowsStatus, OnlyActiveMembersServe, OneLeaderPerPosition
  <2>4. QED
    BY <2>1, <2>2, <2>3 DEF MembershipIInv
<1>2. QED
  BY <1>1

LEMMA MembershipStepInv == MembershipIInv /\ [Next]_vars => MembershipIInv'
<1> SUFFICES ASSUME MembershipIInv, [Next]_vars PROVE MembershipIInv'
  OBVIOUS
<1>1. CASE \E u \in Users : Bootstrap(u) \/ \E p \in {"enacteur", "alumni"} : CreateJoinRequest(u, p)
  BY <1>1, BootstrapInv, JoinInv
<1>2. ASSUME NEW a \in Actors, NEW u \in Users,
             \E p \in {"enacteur", "alumni"} : CreateUser(a, u, p)
      PROVE  MembershipIInv'
  BY <1>2, JoinInv DEF CreateUser
<1>3. ASSUME NEW a \in Actors, NEW u \in Users,
             ApproveUser(a, u) \/ RejectUser(a, u) \/ ReactivateUser(a, u) \/ MakeAlumni(a, u)
      PROVE  MembershipIInv'
  BY <1>3, LifecycleActionsInv
<1>4. ASSUME NEW a \in Actors, NEW u \in Users,
             \/ SuspendRead(a, u)
             \/ \E wanted \in Wanted : AssignRead(a, u, wanted)
             \/ \E g \in Groups : LeaveRead(a, g, u)
      PROVE  MembershipIInv'
  BY <1>4, ReadsInv
<1>5. ASSUME NEW a \in Actors, NEW u \in Users, \E name \in GlobalRoles : RemoveRole(a, u, name)
      PROVE  MembershipIInv'
  BY <1>5, RemoveRoleInv
<1>6. ASSUME NEW a \in Actors, NEW u \in Users, NEW g \in Groups,
             \E p \in Positions(g) \cap Named, flushed \in BOOLEAN :
                AssignMember(a, g, u, p, flushed)
      PROVE  MembershipIInv'
  BY <1>6, AssignMemberInv
<1>7. ASSUME NEW a \in Actors, SuspendCommit(a) \/ AssignCommit(a) \/ LeaveCommit(a)
      PROVE  MembershipIInv'
  BY <1>7, SuspendCommitInv, AssignCommitInv, LeaveCommitInv
<1>8. CASE UNCHANGED vars
  BY <1>8 DEF vars, MembershipIInv, MembershipTypeOK, Shape, RequestsStand, ProfileFollowsStatus,
              OnlyActiveMembersServe, OneLeaderPerPosition, Operational
<1>9. QED
  BY <1>1, <1>2, <1>3, <1>4, <1>5, <1>6, <1>7, <1>8 DEF Next

\* Who is in a team or holds a global responsibility is an active operational member,
\* and a group has one leader at a position at most, whatever requests overlap.
THEOREM MembersServe == Spec => []MembershipInv
<1>1. MembershipIInv => MembershipInv
  BY DEF MembershipIInv, MembershipInv
<1>2. QED
  BY <1>1, MembershipInitInv, MembershipStepInv, PTL DEF Spec

----------------------------------------------------------------------------
(* The lifecycle goes one way *)

\* What LifecycleIsOneWay says of one member.
OneWay(u) ==
    /\ status[u] = "alumni" => status'[u] \in {"alumni", "suspended"}
    /\ status[u] # "none" /\ profile[u] = "alumni"
          => status'[u] # "active" /\ profile'[u] = "alumni"
    /\ status[u] = "rejected" => status'[u] = "rejected"

LEMMA SameLifecycle ==
  ASSUME MembershipIInv, NEW u \in Users,
         status'[u] = status[u] /\ profile'[u] = profile[u]
  PROVE  OneWay(u)
BY DEF OneWay, MembershipIInv, ProfileFollowsStatus

LEMMA ReconciledOneWay ==
  ASSUME MembershipIInv, NEW u \in Users,
         NEW l \in {"active", "suspended", "rejected", "alumni"},
         ReconcileLifecycle(u, l),
         status[u] # "rejected",
         status[u] = "alumni" => l = "suspended",
         l = "active" => profile[u] # "alumni",
         NEW v \in Users
  PROVE  OneWay(v)
<1>1. /\ status' = [status EXCEPT ![u] = l]
      /\ profile' = [profile EXCEPT ![u] = IF l = "alumni" THEN "alumni" ELSE profile[u]]
      /\ status \in [Users -> {"none", "pending", "active", "suspended", "rejected", "alumni"}]
      /\ profile \in [Users -> {"enacteur", "alumni"}]
  BY ReconciledRows DEF MembershipIInv, MembershipTypeOK
<1>2. CASE v = u
  BY <1>1, <1>2 DEF OneWay
<1>3. CASE v # u
  BY <1>1, <1>3, SameLifecycle
<1>4. QED
  BY <1>2, <1>3

LEMMA OneWayStep ==
  ASSUME MembershipIInv, Next, NEW v \in Users
  PROVE  OneWay(v)
<1>0. /\ status \in [Users -> {"none", "pending", "active", "suspended", "rejected", "alumni"}]
      /\ profile \in [Users -> {"enacteur", "alumni"}]
  BY DEF MembershipIInv, MembershipTypeOK
<1>1. ASSUME NEW u \in Users, status[u] = "none",
             \A w \in Users \ {u} : status'[w] = status[w] /\ profile'[w] = profile[w]
      PROVE  OneWay(v)
  <2>1. CASE v = u
    BY <1>1, <2>1 DEF OneWay
  <2>2. CASE v # u
    BY <1>1, <2>2, SameLifecycle
  <2>3. QED
    BY <2>1, <2>2
<1>2. ASSUME NEW u \in Users,
             Bootstrap(u) \/ \E p \in {"enacteur", "alumni"} : CreateJoinRequest(u, p)
      PROVE  OneWay(v)
  <2>1. status[u] = "none" /\ \A w \in Users \ {u} :
            status'[w] = status[w] /\ profile'[w] = profile[w]
    BY <1>0, <1>2 DEF Bootstrap, CreateJoinRequest
  <2>2. QED
    BY <1>1, <2>1
<1>3. ASSUME NEW a \in Actors, NEW u \in Users,
             ApproveUser(a, u) \/ RejectUser(a, u) \/ ReactivateUser(a, u) \/ MakeAlumni(a, u)
      PROVE  OneWay(v)
  <2>1. PICK l \in {"active", "rejected", "alumni"} :
          /\ ReconcileLifecycle(u, l)
          /\ l = "active" => profile[u] # "alumni"
    BY <1>3 DEF ApproveUser, RejectUser, ReactivateUser, MakeAlumni, LifecycleOf
  <2>2. status[u] \notin {"rejected", "alumni"}
    BY <1>3 DEF ApproveUser, RejectUser, ReactivateUser, MakeAlumni, Operational
  <2>3. QED
    BY <2>1, <2>2, ReconciledOneWay
<1>4. ASSUME NEW a \in Actors, SuspendCommit(a) PROVE OneWay(v)
  <2>1. request[a].target \in Users /\ status[request[a].target] \in {"active", "alumni"}
    BY <1>4, RequestFields DEF SuspendCommit, MembershipIInv, RequestsStand, RequestOps
  <2>2. QED
    BY <1>4, <2>1, ReconciledOneWay DEF SuspendCommit
<1>5. CASE UNCHANGED <<status, profile>>
  BY <1>5, SameLifecycle
<1>6. ASSUME NEW a \in Actors, NEW u \in Users,
             \/ SuspendRead(a, u)
             \/ \E wanted \in Wanted : AssignRead(a, u, wanted)
             \/ \E name \in GlobalRoles : RemoveRole(a, u, name)
             \/ \E g \in Groups : LeaveRead(a, g, u)
      PROVE  UNCHANGED <<status, profile>>
  <2>1. CASE SuspendRead(a, u) \/ \E wanted \in Wanted : AssignRead(a, u, wanted)
    BY <2>1 DEF SuspendRead, AssignRead
  <2>2. CASE \E name \in GlobalRoles : RemoveRole(a, u, name)
    BY <2>2 DEF RemoveRole
  <2>3. ASSUME NEW g \in Groups, LeaveRead(a, g, u) PROVE UNCHANGED <<status, profile>>
    BY <2>3 DEF LeaveRead
  <2>4. QED
    BY <1>6, <2>1, <2>2, <2>3
<1>7. ASSUME NEW a \in Actors, NEW u \in Users, NEW g \in Groups,
              \E p \in Positions(g) \cap Named, flushed \in BOOLEAN :
                 AssignMember(a, g, u, p, flushed)
       PROVE  UNCHANGED <<status, profile>>
  <2>1. ASSUME NEW p, NEW flushed, AssignMember(a, g, u, p, flushed)
        PROVE  UNCHANGED <<status, profile>>
    BY <2>1 DEF AssignMember
  <2>2. QED
    BY <1>7, <2>1
<1>8. ASSUME NEW a \in Actors, AssignCommit(a) \/ LeaveCommit(a)
      PROVE  UNCHANGED <<status, profile>>
  BY <1>8 DEF AssignCommit, LeaveCommit
<1>9. ASSUME NEW a \in Actors, NEW u \in Users, \E p \in {"enacteur", "alumni"} : CreateUser(a, u, p)
      PROVE  OneWay(v)
  BY <1>2, <1>9 DEF CreateUser
<1>10. QED
  BY <1>2, <1>3, <1>4, <1>5, <1>6, <1>7, <1>8, <1>9 DEF Next

\* An Alumni stays one through suspension and reactivation, and a rejected request is
\* never revived: suspend_user acts on what it read under the lock of its target.
THEOREM MembersLifecycle == Spec => LifecycleIsOneWay
<1>1. MembershipIInv /\ [Next]_vars =>
        [\A u \in Users :
          /\ status[u] = "alumni" => status'[u] \in {"alumni", "suspended"}
          /\ status[u] # "none" /\ profile[u] = "alumni"
                => status'[u] # "active" /\ profile'[u] = "alumni"
          /\ status[u] = "rejected" => status'[u] = "rejected"]_vars
  BY OneWayStep DEF OneWay
<1>2. QED
  BY <1>1, MembershipInitInv, MembershipStepInv, PTL DEF Spec, LifecycleIsOneWay
=============================================================================
