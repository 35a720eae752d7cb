-------------------------- MODULE PushOutboxProofs --------------------------
(***************************************************************************)
(* Theorems about PushOutbox, for any number of members, devices, tokens,  *)
(* notifications and workers.  The inductive invariant is PushInv; the     *)
(* handlers of members keep it by one argument (MemberStep_Keeps): they    *)
(* wait for their user's lock, so no worker is at a delivery of that user, *)
(* and what they write concerns that user's devices only.                  *)
(***************************************************************************)
EXTENDS PushOutbox, TLAPS, FiniteSetTheorems, SequenceTheorems

----------------------------------------------------------------------------
(* Types *)

LEMMA DeliveryParts ==
  ASSUME NEW d \in Deliveries
  PROVE  NoteOf(d) \in Notes /\ DeviceOf(d) \in Installations /\ TokenOf(d) \in Tokens
         /\ UserOf(d) \in Users
BY PushAssumption DEF Deliveries, NoteOf, DeviceOf, TokenOf, UserOf

\* A busy worker is at a delivery.
LEMMA CurrentType ==
  ASSUME TypeOK, NEW w \in Workers, worker[w].batch # <<>>
  PROVE  Current(w) \in Deliveries
<1>1. worker[w].batch \in Seq(Deliveries)
  BY DEF TypeOK, Worker
<1>2. QED
  BY <1>1 DEF Current

LEMMA InFlightType ==
  ASSUME TypeOK, WorkersHoldTheirRows, NEW w \in InFlight
  PROVE  w \in Workers /\ Current(w) \in Deliveries
BY CurrentType DEF InFlight, WorkersHoldTheirRows

\* Cancelling touches what waits and nothing else.
LEMMA CancelledRows ==
  ASSUME TypeOK, NEW ds
  PROVE  /\ Cancelled(ds) \in [Deliveries -> Delivery]
         /\ \A d \in Deliveries :
              /\ Cancelled(ds)[d].attempts = delivery[d].attempts
              /\ d \notin ds \/ delivery[d].status \notin Unsent
                   => Cancelled(ds)[d] = delivery[d]
              /\ d \in ds => Cancelled(ds)[d].status \notin Unsent
              /\ Cancelled(ds)[d].status = "absent" <=> delivery[d].status = "absent"
              /\ Cancelled(ds)[d].status = "sent" <=> delivery[d].status = "sent"
<1>1. \A d \in Deliveries : delivery[d] \in Delivery
  BY DEF TypeOK
<1>2. QED
  BY <1>1 DEF Cancelled, Delivery, Unsent, Terminal

\* A step that neither answers nor loses an answer, and keeps what was attempted.
LEMMA SameAnswers ==
  ASSUME PushInv, UNCHANGED <<lost, crashes>>,
         \A d \in Deliveries : delivery'[d].status # "absent" =>
           /\ delivery[d].status # "absent"
           /\ delivery'[d].status = "sent" <=> delivery[d].status = "sent"
           /\ delivery'[d].attempts = delivery[d].attempts
  PROVE  AnswersCounted'
BY DEF PushInv, AnswersCounted

LEMMA ClearedRows ==
  ASSUME TypeOK, NEW I, NEW revoke \in BOOLEAN
  PROVE  /\ Cleared(I, revoke) \in [Installations -> Device]
         /\ \A i \in Installations :
              /\ i \in I => Cleared(I, revoke)[i].token = "none"
              /\ i \notin I => Cleared(I, revoke)[i] = device[i]
              /\ Cleared(I, revoke)[i].known = device[i].known
              /\ device[i].revoked => Cleared(I, revoke)[i].revoked
<1>1. \A i \in Installations : device[i] \in Device
  BY DEF TypeOK
<1>2. QED
  BY <1>1 DEF Cleared, Device

LEMMA ClearedTokens ==
  ASSUME TypeOK, TokensUnique, NEW I, NEW revoke \in BOOLEAN,
         device' = Cleared(I, revoke)
  PROVE  TokensUnique'
<1> SUFFICES ASSUME NEW i \in Installations, NEW j \in Installations,
                    device'[i].token = device'[j].token, device'[i].token # "none"
             PROVE  i = j
  BY DEF TokensUnique
<1>1. i \notin I /\ j \notin I /\ device'[i] = device[i] /\ device'[j] = device[j]
  BY ClearedRows
<1>2. QED
  BY <1>1 DEF TokensUnique

----------------------------------------------------------------------------
(* The handlers of members *)

\* What a handler that holds the lock of u writes: its user's rows and nobody
\* else's; deliveries are cancelled, never changed otherwise; and those that
\* still wait can still be pushed.
LEMMA HandlerKeeps ==
  ASSUME PushInv, NEW u \in Users, UserFree(u), NEW ds \in SUBSET Deliveries,
         session' \in [Sessions -> {"absent", "live", "revoked"}],
         admitted' \subseteq Sessions,
         enabled' \in [Users -> BOOLEAN],
         device' \in [Installations -> Device],
         UNCHANGED <<switchedOn, note, workerVars>>,
         delivery' = Cancelled(ds),
         \A d \in ds : UserOf(d) = u,
         \A v \in Users : v # u => enabled'[v] = enabled[v],
         \A i \in Installations : Holder[i] # u => device'[i] = device[i],
         TokensUnique',
         \A d \in Deliveries : UserOf(d) = u /\ d \notin ds /\ delivery[d].status \in Unsent
           => Reachable(d)'
  PROVE  PushInv'
<1>1. TypeOK /\ WorkersHoldTheirRows
  BY DEF PushInv
<1>2. TypeOK'
  BY <1>1, CancelledRows DEF TypeOK, workerVars
<1>3. \A d \in Deliveries : UserOf(d) # u /\ Reachable(d) => Reachable(d)'
  BY DeliveryParts DEF Reachable, Active, UserOf
<1>4. UnsentReachable'
  <2> SUFFICES ASSUME NEW d \in Deliveries, delivery'[d].status \in Unsent
               PROVE  Reachable(d)'
    BY DEF UnsentReachable
  <2>1. d \notin ds
    BY <1>1, CancelledRows
  <2>2. delivery[d].status \in Unsent
    BY <1>1, <2>1, CancelledRows
  <2>3. Reachable(d)
    BY <2>2 DEF PushInv, UnsentReachable
  <2>4. QED
    BY <1>3, <2>1, <2>2, <2>3
<1>5. /\ InFlight' = InFlight
      /\ \A w \in Workers : Current(w)' = Current(w)
  BY DEF InFlight, Current, workerVars
<1>6. \A w \in InFlight : /\ UserOf(Current(w)) # u
                          /\ w \in Workers /\ Current(w) \in Deliveries
                          /\ delivery'[Current(w)] = delivery[Current(w)]
  <2> SUFFICES ASSUME NEW w \in InFlight
               PROVE  /\ UserOf(Current(w)) # u
                      /\ w \in Workers /\ Current(w) \in Deliveries
                      /\ delivery'[Current(w)] = delivery[Current(w)]
    OBVIOUS
  <2>1. UserOf(Current(w)) # u
    BY DEF UserFree
  <2>2. w \in Workers /\ Current(w) \in Deliveries
    BY <1>1, InFlightType
  <2>3. QED
    BY <1>1, <2>1, <2>2, CancelledRows
<1>7. SendsFenced'
  BY <1>3, <1>5, <1>6 DEF PushInv, SendsFenced
<1>8. AttemptsLeft'
  <2> SUFFICES ASSUME NEW d \in Deliveries, delivery'[d].status \in Unsent
               PROVE  delivery'[d].attempts < MaxAttempts
    BY DEF AttemptsLeft
  <2>1. delivery'[d] = delivery[d]
    BY <1>1, CancelledRows
  <2>2. QED
    BY <2>1 DEF PushInv, AttemptsLeft
<1>9. SentAgainOnlyUnanswered'
  <2> SUFFICES ASSUME NEW d \in Deliveries, delivery'[d].status # "absent"
               PROVE  accepted'[d] = lost'[d]
                        + (IF \/ delivery'[d].status = "sent"
                              \/ \E w \in Workers : worker'[w].phase = "accepted" /\ Current(w)' = d
                             THEN 1 ELSE 0)
    BY DEF SentAgainOnlyUnanswered
  <2>1. /\ delivery[d].status # "absent"
        /\ delivery'[d].status = "sent" <=> delivery[d].status = "sent"
    BY <1>1, CancelledRows
  <2>2. QED
    BY <1>5, <2>1 DEF PushInv, SentAgainOnlyUnanswered, workerVars
<1>10. WorkersHoldTheirRows'
  BY <1>1, <1>5, <1>6 DEF WorkersHoldTheirRows, workerVars
<1>11. DeliveriesFollowNotes'
  BY <1>1, CancelledRows DEF PushInv, DeliveriesFollowNotes, workerVars
<1>12. AnswersCounted'
  BY <1>1, CancelledRows, SameAnswers DEF workerVars
<1>13. QED
  BY <1>2, <1>4, <1>7, <1>8, <1>9, <1>10, <1>11, <1>12 DEF PushInv

LEMMA NothingCancelled ==
  ASSUME TypeOK
  PROVE  Cancelled({}) = delivery
BY DEF TypeOK, Cancelled

\* Sessions, requests waiting and the deployment's switch are not in PushInv.
LEMMA OutboxUntouched ==
  ASSUME PushInv,
         session' \in [Sessions -> {"absent", "live", "revoked"}],
         admitted' \subseteq Sessions,
         switchedOn' \in BOOLEAN,
         UNCHANGED <<enabled, outboxVars, workerVars>>
  PROVE  PushInv'
<1>1. UNCHANGED <<enabled, device, note, delivery, worker, accepted, lost, crashes>>
  BY DEF outboxVars, workerVars
<1>2. TypeOK'
  BY <1>1 DEF PushInv, TypeOK
<1>3. InFlight' = InFlight /\ \A w \in Workers : Current(w)' = Current(w)
  BY <1>1 DEF InFlight, Current
<1>4. \A d : Reachable(d)' = Reachable(d)
  BY <1>1 DEF Reachable, Active
<1>5. UnsentReachable' /\ SendsFenced' /\ AttemptsLeft'
  BY <1>1, <1>3, <1>4 DEF PushInv, UnsentReachable, SendsFenced, AttemptsLeft, InFlight
<1>6. SentAgainOnlyUnanswered' /\ AnswersCounted'
  BY <1>1, <1>3 DEF PushInv, SentAgainOnlyUnanswered, AnswersCounted
<1>7. TokensUnique' /\ WorkersHoldTheirRows' /\ DeliveriesFollowNotes'
  BY <1>1, <1>3 DEF PushInv, TokensUnique, WorkersHoldTheirRows, DeliveriesFollowNotes, InFlight
<1>8. QED
  BY <1>2, <1>5, <1>6, <1>7 DEF PushInv

\* What is common to the handlers that hold their user's lock.
LEMMA ServeFields ==
  ASSUME PushInv, NEW s \in Sessions, Serve(s)
  PROVE  /\ SessionOf[s] \in Users /\ UserFree(SessionOf[s])
         /\ admitted' \subseteq Sessions
         /\ UNCHANGED <<switchedOn, workerVars>>
         /\ TypeOK /\ TokensUnique
BY PushAssumption DEF Serve, PushInv, TypeOK

\* Clearing devices of a user and cancelling all that waits for them.
LEMMA ClearKeeps ==
  ASSUME PushInv, NEW s \in Sessions, Serve(s), NEW I \in SUBSET Installations,
         NEW revoke \in BOOLEAN,
         \A i \in I : Holder[i] = SessionOf[s],
         device' = Cleared(I, revoke),
         delivery' = Cancelled(DeliveriesTo(I)),
         session' \in [Sessions -> {"absent", "live", "revoked"}],
         enabled' \in [Users -> BOOLEAN],
         \A v \in Users : v # SessionOf[s] => enabled'[v] = enabled[v],
         enabled' = enabled \/ I = DevicesOf(SessionOf[s]),
         UNCHANGED note
  PROVE  PushInv'
<1> DEFINE u == SessionOf[s]
           ds == DeliveriesTo(I)
<1>1. /\ u \in Users /\ UserFree(u) /\ admitted' \subseteq Sessions
      /\ UNCHANGED <<switchedOn, note, workerVars>>
      /\ TypeOK /\ TokensUnique
  BY ServeFields
<1>2. ds \in SUBSET Deliveries /\ \A d \in ds : UserOf(d) = u
  BY DEF DeliveriesTo, UserOf
<1>3. device' \in [Installations -> Device] /\ TokensUnique'
  BY <1>1, ClearedRows, ClearedTokens
<1>4. \A i \in Installations : i \notin I => device'[i] = device[i]
  BY <1>1, ClearedRows
<1>5. ASSUME NEW d \in Deliveries, UserOf(d) = u, d \notin ds, delivery[d].status \in Unsent
      PROVE  Reachable(d)'
  <2>1. DeviceOf(d) \notin I /\ DeviceOf(d) \in Installations
    BY <1>5, DeliveryParts DEF DeliveriesTo
  <2>2. enabled' = enabled
    BY <1>5, <2>1 DEF DevicesOf, UserOf
  <2>3. Reachable(d)
    BY <1>5 DEF PushInv, UnsentReachable
  <2>4. QED
    BY <1>4, <2>1, <2>2, <2>3 DEF Reachable, Active
<1>6. \A i \in Installations : Holder[i] # u => device'[i] = device[i]
  BY <1>4
<1> HIDE DEF u, ds
<1>7. delivery' = Cancelled(ds) /\ \A v \in Users : v # u => enabled'[v] = enabled[v]
  BY DEF u, ds
<1>8. QED
  BY <1>1, <1>2, <1>3, <1>5, <1>6, <1>7, HandlerKeeps

LEMMA RegisterInstallationStep ==
  ASSUME PushInv, NEW s \in Sessions, NEW i \in Installations, RegisterInstallation(s, i)
  PROVE  PushInv'
<1> DEFINE u == SessionOf[s]
           ds == IF device[i].revoked THEN DeliveriesTo({i}) ELSE {}
           row == [known |-> TRUE, revoked |-> FALSE,
                   token |-> IF device[i].revoked THEN "none" ELSE device[i].token]
<1>1. /\ Serve(s) /\ Holder[i] = u
      /\ device' = [device EXCEPT ![i] = row]
      /\ UNCHANGED <<session, enabled, note>>
  BY DEF RegisterInstallation
<1>2. /\ u \in Users /\ UserFree(u) /\ admitted' \subseteq Sessions
      /\ UNCHANGED <<switchedOn, note, workerVars>>
      /\ TypeOK /\ TokensUnique
  BY <1>1, ServeFields
<1>3. delivery' = Cancelled(ds)
  BY <1>2, NothingCancelled DEF RegisterInstallation
<1>4. ds \in SUBSET Deliveries /\ \A d \in ds : UserOf(d) = u
  BY <1>1 DEF DeliveriesTo, UserOf
<1>5. device[i] \in Device
  BY <1>2 DEF TypeOK
<1>6. row \in Device /\ (row.token = device[i].token \/ row.token = "none")
  BY <1>5 DEF Device
<1>7. /\ device' \in [Installations -> Device]
      /\ \A j \in Installations : j # i => device'[j] = device[j]
      /\ device'[i] = row
  BY <1>1, <1>2, <1>6 DEF TypeOK
<1>8. TokensUnique'
  BY <1>2, <1>6, <1>7 DEF TokensUnique
<1>9. ASSUME NEW d \in Deliveries, UserOf(d) = u, d \notin ds, delivery[d].status \in Unsent
      PROVE  Reachable(d)'
  <2>1. Reachable(d) /\ DeviceOf(d) \in Installations
    BY <1>9, DeliveryParts DEF PushInv, UnsentReachable
  <2>2. CASE DeviceOf(d) = i
    <3>1. ~device[i].revoked
      BY <1>9, <2>2 DEF DeliveriesTo
    <3>2. QED
      BY <1>1, <1>7, <2>1, <2>2, <3>1 DEF Reachable, Active
  <2>3. CASE DeviceOf(d) # i
    BY <1>1, <1>7, <2>1, <2>3 DEF Reachable, Active
  <2>4. QED
    BY <2>2, <2>3
<1>10. \A j \in Installations : Holder[j] # u => device'[j] = device[j]
  BY <1>1, <1>7
<1>11. /\ session' \in [Sessions -> {"absent", "live", "revoked"}]
       /\ enabled' \in [Users -> BOOLEAN] /\ enabled' = enabled
  BY <1>1, <1>2 DEF TypeOK
<1> HIDE DEF u, ds, row
<1>12. QED
  BY <1>2, <1>3, <1>4, <1>7, <1>8, <1>9, <1>10, <1>11, HandlerKeeps

LEMMA RegisterTokenStep ==
  ASSUME PushInv, NEW s \in Sessions, NEW i \in Installations, NEW token \in Tokens,
         NEW enable \in BOOLEAN, RegisterToken(s, i, token, enable)
  PROVE  PushInv'
<1> DEFINE u == SessionOf[s]
           ds == {d \in DeliveriesTo({i}) : TokenOf(d) = device[i].token /\ TokenOf(d) # token}
<1>1. /\ Serve(s) /\ Holder[i] = u
      /\ \A j \in Installations \ {i} : device[j].token # token
      /\ enabled' = [enabled EXCEPT ![u] = TRUE]
      /\ device' = [device EXCEPT ![i].token = token]
      /\ delivery' = Cancelled(ds)
      /\ UNCHANGED <<session, note>>
  BY DEF RegisterToken
<1>2. /\ u \in Users /\ UserFree(u) /\ admitted' \subseteq Sessions
      /\ UNCHANGED <<switchedOn, note, workerVars>>
      /\ TypeOK /\ TokensUnique
  BY <1>1, ServeFields
<1>3. ds \in SUBSET Deliveries /\ \A d \in ds : UserOf(d) = u
  BY <1>1 DEF DeliveriesTo, UserOf
<1>4. /\ device' \in [Installations -> Device]
      /\ \A j \in Installations : j # i => device'[j] = device[j]
      /\ device'[i].token = token /\ device'[i].known = device[i].known
      /\ device'[i].revoked = device[i].revoked
  BY <1>1, <1>2 DEF TypeOK, Device
<1>5. TokensUnique'
  BY <1>1, <1>2, <1>4 DEF TokensUnique
<1>6. /\ session' \in [Sessions -> {"absent", "live", "revoked"}]
      /\ enabled' \in [Users -> BOOLEAN] /\ enabled'[u]
      /\ \A v \in Users : v # u => enabled'[v] = enabled[v]
  BY <1>1, <1>2 DEF TypeOK
<1>7. ASSUME NEW d \in Deliveries, UserOf(d) = u, d \notin ds, delivery[d].status \in Unsent
      PROVE  Reachable(d)'
  <2>1. Reachable(d) /\ DeviceOf(d) \in Installations
    BY <1>7, DeliveryParts DEF PushInv, UnsentReachable
  <2>2. CASE DeviceOf(d) = i
    <3>1. TokenOf(d) = token
      BY <1>7, <2>1, <2>2 DEF DeliveriesTo, Reachable
    <3>2. QED
      BY <1>1, <1>4, <1>6, <1>7, <2>1, <2>2, <3>1 DEF Reachable, Active
  <2>3. CASE DeviceOf(d) # i
    BY <1>1, <1>4, <1>6, <1>7, <2>1, <2>3 DEF Reachable, Active
  <2>4. QED
    BY <2>2, <2>3
<1>8. \A j \in Installations : Holder[j] # u => device'[j] = device[j]
  BY <1>1, <1>4
<1> HIDE DEF u, ds
<1>9. QED
  BY <1>1, <1>2, <1>3, <1>4, <1>5, <1>6, <1>7, <1>8, HandlerKeeps

LEMMA EnablePushStep ==
  ASSUME PushInv, NEW s \in Sessions, EnablePush(s)
  PROVE  PushInv'
<1> DEFINE u == SessionOf[s]
<1>1. /\ Serve(s) /\ enabled' = [enabled EXCEPT ![u] = TRUE]
      /\ UNCHANGED <<session, device, note, delivery>>
  BY DEF EnablePush, outboxVars
<1>2. /\ u \in Users /\ UserFree(u) /\ admitted' \subseteq Sessions
      /\ UNCHANGED <<switchedOn, note, workerVars>>
      /\ TypeOK /\ TokensUnique
  BY <1>1, ServeFields
<1>3. /\ delivery' = Cancelled({}) /\ TokensUnique'
      /\ session' \in [Sessions -> {"absent", "live", "revoked"}]
      /\ device' \in [Installations -> Device]
  BY <1>1, <1>2, NothingCancelled DEF TypeOK, TokensUnique
<1>4. /\ enabled' \in [Users -> BOOLEAN] /\ enabled'[u]
      /\ \A v \in Users : v # u => enabled'[v] = enabled[v]
  BY <1>1, <1>2 DEF TypeOK
<1>5. ASSUME NEW d \in Deliveries, UserOf(d) = u, delivery[d].status \in Unsent
      PROVE  Reachable(d)'
  BY <1>1, <1>4, <1>5 DEF PushInv, UnsentReachable, Reachable, Active
<1> DEFINE ds == {}
<1>6. /\ ds \in SUBSET Deliveries /\ delivery' = Cancelled(ds)
      /\ \A d \in ds : UserOf(d) = u
      /\ \A i \in Installations : Holder[i] # u => device'[i] = device[i]
  BY <1>1, <1>3
<1> HIDE DEF u, ds
<1>7. QED
  BY <1>1, <1>2, <1>3, <1>4, <1>5, <1>6, HandlerKeeps

LEMMA ClearingStep ==
  ASSUME PushInv, NEW s \in Sessions,
         \/ DisablePush(s) \/ LogoutAll(s)
         \/ \E i \in Installations : RevokeInstallation(s, i) \/ DeleteToken(s, i)
  PROVE  PushInv'
<1>1. TypeOK
  BY DEF PushInv
<1>2. session \in [Sessions -> {"absent", "live", "revoked"}] /\ enabled \in [Users -> BOOLEAN]
  BY <1>1 DEF TypeOK
<1>3. ASSUME NEW i \in Installations, RevokeInstallation(s, i) PROVE PushInv'
  BY <1>2, <1>3, ClearKeeps, {i} \in SUBSET Installations DEF RevokeInstallation
<1>4. ASSUME NEW i \in Installations, DeleteToken(s, i) PROVE PushInv'
  BY <1>2, <1>4, ClearKeeps, {i} \in SUBSET Installations DEF DeleteToken
<1>5. DevicesOf(SessionOf[s]) \in SUBSET Installations
      /\ \A i \in DevicesOf(SessionOf[s]) : Holder[i] = SessionOf[s]
  BY DEF DevicesOf
<1>6. CASE DisablePush(s)
  BY <1>2, <1>5, <1>6, ClearKeeps DEF DisablePush
<1>7. CASE LogoutAll(s)
  <2>1. session' \in [Sessions -> {"absent", "live", "revoked"}]
    BY <1>2, <1>7 DEF LogoutAll
  <2>2. QED
    BY <1>2, <1>5, <1>7, <2>1, ClearKeeps DEF LogoutAll
<1>8. QED
  BY <1>3, <1>4, <1>6, <1>7

LEMMA SessionStep ==
  ASSUME PushInv, NEW s \in Sessions,
         \/ Login(s) \/ Admit(s) \/ Refused(s)
         \/ \E other \in Sessions : RevokeSession(s, other)
  PROVE  PushInv'
<1>1. session \in [Sessions -> {"absent", "live", "revoked"}]
      /\ admitted \subseteq Sessions /\ switchedOn \in BOOLEAN
  BY DEF PushInv, TypeOK
<1>2. CASE Login(s)
  BY <1>1, <1>2, OutboxUntouched DEF Login
<1>3. CASE Admit(s)
  BY <1>1, <1>3, OutboxUntouched DEF Admit
<1>4. CASE Refused(s)
  BY <1>1, <1>4, OutboxUntouched DEF Refused, Serve
<1>5. ASSUME NEW other \in Sessions, RevokeSession(s, other) PROVE PushInv'
  BY <1>1, <1>5, OutboxUntouched DEF RevokeSession, Serve
<1>6. QED
  BY <1>2, <1>3, <1>4, <1>5

----------------------------------------------------------------------------
(* Notifications *)

\* The deliveries of a notification go with it; no worker is at one of them.
LEMMA DeleteNotificationStep ==
  ASSUME PushInv, NEW s \in Sessions, NEW n \in Notes, DeleteNotification(s, n)
  PROVE  PushInv'
<1>1. TypeOK /\ WorkersHoldTheirRows /\ DeliveriesFollowNotes
  BY DEF PushInv
<1>2. /\ \A d \in Deliveries : NoteOf(d) = n => DeliveryFree(d)
      /\ admitted' = admitted \ {s}
      /\ note' = [note EXCEPT ![n] = "deleted"]
      /\ delivery' = [d \in Deliveries |-> IF NoteOf(d) = n THEN NoDelivery ELSE delivery[d]]
      /\ UNCHANGED <<session, enabled, switchedOn, device, worker, accepted, lost, crashes>>
  BY DEF DeleteNotification, workerVars
<1>3. NoDelivery \in Delivery /\ NoDelivery.status = "absent" /\ "absent" \notin Unsent
  BY PushAssumption DEF NoDelivery, Delivery, Unsent
<1>4. TypeOK'
  BY <1>1, <1>2, <1>3 DEF TypeOK
<1>5. \A d \in Deliveries : NoteOf(d) # n => /\ delivery'[d] = delivery[d]
                                             /\ note'[NoteOf(d)] = note[NoteOf(d)]
                                             /\ Reachable(d)' = Reachable(d)
  BY <1>1, <1>2, DeliveryParts DEF Reachable, Active, TypeOK
<1>6. \A d \in Deliveries : NoteOf(d) = n => /\ delivery'[d] = NoDelivery
                                             /\ note'[NoteOf(d)] = "deleted"
  BY <1>1, <1>2 DEF TypeOK
<1>7. InFlight' = InFlight /\ \A w \in Workers : Current(w)' = Current(w)
  BY <1>2 DEF InFlight, Current
<1>8. \A w \in InFlight : w \in Workers /\ Current(w) \in Deliveries /\ NoteOf(Current(w)) # n
  BY <1>1, <1>2, InFlightType DEF DeliveryFree
<1>9. UnsentReachable' /\ AttemptsLeft'
  BY <1>3, <1>5, <1>6 DEF PushInv, UnsentReachable, AttemptsLeft
<1>10. SendsFenced'
  BY <1>5, <1>7, <1>8 DEF PushInv, SendsFenced
<1>11. SentAgainOnlyUnanswered' /\ AnswersCounted'
  BY <1>2, <1>3, <1>5, <1>6, <1>7, SameAnswers DEF PushInv, SentAgainOnlyUnanswered
<1>12. WorkersHoldTheirRows'
  BY <1>1, <1>2, <1>5, <1>7, <1>8 DEF WorkersHoldTheirRows
<1>13. TokensUnique' /\ DeliveriesFollowNotes'
  BY <1>1, <1>2, <1>3, <1>5, <1>6 DEF PushInv, TokensUnique, DeliveriesFollowNotes
<1>14. QED
  BY <1>4, <1>9, <1>10, <1>11, <1>12, <1>13 DEF PushInv

\* Its deliveries are new: the notification had none.
LEMMA NotifyStep ==
  ASSUME PushInv, NEW n \in Notes, NEW u \in Users, Notify(n, u)
  PROVE  PushInv'
<1> DEFINE row == [status |-> "pending", attempts |-> 0, due |-> TRUE]
           Chosen(d) == /\ NoteOf(d) = n /\ UserOf(d) = u
                        /\ switchedOn /\ enabled[u] /\ Active(DeviceOf(d))
                        /\ device[DeviceOf(d)].token = TokenOf(d)
<1>1. TypeOK /\ WorkersHoldTheirRows /\ DeliveriesFollowNotes
  BY DEF PushInv
<1>2. /\ note[n] = "nobody"
      /\ note' = [note EXCEPT ![n] = u]
      /\ delivery' = [d \in Deliveries |-> IF Chosen(d) THEN row ELSE delivery[d]]
      /\ UNCHANGED <<session, admitted, enabled, switchedOn, device, worker, accepted, lost, crashes>>
  BY DEF Notify, memberVars, workerVars
<1>3. row \in Delivery /\ row.status = "pending" /\ row.attempts < MaxAttempts
  BY PushAssumption DEF Delivery, Unsent
<1> HIDE DEF row
<1>4. TypeOK'
  BY <1>1, <1>2, <1>3 DEF TypeOK
<1>5. \A d \in Deliveries : /\ Chosen(d) => delivery'[d] = row
                            /\ ~Chosen(d) => delivery'[d] = delivery[d]
                            /\ NoteOf(d) = n => note'[NoteOf(d)] = u
                            /\ NoteOf(d) # n => note'[NoteOf(d)] = note[NoteOf(d)]
  BY <1>1, <1>2, DeliveryParts DEF TypeOK
<1>6. \A d \in Deliveries : NoteOf(d) = n =>
        /\ delivery[d].status = "absent" /\ accepted[d] = 0 /\ lost[d] = 0
  BY <1>1, <1>2, DeliveryParts, PushAssumption DEF DeliveriesFollowNotes
<1>7. \A d \in Deliveries : NoteOf(d) # n => Reachable(d)' = Reachable(d)
  BY <1>2, <1>5 DEF Reachable, Active
<1>8. \A d \in Deliveries : Chosen(d) => Reachable(d)'
  BY <1>2, <1>5 DEF Reachable, Active
<1>9. InFlight' = InFlight /\ \A w \in Workers : Current(w)' = Current(w)
  BY <1>2 DEF InFlight, Current
<1>10. \A w \in InFlight : w \in Workers /\ Current(w) \in Deliveries /\ NoteOf(Current(w)) # n
  BY <1>1, <1>6, InFlightType DEF WorkersHoldTheirRows
<1>11. "absent" \notin Unsent
  BY DEF Unsent
<1>12. UnsentReachable' /\ AttemptsLeft'
  BY <1>3, <1>5, <1>6, <1>7, <1>8, <1>11 DEF PushInv, UnsentReachable, AttemptsLeft
<1>13. SendsFenced'
  BY <1>7, <1>9, <1>10 DEF PushInv, SendsFenced
<1>14. SentAgainOnlyUnanswered'
  <2> SUFFICES ASSUME NEW d \in Deliveries, delivery'[d].status # "absent"
               PROVE  accepted'[d] = lost'[d]
                        + (IF \/ delivery'[d].status = "sent"
                              \/ \E w \in Workers : worker'[w].phase = "accepted" /\ Current(w)' = d
                             THEN 1 ELSE 0)
    BY DEF SentAgainOnlyUnanswered
  <2>1. CASE Chosen(d)
    <3>1. ~\E w \in Workers : worker[w].phase = "accepted" /\ Current(w) = d
      BY <1>10, <2>1 DEF InFlight
    <3>2. QED
      BY <1>2, <1>3, <1>5, <1>6, <1>9, <2>1, <3>1
  <2>2. CASE ~Chosen(d)
    BY <1>2, <1>5, <1>9, <2>2 DEF PushInv, SentAgainOnlyUnanswered
  <2>3. QED
    BY <2>1, <2>2
<1>15. WorkersHoldTheirRows'
  BY <1>1, <1>2, <1>5, <1>9, <1>10 DEF WorkersHoldTheirRows
<1>16. TokensUnique' /\ DeliveriesFollowNotes'
  BY <1>1, <1>2, <1>3, <1>5, <1>6, PushAssumption DEF PushInv, TokensUnique, DeliveriesFollowNotes
<1>17. AnswersCounted'
  <2> SUFFICES ASSUME NEW d \in Deliveries, delivery'[d].status # "absent"
               PROVE  lost'[d] + (IF delivery'[d].status = "sent" THEN 1 ELSE 0)
                        <= delivery'[d].attempts + crashes'
    BY DEF AnswersCounted
  <2>1. CASE Chosen(d)
    <3>1. lost'[d] = 0 /\ delivery'[d].status = "pending" /\ delivery'[d].attempts = 0
      BY <1>2, <1>5, <1>6, <2>1 DEF row
    <3>2. crashes' \in Nat
      BY <1>4, PushAssumption DEF TypeOK
    <3>3. QED
      BY <3>1, <3>2
  <2>2. CASE ~Chosen(d)
    BY <1>2, <1>5, <2>2 DEF PushInv, AnswersCounted
  <2>3. QED
    BY <2>1, <2>2
<1>18. QED
  BY <1>4, <1>12, <1>13, <1>14, <1>15, <1>16, <1>17 DEF PushInv

----------------------------------------------------------------------------
(* The workers *)

\* The rest of a batch.
LEMMA NextInBatchType ==
  ASSUME TypeOK, NEW w \in Workers, worker[w].batch # <<>>
  PROVE  LET x == IF Len(worker[w].batch) = 1 THEN Resting
                  ELSE [phase |-> "draining", batch |-> Tail(worker[w].batch)]
         IN x \in Worker /\ x.phase \in {"idle", "draining"}
            /\ (x.phase # "idle" => x.batch # <<>>)
<1> DEFINE b == worker[w].batch
<1>1. b \in Seq(Deliveries) /\ b # <<>>
  BY DEF TypeOK, Worker
<1> HIDE DEF b
<1>2. CASE Len(b) = 1
  BY <1>2 DEF Resting, Worker, b
<1>3. CASE Len(b) # 1
  <2>1. Len(b) \in Nat \ {0}
    BY <1>1, EmptySeq, Zenon
  <2>2. Tail(b) \in Seq(Deliveries) /\ Len(Tail(b)) = Len(b) - 1
    BY <1>1, HeadTailProperties, Zenon
  <2>3. Len(Tail(b)) # 0
    BY <1>3, <2>1, <2>2
  <2>4. Tail(b) # <<>>
    BY <2>3, EmptySeq, Zenon
  <2>5. QED
    BY <1>3, <2>2, <2>4 DEF Worker, b
<1>4. QED
  BY <1>2, <1>3

\* A step after which w holds no locks.  The other workers at a delivery find it
\* as it was, and what waits afterwards waited before.
LEMMA UnlockedKeeps ==
  ASSUME PushInv, NEW w \in Workers, NEW x \in Worker,
         x.phase \in {"idle", "draining"}, x.phase # "idle" => x.batch # <<>>,
         worker' = [worker EXCEPT ![w] = x],
         UNCHANGED <<memberVars, note, accepted>>,
         delivery' \in [Deliveries -> Delivery],
         device' \in [Installations -> Device],
         lost' \in [Deliveries -> Nat], crashes' \in 0..MaxCrashes,
         TokensUnique', SentAgainOnlyUnanswered', AnswersCounted',
         \A d \in Deliveries : delivery'[d].status \in Unsent =>
           delivery'[d].attempts < MaxAttempts /\ Reachable(d)',
         \A v \in InFlight \ {w}, d \in Deliveries : d = Current(v) =>
           delivery'[d].status = "processing" /\ Reachable(d)',
         \A d \in Deliveries :
           /\ delivery[d].status = "absent" => delivery'[d].status = "absent"
           /\ delivery[d].status = "absent" => lost'[d] = lost[d]
  PROVE  PushInv'
<1>1. TypeOK /\ WorkersHoldTheirRows /\ DeliveriesFollowNotes
  BY DEF PushInv
<1>2. UNCHANGED <<session, admitted, enabled, switchedOn, note, accepted>>
  BY DEF memberVars
<1>3. TypeOK'
  BY <1>1, <1>2 DEF TypeOK
<1>4. worker'[w] = x /\ \A v \in Workers \ {w} : worker'[v] = worker[v]
  BY <1>1 DEF TypeOK
<1>5. /\ InFlight' = InFlight \ {w}
      /\ \A v \in InFlight \ {w} : Current(v)' = Current(v)
  BY <1>4 DEF InFlight, Current
<1>6. UnsentReachable' /\ AttemptsLeft'
  BY DEF UnsentReachable, AttemptsLeft
<1>7. SendsFenced'
  BY <1>1, <1>5, InFlightType DEF SendsFenced
<1>8. WorkersHoldTheirRows'
  BY <1>1, <1>4, <1>5, InFlightType DEF WorkersHoldTheirRows
<1>9. DeliveriesFollowNotes'
  <2> SUFFICES ASSUME NEW d \in Deliveries
               PROVE  /\ delivery'[d].status # "absent" => note[NoteOf(d)] = UserOf(d)
                      /\ note[NoteOf(d)] = "nobody" => accepted[d] = 0 /\ lost'[d] = 0
    BY <1>2 DEF DeliveriesFollowNotes
  <2>1. UserOf(d) # "nobody"
    BY DeliveryParts, PushAssumption
  <2>2. QED
    BY <1>1, <2>1 DEF DeliveriesFollowNotes
<1>10. QED
  BY <1>3, <1>6, <1>7, <1>8, <1>9 DEF PushInv

\* Who has handed a delivery to the provider without committing.
LEMMA OnlyOneAccepted ==
  ASSUME PushInv, NEW w \in Workers, w \in InFlight, NEW v \in Workers,
         worker[v].phase = "accepted", Current(v) = Current(w)
  PROVE  v = w
BY DEF PushInv, WorkersHoldTheirRows, InFlight

LEMMA ReachableSame ==
  ASSUME NEW d, UNCHANGED <<memberVars, device, note>>
  PROVE  Reachable(d)' = Reachable(d)
BY DEF Reachable, Active, memberVars

LEMMA IgnoreStep ==
  ASSUME PushInv, NEW w \in Workers, Ignore(w)
  PROVE  PushInv'
<1>1. TypeOK /\ WorkersHoldTheirRows
  BY DEF PushInv
<1>2. worker[w].batch # <<>>
  BY <1>1 DEF Ignore, WorkersHoldTheirRows
<1>3. PICK x \in Worker : /\ x.phase \in {"idle", "draining"}
                          /\ x.phase # "idle" => x.batch # <<>>
                          /\ worker' = [worker EXCEPT ![w] = x]
  BY <1>1, <1>2, NextInBatchType DEF Ignore, NextInBatch
<1>4. UNCHANGED <<memberVars, device, note, delivery, accepted, lost, crashes>>
      /\ worker[w].phase = "draining"
  BY DEF Ignore, outboxVars
<1>5. /\ delivery' \in [Deliveries -> Delivery] /\ device' \in [Installations -> Device]
      /\ lost' \in [Deliveries -> Nat] /\ crashes' \in 0..MaxCrashes /\ TokensUnique'
  BY <1>1, <1>4 DEF PushInv, TypeOK, TokensUnique
<1>6. \A v \in Workers : (worker'[v].phase = "accepted" <=> worker[v].phase = "accepted")
                         /\ (worker[v].phase = "accepted" => Current(v)' = Current(v))
  BY <1>1, <1>3, <1>4 DEF Current, TypeOK
<1>7. SentAgainOnlyUnanswered'
  BY <1>4, <1>6 DEF PushInv, SentAgainOnlyUnanswered
<1>8. \A d : Reachable(d)' = Reachable(d)
  BY <1>4, ReachableSame
<1>9. \A d \in Deliveries : delivery'[d].status \in Unsent =>
        delivery'[d].attempts < MaxAttempts /\ Reachable(d)'
  BY <1>4, <1>8 DEF PushInv, UnsentReachable, AttemptsLeft
<1>10. \A v \in InFlight \ {w}, d \in Deliveries : d = Current(v) =>
         delivery'[d].status = "processing" /\ Reachable(d)'
  BY <1>1, <1>4, <1>8 DEF PushInv, SendsFenced, WorkersHoldTheirRows
<1>11. \A d \in Deliveries :
         /\ delivery[d].status = "absent" => delivery'[d].status = "absent"
         /\ delivery[d].status = "absent" => lost'[d] = lost[d]
  BY <1>4
<1>12. AnswersCounted'
  BY <1>4, SameAnswers
<1>13. QED
  BY <1>3, <1>4, <1>5, <1>7, <1>9, <1>10, <1>11, <1>12, UnlockedKeeps

\* How often the provider took a delivery no worker but w is at.
LEMMA TakenSoFar ==
  ASSUME PushInv, NEW w \in Workers, NEW d \in Deliveries,
         delivery[d].status = "processing",
         \A v \in InFlight \ {w} : Current(v) # d
  PROVE  /\ worker[w].phase = "accepted" /\ Current(w) = d => accepted[d] = lost[d] + 1
         /\ worker[w].phase # "accepted" => accepted[d] = lost[d]
<1>1. accepted[d] \in Nat /\ lost[d] \in Nat
  BY DEF PushInv, TypeOK
<1>2. accepted[d] = lost[d]
        + (IF \/ delivery[d].status = "sent"
              \/ \E v \in Workers : worker[v].phase = "accepted" /\ Current(v) = d
             THEN 1 ELSE 0)
  BY DEF PushInv, SentAgainOnlyUnanswered
<1>3. \A v \in Workers \ {w} : worker[v].phase = "accepted" => Current(v) # d
  BY DEF InFlight
<1>4. QED
  BY <1>1, <1>2, <1>3

\* The worker is done with its delivery d, which was processing, and writes row;
\* an answer lost on the way was one to d.
LEMMA DoneKeeps ==
  ASSUME PushInv, NEW w \in Workers, NEW d \in Deliveries, NEW row \in Delivery,
         worker[w].batch # <<>>, d = Current(w), delivery[d].status = "processing",
         \A v \in InFlight \ {w} : Current(v) # d,
         row.status \in Unsent => row.attempts < MaxAttempts,
         lost' \in [Deliveries -> Nat],
         \A e \in Deliveries : e # d => lost'[e] = lost[e],
         accepted[d] = lost'[d] + (IF row.status = "sent" THEN 1 ELSE 0),
         lost'[d] + (IF row.status = "sent" THEN 1 ELSE 0) <= row.attempts + crashes,
         delivery' = [delivery EXCEPT ![d] = row],
         NextInBatch(w),
         UNCHANGED <<memberVars, device, note, accepted, crashes>>
  PROVE  PushInv'
<1>1. TypeOK /\ WorkersHoldTheirRows
  BY DEF PushInv
<1>2. PICK x \in Worker : /\ x.phase \in {"idle", "draining"}
                          /\ x.phase # "idle" => x.batch # <<>>
                          /\ worker' = [worker EXCEPT ![w] = x]
  BY <1>1, NextInBatchType DEF NextInBatch
<1>3. /\ delivery' \in [Deliveries -> Delivery] /\ delivery'[d] = row
      /\ \A e \in Deliveries : e # d => delivery'[e] = delivery[e]
  BY <1>1 DEF TypeOK
<1>4. /\ device' \in [Installations -> Device] /\ lost' \in [Deliveries -> Nat]
      /\ crashes' \in 0..MaxCrashes /\ TokensUnique'
  BY <1>1 DEF PushInv, TypeOK, TokensUnique
<1>5. \A e : Reachable(e)' = Reachable(e)
  BY ReachableSame
<1>6. /\ worker'[w].phase # "accepted"
      /\ \A v \in Workers \ {w} : worker'[v] = worker[v] /\ Current(v)' = Current(v)
  BY <1>1, <1>2 DEF TypeOK, Current
<1>7. SentAgainOnlyUnanswered'
  <2> SUFFICES ASSUME NEW e \in Deliveries, delivery'[e].status # "absent"
               PROVE  accepted'[e] = lost'[e]
                        + (IF \/ delivery'[e].status = "sent"
                              \/ \E v \in Workers : worker'[v].phase = "accepted" /\ Current(v)' = e
                             THEN 1 ELSE 0)
    BY DEF SentAgainOnlyUnanswered
  <2>1. CASE e = d
    <3>1. ~\E v \in Workers : worker'[v].phase = "accepted" /\ Current(v)' = d
      BY <1>6 DEF InFlight
    <3>2. QED
      BY <1>3, <2>1, <3>1
  <2>2. CASE e # d
    <3>1. (\E v \in Workers : worker'[v].phase = "accepted" /\ Current(v)' = e)
            <=> (\E v \in Workers : worker[v].phase = "accepted" /\ Current(v) = e)
      BY <1>6, <2>2
    <3>2. QED
      BY <1>3, <2>2, <3>1 DEF PushInv, SentAgainOnlyUnanswered
  <2>3. QED
    BY <2>1, <2>2
<1>8. Reachable(d) /\ delivery[d].status \in Unsent
  BY DEF PushInv, UnsentReachable, Unsent
<1>9. \A e \in Deliveries : delivery'[e].status \in Unsent =>
        delivery'[e].attempts < MaxAttempts /\ Reachable(e)'
  BY <1>3, <1>5, <1>8 DEF PushInv, UnsentReachable, AttemptsLeft
<1>10. \A v \in InFlight \ {w}, e \in Deliveries : e = Current(v) =>
         delivery'[e].status = "processing" /\ Reachable(e)'
  BY <1>1, <1>3, <1>5 DEF PushInv, SendsFenced, WorkersHoldTheirRows
<1>11. \A e \in Deliveries :
         /\ delivery[e].status = "absent" => delivery'[e].status = "absent"
         /\ delivery[e].status = "absent" => lost'[e] = lost[e]
  BY <1>3
<1>12. UNCHANGED <<memberVars, note, accepted>>
  OBVIOUS
<1>13. AnswersCounted'
  <2> SUFFICES ASSUME NEW e \in Deliveries, delivery'[e].status # "absent"
               PROVE  lost'[e] + (IF delivery'[e].status = "sent" THEN 1 ELSE 0)
                        <= delivery'[e].attempts + crashes'
    BY DEF AnswersCounted
  <2>1. CASE e = d
    BY <1>3, <2>1
  <2>2. CASE e # d
    BY <1>3, <2>2 DEF PushInv, AnswersCounted
  <2>3. QED
    BY <2>1, <2>2
<1>14. QED
  BY <1>2, <1>3, <1>4, <1>7, <1>9, <1>10, <1>11, <1>12, <1>13, UnlockedKeeps

\* What a delivery that is processing has been through.
LEMMA AnsweredSoFar ==
  ASSUME PushInv, NEW d \in Deliveries, delivery[d].status = "processing"
  PROVE  /\ lost[d] \in Nat /\ crashes \in Nat /\ delivery[d].attempts \in Nat
         /\ lost[d] <= delivery[d].attempts + crashes
<1>1. lost[d] \in Nat /\ crashes \in Nat /\ delivery[d].attempts \in Nat
  BY PushAssumption DEF PushInv, TypeOK, Delivery
<1>2. lost[d] + (IF delivery[d].status = "sent" THEN 1 ELSE 0)
        <= delivery[d].attempts + crashes
  BY DEF PushInv, AnswersCounted
<1>3. QED
  BY <1>1, <1>2

LEMMA CancelInvalidStep ==
  ASSUME PushInv, NEW w \in Workers, CancelInvalid(w)
  PROVE  PushInv'
<1> DEFINE d == Current(w)
           row == [delivery[d] EXCEPT !.status = "cancelled", !.due = FALSE]
<1>1. TypeOK /\ WorkersHoldTheirRows
  BY DEF PushInv
<1>2. /\ worker[w].phase = "draining" /\ DeliveryFree(d)
      /\ delivery[d].status = "processing"
      /\ delivery' = Cancelled({d}) /\ NextInBatch(w)
      /\ UNCHANGED <<memberVars, device, note, accepted, lost, crashes>>
  BY DEF CancelInvalid, StillMine
<1>3. worker[w].batch # <<>> /\ d \in Deliveries
  BY <1>1, <1>2, CurrentType DEF WorkersHoldTheirRows
<1>4. delivery[d] \in Delivery /\ delivery[d].status \in Unsent
  BY <1>1, <1>2, <1>3 DEF TypeOK, Unsent
<1>5. row \in Delivery /\ row.status = "cancelled"
  BY <1>4 DEF Delivery, Terminal
<1>6. \A v \in InFlight \ {w} : Current(v) # d
  BY <1>2 DEF DeliveryFree
<1>7. accepted[d] = lost[d] /\ lost[d] \in Nat
  BY <1>1, <1>2, <1>3, <1>6, TakenSoFar DEF TypeOK
<1>8. delivery' = [delivery EXCEPT ![d] = row]
  BY <1>1, <1>2, <1>3, <1>4 DEF Cancelled, TypeOK
<1>9. row.status \notin Unsent /\ accepted[d] = lost'[d] + (IF row.status = "sent" THEN 1 ELSE 0)
  BY <1>2, <1>5, <1>7 DEF Unsent
<1>10. row.attempts = delivery[d].attempts /\ d = Current(w)
  BY <1>4 DEF Delivery
<1> HIDE DEF d, row
<1>11. /\ lost' \in [Deliveries -> Nat]
       /\ \A e \in Deliveries : e # d => lost'[e] = lost[e]
       /\ lost'[d] + (IF row.status = "sent" THEN 1 ELSE 0) <= row.attempts + crashes
  BY <1>1, <1>2, <1>3, <1>5, <1>10, AnsweredSoFar DEF TypeOK
<1>12. QED
  BY <1>2, <1>3, <1>5, <1>6, <1>8, <1>9, <1>10, <1>11, DoneKeeps

\* A worker at a delivery is alone there and the delivery is still processing.
LEMMA InFlightAlone ==
  ASSUME PushInv, NEW w \in Workers, worker[w].phase \in {"sending", "accepted"}
  PROVE  /\ w \in InFlight /\ worker[w].batch # <<>>
         /\ Current(w) \in Deliveries
         /\ delivery[Current(w)] \in Delivery
         /\ delivery[Current(w)].status = "processing"
         /\ delivery[Current(w)].attempts < MaxAttempts
         /\ \A v \in InFlight \ {w} : Current(v) # Current(w)
<1>1. TypeOK /\ WorkersHoldTheirRows /\ w \in InFlight
  BY DEF PushInv, InFlight
<1>2. worker[w].batch # <<>> /\ Current(w) \in Deliveries
  BY <1>1, CurrentType DEF WorkersHoldTheirRows
<1>3. delivery[Current(w)].status = "processing" /\ delivery[Current(w)] \in Delivery
  BY <1>1, <1>2 DEF WorkersHoldTheirRows, TypeOK
<1>4. delivery[Current(w)].attempts < MaxAttempts
  BY <1>2, <1>3 DEF PushInv, AttemptsLeft, Unsent
<1>5. QED
  BY <1>1, <1>2, <1>3, <1>4 DEF WorkersHoldTheirRows

LEMMA CommitSentStep ==
  ASSUME PushInv, NEW w \in Workers, CommitSent(w)
  PROVE  PushInv'
<1> DEFINE d == Current(w)
           row == [status |-> "sent", attempts |-> delivery[d].attempts + 1, due |-> FALSE]
<1>1. /\ worker[w].phase = "accepted"
      /\ delivery' = [delivery EXCEPT ![d] = row] /\ NextInBatch(w)
      /\ UNCHANGED <<memberVars, device, note, accepted, lost, crashes>>
  BY DEF CommitSent
<1>2. /\ worker[w].batch # <<>> /\ d \in Deliveries
      /\ delivery[d] \in Delivery /\ delivery[d].status = "processing"
      /\ delivery[d].attempts < MaxAttempts
      /\ \A v \in InFlight \ {w} : Current(v) # d
  BY <1>1, InFlightAlone
<1>3. row \in Delivery /\ row.status = "sent" /\ row.status \notin Unsent
  BY <1>2, PushAssumption DEF Delivery, Terminal, Unsent
<1>4. accepted[d] = lost'[d] + (IF row.status = "sent" THEN 1 ELSE 0) /\ d = Current(w)
  BY <1>1, <1>2, <1>3, TakenSoFar
<1>5. row.attempts = delivery[d].attempts + 1
  OBVIOUS
<1> HIDE DEF d, row
<1>6. /\ lost' \in [Deliveries -> Nat]
      /\ \A e \in Deliveries : e # d => lost'[e] = lost[e]
      /\ lost'[d] + (IF row.status = "sent" THEN 1 ELSE 0) <= row.attempts + crashes
  BY <1>1, <1>2, <1>3, <1>5, AnsweredSoFar DEF PushInv, TypeOK
<1>7. QED
  BY <1>1, <1>2, <1>3, <1>4, <1>6, DoneKeeps

LEMMA SendFailsStep ==
  ASSUME PushInv, NEW w \in Workers, SendFails(w)
  PROVE  PushInv'
<1> DEFINE d == Current(w)
           row == Retried(delivery[d])
<1>1. /\ worker[w].phase \in {"sending", "accepted"}
      /\ delivery' = [delivery EXCEPT ![d] = row] /\ NextInBatch(w)
      /\ lost' = IF worker[w].phase = "accepted" THEN [lost EXCEPT ![d] = @ + 1] ELSE lost
      /\ UNCHANGED <<memberVars, device, note, accepted, crashes>>
  BY DEF SendFails, AnswerLost
<1>2. /\ worker[w].batch # <<>> /\ d \in Deliveries
      /\ delivery[d] \in Delivery /\ delivery[d].status = "processing"
      /\ delivery[d].attempts < MaxAttempts
      /\ \A v \in InFlight \ {w} : Current(v) # d
  BY <1>1, InFlightAlone
<1>3. delivery[d].attempts \in Nat /\ delivery[d].attempts + 1 \in 0..MaxAttempts
  BY <1>2, PushAssumption DEF Delivery
<1>4. /\ row \in Delivery /\ row.status # "sent"
      /\ row.status \in Unsent => row.attempts < MaxAttempts
  BY <1>3, PushAssumption DEF Delivery, Terminal, Unsent, Retried
<1>5. row.attempts = delivery[d].attempts + 1 /\ d = Current(w)
  BY DEF Retried
<1>6. lost \in [Deliveries -> Nat]
  BY DEF PushInv, TypeOK
<1> HIDE DEF d, row
<1>7. /\ lost' \in [Deliveries -> Nat]
      /\ \A e \in Deliveries : e # d => lost'[e] = lost[e]
      /\ lost'[d] = lost[d] + (IF worker[w].phase = "accepted" THEN 1 ELSE 0)
  BY <1>1, <1>2, <1>6
<1>8. accepted[d] = lost'[d]
  BY <1>1, <1>2, <1>5, <1>6, <1>7, TakenSoFar
<1>9. lost'[d] <= row.attempts + crashes
  BY <1>2, <1>5, <1>7, AnsweredSoFar
<1>10. /\ accepted[d] = lost'[d] + (IF row.status = "sent" THEN 1 ELSE 0)
       /\ lost'[d] + (IF row.status = "sent" THEN 1 ELSE 0) <= row.attempts + crashes
  BY <1>2, <1>4, <1>7, <1>8, <1>9
<1>11. QED
  BY <1>1, <1>2, <1>4, <1>5, <1>7, <1>10, DoneKeeps

\* What is cancelled with an unknown token is no other worker's: a delivery to
\* the same token is one to the same device, for a token is on one device.
LEMMA TokenUnknownStep ==
  ASSUME PushInv, NEW w \in Workers, TokenUnknown(w)
  PROVE  PushInv'
<1> DEFINE d == Current(w)
           ds == {e \in Deliveries : DeviceOf(e) = DeviceOf(d) \/ TokenOf(e) = TokenOf(d)}
           row == [status |-> "dead", attempts |-> delivery[d].attempts, due |-> FALSE]
           gone == Cancelled(ds)
<1>1. /\ worker[w].phase = "sending"
      /\ device' = Cleared({DeviceOf(d)}, FALSE)
      /\ delivery' = [gone EXCEPT ![d] = row] /\ NextInBatch(w)
      /\ UNCHANGED <<memberVars, note, accepted, lost, crashes>>
  BY DEF TokenUnknown
<1>2. TypeOK /\ WorkersHoldTheirRows /\ TokensUnique /\ UnsentReachable
  BY DEF PushInv
<1>3. /\ worker[w].batch # <<>> /\ d \in Deliveries /\ w \in InFlight
      /\ delivery[d] \in Delivery /\ delivery[d].status = "processing"
      /\ \A v \in InFlight \ {w} : Current(v) # d
  BY <1>1, InFlightAlone
<1>4. PICK x \in Worker : /\ x.phase \in {"idle", "draining"}
                          /\ x.phase # "idle" => x.batch # <<>>
                          /\ worker' = [worker EXCEPT ![w] = x]
  BY <1>1, <1>2, <1>3, NextInBatchType DEF NextInBatch
<1>5. row \in Delivery /\ row.status = "dead" /\ row.status \notin Unsent
  BY <1>3, PushAssumption DEF Delivery, Terminal, Unsent
<1>6. gone \in [Deliveries -> Delivery]
  BY <1>2, CancelledRows
<1>7. /\ delivery' \in [Deliveries -> Delivery] /\ delivery'[d] = row
      /\ \A e \in Deliveries : e # d => delivery'[e] = Cancelled(ds)[e]
  BY <1>1, <1>3, <1>5, <1>6
<1>8. /\ device' \in [Installations -> Device] /\ TokensUnique'
      /\ \A i \in Installations : i # DeviceOf(d) => device'[i] = device[i]
  BY <1>1, <1>2, ClearedRows, ClearedTokens
<1>9. lost' \in [Deliveries -> Nat] /\ crashes' \in 0..MaxCrashes
      /\ UNCHANGED <<memberVars, note, accepted>>
  BY <1>1, <1>2 DEF TypeOK
<1>10. \A e \in Deliveries : DeviceOf(e) # DeviceOf(d) => Reachable(e)' = Reachable(e)
  BY <1>1, <1>8, DeliveryParts DEF Reachable, Active, memberVars
<1>11. Reachable(d) /\ TokenOf(d) # "none"
  BY <1>2, <1>3, DeliveryParts, PushAssumption DEF UnsentReachable, Unsent
<1>12. \A e \in Deliveries : delivery[e].status \in Unsent /\ e \in ds =>
         DeviceOf(e) = DeviceOf(d)
  <2> SUFFICES ASSUME NEW e \in Deliveries, delivery[e].status \in Unsent,
                      TokenOf(e) = TokenOf(d)
               PROVE  DeviceOf(e) = DeviceOf(d)
    OBVIOUS
  <2>1. Reachable(e)
    BY <1>2 DEF UnsentReachable
  <2>2. device[DeviceOf(e)].token = device[DeviceOf(d)].token
        /\ device[DeviceOf(e)].token # "none"
    BY <1>11, <2>1 DEF Reachable
  <2>3. QED
    BY <1>2, <1>3, <2>2, DeliveryParts DEF TokensUnique
<1>13. \A v \in InFlight \ {w}, e \in Deliveries : e = Current(v) =>
         /\ e # d /\ e \notin ds /\ delivery[e].status = "processing" /\ Reachable(e)
         /\ DeviceOf(e) # DeviceOf(d)
  <2> SUFFICES ASSUME NEW v \in InFlight \ {w}, NEW e \in Deliveries, e = Current(v)
               PROVE  /\ e # d /\ e \notin ds /\ delivery[e].status = "processing"
                      /\ Reachable(e) /\ DeviceOf(e) # DeviceOf(d)
    OBVIOUS
  <2>1. delivery[e].status = "processing" /\ Reachable(e) /\ UserOf(e) # UserOf(d)
    BY <1>2, <1>3 DEF PushInv, WorkersHoldTheirRows, SendsFenced
  <2>2. DeviceOf(e) # DeviceOf(d)
    BY <2>1 DEF UserOf
  <2>3. QED
    BY <1>3, <1>12, <2>1, <2>2 DEF Unsent
<1> HIDE DEF d, ds, row, gone
<1>14. \A v \in InFlight \ {w}, e \in Deliveries : e = Current(v) =>
         delivery'[e].status = "processing" /\ Reachable(e)'
  BY <1>2, <1>7, <1>10, <1>13, CancelledRows
<1>15. \A e \in Deliveries : delivery'[e].status \in Unsent =>
         delivery'[e].attempts < MaxAttempts /\ Reachable(e)'
  <2> SUFFICES ASSUME NEW e \in Deliveries, delivery'[e].status \in Unsent
               PROVE  delivery'[e].attempts < MaxAttempts /\ Reachable(e)'
    OBVIOUS
  <2>1. e # d /\ e \notin ds /\ delivery'[e] = delivery[e]
    BY <1>2, <1>5, <1>7, CancelledRows
  <2>2. DeviceOf(e) # DeviceOf(d)
    BY <2>1 DEF ds
  <2>3. QED
    BY <1>10, <2>1, <2>2 DEF PushInv, UnsentReachable, AttemptsLeft
<1>16. \A e \in Deliveries :
         /\ delivery[e].status = "absent" => delivery'[e].status = "absent"
         /\ delivery[e].status = "absent" => lost'[e] = lost[e]
  BY <1>1, <1>2, <1>3, <1>7, CancelledRows
<1>17. SentAgainOnlyUnanswered'
  <2>1. /\ \A v \in Workers \ {w} : worker'[v] = worker[v] /\ Current(v)' = Current(v)
        /\ worker'[w].phase # "accepted"
    BY <1>2, <1>4 DEF TypeOK, Current
  <2> SUFFICES ASSUME NEW e \in Deliveries, delivery'[e].status # "absent"
               PROVE  accepted'[e] = lost'[e]
                        + (IF \/ delivery'[e].status = "sent"
                              \/ \E v \in Workers : worker'[v].phase = "accepted" /\ Current(v)' = e
                             THEN 1 ELSE 0)
    BY DEF SentAgainOnlyUnanswered
  <2>2. (\E v \in Workers : worker'[v].phase = "accepted" /\ Current(v)' = e)
          <=> (\E v \in Workers : worker[v].phase = "accepted" /\ Current(v) = e)
    BY <1>1, <2>1
  <2>3. delivery[e].status # "absent" /\ (delivery'[e].status = "sent" <=> delivery[e].status = "sent")
    BY <1>2, <1>3, <1>5, <1>7, CancelledRows
  <2>4. QED
    BY <1>1, <2>2, <2>3 DEF PushInv, SentAgainOnlyUnanswered
<1>18. AnswersCounted'
  <2>1. delivery'[d].attempts = delivery[d].attempts
    BY <1>7 DEF row
  <2>2. QED
    BY <1>1, <1>2, <1>3, <1>5, <1>7, <2>1, CancelledRows, SameAnswers
<1>19. QED
  BY <1>4, <1>7, <1>8, <1>9, <1>14, <1>15, <1>16, <1>17, <1>18, UnlockedKeeps

LEMMA CrashStep ==
  ASSUME PushInv, NEW w \in Workers, Crash(w)
  PROVE  PushInv'
<1>1. TypeOK /\ WorkersHoldTheirRows
  BY DEF PushInv
<1>2. /\ worker' = [worker EXCEPT ![w] = Resting]
      /\ crashes < MaxCrashes /\ crashes' = crashes + 1
      /\ lost' = IF worker[w].phase = "accepted"
                   THEN [lost EXCEPT ![Current(w)] = @ + 1] ELSE lost
      /\ UNCHANGED <<memberVars, device, note, delivery, accepted>>
  BY DEF Crash, AnswerLost, outboxVars
<1>3. Resting \in Worker /\ Resting.phase = "idle"
  BY EmptySeq DEF Resting, Worker
<1>4. /\ delivery' \in [Deliveries -> Delivery] /\ device' \in [Installations -> Device]
      /\ crashes' \in 0..MaxCrashes /\ TokensUnique'
  BY <1>1, <1>2, PushAssumption DEF PushInv, TypeOK, TokensUnique
<1>5. \A d : Reachable(d)' = Reachable(d)
  BY <1>2, ReachableSame
<1>6. /\ \A v \in Workers \ {w} : worker'[v] = worker[v] /\ Current(v)' = Current(v)
      /\ worker'[w].phase # "accepted"
  BY <1>1, <1>2, <1>3 DEF TypeOK, Current
<1>7. \A d \in Deliveries : delivery'[d].status \in Unsent =>
        delivery'[d].attempts < MaxAttempts /\ Reachable(d)'
  BY <1>2, <1>5 DEF PushInv, UnsentReachable, AttemptsLeft
<1>8. \A v \in InFlight \ {w}, d \in Deliveries : d = Current(v) =>
        delivery'[d].status = "processing" /\ Reachable(d)'
  BY <1>1, <1>2, <1>5 DEF PushInv, SendsFenced, WorkersHoldTheirRows
<1>9. CASE worker[w].phase = "accepted"
  <2> DEFINE c == Current(w)
  <2>1. /\ c \in Deliveries /\ delivery[c].status = "processing"
        /\ \A v \in InFlight \ {w} : Current(v) # c
    BY <1>9, InFlightAlone
  <2>2. accepted[c] = lost[c] + 1 /\ lost[c] \in Nat
    BY <1>1, <1>9, <2>1, TakenSoFar DEF TypeOK
  <2>3. /\ lost' \in [Deliveries -> Nat] /\ lost'[c] = lost[c] + 1
        /\ \A d \in Deliveries : d # c => lost'[d] = lost[d]
    BY <1>1, <1>2, <1>9, <2>1, <2>2 DEF TypeOK
  <2>4. SentAgainOnlyUnanswered'
    <3> SUFFICES ASSUME NEW d \in Deliveries, delivery'[d].status # "absent"
                 PROVE  accepted'[d] = lost'[d]
                          + (IF \/ delivery'[d].status = "sent"
                                \/ \E v \in Workers : worker'[v].phase = "accepted" /\ Current(v)' = d
                               THEN 1 ELSE 0)
      BY DEF SentAgainOnlyUnanswered
    <3>1. CASE d = c
      <4>1. ~\E v \in Workers : worker'[v].phase = "accepted" /\ Current(v)' = d
        BY <1>6, <2>1, <3>1 DEF InFlight
      <4>2. QED
        BY <1>2, <2>1, <2>2, <2>3, <3>1, <4>1
    <3>2. CASE d # c
      <4>1. (\E v \in Workers : worker'[v].phase = "accepted" /\ Current(v)' = d)
              <=> (\E v \in Workers : worker[v].phase = "accepted" /\ Current(v) = d)
        BY <1>6, <3>2
      <4>2. QED
        BY <1>2, <2>3, <3>2, <4>1 DEF PushInv, SentAgainOnlyUnanswered
    <3>3. QED
      BY <3>1, <3>2
  <2>5. \A d \in Deliveries :
          /\ delivery[d].status = "absent" => delivery'[d].status = "absent"
          /\ delivery[d].status = "absent" => lost'[d] = lost[d]
    BY <1>2, <2>1, <2>3
  <2>6. UNCHANGED <<memberVars, note, accepted>>
    BY <1>2
  <2>7. AnswersCounted'
    <3> SUFFICES ASSUME NEW d \in Deliveries, delivery[d].status # "absent"
                 PROVE  lost'[d] + (IF delivery[d].status = "sent" THEN 1 ELSE 0)
                          <= delivery[d].attempts + crashes'
      BY <1>2 DEF AnswersCounted
    <3>1. lost[d] + (IF delivery[d].status = "sent" THEN 1 ELSE 0)
            <= delivery[d].attempts + crashes
      BY DEF PushInv, AnswersCounted
    <3>2. lost'[d] <= lost[d] + 1 /\ lost'[d] \in Nat /\ lost[d] \in Nat
      BY <1>1, <2>3 DEF TypeOK
    <3>3. delivery[d].attempts \in Nat /\ crashes \in Nat
      BY <1>1, PushAssumption DEF TypeOK, Delivery
    <3>4. QED
      BY <1>2, <3>1, <3>2, <3>3
  <2>8. QED
    BY <1>2, <1>3, <1>4, <1>7, <1>8, <2>3, <2>4, <2>5, <2>6, <2>7, UnlockedKeeps
<1>10. CASE worker[w].phase # "accepted"
  <2>1. lost' = lost /\ lost' \in [Deliveries -> Nat]
    BY <1>1, <1>2, <1>10 DEF TypeOK
  <2>2. \A d \in Deliveries :
          (\E v \in Workers : worker'[v].phase = "accepted" /\ Current(v)' = d)
            <=> (\E v \in Workers : worker[v].phase = "accepted" /\ Current(v) = d)
    BY <1>6, <1>10
  <2>3. SentAgainOnlyUnanswered'
    BY <1>2, <2>1, <2>2 DEF PushInv, SentAgainOnlyUnanswered
  <2>4. /\ UNCHANGED <<memberVars, note, accepted>>
        /\ \A d \in Deliveries :
          /\ delivery[d].status = "absent" => delivery'[d].status = "absent"
          /\ delivery[d].status = "absent" => lost'[d] = lost[d]
    BY <1>2, <2>1
  <2>5. AnswersCounted'
    <3> SUFFICES ASSUME NEW d \in Deliveries, delivery[d].status # "absent"
                 PROVE  lost[d] + (IF delivery[d].status = "sent" THEN 1 ELSE 0)
                          <= delivery[d].attempts + crashes'
      BY <1>2, <2>1 DEF AnswersCounted
    <3>1. lost[d] + (IF delivery[d].status = "sent" THEN 1 ELSE 0)
            <= delivery[d].attempts + crashes
      BY DEF PushInv, AnswersCounted
    <3>2. lost[d] \in Nat /\ delivery[d].attempts \in Nat /\ crashes \in Nat
      BY <1>1, PushAssumption DEF TypeOK, Delivery
    <3>3. QED
      BY <1>2, <3>1, <3>2
  <2>6. QED
    BY <1>2, <1>3, <1>4, <1>7, <1>8, <2>1, <2>3, <2>4, <2>5, UnlockedKeeps
<1>11. QED
  BY <1>9, <1>10

\* A claim is a sequence of deliveries, and not empty.
LEMMA ClaimedBatch ==
  ASSUME NEW S \in SUBSET Claimable, Claimable # {},
         Cardinality(S) = IF Cardinality(Claimable) < Limit
                            THEN Cardinality(Claimable) ELSE Limit,
         NEW batch \in SetToSeqs(S)
  PROVE  batch \in Seq(Deliveries) /\ batch # <<>>
<1>1. Claimable \in SUBSET Deliveries /\ IsFiniteSet(Deliveries)
  BY PushAssumption DEF Claimable, Deliveries
<1>2. IsFiniteSet(Claimable)
  BY <1>1, FS_Subset
<1>3. Cardinality(Claimable) \in Nat /\ Cardinality(Claimable) # 0
  BY <1>2, FS_CardinalityType, FS_EmptySet
<1>4. Cardinality(S) \in Nat \ {0}
  BY <1>3, PushAssumption
<1>5. batch \in [1..Cardinality(S) -> S]
  BY DEF SetToSeqs
<1>6. batch \in [1..Cardinality(S) -> Deliveries]
  BY <1>1, <1>5
<1>7. batch \in Seq(Deliveries)
  BY <1>4, <1>6, SeqDef
<1>8. 1 \in DOMAIN batch
  BY <1>4, <1>5
<1>9. QED
  BY <1>7, <1>8

LEMMA ClaimStep ==
  ASSUME PushInv, NEW w \in Workers, Claim(w)
  PROVE  PushInv'
<1>1. TypeOK /\ WorkersHoldTheirRows
  BY DEF PushInv
<1>2. PICK S \in SUBSET Claimable :
        /\ Cardinality(S) = IF Cardinality(Claimable) < Limit
                              THEN Cardinality(Claimable) ELSE Limit
        /\ \E batch \in SetToSeqs(S) :
             worker' = [worker EXCEPT ![w] = [phase |-> "draining", batch |-> batch]]
        /\ delivery' = [d \in Deliveries |->
             IF d \in S THEN [delivery[d] EXCEPT !.status = "processing", !.due = FALSE]
                        ELSE delivery[d]]
  BY DEF Claim
<1>3. PICK batch \in SetToSeqs(S) :
        worker' = [worker EXCEPT ![w] = [phase |-> "draining", batch |-> batch]]
  BY <1>2
<1>4. /\ worker[w].phase = "idle" /\ Claimable # {}
      /\ UNCHANGED <<memberVars, device, note, accepted, lost, crashes>>
  BY DEF Claim
<1> DEFINE x == [phase |-> "draining", batch |-> batch]
<1>5. batch \in Seq(Deliveries) /\ batch # <<>>
  BY <1>2, <1>4, ClaimedBatch
<1>6. x \in Worker /\ x.phase = "draining" /\ x.batch # <<>>
  BY <1>5 DEF Worker
<1>7. worker' = [worker EXCEPT ![w] = x]
  BY <1>3
<1> HIDE DEF x
<1>8. \A d \in S : d \in Deliveries /\ delivery[d].status \in Unsent /\ DeliveryFree(d)
  BY DEF Claimable
<1>9. \A d \in Deliveries : delivery[d] \in Delivery
  BY <1>1 DEF TypeOK
<1>10. /\ delivery' \in [Deliveries -> Delivery]
       /\ \A d \in Deliveries : d \notin S => delivery'[d] = delivery[d]
       /\ \A d \in Deliveries : d \in S => /\ delivery'[d].status = "processing"
                                          /\ delivery'[d].attempts = delivery[d].attempts
  BY <1>2, <1>9 DEF Delivery, Unsent
<1>11. \A d : Reachable(d)' = Reachable(d)
  BY <1>4, ReachableSame
<1>12. /\ device' \in [Installations -> Device] /\ lost' \in [Deliveries -> Nat]
       /\ crashes' \in 0..MaxCrashes /\ TokensUnique'
  BY <1>1, <1>4 DEF PushInv, TypeOK, TokensUnique
<1>13. \A d \in Deliveries : delivery'[d].status \in Unsent =>
         delivery'[d].attempts < MaxAttempts /\ Reachable(d)'
  BY <1>8, <1>10, <1>11 DEF PushInv, UnsentReachable, AttemptsLeft
<1>14. \A v \in InFlight \ {w}, d \in Deliveries : d = Current(v) =>
         delivery'[d].status = "processing" /\ Reachable(d)'
  BY <1>1, <1>8, <1>10, <1>11 DEF PushInv, SendsFenced, WorkersHoldTheirRows, DeliveryFree
<1>15. /\ \A v \in Workers \ {w} : worker'[v] = worker[v] /\ Current(v)' = Current(v)
       /\ worker'[w].phase # "accepted" /\ worker[w].phase # "accepted"
  BY <1>1, <1>4, <1>6, <1>7 DEF TypeOK, Current
<1>16. \A d \in Deliveries :
         /\ delivery[d].status = "absent" <=> delivery'[d].status = "absent"
         /\ delivery[d].status = "sent" <=> delivery'[d].status = "sent"
         /\ lost'[d] = lost[d]
  BY <1>4, <1>8, <1>10 DEF Unsent
<1>17. SentAgainOnlyUnanswered'
  <2>1. \A d \in Deliveries :
          (\E v \in Workers : worker'[v].phase = "accepted" /\ Current(v)' = d)
            <=> (\E v \in Workers : worker[v].phase = "accepted" /\ Current(v) = d)
    BY <1>15
  <2>2. QED
    BY <1>4, <1>16, <2>1 DEF PushInv, SentAgainOnlyUnanswered
<1>18. UNCHANGED <<memberVars, note, accepted>>
  BY <1>4
<1>19. AnswersCounted'
  BY <1>4, <1>10, <1>16, SameAnswers
<1>20. QED
  BY <1>6, <1>7, <1>10, <1>12, <1>13, <1>14, <1>16, <1>17, <1>18, <1>19, UnlockedKeeps

\* The worker takes the locks of its user: nobody else is at that user.
LEMMA StartSendStep ==
  ASSUME PushInv, NEW w \in Workers, StartSend(w)
  PROVE  PushInv'
<1>1. TypeOK /\ WorkersHoldTheirRows
  BY DEF PushInv
<1>2. /\ worker[w].phase = "draining"
      /\ UserFree(UserOf(Current(w))) /\ StillMine(Current(w)) /\ Reachable(Current(w))
      /\ worker' = [worker EXCEPT ![w].phase = "sending"]
      /\ UNCHANGED <<session, admitted, enabled, switchedOn, device, note, delivery,
                     accepted, lost, crashes>>
  BY DEF StartSend, Valid, memberVars, outboxVars
<1>3. worker[w] \in Worker /\ worker[w].batch # <<>>
  BY <1>1, <1>2 DEF TypeOK, WorkersHoldTheirRows
<1>4. /\ worker' \in [Workers -> Worker]
      /\ worker'[w].phase = "sending" /\ worker'[w].batch = worker[w].batch
      /\ \A v \in Workers \ {w} : worker'[v] = worker[v]
  BY <1>1, <1>2, <1>3 DEF TypeOK, Worker
<1>5. /\ InFlight' = InFlight \cup {w} /\ w \notin InFlight
      /\ \A v \in Workers : Current(v)' = Current(v)
  BY <1>2, <1>4 DEF InFlight, Current
<1>6. TypeOK'
  BY <1>1, <1>2, <1>4 DEF TypeOK
<1>7. \A d : Reachable(d)' = Reachable(d)
  BY <1>2, ReachableSame DEF memberVars
<1>8. UnsentReachable' /\ AttemptsLeft' /\ TokensUnique' /\ DeliveriesFollowNotes'
  BY <1>2, <1>7 DEF PushInv, UnsentReachable, AttemptsLeft, TokensUnique, DeliveriesFollowNotes
<1>9. SendsFenced'
  <2> SUFFICES ASSUME NEW v \in InFlight' PROVE Reachable(Current(v))'
    BY DEF SendsFenced
  <2>1. v \in Workers /\ Current(v)' = Current(v) /\ Reachable(Current(v))
    BY <1>2, <1>5 DEF PushInv, SendsFenced, InFlight
  <2>2. QED
    BY <1>7, <2>1
<1>10. WorkersHoldTheirRows'
  BY <1>1, <1>2, <1>3, <1>4, <1>5 DEF WorkersHoldTheirRows, UserFree, StillMine, InFlight
<1>11. SentAgainOnlyUnanswered'
  <2>1. \A v \in Workers : worker'[v].phase = "accepted" <=> worker[v].phase = "accepted"
    BY <1>2, <1>4
  <2>2. QED
    BY <1>2, <1>5, <2>1 DEF PushInv, SentAgainOnlyUnanswered
<1>12. AnswersCounted'
  BY <1>2, SameAnswers
<1>13. QED
  BY <1>6, <1>8, <1>9, <1>10, <1>11, <1>12 DEF PushInv

LEMMA ProviderAcceptsStep ==
  ASSUME PushInv, NEW w \in Workers, ProviderAccepts(w)
  PROVE  PushInv'
<1> DEFINE c == Current(w)
<1>1. TypeOK /\ WorkersHoldTheirRows
  BY DEF PushInv
<1>2. /\ worker[w].phase = "sending"
      /\ accepted' = [accepted EXCEPT ![c] = @ + 1]
      /\ worker' = [worker EXCEPT ![w].phase = "accepted"]
      /\ UNCHANGED <<session, admitted, enabled, switchedOn, device, note, delivery,
                     lost, crashes>>
  BY DEF ProviderAccepts, memberVars, outboxVars
<1>3. /\ w \in InFlight /\ worker[w] \in Worker /\ c \in Deliveries
      /\ delivery[c].status = "processing"
      /\ \A v \in InFlight \ {w} : Current(v) # c
  BY <1>1, <1>2, InFlightAlone DEF TypeOK
<1>4. /\ worker' \in [Workers -> Worker]
      /\ worker'[w].phase = "accepted" /\ worker'[w].batch = worker[w].batch
      /\ \A v \in Workers \ {w} : worker'[v] = worker[v]
  BY <1>1, <1>2, <1>3 DEF TypeOK, Worker
<1>5. /\ InFlight' = InFlight
      /\ \A v \in Workers : Current(v)' = Current(v)
  BY <1>2, <1>4 DEF InFlight, Current
<1>6. accepted[c] = lost[c] /\ lost[c] \in Nat
  BY <1>1, <1>2, <1>3, TakenSoFar DEF TypeOK
<1>7. /\ accepted' \in [Deliveries -> Nat] /\ accepted'[c] = lost[c] + 1
      /\ \A d \in Deliveries : d # c => accepted'[d] = accepted[d]
  BY <1>1, <1>2, <1>3, <1>6 DEF TypeOK
<1>8. TypeOK'
  BY <1>1, <1>2, <1>4, <1>7 DEF TypeOK
<1>9. \A d : Reachable(d)' = Reachable(d)
  BY <1>2, ReachableSame DEF memberVars
<1>10. UnsentReachable' /\ AttemptsLeft' /\ TokensUnique'
  BY <1>2, <1>9 DEF PushInv, UnsentReachable, AttemptsLeft, TokensUnique
<1>11. SendsFenced'
  <2> SUFFICES ASSUME NEW v \in InFlight' PROVE Reachable(Current(v))'
    BY DEF SendsFenced
  <2>1. v \in Workers /\ Current(v)' = Current(v) /\ Reachable(Current(v))
    BY <1>2, <1>5 DEF PushInv, SendsFenced, InFlight
  <2>2. QED
    BY <1>9, <2>1
<1>12. WorkersHoldTheirRows'
  BY <1>1, <1>2, <1>4, <1>5 DEF WorkersHoldTheirRows, InFlight
<1>13. DeliveriesFollowNotes'
  <2>1. note[NoteOf(c)] # "nobody"
    BY <1>3, DeliveryParts, PushAssumption DEF PushInv, DeliveriesFollowNotes
  <2>2. QED
    BY <1>2, <1>7, <2>1 DEF PushInv, DeliveriesFollowNotes
<1> HIDE DEF c
<1>14. SentAgainOnlyUnanswered'
  <2> SUFFICES ASSUME NEW d \in Deliveries, delivery'[d].status # "absent"
               PROVE  accepted'[d] = lost'[d]
                        + (IF \/ delivery'[d].status = "sent"
                              \/ \E v \in Workers : worker'[v].phase = "accepted" /\ Current(v)' = d
                             THEN 1 ELSE 0)
    BY DEF SentAgainOnlyUnanswered
  <2>1. CASE d = c
    <3>1. worker'[w].phase = "accepted" /\ Current(w)' = d
      BY <1>4, <1>5, <2>1 DEF c
    <3>2. QED
      BY <1>2, <1>7, <2>1, <3>1
  <2>2. CASE d # c
    <3>1. (\E v \in Workers : worker'[v].phase = "accepted" /\ Current(v)' = d)
            <=> (\E v \in Workers : worker[v].phase = "accepted" /\ Current(v) = d)
      BY <1>2, <1>4, <1>5, <2>2 DEF c
    <3>2. QED
      BY <1>2, <1>7, <2>2, <3>1 DEF PushInv, SentAgainOnlyUnanswered
  <2>3. QED
    BY <2>1, <2>2
<1>15. AnswersCounted'
  BY <1>2, SameAnswers
<1>16. QED
  BY <1>8, <1>10, <1>11, <1>12, <1>13, <1>14, <1>15 DEF PushInv

\* A clock changes no status.
LEMMA TimePassesStep ==
  ASSUME PushInv, NEW c \in Deliveries, TimePasses(c)
  PROVE  PushInv'
<1>1. TypeOK /\ WorkersHoldTheirRows
  BY DEF PushInv
<1>2. /\ delivery' = [delivery EXCEPT ![c].due = TRUE]
      /\ UNCHANGED <<session, admitted, enabled, switchedOn, device, note, worker,
                     accepted, lost, crashes>>
  BY DEF TimePasses, memberVars, workerVars
<1>3. /\ delivery' \in [Deliveries -> Delivery]
      /\ \A d \in Deliveries : /\ delivery'[d].status = delivery[d].status
                               /\ delivery'[d].attempts = delivery[d].attempts
  BY <1>1, <1>2 DEF TypeOK, Delivery
<1>4. /\ InFlight' = InFlight
      /\ \A v \in Workers : Current(v)' = Current(v)
      /\ \A v \in InFlight : v \in Workers /\ Current(v) \in Deliveries
  BY <1>1, <1>2, InFlightType DEF InFlight, Current
<1>5. \A d : Reachable(d)' = Reachable(d)
  BY <1>2, ReachableSame DEF memberVars
<1>6. TypeOK'
  BY <1>1, <1>2, <1>3 DEF TypeOK
<1>7. UnsentReachable' /\ AttemptsLeft' /\ TokensUnique' /\ DeliveriesFollowNotes'
  BY <1>2, <1>3, <1>5 DEF PushInv, UnsentReachable, AttemptsLeft, TokensUnique,
     DeliveriesFollowNotes
<1>8. SendsFenced'
  BY <1>4, <1>5 DEF PushInv, SendsFenced
<1>9. WorkersHoldTheirRows'
  BY <1>1, <1>2, <1>3, <1>4 DEF WorkersHoldTheirRows
<1>10. SentAgainOnlyUnanswered'
  BY <1>2, <1>3, <1>4 DEF PushInv, SentAgainOnlyUnanswered
<1>11. AnswersCounted'
  BY <1>2, <1>3, SameAnswers
<1>12. QED
  BY <1>6, <1>7, <1>8, <1>9, <1>10, <1>11 DEF PushInv

----------------------------------------------------------------------------
(* What a step may never do *)

\* A row that is done is not among those a cancellation touches.
LEMMA CancelledKeepsDone ==
  ASSUME TypeOK, NEW ds, NEW d \in Deliveries, delivery[d].status \in Terminal
  PROVE  Cancelled(ds)[d] = delivery[d]
BY DEF Cancelled, Terminal, Unsent

\* A delivery that is done keeps its row, or goes with its notification.
LEMMA DoneStaysDone ==
  ASSUME PushInv, [Next]_vars, NEW d \in Deliveries, delivery[d].status \in Terminal
  PROVE  delivery'[d] \in {delivery[d], NoDelivery}
<1>1. TypeOK /\ WorkersHoldTheirRows
  BY DEF PushInv
<1>2. delivery[d].status \notin Unsent /\ delivery[d].status # "absent"
  BY DEF Terminal, Unsent
<1>3. delivery \in [Deliveries -> Delivery]
  BY <1>1 DEF TypeOK
<1>4. CASE UNCHANGED delivery
  BY <1>4
<1>5. ASSUME NEW s \in Sessions, MemberStep(s) PROVE delivery'[d] \in {delivery[d], NoDelivery}
  <2>1. CASE Login(s) \/ Admit(s) \/ Refused(s) \/ EnablePush(s)
               \/ \E other \in Sessions : RevokeSession(s, other)
    BY <2>1 DEF Login, Admit, Refused, EnablePush, RevokeSession, outboxVars
  <2>2. CASE DisablePush(s) \/ LogoutAll(s)
               \/ \E i \in Installations : \/ RevokeInstallation(s, i) \/ DeleteToken(s, i)
    BY <1>1, <2>2, CancelledKeepsDone
       DEF DisablePush, LogoutAll, RevokeInstallation, DeleteToken
  <2>3. ASSUME NEW i \in Installations, RegisterInstallation(s, i)
        PROVE  delivery'[d] = delivery[d]
    <3>1. delivery' = Cancelled(DeliveriesTo({i})) \/ delivery' = delivery
      BY <2>3 DEF RegisterInstallation
    <3>2. QED
      BY <1>1, <3>1, CancelledKeepsDone
  <2>4. ASSUME NEW i \in Installations, NEW token \in Tokens, NEW enable \in BOOLEAN,
               RegisterToken(s, i, token, enable)
        PROVE  delivery'[d] = delivery[d]
    BY <1>1, <2>4, CancelledKeepsDone DEF RegisterToken
  <2>5. CASE \E n \in Notes : DeleteNotification(s, n)
    BY <2>5 DEF DeleteNotification
  <2>6. QED
    BY <1>5, <2>1, <2>2, <2>3, <2>4, <2>5 DEF MemberStep
<1>6. ASSUME NEW n \in Notes, NEW u \in Users, Notify(n, u)
      PROVE  delivery'[d] \in {delivery[d], NoDelivery}
  <2>1. note[NoteOf(d)] # "nobody"
    BY <1>2, DeliveryParts, PushAssumption DEF PushInv, DeliveriesFollowNotes
  <2>2. NoteOf(d) # n
    BY <1>6, <2>1 DEF Notify
  <2>3. QED
    BY <1>6, <2>2 DEF Notify
<1>7. ASSUME NEW e \in Deliveries, TimePasses(e)
      PROVE  delivery'[d] \in {delivery[d], NoDelivery}
  <2>1. e # d
    BY <1>2, <1>7 DEF TimePasses, Unsent
  <2>2. QED
    BY <1>3, <1>7, <2>1 DEF TimePasses
<1>8. ASSUME NEW w \in Workers, WorkerStep(w) PROVE delivery'[d] \in {delivery[d], NoDelivery}
  <2>1. CASE Claim(w)
    BY <1>2, <2>1 DEF Claim, Claimable
  <2>2. CASE Ignore(w) \/ StartSend(w) \/ ProviderAccepts(w)
    BY <2>2 DEF Ignore, StartSend, ProviderAccepts, outboxVars
  <2>3. CASE CancelInvalid(w)
    BY <1>1, <2>3, CancelledKeepsDone DEF CancelInvalid
  <2>4. CASE CommitSent(w) \/ SendFails(w) \/ TokenUnknown(w)
    <3>1. w \in InFlight
      BY <2>4 DEF CommitSent, SendFails, TokenUnknown, InFlight
    <3>2. Current(w) # d
      BY <1>1, <1>2, <3>1 DEF WorkersHoldTheirRows, Unsent
    <3>3. CASE CommitSent(w)
      BY <1>3, <3>2, <3>3 DEF CommitSent
    <3>4. CASE SendFails(w)
      BY <1>3, <3>2, <3>4 DEF SendFails
    <3>5. CASE TokenUnknown(w)
      <4> DEFINE gone == Cancelled({e \in Deliveries :
                   DeviceOf(e) = DeviceOf(Current(w)) \/ TokenOf(e) = TokenOf(Current(w))})
      <4>1. gone[d] = delivery[d] /\ gone \in [Deliveries -> Delivery]
        BY <1>1, CancelledKeepsDone, CancelledRows
      <4>2. delivery' = [gone EXCEPT ![Current(w)] =
              [status |-> "dead", attempts |-> delivery[Current(w)].attempts, due |-> FALSE]]
        BY <3>5 DEF TokenUnknown
      <4> HIDE DEF gone
      <4>3. QED
        BY <3>2, <4>1, <4>2
    <3>6. QED
      BY <2>4, <3>3, <3>4, <3>5
  <2>5. QED
    BY <1>8, <2>1, <2>2, <2>3, <2>4 DEF WorkerStep
<1>9. CASE (\E w \in Workers : Crash(w)) \/ Redeploy \/ UNCHANGED vars
  BY <1>9 DEF Crash, Redeploy, outboxVars, vars
<1>10. QED
  BY <1>5, <1>6, <1>7, <1>8, <1>9 DEF Next

\* A device that was not active is active after a step only if it was registered,
\* by a session that is live under the lock.
LEMMA ActivatedByLiveSession ==
  ASSUME TypeOK, [Next]_vars, NEW i \in Installations, ~Active(i), Active(i)'
  PROVE  \E s \in Sessions : SessionOf[s] = Holder[i] /\ session[s] = "live"
<1>1. device \in [Installations -> Device]
  BY DEF TypeOK
<1>2. device' # device
  BY DEF Active
<1>3. \A I : \A revoke \in BOOLEAN : device' # Cleared(I, revoke)
  <2> SUFFICES ASSUME NEW I, NEW revoke \in BOOLEAN, device' = Cleared(I, revoke)
               PROVE  FALSE
    OBVIOUS
  <2>1. /\ device'[i].known = device[i].known
        /\ device[i].revoked => device'[i].revoked
    BY ClearedRows
  <2>2. QED
    BY <2>1 DEF Active
<1>4. \A w \in Workers : ~WorkerStep(w)
  BY <1>2, <1>3 DEF WorkerStep, Claim, Ignore, StartSend, CancelInvalid, ProviderAccepts,
     CommitSent, SendFails, TokenUnknown, outboxVars
<1>5. /\ \A n \in Notes, u \in Users : ~Notify(n, u)
      /\ \A d \in Deliveries : ~TimePasses(d)
      /\ \A w \in Workers : ~Crash(w)
      /\ ~Redeploy
      /\ ~UNCHANGED vars
  BY <1>2 DEF Notify, TimePasses, Crash, Redeploy, outboxVars, vars
<1>6. PICK s \in Sessions : MemberStep(s)
  BY <1>4, <1>5 DEF Next
<1>7. /\ ~Login(s) /\ ~Admit(s) /\ ~Refused(s) /\ ~EnablePush(s)
      /\ \A other \in Sessions : ~RevokeSession(s, other)
      /\ \A n \in Notes : ~DeleteNotification(s, n)
  BY <1>2 DEF Login, Admit, Refused, EnablePush, RevokeSession, DeleteNotification, outboxVars
<1>8. /\ ~DisablePush(s) /\ ~LogoutAll(s)
      /\ \A j \in Installations : ~RevokeInstallation(s, j) /\ ~DeleteToken(s, j)
  BY <1>3 DEF DisablePush, LogoutAll, RevokeInstallation, DeleteToken
<1>9. ~\E j \in Installations, token \in Tokens, enable \in BOOLEAN :
        RegisterToken(s, j, token, enable)
  <2> SUFFICES ASSUME NEW j \in Installations, NEW token \in Tokens, NEW enable \in BOOLEAN,
                      RegisterToken(s, j, token, enable)
               PROVE  FALSE
    OBVIOUS
  <2>1. device' = [device EXCEPT ![j].token = token]
    BY DEF RegisterToken
  <2>2. device'[i].known = device[i].known /\ device'[i].revoked = device[i].revoked
    BY <1>1, <2>1 DEF Device
  <2>3. QED
    BY <2>2 DEF Active
<1>10. PICK j \in Installations : RegisterInstallation(s, j)
  BY <1>6, <1>7, <1>8, <1>9 DEF MemberStep
<1>11. j = i
  BY <1>1, <1>10 DEF RegisterInstallation, Active
<1>12. QED
  BY <1>10, <1>11 DEF RegisterInstallation

----------------------------------------------------------------------------
(* The theorems *)

LEMMA InitStep == Init => PushInv
<1> SUFFICES ASSUME Init PROVE PushInv
  OBVIOUS
<1>1. Resting \in Worker /\ Resting.phase = "idle"
  BY EmptySeq DEF Resting, Worker
<1>2. NoDelivery \in Delivery /\ NoDelivery.status = "absent"
  BY PushAssumption DEF NoDelivery, Delivery
<1>3. TypeOK
  BY <1>1, <1>2, PushAssumption DEF Init, TypeOK, Device
<1>4. InFlight = {} /\ \A w \in Workers : worker[w].phase = "idle"
  BY <1>1 DEF Init, InFlight
<1>5. UnsentReachable /\ AttemptsLeft /\ SendsFenced
  BY <1>2, <1>4 DEF Init, UnsentReachable, AttemptsLeft, SendsFenced, Unsent
<1>6. TokensUnique /\ WorkersHoldTheirRows
  BY <1>4 DEF Init, TokensUnique, WorkersHoldTheirRows
<1>7. SentAgainOnlyUnanswered /\ AnswersCounted /\ DeliveriesFollowNotes
  BY <1>2 DEF Init, SentAgainOnlyUnanswered, AnswersCounted, DeliveriesFollowNotes
<1>8. QED
  BY <1>3, <1>5, <1>6, <1>7 DEF PushInv

LEMMA NextStep == PushInv /\ [Next]_vars => PushInv'
<1> SUFFICES ASSUME PushInv, [Next]_vars PROVE PushInv'
  OBVIOUS
<1>1. session \in [Sessions -> {"absent", "live", "revoked"}]
      /\ admitted \subseteq Sessions /\ switchedOn \in BOOLEAN
  BY DEF PushInv, TypeOK
<1>2. CASE UNCHANGED vars
  BY <1>1, <1>2, OutboxUntouched DEF vars, outboxVars, workerVars
<1>3. CASE Redeploy
  BY <1>1, <1>3, OutboxUntouched DEF Redeploy
<1>4. ASSUME NEW s \in Sessions, MemberStep(s) PROVE PushInv'
  BY <1>4, SessionStep, EnablePushStep, ClearingStep, RegisterInstallationStep,
     RegisterTokenStep, DeleteNotificationStep DEF MemberStep
<1>5. ASSUME NEW w \in Workers, WorkerStep(w) \/ Crash(w) PROVE PushInv'
  BY <1>5, ClaimStep, IgnoreStep, StartSendStep, CancelInvalidStep, ProviderAcceptsStep,
     CommitSentStep, SendFailsStep, TokenUnknownStep, CrashStep DEF WorkerStep
<1>6. QED
  BY <1>2, <1>3, <1>4, <1>5, NotifyStep, TimePassesStep DEF Next

\* The inductive invariant, for every number of members, devices and workers.
THEOREM PushSafe == Spec => []PushInv
<1>1. QED
  BY InitStep, NextStep, PTL DEF Spec

\* What waits can still be pushed.
THEOREM PushUnsentReachable == Spec => []UnsentReachable
<1>1. PushInv => UnsentReachable
  BY DEF PushInv
<1>2. QED
  BY <1>1, PushSafe, PTL

\* No send is in progress that a completed revocation should have fenced.
THEOREM PushSendsFenced == Spec => []SendsFenced
<1>1. PushInv => SendsFenced
  BY DEF PushInv
<1>2. QED
  BY <1>1, PushSafe, PTL

\* The provider takes a delivery again only when each answer before was lost, on
\* its way back (push_provider.py:73-76) or with a worker.
THEOREM PushSentAgainOnlyUnanswered == Spec => []SentAgainOnlyUnanswered
<1>1. PushInv => SentAgainOnlyUnanswered
  BY DEF PushInv
<1>2. QED
  BY <1>1, PushSafe, PTL

\* The bound on what a member is shown: what the provider took is what was
\* answered, what was counted as failed, and what workers died with; who still
\* has a message in hand has an attempt left for it.
LEMMA BoundedByAttempts == PushInv => SendsBounded
<1> SUFFICES ASSUME PushInv, NEW d \in Deliveries, delivery[d].status # "absent"
             PROVE  accepted[d] <= MaxAttempts + crashes
  BY DEF SendsBounded
<1>1. /\ lost[d] \in Nat /\ crashes \in Nat
      /\ delivery[d].attempts \in Nat /\ delivery[d].attempts <= MaxAttempts
  BY PushAssumption DEF PushInv, TypeOK, Delivery
<1>2. lost[d] + (IF delivery[d].status = "sent" THEN 1 ELSE 0)
        <= delivery[d].attempts + crashes
  BY DEF PushInv, AnswersCounted
<1>3. CASE delivery[d].status # "sent" /\ \E w \in Workers :
              worker[w].phase = "accepted" /\ Current(w) = d
  <2>1. delivery[d].status \in Unsent
    BY <1>3 DEF PushInv, WorkersHoldTheirRows, InFlight, Unsent
  <2>2. delivery[d].attempts < MaxAttempts
    BY <2>1 DEF PushInv, AttemptsLeft
  <2>3. accepted[d] = lost[d] + 1
    BY <1>3 DEF PushInv, SentAgainOnlyUnanswered
  <2>4. QED
    BY <1>1, <1>2, <1>3, <2>2, <2>3, PushAssumption
<1>4. CASE delivery[d].status = "sent"
  <2>1. accepted[d] = lost[d] + 1
    BY <1>4 DEF PushInv, SentAgainOnlyUnanswered
  <2>2. QED
    BY <1>1, <1>2, <1>4, <2>1, PushAssumption
<1>5. CASE delivery[d].status # "sent" /\ ~\E w \in Workers :
              worker[w].phase = "accepted" /\ Current(w) = d
  <2>1. accepted[d] = lost[d]
    BY <1>1, <1>5 DEF PushInv, SentAgainOnlyUnanswered
  <2>2. QED
    BY <1>1, <1>2, <1>5, <2>1, PushAssumption
<1>6. QED
  BY <1>3, <1>4, <1>5

\* A member is shown one notification on one device a bounded number of times,
\* whatever answers are lost and whoever sends again.
THEOREM PushSendsBounded == Spec => []SendsBounded
BY BoundedByAttempts, PushSafe, PTL

\* What waits has attempts left.
THEOREM PushAttemptsLeft == Spec => []AttemptsLeft
<1>1. PushInv => AttemptsLeft
  BY DEF PushInv
<1>2. QED
  BY <1>1, PushSafe, PTL

\* Sent, cancelled and dead are final, whatever stale worker comes by.
THEOREM PushTerminalIsFinal == Spec => TerminalIsFinal
<1>1. PushInv /\ [Next]_vars =>
        (\A d \in Deliveries : delivery[d].status \in Terminal =>
           delivery'[d] \in {delivery[d], NoDelivery})
  BY DoneStaysDone
<1>2. QED
  BY <1>1, PushSafe, PTL DEF Spec, TerminalIsFinal

\* A request that was authenticated before its user logged out everywhere does
\* not bring a device back (product_services.py:231-237).
THEOREM PushLogoutFencesRegistration == Spec => LogoutFencesRegistration
<1>1. PushInv /\ [Next]_vars =>
        (\A i \in Installations : ~Active(i) /\ Active(i)' =>
           \E s \in Sessions : SessionOf[s] = Holder[i] /\ session[s] = "live")
  BY ActivatedByLiveSession DEF PushInv
<1>2. QED
  BY <1>1, PushSafe, PTL DEF Spec, LogoutFencesRegistration
=============================================================================
