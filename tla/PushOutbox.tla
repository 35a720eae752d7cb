----------------------------- MODULE PushOutbox -----------------------------
(***************************************************************************)
(* Push notifications: the devices members register (app_installations),   *)
(* the account switch (user_preferences), and the outbox of deliveries     *)
(* that background workers drain (services/push_worker_service.py,         *)
(* push_lifecycle.py, push_locking.py; api/routes/product_services.py,     *)
(* auth.py, account.py, notifications.py).                                 *)
(*                                                                         *)
(* Every handler locks its user's row first and keeps it to its commit, so *)
(* a handler is one action that waits for the user's lock.  A worker keeps *)
(* that lock while it talks to the provider: its attempt is three actions. *)
(* A request is authenticated before its handler takes the lock (Admit),   *)
(* and may run when its session is long revoked.                           *)
(***************************************************************************)
EXTENDS Naturals, Sequences, FiniteSets, SequencesExt

CONSTANTS
  Users,
  Sessions, SessionOf,      \* login sessions, and whose they are
  Installations, Holder,    \* devices, and the user each belongs to
  Tokens,                   \* push tokens the provider hands to devices
  Notes,                    \* notifications
  Workers,
  Limit,                    \* the most deliveries a worker claims at once
  MaxAttempts,              \* MAX_PUSH_ATTEMPTS
  MaxCrashes                \* bound: how often a worker dies

ASSUME PushAssumption ==
  /\ SessionOf \in [Sessions -> Users]
  /\ Holder \in [Installations -> Users]
  /\ "none" \notin Tokens
  /\ "nobody" \notin Users /\ "deleted" \notin Users
  /\ IsFiniteSet(Notes \X Installations \X Tokens)
  /\ Limit \in Nat \ {0}
  /\ MaxAttempts \in Nat \ {0}
  /\ MaxCrashes \in Nat

VARIABLES
  session,      \* auth_sessions: absent, live or revoked
  admitted,     \* sessions with an authenticated request that has not run yet
  enabled,      \* user_preferences.notification_push_enabled
  switchedOn,   \* settings.push_enabled, the deployment's own switch
  device,       \* app_installations rows
  note,         \* the recipient of each notification
  delivery,     \* push_deliveries rows
  worker,       \* the deliveries a worker has claimed, and where it is
  accepted,     \* how often the provider took each delivery
  lost,         \* how often its answer was lost, on the way or with the worker
  crashes

memberVars == <<session, admitted, enabled, switchedOn>>
outboxVars == <<device, note, delivery>>
workerVars == <<worker, accepted, lost, crashes>>
vars == <<session, admitted, enabled, switchedOn, device, note, delivery,
          worker, accepted, lost, crashes>>

----------------------------------------------------------------------------
(* Rows *)

\* One delivery per notification, installation and token.
Deliveries == Notes \X Installations \X Tokens
NoteOf(d) == d[1]
DeviceOf(d) == d[2]
TokenOf(d) == d[3]
UserOf(d) == Holder[DeviceOf(d)]

Device == [known : BOOLEAN, revoked : BOOLEAN, token : Tokens \cup {"none"}]

Unsent == {"pending", "retry", "processing"}
Terminal == {"sent", "cancelled", "dead"}

\* due: next_attempt_at has come (retry), or the lease has expired (processing).
Delivery ==
  [status : {"absent"} \cup Unsent \cup Terminal,
   attempts : 0..MaxAttempts,
   due : BOOLEAN]

NoDelivery == [status |-> "absent", attempts |-> 0, due |-> FALSE]

\* "sending": the rows are locked and the provider is being called;
\* "accepted": it took the message, its answer and the commit are still to come.
Worker == [phase : {"idle", "draining", "sending", "accepted"},
           batch : Seq(Deliveries)]

Resting == [phase |-> "idle", batch |-> <<>>]

TypeOK ==
  /\ session \in [Sessions -> {"absent", "live", "revoked"}]
  /\ admitted \subseteq Sessions
  /\ enabled \in [Users -> BOOLEAN]
  /\ switchedOn \in BOOLEAN
  /\ device \in [Installations -> Device]
  /\ note \in [Notes -> Users \cup {"nobody", "deleted"}]
  /\ delivery \in [Deliveries -> Delivery]
  /\ worker \in [Workers -> Worker]
  /\ accepted \in [Deliveries -> Nat]
  /\ lost \in [Deliveries -> Nat]
  /\ crashes \in 0..MaxCrashes

Init ==
  /\ session = [s \in Sessions |-> "absent"]
  /\ admitted = {}
  /\ enabled = [u \in Users |-> FALSE]
  /\ switchedOn = TRUE
  /\ device = [i \in Installations |->
                 [known |-> FALSE, revoked |-> FALSE, token |-> "none"]]
  /\ note = [n \in Notes |-> "nobody"]
  /\ delivery = [d \in Deliveries |-> NoDelivery]
  /\ worker = [w \in Workers |-> Resting]
  /\ accepted = [d \in Deliveries |-> 0]
  /\ lost = [d \in Deliveries |-> 0]
  /\ crashes = 0

----------------------------------------------------------------------------
(* Locks and helpers *)

InFlight == {w \in Workers : worker[w].phase \in {"sending", "accepted"}}

\* The delivery a worker is at.
Current(w) == Head(worker[w].batch)

\* Mutant: the worker lets go of its locks before it calls the provider.
NeverLocked(u) == TRUE

\* Nobody holds the row lock of user u.
UserFree(u) == \A w \in InFlight : UserOf(Current(w)) # u

\* Nobody holds the row lock of delivery d.
DeliveryFree(d) == \A w \in InFlight : Current(w) # d

Active(i) == device[i].known /\ ~device[i].revoked

\* Mutant: deliveries that are done are cancelled as well.
CancelledAll(ds) ==
  [d \in Deliveries |->
     IF d \in ds /\ delivery[d].status # "absent"
       THEN [delivery[d] EXCEPT !.status = "cancelled", !.due = FALSE]
       ELSE delivery[d]]

\* cancel_unsent_deliveries
Cancelled(ds) ==
  [d \in Deliveries |->
     IF d \in ds /\ delivery[d].status \in Unsent
       THEN [delivery[d] EXCEPT !.status = "cancelled", !.due = FALSE]
       ELSE delivery[d]]

DeliveriesTo(I) == {d \in Deliveries : DeviceOf(d) \in I}
DevicesOf(u) == {i \in Installations : Holder[i] = u}

\* clear_installation_push of the installations I, revoking them if asked to.
Cleared(I, revoke) ==
  [i \in Installations |->
     IF i \in I
       THEN [device[i] EXCEPT !.token = "none",
                              !.revoked = @ \/ (revoke /\ device[i].known)]
       ELSE device[i]]

----------------------------------------------------------------------------
(* Requests of a member *)

Login(s) ==
  /\ session[s] = "absent"
  /\ UserFree(SessionOf[s])
  /\ session' = [session EXCEPT ![s] = "live"]
  /\ UNCHANGED <<admitted, enabled, switchedOn, outboxVars, workerVars>>

\* get_current_user accepts the session of a request, without a lock.
Admit(s) ==
  /\ session[s] = "live" /\ s \notin admitted
  /\ admitted' = admitted \cup {s}
  /\ UNCHANGED <<session, enabled, switchedOn, outboxVars, workerVars>>

\* The handler of an admitted request gets its user's lock.
Serve(s) ==
  /\ s \in admitted
  /\ UserFree(SessionOf[s])
  /\ admitted' = admitted \ {s}
  /\ UNCHANGED <<switchedOn, workerVars>>

\* Mutant: the session is not looked at again under the lock.
RegisterUnfenced(s, i) ==
  /\ Serve(s)
  /\ Holder[i] = SessionOf[s]
  /\ device' = [device EXCEPT ![i] = [known |-> TRUE, revoked |-> FALSE,
                  token |-> IF device[i].revoked THEN "none" ELSE device[i].token]]
  /\ delivery' = IF device[i].revoked THEN Cancelled(DeliveriesTo({i})) ELSE delivery
  /\ UNCHANGED <<session, enabled, note>>

\* The session is read again under the lock; a device that was revoked comes
\* back without its token.
RegisterInstallation(s, i) ==
  /\ Serve(s)
  /\ session[s] = "live"
  /\ Holder[i] = SessionOf[s]
  /\ device' = [device EXCEPT ![i] = [known |-> TRUE, revoked |-> FALSE,
                  token |-> IF device[i].revoked THEN "none" ELSE device[i].token]]
  /\ delivery' = IF device[i].revoked THEN Cancelled(DeliveriesTo({i})) ELSE delivery
  /\ UNCHANGED <<session, enabled, note>>

RevokeInstallation(s, i) ==
  /\ Serve(s)
  /\ device[i].known /\ Holder[i] = SessionOf[s]
  /\ device' = Cleared({i}, TRUE)
  /\ delivery' = Cancelled(DeliveriesTo({i}))
  /\ UNCHANGED <<session, enabled, note>>

\* Mutant: the deliveries to the token that is replaced are left waiting.
RegisterTokenOnly(s, i, token, enable) ==
  /\ Serve(s)
  /\ Active(i) /\ Holder[i] = SessionOf[s]
  /\ enabled[SessionOf[s]] \/ enable
  /\ \A j \in Installations \ {i} : device[j].token # token
  /\ enabled' = [enabled EXCEPT ![SessionOf[s]] = TRUE]
  /\ device' = [device EXCEPT ![i].token = token]
  /\ UNCHANGED <<session, note, delivery>>

\* A token another installation holds violates its unique index: nothing of the
\* request remains.
RegisterToken(s, i, token, enable) ==
  /\ Serve(s)
  /\ Active(i) /\ Holder[i] = SessionOf[s]
  /\ enabled[SessionOf[s]] \/ enable
  /\ \A j \in Installations \ {i} : device[j].token # token
  /\ enabled' = [enabled EXCEPT ![SessionOf[s]] = TRUE]
  /\ device' = [device EXCEPT ![i].token = token]
  /\ delivery' = Cancelled({d \in DeliveriesTo({i}) :
                    TokenOf(d) = device[i].token /\ TokenOf(d) # token})
  /\ UNCHANGED <<session, note>>

DeleteToken(s, i) ==
  /\ Serve(s)
  /\ device[i].known /\ Holder[i] = SessionOf[s]
  /\ device' = Cleared({i}, FALSE)
  /\ delivery' = Cancelled(DeliveriesTo({i}))
  /\ UNCHANGED <<session, enabled, note>>

EnablePush(s) ==
  /\ Serve(s)
  /\ enabled' = [enabled EXCEPT ![SessionOf[s]] = TRUE]
  /\ UNCHANGED <<session, outboxVars>>

\* disable_user_push
DisablePush(s) ==
  /\ Serve(s)
  /\ enabled' = [enabled EXCEPT ![SessionOf[s]] = FALSE]
  /\ device' = Cleared(DevicesOf(SessionOf[s]), FALSE)
  /\ delivery' = Cancelled(DeliveriesTo(DevicesOf(SessionOf[s])))
  /\ UNCHANGED <<session, note>>

RevokeSession(s, other) ==
  /\ Serve(s)
  /\ SessionOf[other] = SessionOf[s] /\ session[other] = "live"
  /\ session' = [session EXCEPT ![other] = "revoked"]
  /\ UNCHANGED <<enabled, outboxVars>>

LogoutAll(s) ==
  /\ Serve(s)
  /\ LET u == SessionOf[s] IN
       /\ session' = [t \in Sessions |->
            IF SessionOf[t] = u /\ session[t] = "live" THEN "revoked" ELSE session[t]]
       /\ device' = Cleared(DevicesOf(u), TRUE)
       /\ delivery' = Cancelled(DeliveriesTo(DevicesOf(u)))
  /\ UNCHANGED <<enabled, note>>

\* The handler refuses the request.
Refused(s) ==
  /\ Serve(s)
  /\ UNCHANGED <<session, enabled, outboxVars>>

\* A deleted notification takes its deliveries with it, once their rows are free.
DeleteNotification(s, n) ==
  /\ s \in admitted /\ note[n] = SessionOf[s]
  /\ \A d \in Deliveries : NoteOf(d) = n => DeliveryFree(d)
  /\ admitted' = admitted \ {s}
  /\ note' = [note EXCEPT ![n] = "deleted"]
  /\ delivery' = [d \in Deliveries |-> IF NoteOf(d) = n THEN NoDelivery ELSE delivery[d]]
  /\ UNCHANGED <<session, enabled, switchedOn, device, workerVars>>

\* create_notification and enqueue_push_deliveries: a delivery for each device of
\* the user that can be pushed to.
Notify(n, u) ==
  /\ note[n] = "nobody"
  /\ UserFree(u)
  /\ note' = [note EXCEPT ![n] = u]
  /\ delivery' = [d \in Deliveries |->
       IF /\ NoteOf(d) = n /\ UserOf(d) = u
          /\ switchedOn /\ enabled[u] /\ Active(DeviceOf(d)) /\ device[DeviceOf(d)].token = TokenOf(d)
         THEN [status |-> "pending", attempts |-> 0, due |-> TRUE]
         ELSE delivery[d]]
  /\ UNCHANGED <<memberVars, device, workerVars>>

----------------------------------------------------------------------------
(* The workers *)

\* Mutant: an expired lease is no reason to claim a delivery again.
ClaimableOnce == {d \in Deliveries :
                    /\ delivery[d].status \in {"pending", "retry"}
                    /\ delivery[d].due /\ DeliveryFree(d)}

\* Due, or left by a worker whose lease has expired; locked rows are skipped.
Claimable == {d \in Deliveries :
                /\ delivery[d].status \in Unsent
                /\ delivery[d].due /\ DeliveryFree(d)}

\* The backoff of a retry, or a lease, runs out.
TimePasses(d) ==
  /\ delivery[d].status \in {"retry", "processing"} /\ ~delivery[d].due
  /\ delivery' = [delivery EXCEPT ![d].due = TRUE]
  /\ UNCHANGED <<memberVars, device, note, workerVars>>

Claim(w) ==
  /\ worker[w].phase = "idle" /\ Claimable # {}
  /\ \E S \in SUBSET Claimable :
       /\ Cardinality(S) = IF Cardinality(Claimable) < Limit
                             THEN Cardinality(Claimable) ELSE Limit
       /\ \E batch \in SetToSeqs(S) :
            worker' = [worker EXCEPT ![w] = [phase |-> "draining", batch |-> batch]]
       /\ delivery' = [d \in Deliveries |->
            IF d \in S THEN [delivery[d] EXCEPT !.status = "processing", !.due = FALSE]
                       ELSE delivery[d]]
  /\ UNCHANGED <<memberVars, device, note, accepted, lost, crashes>>

\* The worker is done with its current delivery.
NextInBatch(w) ==
  worker' = [worker EXCEPT ![w] =
    IF Len(worker[w].batch) = 1 THEN Resting
    ELSE [phase |-> "draining", batch |-> Tail(worker[w].batch)]]

\* Mutant: whoever claimed a delivery goes on with it.
StillMineAnyway(d) == delivery[d].status # "absent"

\* Read again under the lock: somebody else may have dealt with the delivery.
StillMine(d) == delivery[d].status = "processing"

\* The user of the delivery wants pushes on the device, which has the token.
Reachable(d) ==
  /\ note[NoteOf(d)] = UserOf(d)
  /\ Active(DeviceOf(d))
  /\ enabled[UserOf(d)]
  /\ device[DeviceOf(d)].token = TokenOf(d)

Valid(d) == switchedOn /\ Reachable(d)

\* The delivery is no longer to be processed.
Ignore(w) ==
  /\ worker[w].phase = "draining"
  /\ ~StillMine(Current(w))
  /\ NextInBatch(w)
  /\ UNCHANGED <<memberVars, outboxVars, accepted, lost, crashes>>

\* The user, the installation and the delivery are locked.
StartSend(w) ==
  /\ worker[w].phase = "draining"
  /\ LET d == Current(w) IN
       /\ UserFree(UserOf(d)) /\ DeliveryFree(d)
       /\ StillMine(d) /\ Valid(d)
  /\ worker' = [worker EXCEPT ![w].phase = "sending"]
  /\ UNCHANGED <<memberVars, outboxVars, accepted, lost, crashes>>

\* Nothing can be pushed, or not to this device any more.
CancelInvalid(w) ==
  /\ worker[w].phase = "draining"
  /\ LET d == Current(w) IN
       /\ UserFree(UserOf(d)) /\ DeliveryFree(d)
       /\ StillMine(d) /\ ~Valid(d)
       /\ delivery' = Cancelled({d})
  /\ NextInBatch(w)
  /\ UNCHANGED <<memberVars, device, note, accepted, lost, crashes>>

ProviderAccepts(w) ==
  /\ worker[w].phase = "sending"
  /\ accepted' = [accepted EXCEPT ![Current(w)] = @ + 1]
  /\ worker' = [worker EXCEPT ![w].phase = "accepted"]
  /\ UNCHANGED <<memberVars, outboxVars, lost, crashes>>

CommitSent(w) ==
  /\ worker[w].phase = "accepted"
  /\ delivery' = [delivery EXCEPT ![Current(w)] =
       [status |-> "sent", attempts |-> delivery[Current(w)].attempts + 1,
        due |-> FALSE]]
  /\ NextInBatch(w)
  /\ UNCHANGED <<memberVars, device, note, accepted, lost, crashes>>

\* Mutant: off by one, a delivery is retried once too often.
RetriedOnceMore(row) ==
  [status |-> IF row.attempts > MaxAttempts THEN "dead" ELSE "retry",
   attempts |-> row.attempts + 1, due |-> FALSE]

\* _retry, the attempt just made included.
Retried(row) ==
  [status |-> IF row.attempts + 1 >= MaxAttempts THEN "dead" ELSE "retry",
   attempts |-> row.attempts + 1, due |-> FALSE]

\* The answer to a message the provider took never reaches the row.
AnswerLost(w) ==
  lost' = IF worker[w].phase = "accepted"
            THEN [lost EXCEPT ![Current(w)] = @ + 1] ELSE lost

\* The call raises: the provider is unreachable or refuses for now, the token
\* cannot be read, or the provider took the message and its answer does not come
\* back.  The worker cannot tell one from the other and will send again.
SendFails(w) ==
  /\ worker[w].phase \in {"sending", "accepted"}
  /\ delivery' = [delivery EXCEPT ![Current(w)] = Retried(delivery[Current(w)])]
  /\ AnswerLost(w)
  /\ NextInBatch(w)
  /\ UNCHANGED <<memberVars, device, note, accepted, crashes>>

\* The provider does not know the token: the device loses it, every waiting
\* delivery to the token or the device is cancelled, this one is dead.  The
\* attempt is not counted: the cancellation reads the row afresh.
TokenUnknown(w) ==
  /\ worker[w].phase = "sending"
  /\ LET d    == Current(w)
         gone == Cancelled({e \in Deliveries :
                   DeviceOf(e) = DeviceOf(d) \/ TokenOf(e) = TokenOf(d)})
     IN /\ device' = Cleared({DeviceOf(d)}, FALSE)
        /\ delivery' = [gone EXCEPT ![d] =
             [status |-> "dead", attempts |-> delivery[d].attempts, due |-> FALSE]]
  /\ NextInBatch(w)
  /\ UNCHANGED <<memberVars, note, accepted, lost, crashes>>

\* The worker dies: its open transaction is rolled back, its claims stay.
Crash(w) ==
  /\ worker[w].phase # "idle" /\ crashes < MaxCrashes
  /\ crashes' = crashes + 1
  /\ AnswerLost(w)
  /\ worker' = [worker EXCEPT ![w] = Resting]
  /\ UNCHANGED <<memberVars, outboxVars, accepted>>

\* The deployment turns push on or off, with its workers stopped.
Redeploy ==
  /\ \A w \in Workers : worker[w].phase = "idle"
  /\ switchedOn' = ~switchedOn
  /\ UNCHANGED <<session, admitted, enabled, outboxVars, workerVars>>

----------------------------------------------------------------------------
WorkerStep(w) ==
  \/ Claim(w) \/ Ignore(w) \/ StartSend(w) \/ CancelInvalid(w)
  \/ ProviderAccepts(w) \/ CommitSent(w) \/ SendFails(w) \/ TokenUnknown(w)

MemberStep(s) ==
  \/ Login(s) \/ Admit(s) \/ Refused(s)
  \/ EnablePush(s) \/ DisablePush(s) \/ LogoutAll(s)
  \/ \E other \in Sessions : RevokeSession(s, other)
  \/ \E i \in Installations :
       \/ RegisterInstallation(s, i) \/ RevokeInstallation(s, i) \/ DeleteToken(s, i)
       \/ \E token \in Tokens, enable \in BOOLEAN : RegisterToken(s, i, token, enable)
  \/ \E n \in Notes : DeleteNotification(s, n)

Next ==
  \/ \E s \in Sessions : MemberStep(s)
  \/ \E n \in Notes, u \in Users : Notify(n, u)
  \/ \E d \in Deliveries : TimePasses(d)
  \/ \E w \in Workers : WorkerStep(w) \/ Crash(w)
  \/ Redeploy

Spec == Init /\ [][Next]_vars

\* A worker loops for ever, and clocks advance.
FairSpec ==
  /\ Spec
  /\ \A w \in Workers : WF_vars(WorkerStep(w))
  /\ \A d \in Deliveries : WF_vars(TimePasses(d))

----------------------------------------------------------------------------
(* Correctness *)

\* A delivery that waits is for a device that can still be pushed to: whatever
\* replaces or removes a token, revokes a device or switches push off cancels
\* what was queued for it (push_lifecycle.py:14-67).
UnsentReachable ==
  \A d \in Deliveries : delivery[d].status \in Unsent => Reachable(d)

\* push_worker_service.py:79-81: a completed disable, revoke or logout fences any
\* send that has not already entered the provider call.  While a worker is in
\* that call, the device still holds the token and its user still wants pushes.
SendsFenced == \A w \in InFlight : Reachable(Current(w))

\* The provider takes a delivery again only when its answer to each time before
\* was lost, on the way back (push_provider.py:73-76) or with a worker that died
\* before its commit.  However many workers claimed the delivery when leases
\* expired, a message whose answer was committed is not sent again.
SentAgainOnlyUnanswered ==
  \A d \in Deliveries : delivery[d].status # "absent" =>
    accepted[d] = lost[d]
      + (IF \/ delivery[d].status = "sent"
            \/ \E w \in Workers : worker[w].phase = "accepted" /\ Current(w) = d
           THEN 1 ELSE 0)

\* A delivery that still waits has attempts left (push_worker_service.py:143-152).
AttemptsLeft ==
  \A d \in Deliveries :
    delivery[d].status \in Unsent => delivery[d].attempts < MaxAttempts

\* Whoever made the attempts, a lost answer is one that was counted or one that
\* a worker died with, and so is the answer that came.
AnswersCounted ==
  \A d \in Deliveries : delivery[d].status # "absent" =>
    lost[d] + (IF delivery[d].status = "sent" THEN 1 ELSE 0)
      <= delivery[d].attempts + crashes

\* A member is shown one notification on one device at most MAX_PUSH_ATTEMPTS
\* times, and once more for every worker that died, though retries, expired leases
\* and stale workers each send what another has sent (push_worker_service.py:113-152).
SendsBounded ==
  \A d \in Deliveries : delivery[d].status # "absent" =>
    accepted[d] <= MaxAttempts + crashes

\* A token is on one device: RegisterToken meets the unique index.
TokensUnique ==
  \A i, j \in Installations :
    device[i].token = device[j].token /\ device[i].token # "none" => i = j

\* What the locks of a worker keep: while it sends, its delivery stays
\* processing, and no other worker is at a delivery of the same user.
WorkersHoldTheirRows ==
  /\ \A w \in Workers : worker[w].phase # "idle" => worker[w].batch # <<>>
  /\ \A w \in InFlight : delivery[Current(w)].status = "processing"
  /\ \A v, w \in InFlight : UserOf(Current(v)) = UserOf(Current(w)) => v = w

\* A delivery is the recipient's, and none was sent before its notification.
DeliveriesFollowNotes ==
  \A d \in Deliveries :
    /\ delivery[d].status # "absent" => note[NoteOf(d)] = UserOf(d)
    /\ note[NoteOf(d)] = "nobody" => accepted[d] = 0 /\ lost[d] = 0

\* The inductive invariant: the locks a worker keeps through the provider call
\* are what lets no other handler or worker touch the rows it will write
\* (push_worker_service.py:79-88).
PushInv ==
  /\ TypeOK
  /\ UnsentReachable
  /\ SendsFenced
  /\ AttemptsLeft
  /\ SentAgainOnlyUnanswered
  /\ AnswersCounted
  /\ TokensUnique
  /\ WorkersHoldTheirRows
  /\ DeliveriesFollowNotes

\* What was sent, cancelled or given up stays so, whatever stale worker or late
\* cancellation comes by; only its notification can take it away.
TerminalIsFinal ==
  [][\A d \in Deliveries : delivery[d].status \in Terminal =>
       delivery'[d] \in {delivery[d], NoDelivery}]_vars

\* product_services.py:231-237: a request that was authenticated before its
\* user logged out everywhere does not bring a device back.
LogoutFencesRegistration ==
  [][\A i \in Installations : ~Active(i) /\ Active(i)' =>
       \E s \in Sessions : SessionOf[s] = Holder[i] /\ session[s] = "live"]_vars

\* Every delivery is sent, cancelled or given up in the end, though workers die
\* and the provider fails: leases expire and attempts run out.
Drained ==
  \A d \in Deliveries : []<>(delivery[d].status \notin Unsent)
============================================================================
