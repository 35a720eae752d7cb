---------------------------- MODULE AuthSessions ----------------------------
(***************************************************************************)
(* Login sessions and their rotating refresh credentials                   *)
(* (services/session_service.py, api/routes/auth.py, api/deps.py), the     *)
(* password reset by code, and the suspension of an account                *)
(* (api/routes/users.py), which all meet on the row of one user.           *)
(*                                                                         *)
(* Login verifies the password while it holds the user's row, so it is two *)
(* actions with the lock between them.  Refresh, logout and the reset look *)
(* something up without a lock, then lock the user and keep the row to     *)
(* their commit: a lookup and a commit each.  A request of a logged-in     *)
(* member is authenticated (Admit) before its handler takes the lock.      *)
(*                                                                         *)
(* A refresh credential is its session and its generation; every one ever  *)
(* issued may be presented at any time, again and by several requests.     *)
(***************************************************************************)
EXTENDS Naturals

CONSTANTS
  Users,
  Sessions, Owner,    \* session ids, and whose each will be
  Requests,           \* requests the workers of the API serve at once
  MaxGen,             \* bound: rotations of one session
  MaxPasswords,       \* bound: password resets of one user
  MaxCodes            \* bound: rows of reset codes of one user

ASSUME AuthAssumption ==
  /\ Owner \in [Sessions -> Users]
  /\ MaxGen \in Nat /\ MaxPasswords \in Nat /\ MaxCodes \in Nat

VARIABLES
  eligible,   \* users: is_active, verified, status active or alumni
  password,   \* users.password_hash, as a version
  code,       \* password_reset_otps: the row of each user
  session,    \* auth_sessions rows
  request,    \* where each request is
  spent       \* how often each credential was exchanged for a new one

vars == <<eligible, password, code, session, request, spent>>

----------------------------------------------------------------------------
(* Rows and requests *)

\* row counts the rows a user has had: a row deleted and inserted anew is
\* another row, one that is updated is the same.
Code == [row : 0..MaxCodes, present : BOOLEAN, expired : BOOLEAN]

\* password: the one its login verified.
Session ==
  [state : {"absent", "open", "revoked"}, expired : BOOLEAN,
   gen : 0..MaxGen, password : 0..MaxPasswords]

Idle == [at |-> "idle"]

Request ==
       [at : {"idle"}]
  \cup [at : {"login"}, user : Users, password : 0..MaxPasswords]
  \cup [at : {"refresh"}, session : Sessions, gen : 0..MaxGen]
  \cup [at : {"logout"}, session : Sessions, gen : 0..MaxGen, byAccess : BOOLEAN]
  \cup [at : {"ask", "reset"}, user : Users, code : Code]
  \cup [at : {"admitted"}, user : Users]

Issued(s) == session[s].state # "absent"

\* The row a refresh credential finds: the hash of older ones is gone.
Finds(s, g) == Issued(s) /\ session[s].gen = g

\* Mutant: login reads the user without FOR UPDATE.
LockedByNobody(u) == FALSE

\* Login keeps the row from its first read; the others lock it and commit in
\* one step.
Locked(u) == \E r \in Requests : request[r].at = "login" /\ request[r].user = u

Finish(r) == request' = [request EXCEPT ![r] = Idle]

Revoked(row) == IF row.state = "open" THEN [row EXCEPT !.state = "revoked"] ELSE row

SessionsWithout(u) ==
  [s \in Sessions |-> IF Owner[s] = u THEN Revoked(session[s]) ELSE session[s]]

Init ==
  /\ eligible = [u \in Users |-> TRUE]
  /\ password = [u \in Users |-> 0]
  /\ code = [u \in Users |-> [row |-> 0, present |-> FALSE, expired |-> FALSE]]
  /\ session = [s \in Sessions |->
       [state |-> "absent", expired |-> FALSE, gen |-> 0, password |-> 0]]
  /\ request = [r \in Requests |-> Idle]
  /\ spent = [s \in Sessions |-> [g \in 0..MaxGen |-> 0]]

----------------------------------------------------------------------------
(* Login *)

\* authenticate_user: the row is locked, then the password verified.
LoginVerify(r, u) ==
  /\ request[r] = Idle
  /\ ~Locked(u)
  /\ eligible[u]
  /\ request' = [request EXCEPT
       ![r] = [at |-> "login", user |-> u, password |-> password[u]]]
  /\ UNCHANGED <<eligible, password, code, session, spent>>

LoginCommit(r) ==
  /\ request[r].at = "login"
  /\ \E s \in Sessions :
       /\ Owner[s] = request[r].user
       /\ session[s].state = "absent"
       /\ session' = [session EXCEPT ![s].state = "open",
                                     ![s].password = request[r].password]
  /\ Finish(r)
  /\ UNCHANGED <<eligible, password, code, spent>>

\* The handler refuses or fails, or its process dies: whatever the phase,
\* nothing is written.
RolledBack(r) ==
  /\ request[r] # Idle
  /\ Finish(r)
  /\ UNCHANGED <<eligible, password, code, session, spent>>

----------------------------------------------------------------------------
(* Refresh *)

RefreshLookup(r, s, g) ==
  /\ request[r] = Idle
  /\ Finds(s, g)
  /\ request' = [request EXCEPT ![r] = [at |-> "refresh", session |-> s, gen |-> g]]
  /\ UNCHANGED <<eligible, password, code, session, spent>>

\* Mutant: the session is not read again by its credential under the lock.
RenewableAsLookedUp(s, g) ==
  eligible[Owner[s]] /\ session[s].state = "open" /\ ~session[s].expired

\* Mutant: revoked_at is left to the lookup.
RenewableIfFound(s, g) == eligible[Owner[s]] /\ Finds(s, g) /\ ~session[s].expired

\* Mutant: eligibility is left to the login.
RenewableForAnyone(s, g) ==
  Finds(s, g) /\ session[s].state = "open" /\ ~session[s].expired

\* What must hold under the locks: the credential is still the current one.
Renewable(s, g) ==
  /\ eligible[Owner[s]]
  /\ Finds(s, g)
  /\ session[s].state = "open"
  /\ ~session[s].expired

Rotate(r) ==
  LET s == request[r].session  g == request[r].gen IN
    /\ request[r].at = "refresh"
    /\ ~Locked(Owner[s])
    /\ Renewable(s, g)
    /\ session[s].gen < MaxGen
    /\ session' = [session EXCEPT ![s].gen = @ + 1]
    /\ spent' = [spent EXCEPT ![s][g] = @ + 1]
    /\ Finish(r)
    /\ UNCHANGED <<eligible, password, code>>

----------------------------------------------------------------------------
(* Logout of one session, of a listed one, of all *)

\* With a valid access token the session is the token's, whatever its
\* credential has become; without one the credential must still find it.
LogoutLookup(r, s, g, byAccess) ==
  /\ request[r] = Idle
  /\ IF byAccess THEN Issued(s) ELSE Finds(s, g)
  /\ request' = [request EXCEPT
       ![r] = [at |-> "logout", session |-> s, gen |-> g, byAccess |-> byAccess]]
  /\ UNCHANGED <<eligible, password, code, session, spent>>

\* Mutant: the credential alone identifies the session.
LogoutFindsByCredential(q) == Finds(q.session, q.gen)

LogoutFinds(q) == IF q.byAccess THEN Issued(q.session) ELSE Finds(q.session, q.gen)

\* Answers 204 whether or not it found a session to revoke.
Logout(r) ==
  LET s == request[r].session IN
    /\ request[r].at = "logout"
    /\ ~Locked(Owner[s])
    /\ session' = IF LogoutFinds(request[r])
                    THEN [session EXCEPT ![s] = Revoked(@)] ELSE session
    /\ Finish(r)
    /\ UNCHANGED <<eligible, password, code, spent>>

\* get_current_active_validated_user.
Admit(r, s) ==
  /\ request[r] = Idle
  /\ eligible[Owner[s]]
  /\ session[s].state = "open" /\ ~session[s].expired
  /\ request' = [request EXCEPT ![r] = [at |-> "admitted", user |-> Owner[s]]]
  /\ UNCHANGED <<eligible, password, code, session, spent>>

RevokeSession(r, s) ==
  /\ request[r].at = "admitted"
  /\ Owner[s] = request[r].user
  /\ Issued(s)
  /\ ~Locked(Owner[s])
  /\ session' = [session EXCEPT ![s] = Revoked(@)]
  /\ Finish(r)
  /\ UNCHANGED <<eligible, password, code, spent>>

\* The devices it revokes as well are in PushOutbox.
LogoutAll(r) ==
  /\ request[r].at = "admitted"
  /\ ~Locked(request[r].user)
  /\ session' = SessionsWithout(request[r].user)
  /\ Finish(r)
  /\ UNCHANGED <<eligible, password, code, spent>>

----------------------------------------------------------------------------
(* Password reset: neither step of the request for a code, nor the check of  *)
(* the code, locks anything.                                                 *)

ResetRead(r, u, at) ==
  /\ request[r] = Idle
  /\ request' = [request EXCEPT ![r] = [at |-> at, user |-> u, code |-> code[u]]]
  /\ UNCHANGED <<eligible, password, code, session, spent>>

AskLookup(r, u) == eligible[u] /\ ResetRead(r, u, "ask")

\* Mutant: the row is found by its user.
AnyRow(r) == code[request[r].user].present

SameRow(r) ==
  LET u == request[r].user IN
    code[u].present /\ code[u].row = request[r].code.row

\* The row read is updated.  When it has gone meanwhile the handler fails.
RenewCode(r) ==
  LET u == request[r].user IN
    /\ request[r].at = "ask"
    /\ request[r].code.present
    /\ SameRow(r)
    /\ code' = [code EXCEPT ![u].expired = FALSE]
    /\ Finish(r)
    /\ UNCHANGED <<eligible, password, session, spent>>

\* None was read: a row is inserted, unless another request was faster (the
\* user id is unique).  The foreign key waits for a locked user.
InsertCode(r) ==
  LET u == request[r].user IN
    /\ request[r].at = "ask"
    /\ ~request[r].code.present
    /\ ~code[u].present
    /\ ~Locked(u)
    /\ code[u].row < MaxCodes
    /\ code' = [code EXCEPT ![u] =
         [row |-> code[u].row + 1, present |-> TRUE, expired |-> FALSE]]
    /\ Finish(r)
    /\ UNCHANGED <<eligible, password, session, spent>>

\* The code presented is verified against the row as it is read.
ConfirmLookup(r, u) == code[u].present /\ ResetRead(r, u, "reset")

\* The delete is by the key of the row that was read.
CodeWithout(r) ==
  LET u == request[r].user IN
    IF SameRow(r) THEN [code EXCEPT ![u].present = FALSE] ELSE code

DropExpiredCode(r) ==
  /\ request[r].at = "reset"
  /\ request[r].code.expired
  /\ code' = CodeWithout(r)
  /\ Finish(r)
  /\ UNCHANGED <<eligible, password, session, spent>>

Confirm(r) ==
  LET u == request[r].user IN
    /\ request[r].at = "reset"
    /\ ~request[r].code.expired
    /\ ~Locked(u)
    /\ password[u] < MaxPasswords
    /\ password' = [password EXCEPT ![u] = @ + 1]
    /\ session' = SessionsWithout(u)
    /\ code' = CodeWithout(r)
    /\ Finish(r)
    /\ UNCHANGED <<eligible, spent>>

----------------------------------------------------------------------------
(* The account and the clock *)

\* suspend_user and reactivate_user lock the user.  Neither touches sessions.
SetEligible(u) ==
  /\ ~Locked(u)
  /\ eligible' = [eligible EXCEPT ![u] = ~@]
  /\ UNCHANGED <<password, code, session, request, spent>>

SessionExpires(s) ==
  /\ Issued(s) /\ ~session[s].expired
  /\ session' = [session EXCEPT ![s].expired = TRUE]
  /\ UNCHANGED <<eligible, password, code, request, spent>>

CodeExpires(u) ==
  /\ code[u].present /\ ~code[u].expired
  /\ code' = [code EXCEPT ![u].expired = TRUE]
  /\ UNCHANGED <<eligible, password, session, request, spent>>

Handler(r) ==
  \/ LoginCommit(r)
  \/ RolledBack(r)
  \/ Rotate(r)
  \/ Logout(r)
  \/ LogoutAll(r)
  \/ RenewCode(r)
  \/ InsertCode(r)
  \/ DropExpiredCode(r)
  \/ Confirm(r)
  \/ \E u \in Users : LoginVerify(r, u) \/ AskLookup(r, u) \/ ConfirmLookup(r, u)
  \/ \E s \in Sessions : Admit(r, s) \/ RevokeSession(r, s)
  \/ \E s \in Sessions, g \in 0..MaxGen : RefreshLookup(r, s, g)
  \/ \E s \in Sessions, g \in 0..MaxGen, b \in BOOLEAN : LogoutLookup(r, s, g, b)

Next ==
  \/ \E r \in Requests : Handler(r)
  \/ \E u \in Users : SetEligible(u) \/ CodeExpires(u)
  \/ \E s \in Sessions : SessionExpires(s)

Spec == Init /\ [][Next]_vars

----------------------------------------------------------------------------
(* Properties *)

TypeOK ==
  /\ eligible \in [Users -> BOOLEAN]
  /\ password \in [Users -> 0..MaxPasswords]
  /\ code \in [Users -> Code]
  /\ session \in [Sessions -> Session]
  /\ request \in [Requests -> Request]
  /\ spent \in [Sessions -> [0..MaxGen -> Nat]]

\* No session outlives the password its login verified: a reset ends those
\* there are, and a login that verified the old password before the reset
\* cannot create another after it (auth.py:72-78, 320-321).
SessionsFollowPassword ==
  \A s \in Sessions : session[s].state = "open" =>
    session[s].password = password[Owner[s]]

\* One credential produces one pair, however often, late and concurrently it
\* is presented (session_service.py:102-111).
ExchangedOnce == \A s \in Sessions, g \in 0..MaxGen : spent[s][g] <= 1

\* A login in progress has verified what is still the password of a user who
\* is still eligible.
VerifiedUnderLock ==
  \A r \in Requests : request[r].at = "login" =>
    /\ request[r].password = password[request[r].user]
    /\ eligible[request[r].user]

\* Only credentials that are no longer current have been exchanged.
SpentBeforeCurrent ==
  \A s \in Sessions, g \in 0..MaxGen : g >= session[s].gen => spent[s][g] = 0

\* The inductive invariant: why a verified password is still the password when
\* the session is created, and an exchanged credential no longer current
\* (auth.py:72-78, session_service.py:105-120).
AuthInv ==
  /\ TypeOK
  /\ SessionsFollowPassword
  /\ VerifiedUnderLock
  /\ SpentBeforeCurrent
  /\ ExchangedOnce

\* A revoked session stays revoked and never gets another credential, whatever
\* was looked up before the revocation (session_service.py:112-117).
RevokedIsFinal ==
  [][\A s \in Sessions : session[s].state = "revoked" =>
       session'[s].state = "revoked" /\ session'[s].gen = session[s].gen]_vars

\* A logout that completes leaves its session revoked, even when a refresh
\* replaced the credential while it waited; only one that came without an
\* access token can miss a session so (session_service.py:139-162).
LogoutEnds ==
  [][\A r \in Requests : Logout(r) =>
       LET q == request[r] IN
         \/ session'[q.session].state = "revoked"
         \/ ~q.byAccess /\ q.gen < session[q.session].gen]_vars

\* Nobody gets a session or a credential while suspended, though the request
\* was looked up before (session_service.py:73, 99).
SuspendedGetNothing ==
  [][\A s \in Sessions :
       \/ session'[s].gen # session[s].gen
       \/ session'[s].state = "open" /\ session[s].state # "open"
       => eligible[Owner[s]]]_vars

\* A confirmation takes away the row it has read, whatever code was put into it
\* since, and never a row inserted after that one was used up: a slow request
\* cannot destroy the code of a later reset (auth.py:289-291, 331).
OnlyTheCodeReadIsSpent ==
  [][\A u \in Users : code[u].present /\ ~code'[u].present =>
       \E r \in Requests :
         /\ request[r].at = "reset" /\ request'[r] = Idle
         /\ request[r].user = u
         /\ request[r].code.row = code[u].row]_vars
=============================================================================
