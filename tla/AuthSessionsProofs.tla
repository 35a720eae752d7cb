------------------------- MODULE AuthSessionsProofs -------------------------
(***************************************************************************)
(* Theorems about AuthSessions, for any number of users, sessions and      *)
(* requests.  The inductive invariant is AuthInv: VerifiedUnderLock carries *)
(* the password from the verification to the new session, because every    *)
(* action that changes a password waits for the lock; SpentBeforeCurrent   *)
(* says that what Rotate exchanges was not exchanged before.               *)
(***************************************************************************)
EXTENDS AuthSessions, TLAPS

\* What a request holds in each phase.
LEMMA RequestFields ==
  ASSUME TypeOK, NEW r \in Requests
  PROVE  /\ request[r].at = "login" =>
              request[r].user \in Users /\ request[r].password \in 0..MaxPasswords
         /\ request[r].at = "refresh" =>
              request[r].session \in Sessions /\ request[r].gen \in 0..MaxGen
         /\ request[r].at = "logout" =>
              /\ request[r].session \in Sessions /\ request[r].gen \in 0..MaxGen
              /\ request[r].byAccess \in BOOLEAN
         /\ request[r].at \in {"ask", "reset"} =>
              request[r].user \in Users /\ request[r].code \in Code
         /\ request[r].at = "admitted" => request[r].user \in Users
<1>1. request[r] \in Request
  BY DEF TypeOK
<1>2. QED
  BY <1>1 DEF Request

\* A request that finishes leaves the others as they are.
LEMMA FinishFields ==
  ASSUME TypeOK, NEW r \in Requests, Finish(r)
  PROVE  /\ request' \in [Requests -> Request]
         /\ \A q \in Requests : request'[q] = (IF q = r THEN Idle ELSE request[q])
         /\ Idle.at = "idle"
BY DEF TypeOK, Finish, Idle, Request

\* A request that starts anything but a login cannot break VerifiedUnderLock.
LEMMA OtherRequests ==
  ASSUME TypeOK, VerifiedUnderLock, NEW r \in Requests, NEW q \in Request,
         q.at # "login", request' = [request EXCEPT ![r] = q],
         UNCHANGED <<password, eligible>>
  PROVE  VerifiedUnderLock'
BY DEF TypeOK, VerifiedUnderLock

\* Revoking keeps a row's type, its credential and its password, and opens none.
LEMMA RevokedRow ==
  ASSUME NEW row \in Session
  PROVE  /\ Revoked(row) \in Session
         /\ Revoked(row).state # "open"
         /\ Revoked(row).gen = row.gen
         /\ Revoked(row).password = row.password
         /\ row.state = "revoked" => Revoked(row) = row
BY DEF Revoked, Session

LEMMA SessionsWithoutUser ==
  ASSUME TypeOK, NEW u \in Users
  PROVE  /\ SessionsWithout(u) \in [Sessions -> Session]
         /\ \A s \in Sessions :
              /\ Owner[s] = u => SessionsWithout(u)[s].state # "open"
              /\ Owner[s] # u => SessionsWithout(u)[s] = session[s]
              /\ SessionsWithout(u)[s].gen = session[s].gen
              /\ SessionsWithout(u)[s].password = session[s].password
              /\ SessionsWithout(u)[s].state = "open" => session[s].state = "open"
              /\ session[s].state = "revoked" => SessionsWithout(u)[s] = session[s]
BY RevokedRow DEF TypeOK, SessionsWithout

LEMMA SessionsWithoutIssued ==
  ASSUME TypeOK, NEW u \in Users, NEW s \in Sessions, session[s].state # "absent"
  PROVE  SessionsWithout(u)[s].state # "absent"
BY DEF SessionsWithout, Revoked, TypeOK, Session

\* Actions that neither open a session nor touch a credential or a password.
LEMMA SessionsClosed ==
  ASSUME AuthInv, UNCHANGED <<password, spent>>,
         \A s \in Sessions :
           /\ session'[s].gen = session[s].gen
           /\ session'[s].password = session[s].password
           /\ session'[s].state = "open" => session[s].state = "open"
  PROVE  SessionsFollowPassword' /\ SpentBeforeCurrent' /\ ExchangedOnce'
BY DEF AuthInv, SessionsFollowPassword, SpentBeforeCurrent, ExchangedOnce

LEMMA InitStep == Init => AuthInv
<1> USE AuthAssumption
<1>1. ASSUME Init PROVE AuthInv
  <2>1. TypeOK
    BY <1>1 DEF Init, TypeOK, Code, Session, Request, Idle
  <2>2. SessionsFollowPassword /\ VerifiedUnderLock
    BY <1>1 DEF Init, SessionsFollowPassword, VerifiedUnderLock, Idle
  <2>3. SpentBeforeCurrent /\ ExchangedOnce
    BY <1>1 DEF Init, SpentBeforeCurrent, ExchangedOnce
  <2>4. QED
    BY <2>1, <2>2, <2>3 DEF AuthInv
<1>2. QED
  BY <1>1

----------------------------------------------------------------------------
(* One lemma per kind of step *)

\* Requests that start: nothing but the request changes.
LEMMA StartStep ==
  ASSUME AuthInv, NEW r \in Requests, NEW q \in Request,
         request' = [request EXCEPT ![r] = q],
         q.at = "login" => q.password = password[q.user] /\ eligible[q.user],
         UNCHANGED <<eligible, password, code, session, spent>>
  PROVE  AuthInv'
<1>1. TypeOK'
  BY DEF AuthInv, TypeOK
<1>2. VerifiedUnderLock'
  BY DEF AuthInv, TypeOK, VerifiedUnderLock
<1>3. SessionsFollowPassword' /\ SpentBeforeCurrent' /\ ExchangedOnce'
  BY DEF AuthInv, SessionsFollowPassword, SpentBeforeCurrent, ExchangedOnce
<1>4. QED
  BY <1>1, <1>2, <1>3 DEF AuthInv

\* Requests that only finish, or close sessions while they do.
LEMMA CloseStep ==
  ASSUME AuthInv, NEW r \in Requests, Finish(r),
         session' \in [Sessions -> Session],
         \A s \in Sessions :
           /\ session'[s].gen = session[s].gen
           /\ session'[s].password = session[s].password
           /\ session'[s].state = "open" => session[s].state = "open",
         code' \in [Users -> Code],
         UNCHANGED <<eligible, password, spent>>
  PROVE  AuthInv'
<1>1. TypeOK
  BY DEF AuthInv
<1>2. TypeOK'
  BY <1>1, FinishFields DEF TypeOK
<1>3. VerifiedUnderLock'
  BY <1>1, FinishFields DEF AuthInv, VerifiedUnderLock
<1>4. SessionsFollowPassword' /\ SpentBeforeCurrent' /\ ExchangedOnce'
  BY SessionsClosed
<1>5. QED
  BY <1>2, <1>3, <1>4 DEF AuthInv

LEMMA StartingStep ==
  ASSUME AuthInv, NEW r \in Requests,
         \/ \E u \in Users : LoginVerify(r, u) \/ AskLookup(r, u) \/ ConfirmLookup(r, u)
         \/ \E s \in Sessions : Admit(r, s)
         \/ \E s \in Sessions, g \in 0..MaxGen : RefreshLookup(r, s, g)
         \/ \E s \in Sessions, g \in 0..MaxGen, b \in BOOLEAN : LogoutLookup(r, s, g, b)
  PROVE  AuthInv'
<1> USE AuthAssumption
<1>1. TypeOK
  BY DEF AuthInv
<1>2. ASSUME NEW u \in Users, LoginVerify(r, u) PROVE AuthInv'
  <2> DEFINE q == [at |-> "login", user |-> u, password |-> password[u]]
  <2>1. q \in Request /\ q.password = password[q.user] /\ eligible[q.user]
    BY <1>1, <1>2 DEF LoginVerify, Request, TypeOK
  <2>2. QED
    BY <1>2, <2>1, StartStep DEF LoginVerify
<1>3. ASSUME NEW u \in Users, NEW at \in {"ask", "reset"}, ResetRead(r, u, at) PROVE AuthInv'
  <2> DEFINE q == [at |-> at, user |-> u, code |-> code[u]]
  <2>1. q \in Request /\ q.at # "login"
    BY <1>1, <1>3 DEF Request, TypeOK
  <2>2. QED
    BY <1>3, <2>1, StartStep DEF ResetRead
<1>4. ASSUME NEW u \in Users, AskLookup(r, u) \/ ConfirmLookup(r, u) PROVE AuthInv'
  BY <1>3, <1>4 DEF AskLookup, ConfirmLookup
<1>5. ASSUME NEW s \in Sessions, Admit(r, s) PROVE AuthInv'
  <2> DEFINE q == [at |-> "admitted", user |-> Owner[s]]
  <2>1. q \in Request /\ q.at # "login"
    BY DEF Request
  <2>2. QED
    BY <1>5, <2>1, StartStep DEF Admit
<1>6. ASSUME NEW s \in Sessions, NEW g \in 0..MaxGen, RefreshLookup(r, s, g)
      PROVE  AuthInv'
  <2> DEFINE q == [at |-> "refresh", session |-> s, gen |-> g]
  <2>1. q \in Request /\ q.at # "login"
    BY DEF Request
  <2>2. QED
    BY <1>6, <2>1, StartStep DEF RefreshLookup
<1>7. ASSUME NEW s \in Sessions, NEW g \in 0..MaxGen, NEW b \in BOOLEAN,
             LogoutLookup(r, s, g, b)
      PROVE  AuthInv'
  <2> DEFINE q == [at |-> "logout", session |-> s, gen |-> g, byAccess |-> b]
  <2>1. q \in Request /\ q.at # "login"
    BY DEF Request
  <2>2. QED
    BY <1>7, <2>1, StartStep DEF LogoutLookup
<1>8. QED
  BY <1>2, <1>4, <1>5, <1>6, <1>7

\* The session gets the password that was verified, which the lock has kept.
LEMMA LoginCommitStep ==
  ASSUME AuthInv, NEW r \in Requests, LoginCommit(r)
  PROVE  AuthInv'
<1> USE AuthAssumption
<1>1. TypeOK /\ VerifiedUnderLock
  BY DEF AuthInv
<1>2. PICK s \in Sessions :
        /\ Owner[s] = request[r].user
        /\ session[s].state = "absent"
        /\ session' = [session EXCEPT ![s].state = "open",
                                      ![s].password = request[r].password]
  BY DEF LoginCommit
<1>3. /\ request[r].at = "login" /\ Finish(r)
      /\ UNCHANGED <<eligible, password, code, spent>>
  BY DEF LoginCommit
<1>4. request[r].password \in 0..MaxPasswords /\ request[r].password = password[Owner[s]]
  BY <1>1, <1>2, <1>3, RequestFields DEF VerifiedUnderLock
<1>5. /\ session' \in [Sessions -> Session]
      /\ \A x \in Sessions : session'[x].gen = session[x].gen
      /\ \A x \in Sessions : x # s => session'[x] = session[x]
      /\ session'[s].password = request[r].password
  BY <1>1, <1>2, <1>4, ZenonT(60) DEF TypeOK, Session
<1>6. TypeOK'
  BY <1>1, <1>3, <1>5, FinishFields DEF TypeOK
<1>7. SessionsFollowPassword'
  BY <1>3, <1>4, <1>5 DEF AuthInv, SessionsFollowPassword
<1>8. VerifiedUnderLock'
  BY <1>1, <1>3, FinishFields DEF VerifiedUnderLock
<1>9. SpentBeforeCurrent' /\ ExchangedOnce'
  BY <1>3, <1>5 DEF AuthInv, SpentBeforeCurrent, ExchangedOnce
<1>10. QED
  BY <1>6, <1>7, <1>8, <1>9 DEF AuthInv

\* The credential exchanged is the current one, which was never exchanged.
LEMMA RotateStep ==
  ASSUME AuthInv, NEW r \in Requests, Rotate(r)
  PROVE  AuthInv'
<1> DEFINE s == request[r].session
           g == request[r].gen
<1>1. TypeOK
  BY DEF AuthInv
<1>2. s \in Sessions /\ g \in 0..MaxGen
  BY <1>1, RequestFields DEF Rotate
<1>3. session[s].gen = g /\ session[s].gen < MaxGen
  BY DEF Rotate, Renewable, Finds
<1>4. /\ session' = [session EXCEPT ![s].gen = @ + 1]
      /\ spent' = [spent EXCEPT ![s][g] = @ + 1]
      /\ Finish(r) /\ UNCHANGED <<eligible, password, code>>
  BY DEF Rotate
<1> HIDE DEF s, g
<1>5. /\ session' \in [Sessions -> Session]
      /\ session'[s].gen = g + 1
      /\ \A x \in Sessions : x # s => session'[x] = session[x]
      /\ \A x \in Sessions : /\ session'[x].state = session[x].state
                               /\ session'[x].password = session[x].password
  <2> DEFINE row == [session[s] EXCEPT !.gen = g + 1]
  <2>1. session[s] \in Session /\ g + 1 \in 0..MaxGen
    BY <1>1, <1>2, <1>3, AuthAssumption DEF TypeOK
  <2>2. /\ row \in Session /\ row.gen = g + 1
        /\ row.state = session[s].state /\ row.password = session[s].password
    BY <2>1 DEF Session
  <2>3. session' = [session EXCEPT ![s] = row]
    BY <1>3, <1>4
  <2> HIDE DEF row
  <2>4. QED
    BY <1>1, <1>2, <2>2, <2>3 DEF TypeOK
<1>6. spent[s][g] = 0
  BY <1>2, <1>3 DEF AuthInv, SpentBeforeCurrent
<1>7. /\ spent' \in [Sessions -> [0..MaxGen -> Nat]]
      /\ spent'[s][g] = 1
      /\ \A x \in Sessions, h \in 0..MaxGen :
           x # s \/ h # g => spent'[x][h] = spent[x][h]
  <2>1. spent[s] \in [0..MaxGen -> Nat]
    BY <1>1, <1>2 DEF TypeOK
  <2>2. spent' = [spent EXCEPT ![s] = [spent[s] EXCEPT ![g] = 1]]
    BY <1>4, <1>6
  <2>3. QED
    BY <1>1, <1>2, <2>1, <2>2 DEF TypeOK
<1>8. TypeOK'
  BY <1>1, <1>4, <1>5, <1>7, FinishFields DEF TypeOK
<1>9. SessionsFollowPassword'
  BY <1>4, <1>5 DEF AuthInv, SessionsFollowPassword
<1>10. VerifiedUnderLock'
  BY <1>1, <1>4, FinishFields DEF AuthInv, VerifiedUnderLock
<1>11. SpentBeforeCurrent'
  <2> SUFFICES ASSUME NEW x \in Sessions, NEW h \in 0..MaxGen, h >= session'[x].gen
               PROVE  spent'[x][h] = 0
    BY DEF SpentBeforeCurrent
  <2>1. CASE x = s
    BY <1>2, <1>3, <1>5, <1>7, <2>1, AuthAssumption DEF AuthInv, SpentBeforeCurrent
  <2>2. CASE x # s
    BY <1>5, <1>7, <2>2 DEF AuthInv, SpentBeforeCurrent
  <2>3. QED
    BY <2>1, <2>2
<1>12. ExchangedOnce'
  <2> SUFFICES ASSUME NEW x \in Sessions, NEW h \in 0..MaxGen
               PROVE  spent'[x][h] <= 1
    BY DEF ExchangedOnce
  <2>1. CASE x = s /\ h = g
    BY <1>7, <2>1
  <2>2. CASE x # s \/ h # g
    BY <1>7, <2>2 DEF AuthInv, ExchangedOnce
  <2>3. QED
    BY <2>1, <2>2
<1>13. QED
  BY <1>8, <1>9, <1>10, <1>11, <1>12 DEF AuthInv

\* The password changes and every session of the user is closed; no login can
\* be between its verification and its commit.
LEMMA ConfirmStep ==
  ASSUME AuthInv, NEW r \in Requests, Confirm(r)
  PROVE  AuthInv'
<1> DEFINE u == request[r].user
<1>1. TypeOK
  BY DEF AuthInv
<1>2. u \in Users
  BY <1>1, RequestFields DEF Confirm
<1>3. /\ ~Locked(u)
      /\ password[u] < MaxPasswords
      /\ password' = [password EXCEPT ![u] = @ + 1]
      /\ session' = SessionsWithout(u)
      /\ code' = CodeWithout(r)
      /\ Finish(r)
      /\ UNCHANGED <<eligible, spent>>
  BY DEF Confirm
<1>4. code' \in [Users -> Code]
  BY <1>1, <1>2, <1>3 DEF CodeWithout, TypeOK, Code
<1> HIDE DEF u
<1>5. /\ password' \in [Users -> 0..MaxPasswords]
      /\ \A v \in Users : v # u => password'[v] = password[v]
  BY <1>1, <1>2, <1>3, AuthAssumption DEF TypeOK
<1>6. TypeOK'
  BY <1>1, <1>2, <1>3, <1>4, <1>5, FinishFields, SessionsWithoutUser DEF TypeOK
<1>7. SessionsFollowPassword'
  <2> SUFFICES ASSUME NEW s \in Sessions, session'[s].state = "open"
               PROVE  session'[s].password = password'[Owner[s]]
    BY DEF SessionsFollowPassword
  <2>1. Owner[s] # u /\ session'[s] = session[s] /\ Owner[s] \in Users
    BY <1>1, <1>2, <1>3, SessionsWithoutUser, AuthAssumption
  <2>2. QED
    BY <1>5, <2>1 DEF AuthInv, SessionsFollowPassword
<1>8. VerifiedUnderLock'
  <2> SUFFICES ASSUME NEW q \in Requests, request'[q].at = "login"
               PROVE  /\ request'[q].password = password'[request'[q].user]
                      /\ eligible'[request'[q].user]
    BY DEF VerifiedUnderLock
  <2>1. q # r /\ request'[q] = request[q]
    BY <1>1, <1>3, FinishFields
  <2>2. request[q].user \in Users /\ request[q].user # u
    BY <1>1, <1>3, <2>1, RequestFields DEF Locked
  <2>3. QED
    BY <1>3, <1>5, <2>1, <2>2 DEF AuthInv, VerifiedUnderLock
<1>9. SpentBeforeCurrent' /\ ExchangedOnce'
  BY <1>1, <1>2, <1>3, SessionsWithoutUser DEF AuthInv, SpentBeforeCurrent, ExchangedOnce
<1>10. QED
  BY <1>6, <1>7, <1>8, <1>9 DEF AuthInv

\* The other steps leave logins, passwords and credentials alone; those of the
\* account and the clock do so without a request.
LEMMA ClosingStep ==
  ASSUME AuthInv, NEW r \in Requests,
         \/ RolledBack(r) \/ Logout(r) \/ LogoutAll(r)
         \/ \E s \in Sessions : RevokeSession(r, s)
         \/ RenewCode(r) \/ InsertCode(r) \/ DropExpiredCode(r)
  PROVE  AuthInv'
<1> USE AuthAssumption
<1>1. TypeOK
  BY DEF AuthInv
<1>2. ASSUME NEW s \in Sessions, session' = [session EXCEPT ![s] = Revoked(@)],
             Finish(r), UNCHANGED <<eligible, password, code, spent>>
      PROVE  AuthInv'
  <2>1. session[s] \in Session
    BY <1>1 DEF TypeOK
  <2>2. /\ session' \in [Sessions -> Session]
        /\ \A y \in Sessions :
             /\ session'[y].gen = session[y].gen
             /\ session'[y].password = session[y].password
             /\ session'[y].state = "open" => session[y].state = "open"
    BY <1>1, <1>2, <2>1, RevokedRow DEF TypeOK
  <2>3. code' \in [Users -> Code]
    BY <1>1, <1>2 DEF TypeOK
  <2>4. QED
    BY <1>2, <2>2, <2>3, CloseStep
<1>3. ASSUME code' \in [Users -> Code], Finish(r),
             UNCHANGED <<eligible, password, session, spent>>
      PROVE  AuthInv'
  BY <1>1, <1>3, CloseStep DEF TypeOK
<1>4. CASE RolledBack(r)
  BY <1>1, <1>3, <1>4 DEF RolledBack, TypeOK
<1>5. CASE Logout(r)
  <2>1. request[r].session \in Sessions
    BY <1>1, <1>5, RequestFields DEF Logout
  <2>2. QED
    BY <1>1, <1>2, <1>3, <1>5, <2>1 DEF Logout, TypeOK
<1>6. CASE LogoutAll(r)
  <2>1. request[r].user \in Users
    BY <1>1, <1>6, RequestFields DEF LogoutAll
  <2>2. /\ session' = SessionsWithout(request[r].user)
        /\ Finish(r) /\ UNCHANGED <<eligible, password, code, spent>>
    BY <1>6 DEF LogoutAll
  <2>3. /\ session' \in [Sessions -> Session]
        /\ \A y \in Sessions :
             /\ session'[y].gen = session[y].gen
             /\ session'[y].password = session[y].password
             /\ session'[y].state = "open" => session[y].state = "open"
    BY <1>1, <2>1, <2>2, SessionsWithoutUser
  <2>4. code' \in [Users -> Code]
    BY <1>1, <2>2 DEF TypeOK
  <2>5. QED
    BY <2>2, <2>3, <2>4, CloseStep
<1>7. ASSUME NEW s \in Sessions, RevokeSession(r, s) PROVE AuthInv'
  BY <1>2, <1>7 DEF RevokeSession
<1>8. CASE RenewCode(r)
  <2>1. request[r].user \in Users
    BY <1>1, <1>8, RequestFields DEF RenewCode
  <2>2. code' \in [Users -> Code]
    BY <1>1, <1>8, <2>1 DEF RenewCode, TypeOK, Code
  <2>3. QED
    BY <1>3, <1>8, <2>2 DEF RenewCode
<1>9. CASE InsertCode(r)
  <2>1. request[r].user \in Users
    BY <1>1, <1>9, RequestFields DEF InsertCode
  <2>2. code[request[r].user].row + 1 \in 0..MaxCodes
    BY <1>1, <1>9, <2>1 DEF InsertCode, TypeOK, Code
  <2>3. code' \in [Users -> Code]
    BY <1>1, <1>9, <2>1, <2>2 DEF InsertCode, TypeOK, Code
  <2>4. QED
    BY <1>3, <1>9, <2>3 DEF InsertCode
<1>10. CASE DropExpiredCode(r)
  <2>1. request[r].user \in Users
    BY <1>1, <1>10, RequestFields DEF DropExpiredCode
  <2>2. code' \in [Users -> Code]
    BY <1>1, <1>10, <2>1 DEF DropExpiredCode, CodeWithout, TypeOK, Code
  <2>3. QED
    BY <1>3, <1>10, <2>2 DEF DropExpiredCode
<1>11. QED
  BY <1>4, <1>5, <1>6, <1>7, <1>8, <1>9, <1>10

LEMMA AccountStep ==
  ASSUME AuthInv,
         \/ \E u \in Users : SetEligible(u) \/ CodeExpires(u)
         \/ \E s \in Sessions : SessionExpires(s)
  PROVE  AuthInv'
<1>1. TypeOK /\ VerifiedUnderLock
  BY DEF AuthInv
<1>2. ASSUME NEW u \in Users, SetEligible(u) PROVE AuthInv'
  <2>1. ~Locked(u) /\ eligible' = [eligible EXCEPT ![u] = ~@]
        /\ UNCHANGED <<password, code, session, request, spent>>
    BY <1>2 DEF SetEligible
  <2>2. TypeOK'
    BY <1>1, <2>1 DEF TypeOK
  <2>3. VerifiedUnderLock'
    BY <1>1, <2>1, RequestFields DEF VerifiedUnderLock, Locked, TypeOK
  <2>4. QED
    BY <2>1, <2>2, <2>3 DEF AuthInv, SessionsFollowPassword, SpentBeforeCurrent, ExchangedOnce
<1>3. ASSUME NEW u \in Users, CodeExpires(u) PROVE AuthInv'
  <2>1. /\ code' = [code EXCEPT ![u].expired = TRUE]
        /\ UNCHANGED <<eligible, password, session, request, spent>>
    BY <1>3 DEF CodeExpires
  <2>2. code[u] \in Code
    BY <1>1 DEF TypeOK
  <2>3. code' \in [Users -> Code]
    BY <1>1, <2>1, <2>2 DEF TypeOK, Code
  <2>4. TypeOK' /\ VerifiedUnderLock'
    BY <1>1, <2>1, <2>3 DEF TypeOK, VerifiedUnderLock
  <2>5. QED
    BY <2>1, <2>4 DEF AuthInv, SessionsFollowPassword, SpentBeforeCurrent, ExchangedOnce
<1>4. ASSUME NEW s \in Sessions, SessionExpires(s) PROVE AuthInv'
  <2>1. session[s] \in Session
    BY <1>1 DEF TypeOK
  <2>2. /\ session' \in [Sessions -> Session]
        /\ \A y \in Sessions :
             /\ session'[y].gen = session[y].gen
             /\ session'[y].password = session[y].password
             /\ session'[y].state = session[y].state
    BY <1>1, <1>4, <2>1 DEF SessionExpires, TypeOK, Session
  <2>3. UNCHANGED <<eligible, password, code, request, spent>>
    BY <1>4 DEF SessionExpires
  <2>4. SessionsFollowPassword' /\ SpentBeforeCurrent' /\ ExchangedOnce'
    BY <2>2, <2>3, SessionsClosed
  <2>5. TypeOK' /\ VerifiedUnderLock'
    BY <1>1, <2>2, <2>3 DEF TypeOK, VerifiedUnderLock
  <2>6. QED
    BY <2>4, <2>5 DEF AuthInv
<1>5. QED
  BY <1>2, <1>3, <1>4

----------------------------------------------------------------------------
(* The theorems *)

LEMMA NextStep == AuthInv /\ [Next]_vars => AuthInv'
<1> SUFFICES ASSUME AuthInv, [Next]_vars PROVE AuthInv'
  OBVIOUS
<1>1. CASE UNCHANGED vars
  BY <1>1 DEF vars, AuthInv, TypeOK, SessionsFollowPassword, VerifiedUnderLock,
     SpentBeforeCurrent, ExchangedOnce
<1>2. ASSUME NEW r \in Requests, Handler(r) PROVE AuthInv'
  BY <1>2, LoginCommitStep, RotateStep, ConfirmStep, StartingStep, ClosingStep DEF Handler
<1>3. QED
  BY <1>1, <1>2, AccountStep DEF Next

\* The inductive invariant, for every number of users, sessions and requests:
\* what login verified stays true to its commit, and only credentials that are
\* no longer current have been exchanged.
THEOREM AuthSafe == Spec => []AuthInv
<1>1. QED
  BY InitStep, NextStep, PTL DEF Spec

\* No open session was created with a password that has been replaced.
THEOREM AuthSessionsFollowPassword == Spec => []SessionsFollowPassword
<1>1. AuthInv => SessionsFollowPassword
  BY DEF AuthInv
<1>2. QED
  BY <1>1, AuthSafe, PTL

\* No refresh credential is exchanged twice, however many requests present it.
THEOREM AuthExchangedOnce == Spec => []ExchangedOnce
<1>1. AuthInv => ExchangedOnce
  BY DEF AuthInv
<1>2. QED
  BY <1>1, AuthSafe, PTL

\* What each step may do to a session: create one that was absent, rotate an
\* open one of an eligible user, or revoke.
SessionsMove ==
  \A s \in Sessions :
    /\ session[s].state = "revoked" =>
         session'[s].state = "revoked" /\ session'[s].gen = session[s].gen
    /\ (session'[s].gen # session[s].gen
          \/ (session'[s].state = "open" /\ session[s].state # "open"))
         => eligible[Owner[s]]
    /\ session[s].state # "absent" => session'[s].state # "absent"
    /\ session'[s].gen >= session[s].gen

LEMMA UnchangedMove ==
  ASSUME TypeOK, UNCHANGED session
  PROVE  SessionsMove
BY DEF SessionsMove, TypeOK, Session

LEMMA RevokingMove ==
  ASSUME TypeOK, NEW x \in Sessions, session' = [session EXCEPT ![x] = Revoked(@)]
  PROVE  SessionsMove
<1>1. session[x] \in Session
  BY DEF TypeOK
<1>2. QED
  BY <1>1, RevokedRow DEF SessionsMove, TypeOK, Session, Revoked

LEMMA MoveStep ==
  ASSUME AuthInv, [Next]_vars
  PROVE  SessionsMove
<1>1. TypeOK /\ VerifiedUnderLock
  BY DEF AuthInv
<1>2. ASSUME NEW r \in Requests, LoginCommit(r) PROVE SessionsMove
  <2>1. request[r].at = "login" /\ eligible[request[r].user]
    BY <1>1, <1>2 DEF LoginCommit, VerifiedUnderLock
  <2>2. PICK x \in Sessions :
          /\ Owner[x] = request[r].user
          /\ session[x].state = "absent"
          /\ session' = [session EXCEPT ![x].state = "open",
                                        ![x].password = request[r].password]
    BY <1>2 DEF LoginCommit
  <2>3. QED
    BY <1>1, <2>1, <2>2 DEF SessionsMove, TypeOK, Session
<1>3. ASSUME NEW r \in Requests, Rotate(r) PROVE SessionsMove
  <2> DEFINE x == request[r].session
  <2>1. x \in Sessions
    BY <1>1, <1>3, RequestFields DEF Rotate
  <2>2. /\ eligible[Owner[x]] /\ session[x].state = "open"
        /\ session' = [session EXCEPT ![x].gen = @ + 1]
    BY <1>3 DEF Rotate, Renewable
  <2> HIDE DEF x
  <2>3. QED
    BY <1>1, <2>1, <2>2 DEF SessionsMove, TypeOK, Session
<1>4. ASSUME NEW u \in Users, session' = SessionsWithout(u) PROVE SessionsMove
  BY <1>1, <1>4, SessionsWithoutUser, SessionsWithoutIssued
     DEF SessionsMove, TypeOK, Session
<1>5. ASSUME NEW r \in Requests, Logout(r) PROVE SessionsMove
  <2>1. request[r].session \in Sessions
    BY <1>1, <1>5, RequestFields DEF Logout
  <2>2. QED
    BY <1>1, <1>5, <2>1, RevokingMove, UnchangedMove DEF Logout
<1>6. ASSUME NEW r \in Requests, LogoutAll(r) \/ Confirm(r) PROVE SessionsMove
  <2>1. request[r].user \in Users
    BY <1>1, <1>6, RequestFields DEF LogoutAll, Confirm
  <2>2. QED
    BY <1>4, <1>6, <2>1 DEF LogoutAll, Confirm
<1>7. ASSUME NEW r \in Requests, NEW s \in Sessions, RevokeSession(r, s) PROVE SessionsMove
  BY <1>1, <1>7, RevokingMove DEF RevokeSession
<1>8. ASSUME NEW s \in Sessions, SessionExpires(s) PROVE SessionsMove
  BY <1>1, <1>8 DEF SessionExpires, SessionsMove, TypeOK, Session
<1>9. ASSUME NEW r \in Requests, Handler(r) PROVE SessionsMove
  <2>1. CASE UNCHANGED session
    BY <1>1, <2>1, UnchangedMove
  <2>2. CASE \/ LoginCommit(r) \/ Rotate(r) \/ Logout(r) \/ LogoutAll(r) \/ Confirm(r)
             \/ \E s \in Sessions : RevokeSession(r, s)
    BY <1>2, <1>3, <1>5, <1>6, <1>7, <2>2
  <2>3. QED
    BY <1>9, <2>1, <2>2 DEF Handler, RolledBack, RenewCode, InsertCode, DropExpiredCode,
       LoginVerify, AskLookup, ConfirmLookup, ResetRead, Admit, RefreshLookup, LogoutLookup
<1>10. QED
  BY <1>1, <1>8, <1>9, UnchangedMove DEF Next, vars, SetEligible, CodeExpires

\* A revoked session stays revoked and is never given another credential.
THEOREM AuthRevokedIsFinal == Spec => RevokedIsFinal
<1>1. AuthInv /\ [Next]_vars =>
        [\A s \in Sessions : session[s].state = "revoked" =>
           session'[s].state = "revoked" /\ session'[s].gen = session[s].gen]_vars
  BY MoveStep DEF SessionsMove
<1>2. QED
  BY <1>1, AuthSafe, PTL DEF Spec, RevokedIsFinal

\* Only the session or the credential of an eligible user is ever created.
THEOREM AuthSuspendedGetNothing == Spec => SuspendedGetNothing
<1>1. AuthInv /\ [Next]_vars =>
        [\A s \in Sessions :
           \/ session'[s].gen # session[s].gen
           \/ session'[s].state = "open" /\ session[s].state # "open"
           => eligible[Owner[s]]]_vars
  BY MoveStep DEF SessionsMove
<1>2. QED
  BY <1>1, AuthSafe, PTL DEF Spec, SuspendedGetNothing

\* What a logout has looked up is still there when it gets the lock, and its
\* credential is the current one or an earlier one.
LogoutsKnowTheirSession ==
  \A r \in Requests : request[r].at = "logout" =>
    /\ Issued(request[r].session)
    /\ ~request[r].byAccess => request[r].gen <= session[request[r].session].gen

LEMMA LogoutsKnowStep ==
  ASSUME AuthInv, LogoutsKnowTheirSession, [Next]_vars
  PROVE  LogoutsKnowTheirSession'
<1>1. TypeOK /\ TypeOK'
  BY NextStep DEF AuthInv
<1> SUFFICES ASSUME NEW r \in Requests, request'[r].at = "logout"
             PROVE  /\ session'[request'[r].session].state # "absent"
                    /\ ~request'[r].byAccess =>
                         request'[r].gen <= session'[request'[r].session].gen
  BY DEF LogoutsKnowTheirSession, Issued
<1>2. SessionsMove
  BY MoveStep
<1>3. CASE request'[r] = request[r]
  <2>1. request[r].session \in Sessions /\ request[r].gen \in 0..MaxGen
    BY <1>1, <1>3, RequestFields
  <2>2. session[request[r].session] \in Session /\ session'[request[r].session] \in Session
    BY <1>1, <2>1 DEF TypeOK
  <2>3. session[request[r].session].gen \in Nat /\ session'[request[r].session].gen \in Nat
    BY <2>2, AuthAssumption DEF Session
  <2>4. session[request[r].session].state # "absent"
        /\ (~request[r].byAccess => request[r].gen <= session[request[r].session].gen)
    BY <1>3 DEF LogoutsKnowTheirSession, Issued
  <2>5. /\ session'[request[r].session].state # "absent"
        /\ session'[request[r].session].gen >= session[request[r].session].gen
    BY <1>2, <2>1, <2>4 DEF SessionsMove
  <2>6. request[r].gen \in Nat
    BY <2>1, AuthAssumption
  <2>7. QED
    BY <1>3, <2>3, <2>4, <2>5, <2>6
<1>4. CASE request'[r] # request[r]
  <2>1. PICK q \in Requests : Handler(q)
    BY <1>4 DEF Next, vars, SetEligible, CodeExpires, SessionExpires
  <2>2. ~Finish(q)
    BY <1>1, <1>4, FinishFields
  <2>3. PICK s \in Sessions, g \in 0..MaxGen, b \in BOOLEAN : LogoutLookup(q, s, g, b)
    <3>1. ASSUME NEW n \in Request, request' = [request EXCEPT ![q] = n], n.at # "logout"
          PROVE  FALSE
      BY <1>1, <1>4, <3>1 DEF TypeOK
    <3>2. ASSUME NEW u \in Users,
                 LoginVerify(q, u) \/ AskLookup(q, u) \/ ConfirmLookup(q, u)
          PROVE  FALSE
      BY <1>1, <3>1, <3>2 DEF LoginVerify, AskLookup, ConfirmLookup, ResetRead, TypeOK, Request
    <3>3. ASSUME NEW s \in Sessions, Admit(q, s) PROVE FALSE
      <4> DEFINE n == [at |-> "admitted", user |-> Owner[s]]
      <4>1. n \in Request /\ n.at # "logout"
        BY AuthAssumption DEF Request
      <4>2. QED
        BY <3>1, <3>3, <4>1 DEF Admit
    <3>4. ASSUME NEW s \in Sessions, NEW g \in 0..MaxGen, RefreshLookup(q, s, g) PROVE FALSE
      <4> DEFINE n == [at |-> "refresh", session |-> s, gen |-> g]
      <4>1. n \in Request /\ n.at # "logout"
        BY DEF Request
      <4>2. QED
        BY <3>1, <3>4, <4>1 DEF RefreshLookup
    <3>5. QED
      BY <2>1, <2>2, <3>2, <3>3, <3>4 DEF Handler, LoginCommit, RolledBack, Rotate, Logout,
         LogoutAll, RenewCode, InsertCode, DropExpiredCode, Confirm, RevokeSession
  <2>4. /\ request'[q] = [at |-> "logout", session |-> s, gen |-> g, byAccess |-> b]
        /\ q # r => request'[r] = request[r]
        /\ session' = session
        /\ IF b THEN Issued(s) ELSE Finds(s, g)
    BY <1>1, <2>3 DEF LogoutLookup, TypeOK
  <2>5. QED
    BY <1>4, <2>4, AuthAssumption DEF Issued, Finds
<1>5. QED
  BY <1>3, <1>4

\* A logout that completes leaves its session revoked; without an access token
\* only when its credential was not replaced while it waited.
THEOREM AuthLogoutEnds == Spec => LogoutEnds
<1>1. Init => LogoutsKnowTheirSession
  BY DEF Init, LogoutsKnowTheirSession, Idle
<1>2. AuthInv /\ LogoutsKnowTheirSession /\ [Next]_vars => LogoutsKnowTheirSession'
  BY LogoutsKnowStep
<1>3. ASSUME AuthInv, LogoutsKnowTheirSession, NEW r \in Requests, Logout(r)
      PROVE  LET q == request[r] IN
               \/ session'[q.session].state = "revoked"
               \/ ~q.byAccess /\ q.gen < session[q.session].gen
  <2> DEFINE q == request[r]
  <2>1. /\ q.session \in Sessions /\ q.gen \in 0..MaxGen /\ q.byAccess \in BOOLEAN
        /\ session \in [Sessions -> Session]
    BY <1>3, RequestFields DEF AuthInv, TypeOK, Logout
  <2>2. /\ Issued(q.session)
        /\ ~q.byAccess => q.gen <= session[q.session].gen
    BY <1>3 DEF LogoutsKnowTheirSession, Logout
  <2>3. session' = IF LogoutFinds(q) THEN [session EXCEPT ![q.session] = Revoked(@)] ELSE session
    BY <1>3 DEF Logout
  <2> HIDE DEF q
  <2>4. ASSUME LogoutFinds(q) PROVE session'[q.session].state = "revoked"
    <3>1. session[q.session] \in Session /\ session'[q.session] = Revoked(session[q.session])
      BY <2>1, <2>3, <2>4
    <3>2. QED
      BY <2>2, <3>1 DEF Revoked, Issued, Session
  <2>5. ASSUME ~LogoutFinds(q)
        PROVE  ~q.byAccess /\ q.gen < session[q.session].gen
    <3>1. session[q.session].gen \in Nat /\ q.gen \in Nat
      BY <2>1, AuthAssumption DEF Session
    <3>2. ~q.byAccess /\ q.gen # session[q.session].gen
      BY <2>1, <2>2, <2>5 DEF LogoutFinds, Finds
    <3>3. QED
      BY <2>2, <3>1, <3>2
  <2>6. QED
    BY <2>4, <2>5 DEF q
<1>4. AuthInv /\ LogoutsKnowTheirSession /\ [Next]_vars =>
        [\A r \in Requests : Logout(r) =>
           LET q == request[r] IN
             \/ session'[q.session].state = "revoked"
             \/ ~q.byAccess /\ q.gen < session[q.session].gen]_vars
  BY <1>3
<1>5. QED
  BY <1>1, <1>2, <1>4, AuthSafe, PTL DEF Spec, LogoutEnds

\* A row of a reset code goes only with a confirmation that has read it.
THEOREM AuthOnlyTheCodeReadIsSpent == Spec => OnlyTheCodeReadIsSpent
<1> DEFINE Spent(u, r) ==
      /\ request[r].at = "reset" /\ request'[r] = Idle
      /\ request[r].user = u
      /\ request[r].code.row = code[u].row
<1>1. ASSUME AuthInv, NEW u \in Users, code[u].present, ~code'[u].present,
             NEW r \in Requests, Handler(r)
      PROVE  Spent(u, r)
  <2>1. TypeOK /\ code' # code
    BY <1>1 DEF AuthInv
  <2>2. CASE DropExpiredCode(r) \/ Confirm(r)
    <3>1. request[r].at = "reset" /\ code' = CodeWithout(r) /\ Finish(r)
      BY <2>2 DEF DropExpiredCode, Confirm
    <3>2. request[r].user \in Users
      BY <2>1, <3>1, RequestFields
    <3>3. request[r].user = u /\ SameRow(r)
      BY <1>1, <2>1, <3>1, <3>2 DEF CodeWithout, TypeOK
    <3>4. QED
      BY <2>1, <3>1, <3>3, FinishFields DEF SameRow
  <2>3. CASE RenewCode(r) \/ InsertCode(r)
    <3>1. request[r].user \in Users
      BY <2>1, <2>3, RequestFields DEF RenewCode, InsertCode
    <3>2. QED
      BY <1>1, <2>1, <2>3, <3>1, ZenonT(60) DEF RenewCode, InsertCode, TypeOK, Code
  <2>4. QED
    BY <1>1, <2>1, <2>2, <2>3 DEF Handler, LoginCommit, RolledBack, Rotate, Logout, LogoutAll,
       RevokeSession, LoginVerify, AskLookup, ConfirmLookup, ResetRead, Admit, RefreshLookup,
       LogoutLookup
<1>2. ASSUME AuthInv, NEW u \in Users, code[u].present, ~code'[u].present, Next
      PROVE  \E r \in Requests : Spent(u, r)
  <2>1. code' # code /\ code[u] \in Code
    BY <1>2 DEF AuthInv, TypeOK
  <2>2. CASE \E r \in Requests : Handler(r)
    BY <1>1, <1>2, <2>2
  <2>3. CASE \E v \in Users : CodeExpires(v)
    BY <1>2, <2>1, <2>3 DEF CodeExpires, AuthInv, TypeOK, Code
  <2>4. QED
    BY <1>2, <2>1, <2>2, <2>3 DEF Next, SetEligible, SessionExpires
<1>3. AuthInv /\ [Next]_vars =>
        [\A u \in Users : code[u].present /\ ~code'[u].present =>
           \E r \in Requests :
             /\ request[r].at = "reset" /\ request'[r] = Idle
             /\ request[r].user = u
             /\ request[r].code.row = code[u].row]_vars
  BY <1>2
<1>4. QED
  BY <1>3, AuthSafe, PTL DEF Spec, OnlyTheCodeReadIsSpent
=============================================================================
