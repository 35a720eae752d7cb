--------------------------- MODULE ReleasePolicy ---------------------------
(***************************************************************************)
(* The releases of the client for one platform and the version policy that  *)
(* refers to them (api/routes/product_services.py).  Publication, edition   *)
(* and withdrawal lock the release.  A policy update reads the policy       *)
(* without a lock, then locks the releases it ends with, and writes only     *)
(* the references it changes.                                               *)
(***************************************************************************)
EXTENDS Naturals

CONSTANTS
    Releases,       \* rows of app_releases
    Builds,         \* build numbers
    Managers,       \* requests that update the policy
    NoRelease

VARIABLES
    release,        \* status, build number and store link of each release
    policy,         \* current and minimum supported release of the platform
    manager         \* the update each request is in

releaseVars == <<release, policy, manager>>
-----------------------------------------------------------------------------
Unknown == [status |-> "none", build |-> 0, store |-> FALSE]
Away == [stage |-> "away"]
References == {"current", "minimum"}

Named(p) == {p[x] : x \in References} \ {NoRelease}

\* Somebody else holds the row of release r, FOR UPDATE.
ReleaseHeld(r) == \E k \in Managers : manager[k].stage = "locked" /\ r \in Named(manager[k].wanted)

\* A build number is unique on its platform.
BuildTaken(b, r) == \E s \in Releases \ {r} : release[s].status # "none" /\ release[s].build = b
-----------------------------------------------------------------------------
ReleasesInit ==
    /\ release = [r \in Releases |-> Unknown]
    /\ policy = [x \in References |-> NoRelease]
    /\ manager = [k \in Managers |-> Away]

\* Created as a draft, edited as a draft.
SaveDraft(r, b, s) ==
    /\ release[r].status \in {"none", "draft"} /\ ~BuildTaken(b, r)
    /\ release' = [release EXCEPT ![r] = [status |-> "draft", build |-> b, store |-> s]]
    /\ release' # release
    /\ UNCHANGED <<policy, manager>>

Publish(r) ==
    /\ release[r].status = "draft"
    /\ release' = [release EXCEPT ![r].status = "published"]
    /\ UNCHANGED <<policy, manager>>

\* Mutant: the row is not locked, so an update that holds it is not awaited.
MayWithdrawUnlocked(r) == r \notin Named(policy)

\* With its row locked, the committed policy is asked whether it names it.
MayWithdraw(r) == ~ReleaseHeld(r) /\ r \notin Named(policy)

Withdraw(r) ==
    /\ release[r].status = "published" /\ MayWithdraw(r)
    /\ release' = [release EXCEPT ![r].status = "withdrawn"]
    /\ UNCHANGED <<policy, manager>>

\* The policy is read; the payload gives some references, the others are kept.
PolicyRead(k) ==
    /\ manager[k] = Away
    /\ \E given \in SUBSET References :
          \E want \in [given -> Releases \cup {NoRelease}] :
             manager' = [manager EXCEPT ![k] =
                [stage |-> "read", saw |-> policy,
                 wanted |-> [x \in References |->
                                IF x \in given THEN want[x] ELSE policy[x]]]]
    /\ UNCHANGED <<release, policy>>

\* Mutant: only the order of the two releases is looked at.
PolicyOrdered(p) ==
    p["minimum"] # NoRelease =>
        /\ p["current"] # NoRelease
        /\ release[p["minimum"]].build <= release[p["current"]].build

\* _policy_releases locks the rows and reads them again; what is asked of them is
\* asked then, and nothing of the policy is read again.
PolicyValid(p) ==
    /\ \A r \in Named(p) : release[r].status = "published"
    /\ p["minimum"] # NoRelease =>
          /\ p["current"] # NoRelease
          /\ release[p["minimum"]].build <= release[p["current"]].build
          /\ release[p["current"]].store

PolicyLock(k) ==
    /\ manager[k].stage = "read"
    /\ \A r \in Named(manager[k].wanted) : ~ReleaseHeld(r)
    /\ manager' = [manager EXCEPT ![k] =
           IF PolicyValid(@.wanted) THEN [@ EXCEPT !.stage = "locked"] ELSE Away]
    /\ UNCHANGED <<release, policy>>

\* The references that differ from those read are written.
PolicyCommit(k) ==
    /\ manager[k].stage = "locked"
    /\ policy' = [x \in References |->
           IF manager[k].wanted[x] # manager[k].saw[x] THEN manager[k].wanted[x] ELSE policy[x]]
    /\ manager' = [manager EXCEPT ![k] = Away]
    /\ UNCHANGED release

ReleasesNext ==
    \/ \E r \in Releases :
          \/ \E b \in Builds, s \in BOOLEAN : SaveDraft(r, b, s)
          \/ Publish(r) \/ Withdraw(r)
    \/ \E k \in Managers : PolicyRead(k) \/ PolicyLock(k) \/ PolicyCommit(k)

-----------------------------------------------------------------------------
ReleasesTypeOK ==
    /\ release \in [Releases ->
           [status : {"none", "draft", "published", "withdrawn"},
            build : Builds \cup {0}, store : BOOLEAN]]
    /\ policy \in [References -> Releases \cup {NoRelease}]

\* What the policy names is published, whatever updates and withdrawals overlap.
ReleasesInv ==
    /\ ReleasesTypeOK
    /\ \A r \in Named(policy) : release[r].status = "published"

\* The minimum supported release is not after the current one.
MinimumAtMostCurrent ==
    policy["minimum"] # NoRelease /\ policy["current"] # NoRelease =>
        release[policy["minimum"]].build <= release[policy["current"]].build
=============================================================================
