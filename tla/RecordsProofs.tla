--------------------------- MODULE RecordsProofs ---------------------------
(***************************************************************************)
(* Proofs about what the club writes down and serves: the releases of the   *)
(* client, the institutional documents, the stored files, the services of   *)
(* an account, the conversations and the heritage.  In each, the invariant   *)
(* holds because of what a request under way has read or locked, so the      *)
(* inductive invariant says what such a request may still write.            *)
(***************************************************************************)
EXTENDS ReleasePolicy, DocumentRequests, StoredFiles, AccountServices, ChatThreads, Heritage,
        FiniteSetTheorems, TLAPS

(* Releases.  An update that holds its releases has found them published, and  *)
(* no release it holds is withdrawn before it commits.                         *)

ManagersShape ==
    manager \in [Managers ->
        {Away} \cup [stage : {"read", "locked"},
                     saw : [References -> Releases \cup {NoRelease}],
                     wanted : [References -> Releases \cup {NoRelease}]]]

LockedArePublished ==
    \A k \in Managers : manager[k].stage = "locked" =>
        \A r \in Named(manager[k].wanted) : release[r].status = "published"

ReleasesIInv == ReleasesInv /\ ManagersShape /\ LockedArePublished

ReleasesSpec == ReleasesInit /\ [][ReleasesNext]_releaseVars

\* No policy and no update under way.
LEMMA ReleasesInitInv == ReleasesInit => ReleasesIInv
BY DEF ReleasesInit, ReleasesIInv, ReleasesInv, ReleasesTypeOK, ManagersShape,
       LockedArePublished, Named, Unknown, Away, References

\* A release that changes was named by nobody: it is a draft, or it may be withdrawn.
LEMMA ReleaseRowStep ==
  ASSUME ReleasesIInv, NEW r \in Releases,
         (\E b \in Builds, s \in BOOLEAN : SaveDraft(r, b, s)) \/ Publish(r) \/ Withdraw(r)
  PROVE  ReleasesIInv'
<1> USE DEF ReleasesIInv, ReleasesInv
<1>1. UNCHANGED <<policy, manager>>
  BY DEF SaveDraft, Publish, Withdraw
<1>2. release' \in [Releases ->
           [status : {"none", "draft", "published", "withdrawn"},
            build : Builds \cup {0}, store : BOOLEAN]]
  BY DEF ReleasesTypeOK, SaveDraft, Publish, Withdraw
<1>3. \A s \in Releases : release[s].status = "published" =>
          release'[s].status = "published" \/ (s = r /\ Withdraw(r))
  BY DEF ReleasesTypeOK, SaveDraft, Publish, Withdraw
<1>4. ASSUME NEW p \in [References -> Releases \cup {NoRelease}],
             \A s \in Named(p) : release[s].status = "published",
             Withdraw(r) => r \notin Named(p)
      PROVE  \A s \in Named(p) : release'[s].status = "published"
  BY <1>3, <1>4 DEF Named
<1>5. \A s \in Named(policy) : release'[s].status = "published"
  BY <1>4 DEF ReleasesTypeOK, Withdraw, MayWithdraw
<1>6. ASSUME NEW k \in Managers, manager[k].stage = "locked"
      PROVE  \A s \in Named(manager[k].wanted) : release'[s].status = "published"
  <2>1. manager[k].wanted \in [References -> Releases \cup {NoRelease}]
    BY <1>6 DEF ManagersShape, Away
  <2>2. Withdraw(r) => r \notin Named(manager[k].wanted)
    BY <1>6 DEF Withdraw, MayWithdraw, ReleaseHeld
  <2>3. QED
    BY <1>4, <1>6, <2>1, <2>2 DEF LockedArePublished
<1>7. QED
  BY <1>1, <1>2, <1>5, <1>6 DEF ReleasesTypeOK, ManagersShape, LockedArePublished, Named

\* An update names in the policy what was there or what it holds.
LEMMA PolicyStep ==
  ASSUME ReleasesIInv, NEW k \in Managers, PolicyRead(k) \/ PolicyLock(k) \/ PolicyCommit(k)
  PROVE  ReleasesIInv'
<1> USE DEF ReleasesIInv, ReleasesInv
<1>1. CASE PolicyRead(k)
  <2>1. PICK given \in SUBSET References :
          \E want \in [given -> Releases \cup {NoRelease}] :
             manager' = [manager EXCEPT ![k] =
                [stage |-> "read", saw |-> policy,
                 wanted |-> [x \in References |->
                                IF x \in given THEN want[x] ELSE policy[x]]]]
    BY <1>1 DEF PolicyRead
  <2>2. PICK want \in [given -> Releases \cup {NoRelease}] :
             manager' = [manager EXCEPT ![k] =
                [stage |-> "read", saw |-> policy,
                 wanted |-> [x \in References |->
                                IF x \in given THEN want[x] ELSE policy[x]]]]
    BY <2>1
  <2>3. ManagersShape' /\ \A j \in Managers : manager'[j].stage = "locked" =>
            manager'[j] = manager[j]
    BY <2>2 DEF ReleasesTypeOK, ManagersShape
  <2>4. QED
    BY <1>1, <2>3 DEF PolicyRead, ReleasesTypeOK, LockedArePublished, Named
<1>2. CASE PolicyLock(k)
  <2>1. manager[k] \in [stage : {"read", "locked"},
                        saw : [References -> Releases \cup {NoRelease}],
                        wanted : [References -> Releases \cup {NoRelease}]]
    BY <1>2 DEF PolicyLock, ManagersShape, Away
  <2>2. ManagersShape'
    BY <1>2, <2>1 DEF PolicyLock, ManagersShape
  <2>3. manager'[k] = IF PolicyValid(manager[k].wanted)
                      THEN [manager[k] EXCEPT !.stage = "locked"] ELSE Away
    BY <1>2 DEF PolicyLock, ManagersShape
  <2>4. manager'[k].stage = "locked" =>
          \A r \in Named(manager'[k].wanted) : release[r].status = "published"
    BY <2>1, <2>3 DEF PolicyValid, Away
  <2>5. \A j \in Managers \ {k} : manager'[j] = manager[j]
    BY <1>2 DEF PolicyLock, ManagersShape
  <2>6. QED
    BY <1>2, <2>2, <2>4, <2>5 DEF PolicyLock, ReleasesTypeOK, LockedArePublished, Named
<1>3. CASE PolicyCommit(k)
  <2>1. manager[k].wanted \in [References -> Releases \cup {NoRelease}]
    BY <1>3 DEF PolicyCommit, ManagersShape, Away
  <2>2. policy' \in [References -> Releases \cup {NoRelease}]
    BY <1>3, <2>1 DEF PolicyCommit, ReleasesTypeOK
  <2>3. Named(policy') \subseteq Named(policy) \cup Named(manager[k].wanted)
    BY <1>3 DEF PolicyCommit, Named
  <2>4. \A r \in Named(policy') : release[r].status = "published"
    BY <1>3, <2>3 DEF PolicyCommit, LockedArePublished
  <2>5. /\ ManagersShape' /\ manager'[k] = Away
        /\ \A j \in Managers \ {k} : manager'[j] = manager[j]
    BY <1>3 DEF PolicyCommit, ManagersShape
  <2>6. QED
    BY <1>3, <2>2, <2>4, <2>5
    DEF PolicyCommit, ReleasesTypeOK, LockedArePublished, Named, Away
<1>4. QED
  BY <1>1, <1>2, <1>3

LEMMA ReleasesStepInv == ReleasesIInv /\ [ReleasesNext]_releaseVars => ReleasesIInv'
<1>1. ReleasesIInv /\ UNCHANGED releaseVars => ReleasesIInv'
  BY DEF releaseVars, ReleasesIInv, ReleasesInv, ReleasesTypeOK, ManagersShape,
         LockedArePublished, Named
<1>2. QED
  BY <1>1, ReleaseRowStep, PolicyStep DEF ReleasesNext

\* What the version policy names is published, whatever updates and withdrawals of
\* releases overlap.
THEOREM ReleasesSafe == ReleasesSpec => []ReleasesInv
<1>1. ReleasesIInv => ReleasesInv
  BY DEF ReleasesIInv
<1>2. QED
  BY <1>1, ReleasesInitInv, ReleasesStepInv, PTL DEF ReleasesSpec

----------------------------------------------------------------------------
(* Institutional documents.  A reference is borne by the requests that have it, by    *)
(* the documents made with it and by the generations that read it: whoever bears one, *)
(* the audit trail names it for that request and for no other, however the handlers   *)
(* overwrite one another.                                                             *)

DeskRows == [op : Operations, request : Requests, changed : SUBSET {"status", "sg", "approved"},
             stage : {"allocate", "commit"}, reference : (1..LastReference) \cup {None}]

DeskShape ==
    /\ desk \in [Accounts -> {AtRest} \cup DeskRows]
    /\ \A u \in Accounts : desk[u] # AtRest =>
          /\ desk[u].stage = "allocate" => desk[u].op # "generate" /\ desk[u].reference = None
          /\ desk[u].op = "generate" => desk[u].reference # None

Makes(u, d, n) ==
    desk[u] # AtRest /\ desk[u].op = "generate" /\ desk[u].request = d /\ desk[u].reference = n

Bears(d, n) ==
    request[d].reference = n \/ <<d, n>> \in documents \/ \E u \in Accounts : Makes(u, d, n)

\* The transaction that allocated a reference holds the sequence: it is the next.
HolderIsAlone ==
    \A u \in Accounts : desk[u] # AtRest /\ Allocated(u) =>
        sequenceLock = u /\ desk[u].reference = lastNumber + 1 /\ desk[u].stage = "commit"

ReferencesAreAudited ==
    /\ \A n \in 1..LastReference : \A d \in Requests : Bears(d, n) => <<d, n>> \in audited
    /\ \A n \in 1..LastReference :
          n <= lastNumber <=> \E d \in Requests : <<d, n>> \in audited
    /\ \A n \in 1..LastReference : \A d, e \in Requests :
          <<d, n>> \in audited /\ <<e, n>> \in audited => d = e

\* A handler has read a request that was created.
DesksHaveRequests ==
    \A u \in Accounts : desk[u] # AtRest => request[desk[u].request].status # "none"

ValidatedIsNumbered ==
    /\ \A d \in Requests :
          request[d].status \in {"validated", "generated"} => request[d].reference # None
    /\ \A u \in Accounts :
          /\ desk[u] # AtRest /\ desk[u].stage = "commit"
          /\ NextStatus(desk[u].request, desk[u].op) \in {"validated", "generated"}
          => Allocated(u) \/ request[desk[u].request].reference # None

DocumentsIInv ==
    /\ DocumentsTypeOK /\ DeskShape
    /\ HolderIsAlone /\ ReferencesAreAudited /\ ValidatedIsNumbered /\ DesksHaveRequests

DocumentsSpec == DocumentsInit /\ [][DocumentsNext]_documentVars

LEMMA DocumentsIInvImplies == DocumentsIInv => DocumentsInv
<1> SUFFICES ASSUME DocumentsIInv PROVE DocumentsInv
  OBVIOUS
<1> USE NoneAssumption DEF DocumentsIInv
<1>1. ASSUME NEW d \in Requests, request[d].reference # None
      PROVE  <<d, request[d].reference>> \in audited
  <2>1. request[d].reference \in 1..LastReference
    BY <1>1 DEF DocumentsTypeOK
  <2>2. Bears(d, request[d].reference)
    BY DEF Bears
  <2>3. QED
    BY <2>1, <2>2 DEF ReferencesAreAudited
<1>2. documents \subseteq audited
  <2> SUFFICES ASSUME NEW p \in documents PROVE p \in audited
    OBVIOUS
  <2>1. p[1] \in Requests /\ p[2] \in 1..LastReference /\ p = <<p[1], p[2]>>
    BY DEF DocumentsTypeOK
  <2>2. Bears(p[1], p[2])
    BY <2>1 DEF Bears
  <2>3. QED
    BY <2>1, <2>2 DEF ReferencesAreAudited
<1>3. \A p \in audited : p[1] \in Requests /\ p[2] \in 1..LastReference /\ p = <<p[1], p[2]>>
  BY DEF DocumentsTypeOK
<1>4. {p[2] : p \in audited} = 1..lastNumber
  <2>1. ASSUME NEW p \in audited PROVE p[2] \in 1..lastNumber
    <3>1. p[1] \in Requests /\ p[2] \in 1..LastReference /\ <<p[1], p[2]>> \in audited
      BY <1>3
    <3>2. p[2] <= lastNumber
      BY <3>1 DEF ReferencesAreAudited
    <3>3. QED
      BY <3>1, <3>2 DEF DocumentsTypeOK
  <2>2. ASSUME NEW n \in 1..lastNumber PROVE \E p \in audited : n = p[2]
    <3>1. n \in 1..LastReference /\ n <= lastNumber
      BY LastReferenceAssumption DEF DocumentsTypeOK
    <3>2. PICK d \in Requests : <<d, n>> \in audited
      BY <3>1 DEF ReferencesAreAudited
    <3>3. <<d, n>>[2] = n
      OBVIOUS
    <3>4. QED
      BY <3>2, <3>3
  <2>3. QED
    BY <2>1, <2>2
<1>5. \A p, q \in audited : p[2] = q[2] => p[1] = q[1]
  BY <1>3 DEF ReferencesAreAudited
<1>6. QED
  BY <1>1, <1>2, <1>4, <1>5 DEF DocumentsInv, ValidatedIsNumbered

LEMMA DocumentsInitInv == DocumentsInit => DocumentsIInv
<1> SUFFICES ASSUME DocumentsInit PROVE DocumentsIInv
  OBVIOUS
<1> USE NoneAssumption, LastReferenceAssumption DEF DocumentsInit
<1>1. DocumentsTypeOK /\ DeskShape
  BY DEF DocumentsTypeOK, DeskShape, NoRequest, Blank, AtRest
<1>2. \A n \in 1..LastReference : \A d \in Requests : ~Bears(d, n)
  BY DEF Bears, Makes, NoRequest, Blank
<1>3. HolderIsAlone /\ ReferencesAreAudited
  BY <1>2 DEF HolderIsAlone, ReferencesAreAudited
<1>4. ValidatedIsNumbered /\ DesksHaveRequests
  BY DEF ValidatedIsNumbered, DesksHaveRequests, NoRequest, Blank
<1>5. QED
  BY <1>1, <1>3, <1>4 DEF DocumentsIInv

\* The handlers move statuses to statuses.
LEMMA NextStatusType ==
  ASSUME NEW d, NEW op \in Operations
  PROVE  /\ NextStatus(d, op) \in {"draft", "pending_sg", "pending_approval", "validated",
                                   "rejected", "cancelled", "generated"}
         /\ op = "generate" <=> NextStatus(d, op) = "generated"
BY DEF NextStatus, Operations, AfterSubmit, AfterSG

\* Where no request bears a reference it did not bear, the audit trail has them all.
LEMMA ReferencesKept ==
  ASSUME DocumentsIInv, UNCHANGED <<lastNumber, audited>>,
         \A n \in 1..LastReference : \A d \in Requests : Bears(d, n)' => Bears(d, n)
  PROVE  ReferencesAreAudited'
BY DEF DocumentsIInv, ReferencesAreAudited

\* No handler changes the author, nor anything the status it gives depends on.
LEMMA StatusToGive ==
  ASSUME NEW d, NEW op, template' = template, request'[d].by = request[d].by
  PROVE  NextStatus(d, op)' = NextStatus(d, op)
BY DEF NextStatus, AfterSubmit, AfterSG, NeedsTL

LEMMA CreateRequestStep ==
  ASSUME DocumentsIInv, NEW a \in Accounts, NEW d \in Requests, CreateRequest(a, d)
  PROVE  DocumentsIInv'
<1> USE DEF DocumentsIInv
<1>1. /\ request' = [request EXCEPT ![d] = Blank("draft", a)]
      /\ request[d] = NoRequest
      /\ UNCHANGED <<template, desk, lastNumber, sequenceLock, documents, audited>>
  BY DEF CreateRequest
<1>2. DocumentsTypeOK'
  BY <1>1 DEF DocumentsTypeOK, Blank
<1>3. /\ \A e \in Requests : request'[e].reference = request[e].reference
      /\ \A e \in Requests : request'[e].status = request[e].status \/ request'[e].status = "draft"
      /\ \A e \in Requests : request'[e].by = request[e].by \/ e = d
  BY <1>1 DEF DocumentsTypeOK, NoRequest, Blank
<1>4. ReferencesAreAudited'
  BY <1>1, <1>3, ReferencesKept DEF Bears, Makes
<1>5. DeskShape' /\ HolderIsAlone' /\ DesksHaveRequests'
  <2>1. \A u \in Accounts : desk[u] # AtRest => desk[u].request \in Requests
    BY DEF DeskShape, DeskRows
  <2>2. QED
    BY <1>1, <1>3, <2>1 DEF DeskShape, HolderIsAlone, Allocated, DesksHaveRequests
<1>6. ValidatedIsNumbered'
  <2>1. \A u \in Accounts : desk[u] # AtRest =>
          desk[u].request \in Requests /\ desk[u].request # d
    BY <1>1 DEF DeskShape, DeskRows, DesksHaveRequests, NoRequest, Blank
  <2>2. \A u \in Accounts : desk[u] # AtRest =>
          NextStatus(desk[u].request, desk[u].op)' = NextStatus(desk[u].request, desk[u].op)
    BY <1>1, <1>3, <2>1, StatusToGive
  <2>3. QED
    BY <1>1, <1>3, <2>1, <2>2 DEF ValidatedIsNumbered, Allocated
<1>7. QED
  BY <1>2, <1>4, <1>5, <1>6

\* A handler that reads the request takes the reference it has, if it makes a document.
LEMMA ReadStep ==
  ASSUME DocumentsIInv, NEW u \in Accounts, NEW d \in Requests, NEW op \in Operations,
         Read(u, d, op)
  PROVE  DocumentsIInv'
<1> USE NoneAssumption DEF DocumentsIInv
<1> DEFINE row == [op |-> op, request |-> d, changed |-> Changed(u, d, op),
                   stage |-> IF NextStatus(d, op) = "validated" /\ request[d].reference = None
                             THEN "allocate" ELSE "commit",
                   reference |-> IF op = "generate" THEN request[d].reference ELSE None]
<1>1. /\ desk' = [desk EXCEPT ![u] = row]
      /\ UNCHANGED <<template, request, lastNumber, sequenceLock, documents, audited>>
      /\ desk[u] = AtRest /\ MayHandle(u, d, op)
  BY DEF Read
<1>2. /\ request[d].reference \in (1..LastReference) \cup {None}
      /\ op = "generate" => request[d].reference # None
  BY <1>1 DEF DocumentsTypeOK, ValidatedIsNumbered, MayHandle, MayGenerate
<1>3. row \in DeskRows /\ row # AtRest
  <2>1. Changed(u, d, op) \subseteq {"status", "sg", "approved"}
    BY DEF Changed
  <2>2. op # "rest"
    BY DEF Operations
  <2>3. QED
    BY <1>2, <2>1, <2>2 DEF DeskRows, AtRest
<1>4. /\ row.op = op /\ row.request = d
      /\ row.reference = IF op = "generate" THEN request[d].reference ELSE None
      /\ row.stage = IF NextStatus(d, op) = "validated" /\ request[d].reference = None
                     THEN "allocate" ELSE "commit"
  OBVIOUS
<1> HIDE DEF row
<1>5. desk'[u] = row /\ \A v \in Accounts \ {u} : desk'[v] = desk[v]
  BY <1>1 DEF DeskShape
<1>6. DeskShape'
  <2>1. row.stage = "allocate" => op # "generate" /\ row.reference = None
    BY <1>4, NextStatusType
  <2>2. QED
    BY <1>1, <1>2, <1>3, <1>4, <1>5, <2>1 DEF DeskShape
<1>7. HolderIsAlone'
  BY <1>1, <1>4, <1>5 DEF HolderIsAlone, Allocated
<1>8. ReferencesAreAudited'
  <2>1. \A n \in 1..LastReference : \A e \in Requests : Bears(e, n)' => Bears(e, n)
    BY <1>1, <1>4, <1>5 DEF Bears, Makes
  <2>2. QED
    BY <1>1, <2>1, ReferencesKept
<1>9. ValidatedIsNumbered'
  <2>1. row.stage = "commit" /\ NextStatus(d, op) \in {"validated", "generated"}
          => request[d].reference # None
    BY <1>2, <1>4, NextStatusType
  <2>2. \A e, o : NextStatus(e, o)' = NextStatus(e, o)
    BY <1>1, StatusToGive
  <2>3. QED
    BY <1>1, <1>4, <1>5, <2>1, <2>2 DEF ValidatedIsNumbered, Allocated
<1>10. DesksHaveRequests'
  <2>1. request[d].status # "none"
    BY <1>1 DEF MayHandle, MayGenerate, Operations
  <2>2. QED
    BY <1>1, <1>4, <1>5, <2>1 DEF DesksHaveRequests
<1>11. QED
  BY <1>1, <1>6, <1>7, <1>8, <1>9, <1>10 DEF DocumentsTypeOK

LEMMA AllocateStep ==
  ASSUME DocumentsIInv, NEW u \in Accounts, Allocate(u)
  PROVE  DocumentsIInv'
<1> USE NoneAssumption, LastReferenceAssumption DEF DocumentsIInv
<1>1. /\ desk' = [desk EXCEPT ![u].stage = "commit", ![u].reference = lastNumber + 1]
      /\ sequenceLock' = u /\ sequenceLock = None /\ lastNumber < LastReference
      /\ UNCHANGED <<template, request, lastNumber, documents, audited>>
      /\ desk[u] # AtRest /\ desk[u].stage = "allocate"
  BY DEF Allocate, SequenceFree
<1>2. desk[u] \in DeskRows /\ desk[u].op # "generate" /\ desk[u].op # "rest"
  BY <1>1 DEF DeskShape, DeskRows, Operations
<1>3. lastNumber + 1 \in 1..LastReference
  BY <1>1 DEF DocumentsTypeOK
<1>4. /\ desk'[u] \in DeskRows /\ desk'[u].op = desk[u].op
      /\ desk'[u].request = desk[u].request
      /\ desk'[u].stage = "commit" /\ desk'[u].reference = lastNumber + 1
      /\ \A v \in Accounts \ {u} : desk'[v] = desk[v]
  BY <1>1, <1>2, <1>3 DEF DeskShape, DeskRows
<1>5. DeskShape'
  BY <1>1, <1>2, <1>3, <1>4 DEF DeskShape
<1>6. HolderIsAlone'
  <2>1. \A v \in Accounts : ~(desk[v] # AtRest /\ Allocated(v))
    BY <1>1 DEF HolderIsAlone
  <2>2. QED
    BY <1>1, <1>4, <2>1 DEF HolderIsAlone, Allocated
<1>7. ReferencesAreAudited'
  <2>1. \A n \in 1..LastReference : \A e \in Requests : Bears(e, n)' => Bears(e, n)
    BY <1>1, <1>2, <1>4 DEF Bears, Makes
  <2>2. QED
    BY <1>1, <2>1, ReferencesKept
<1>8. ValidatedIsNumbered'
  <2>1. \A e, o : NextStatus(e, o)' = NextStatus(e, o)
    BY <1>1, StatusToGive
  <2>2. Allocated(u)' /\ \A v \in Accounts \ {u} : Allocated(v)' = Allocated(v)
    BY <1>2, <1>3, <1>4 DEF Allocated
  <2>3. QED
    BY <1>1, <1>4, <2>1, <2>2 DEF ValidatedIsNumbered
<1>9. DesksHaveRequests'
  BY <1>1, <1>4 DEF DesksHaveRequests
<1>10. QED
  BY <1>1, <1>5, <1>6, <1>7, <1>8, <1>9 DEF DocumentsTypeOK

\* What a commit writes: the row of its request, with the reference it allocated.
LEMMA WrittenRow ==
  ASSUME DocumentsIInv, NEW u \in Accounts, desk[u] # AtRest, desk[u].stage = "commit",
         NEW d \in Requests, d = desk[u].request
  PROVE  /\ Written(u) \in [status : {"none", "draft", "pending_sg", "pending_approval",
                                      "validated", "rejected", "cancelled", "generated"},
                            by : Accounts \cup {None},
                            sg : Accounts \cup {None}, approved : Accounts \cup {None},
                            reference : (1..LastReference) \cup {None}, generated : BOOLEAN]
         /\ Written(u).reference =
               IF Allocated(u) THEN desk[u].reference ELSE request[d].reference
         /\ Written(u).status \in {"validated", "generated"} => Written(u).reference # None
         /\ Written(u).status # "none" /\ Written(u).by = request[d].by
<1> USE NoneAssumption DEF DocumentsIInv
<1>1. desk[u] \in DeskRows /\ request[d].reference \in (1..LastReference) \cup {None}
  BY DEF DeskShape, DocumentsTypeOK
<1>2. /\ desk[u].op \in Operations /\ desk[u].reference \in (1..LastReference) \cup {None}
  BY <1>1 DEF DeskRows
<1>3. Written(u).reference = IF Allocated(u) THEN desk[u].reference ELSE request[d].reference
  BY DEF Written
<1>4. Written(u).status =
        IF "status" \in desk[u].changed THEN NextStatus(d, desk[u].op) ELSE request[d].status
  BY DEF Written
<1>5. Written(u).status \in {"none", "draft", "pending_sg", "pending_approval", "validated",
                             "rejected", "cancelled", "generated"}
  BY <1>2, <1>4, NextStatusType DEF DocumentsTypeOK
<1>6. /\ Written(u).by = request[d].by /\ Written(u).by \in Accounts \cup {None}
      /\ Written(u).sg \in Accounts \cup {None} /\ Written(u).approved \in Accounts \cup {None}
      /\ Written(u).generated \in BOOLEAN
  BY DEF Written, DocumentsTypeOK
<1>7. Written(u) = [status |-> Written(u).status, by |-> Written(u).by, sg |-> Written(u).sg,
                    approved |-> Written(u).approved, reference |-> Written(u).reference,
                    generated |-> Written(u).generated]
  BY DEF Written
<1>8. Written(u).status \in {"validated", "generated"} => Written(u).reference # None
  BY <1>3, <1>4 DEF ValidatedIsNumbered, Allocated
<1>9. Written(u).status # "none"
  BY <1>2, <1>4, NextStatusType DEF DesksHaveRequests
<1>10. QED
  BY <1>1, <1>2, <1>3, <1>5, <1>6, <1>7, <1>8, <1>9

\* The sequence moves with the only transaction that allocated.
LEMMA CommitStep ==
  ASSUME DocumentsIInv, NEW u \in Accounts, Commit(u)
  PROVE  DocumentsIInv'
<1> USE NoneAssumption, LastReferenceAssumption DEF DocumentsIInv
<1> DEFINE d == desk[u].request
<1>1. /\ desk[u] # AtRest /\ desk[u].stage = "commit"
      /\ request' = [request EXCEPT ![d] = Written(u)]
      /\ lastNumber' = IF Allocated(u) THEN desk[u].reference ELSE lastNumber
      /\ sequenceLock' = IF sequenceLock = u THEN None ELSE sequenceLock
      /\ documents' = documents \cup Generated(u)
      /\ audited' = audited \cup Numbered(u)
      /\ desk' = [desk EXCEPT ![u] = AtRest]
      /\ template' = template
  BY DEF Commit
<1>2. desk[u] \in DeskRows /\ d \in Requests
  BY <1>1 DEF DeskShape, DeskRows
<1>3. /\ Written(u).reference = IF Allocated(u) THEN desk[u].reference ELSE request[d].reference
      /\ Written(u).status \in {"validated", "generated"} => Written(u).reference # None
      /\ Written(u).status # "none" /\ Written(u).by = request[d].by
      /\ request' \in [Requests ->
           [status : {"none", "draft", "pending_sg", "pending_approval", "validated",
                      "rejected", "cancelled", "generated"},
            by : Accounts \cup {None},
            sg : Accounts \cup {None}, approved : Accounts \cup {None},
            reference : (1..LastReference) \cup {None}, generated : BOOLEAN]]
  BY <1>1, <1>2, WrittenRow DEF DocumentsTypeOK
<1>4. /\ request'[d] = Written(u) /\ \A e \in Requests \ {d} : request'[e] = request[e]
      /\ desk'[u] = AtRest /\ \A v \in Accounts \ {u} : desk'[v] = desk[v]
  BY <1>1, <1>2 DEF DocumentsTypeOK, DeskShape
<1>5. Allocated(u) => /\ desk[u].op # "generate" /\ desk[u].reference = lastNumber + 1
                      /\ sequenceLock = u
                      /\ desk[u].reference \in 1..LastReference
  BY <1>1, <1>2 DEF HolderIsAlone, Allocated, DeskRows
<1>6. desk[u].op = "generate" => desk[u].reference \in 1..LastReference
  BY <1>1, <1>2 DEF DeskShape, DeskRows
<1>7. DocumentsTypeOK'
  <2>1. Generated(u) \subseteq Requests \X (1..LastReference)
    BY <1>2, <1>6 DEF Generated
  <2>2. Numbered(u) \subseteq Requests \X (1..LastReference)
    BY <1>2, <1>5 DEF Numbered
  <2>3. QED
    BY <1>1, <1>3, <1>5, <2>1, <2>2 DEF DocumentsTypeOK
<1>8. DeskShape'
  BY <1>1, <1>4 DEF DeskShape
<1>9. HolderIsAlone'
  BY <1>1, <1>4, <1>5 DEF HolderIsAlone, Allocated
<1>10. \A n \in 1..LastReference : \A e \in Requests :
          Bears(e, n)' => Bears(e, n) \/ (Allocated(u) /\ e = d /\ n = lastNumber + 1)
  <2> SUFFICES ASSUME NEW n \in 1..LastReference, NEW e \in Requests, Bears(e, n)'
               PROVE  Bears(e, n) \/ (Allocated(u) /\ e = d /\ n = lastNumber + 1)
    OBVIOUS
  <2>1. CASE request'[e].reference = n
    BY <1>3, <1>4, <1>5, <2>1 DEF Bears
  <2>2. CASE <<e, n>> \in documents'
    BY <1>1, <2>2 DEF Bears, Makes, Generated
  <2>3. CASE \E v \in Accounts : Makes(v, e, n)'
    BY <1>4, <2>3 DEF Bears, Makes
  <2>4. QED
    BY <2>1, <2>2, <2>3 DEF Bears
<1>11. ReferencesAreAudited'
  <2>1. CASE Allocated(u)
    <3>1. lastNumber \in Nat /\ lastNumber' = lastNumber + 1 /\ lastNumber + 1 \in 1..LastReference
      BY <1>1, <1>5, <2>1 DEF DocumentsTypeOK
    <3>2. \A n \in 1..LastReference : \A e \in Requests :
            <<e, n>> \in audited' <=> <<e, n>> \in audited \/ (e = d /\ n = lastNumber + 1)
      BY <1>1, <1>5, <2>1 DEF Numbered
    <3>3. \A e \in Requests : <<e, lastNumber + 1>> \notin audited
      BY <3>1 DEF ReferencesAreAudited
    <3>4. \A n \in 1..LastReference : \A e \in Requests : Bears(e, n)' => <<e, n>> \in audited'
      BY <1>10, <3>2 DEF ReferencesAreAudited
    <3>5. \A n \in 1..LastReference :
            n <= lastNumber' <=> \E e \in Requests : <<e, n>> \in audited'
      <4> SUFFICES ASSUME NEW n \in 1..LastReference
                   PROVE  n <= lastNumber' <=> \E e \in Requests : <<e, n>> \in audited'
        OBVIOUS
      <4>1. CASE n = lastNumber + 1
        BY <1>2, <3>1, <3>2, <4>1
      <4>2. CASE n # lastNumber + 1
        <5>1. n <= lastNumber' <=> n <= lastNumber
          BY <3>1, <4>2
        <5>2. QED
          BY <3>2, <4>2, <5>1 DEF ReferencesAreAudited
      <4>3. QED
        BY <4>1, <4>2
    <3>6. \A n \in 1..LastReference : \A e, f \in Requests :
            <<e, n>> \in audited' /\ <<f, n>> \in audited' => e = f
      BY <3>2, <3>3 DEF ReferencesAreAudited
    <3>7. QED
      BY <3>4, <3>5, <3>6 DEF ReferencesAreAudited
  <2>2. CASE ~Allocated(u)
    BY <1>1, <1>10, <2>2, ReferencesKept DEF Numbered
  <2>3. QED
    BY <2>1, <2>2
<1>12. ValidatedIsNumbered'
  <2>1. \A e \in Requests : request[e].reference # None => request'[e].reference # None
    BY <1>3, <1>4, <1>5
  <2>2. \A v \in Accounts : desk[v] # AtRest => desk[v].request \in Requests
    BY DEF DeskShape, DeskRows
  <2>3. \A e \in Requests : \A o : NextStatus(e, o)' = NextStatus(e, o)
    BY <1>1, <1>3, <1>4, StatusToGive
  <2>4. QED
    BY <1>3, <1>4, <2>1, <2>2, <2>3 DEF ValidatedIsNumbered, Allocated
<1>13. DesksHaveRequests'
  <2>1. \A v \in Accounts : desk[v] # AtRest => desk[v].request \in Requests
    BY DEF DeskShape, DeskRows
  <2>2. QED
    BY <1>3, <1>4, <2>1 DEF DesksHaveRequests
<1>14. QED
  BY <1>7, <1>8, <1>9, <1>11, <1>12, <1>13

LEMMA RollbackStep ==
  ASSUME DocumentsIInv, NEW u \in Accounts, Rollback(u)
  PROVE  DocumentsIInv'
<1> USE DEF DocumentsIInv
<1>1. /\ desk' = [desk EXCEPT ![u] = AtRest]
      /\ sequenceLock' = IF sequenceLock = u THEN None ELSE sequenceLock
      /\ UNCHANGED <<template, request, lastNumber, documents, audited>>
  BY DEF Rollback
<1>2. desk'[u] = AtRest /\ \A v \in Accounts \ {u} : desk'[v] = desk[v]
  BY <1>1 DEF DeskShape
<1>3. DocumentsTypeOK' /\ DeskShape'
  BY <1>1, <1>2 DEF DocumentsTypeOK, DeskShape
<1>4. HolderIsAlone' /\ ValidatedIsNumbered' /\ DesksHaveRequests'
  <2>1. \A e, o : NextStatus(e, o)' = NextStatus(e, o)
    BY <1>1, StatusToGive
  <2>2. QED
    BY <1>1, <1>2, <2>1 DEF HolderIsAlone, ValidatedIsNumbered, Allocated, DesksHaveRequests
<1>5. ReferencesAreAudited'
  BY <1>1, <1>2, ReferencesKept DEF Bears, Makes
<1>6. QED
  BY <1>3, <1>4, <1>5

LEMMA DocumentsStepInv == DocumentsIInv /\ [DocumentsNext]_documentVars => DocumentsIInv'
<1>1. DocumentsIInv /\ UNCHANGED documentVars => DocumentsIInv'
  <2> SUFFICES ASSUME DocumentsIInv, UNCHANGED documentVars PROVE DocumentsIInv'
    OBVIOUS
  <2>1. \A e, o : NextStatus(e, o)' = NextStatus(e, o)
    BY StatusToGive DEF documentVars
  <2>2. QED
    BY <2>1 DEF documentVars, DocumentsIInv, DocumentsTypeOK, DeskShape, HolderIsAlone,
       ReferencesAreAudited, ValidatedIsNumbered, DesksHaveRequests, Bears, Makes, Allocated
<1>2. QED
  BY <1>1, CreateRequestStep, ReadStep, AllocateStep, CommitStep, RollbackStep
  DEF DocumentsNext

\* An official number is given once, to one request, and the audit trail has it, whatever
\* submissions, decisions and generations overlap; a validated request bears one, and what
\* a request or a document bears was given to it.
THEOREM DocumentsSafe == DocumentsSpec => []DocumentsInv
BY DocumentsInitInv, DocumentsStepInv, DocumentsIInvImplies, PTL DEF DocumentsSpec

----------------------------------------------------------------------------
(* Stored files.  A file that can be used, by a new reference or by those it has, has *)
(* its bytes, or is among those deleted by hand or looked at by a cleaning; a          *)
(* cleaning only unlinks what it looked at.                                            *)

CleanerShape ==
    /\ cleaner.stage \in {"resting", "looking", "unlinking"}
    /\ cleaner.stage # "resting" =>
          /\ cleaner = [stage |-> cleaner.stage, left |-> cleaner.left,
                        doomed |-> cleaner.doomed, saw |-> cleaner.saw]
          /\ cleaner.left \subseteq Files /\ cleaner.doomed \subseteq unused

DocumentWrites == {"status", "official", "permanent", "dated"}

ValidatorShape ==
    /\ validator = [v \in Validators |-> validator[v]]
    /\ \A v \in Validators : validator[v] # Waiting =>
          /\ DOMAIN validator[v].writes \subseteq DocumentWrites
          /\ "status" \in DOMAIN validator[v].writes =>
                validator[v].writes["status"] \in
                    {"pending_validation", "validated", "rejected", "archived"}
          /\ \A x \in DOMAIN validator[v].writes \ {"status"} :
                validator[v].writes[x] \in BOOLEAN

ReferencedHasRow == \A f \in Files : Referenced(f) => file[f].on

BytesOfUsable == \A f \in Files \ unused : file[f].on => f \in disk

FilesIInv ==
    /\ FilesTypeOK
    /\ (document.status = "none" => document.file = NoFile)
    /\ CleanerShape /\ ValidatorShape /\ ReferencedHasRow /\ BytesOfUsable

FilesSpec == FilesInit /\ [][FilesNext]_filesVars

LEMMA FilesIInvImplies == FilesIInv => FilesInv
BY NoFileAssumption
DEF FilesIInv, FilesInv, FilesTypeOK, ReferencedHasRow, BytesOfUsable, Referenced

LEMMA FilesInitInv == FilesInit => FilesIInv
BY NoFileAssumption
DEF FilesInit, FilesIInv, FilesTypeOK, CleanerShape, ValidatorShape, ReferencedHasRow,
    BytesOfUsable, Referenced, NoRow, NoDocument, Resting, Waiting

\* A handler that adds or removes rows and references, without the cleaner or a decision.
LEMMA FileUseStep ==
  ASSUME FilesIInv, NEW f \in Files,
         \/ \E kept \in BOOLEAN : Upload(f, kept)
         \/ Expire(f) \/ CreateDocument(f) \/ ReplaceFile(f) \/ AttachPost(f) \/ DeletePost(f)
         \/ AttachChat(f) \/ AttachProof(f) \/ DeleteDocument
  PROVE  FilesIInv'
<1> USE NoFileAssumption DEF FilesIInv
<1>1. UNCHANGED <<validator, cleaner, unused>>
  BY DEF Upload, Expire, CreateDocument, ReplaceFile, AttachPost, DeletePost, AttachChat,
         AttachProof, DeleteDocument
<1>2. CASE \E kept \in BOOLEAN : Upload(f, kept)
  <2>1. PICK kept \in BOOLEAN : Upload(f, kept)
    BY <1>2
  <2>2. FilesTypeOK'
    BY <1>1, <2>1 DEF FilesTypeOK, Upload, Stored, NoRow
  <2>3. ReferencedHasRow' /\ BytesOfUsable'
    BY <1>1, <2>1
    DEF FilesTypeOK, Upload, Stored, NoRow, ReferencedHasRow, BytesOfUsable, Referenced
  <2>4. QED
    BY <1>1, <2>1, <2>2, <2>3 DEF Upload, CleanerShape, ValidatorShape
<1>3. CASE Expire(f)
  <2>1. FilesTypeOK'
    BY <1>1, <1>3, ZenonT(60) DEF FilesTypeOK, Expire
  <2>2. ReferencedHasRow' /\ BytesOfUsable'
    BY <1>1, <1>3 DEF FilesTypeOK, Expire, ReferencedHasRow, BytesOfUsable, Referenced
  <2>3. QED
    BY <1>1, <1>3, <2>1, <2>2 DEF Expire, CleanerShape, ValidatorShape
<1>4. CASE CreateDocument(f)
  <2>1. FilesTypeOK'
    BY <1>1, <1>4, ZenonT(60) DEF FilesTypeOK, CreateDocument, NoDocument
  <2>2. ReferencedHasRow' /\ BytesOfUsable'
    BY <1>1, <1>4
    DEF FilesTypeOK, CreateDocument, NoDocument, Linkable, ReferencedHasRow, BytesOfUsable,
        Referenced
  <2>3. QED
    BY <1>1, <1>4, <2>1, <2>2 DEF CreateDocument, CleanerShape, ValidatorShape, NoDocument
<1>5. CASE ReplaceFile(f)
  <2>1. FilesTypeOK'
    BY <1>1, <1>5 DEF FilesTypeOK, ReplaceFile
  <2>2. ReferencedHasRow' /\ BytesOfUsable'
    BY <1>1, <1>5
    DEF FilesTypeOK, ReplaceFile, Linkable, ReferencedHasRow, BytesOfUsable, Referenced
  <2>3. QED
    BY <1>1, <1>5, <2>1, <2>2 DEF ReplaceFile, CleanerShape, ValidatorShape, FilesTypeOK
<1>6. CASE AttachPost(f)
  <2>1. FilesTypeOK'
    BY <1>1, <1>6, ZenonT(60) DEF FilesTypeOK, AttachPost
  <2>2. ReferencedHasRow' /\ BytesOfUsable'
    BY <1>1, <1>6
    DEF FilesTypeOK, AttachPost, Linkable, ReferencedHasRow, BytesOfUsable, Referenced
  <2>3. QED
    BY <1>1, <1>6, <2>1, <2>2 DEF AttachPost, CleanerShape, ValidatorShape
<1>7. CASE AttachChat(f)
  <2>1. FilesTypeOK'
    BY <1>1, <1>7 DEF FilesTypeOK, AttachChat
  <2>2. ReferencedHasRow' /\ BytesOfUsable'
    BY <1>1, <1>7 DEF FilesTypeOK, AttachChat, ReferencedHasRow, BytesOfUsable, Referenced
  <2>3. QED
    BY <1>1, <1>7, <2>1, <2>2 DEF AttachChat, CleanerShape, ValidatorShape
<1>8. CASE AttachProof(f) \/ DeletePost(f) \/ DeleteDocument
  <2>1. FilesTypeOK'
    <3>1. NoDocument \in [status : {"none", "pending_validation", "validated", "rejected",
                                    "archived"},
                          official : BOOLEAN, permanent : BOOLEAN, dated : BOOLEAN,
                          file : Files \cup {NoFile}]
      BY DEF NoDocument
    <3>2. document' = document \/ document' = NoDocument
      BY <1>8 DEF AttachProof, DeletePost, DeleteDocument
    <3>3. /\ UNCHANGED <<file, disk>> /\ posted' \subseteq posted
          /\ proofs' \subseteq proofs \cup {f}
      BY <1>8 DEF AttachProof, DeletePost, DeleteDocument
    <3>4. QED
      BY <1>1, <3>1, <3>2, <3>3 DEF FilesTypeOK
  <2>2. ReferencedHasRow' /\ BytesOfUsable'
    BY <1>1, <1>8
    DEF AttachProof, DeletePost, DeleteDocument, NoDocument, Linkable, ReferencedHasRow,
        BytesOfUsable, Referenced
  <2>3. QED
    BY <1>1, <1>8, <2>1, <2>2
    DEF AttachProof, DeletePost, DeleteDocument, NoDocument, CleanerShape, ValidatorShape
<1>9. QED
  BY <1>2, <1>3, <1>4, <1>5, <1>6, <1>7, <1>8

\* A decision writes what it changes, never the file of the document.
LEMMA ChangesShape ==
  ASSUME NEW d \in DOMAIN Decisions
  PROVE  /\ DOMAIN Changes(d) \subseteq DocumentWrites
         /\ "status" \in DOMAIN Changes(d) =>
               Changes(d)["status"] \in {"pending_validation", "validated", "rejected", "archived"}
         /\ \A x \in DOMAIN Changes(d) \ {"status"} : Changes(d)[x] \in BOOLEAN
<1> SUFFICES /\ DOMAIN Decisions[d] \subseteq DocumentWrites
             /\ Decisions[d]["status"] \in
                    {"pending_validation", "validated", "rejected", "archived"}
             /\ \A x \in DOMAIN Decisions[d] \ {"status"} : Decisions[d][x] \in BOOLEAN
  BY DEF Changes
<1>1. CASE d = "validate"
  <2>1. Decisions[d] = [status |-> "validated", official |-> TRUE, permanent |-> TRUE,
                       dated |-> TRUE]
    BY <1>1 DEF Decisions
  <2>2. /\ DOMAIN Decisions[d] = {"status", "official", "permanent", "dated"}
        /\ Decisions[d]["status"] = "validated" /\ Decisions[d]["official"] = TRUE
        /\ Decisions[d]["permanent"] = TRUE /\ Decisions[d]["dated"] = TRUE
    BY <2>1
  <2>3. QED
    BY <2>2 DEF DocumentWrites
<1>2. CASE d = "submit"
  <2>1. Decisions[d] = [status |-> "pending_validation", official |-> FALSE, permanent |-> FALSE]
    BY <1>2 DEF Decisions
  <2>2. /\ DOMAIN Decisions[d] = {"status", "official", "permanent"}
        /\ Decisions[d]["status"] = "pending_validation" /\ Decisions[d]["official"] = FALSE
        /\ Decisions[d]["permanent"] = FALSE
    BY <2>1
  <2>3. QED
    BY <2>2 DEF DocumentWrites
<1>3. CASE d = "unvalidate"
  <2>1. Decisions[d] = [status |-> "pending_validation", official |-> FALSE, permanent |-> FALSE,
                       dated |-> FALSE]
    BY <1>3 DEF Decisions
  <2>2. /\ DOMAIN Decisions[d] = {"status", "official", "permanent", "dated"}
        /\ Decisions[d]["status"] = "pending_validation" /\ Decisions[d]["official"] = FALSE
        /\ Decisions[d]["permanent"] = FALSE /\ Decisions[d]["dated"] = FALSE
    BY <2>1
  <2>3. QED
    BY <2>2 DEF DocumentWrites
<1>4. CASE d = "reject"
  <2>1. Decisions[d] = [status |-> "rejected", official |-> FALSE, permanent |-> FALSE,
                       dated |-> FALSE]
    BY <1>4 DEF Decisions
  <2>2. /\ DOMAIN Decisions[d] = {"status", "official", "permanent", "dated"}
        /\ Decisions[d]["status"] = "rejected" /\ Decisions[d]["official"] = FALSE
        /\ Decisions[d]["permanent"] = FALSE /\ Decisions[d]["dated"] = FALSE
    BY <2>1
  <2>3. QED
    BY <2>2 DEF DocumentWrites
<1>5. CASE d = "archive"
  <2>1. Decisions[d] = [status |-> "archived", official |-> FALSE]
    BY <1>5 DEF Decisions
  <2>2. /\ DOMAIN Decisions[d] = {"status", "official"}
        /\ Decisions[d]["status"] = "archived" /\ Decisions[d]["official"] = FALSE
    BY <2>1
  <2>3. QED
    BY <2>2 DEF DocumentWrites
<1>6. QED
  BY <1>1, <1>2, <1>3, <1>4, <1>5 DEF Decisions

LEMMA FileDecisionStep ==
  ASSUME FilesIInv, NEW v \in Validators,
         \/ \E d \in DOMAIN Decisions : DecisionRead(v, d)
         \/ DecisionCommit(v) \/ DecisionFails(v)
  PROVE  FilesIInv'
<1> USE NoFileAssumption DEF FilesIInv
<1>1. CASE \E d \in DOMAIN Decisions : DecisionRead(v, d)
  <2>1. PICK d \in DOMAIN Decisions : DecisionRead(v, d)
    BY <1>1
  <2>2. ValidatorShape'
    BY <2>1, ChangesShape DEF DecisionRead, ValidatorShape, Waiting
  <2>3. QED
    BY <2>1, <2>2
    DEF DecisionRead, FilesTypeOK, CleanerShape, ReferencedHasRow, BytesOfUsable, Referenced
<1>2. CASE DecisionCommit(v)
  <2> DEFINE w == validator[v].writes
  <2>1. /\ UNCHANGED <<disk, posted, proofs, cleaner, unused>>
        /\ document' = [x \in DOMAIN document |-> IF x \in DOMAIN w THEN w[x] ELSE document[x]]
        /\ validator' = [validator EXCEPT ![v] = Waiting]
        /\ validator[v] # Waiting /\ document.status # "none"
    BY <1>2 DEF DecisionCommit
  <2>2. /\ file' \in [Files -> [on : BOOLEAN, kept : BOOLEAN, expired : BOOLEAN,
                                entity : {"none", "document", "post", "chat_thread"}]]
        /\ \A f \in Files : file'[f].on = file[f].on
    <3> DEFINE Kept(g) == [file[g] EXCEPT !.kept = TRUE, !.expired = FALSE]
    <3>1. \A g \in Files : file[g] \in [on : BOOLEAN, kept : BOOLEAN, expired : BOOLEAN,
                                         entity : {"none", "document", "post", "chat_thread"}]
      BY DEF FilesTypeOK
    <3>2. \A g \in Files : /\ Kept(g) \in [on : BOOLEAN, kept : BOOLEAN, expired : BOOLEAN,
                                             entity : {"none", "document", "post", "chat_thread"}]
                            /\ Kept(g).on = file[g].on
      BY <3>1
    <3>3. file' = [g \in Files |-> IF g = validator[v].promotes /\ file[g].on
                                     THEN Kept(g) ELSE file[g]]
      BY <1>2 DEF DecisionCommit
    <3> HIDE DEF Kept
    <3> QED
      BY <3>1, <3>2, <3>3
  <2>3. /\ DOMAIN w \subseteq DocumentWrites
        /\ "status" \in DOMAIN w =>
              w["status"] \in {"pending_validation", "validated", "rejected", "archived"}
        /\ \A x \in DOMAIN w \ {"status"} : w[x] \in BOOLEAN
    BY <2>1 DEF ValidatorShape
  <2> HIDE DEF w
  <2>4. document = [status |-> document.status, official |-> document.official,
                    permanent |-> document.permanent, dated |-> document.dated,
                    file |-> document.file]
    BY DEF FilesTypeOK
  <2>5. DOMAIN document = {"status", "official", "permanent", "dated", "file"}
    BY <2>4
  <2>6. /\ document'.status = IF "status" \in DOMAIN w THEN w["status"] ELSE document.status
        /\ document'.official = IF "official" \in DOMAIN w THEN w["official"] ELSE document.official
        /\ document'.permanent =
              IF "permanent" \in DOMAIN w THEN w["permanent"] ELSE document.permanent
        /\ document'.dated = IF "dated" \in DOMAIN w THEN w["dated"] ELSE document.dated
        /\ document'.file = document.file
    BY <2>1, <2>3, <2>5 DEF DocumentWrites
  <2>7. document' = [status |-> document'.status, official |-> document'.official,
                     permanent |-> document'.permanent, dated |-> document'.dated,
                     file |-> document'.file]
    BY <2>1, <2>5
  <2>8. /\ document'.status \in {"pending_validation", "validated", "rejected", "archived"}
        /\ document'.official \in BOOLEAN /\ document'.permanent \in BOOLEAN
        /\ document'.dated \in BOOLEAN /\ document'.file \in Files \cup {NoFile}
    BY <2>1, <2>3, <2>6 DEF FilesTypeOK
  <2>9. FilesTypeOK'
    BY <2>1, <2>2, <2>7, <2>8 DEF FilesTypeOK
  <2>10. ReferencedHasRow' /\ BytesOfUsable'
    BY <2>1, <2>2, <2>6 DEF ReferencedHasRow, BytesOfUsable, Referenced
  <2>11. ValidatorShape'
    BY <2>1 DEF ValidatorShape
  <2>12. CleanerShape' /\ (document'.status # "none")
    BY <2>1, <2>8 DEF CleanerShape
  <2>13. QED
    BY <2>9, <2>10, <2>11, <2>12
<1>3. CASE DecisionFails(v)
  <2>1. ValidatorShape'
    BY <1>3 DEF DecisionFails, ValidatorShape
  <2>2. QED
    BY <1>3, <2>1
    DEF DecisionFails, FilesTypeOK, CleanerShape, ReferencedHasRow, BytesOfUsable, Referenced
<1>4. QED
  BY <1>1, <1>2, <1>3

\* What is unlinked was looked at, or deleted by hand.
LEMMA CleanerStep ==
  ASSUME FilesIInv,
         \/ CleanStart \/ CleanUnlink \/ CleanCommit
         \/ \E f \in Files : Discard(f) \/ CleanLook(f)
  PROVE  FilesIInv'
<1> USE NoFileAssumption DEF FilesIInv
<1>1. CASE CleanStart
  <2>1. CleanerShape'
    BY <1>1 DEF CleanStart, CleanerShape
  <2>2. QED
    BY <1>1, <2>1
    DEF CleanStart, FilesTypeOK, ValidatorShape, ReferencedHasRow, BytesOfUsable, Referenced
<1>2. CASE CleanUnlink
  <2>1. CleanerShape' /\ cleaner.doomed \subseteq unused
    BY <1>2 DEF CleanUnlink, CleanerShape
  <2>2. QED
    BY <1>2, <2>1
    DEF CleanUnlink, FilesTypeOK, ValidatorShape, ReferencedHasRow, BytesOfUsable, Referenced
<1>3. CASE CleanCommit
  <2>1. /\ file' \in [Files -> [on : BOOLEAN, kept : BOOLEAN, expired : BOOLEAN,
                                entity : {"none", "document", "post", "chat_thread"}]]
        /\ \A f \in Files : Referenced(f) => file'[f].on = file[f].on
        /\ \A f \in Files : file'[f].on => file[f].on
    BY <1>3 DEF CleanCommit, FilesTypeOK, NoRow
  <2>2. CleanerShape'
    BY <1>3 DEF CleanCommit, CleanerShape, Resting
  <2>3. QED
    BY <1>3, <2>1, <2>2
    DEF CleanCommit, FilesTypeOK, ValidatorShape, ReferencedHasRow, BytesOfUsable, Referenced
<1>4. ASSUME NEW f \in Files, Discard(f)
      PROVE  FilesIInv'
  <2>1. /\ file' \in [Files -> [on : BOOLEAN, kept : BOOLEAN, expired : BOOLEAN,
                                entity : {"none", "document", "post", "chat_thread"}]]
        /\ \A g \in Files : Referenced(g) => file'[g].on = file[g].on
        /\ \A g \in Files : file'[g].on => file[g].on
    BY <1>4 DEF Discard, FilesTypeOK, NoRow
  <2>2. QED
    BY <1>4, <2>1
    DEF Discard, FilesTypeOK, CleanerShape, ValidatorShape, ReferencedHasRow, BytesOfUsable,
        Referenced
<1>5. ASSUME NEW f \in Files, CleanLook(f)
      PROVE  FilesIInv'
  <2>1. Skipped(f) \/ (f \notin posted /\ f # document.file)
    BY DEF Skipped, ForPostOrChat, ForDocument
  <2>2. CleanerShape'
    BY <1>5, <2>1 DEF CleanLook, CleanerShape
  <2>3. unused \subseteq unused' /\ unused' \subseteq Files
    BY <1>5 DEF CleanLook, FilesTypeOK
  <2>4. QED
    BY <1>5, <2>2, <2>3
    DEF CleanLook, FilesTypeOK, ValidatorShape, ReferencedHasRow, BytesOfUsable, Referenced
<1>6. QED
  BY <1>1, <1>2, <1>3, <1>4, <1>5

LEMMA FilesStepInv == FilesIInv /\ [FilesNext]_filesVars => FilesIInv'
<1>1. FilesIInv /\ UNCHANGED filesVars => FilesIInv'
  BY DEF filesVars, FilesIInv, FilesTypeOK, CleanerShape, ValidatorShape, ReferencedHasRow,
         BytesOfUsable, Referenced
<1>2. ASSUME FilesIInv, DeleteDocument PROVE FilesIInv'
  <2>1. UNCHANGED <<file, disk, posted, proofs, validator, cleaner, unused>> /\ document' = NoDocument
    BY <1>2 DEF DeleteDocument
  <2>2. NoDocument \in [status : {"none", "pending_validation", "validated", "rejected", "archived"},
                        official : BOOLEAN, permanent : BOOLEAN, dated : BOOLEAN,
                        file : Files \cup {NoFile}]
        /\ NoDocument.file = NoFile
    BY DEF NoDocument
  <2>3. QED
    BY <1>2, <2>1, <2>2, NoFileAssumption
    DEF FilesIInv, FilesTypeOK, CleanerShape, ValidatorShape, ReferencedHasRow, BytesOfUsable,
        Referenced
<1>3. QED
  BY <1>1, <1>2, FileUseStep, FileDecisionStep, CleanerStep DEF FilesNext

\* The bytes of the file of a document or of a post are on the disk, unless somebody
\* deleted the file or a cleaning had looked at it before it was used; and what refers
\* to a file refers to one that has a row.
THEOREM FilesSafe == FilesSpec => []FilesInv
BY FilesInitInv, FilesStepInv, FilesIInvImplies, PTL DEF FilesSpec

----------------------------------------------------------------------------
(* Conversations.  Nobody is about to be given the role of an owner, and a request    *)
(* that would write the row of the owner is his own.                                   *)

ErrandShape ==
    /\ errand = [u \in Members |-> errand[u]]
    /\ \A u \in Members :
          \/ errand[u].does = "nothing"
          \/ errand[u].does \in {"add", "remove"} /\ errand[u].target \in Members
          \/ /\ errand[u].does = "set role" /\ errand[u].target \in Members
             /\ errand[u].role \in {"admin", "member"}

MessageRows == {Unsent} \cup [stage : {"checked", "flushed", "sent"}, author : Members]

\* No role is set for, and nobody but himself removes, the one who owns the conversation.
OwnerIsHisOwn ==
    \A u \in Members :
        errand[u].does \in {"set role", "remove"} /\ thread.role[errand[u].target] = "owner"
            => errand[u].does = "remove" /\ errand[u].target = u

\* What is about to be written to a row was read of a row that is still there.
TargetsTakePart ==
    \A u \in Members : errand[u].does \in {"set role", "remove"} =>
        thread.role[errand[u].target] # Outside

ChatIInv ==
    /\ ChatInv
    /\ thread = [kind |-> thread.kind, role |-> thread.role]
    /\ founderLeft \in BOOLEAN
    /\ ErrandShape /\ message \in [Messages -> MessageRows]
    /\ OwnerIsHisOwn /\ TargetsTakePart

ChatSpec == ChatInit /\ [][ChatNext]_chatVars

LEMMA ChatInitInv == ChatInit => ChatIInv
<1> SUFFICES ASSUME ChatInit PROVE ChatIInv
  OBVIOUS
<1> USE FounderIsMember DEF ChatInit
<1>1. ChatTypeOK /\ Participants = {} /\ Flushing = {}
  BY DEF ChatTypeOK, NoThread, Outside, Participants, Flushing, Unsent
<1>2. thread = [kind |-> thread.kind, role |-> thread.role] /\ thread.kind = "none"
  BY DEF NoThread
<1>3. \A u \in Members : thread.role[u] # "owner" /\ errand[u].does = "nothing"
  BY DEF NoThread, NoErrand, Outside
<1>4. ErrandShape /\ message \in [Messages -> MessageRows]
  BY <1>3 DEF ErrandShape, MessageRows
<1>5. QED
  BY <1>1, <1>2, <1>3, <1>4 DEF ChatIInv, ChatInv, OwnerIsHisOwn, TargetsTakePart

LEMMA CreateThreadStep ==
  ASSUME ChatIInv, NEW kind \in {"direct", "group"}, NEW invited \in SUBSET Members,
         CreateThread(kind, invited)
  PROVE  ChatIInv'
<1> USE FounderIsMember DEF ChatIInv, ChatInv
<1>1. /\ thread.kind = "none" /\ UNCHANGED <<founderLeft, errand, message>>
      /\ thread' = [kind |-> kind,
                    role |-> [u \in Members |-> IF u = Founder THEN "owner"
                                                ELSE IF u \in invited THEN "member" ELSE Outside]]
  BY DEF CreateThread
<1>2. \A u \in Members : thread.role[u] = Outside
  BY <1>1 DEF Participants
<1>3. \A u \in Members : errand[u].does \notin {"set role", "remove"}
  BY <1>2 DEF TargetsTakePart, ErrandShape
<1>4. Flushing = {}
  BY <1>2 DEF Flushing, Participants, MessageRows, Unsent
<1>5. ChatTypeOK' /\ thread' = [kind |-> thread'.kind, role |-> thread'.role]
  BY <1>1 DEF ChatTypeOK, Outside
<1>6. ChatInv'
  BY <1>1, <1>4, <1>5 DEF Flushing, Outside
<1>7. ErrandShape' /\ OwnerIsHisOwn' /\ TargetsTakePart'
  BY <1>1, <1>3 DEF ErrandShape, OwnerIsHisOwn, TargetsTakePart
<1>8. QED
  BY <1>1, <1>5, <1>6, <1>7

\* A request begins: it is not about the owner, unless he leaves.
LEMMA ErrandReadStep ==
  ASSUME ChatIInv, NEW u \in Members, NEW t \in Members,
         \/ \E r \in {"admin", "member"} : RoleRead(u, t, r)
         \/ AddRead(u, t) \/ RemoveRead(u, t)
  PROVE  ChatIInv'
<1> USE DEF ChatIInv, ChatInv
<1>1. UNCHANGED <<thread, founderLeft, message>>
  BY DEF RoleRead, AddRead, RemoveRead
<1>2. /\ errand' = [errand EXCEPT ![u] = errand'[u]]
      /\ errand'[u].target = t
      /\ \/ errand'[u].does = "add"
         \/ /\ errand'[u].does = "remove" /\ thread.role[t] # Outside
            /\ thread.role[t] = "owner" => t = u
         \/ /\ errand'[u].does = "set role" /\ thread.role[t] \notin {Outside, "owner"}
            /\ errand'[u].role \in {"admin", "member"}
  <2>1. u \in DOMAIN errand
    BY DEF ErrandShape
  <2>2. ASSUME NEW r \in {"admin", "member"}, RoleRead(u, t, r) PROVE <1>2!:
    BY <2>1, <2>2 DEF RoleRead
  <2>3. CASE AddRead(u, t)
    BY <2>1, <2>3 DEF AddRead
  <2>4. CASE RemoveRead(u, t)
    BY <2>1, <2>4 DEF RemoveRead, MayRemove
  <2>5. QED
    BY <2>2, <2>3, <2>4
<1>3. \A v \in Members \ {u} : errand'[v] = errand[v]
  BY <1>2 DEF ErrandShape
<1>4. ErrandShape'
  <2>1. errand' = [v \in Members |-> errand'[v]]
    BY <1>2 DEF ErrandShape
  <2>2. QED
    <3>1. ASSUME NEW v \in Members
          PROVE  \/ errand'[v].does = "nothing"
                 \/ errand'[v].does \in {"add", "remove"} /\ errand'[v].target \in Members
                 \/ /\ errand'[v].does = "set role" /\ errand'[v].target \in Members
                    /\ errand'[v].role \in {"admin", "member"}
      <4>1. CASE v = u
        BY <1>2, <4>1
      <4>2. CASE v # u
        <5>1. errand'[v] = errand[v]
          BY <1>3, <4>2
        <5>2. QED
          BY <5>1 DEF ErrandShape
      <4>3. QED
        BY <4>1, <4>2
    <3>2. QED
      BY <2>1, <3>1 DEF ErrandShape
<1>5. OwnerIsHisOwn'
  <2> SUFFICES ASSUME NEW v \in Members, errand'[v].does \in {"set role", "remove"},
                      thread'.role[errand'[v].target] = "owner"
               PROVE  errand'[v].does = "remove" /\ errand'[v].target = v
    BY DEF OwnerIsHisOwn
  <2>1. CASE v = u
    BY <1>1, <1>2, <2>1
  <2>2. CASE v # u
    BY <1>1, <1>3, <2>2, ZenonT(60) DEF OwnerIsHisOwn
  <2>3. QED
    BY <2>1, <2>2
<1>6. TargetsTakePart'
  BY <1>1, <1>2, <1>3 DEF TargetsTakePart
<1>7. ChatInv'
  BY <1>1 DEF ChatTypeOK, Participants, Flushing
<1>8. QED
  BY <1>1, <1>4, <1>5, <1>6, <1>7

\* A role is set, or a participant is added: the owner is neither.
LEMMA RoleAddCommitStep ==
  ASSUME ChatIInv, NEW u \in Members, RoleCommit(u) \/ AddCommit(u)
  PROVE  ChatIInv'
<1> USE DEF ChatIInv, ChatInv
<1> DEFINE t == errand[u].target
<1>1. /\ UNCHANGED <<founderLeft, message>> /\ errand' = [errand EXCEPT ![u] = NoErrand]
      /\ errand[u].does \in {"set role", "add"} /\ t \in Members
  BY DEF RoleCommit, AddCommit, ErrandShape
<1>2. /\ thread' = [kind |-> thread.kind, role |-> thread'.role] /\ ChatTypeOK'
      /\ \A v \in Members \ {t} : thread'.role[v] = thread.role[v]
      /\ \/ thread'.role[t] = thread.role[t]
         \/ /\ thread.kind # "none" /\ thread.role[t] # "owner"
            /\ thread'.role[t] \in {"admin", "member"}
  <2>1. CASE RoleCommit(u)
    <3>1. /\ thread' = [thread EXCEPT !.role[t] = errand[u].role]
          /\ errand[u].role \in {"admin", "member"} /\ errand[u].does = "set role"
      BY <2>1 DEF RoleCommit, ErrandShape
    <3>2. thread.role[t] \notin {Outside, "owner"}
      BY <1>1, <3>1 DEF OwnerIsHisOwn, TargetsTakePart
    <3>3. thread.kind # "none"
      BY <1>1, <3>2 DEF Participants
    <3>4. QED
      BY <1>1, <3>1, <3>2, <3>3 DEF ChatTypeOK
  <2>2. CASE AddCommit(u)
    BY <1>1, <2>2 DEF AddCommit, ChatTypeOK, Outside
  <2>3. QED
    BY <1>1, <2>1, <2>2
<1>3. ErrandShape'
  BY <1>1 DEF ErrandShape, NoErrand
<1>4. OwnerIsHisOwn' /\ TargetsTakePart'
  <2>1. errand'[u].does = "nothing" /\ \A v \in Members \ {u} : errand'[v] = errand[v]
    BY <1>1 DEF ErrandShape, NoErrand
  <2>2. \A v \in Members : thread'.role[v] = "owner" => thread.role[v] = "owner"
    BY <1>2
  <2>3. \A v \in Members : thread.role[v] # Outside => thread'.role[v] # Outside
    BY <1>2 DEF Outside
  <2>4. \A v \in Members : errand[v].does \in {"set role", "remove"} => errand[v].target \in Members
    BY DEF ErrandShape
  <2>5. OwnerIsHisOwn'
    <3> SUFFICES ASSUME NEW v \in Members, errand'[v].does \in {"set role", "remove"},
                        thread'.role[errand'[v].target] = "owner"
                 PROVE  errand'[v].does = "remove" /\ errand'[v].target = v
      BY DEF OwnerIsHisOwn
    <3>1. errand'[v] = errand[v]
      BY <2>1
    <3>2. thread.role[errand[v].target] = "owner"
      BY <2>2, <2>4, <3>1
    <3>3. QED
      BY <3>1, <3>2 DEF OwnerIsHisOwn
  <2>6. TargetsTakePart'
    BY <2>1, <2>3, <2>4 DEF TargetsTakePart
  <2>7. QED
    BY <2>5, <2>6
<1>5. thread'.kind = thread.kind /\ Participants \subseteq Participants'
  BY <1>2 DEF Participants, Outside
<1>6. thread.kind = "none" => Participants' = {}
  BY <1>2 DEF Participants
<1>7. ChatInv'
  BY <1>1, <1>2, <1>5, <1>6, FounderIsMember DEF Flushing
<1>8. QED
  BY <1>1, <1>2, <1>3, <1>4, <1>7

\* Whoever is removed has no message being committed, and what was about his row is off.
LEMMA RemoveCommitStep ==
  ASSUME ChatIInv, NEW u \in Members, RemoveCommit(u)
  PROVE  ChatIInv'
<1> USE FounderIsMember DEF ChatIInv, ChatInv
<1> DEFINE t == errand[u].target
<1>1. /\ errand[u].does = "remove" /\ t \in Members
      /\ \A m \in Flushing : message[m].author # t
      /\ thread' = [thread EXCEPT !.role[t] = Outside]
      /\ founderLeft' = (founderLeft \/ (t = u /\ thread.role[t] = "owner"))
      /\ errand' = [Without(t) EXCEPT ![u] = NoErrand]
      /\ UNCHANGED message
  BY DEF RemoveCommit, ErrandShape
<1>2. /\ ChatTypeOK' /\ thread' = [kind |-> thread'.kind, role |-> thread'.role]
      /\ thread'.kind = thread.kind
      /\ thread'.role[t] = Outside
      /\ \A v \in Members \ {t} : thread'.role[v] = thread.role[v]
  BY <1>1 DEF ChatTypeOK
<1>3. /\ errand' = [v \in Members |-> errand'[v]]
      /\ \A v \in Members :
            \/ errand'[v].does = "nothing"
            \/ /\ errand'[v] = errand[v]
               /\ errand[v].does \in {"set role", "remove"} => errand[v].target # t
  BY <1>1 DEF Without, NoErrand
<1>4. ErrandShape'
  BY <1>3 DEF ErrandShape
<1>5. \A v \in Members : errand[v].does \in {"set role", "remove"} => errand[v].target \in Members
  BY DEF ErrandShape
<1>6. OwnerIsHisOwn'
  <2> SUFFICES ASSUME NEW v \in Members, errand'[v].does \in {"set role", "remove"},
                      thread'.role[errand'[v].target] = "owner"
               PROVE  errand'[v].does = "remove" /\ errand'[v].target = v
    BY DEF OwnerIsHisOwn
  <2>1. errand'[v] = errand[v] /\ errand[v].target # t
    BY <1>3
  <2>2. QED
    BY <1>2, <1>5, <2>1 DEF OwnerIsHisOwn
<1>7. TargetsTakePart'
  <2> SUFFICES ASSUME NEW v \in Members, errand'[v].does \in {"set role", "remove"}
               PROVE  thread'.role[errand'[v].target] # Outside
    BY DEF TargetsTakePart
  <2>1. errand'[v] = errand[v] /\ errand[v].target # t
    BY <1>3
  <2>2. thread.role[errand[v].target] # Outside /\ errand[v].target \in Members
    BY <1>5, <2>1 DEF TargetsTakePart
  <2>3. thread'.role[errand[v].target] = thread.role[errand[v].target]
    BY <1>2, <2>1, <2>2
  <2>4. QED
    BY <2>1, <2>2, <2>3
<1>8. thread.kind # "none" => (founderLeft' \/ thread'.role[Founder] = "owner")
  BY <1>1, <1>2 DEF OwnerIsHisOwn
<1>9. /\ thread.kind = "none" => Participants' = {}
      /\ \A m \in Flushing : message[m].author \in Participants'
  BY <1>1, <1>2 DEF Participants
<1>10. ChatInv'
  BY <1>1, <1>2, <1>8, <1>9 DEF Flushing, Outside
<1>11. founderLeft' \in BOOLEAN
  BY <1>1
<1>12. QED
  BY <1>1, <1>2, <1>4, <1>6, <1>7, <1>10, <1>11

LEMMA DeleteThreadStep ==
  ASSUME ChatIInv, NEW u \in Members, DeleteThread(u)
  PROVE  ChatIInv'
<1> USE FounderIsMember DEF ChatIInv, ChatInv
<1>1. /\ Flushing = {} /\ thread' = NoThread /\ founderLeft' = FALSE
      /\ message' = [m \in Messages |-> IF m \in Sent THEN Unsent ELSE message[m]]
      /\ errand' = [v \in Members |-> IF errand[v].does = "add" THEN errand[v] ELSE NoErrand]
  BY DEF DeleteThread
<1>2. ChatTypeOK' /\ thread' = [kind |-> thread'.kind, role |-> thread'.role]
  BY <1>1 DEF ChatTypeOK, NoThread, Outside
<1>3. thread'.kind = "none" /\ Participants' = {} /\ Flushing' = {}
  BY <1>1 DEF NoThread, Participants, Flushing, Unsent
<1>4. \A v \in Members : thread'.role[v] # "owner"
  BY <1>1 DEF NoThread, Outside
<1>5. message' \in [Messages -> MessageRows]
  BY <1>1 DEF MessageRows
<1>6. ErrandShape' /\ \A v \in Members : errand'[v].does \in {"add", "nothing"}
  BY <1>1 DEF ErrandShape, NoErrand
<1>7. QED
  BY <1>1, <1>2, <1>3, <1>4, <1>5, <1>6 DEF OwnerIsHisOwn, TargetsTakePart

LEMMA MessageStep ==
  ASSUME ChatIInv, NEW m \in Messages,
         (\E u \in Members : SendCheck(m, u)) \/ SendFlush(m) \/ SendCommit(m)
  PROVE  ChatIInv'
<1> USE DEF ChatIInv, ChatInv
<1>1. UNCHANGED <<thread, founderLeft, errand>>
  BY DEF SendCheck, SendFlush, SendCommit
<1>2. /\ message' \in [Messages -> MessageRows]
      /\ \A n \in Messages : message'[n].stage = "flushed" =>
            message'[n].author \in Participants
  <2>1. CASE \E u \in Members : SendCheck(m, u)
    BY <2>1 DEF SendCheck, MessageRows, Flushing
  <2>2. ASSUME message[m].stage \in {"checked", "flushed"}
        PROVE  message[m] \in [stage : {"checked", "flushed", "sent"}, author : Members]
    BY <2>2 DEF MessageRows, Unsent
  <2>3. CASE SendFlush(m)
    BY <2>2, <2>3 DEF SendFlush, StillWritten, MessageRows, Flushing, Unsent
  <2>4. CASE SendCommit(m)
    BY <2>2, <2>4 DEF SendCommit, MessageRows, Flushing
  <2>5. QED
    BY <2>1, <2>3, <2>4
<1>3. \A n \in Flushing' : message'[n].author \in Participants'
  BY <1>1, <1>2 DEF Flushing, Participants
<1>4. QED
  BY <1>1, <1>2, <1>3
  DEF ChatTypeOK, Participants, ErrandShape, OwnerIsHisOwn, TargetsTakePart

LEMMA ChatStepInv == ChatIInv /\ [ChatNext]_chatVars => ChatIInv'
<1>1. ChatIInv /\ UNCHANGED chatVars => ChatIInv'
  <2> SUFFICES ASSUME ChatIInv, UNCHANGED chatVars PROVE ChatIInv'
    OBVIOUS
  <2> USE DEF chatVars, ChatIInv
  <2>1. ChatInv'
    BY DEF ChatInv, ChatTypeOK, Participants, Flushing
  <2>2. ErrandShape' /\ OwnerIsHisOwn' /\ TargetsTakePart'
    BY DEF ErrandShape, OwnerIsHisOwn, TargetsTakePart
  <2>3. QED
    BY <2>1, <2>2
<1>2. QED
  BY <1>1, CreateThreadStep, ErrandReadStep, RoleAddCommitStep, RemoveCommitStep,
     DeleteThreadStep, MessageStep
  DEF ChatNext

\* The founder owns the conversation until he leaves it, and nobody else ever does; what
\* is committed in it was written by somebody who took part in it then.
THEOREM ChatSafe == ChatSpec => []ChatInv
<1>1. ChatIInv => ChatInv
  BY DEF ChatIInv
<1>2. QED
  BY <1>1, ChatInitInv, ChatStepInv, PTL DEF ChatSpec

----------------------------------------------------------------------------
(* Services of an account.  First the legal texts: publications hold different        *)
(* versions, and one that waits for others has found that its own is not in force,     *)
(* which no other publication can change.                                              *)

PublisherShape ==
    /\ publisher = [k \in Publishers |-> publisher[k]]
    /\ \A k \in Publishers :
          /\ publisher[k].stage \in {"none", "locked", "found", "ready"}
          /\ publisher[k].stage # "none" => publisher[k].version \in Versions
          /\ publisher[k].stage \in {"found", "ready"} =>
                publisher[k] \in [stage : {"found", "ready"}, version : Versions,
                                  previous : SUBSET Versions]

LocksApart == \A j, k \in Publishers : j # k => HeldBy(j) \cap HeldBy(k) = {}

FoundNotInForce ==
    \A k \in Publishers : publisher[k].stage = "found" /\ publisher[k].previous # {}
        => publisher[k].version \notin terms.active

NobodyWaitsInCircle ==
    ~ \E j, k \in Publishers :
        /\ j # k /\ publisher[j].stage = "found" /\ publisher[k].stage = "found"
        /\ publisher[j].previous \cap HeldBy(k) # {}
        /\ publisher[k].previous \cap HeldBy(j) # {}

TermsIInv ==
    /\ terms \in [published : SUBSET Versions, active : SUBSET Versions, accepted : SUBSET Versions]
    /\ terms.active \cup terms.accepted \subseteq terms.published
    /\ terms.published # {} => \E v \in Versions : terms.active = {v}
    /\ PublisherShape /\ LocksApart /\ FoundNotInForce /\ NobodyWaitsInCircle

LEMMA TermsInitInv == ServicesInit => TermsIInv
BY DEF ServicesInit, TermsIInv, PublisherShape, LocksApart, FoundNotInForce,
       NobodyWaitsInCircle, NotPublishing, HeldBy

LEMMA TermsImplies == TermsIInv => TermsInForce
<1> SUFFICES ASSUME TermsIInv, terms.published # {} PROVE Cardinality(terms.active) = 1
  BY DEF TermsIInv, TermsInForce, NobodyWaitsInCircle
<1>1. PICK v \in Versions : terms.active = {v}
  BY DEF TermsIInv
<1>2. Cardinality({v}) = 1
  BY FS_Singleton
<1>3. QED
  BY <1>1, <1>2

\* A publication that takes a lock, or looks, leaves the others as they are.
LEMMA PublisherStep ==
  ASSUME TermsIInv, NEW k \in Publishers,
         (\E v \in Versions : PublishLock(k, v)) \/ PublishFind(k) \/ PublishHold(k)
  PROVE  TermsIInv'
<1> USE DEF TermsIInv
<1>1. UNCHANGED terms
  BY DEF PublishLock, PublishFind, PublishHold
<1>2. \E row : publisher' = [publisher EXCEPT ![k] = row]
  BY DEF PublishLock, PublishFind, PublishHold
<1>3. /\ publisher' = [j \in Publishers |-> publisher'[j]]
      /\ \A j \in Publishers \ {k} : publisher'[j] = publisher[j]
  BY <1>2 DEF PublisherShape
<1>4. \A j \in Publishers \ {k} : HeldBy(j)' = HeldBy(j)
  BY <1>3 DEF HeldBy
<1>5. ASSUME NEW v \in Versions, PublishLock(k, v) PROVE TermsIInv'
  <2>1. publisher'[k] = [stage |-> "locked", version |-> v] /\ FreeFor(k, v)
    BY <1>5 DEF PublishLock, PublisherShape
  <2>2. HeldBy(k)' = {v}
    BY <2>1 DEF HeldBy
  <2>3. LocksApart'
    BY <1>3, <1>4, <2>1, <2>2 DEF LocksApart, FreeFor
  <2>4. PublisherShape' /\ FoundNotInForce' /\ NobodyWaitsInCircle'
    BY <1>1, <1>3, <1>4, <2>1 DEF PublisherShape, FoundNotInForce, NobodyWaitsInCircle
  <2>5. QED
    BY <1>1, <2>3, <2>4
<1>6. CASE PublishFind(k)
  <2>1. /\ publisher[k].stage = "locked" /\ publisher[k].version \in Versions
        /\ publisher'[k] = [stage |-> "found", version |-> publisher[k].version,
                            previous |-> terms.active \ {publisher[k].version}]
    BY <1>6 DEF PublishFind, PublisherShape
  <2>2. HeldBy(k)' = {publisher[k].version} /\ HeldBy(k) = {publisher[k].version}
    BY <2>1 DEF HeldBy
  <2>3. LocksApart'
    BY <1>3, <1>4, <2>2 DEF LocksApart
  <2>4. terms.active = {} \/ \E v \in Versions : terms.active = {v}
    OBVIOUS
  <2>5. FoundNotInForce'
    BY <1>1, <1>3, <2>1, <2>4 DEF FoundNotInForce
  <2>6. \A j \in Publishers \ {k} :
          publisher'[j].stage = "found" /\ publisher'[j].previous # {} =>
              publisher'[k].previous \cap HeldBy(j)' = {}
    BY <1>3, <1>4, <2>1 DEF FoundNotInForce, HeldBy
  <2>7. NobodyWaitsInCircle'
    BY <1>3, <1>4, <2>6 DEF NobodyWaitsInCircle
  <2>8. PublisherShape'
    BY <1>3, <2>1 DEF PublisherShape
  <2>9. QED
    BY <1>1, <2>3, <2>5, <2>7, <2>8
<1>7. CASE PublishHold(k)
  <2>1. /\ publisher[k].stage = "found" /\ publisher[k].version \in Versions
        /\ publisher[k].previous \subseteq Versions
        /\ \A v \in publisher[k].previous : FreeFor(k, v)
        /\ publisher'[k] \in [stage : {"found", "ready"}, version : Versions,
                              previous : SUBSET Versions]
        /\ publisher'[k].stage = "ready" /\ publisher'[k].version = publisher[k].version
        /\ publisher'[k].previous = publisher[k].previous \cap terms.active
    <3>1. /\ publisher[k].stage = "found" /\ \A v \in publisher[k].previous : FreeFor(k, v)
          /\ publisher'[k] =
                [publisher[k] EXCEPT !.stage = "ready",
                                     !.previous = publisher[k].previous \cap terms.active]
      BY <1>7 DEF PublishHold, PublisherShape
    <3>2. publisher[k] \in [stage : {"found", "ready"}, version : Versions,
                            previous : SUBSET Versions]
      BY <3>1 DEF PublisherShape
    <3>3. QED
      BY <3>1, <3>2
  <2>2. /\ HeldBy(k)' \subseteq HeldBy(k) \cup publisher[k].previous
    BY <2>1 DEF HeldBy
  <2>3. LocksApart'
    BY <1>3, <1>4, <2>1, <2>2 DEF LocksApart, FreeFor
  <2>4. PublisherShape' /\ FoundNotInForce' /\ NobodyWaitsInCircle'
    BY <1>1, <1>3, <1>4, <2>1 DEF PublisherShape, FoundNotInForce, NobodyWaitsInCircle
  <2>5. QED
    BY <1>1, <2>3, <2>4
<1>8. QED
  BY <1>5, <1>6, <1>7

\* The text in force changes for one that its publication alone holds.
LEMMA PublishCommitStep ==
  ASSUME TermsIInv, NEW k \in Publishers, PublishCommit(k)
  PROVE  TermsIInv'
<1> USE DEF TermsIInv
<1> DEFINE v == publisher[k].version
<1>1. /\ publisher[k].stage = "ready" /\ v \in Versions
      /\ terms' = IF Refused(k) THEN terms
                  ELSE [terms EXCEPT !.published = @ \cup {v},
                                     !.active = (@ \ publisher[k].previous) \cup {v}]
      /\ publisher' = [publisher EXCEPT ![k] = NotPublishing]
  BY DEF PublishCommit, PublisherShape
<1>2. /\ publisher' = [j \in Publishers |-> publisher'[j]] /\ publisher'[k] = NotPublishing
      /\ \A j \in Publishers \ {k} : publisher'[j] = publisher[j]
  BY <1>1 DEF PublisherShape
<1>3. /\ \A j \in Publishers \ {k} : HeldBy(j)' = HeldBy(j)
      /\ HeldBy(k)' = {} /\ v \in HeldBy(k)
  BY <1>1, <1>2 DEF HeldBy, NotPublishing
<1>4. PublisherShape' /\ LocksApart' /\ NobodyWaitsInCircle'
  BY <1>2, <1>3 DEF PublisherShape, LocksApart, NobodyWaitsInCircle, NotPublishing
<1>5. ~Refused(k) => (terms.active \ publisher[k].previous) \cup {v} = {v}
  BY DEF Refused
<1>6. \/ terms' = terms
      \/ /\ terms' = [published |-> terms.published \cup {v}, active |-> {v},
                      accepted |-> terms.accepted]
  BY <1>1, <1>5
<1>7. FoundNotInForce'
  <2> SUFFICES ASSUME NEW j \in Publishers, publisher'[j].stage = "found",
                      publisher'[j].previous # {}
               PROVE  publisher'[j].version \notin terms'.active
    BY DEF FoundNotInForce
  <2>1. j # k /\ publisher'[j] = publisher[j]
    BY <1>2 DEF NotPublishing
  <2>2. publisher[j].version # v
    BY <1>3, <2>1 DEF LocksApart, HeldBy
  <2>3. publisher[j].version \notin terms.active
    BY <2>1 DEF FoundNotInForce
  <2>4. QED
    BY <1>6, <2>1, <2>2, <2>3
<1>8. QED
  BY <1>1, <1>4, <1>6, <1>7

LEMMA AcceptTermsStep ==
  ASSUME TermsIInv, NEW v \in Versions, AcceptTerms(v)
  PROVE  TermsIInv'
<1>1. /\ UNCHANGED publisher
      /\ terms' = [terms EXCEPT !.accepted = @ \cup {v}] /\ v \in terms.published
  BY DEF AcceptTerms
<1>2. /\ terms'.published = terms.published /\ terms'.active = terms.active
      /\ terms'.accepted = terms.accepted \cup {v}
      /\ terms' \in [published : SUBSET Versions, active : SUBSET Versions,
                     accepted : SUBSET Versions]
  BY <1>1 DEF TermsIInv
<1>3. QED
  BY <1>1, <1>2
  DEF TermsIInv, PublisherShape, LocksApart, FoundNotInForce, NobodyWaitsInCircle, HeldBy

(* Then the deletion of the account and the ticket: what a clerk is about to write      *)
(* carries the date of the status it gives.                                              *)

DeletionStatuses == {"none", "pending", "approved", "rejected", "cancelled", "completed"}

TicketWrites(k) ==
    /\ clerk[k].to \in DOMAIN TicketMoves
    /\ DOMAIN clerk[k].dates \subseteq {"resolvedAt", "closedAt"}
    /\ \A x \in DOMAIN clerk[k].dates : clerk[k].dates[x] \in BOOLEAN
    /\ clerk[k].to = "resolved" =>
          "resolvedAt" \in DOMAIN clerk[k].dates /\ clerk[k].dates["resolvedAt"] = TRUE
    /\ clerk[k].to = "closed" =>
          "closedAt" \in DOMAIN clerk[k].dates /\ clerk[k].dates["closedAt"] = TRUE

ClerkShape ==
    /\ clerk = [k \in Agents |-> clerk[k]]
    /\ \A k \in Agents :
          \/ clerk[k].about = "nothing"
          \/ /\ clerk[k].about = "deletion"
             /\ clerk[k].to \in {"approved", "rejected", "cancelled", "completed"}
          \/ clerk[k].about = "ticket" /\ TicketWrites(k)

DatesIInv ==
    /\ deletion \in [status : DeletionStatuses, cancelledAt : BOOLEAN, processedAt : BOOLEAN]
    /\ ticket \in [status : DOMAIN TicketMoves, resolvedAt : BOOLEAN, closedAt : BOOLEAN]
    /\ StatusesDated /\ ClerkShape

ServicesIInv == TermsIInv /\ DatesIInv

ServicesSpec == ServicesInit /\ [][TermsNext \/ DeletionNext \/ TicketNext]_serviceVars

LEMMA TicketStatuses ==
  /\ DOMAIN TicketMoves = {"none", "open", "in_progress", "resolved", "closed"}
  /\ \A s \in DOMAIN TicketMoves : TicketMoves[s] \subseteq DOMAIN TicketMoves
<1>1. DOMAIN TicketMoves = {"none", "open", "in_progress", "resolved", "closed"}
  BY DEF TicketMoves
<1>2. /\ TicketMoves["none"] = {} /\ TicketMoves["open"] = {"in_progress", "resolved", "closed"}
      /\ TicketMoves["in_progress"] = {"open", "resolved", "closed"}
      /\ TicketMoves["resolved"] = {"in_progress", "closed"} /\ TicketMoves["closed"] = {"open"}
  BY DEF TicketMoves
<1>3. QED
  BY <1>1, <1>2

LEMMA DatesInitInv == ServicesInit => DatesIInv
<1> SUFFICES ASSUME ServicesInit PROVE DatesIInv
  OBVIOUS
<1>1. \A k \in Agents : clerk[k].about = "nothing"
  BY DEF ServicesInit, NoChange
<1>2. ClerkShape
  BY <1>1 DEF ServicesInit, ClerkShape
<1>3. QED
  BY <1>2, TicketStatuses DEF ServicesInit, DatesIInv, DeletionStatuses, StatusesDated

LEMMA ServicesIInvImplies == ServicesIInv => ServicesInv
BY TermsImplies DEF ServicesIInv, ServicesInv, ServicesTypeOK, TermsIInv, DatesIInv, DeletionStatuses

\* A clerk that is about to write something else, or nothing, leaves the dates alone.
LEMMA ClerkKeeps ==
  ASSUME DatesIInv, clerk' = [k \in Agents |-> clerk'[k]],
         \A k \in Agents : clerk'[k] = clerk[k] \/ clerk'[k].about = "nothing"
  PROVE  ClerkShape'
<1> SUFFICES ASSUME NEW k \in Agents, clerk'[k] = clerk[k]
             PROVE  \/ clerk'[k].about = "nothing"
                    \/ /\ clerk'[k].about = "deletion"
                       /\ clerk'[k].to \in {"approved", "rejected", "cancelled", "completed"}
                    \/ clerk'[k].about = "ticket" /\ TicketWrites(k)'
  BY DEF ClerkShape
<1>1. TicketWrites(k) => TicketWrites(k)'
  BY DEF TicketWrites
<1>2. QED
  BY <1>1 DEF DatesIInv, ClerkShape

LEMMA DeletionStep ==
  ASSUME DatesIInv, DeletionNext
  PROVE  DatesIInv'
<1> USE DEF DatesIInv
<1>1. UNCHANGED ticket
  BY DEF DeletionNext, RequestDeletion, DeletionRead, DeletionCommit
<1>2. CASE RequestDeletion
  <2>1. /\ deletion' = [status |-> "pending", cancelledAt |-> FALSE, processedAt |-> FALSE]
        /\ clerk' = [k \in Agents |-> IF clerk[k].about = "deletion" THEN NoChange ELSE clerk[k]]
    BY <1>2 DEF RequestDeletion
  <2>2. ClerkShape'
    BY <2>1, ClerkKeeps DEF NoChange
  <2>3. QED
    BY <1>1, <2>1, <2>2 DEF StatusesDated, DeletionStatuses
<1>3. ASSUME NEW k \in Agents,
             NEW s \in UNION {DeletionMoves[x] : x \in DOMAIN DeletionMoves}, DeletionRead(k, s)
      PROVE  DatesIInv'
  <2>1. /\ UNCHANGED deletion
        /\ clerk' = [clerk EXCEPT ![k] = [about |-> "deletion", to |-> s]]
        /\ s \in {"approved", "rejected", "cancelled", "completed"}
    BY <1>3 DEF DeletionRead, DeletionMoves
  <2>2. clerk'[k].about = "deletion" /\ clerk'[k].to = s
    BY <2>1 DEF ClerkShape
  <2>3. \A j \in Agents \ {k} : clerk'[j] = clerk[j] /\ (TicketWrites(j) => TicketWrites(j)')
    BY <2>1 DEF ClerkShape, TicketWrites
  <2>4. ClerkShape'
    <3>1. clerk' = [j \in Agents |-> clerk'[j]]
      BY <2>1 DEF ClerkShape
    <3>2. QED
      BY <2>1, <2>2, <2>3, <3>1 DEF ClerkShape
  <2>5. QED
    BY <1>1, <2>1, <2>4 DEF StatusesDated
<1>4. ASSUME NEW k \in Agents, DeletionCommit(k)
      PROVE  DatesIInv'
  <2>1. /\ deletion' = IF clerk[k].to = "cancelled"
                       THEN [deletion EXCEPT !.status = "cancelled", !.cancelledAt = TRUE]
                       ELSE [deletion EXCEPT !.status = clerk[k].to, !.processedAt = TRUE]
        /\ clerk' = [clerk EXCEPT ![k] = NoChange]
        /\ clerk[k].to \in {"approved", "rejected", "cancelled", "completed"}
    BY <1>4 DEF DeletionCommit, ClerkShape
  <2>2. ClerkShape'
    <3>1. /\ clerk' = [j \in Agents |-> clerk'[j]]
          /\ \A j \in Agents : clerk'[j] = clerk[j] \/ clerk'[j] = NoChange
      BY <2>1 DEF ClerkShape
    <3>2. QED
      BY <3>1, ClerkKeeps DEF NoChange
  <2>3. /\ deletion' \in [status : DeletionStatuses, cancelledAt : BOOLEAN, processedAt : BOOLEAN]
        /\ deletion'.status = "cancelled" => deletion'.cancelledAt
        /\ deletion'.status \in {"approved", "rejected", "completed"} => deletion'.processedAt
    BY <2>1 DEF DeletionStatuses
  <2>4. QED
    BY <1>1, <2>2, <2>3 DEF StatusesDated
<1>5. QED
  BY <1>2, <1>3, <1>4 DEF DeletionNext

\* The dates of the statuses resolved and closed are always among those written.
LEMMA TicketReadWrites ==
  ASSUME DatesIInv, NEW k \in Agents, NEW s \in DOMAIN TicketMoves, TicketRead(k, s)
  PROVE  clerk'[k].about = "ticket" /\ TicketWrites(k)'
<1> DEFINE d == TicketDates(s)
           written == {x \in DOMAIN d : d[x] \/ d[x] # ticket[x]}
<1>1. clerk'[k] = [about |-> "ticket", to |-> s, dates |-> [x \in written |-> d[x]]]
  BY DEF TicketRead, DatesIInv, ClerkShape
<1>2. /\ DOMAIN d \subseteq {"resolvedAt", "closedAt"}
      /\ \A x \in DOMAIN d : d[x] \in BOOLEAN
      /\ s = "resolved" => "resolvedAt" \in DOMAIN d /\ d["resolvedAt"] = TRUE
      /\ s = "closed" => "closedAt" \in DOMAIN d /\ d["closedAt"] = TRUE
  <2>1. CASE s = "resolved"
    <3>1. d = [resolvedAt |-> TRUE, closedAt |-> FALSE]
      BY <2>1 DEF TicketDates
    <3>2. DOMAIN d = {"resolvedAt", "closedAt"} /\ d["resolvedAt"] = TRUE /\ d["closedAt"] = FALSE
      BY <3>1
    <3>3. QED
      BY <2>1, <3>2
  <2>2. CASE s = "closed"
    <3>1. d = [closedAt |-> TRUE]
      BY <2>2 DEF TicketDates
    <3>2. DOMAIN d = {"closedAt"} /\ d["closedAt"] = TRUE
      BY <3>1
    <3>3. QED
      BY <2>2, <3>2
  <2>3. CASE s \notin {"resolved", "closed"}
    <3>1. d = [resolvedAt |-> FALSE, closedAt |-> FALSE]
      BY <2>3 DEF TicketDates
    <3>2. DOMAIN d = {"resolvedAt", "closedAt"} /\ d["resolvedAt"] = FALSE /\ d["closedAt"] = FALSE
      BY <3>1
    <3>3. QED
      BY <2>3, <3>2
  <2>4. QED
    BY <2>1, <2>2, <2>3
<1> HIDE DEF d
<1>3. /\ clerk'[k].about = "ticket" /\ clerk'[k].to = s
      /\ clerk'[k].dates = [x \in written |-> d[x]]
  BY <1>1
<1>4. /\ written \subseteq DOMAIN d
      /\ \A x \in DOMAIN d : d[x] = TRUE => x \in written
  OBVIOUS
<1> HIDE DEF written
<1>5. DOMAIN clerk'[k].dates = written /\ \A x \in written : clerk'[k].dates[x] = d[x]
  BY <1>3
<1>6. QED
  BY <1>2, <1>3, <1>4, <1>5 DEF TicketWrites

LEMMA TicketStep ==
  ASSUME DatesIInv, TicketNext
  PROVE  DatesIInv'
<1> USE DEF DatesIInv
<1>1. UNCHANGED deletion
  BY DEF TicketNext, OpenTicket, TicketRead, TicketCommit
<1>2. CASE OpenTicket
  <2>1. ticket' = [ticket EXCEPT !.status = "open"] /\ UNCHANGED clerk
    BY <1>2 DEF OpenTicket
  <2>2. ClerkShape'
    BY <2>1, ClerkKeeps DEF ClerkShape
  <2>3. QED
    BY <1>1, <2>1, <2>2, TicketStatuses DEF StatusesDated
<1>3. ASSUME NEW k \in Agents, NEW s \in DOMAIN TicketMoves, TicketRead(k, s)
      PROVE  DatesIInv'
  <2>1. UNCHANGED ticket /\ clerk' = [clerk EXCEPT ![k] = clerk'[k]]
    BY <1>3 DEF TicketRead, ClerkShape
  <2>2. /\ clerk' = [j \in Agents |-> clerk'[j]]
        /\ \A j \in Agents \ {k} : clerk'[j] = clerk[j] /\ (TicketWrites(j) => TicketWrites(j)')
    BY <2>1 DEF ClerkShape, TicketWrites
  <2>3. ClerkShape'
    BY <1>3, <2>2, TicketReadWrites DEF ClerkShape
  <2>4. QED
    BY <1>1, <2>1, <2>3 DEF StatusesDated
<1>4. ASSUME NEW k \in Agents, TicketCommit(k)
      PROVE  DatesIInv'
  <2> DEFINE w == clerk[k].dates
  <2>1. /\ ticket' = [x \in DOMAIN ticket |->
               IF x = "status" THEN clerk[k].to ELSE IF x \in DOMAIN w THEN w[x] ELSE ticket[x]]
        /\ clerk' = [clerk EXCEPT ![k] = NoChange]
        /\ TicketWrites(k)
    BY <1>4 DEF TicketCommit, ClerkShape
  <2>2. ClerkShape'
    <3>1. /\ clerk' = [j \in Agents |-> clerk'[j]]
          /\ \A j \in Agents : clerk'[j] = clerk[j] \/ clerk'[j] = NoChange
      BY <2>1 DEF ClerkShape
    <3>2. QED
      BY <3>1, ClerkKeeps DEF NoChange
  <2>3. ticket = [status |-> ticket.status, resolvedAt |-> ticket.resolvedAt,
                  closedAt |-> ticket.closedAt]
    OBVIOUS
  <2>4. DOMAIN ticket = {"status", "resolvedAt", "closedAt"}
    BY <2>3
  <2>5. /\ ticket'.status = clerk[k].to
        /\ ticket'.resolvedAt = IF "resolvedAt" \in DOMAIN w THEN w["resolvedAt"] ELSE ticket.resolvedAt
        /\ ticket'.closedAt = IF "closedAt" \in DOMAIN w THEN w["closedAt"] ELSE ticket.closedAt
        /\ ticket' = [status |-> ticket'.status, resolvedAt |-> ticket'.resolvedAt,
                      closedAt |-> ticket'.closedAt]
    BY <2>1, <2>4
  <2>6. ticket' \in [status : DOMAIN TicketMoves, resolvedAt : BOOLEAN, closedAt : BOOLEAN]
    BY <2>1, <2>5 DEF TicketWrites
  <2>7. /\ ticket'.status = "resolved" => ticket'.resolvedAt
        /\ ticket'.status = "closed" => ticket'.closedAt
    BY <2>1, <2>5 DEF TicketWrites
  <2>8. QED
    BY <1>1, <2>2, <2>6, <2>7 DEF StatusesDated
<1>5. QED
  BY <1>2, <1>3, <1>4 DEF TicketNext

LEMMA ServicesStepInv ==
  ServicesIInv /\ [TermsNext \/ DeletionNext \/ TicketNext]_serviceVars => ServicesIInv'
<1> SUFFICES ASSUME ServicesIInv, [TermsNext \/ DeletionNext \/ TicketNext]_serviceVars
             PROVE  ServicesIInv'
  OBVIOUS
<1>1. ASSUME UNCHANGED <<terms, publisher>> PROVE TermsIInv'
  BY <1>1 DEF ServicesIInv, TermsIInv, PublisherShape, LocksApart, FoundNotInForce,
     NobodyWaitsInCircle, HeldBy
<1>2. ASSUME UNCHANGED <<deletion, ticket, clerk>> PROVE DatesIInv'
  BY <1>2, ClerkKeeps DEF ServicesIInv, DatesIInv, StatusesDated, ClerkShape
<1>3. CASE TermsNext
  <2>1. TermsIInv'
    BY <1>3, PublisherStep, PublishCommitStep, AcceptTermsStep DEF TermsNext, ServicesIInv
  <2>2. UNCHANGED <<deletion, ticket, clerk>>
    BY <1>3 DEF TermsNext, PublishLock, PublishFind, PublishHold, PublishCommit, AcceptTerms
  <2>3. QED
    BY <1>2, <2>1, <2>2 DEF ServicesIInv
<1>4. CASE DeletionNext \/ TicketNext
  <2>1. UNCHANGED <<terms, publisher>>
    BY <1>4 DEF DeletionNext, RequestDeletion, DeletionRead, DeletionCommit,
       TicketNext, OpenTicket, TicketRead, TicketCommit
  <2>2. QED
    BY <1>1, <1>4, <2>1, DeletionStep, TicketStep DEF ServicesIInv
<1>5. QED
  BY <1>1, <1>2, <1>3, <1>4 DEF serviceVars, ServicesIInv

\* One version of the legal texts is in force from the first publication on, no
\* publication waits for one that waits for it, and no deletion request or ticket is left
\* in a status without its date.
THEOREM ServicesSafe == ServicesSpec => []ServicesInv
<1>1. ServicesInit => ServicesIInv
  BY TermsInitInv, DatesInitInv DEF ServicesIInv
<1>2. QED
  BY <1>1, ServicesStepInv, ServicesIInvImplies, PTL DEF ServicesSpec

----------------------------------------------------------------------------
(* Heritage.  A request of a curator is about a fact it read pending, a child whose    *)
(* archive it read open, an item it read open or about to be archived, or the          *)
(* statistic it read as a draft; never about what was captured.                        *)

OpenOps == {"edit item", "submit", "validate", "refuse"}

RowsShape ==
    /\ \A f \in FactRows : fact[f].status = "none" => fact[f] = NoFact
    /\ \A f \in Facts : fact[f].status # "unrated"
    /\ \A f \in Enclosures : fact[f].status \in {"none", "unrated"}

AboutFact(k) ==
    /\ curator[k].op \in {"edit", "verify", "reject"}
    /\ curator[k].on \in Facts /\ curator[k].saw = "pending"

AboutChild(k) ==
    /\ curator[k].op = "edit child" /\ curator[k].on \in Facts \cup Enclosures
    /\ ~curator[k].saw.final
    /\ curator[k].on \in Facts => curator[k].saw.status = "pending"

CuratorsShape ==
    /\ curator = [k \in Curators |-> curator[k]]
    /\ \A k \in Curators : ~Rests(k) =>
          \/ (AboutFact(k) \/ AboutChild(k)) /\ fact[curator[k].on].status # "none"
          \/ curator[k].op \in OpenOps /\ curator[k].saw \notin FinalItem
          \/ curator[k].op = "archive"
          \/ curator[k].op = "edit statistic" /\ curator[k].saw = "draft"

HeritageIInv == HeritageInv /\ RowsShape /\ CuratorsShape

HeritageSpec == HeritageInit /\ [][HeritageNext \/ StatisticNext]_heritageVars

\* What FinalisedStays says of a step, by the kind of row.
FactStays(f) ==
    /\ fact[f].status \in FinalMemory /\ fact'[f] # fact[f] => \E k \in Curators : SawPending(k, f)
    /\ ParentFinal(f) /\ fact'[f].parent # fact[f].parent =>
          \E k \in Curators : Does(k, "edit child", f) /\ ~curator[k].saw.final

ItemStays(i) ==
    item[i] \in FinalItem /\ item'[i] # item[i] =>
        \/ item[i] = "validated" /\ item'[i] = "archived"
        \/ \E k \in Curators :
              ~Rests(k) /\ curator[k].on = i /\ curator[k].saw \notin FinalItem

StatisticStays ==
    statistic.status = "validated" /\ statistic' # statistic =>
        \E k \in Curators :
            ~Rests(k) /\ curator[k].op = "edit statistic" /\ curator[k].saw = "draft"

StepFinalised ==
    /\ \A f \in FactRows : FactStays(f)
    /\ \A i \in Items : ItemStays(i)
    /\ StatisticStays

LEMMA HeritageInitInv == HeritageInit => HeritageIInv
BY DEF HeritageInit, HeritageIInv, HeritageInv, HeritageTypeOK, RowsShape, CuratorsShape,
       FactRows, NoFact, Rests

\* The requests stay what they are when the rows they are about are not created anew.
LEMMA CuratorsKeep ==
  ASSUME HeritageIInv, curator' = [k \in Curators |-> curator'[k]],
         \A k \in Curators : curator'[k] = curator[k] \/ curator'[k] = NoHandler,
         \A f \in FactRows : fact[f].status # "none" => fact'[f].status # "none"
  PROVE  CuratorsShape'
<1> SUFFICES ASSUME NEW k \in Curators, curator'[k] = curator[k], ~Rests(k)
             PROVE  \/ (AboutFact(k)' \/ AboutChild(k)') /\ fact'[curator'[k].on].status # "none"
                    \/ curator'[k].op \in OpenOps /\ curator'[k].saw \notin FinalItem
                    \/ curator'[k].op = "archive"
                    \/ curator'[k].op = "edit statistic" /\ curator'[k].saw = "draft"
  BY DEF CuratorsShape, Rests
<1>1. AboutFact(k) \/ AboutChild(k) => curator[k].on \in FactRows
  BY DEF AboutFact, AboutChild, FactRows
<1>2. AboutFact(k) => AboutFact(k)'
  BY DEF AboutFact
<1>3. AboutChild(k) => AboutChild(k)'
  BY DEF AboutChild
<1>4. QED
  BY <1>1, <1>2, <1>3 DEF HeritageIInv, CuratorsShape

\* A request that begins joins the others.
LEMMA CuratorStarts ==
  ASSUME HeritageIInv, NEW k \in Curators, UNCHANGED fact,
         curator' = [curator EXCEPT ![k] = curator'[k]],
         \/ (AboutFact(k)' \/ AboutChild(k)') /\ fact[curator'[k].on].status # "none"
         \/ curator'[k].op \in OpenOps /\ curator'[k].saw \notin FinalItem
         \/ curator'[k].op = "archive"
         \/ curator'[k].op = "edit statistic" /\ curator'[k].saw = "draft"
  PROVE  CuratorsShape'
<1>1. /\ curator' = [j \in Curators |-> curator'[j]]
      /\ \A j \in Curators \ {k} : curator'[j] = curator[j]
  BY DEF HeritageIInv, CuratorsShape
<1>2. ASSUME NEW j \in Curators \ {k}, ~Rests(j)
      PROVE  /\ AboutFact(j) => AboutFact(j)' /\ curator'[j].on = curator[j].on
             /\ AboutChild(j) => AboutChild(j)' /\ curator'[j].on = curator[j].on
  BY <1>1 DEF AboutFact, AboutChild
<1>3. QED
  BY <1>1, <1>2, ZenonT(60) DEF HeritageIInv, CuratorsShape, Rests

HeritageRows ==
    [status : {"none", "pending", "unrated"} \cup FinalMemory,
     sourced : BOOLEAN, parent : Items \cup {NoItem}]

\* One row that is not a capture takes a value that fits its kind, and the archive items
\* change or not.
LEMMA RowWritten ==
  ASSUME HeritageIInv, NEW f \in Facts \cup Enclosures, NEW row \in HeritageRows,
         fact' = [fact EXCEPT ![f] = row], UNCHANGED <<work, statistic>>,
         row.status = "none" => row = NoFact,
         row.status = "none" => fact[f].status = "none",
         f \in Facts => row.status # "unrated",
         f \in Enclosures => row.status \in {"none", "unrated"},
         item' \in [Items -> {"none"} \cup ItemStatuses],
         curator' = [k \in Curators |-> curator'[k]],
         \A k \in Curators : curator'[k] = curator[k] \/ curator'[k] = NoHandler
  PROVE  HeritageIInv' /\ \A g \in FactRows \ {f} : fact'[g] = fact[g]
<1>1. /\ fact \in [FactRows -> HeritageRows] /\ f \in FactRows
      /\ fact' \in [FactRows -> HeritageRows]
      /\ fact'[f] = row /\ \A g \in FactRows \ {f} : fact'[g] = fact[g]
  BY DEF HeritageIInv, HeritageInv, HeritageTypeOK, HeritageRows, FactRows
<1>2. HeritageTypeOK'
  BY <1>1 DEF HeritageIInv, HeritageInv, HeritageTypeOK, HeritageRows
<1>3. \A w \in Works : fact'[w] = fact[w]
  BY <1>1, RowsAssumption DEF FactRows
<1>4. HeritageInv'
  BY <1>2, <1>3 DEF HeritageIInv, HeritageInv
<1>5. RowsShape'
  <2>1. \A g \in FactRows : fact'[g].status = "none" => fact'[g] = NoFact
    BY <1>1 DEF HeritageIInv, RowsShape
  <2>2. \A g \in Facts \cup Enclosures : g \in FactRows
    BY DEF FactRows
  <2>3. QED
    BY <1>1, <2>1, <2>2 DEF HeritageIInv, RowsShape
<1>6. CuratorsShape'
  BY <1>1, CuratorsKeep
<1>7. QED
  BY <1>1, <1>4, <1>5, <1>6 DEF HeritageIInv

LEMMA CreateRowStep ==
  ASSUME HeritageIInv,
         \/ \E f \in Facts : CreateFact(f) \/ CreateLegacyFact(f)
         \/ \E f \in Enclosures : CreateEnclosure(f)
  PROVE  HeritageIInv' /\ StepFinalised
<1>1. PICK f \in Facts \cup Enclosures :
        \/ f \in Facts /\ (CreateFact(f) \/ CreateLegacyFact(f))
        \/ f \in Enclosures /\ CreateEnclosure(f)
  OBVIOUS
<1>2. fact[f].status = "none" /\ UNCHANGED <<work, statistic, curator>>
  BY <1>1 DEF CreateFact, CreateLegacyFact, CreateEnclosure, CreateChild
<1>3. \E row \in HeritageRows :
        /\ fact' = [fact EXCEPT ![f] = row] /\ row.status # "none"
        /\ f \in Facts => row.status = "pending"
        /\ f \in Enclosures => row.status = "unrated"
  <2>1. CASE f \in Facts /\ CreateFact(f)
    <3>1. PICK s \in BOOLEAN :
            fact' = [fact EXCEPT ![f] = [NoFact EXCEPT !.status = "pending", !.sourced = s]]
      BY <2>1 DEF CreateFact
    <3>2. /\ [NoFact EXCEPT !.status = "pending", !.sourced = s] \in HeritageRows
          /\ [NoFact EXCEPT !.status = "pending", !.sourced = s].status = "pending"
      BY DEF NoFact, HeritageRows
    <3>3. QED
      BY <2>1, <3>1, <3>2, RowsAssumption
  <2>2. ASSUME NEW status \in {"pending", "unrated"}, CreateChild(f, status),
               f \in Facts => status = "pending", f \in Enclosures => status = "unrated"
        PROVE  <1>3!:
    <3>1. PICK i \in Items, s \in BOOLEAN :
            fact' = [fact EXCEPT ![f] = [status |-> status, sourced |-> s, parent |-> i]]
      BY <2>2 DEF CreateChild
    <3>2. /\ [status |-> status, sourced |-> s, parent |-> i] \in HeritageRows
          /\ [status |-> status, sourced |-> s, parent |-> i].status = status
      BY DEF HeritageRows
    <3>3. QED
      BY <2>2, <3>1, <3>2
  <2>3. QED
    BY <1>1, <2>1, <2>2, RowsAssumption DEF CreateLegacyFact, CreateEnclosure
<1>4. /\ item' \in [Items -> {"none"} \cup ItemStatuses]
      /\ \A i \in Items : item[i] # "none" => item'[i] = item[i]
  BY <1>1, ZenonT(60) DEF CreateFact, CreateLegacyFact, CreateEnclosure, CreateChild, DraftItem,
     HeritageIInv, HeritageInv, HeritageTypeOK, ItemStatuses
<1>5. HeritageIInv' /\ \A g \in FactRows \ {f} : fact'[g] = fact[g]
  <2>1. curator' = [k \in Curators |-> curator'[k]]
    BY <1>2 DEF HeritageIInv, CuratorsShape
  <2>2. QED
    BY <1>2, <1>3, <1>4, <2>1, RowWritten
<1>6. fact[f] = NoFact
  BY <1>2 DEF HeritageIInv, RowsShape, FactRows
<1>7. ASSUME NEW g \in FactRows PROVE FactStays(g)
  <2>1. CASE g = f
    <3>1. fact[g].status = "none" /\ fact[g].parent = NoItem
      BY <1>6, <2>1 DEF NoFact
    <3>2. QED
      BY <3>1 DEF FactStays, FinalMemory, ParentFinal
  <2>2. CASE g # f
    <3>1. fact'[g] = fact[g]
      BY <1>5, <2>2
    <3>2. QED
      BY <3>1 DEF FactStays
  <2>3. QED
    BY <2>1, <2>2
<1>8. \A i \in Items : ItemStays(i)
  BY <1>4 DEF ItemStays, FinalItem
<1>9. QED
  BY <1>2, <1>5, <1>7, <1>8 DEF StepFinalised, StatisticStays

\* Only requests that read the row before change it.
LEMMA CommitsFactStep ==
  ASSUME HeritageIInv, NEW k \in Curators, NEW f \in FactRows,
         \/ EditFact(k, f) \/ VerifyFact(k, f) \/ RejectFact(k, f) \/ EditChild(k, f)
  PROVE  HeritageIInv' /\ StepFinalised
<1>1. /\ UNCHANGED <<statistic, work, item>>
      /\ curator' = [curator EXCEPT ![k] = NoHandler] /\ ~Rests(k)
      /\ \/ Does(k, "edit", f) \/ Does(k, "verify", f) \/ Does(k, "reject", f)
         \/ Does(k, "edit child", f)
  BY DEF EditFact, VerifyFact, RejectFact, EditChild, CommitsFact, Ends, Does
<1>2. /\ curator[k].on = f
      /\ \/ AboutFact(k) /\ curator[k].op \in {"edit", "verify", "reject"}
         \/ AboutChild(k) /\ curator[k].op = "edit child"
      /\ fact[f].status # "none"
  BY <1>1 DEF Does, HeritageIInv, CuratorsShape, AboutFact, AboutChild, OpenOps
<1>3. f \in Facts \cup Enclosures
  BY <1>2 DEF AboutFact, AboutChild
<1>4. fact[f] \in HeritageRows
  BY DEF HeritageIInv, HeritageInv, HeritageTypeOK, HeritageRows
<1> DEFINE Fits(row) ==
        /\ fact' = [fact EXCEPT ![f] = row]
        /\ curator[k].op = "edit child" => row.status = fact[f].status
        /\ curator[k].op # "edit child" =>
              /\ row.parent = fact[f].parent
              /\ row.status \in {"pending", "verified", "rejected", fact[f].status}
<1>a. \E row \in HeritageRows : Fits(row)
  <2>1. ASSUME NEW op \in {"edit", "verify", "reject"}, NEW row \in HeritageRows,
               CommitsFact(k, f, op, row), row.parent = fact[f].parent,
               row.status \in {"pending", "verified", "rejected", fact[f].status}
        PROVE  \E r \in HeritageRows : Fits(r)
    <3>1. fact' = [fact EXCEPT ![f] = row] /\ curator[k].op = op
      BY <2>1 DEF CommitsFact, Does
    <3>2. Fits(row)
      BY <2>1, <3>1
    <3>3. QED
      BY <3>2
  <2>2. CASE EditFact(k, f)
    <3>1. PICK s \in BOOLEAN, v \in {"pending", fact[f].status} :
            CommitsFact(k, f, "edit", [fact[f] EXCEPT !.sourced = s, !.status = v])
      BY <2>2 DEF EditFact
    <3>2. /\ [fact[f] EXCEPT !.sourced = s, !.status = v] \in HeritageRows
          /\ [fact[f] EXCEPT !.sourced = s, !.status = v].parent = fact[f].parent
          /\ [fact[f] EXCEPT !.sourced = s, !.status = v].status = v
      BY <1>4 DEF HeritageRows
    <3>3. QED
      BY <2>1, <3>1, <3>2
  <2>3. ASSUME NEW v \in {"verified", "rejected"}, NEW op \in {"verify", "reject"},
               CommitsFact(k, f, op, [fact[f] EXCEPT !.status = v])
        PROVE  \E r \in HeritageRows : Fits(r)
    <3>1. /\ [fact[f] EXCEPT !.status = v] \in HeritageRows
          /\ [fact[f] EXCEPT !.status = v].parent = fact[f].parent
          /\ [fact[f] EXCEPT !.status = v].status = v
      BY <1>4 DEF HeritageRows, FinalMemory
    <3>2. QED
      BY <2>1, <2>3, <3>1
  <2>4. CASE EditChild(k, f)
    <3>1. PICK i \in Items \cup {NoItem} :
            CommitsFact(k, f, "edit child", [fact[f] EXCEPT !.parent = i])
      BY <2>4 DEF EditChild
    <3>2. /\ [fact[f] EXCEPT !.parent = i] \in HeritageRows
          /\ [fact[f] EXCEPT !.parent = i].status = fact[f].status
      BY <1>4 DEF HeritageRows
    <3>3. fact' = [fact EXCEPT ![f] = [fact[f] EXCEPT !.parent = i]]
          /\ curator[k].op = "edit child"
      BY <3>1 DEF CommitsFact, Does
    <3>4. QED
      BY <3>2, <3>3
  <2>5. QED
    BY <2>2, <2>3, <2>4 DEF VerifyFact, RejectFact
<1>5. PICK row \in HeritageRows : Fits(row)
  BY <1>a
<1>6. /\ row.status # "none"
      /\ f \in Facts => row.status # "unrated"
      /\ f \in Enclosures => row.status \in {"none", "unrated"}
  BY <1>2, <1>3, <1>5, RowsAssumption DEF HeritageIInv, RowsShape, AboutFact
<1>7. HeritageIInv' /\ \A g \in FactRows \ {f} : fact'[g] = fact[g]
  <2>1. /\ curator' = [j \in Curators |-> curator'[j]]
        /\ \A j \in Curators : curator'[j] = curator[j] \/ curator'[j] = NoHandler
    BY <1>1 DEF HeritageIInv, CuratorsShape
  <2>2. item' \in [Items -> {"none"} \cup ItemStatuses]
    BY <1>1 DEF HeritageIInv, HeritageInv, HeritageTypeOK
  <2>3. QED
    BY <1>1, <1>3, <1>5, <1>6, <2>1, <2>2, RowWritten
<1>8. FactStays(f)
  <2>1. fact[f].status \in FinalMemory => SawPending(k, f)
    <3>1. fact[f].status \in FinalMemory => f \in Facts
      BY <1>3 DEF HeritageIInv, RowsShape, FinalMemory
    <3>2. QED
      BY <1>1, <1>2, <3>1 DEF SawPending, AboutFact, AboutChild, Does
  <2>2. fact'[f].parent # fact[f].parent => Does(k, "edit child", f) /\ ~curator[k].saw.final
    BY <1>1, <1>2, <1>5 DEF AboutChild, Does, HeritageIInv, HeritageInv, HeritageTypeOK
  <2>3. QED
    BY <2>1, <2>2 DEF FactStays
<1>9. QED
  BY <1>1, <1>7, <1>8 DEF StepFinalised, FactStays, ItemStays, StatisticStays

\* Nothing that is kept changes when a request begins.
LEMMA StaysUnchanged ==
  ASSUME UNCHANGED <<fact, item, statistic>>
  PROVE  StepFinalised
BY DEF StepFinalised, FactStays, ItemStays, StatisticStays

LEMMA ReadRowStep ==
  ASSUME HeritageIInv, NEW k \in Curators,
         \/ \E f \in Facts \cup Works : ReadFact(k, f)
         \/ \E f \in Facts \cup Enclosures : ReadChild(k, f)
         \/ \E i \in Items : ReadItem(k, i)
         \/ ReadStatistic(k)
  PROVE  HeritageIInv' /\ StepFinalised
<1>1. UNCHANGED <<fact, item, statistic, work>>
  BY DEF ReadFact, ReadChild, ReadItem, ReadStatistic
<1>2. k \in DOMAIN curator
  BY DEF HeritageIInv, CuratorsShape
<1>3. ASSUME NEW f \in Facts \cup Works, ReadFact(k, f) PROVE CuratorsShape'
  <2>1. PICK op \in {"edit", "verify", "reject"} :
          FactOpen(f, op) /\ Starts(k, op, f, fact[f].status)
    BY <1>3 DEF ReadFact
  <2>2. /\ curator' = [curator EXCEPT ![k] = curator'[k]]
        /\ curator'[k].op = op /\ curator'[k].on = f /\ curator'[k].saw = "pending"
        /\ fact[f].status = "pending"
    BY <1>2, <2>1 DEF FactOpen, Starts
  <2>3. f \in Facts
    BY <2>2 DEF HeritageIInv, HeritageInv, NoFact
  <2>4. AboutFact(k)' /\ fact[curator'[k].on].status # "none"
    BY <2>1, <2>2, <2>3 DEF AboutFact
  <2>5. QED
    BY <1>1, <2>2, <2>4, CuratorStarts
<1>4. ASSUME NEW f \in Facts \cup Enclosures, ReadChild(k, f) PROVE CuratorsShape'
  <2>1. /\ curator' = [curator EXCEPT ![k] = curator'[k]]
        /\ curator'[k].op = "edit child" /\ curator'[k].on = f
        /\ curator'[k].saw.status = fact[f].status /\ curator'[k].saw.final = ParentFinal(f)
        /\ fact[f].status \in {"pending", "unrated"} /\ ~ParentFinal(f)
    BY <1>2, <1>4 DEF ReadChild, Starts, ParentOpen
  <2>2. AboutChild(k)' /\ fact[curator'[k].on].status # "none"
    BY <2>1 DEF AboutChild, HeritageIInv, RowsShape
  <2>3. QED
    BY <1>1, <2>1, <2>2, CuratorStarts
<1>5. ASSUME NEW i \in Items, ReadItem(k, i) PROVE CuratorsShape'
  <2>1. PICK op \in OpenOps \cup {"archive"} : ItemOpen(i, op) /\ Starts(k, op, i, item[i])
    BY <1>5 DEF ReadItem, OpenOps
  <2>2. /\ curator' = [curator EXCEPT ![k] = curator'[k]]
        /\ curator'[k].op = op /\ curator'[k].saw = item[i]
        /\ op # "archive" => item[i] \notin FinalItem
    BY <1>2, <2>1 DEF ItemOpen, Starts
  <2>3. QED
    BY <1>1, <2>1, <2>2, CuratorStarts
<1>6. ASSUME ReadStatistic(k) PROVE CuratorsShape'
  <2>1. /\ curator' = [curator EXCEPT ![k] = curator'[k]]
        /\ curator'[k].op = "edit statistic" /\ curator'[k].saw = "draft"
    <3>1. PICK row \in [status : StatisticStatuses, sourced : BOOLEAN] :
            Starts(k, "edit statistic",
                   [x \in {y \in DOMAIN row : row[y] # statistic[y]} |-> row[x]],
                   statistic.status)
      BY <1>6 DEF ReadStatistic
    <3>2. statistic.status = "draft"
      BY <1>6 DEF ReadStatistic
    <3>3. QED
      BY <1>2, <3>1, <3>2 DEF Starts
  <2>2. QED
    BY <1>1, <2>1, CuratorStarts
<1>7. CuratorsShape'
  BY <1>3, <1>4, <1>5, <1>6
<1>8. HeritageInv' /\ RowsShape'
  BY <1>1 DEF HeritageIInv, HeritageInv, HeritageTypeOK, RowsShape
<1>9. QED
  BY <1>1, <1>7, <1>8, StaysUnchanged DEF HeritageIInv

\* An item read open takes another status, a validated one is archived.
LEMMA ItemStep ==
  ASSUME HeritageIInv, NEW i \in Items,
         \/ CreateItem(i)
         \/ \E k \in Curators :
               \/ EditItem(k, i) \/ SubmitItem(k, i)
               \/ ValidateItem(k, i) \/ RejectItem(k, i) \/ ArchiveItem(k, i)
  PROVE  HeritageIInv' /\ StepFinalised
<1>1. PICK s \in ItemStatuses :
        /\ item' = [item EXCEPT ![i] = s] /\ UNCHANGED <<fact, statistic, work>>
        /\ \/ item[i] = "none" /\ UNCHANGED curator
           \/ \E k \in Curators, op \in OpenOps \cup {"archive"} :
                 Does(k, op, i) /\ Ends(k) /\ (op = "archive" => s = "archived")
  <2>1. CASE CreateItem(i)
    BY <2>1 DEF CreateItem
  <2>2. ASSUME NEW k \in Curators,
               \/ EditItem(k, i) \/ SubmitItem(k, i)
               \/ ValidateItem(k, i) \/ RejectItem(k, i) \/ ArchiveItem(k, i)
        PROVE  \E s \in ItemStatuses :
                 /\ item' = [item EXCEPT ![i] = s] /\ UNCHANGED <<fact, statistic, work>>
                 /\ \E op \in OpenOps \cup {"archive"} :
                       Does(k, op, i) /\ Ends(k) /\ (op = "archive" => s = "archived")
    <3>1. \E s \in ItemStatuses, op \in OpenOps \cup {"archive"} :
            CommitsItem(k, i, op, s) /\ (op = "archive" => s = "archived")
      <4>1. /\ {"submitted", "rejected", "validated", "archived"} \subseteq ItemStatuses
            /\ {"edit item", "submit", "validate", "refuse"} \subseteq OpenOps
            /\ "archive" \notin OpenOps
        BY DEF OpenOps, ItemStatuses, FinalItem
      <4>2. CASE EditItem(k, i)
        BY <4>1, <4>2 DEF EditItem
      <4>3. CASE SubmitItem(k, i)
        BY <4>1, <4>3 DEF SubmitItem
      <4>4. CASE ValidateItem(k, i)
        BY <4>1, <4>4 DEF ValidateItem
      <4>5. CASE RejectItem(k, i)
        BY <4>1, <4>5 DEF RejectItem
      <4>6. CASE ArchiveItem(k, i)
        BY <4>1, <4>6 DEF ArchiveItem
      <4>7. QED
        BY <2>2, <4>2, <4>3, <4>4, <4>5, <4>6
    <3>2. QED
      BY <3>1 DEF CommitsItem
  <2>3. QED
    BY <2>1, <2>2
<1>2. /\ curator' = [k \in Curators |-> curator'[k]]
      /\ \A k \in Curators : curator'[k] = curator[k] \/ curator'[k] = NoHandler
  BY <1>1 DEF Ends, HeritageIInv, CuratorsShape
<1>3. CuratorsShape'
  BY <1>1, <1>2, CuratorsKeep
<1>4. /\ item' \in [Items -> {"none"} \cup ItemStatuses]
      /\ item'[i] = s /\ \A j \in Items \ {i} : item'[j] = item[j]
  BY <1>1 DEF HeritageIInv, HeritageInv, HeritageTypeOK
<1>5. HeritageInv' /\ RowsShape'
  BY <1>1, <1>4 DEF HeritageIInv, HeritageInv, HeritageTypeOK, RowsShape
<1>6. ItemStays(i)
  <2>1. CASE item[i] = "none"
    BY <2>1 DEF ItemStays, FinalItem
  <2>2. ASSUME NEW k \in Curators, NEW op \in OpenOps \cup {"archive"},
               Does(k, op, i), op = "archive" => s = "archived"
        PROVE  ItemStays(i)
    <3>1. op # "archive" => curator[k].saw \notin FinalItem
      BY <2>2 DEF Does, HeritageIInv, CuratorsShape, AboutFact, AboutChild, OpenOps
    <3>2. QED
      BY <1>4, <2>2, <3>1 DEF ItemStays, Does, FinalItem
  <2>3. QED
    BY <1>1, <2>1, <2>2
<1>7. QED
  BY <1>1, <1>3, <1>4, <1>5, <1>6
  DEF HeritageIInv, StepFinalised, FactStays, ItemStays, StatisticStays

LEMMA StatisticStep ==
  ASSUME HeritageIInv, CreateStatistic \/ \E k \in Curators : EditStatistic(k)
  PROVE  HeritageIInv' /\ StepFinalised
<1>1. UNCHANGED <<fact, item, work>>
  BY DEF CreateStatistic, EditStatistic
<1>2. /\ curator' = [k \in Curators |-> curator'[k]]
      /\ \A k \in Curators : curator'[k] = curator[k] \/ curator'[k] = NoHandler
  BY DEF CreateStatistic, EditStatistic, Ends, HeritageIInv, CuratorsShape
<1>3. CuratorsShape'
  BY <1>1, <1>2, CuratorsKeep
<1>4. HeritageInv' /\ RowsShape'
  BY <1>1 DEF HeritageIInv, HeritageInv, HeritageTypeOK, RowsShape
<1>5. StatisticStays
  <2>1. CASE CreateStatistic
    BY <2>1 DEF CreateStatistic, NoStatistic, StatisticStays
  <2>2. ASSUME NEW k \in Curators, EditStatistic(k) PROVE StatisticStays
    <3>1. ~Rests(k) /\ curator[k].op = "edit statistic"
      BY <2>2 DEF EditStatistic
    <3>2. curator[k].saw = "draft"
      BY <3>1 DEF HeritageIInv, CuratorsShape, AboutFact, AboutChild, OpenOps
    <3>3. QED
      BY <3>1, <3>2 DEF StatisticStays
  <2>3. QED
    BY <2>1, <2>2
<1>6. QED
  BY <1>1, <1>3, <1>4, <1>5 DEF HeritageIInv, StepFinalised, FactStays, ItemStays

\* What is captured was not there, and nobody was about to write it.
LEMMA WorkStep ==
  ASSUME HeritageIInv, NEW w \in Works, CreateWork(w) \/ MoveWork(w) \/ FinishWork(w)
  PROVE  HeritageIInv' /\ StepFinalised
<1>1. UNCHANGED <<item, statistic, curator>>
  BY DEF CreateWork, MoveWork, FinishWork
<1>2. CASE CreateWork(w) \/ MoveWork(w)
  <2>1. /\ UNCHANGED fact
        /\ work' \in [Works -> {"none", "under way", "deployed", "created finished", "finished"}]
        /\ \A x \in Works : work[x] = "finished" <=> work'[x] = "finished"
    BY <1>2 DEF CreateWork, MoveWork, HeritageIInv, HeritageInv, HeritageTypeOK
  <2>2. HeritageInv' /\ RowsShape'
    BY <1>1, <2>1 DEF HeritageIInv, HeritageInv, HeritageTypeOK, RowsShape
  <2>3. CuratorsShape'
    BY <1>1, <2>1, CuratorsKeep DEF HeritageIInv, CuratorsShape
  <2>4. QED
    BY <1>1, <2>1, <2>2, <2>3, StaysUnchanged DEF HeritageIInv
<1>3. CASE FinishWork(w)
  <2>1. /\ work' = [work EXCEPT ![w] = "finished"] /\ work[w] = "deployed"
        /\ fact' = [fact EXCEPT ![w] = Captured]
    BY <1>3 DEF FinishWork
  <2>2. Captured \in HeritageRows /\ Captured.status = "verified"
    BY DEF Captured, NoFact, HeritageRows, FinalMemory
  <2>3. w \in FactRows /\ w \notin Facts /\ w \notin Enclosures
    BY RowsAssumption DEF FactRows
  <2>4. /\ fact' \in [FactRows -> HeritageRows]
        /\ fact'[w] = Captured /\ \A f \in FactRows \ {w} : fact'[f] = fact[f]
        /\ work' \in [Works -> {"none", "under way", "deployed", "created finished", "finished"}]
        /\ work'[w] = "finished" /\ \A x \in Works \ {w} : work'[x] = work[x]
    BY <2>1, <2>2, <2>3
    DEF HeritageIInv, HeritageInv, HeritageTypeOK, HeritageRows
  <2>5. HeritageTypeOK'
    BY <1>1, <2>4 DEF HeritageIInv, HeritageInv, HeritageTypeOK, HeritageRows
  <2>6. HeritageInv'
    <3>1. \A x \in Works : x \in FactRows
      BY DEF FactRows
    <3>2. QED
      BY <2>4, <2>5, <3>1 DEF HeritageIInv, HeritageInv, Captured
  <2>7. RowsShape'
    <3>1. \A f \in Facts \cup Enclosures : f \in FactRows \ {w}
      BY <2>3 DEF FactRows
    <3>2. QED
      BY <2>2, <2>4, <3>1 DEF HeritageIInv, RowsShape
  <2>8. CuratorsShape'
    BY <1>1, <2>2, <2>4, CuratorsKeep DEF HeritageIInv, CuratorsShape
  <2>9. fact[w] = NoFact
    BY <2>1 DEF HeritageIInv, HeritageInv
  <2>10. FactStays(w)
    BY <2>9 DEF FactStays, FinalMemory, ParentFinal, NoFact
  <2>11. QED
    BY <1>1, <2>4, <2>6, <2>7, <2>8, <2>10
    DEF HeritageIInv, StepFinalised, FactStays, ItemStays, StatisticStays
<1>4. QED
  BY <1>2, <1>3

LEMMA HeritageStepInv ==
  HeritageIInv /\ [HeritageNext \/ StatisticNext]_heritageVars => HeritageIInv' /\ StepFinalised
<1>1. HeritageIInv /\ UNCHANGED heritageVars => HeritageIInv' /\ StepFinalised
  <2> SUFFICES ASSUME HeritageIInv, UNCHANGED heritageVars PROVE HeritageIInv' /\ StepFinalised
    OBVIOUS
  <2>1. UNCHANGED <<fact, item, statistic, curator, work>>
    BY DEF heritageVars
  <2>2. HeritageInv' /\ RowsShape'
    BY <2>1 DEF HeritageIInv, HeritageInv, HeritageTypeOK, RowsShape
  <2>3. CuratorsShape'
    BY <2>1, CuratorsKeep DEF HeritageIInv, CuratorsShape
  <2>4. QED
    BY <2>1, <2>2, <2>3, StaysUnchanged DEF HeritageIInv
<1>2. HeritageIInv /\ HeritageNext => HeritageIInv' /\ StepFinalised
  <2>1. \A f \in Facts \cup Works \cup Enclosures : f \in FactRows
    BY DEF FactRows
  <2>2. QED
    BY <2>1, CreateRowStep, CommitsFactStep, ReadRowStep, ItemStep, WorkStep
    DEF HeritageNext, MemoryNext, ArchiveNext
<1>3. HeritageIInv /\ StatisticNext => HeritageIInv' /\ StepFinalised
  BY ReadRowStep, StatisticStep DEF StatisticNext
<1>4. QED
  BY <1>1, <1>2, <1>3

\* A finished project or an archived session is remembered by a verified fact of its own,
\* which no request of a curator ever reaches.
THEOREM HeritageSafe == HeritageSpec => []HeritageInv
<1>1. HeritageIInv => HeritageInv
  BY DEF HeritageIInv
<1>2. HeritageIInv /\ [HeritageNext \/ StatisticNext]_heritageVars => HeritageIInv'
  BY HeritageStepInv
<1>3. QED
  BY <1>1, <1>2, HeritageInitInv, PTL DEF HeritageSpec

\* What was finalised only changes by the hand of a request that read it before.
THEOREM HeritageFinalised == HeritageSpec => FinalisedStays
<1>1. HeritageIInv /\ [HeritageNext \/ StatisticNext]_heritageVars => HeritageIInv' /\ StepFinalised
  BY HeritageStepInv
<1>2. StepFinalised =>
        /\ \A f \in FactRows :
             /\ fact[f].status \in FinalMemory /\ fact'[f] # fact[f] =>
                    \E k \in Curators : SawPending(k, f)
             /\ ParentFinal(f) /\ fact'[f].parent # fact[f].parent =>
                    \E k \in Curators :
                        Does(k, "edit child", f) /\ ~curator[k].saw.final
        /\ \A i \in Items :
             item[i] \in FinalItem /\ item'[i] # item[i] =>
                 \/ item[i] = "validated" /\ item'[i] = "archived"
                 \/ \E k \in Curators : /\ ~Rests(k) /\ curator[k].on = i
                                        /\ curator[k].saw \notin FinalItem
        /\ statistic.status = "validated" /\ statistic' # statistic =>
             \E k \in Curators : /\ ~Rests(k) /\ curator[k].op = "edit statistic"
                                /\ curator[k].saw = "draft"
  BY DEF StepFinalised, FactStays, ItemStays, StatisticStays
<1>3. QED
  BY <1>1, <1>2, HeritageInitInv, PTL DEF HeritageSpec, FinalisedStays
=============================================================================
