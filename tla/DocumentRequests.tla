-------------------------- MODULE DocumentRequests --------------------------
(***************************************************************************)
(* Requests of institutional documents, their validation, their official    *)
(* reference and the generated document (api/routes/institutional_documents *)
(* and institutional_document_generation, services/institutional_document_  *)
(* service and institutional_pdf_service).                                  *)
(*                                                                         *)
(* No handler locks the request: each reads it, checks it and later commits  *)
(* the columns it set over whatever the row has become.  Only the sequence   *)
(* of the references is locked, from the allocation to the commit.          *)
(***************************************************************************)
EXTENDS Naturals, FiniteSets

CONSTANTS
    Requests,       \* of one template and one season: they share a sequence
    Accounts, Secretaries, Leaders, Admins,
    Leads,          \* heads of the pole or project of the requests, and their deputies
    Templates,      \* the kinds of template looked at
    LastReference,  \* bound: references allocated
    MaxHandlers,    \* bound: handlers between their read and their commit
    None            \* no account, no reference, no document

ASSUME LastReferenceAssumption == LastReference \in Nat
ASSUME AccountsAssumption == Secretaries \cup Leaders \cup Admins \cup Leads \subseteq Accounts
ASSUME NoneAssumption == None \notin Accounts \cup (1..LastReference)

VARIABLES
    template,       \* the kind of their template, which never changes
    request,        \* the row of each request
    desk,           \* the handler each account is in
    lastNumber,     \* last_number of the sequence
    sequenceLock,   \* the account whose transaction holds the sequence
    documents,      \* generated documents: request and reference
    audited         \* references the committed audit entries name, each with its request

documentVars == <<template, request, desk, lastNumber, sequenceLock, documents, audited>>
-----------------------------------------------------------------------------
Clerks == Secretaries \cup Leaders

\* Who may create and who may submit, and the second stage of the validation; every
\* template has the first.  Minutes are those of a pole or project, plenary and chiefs
\* those of a general meeting and of a meeting of the heads, a letter is a request to a
\* third party.
Rule ==
    [minutes   |-> [creators |-> Accounts, submitters |-> Leads, tl |-> FALSE],
     plenary   |-> [creators |-> Clerks \cup Admins, submitters |-> Clerks \cup Admins,
                    tl |-> TRUE],
     chiefs    |-> [creators |-> Clerks, submitters |-> Clerks, tl |-> TRUE],
     letter    |-> [creators |-> Clerks \cup Leads, submitters |-> Clerks \cup Leads,
                    tl |-> TRUE],
     dismissal |-> [creators |-> Leads, submitters |-> Leads, tl |-> TRUE]]

ASSUME TemplatesAssumption == Templates \subseteq DOMAIN Rule

NeedsTL == Rule[template].tl

Blank(status, author) ==
    [status |-> status, by |-> author, sg |-> None, approved |-> None, reference |-> None,
     generated |-> FALSE]

NoRequest == Blank("none", None)

AtRest == [op |-> "rest"]

\* requester_roles: a stage is skipped when the author holds its role, unless the
\* author holds both.
AfterSubmit(author) ==
    IF NeedsTL /\ author \in Secretaries \cap Leaders THEN "pending_approval"
    ELSE IF author \notin Secretaries THEN "pending_sg"
    ELSE IF NeedsTL THEN "pending_approval"
    ELSE "validated"

AfterSG(author) == IF NeedsTL /\ author \notin Leaders THEN "pending_approval" ELSE "validated"

\* A request that already has a document is answered with that document.
MayGenerate(u, d) ==
    u \in Clerks \cup Admins /\ request[d].status = "validated" /\ ~request[d].generated

\* What each handler requires of the row it read.
MayHandle(u, d, op) ==
    LET r == request[d]
    IN  CASE op = "edit"    -> u = r.by /\ r.status \in {"draft", "rejected"}
          [] op = "submit"  -> /\ u \in Rule[template].submitters
                               /\ r.status \in {"draft", "rejected"}
          [] op = "cancel"  -> u = r.by /\ r.status \in {"draft", "rejected", "pending_sg"}
          [] op = "sg"      -> u \in Secretaries \ {r.by} /\ r.status = "pending_sg"
          [] op = "approve" -> /\ u \in Leaders \ {r.by, r.sg}
                               /\ r.status = "pending_approval"
          [] op = "reject"  -> /\ u # r.by
                               /\ \/ r.status = "pending_sg" /\ u \in Secretaries
                                  \/ /\ r.status = "pending_approval" /\ u \in Leaders
                                     /\ u # r.sg
          [] op = "generate" -> MayGenerate(u, d)

Operations == {"edit", "submit", "cancel", "sg", "approve", "reject", "generate"}

\* The status a handler that ends there gives the request.
NextStatus(d, op) ==
    CASE op = "edit"     -> "draft"
      [] op = "submit"   -> AfterSubmit(request[d].by)
      [] op = "cancel"   -> "cancelled"
      [] op = "sg"       -> AfterSG(request[d].by)
      [] op = "approve"  -> "validated"
      [] op = "reject"   -> "rejected"
      [] op = "generate" -> "generated"
-----------------------------------------------------------------------------
DocumentsInit ==
    /\ template \in Templates
    /\ request = [d \in Requests |-> NoRequest]
    /\ desk = [u \in Accounts |-> AtRest]
    /\ lastNumber = 0 /\ sequenceLock = None /\ documents = {} /\ audited = {}

CreateRequest(u, d) ==
    /\ request[d] = NoRequest /\ u \in Rule[template].creators
    /\ request' = [request EXCEPT ![d] = Blank("draft", u)]
    /\ UNCHANGED <<template, desk, lastNumber, sequenceLock, documents, audited>>

\* The columns whose value the handler changes: the others are not written.
Changed(u, d, op) ==
    {c \in {"status", "sg", "approved"} :
        CASE c = "status"   -> NextStatus(d, op) # request[d].status
          [] c = "sg"       -> \/ op = "submit" /\ request[d].sg # None
                               \/ op = "sg" /\ request[d].sg # u
          [] c = "approved" -> \/ op = "submit" /\ request[d].approved # None
                               \/ op = "approve" /\ request[d].approved # u}

\* The row is read and checked.  The handler that validates a request without a
\* reference then allocates one.
Read(u, d, op) ==
    /\ desk[u] = AtRest /\ MayHandle(u, d, op)
    /\ Cardinality({v \in Accounts : desk[v] # AtRest}) < MaxHandlers
    /\ desk' = [desk EXCEPT ![u] =
           [op |-> op, request |-> d, changed |-> Changed(u, d, op),
            stage |-> IF NextStatus(d, op) = "validated" /\ request[d].reference = None
                      THEN "allocate" ELSE "commit",
            reference |-> IF op = "generate" THEN request[d].reference ELSE None]]
    /\ UNCHANGED <<template, request, lastNumber, sequenceLock, documents, audited>>

\* Mutant: the sequence is read without a lock.
SequenceUnlocked == TRUE

\* The advisory lock and the lock of the sequence, held until the commit.
SequenceFree == sequenceLock = None

Allocate(u) ==
    /\ desk[u] # AtRest /\ desk[u].stage = "allocate"
    /\ SequenceFree /\ lastNumber < LastReference
    /\ sequenceLock' = u
    /\ desk' = [desk EXCEPT ![u].stage = "commit", ![u].reference = lastNumber + 1]
    /\ UNCHANGED <<template, request, lastNumber, documents, audited>>

Allocated(u) == desk[u].op # "generate" /\ desk[u].reference # None

\* The row with the columns that handler u sets.
Written(u) ==
    LET h == desk[u]
        r == request[h.request]
    IN  [status    |-> IF "status" \in h.changed THEN NextStatus(h.request, h.op) ELSE r.status,
         by        |-> r.by,
         sg        |-> IF "sg" \notin h.changed THEN r.sg ELSE IF h.op = "sg" THEN u ELSE None,
         approved  |-> IF "approved" \notin h.changed THEN r.approved
                       ELSE IF h.op = "approve" THEN u ELSE None,
         reference |-> IF Allocated(u) THEN h.reference ELSE r.reference,
         generated |-> r.generated \/ h.op = "generate"]

\* The document is made with the reference that was read.
Generated(u) ==
    IF desk[u].op = "generate" THEN {<<desk[u].request, desk[u].reference>>} ELSE {}

\* The audit entry names the request and its reference; only one that was just
\* allocated has not been named before.
Numbered(u) ==
    IF Allocated(u) THEN {<<desk[u].request, desk[u].reference>>} ELSE {}

Commit(u) ==
    LET h == desk[u]
    IN  /\ h # AtRest /\ h.stage = "commit"
        /\ request' = [request EXCEPT ![h.request] = Written(u)]
        /\ lastNumber' = IF Allocated(u) THEN h.reference ELSE lastNumber
        /\ sequenceLock' = IF sequenceLock = u THEN None ELSE sequenceLock
        /\ documents' = documents \cup Generated(u)
        /\ audited' = audited \cup Numbered(u)
        /\ desk' = [desk EXCEPT ![u] = AtRest]
        /\ UNCHANGED template

\* A compilation that fails, or any other error: the transaction is rolled back.
Rollback(u) ==
    /\ desk[u] # AtRest
    /\ desk' = [desk EXCEPT ![u] = AtRest]
    /\ sequenceLock' = IF sequenceLock = u THEN None ELSE sequenceLock
    /\ UNCHANGED <<template, request, lastNumber, documents, audited>>

DocumentsNext ==
    \E u \in Accounts :
          \/ \E d \in Requests : CreateRequest(u, d)
          \/ \E d \in Requests, op \in Operations : Read(u, d, op)
          \/ Allocate(u) \/ Commit(u) \/ Rollback(u)

-----------------------------------------------------------------------------
DocumentsTypeOK ==
    /\ template \in Templates
    /\ request \in [Requests ->
           [status : {"none", "draft", "pending_sg", "pending_approval", "validated",
                      "rejected", "cancelled", "generated"},
            by : Accounts \cup {None},
            sg : Accounts \cup {None}, approved : Accounts \cup {None},
            reference : (1..LastReference) \cup {None}, generated : BOOLEAN]]
    /\ lastNumber \in 0..LastReference
    /\ sequenceLock \in Accounts \cup {None}
    /\ documents \subseteq Requests \X (1..LastReference)
    /\ audited \subseteq Requests \X (1..LastReference)

\* Whatever the handlers overwrite, an official number is given once, to one request:
\* the audit trail has every number of the sequence and none beyond, each with one
\* request, a row or a document bears only a number the trail gives its request, and
\* what is validated bears one (institutional_document_service.py:622-665).
DocumentsInv ==
    /\ DocumentsTypeOK
    /\ \A d \in Requests :
          /\ request[d].status \in {"validated", "generated"} => request[d].reference # None
          /\ request[d].reference # None => <<d, request[d].reference>> \in audited
    /\ documents \subseteq audited
    /\ {p[2] : p \in audited} = 1..lastNumber
    /\ \A p, q \in audited : p[2] = q[2] => p[1] = q[1]

\* A request keeps the number it was given.  Not so: two approvals that overlap, or
\* two submissions of a secretary's minutes, each allocate one, and the later commit
\* replaces the earlier (institutional_documents.py:490-515, 570-577).
ReferenceStays ==
    [][\A d \in Requests : request[d].reference # None =>
         request'[d].reference = request[d].reference]_documentVars
=============================================================================
