-------------------------- MODULE AccountServices --------------------------
(***************************************************************************)
(* What a member and the administration exchange about an account: the      *)
(* legal texts (api/routes/legal.py), the request to delete the account     *)
(* (account.py) and the support ticket (product_services.py).  A publication *)
(* locks the rows of the texts; the two others read without a lock and       *)
(* write the columns they changed.                                          *)
(***************************************************************************)
EXTENDS Naturals, FiniteSets

CONSTANTS
    Versions,       \* legal texts of one type
    Publishers,     \* requests that publish one
    Agents          \* requests about the deletion or the ticket

VARIABLES
    terms,          \* published and active versions, versions the member accepted
    publisher,      \* the publication each request is in
    deletion,       \* the member's last deletion request
    ticket,         \* the member's ticket
    clerk           \* what each request is about to write

serviceVars == <<terms, publisher, deletion, ticket, clerk>>
-----------------------------------------------------------------------------
NotPublishing == [stage |-> "none"]
NoChange == [about |-> "nothing"]

ServicesInit ==
    /\ terms = [published |-> {}, active |-> {}, accepted |-> {}]
    /\ publisher = [k \in Publishers |-> NotPublishing]
    /\ deletion = [status |-> "none", cancelledAt |-> FALSE, processedAt |-> FALSE]
    /\ ticket = [status |-> "none", resolvedAt |-> FALSE, closedAt |-> FALSE]
    /\ clerk = [c \in Agents |-> NoChange]

\* Rows of legal_documents a publication holds FOR UPDATE.
HeldBy(k) ==
    IF publisher[k].stage = "none" THEN {}
    ELSE {publisher[k].version} \cup
         (IF publisher[k].stage = "ready" THEN publisher[k].previous ELSE {})

FreeFor(k, v) == \A j \in Publishers \ {k} : v \notin HeldBy(j)

PublishLock(k, v) ==
    /\ publisher[k] = NotPublishing /\ FreeFor(k, v)
    /\ publisher' = [publisher EXCEPT ![k] = [stage |-> "locked", version |-> v]]
    /\ UNCHANGED <<terms, deletion, ticket, clerk>>

\* The other active versions, in the snapshot of the query.
PublishFind(k) ==
    /\ publisher[k].stage = "locked"
    /\ publisher' = [publisher EXCEPT ![k] =
           [stage |-> "found", version |-> @.version, previous |-> terms.active \ {@.version}]]
    /\ UNCHANGED <<terms, deletion, ticket, clerk>>

\* FOR UPDATE waits for them, and drops those that are active no more.
PublishHold(k) ==
    /\ publisher[k].stage = "found"
    /\ \A v \in publisher[k].previous : FreeFor(k, v)
    /\ publisher' = [publisher EXCEPT ![k].stage = "ready",
                                      ![k].previous = @ \cap terms.active]
    /\ UNCHANGED <<terms, deletion, ticket, clerk>>

\* Mutant: no index.
NeverRefused(k) == FALSE

\* The unique index on the active version of a type refuses a second one; the
\* deactivation is then rolled back with the rest.
Refused(k) == terms.active \ (publisher[k].previous \cup {publisher[k].version}) # {}

PublishCommit(k) ==
    /\ publisher[k].stage = "ready"
    /\ LET v == publisher[k].version IN
       terms' = IF Refused(k) THEN terms
                ELSE [terms EXCEPT !.published = @ \cup {v},
                                   !.active = (@ \ publisher[k].previous) \cup {v}]
    /\ publisher' = [publisher EXCEPT ![k] = NotPublishing]
    /\ UNCHANGED <<deletion, ticket, clerk>>

\* Any published version, once.
AcceptTerms(v) ==
    /\ v \in terms.published \ terms.accepted
    /\ terms' = [terms EXCEPT !.accepted = @ \cup {v}]
    /\ UNCHANGED <<publisher, deletion, ticket, clerk>>

TermsNext ==
    \/ \E k \in Publishers :
          \/ \E v \in Versions : PublishLock(k, v)
          \/ PublishFind(k) \/ PublishHold(k) \/ PublishCommit(k)
    \/ \E v \in Versions : AcceptTerms(v)
-----------------------------------------------------------------------------
\* A new request once the last one is settled or cancelled: one pending at a time.
\* What is under way concerns the earlier row, which is not looked at any more.
RequestDeletion ==
    /\ deletion.status # "pending"
    /\ deletion' = [status |-> "pending", cancelledAt |-> FALSE, processedAt |-> FALSE]
    /\ clerk' = [c \in Agents |-> IF clerk[c].about = "deletion" THEN NoChange ELSE clerk[c]]
    /\ UNCHANGED <<terms, publisher, ticket>>

DeletionMoves ==
    [pending |-> {"approved", "rejected", "cancelled"}, approved |-> {"completed", "rejected"}]

\* cancel_account_deletion and process_account_deletion_request.
DeletionRead(c, s) ==
    /\ clerk[c] = NoChange
    /\ deletion.status \in DOMAIN DeletionMoves /\ s \in DeletionMoves[deletion.status]
    /\ clerk' = [clerk EXCEPT ![c] = [about |-> "deletion", to |-> s]]
    /\ UNCHANGED <<terms, publisher, deletion, ticket>>

DeletionCommit(c) ==
    /\ clerk[c].about = "deletion"
    /\ deletion' = IF clerk[c].to = "cancelled"
                   THEN [deletion EXCEPT !.status = "cancelled", !.cancelledAt = TRUE]
                   ELSE [deletion EXCEPT !.status = clerk[c].to, !.processedAt = TRUE]
    /\ clerk' = [clerk EXCEPT ![c] = NoChange]
    /\ UNCHANGED <<terms, publisher, ticket>>

DeletionNext ==
    \/ RequestDeletion
    \/ \E c \in Agents :
          \/ \E s \in UNION {DeletionMoves[x] : x \in DOMAIN DeletionMoves} : DeletionRead(c, s)
          \/ DeletionCommit(c)
-----------------------------------------------------------------------------
OpenTicket ==
    /\ ticket.status = "none"
    /\ ticket' = [ticket EXCEPT !.status = "open"]
    /\ UNCHANGED <<terms, publisher, deletion, clerk>>

TicketMoves ==
    [none |-> {},
     open |-> {"in_progress", "resolved", "closed"},
     in_progress |-> {"open", "resolved", "closed"},
     resolved |-> {"in_progress", "closed"},
     closed |-> {"open"}]

\* Mutant: a ticket resolved again keeps the dates it had.
TicketDatesOfClosing(s) ==
    CASE s = "resolved" -> [closedAt |-> FALSE]
      [] s = "closed"   -> [closedAt |-> TRUE]
      [] OTHER          -> [resolvedAt |-> FALSE, closedAt |-> FALSE]

\* The dates that go with a status: those that are not named are left alone.
TicketDates(s) ==
    CASE s = "resolved" -> [resolvedAt |-> TRUE, closedAt |-> FALSE]
      [] s = "closed"   -> [closedAt |-> TRUE]
      [] OTHER          -> [resolvedAt |-> FALSE, closedAt |-> FALSE]

\* A date set now always differs from the one read.
TicketRead(c, s) ==
    /\ clerk[c] = NoChange /\ s \in TicketMoves[ticket.status]
    /\ LET d == TicketDates(s)
           written == {x \in DOMAIN d : d[x] \/ d[x] # ticket[x]} IN
       clerk' = [clerk EXCEPT ![c] =
           [about |-> "ticket", to |-> s, dates |-> [x \in written |-> d[x]]]]
    /\ UNCHANGED <<terms, publisher, deletion, ticket>>

TicketCommit(c) ==
    /\ clerk[c].about = "ticket"
    /\ ticket' = [x \in DOMAIN ticket |->
           IF x = "status" THEN clerk[c].to
           ELSE IF x \in DOMAIN clerk[c].dates THEN clerk[c].dates[x] ELSE ticket[x]]
    /\ clerk' = [clerk EXCEPT ![c] = NoChange]
    /\ UNCHANGED <<terms, publisher, deletion>>

TicketNext ==
    \/ OpenTicket
    \/ \E c \in Agents :
          \/ \E s \in DOMAIN TicketMoves : TicketRead(c, s)
          \/ TicketCommit(c)

-----------------------------------------------------------------------------
ServicesTypeOK ==
    /\ terms \in [published : SUBSET Versions, active : SUBSET Versions, accepted : SUBSET Versions]
    /\ deletion.status \in
           {"none", "pending", "approved", "rejected", "cancelled", "completed"}
    /\ ticket.status \in DOMAIN TicketMoves

\* From the first publication on, one version exactly is in force, whatever
\* publications overlap, and none waits for one that waits for it.
TermsInForce ==
    /\ terms.published # {} => Cardinality(terms.active) = 1
    /\ terms.active \cup terms.accepted \subseteq terms.published
    /\ ~ \E j, k \in Publishers :
           /\ j # k /\ publisher[j].stage = "found" /\ publisher[k].stage = "found"
           /\ publisher[j].previous \cap HeldBy(k) # {}
           /\ publisher[k].previous \cap HeldBy(j) # {}

\* Two clerks never leave a status without its date.
StatusesDated ==
    /\ deletion.status = "cancelled" => deletion.cancelledAt
    /\ deletion.status \in {"approved", "rejected", "completed"} => deletion.processedAt
    /\ ticket.status = "resolved" => ticket.resolvedAt
    /\ ticket.status = "closed" => ticket.closedAt

ServicesInv == ServicesTypeOK /\ TermsInForce /\ StatusesDated

\* A request the member cancelled is not processed.
CancelledIsNotProcessed == ~(deletion.cancelledAt /\ deletion.processedAt)
=============================================================================
