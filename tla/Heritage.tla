------------------------------ MODULE Heritage ------------------------------
(***************************************************************************)
(* What the association keeps: the facts of the institutional memory        *)
(* (api/routes/institutional_memory.py), the legacy archives they hang from *)
(* (api/routes/archives.py), and the facts captured when a project ends or  *)
(* a session is archived (services/institutional_memory_capture.py).        *)
(*                                                                         *)
(* The handlers of facts and archives lock nothing: each is a read, with     *)
(* its checks, and a later commit that writes the columns it changed over    *)
(* whatever the row has become.  Finishing a project or archiving a session  *)
(* locks its row and captures it in the same transaction.                   *)
(***************************************************************************)
CONSTANTS
    Facts,          \* awards and competitions: in the memory and in the archives
    Enclosures,     \* historical projects, media, documents and hall of fame entries
    Items,          \* rows of archive_items
    Curators,       \* requests of memory curators
    Works,          \* projects and attendance sessions
    NoItem

VARIABLES
    fact,           \* validation status, source and archive item of each fact;
                    \* the fact captured for a work is named like the work, and an
                    \* enclosure has no validation status: it is "unrated"
    item,           \* status of each archive item
    statistic,      \* status of a historical statistic, and whether it has a source
    curator,        \* the handler each request is in
    work            \* progress of each project or session

heritageVars == <<fact, item, statistic, curator, work>>
-----------------------------------------------------------------------------
FactRows == Facts \cup Enclosures \cup Works

ASSUME RowsAssumption ==
    Facts \cap Enclosures = {} /\ Works \cap (Facts \cup Enclosures) = {}

FinalMemory == {"verified", "rejected", "superseded"}
FinalItem == {"validated", "archived"}
ItemStatuses == {"draft", "submitted", "rejected"} \cup FinalItem
StatisticStatuses == {"draft", "validated"}

NoHandler == [op |-> "away"]
NoFact == [status |-> "none", sourced |-> FALSE, parent |-> NoItem]
NoStatistic == [status |-> "none", sourced |-> FALSE]

ParentFinal(f) == fact[f].parent # NoItem /\ item[fact[f].parent] \in FinalItem

Rests(k) == curator[k] = NoHandler
Starts(k, op, on, status) ==
    Rests(k) /\ curator' = [curator EXCEPT ![k] = [op |-> op, on |-> on, saw |-> status]]

Does(k, op, on) == ~Rests(k) /\ curator[k].op = op /\ curator[k].on = on
Ends(k) == curator' = [curator EXCEPT ![k] = NoHandler]
-----------------------------------------------------------------------------
HeritageInit ==
    /\ fact = [f \in FactRows |-> NoFact]
    /\ item = [i \in Items |-> "none"]
    /\ statistic = NoStatistic
    /\ curator = [k \in Curators |-> NoHandler]
    /\ work = [w \in Works |-> "none"]

(* Facts of the memory. *)

\* A fact is created pending, with a source or without.
CreateFact(f) ==
    /\ fact[f].status = "none"
    /\ \E s \in BOOLEAN :
          fact' = [fact EXCEPT ![f] = [NoFact EXCEPT !.status = "pending", !.sourced = s]]
    /\ UNCHANGED <<item, statistic, curator, work>>

\* Mutant: the status of the row read is not looked at.
FactOpenAnyStatus(f, op) ==
    /\ fact[f].status # "none"
    /\ op = "verify" => fact[f].sourced

\* What a handler of the memory checks on the row it read.
FactOpen(f, op) ==
    /\ fact[f].status = "pending"
    /\ op = "verify" => fact[f].sourced

ReadFact(k, f) ==
    /\ \E op \in {"edit", "verify", "reject"} :
           FactOpen(f, op) /\ Starts(k, op, f, fact[f].status)
    /\ UNCHANGED <<fact, item, statistic, work>>

CommitsFact(k, f, op, row) ==
    /\ Does(k, op, f) /\ Ends(k)
    /\ fact' = [fact EXCEPT ![f] = row]
    /\ UNCHANGED <<item, statistic, work>>

\* An edit moves the source, and may write one of the pending statuses.
EditFact(k, f) ==
    \E s \in BOOLEAN, v \in {"pending", fact[f].status} :
        CommitsFact(k, f, "edit", [fact[f] EXCEPT !.sourced = s, !.status = v])

VerifyFact(k, f) == CommitsFact(k, f, "verify", [fact[f] EXCEPT !.status = "verified"])
RejectFact(k, f) == CommitsFact(k, f, "reject", [fact[f] EXCEPT !.status = "rejected"])

MemoryNext ==
    \/ \E f \in Facts : CreateFact(f)
    \/ \E k \in Curators, f \in Facts \cup Works :
          ReadFact(k, f) \/ EditFact(k, f) \/ VerifyFact(k, f) \/ RejectFact(k, f)

(* What hangs from the archives. *)

\* A draft item is written for the child, unless the payload names one.
DraftItem(i) == item' = [item EXCEPT ![i] = IF @ = "none" THEN "draft" ELSE @]

CreateChild(f, status) ==
    /\ fact[f].status = "none"
    /\ \E i \in Items, s \in BOOLEAN :
          /\ fact' = [fact EXCEPT ![f] = [status |-> status, sourced |-> s, parent |-> i]]
          /\ DraftItem(i)
    /\ UNCHANGED <<statistic, curator, work>>

CreateLegacyFact(f) == CreateChild(f, "pending")
CreateEnclosure(f) == CreateChild(f, "unrated")

\* Mutant: a finalised archive may be added to and edited.
ParentOpenAlways(f) == fact[f].status \in {"pending", "unrated"}

\* What the archives check before they edit a child.
ParentOpen(f) == fact[f].status \in {"pending", "unrated"} /\ ~ParentFinal(f)

ReadChild(k, f) ==
    /\ ParentOpen(f)
    /\ Starts(k, "edit child", f, [status |-> fact[f].status, final |-> ParentFinal(f)])
    /\ UNCHANGED <<fact, item, statistic, work>>

\* The child may be hung from another item.
EditChild(k, f) ==
    \E i \in {j \in Items : item[j] # "none"} \cup {NoItem} :
        CommitsFact(k, f, "edit child", [fact[f] EXCEPT !.parent = i])

(* Archive items. *)

CreateItem(i) ==
    /\ item[i] = "none"
    /\ item' \in {[item EXCEPT ![i] = s] : s \in ItemStatuses}
    /\ UNCHANGED <<fact, statistic, curator, work>>

\* Mutant: an archived item may still be edited.
ItemOpenOnceArchived(i, op) ==
    IF op = "archive" THEN item[i] = "validated"
    ELSE item[i] \notin {"none", "validated"}

ItemOpen(i, op) ==
    IF op = "archive" THEN item[i] = "validated"
    ELSE item[i] # "none" /\ item[i] \notin FinalItem

ReadItem(k, i) ==
    /\ \E op \in {"edit item", "submit", "validate", "refuse", "archive"} :
           ItemOpen(i, op) /\ Starts(k, op, i, item[i])
    /\ UNCHANGED <<fact, item, statistic, work>>

CommitsItem(k, i, op, s) ==
    /\ Does(k, op, i) /\ Ends(k)
    /\ item' = [item EXCEPT ![i] = s]
    /\ UNCHANGED <<fact, statistic, work>>

\* An edit may write any status, the final ones included.
EditItem(k, i) == \E s \in ItemStatuses : CommitsItem(k, i, "edit item", s)
SubmitItem(k, i) == CommitsItem(k, i, "submit", "submitted")
ValidateItem(k, i) == CommitsItem(k, i, "validate", "validated")
RejectItem(k, i) == CommitsItem(k, i, "refuse", "rejected")
ArchiveItem(k, i) == CommitsItem(k, i, "archive", "archived")

ArchiveNext ==
    \/ \E f \in Facts : CreateLegacyFact(f)
    \/ \E f \in Enclosures : CreateEnclosure(f)
    \/ \E i \in Items : CreateItem(i)
    \/ \E k \in Curators :
          \/ \E f \in Facts \cup Enclosures : ReadChild(k, f) \/ EditChild(k, f)
          \/ \E i \in Items :
                \/ ReadItem(k, i) \/ EditItem(k, i) \/ SubmitItem(k, i)
                \/ ValidateItem(k, i) \/ RejectItem(k, i) \/ ArchiveItem(k, i)

(* Historical statistics: one row per metric. *)

Accepted(row) == row.status = "validated" => row.sourced

CreateStatistic ==
    /\ statistic = NoStatistic
    /\ statistic' \in {r \in [status : StatisticStatuses, sourced : BOOLEAN] : Accepted(r)}
    /\ UNCHANGED <<fact, item, curator, work>>

\* The row that would result is accepted, and only what changes is written.
ReadStatistic(k) ==
    /\ statistic.status = "draft"
    /\ \E row \in [status : StatisticStatuses, sourced : BOOLEAN] :
          /\ Accepted(row)
          /\ Starts(k, "edit statistic",
                    [x \in {y \in DOMAIN row : row[y] # statistic[y]} |-> row[x]],
                    statistic.status)
    /\ UNCHANGED <<fact, item, statistic, work>>

EditStatistic(k) ==
    /\ ~Rests(k) /\ curator[k].op = "edit statistic" /\ Ends(k)
    /\ LET w == curator[k].on
       IN  statistic' = [x \in DOMAIN statistic |->
                             IF x \in DOMAIN w THEN w[x] ELSE statistic[x]]
    /\ UNCHANGED <<fact, item, work>>

StatisticNext == CreateStatistic \/ \E k \in Curators : ReadStatistic(k) \/ EditStatistic(k)

(* Captures. *)

\* A project may be created in any status, the last one included.
CreateWork(w) ==
    /\ work[w] = "none"
    /\ work' \in {[work EXCEPT ![w] = s] : s \in {"under way", "deployed", "created finished"}}
    /\ UNCHANGED <<fact, item, statistic, curator>>

\* The other statuses of a project, and a session before it is closed.
MoveWork(w) ==
    /\ work[w] \in {"under way", "deployed"}
    /\ work' = [work EXCEPT ![w] = IF @ = "deployed" THEN "under way" ELSE "deployed"]
    /\ UNCHANGED <<fact, item, statistic, curator>>

\* Mutant: the captured fact is left for a curator to verify.
CapturedUnverified == [NoFact EXCEPT !.status = "pending"]

\* The fact is verified by whoever finished the work.
Captured == [NoFact EXCEPT !.status = "verified"]

\* The row is locked: its last status and the captured fact are one commit.
FinishWork(w) ==
    /\ work[w] = "deployed"
    /\ work' = [work EXCEPT ![w] = "finished"]
    /\ fact' = [fact EXCEPT ![w] = Captured]
    /\ UNCHANGED <<item, statistic, curator>>

HeritageNext ==
    \/ MemoryNext \/ ArchiveNext
    \/ \E w \in Works : CreateWork(w) \/ MoveWork(w) \/ FinishWork(w)

-----------------------------------------------------------------------------
HeritageTypeOK ==
    /\ fact \in [FactRows -> [status : {"none", "pending", "unrated"} \cup FinalMemory,
                              sourced : BOOLEAN, parent : Items \cup {NoItem}]]
    /\ item \in [Items -> {"none"} \cup ItemStatuses]
    /\ work \in [Works -> {"none", "under way", "deployed", "created finished", "finished"}]

\* A finished project or an archived session is remembered by a verified fact of
\* its own, which no request of a curator ever reaches, and nothing is remembered
\* of one that is not finished.  (A project created in its last status is not.)
HeritageInv ==
    /\ HeritageTypeOK
    /\ \A w \in Works :
          fact[w] = IF work[w] = "finished" THEN [NoFact EXCEPT !.status = "verified"]
                    ELSE NoFact

\* The request read the fact before it was finalised.
SawPending(k, f) == \/ \E op \in {"edit", "verify", "reject"} :
                           Does(k, op, f) /\ curator[k].saw = "pending"
                    \/ Does(k, "edit child", f) /\ curator[k].saw.status = "pending"

\* Whoever finalises a fact, an archive or a statistic has only to fear the requests
\* that read it before: no other changes it, except that a validated archive may be
\* archived; and the archives change nothing in a finalised archive they did not
\* read open.
FinalisedStays ==
    [][/\ \A f \in FactRows :
             /\ fact[f].status \in FinalMemory /\ fact'[f] # fact[f] =>
                    \E k \in Curators : SawPending(k, f)
             /\ ParentFinal(f) /\ fact'[f].parent # fact[f].parent =>
                    \E k \in Curators :
                        Does(k, "edit child", f) /\ ~curator[k].saw.final
       /\ \A i \in Items :
             item[i] \in FinalItem /\ item'[i] # item[i] =>
                 \/ item[i] = "validated" /\ item'[i] = "archived"
                 \/ \E k \in Curators : /\ ~Rests(k) /\ curator[k].on = i
                                        /\ curator[k].saw \notin FinalItem
       /\ statistic.status = "validated" /\ statistic' # statistic =>
             \E k \in Curators : /\ ~Rests(k) /\ curator[k].op = "edit statistic"
                                /\ curator[k].saw = "draft"
      ]_heritageVars

\* A validated statistic has a source.
ValidatedIsSourced == Accepted(statistic)
=============================================================================
