---------------------------- MODULE StoredFiles ----------------------------
(***************************************************************************)
(* Uploaded files: their rows, their bytes on the disk, and the rows that   *)
(* point at them: a document, a post, a message of the chat, and the tables *)
(* the cleaning does not know (payment proofs, impact evidence).  Nothing   *)
(* here is locked, foreign keys apart.  A handler writes the columns it     *)
(* changed (api/routes/documents.py, files.py, file_storage_service.py).    *)
(***************************************************************************)
EXTENDS Naturals, FiniteSets

CONSTANTS
    Files,          \* rows of stored_files
    Validators,     \* requests that change the status of the document
    NoFile

ASSUME NoFileAssumption == NoFile \notin Files

VARIABLES
    file,           \* row of each file: kept (not temporary), expired, entity_type
    disk,           \* files whose bytes are on the disk
    document,       \* the document and its file
    posted,         \* files shown by posts
    proofs,         \* files other tables refer to
    validator,      \* the document as each request read it, and what it writes
    cleaner,        \* the cleaning under way
    unused          \* history: files deleted by hand, or seen by a cleaning with no
                    \* document and no post on them

filesVars == <<file, disk, document, posted, proofs, validator, cleaner, unused>>
-----------------------------------------------------------------------------
NoRow == [on |-> FALSE, kept |-> FALSE, expired |-> FALSE, entity |-> "none"]
NoDocument == [status |-> "none", official |-> FALSE, permanent |-> FALSE, dated |-> FALSE,
               file |-> NoFile]
\* store_bytes: the row of a file whose bytes were just written, temporary or not.
Stored(kept) == [NoRow EXCEPT !.on = TRUE, !.kept = kept]
Waiting == [stage |-> "waiting"]
Resting == [stage |-> "resting"]

\* A foreign key refers to the file: its row cannot be deleted.
Referenced(f) == f = document.file \/ f \in posted \cup proofs

\* The row of the file is being deleted, or it is gone: no reference can be added.
Linkable(f) == file[f].on

\* What each decision writes.  submit leaves the date of a validation, archive
\* leaves the document permanent.
Decisions ==
    [validate   |-> [status |-> "validated", official |-> TRUE, permanent |-> TRUE, dated |-> TRUE],
     submit     |-> [status |-> "pending_validation", official |-> FALSE, permanent |-> FALSE],
     unvalidate |-> [status |-> "pending_validation", official |-> FALSE, permanent |-> FALSE,
                     dated |-> FALSE],
     reject     |-> [status |-> "rejected", official |-> FALSE, permanent |-> FALSE, dated |-> FALSE],
     archive    |-> [status |-> "archived", official |-> FALSE]]
-----------------------------------------------------------------------------
FilesInit ==
    /\ file = [f \in Files |-> NoRow] /\ disk = {}
    /\ document = NoDocument /\ posted = {} /\ proofs = {}
    /\ validator = [v \in Validators |-> Waiting]
    /\ cleaner = Resting /\ unused = {}

Upload(f, kept) ==
    /\ ~file[f].on /\ f \notin disk \cup unused
    /\ file' = [file EXCEPT ![f] = Stored(kept)]
    /\ disk' = disk \cup {f}
    /\ UNCHANGED <<document, posted, proofs, validator, cleaner, unused>>

Expire(f) ==
    /\ file[f].on /\ ~file[f].kept /\ ~file[f].expired
    /\ file' = [file EXCEPT ![f].expired = TRUE]
    /\ UNCHANGED <<disk, document, posted, proofs, validator, cleaner, unused>>

\* An expired file will do.
CreateDocument(f) ==
    /\ Linkable(f) /\ document.status = "none"
    /\ document' = [NoDocument EXCEPT !.status = "pending_validation", !.file = f]
    /\ file' = [file EXCEPT ![f].entity = "document"]
    /\ UNCHANGED <<disk, posted, proofs, validator, cleaner, unused>>

\* The new file of a validated document is not promoted.
ReplaceFile(f) ==
    /\ Linkable(f) /\ document.status # "none" /\ document.file # f
    /\ document' = [document EXCEPT !.file = f]
    /\ file' = [file EXCEPT ![f].entity = "document"]
    /\ UNCHANGED <<disk, posted, proofs, validator, cleaner, unused>>

DeleteDocument ==
    /\ document.status # "none"
    /\ document' = NoDocument
    /\ UNCHANGED <<file, disk, posted, proofs, validator, cleaner, unused>>

\* attach_media_to_post makes the file permanent; posts keep it until deleted.
AttachPost(f) ==
    /\ Linkable(f) /\ f \notin posted
    /\ posted' = posted \cup {f}
    /\ file' = [file EXCEPT ![f] = [@ EXCEPT !.kept = TRUE, !.expired = FALSE, !.entity = "post"]]
    /\ UNCHANGED <<disk, document, proofs, validator, cleaner, unused>>

DeletePost(f) ==
    /\ f \in posted
    /\ posted' = posted \ {f}
    /\ UNCHANGED <<file, disk, document, proofs, validator, cleaner, unused>>

\* A message of the chat has no foreign key: only entity_type tells.
AttachChat(f) ==
    /\ Linkable(f) /\ file[f].entity # "chat_thread"
    /\ file' = [file EXCEPT ![f].entity = "chat_thread"]
    /\ UNCHANGED <<disk, document, posted, proofs, validator, cleaner, unused>>

\* A payment proof or an evidence: the file stays temporary.
AttachProof(f) ==
    /\ Linkable(f) /\ f \notin proofs
    /\ proofs' = proofs \cup {f}
    /\ UNCHANGED <<file, disk, document, posted, validator, cleaner, unused>>

\* The columns that differ from those read are written, and the file read is
\* promoted by a validation (promote_document_file).
Changes(d) == LET w == Decisions[d] IN
    [x \in {y \in DOMAIN w : w[y] # document[y]} |-> w[x]]

DecisionRead(v, d) ==
    /\ validator[v] = Waiting /\ document.status # "none"
    /\ validator' = [validator EXCEPT ![v] =
           [stage |-> "decided", writes |-> Changes(d),
            promotes |-> IF d = "validate" THEN document.file ELSE NoFile]]
    /\ UNCHANGED <<file, disk, document, posted, proofs, cleaner, unused>>

DecisionCommit(v) ==
    /\ validator[v] # Waiting /\ document.status # "none"
    /\ document' = [x \in DOMAIN document |->
           IF x \in DOMAIN validator[v].writes THEN validator[v].writes[x] ELSE document[x]]
    /\ LET f == validator[v].promotes IN
       file' = [g \in Files |-> IF g = f /\ file[g].on
                                THEN [file[g] EXCEPT !.kept = TRUE, !.expired = FALSE] ELSE file[g]]
    /\ validator' = [validator EXCEPT ![v] = Waiting]
    /\ UNCHANGED <<disk, posted, proofs, cleaner, unused>>

\* The document is gone: the update finds no row.
DecisionFails(v) ==
    /\ validator[v] # Waiting /\ document.status = "none"
    /\ validator' = [validator EXCEPT ![v] = Waiting]
    /\ UNCHANGED <<file, disk, document, posted, proofs, cleaner, unused>>
-----------------------------------------------------------------------------
\* delete_file unlinks the bytes, then deletes the row, which a reference refuses.
Discard(f) ==
    /\ file[f].on
    /\ disk' = disk \ {f} /\ unused' = unused \cup {f}
    /\ file' = IF Referenced(f) THEN file ELSE [file EXCEPT ![f] = NoRow]
    /\ UNCHANGED <<document, posted, proofs, validator, cleaner>>

\* cleanup_expired_files reads its candidates once.
CleanStart ==
    /\ cleaner = Resting
    /\ LET expired == {f \in Files : file[f].on /\ ~file[f].kept /\ file[f].expired} IN
       /\ expired # {}
       /\ cleaner' = [stage |-> "looking", left |-> expired, doomed |-> {},
                      saw |-> [f \in expired |-> file[f].entity]]
    /\ UNCHANGED <<file, disk, document, posted, proofs, validator, unused>>

\* cleanup_skip_reason: posts and documents are queried, the entity of the file is
\* the one the cleaning read, and no other table is asked.
ForDocument(f) ==
    f = document.file \/ (cleaner.saw[f] = "document" /\ document.status # "none")
ForPostOrChat(f) == f \in posted \/ cleaner.saw[f] \in {"chat_thread", "post"}
Skipped(f) == ForPostOrChat(f) \/ ForDocument(f)

CleanLook(f) ==
    /\ cleaner.stage = "looking" /\ f \in cleaner.left
    /\ cleaner' = IF Skipped(f)
                  THEN [cleaner EXCEPT !.left = @ \ {f}]
                  ELSE [cleaner EXCEPT !.stage = "unlinking", !.left = @ \ {f},
                                       !.doomed = @ \cup {f}]
    /\ unused' = IF f \in posted \/ f = document.file THEN unused ELSE unused \cup {f}
    /\ UNCHANGED <<file, disk, document, posted, proofs, validator>>

CleanUnlink ==
    /\ cleaner.stage = "unlinking"
    /\ disk' = disk \ cleaner.doomed
    /\ cleaner' = [cleaner EXCEPT !.stage = "looking"]
    /\ UNCHANGED <<file, document, posted, proofs, validator, unused>>

\* One deletion of all the rows: one reference refuses them all, bytes gone.
CleanCommit ==
    /\ cleaner.stage = "looking" /\ cleaner.left = {}
    /\ file' = IF \E f \in cleaner.doomed : Referenced(f) THEN file
               ELSE [f \in Files |-> IF f \in cleaner.doomed THEN NoRow ELSE file[f]]
    /\ cleaner' = Resting
    /\ UNCHANGED <<disk, document, posted, proofs, validator, unused>>

FilesNext ==
    \/ DeleteDocument \/ CleanStart \/ CleanUnlink \/ CleanCommit
    \/ \E f \in Files :
          \/ \E kept \in BOOLEAN : Upload(f, kept)
          \/ Expire(f) \/ CreateDocument(f) \/ ReplaceFile(f) \/ AttachPost(f) \/ DeletePost(f)
          \/ AttachChat(f) \/ AttachProof(f)
          \/ Discard(f) \/ CleanLook(f)
    \/ \E v \in Validators :
          \/ \E d \in DOMAIN Decisions : DecisionRead(v, d)
          \/ DecisionCommit(v) \/ DecisionFails(v)

-----------------------------------------------------------------------------
FilesTypeOK ==
    /\ file \in [Files -> [on : BOOLEAN, kept : BOOLEAN, expired : BOOLEAN,
                           entity : {"none", "document", "post", "chat_thread"}]]
    /\ disk \subseteq Files /\ posted \subseteq Files /\ proofs \subseteq Files
    /\ unused \subseteq Files
    /\ document \in [status : {"none", "pending_validation", "validated", "rejected", "archived"},
                     official : BOOLEAN, permanent : BOOLEAN, dated : BOOLEAN,
                     file : Files \cup {NoFile}]

\* The bytes of the file of a document or a post are on the disk, unless the file
\* was deleted by hand or a cleaning had looked at it before it was used; and what
\* refers to a file refers to one that has a row.
FilesInv ==
    /\ FilesTypeOK
    /\ \A f \in Files : Referenced(f) => file[f].on
    /\ \A f \in posted \cup {document.file} : f \in Files \ unused => f \in disk

\* A document that is refused or archived is no longer official.
OfficialIsValidated == document.official => document.status = "validated"

\* The bytes of a payment proof are on the disk until somebody deletes the file.
ProofsOnDisk == \A f \in proofs : f \in disk
=============================================================================
