---------------------------- MODULE ChatThreads ----------------------------
(***************************************************************************)
(* A conversation: who takes part in it, who runs it and what is written in *)
(* it (api/routes/chat.py); what each reader was shown is left out.  Every   *)
(* check is a plain read.  What is written later finds its rows, or fails:   *)
(* a message also updates the row of its author, so it fails once that row   *)
(* is gone, and the row of the thread, so that messages commit one by one.   *)
(***************************************************************************)
EXTENDS Naturals, FiniteSets

CONSTANTS
    Founder,        \* creates the conversation
    Members,        \* the accounts, Founder among them
    Messages,       \* rows of chat_messages
    MaxRequests     \* bound: requests under way at once

VARIABLES
    thread,         \* kind of the conversation, participants and their roles
    founderLeft,    \* history: its owner has left it
    errand,         \* what each member's request, its checks made, is about to write
    message         \* each message, from the check of its author to its commit

chatVars == <<thread, founderLeft, errand, message>>

ASSUME FounderIsMember == Founder \in Members
-----------------------------------------------------------------------------
NoErrand == [does |-> "nothing"]
Unsent == [stage |-> "unsent"]
Outside == "outside"
AdminRoles == {"owner", "admin"}

NoThread == [kind |-> "none", role |-> [u \in Members |-> Outside]]
MayStart(u) ==
    /\ errand[u] = NoErrand
    /\ Cardinality({v \in Members : errand[v] # NoErrand}) < MaxRequests
Participants == {u \in Members : thread.role[u] # Outside}
Sent == {m \in Messages : message[m].stage = "sent"}

\* A message being committed holds the rows of its thread and of its author.
Flushing == {m \in Messages : message[m].stage = "flushed"}

\* Requests that were about to write the row of u find it gone.
Without(u) ==
    [v \in Members |-> IF errand[v].does \in {"set role", "remove"} /\ errand[v].target = u
                       THEN NoErrand ELSE errand[v]]
-----------------------------------------------------------------------------
ChatInit ==
    /\ thread = NoThread /\ founderLeft = FALSE
    /\ errand = [u \in Members |-> NoErrand]
    /\ message = [m \in Messages |-> Unsent]

\* create_thread: a private conversation has exactly two participants.
CreateThread(kind, invited) ==
    /\ thread.kind = "none"
    /\ Founder \notin invited /\ (kind = "direct" => Cardinality(invited) = 1)
    /\ thread' = [kind |-> kind,
                  role |-> [u \in Members |-> IF u = Founder THEN "owner"
                                              ELSE IF u \in invited THEN "member" ELSE Outside]]
    /\ UNCHANGED <<founderLeft, errand, message>>

\* require_thread_admin, then the target as it is read: the owner is refused.
RoleRead(u, target, role) ==
    /\ MayStart(u) /\ thread.role[u] \in AdminRoles
    /\ thread.role[target] \notin {Outside, "owner"}
    /\ errand' = [errand EXCEPT ![u] = [does |-> "set role", target |-> target, role |-> role]]
    /\ UNCHANGED <<thread, founderLeft, message>>

RoleCommit(u) ==
    /\ errand[u].does = "set role"
    /\ thread' = [thread EXCEPT !.role[errand[u].target] = errand[u].role]
    /\ errand' = [errand EXCEPT ![u] = NoErrand]
    /\ UNCHANGED <<founderLeft, message>>

\* The kind of the conversation is not looked at.
AddRead(u, target) ==
    /\ MayStart(u) /\ thread.role[u] \in AdminRoles
    /\ thread.role[target] = Outside
    /\ errand' = [errand EXCEPT ![u] = [does |-> "add", target |-> target]]
    /\ UNCHANGED <<thread, founderLeft, message>>

\* A participant added meanwhile (uq_chat_participant), or a conversation deleted,
\* refuses the row.
AddCommit(u) ==
    /\ errand[u].does = "add"
    /\ LET t == errand[u].target IN
       thread' = IF thread.kind # "none" /\ thread.role[t] = Outside
                 THEN [thread EXCEPT !.role[t] = "member"] ELSE thread
    /\ errand' = [errand EXCEPT ![u] = NoErrand]
    /\ UNCHANGED <<founderLeft, message>>

\* Mutant: being an administrator of the conversation is enough.
MayRemoveAny(u, target) ==
    /\ thread.role[u] # Outside /\ thread.role[target] # Outside
    /\ u = target \/ thread.role[u] \in AdminRoles

\* Anybody removes himself; the owner is removed by nobody else.
MayRemove(u, target) ==
    /\ thread.role[u] # Outside /\ thread.role[target] # Outside
    /\ u = target \/ (thread.role[u] \in AdminRoles /\ thread.role[target] # "owner")

RemoveRead(u, target) ==
    /\ MayStart(u) /\ MayRemove(u, target)
    /\ errand' = [errand EXCEPT ![u] = [does |-> "remove", target |-> target]]
    /\ UNCHANGED <<thread, founderLeft, message>>

RemoveCommit(u) ==
    /\ errand[u].does = "remove"
    /\ LET t == errand[u].target IN
       /\ \A m \in Flushing : message[m].author # t
       /\ thread' = [thread EXCEPT !.role[t] = Outside]
       /\ founderLeft' = (founderLeft \/ (t = u /\ thread.role[t] = "owner"))
       /\ errand' = [Without(t) EXCEPT ![u] = NoErrand]
    /\ UNCHANGED <<message>>

\* The participants and the messages go with the conversation.
DeleteThread(u) ==
    /\ MayStart(u) /\ thread.role[u] \in AdminRoles /\ Flushing = {}
    /\ thread' = NoThread
    /\ message' = [m \in Messages |-> IF m \in Sent THEN Unsent ELSE message[m]]
    /\ errand' = [v \in Members |-> IF errand[v].does = "add" THEN errand[v] ELSE NoErrand]
    /\ founderLeft' = FALSE
-----------------------------------------------------------------------------
SendCheck(m, u) ==
    /\ message[m] = Unsent /\ u \in Participants
    /\ message' = [message EXCEPT ![m] = [stage |-> "checked", author |-> u]]
    /\ UNCHANGED <<thread, founderLeft, errand>>

\* Mutant: the row of the author is not written.
StillThere(m) == thread.kind # "none"

\* The row of the thread, then that of the author, then the message and its date.
\* An author removed since has no row to update: the message fails.
StillWritten(m) == message[m].author \in Participants

SendFlush(m) ==
    /\ message[m].stage = "checked" /\ Flushing = {}
    /\ message' = [message EXCEPT ![m] =
           IF StillWritten(m) THEN [@ EXCEPT !.stage = "flushed"]
           ELSE Unsent]
    /\ UNCHANGED <<thread, founderLeft, errand>>

SendCommit(m) ==
    /\ message[m].stage = "flushed"
    /\ message' = [message EXCEPT ![m].stage = "sent"]
    /\ UNCHANGED <<thread, founderLeft, errand>>

ChatNext ==
    \/ \E kind \in {"direct", "group"}, invited \in SUBSET Members : CreateThread(kind, invited)
    \/ \E u \in Members :
          \/ \E t \in Members, r \in {"admin", "member"} : RoleRead(u, t, r)
          \/ \E t \in Members : AddRead(u, t) \/ RemoveRead(u, t)
          \/ RoleCommit(u) \/ AddCommit(u) \/ RemoveCommit(u) \/ DeleteThread(u)
    \/ \E m \in Messages :
          \/ \E u \in Members : SendCheck(m, u)
          \/ SendFlush(m) \/ SendCommit(m)

-----------------------------------------------------------------------------
ChatTypeOK ==
    /\ thread.kind \in {"none", "direct", "group"}
    /\ thread.role \in [Members -> {Outside, "owner", "admin", "member"}]

\* The founder owns the conversation until he leaves it, and nobody else ever does;
\* what is committed in it was written by somebody who took part in it then.
ChatInv ==
    /\ ChatTypeOK
    /\ thread.kind = "none" => Participants = {}
    /\ thread.kind # "none" => (founderLeft \/ thread.role[Founder] = "owner")
    /\ \A u \in Members \ {Founder} : thread.role[u] # "owner"
    /\ \A m \in Flushing : message[m].author \in Participants

\* A private conversation stays between two people.
DirectBetweenTwo == thread.kind = "direct" => Cardinality(Participants) <= 2
=============================================================================
