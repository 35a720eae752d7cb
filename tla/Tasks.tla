------------------------------- MODULE Tasks -------------------------------
(***************************************************************************)
(* A task of a pole or a project (api/routes/tasks.py): who may create it,  *)
(* assign it, move it, prove it and validate it, while positions, members   *)
(* and accounts change.  Every handler that changes the status, the proof   *)
(* or adds assignees locks the row of the task and is one step.             *)
(***************************************************************************)

CONSTANTS
    Workers,        \* accounts
    Nobody          \* no creator, no validator

ASSUME NobodyAssumption == Nobody \notin Workers

VARIABLES
    task,           \* the row of the task, its checklist and its commenters
    assignees,      \* rows of task_assignees
    chiefs,         \* holders of a global task manager role
    leads,          \* heads and deputies of the task's pole or project
    teamOf,         \* its active members
    operational     \* accounts that are active operational members

taskVars == <<task, assignees, chiefs, leads, teamOf, operational>>
peopleVars == <<chiefs, leads, teamOf, operational>>
-----------------------------------------------------------------------------
NoTask == [status |-> "none", required |-> FALSE, proof |-> "none", completed |-> FALSE,
           validatedBy |-> Nobody, creator |-> Nobody, checklist |-> "none"]

TaskStatuses == {"a_faire", "en_cours", "bloque", "termine", "valide", "annule"}
Terminal == {"valide", "annule"}

TaskTransitions == [
    a_faire  |-> {"en_cours", "bloque"},
    en_cours |-> {"bloque", "termine"},
    bloque   |-> {"en_cours", "termine"},
    termine  |-> {"valide", "en_cours"},
    valide   |-> {},
    annule   |-> {}]

TaskExists == task.status # "none"
Manages(u) == u \in chiefs \cup leads \/ u = task.creator
Acts(u) == Manages(u) \/ u \in assignees

\* Mutant: the same moves for everybody.
AllowedToAll(t, manages) == TaskTransitions[t.status] \cup {"annule"}

\* apply_task_status: what is allowed depends on who asks.  A member who does
\* not manage the task neither validates nor cancels it, and leaves it once it is
\* finished.
AllowedMoves(t, manages) ==
    LET cancel == IF t.status \in {"a_faire", "en_cours", "bloque"} THEN {"annule"} ELSE {}
    IN  IF manages THEN TaskTransitions[t.status] \cup cancel
        ELSE IF t.status = "termine" THEN {}
        ELSE TaskTransitions[t.status] \ Terminal

\* Mutant: a task sent back to work keeps its date of completion.
MovedKeepsDate(t, s, u) ==
    [t EXCEPT !.status = s, !.completed = @ \/ s = "termine",
              !.validatedBy = IF s = "valide" THEN u ELSE Nobody]

Moved(t, s, u) ==
    [t EXCEPT !.status = s,
              !.completed = IF s = "valide" THEN @ ELSE s = "termine",
              !.validatedBy = IF s = "valide" THEN u ELSE Nobody]

CanMoveTask(t, s, manages) ==
    /\ s \in AllowedMoves(t, manages)
    /\ s = "termine" /\ t.required => t.proof = "given"

\* Mutant: the status of the accounts is not looked at.
CanAssignAnyone(u, targets) == u \in chiefs \/ targets \subseteq teamOf
-----------------------------------------------------------------------------
TasksInit ==
    /\ task = NoTask
    /\ assignees = {}
    /\ chiefs = {} /\ leads = {}
    /\ teamOf = {} /\ operational = Workers

\* Members of the pole or project, unless a global manager assigns them, and
\* active operational members in any case.
CanAssign(u, targets) ==
    /\ targets \subseteq operational
    /\ u \in chiefs \/ targets \subseteq teamOf

MayCreateTask(u) == u \in operational /\ u \in chiefs \cup leads

CreateTask(u, targets, required) ==
    /\ ~TaskExists /\ MayCreateTask(u)
    /\ CanAssign(u, targets)
    /\ task' = [NoTask EXCEPT !.status = "a_faire", !.required = required, !.creator = u]
    /\ assignees' = targets
    /\ UNCHANGED peopleVars

ChangeTaskStatus(u, s) ==
    /\ TaskExists /\ u \in operational /\ Acts(u)
    /\ CanMoveTask(task, s, Manages(u))
    /\ task' = Moved(task, s, u)
    /\ UNCHANGED <<assignees, peopleVars>>

\* Mutant: the proof of a validated task is replaced.
UpdateTaskAnytime(u, required, proof, s) ==
    /\ TaskExists /\ Manages(u)
    /\ task' = [task EXCEPT !.required = required, !.proof = proof]
    /\ UNCHANGED <<assignees, peopleVars>>

\* An edit: the proof and whether one is required first, then the status, if one
\* is given that is not the present one.
UpdateTask(u, required, proof, s) ==
    LET t == [task EXCEPT !.required = required, !.proof = proof]
    IN  /\ TaskExists /\ u \in operational /\ Manages(u)
        /\ task.status \in Terminal => proof = task.proof
        /\ IF s = task.status THEN task' = t
           ELSE CanMoveTask(t, s, TRUE) /\ task' = Moved(t, s, u)
        /\ UNCHANGED <<assignees, peopleVars>>

SubmitProof(u) ==
    /\ TaskExists /\ u \in operational /\ Acts(u)
    /\ task.status \notin Terminal
    /\ task' = [task EXCEPT !.proof = "given"]
    /\ UNCHANGED <<assignees, peopleVars>>

AddAssignees(u, targets) ==
    /\ TaskExists /\ u \in operational /\ Manages(u)
    /\ task.status \notin Terminal
    /\ targets # {} /\ targets \cap assignees = {}
    /\ CanAssign(u, targets)
    /\ assignees' = assignees \cup targets
    /\ UNCHANGED <<task, peopleVars>>

RemoveAssignee(u, target) ==
    /\ TaskExists /\ u \in operational /\ Manages(u)
    /\ target \in assignees
    /\ assignees' = assignees \ {target}
    /\ UNCHANGED <<task, peopleVars>>

DeleteTask(u) ==
    /\ TaskExists /\ u \in operational /\ Manages(u)
    /\ task' = NoTask /\ assignees' = {}
    /\ UNCHANGED peopleVars

\* The item of the checklist is added, ticked or not, and removed.
EditChecklist(u, c) ==
    /\ TaskExists /\ u \in operational /\ Manages(u)
    /\ c \in (IF task.checklist = "none" THEN {"open"} ELSE {"none", "open", "done"} \ {task.checklist})
    /\ task' = [task EXCEPT !.checklist = c]
    /\ UNCHANGED <<assignees, peopleVars>>

\* Roles, positions, memberships and accounts change (Membership).
Toggled(S, u) == IF u \in S THEN S \ {u} ELSE S \cup {u}

PeopleChange(u) ==
    /\ \/ chiefs' = Toggled(chiefs, u) /\ UNCHANGED <<leads, teamOf, operational>>
       \/ leads' = Toggled(leads, u) /\ UNCHANGED <<chiefs, teamOf, operational>>
       \/ teamOf' = Toggled(teamOf, u) /\ UNCHANGED <<chiefs, leads, operational>>
       \/ operational' = Toggled(operational, u) /\ UNCHANGED <<chiefs, leads, teamOf>>
    /\ UNCHANGED <<task, assignees>>

TasksNext ==
    \E u \in Workers :
       \/ SubmitProof(u) \/ DeleteTask(u) \/ PeopleChange(u)
       \/ \E c \in {"none", "open", "done"} : EditChecklist(u, c)
       \/ \E s \in TaskStatuses :
             \/ ChangeTaskStatus(u, s)
             \/ \E required \in BOOLEAN, proof \in {"none", "given"} :
                   UpdateTask(u, required, proof, s)
       \/ \E w \in Workers : RemoveAssignee(u, w)
       \/ \E targets \in SUBSET Workers :
             AddAssignees(u, targets) \/ \E required \in BOOLEAN : CreateTask(u, targets, required)

TasksSpec == TasksInit /\ [][TasksNext]_taskVars
-----------------------------------------------------------------------------
(* Properties. *)

\* Types of the row.
TasksTypeOK ==
    /\ task.status \in TaskStatuses \cup {"none"}
    /\ task.required \in BOOLEAN /\ task.completed \in BOOLEAN
    /\ task.proof \in {"none", "given"}
    /\ {task.validatedBy, task.creator} \subseteq Workers \cup {Nobody}
    /\ assignees \subseteq Workers

\* The dates of the task agree with its status through every detour: work sent
\* back is not finished, and a validator is recorded for validated work alone.
DatesFollowStatus ==
    /\ task.completed <=> task.status \in {"termine", "valide"}
    /\ task.validatedBy # Nobody <=> task.status = "valide"

TasksInv == TasksTypeOK /\ DatesFollowStatus

\* Finished work passes through "termine" with its proof if one is asked for, is
\* validated or cancelled by somebody who manages the task then, and is not
\* touched any more (it can only be deleted); nobody is assigned who could not
\* do the work.
WorkIsCheckedOnce ==
    [][/\ task.status \in Terminal /\ task' # NoTask =>
             /\ task'.status = task.status /\ task'.proof = task.proof
             /\ task'.validatedBy = task.validatedBy /\ assignees' \subseteq assignees
       /\ task'.status = "termine" /\ task.status # "termine" =>
             ~task'.required \/ task'.proof = "given"
       /\ task'.status = "valide" /\ task.status # "valide" =>
             task.status = "termine" /\ Manages(task'.validatedBy)
       /\ task'.status = "annule" /\ task.status # "annule" =>
             \E u \in operational : Manages(u)
       /\ assignees' \ assignees \subseteq operational
      ]_taskVars
=============================================================================
