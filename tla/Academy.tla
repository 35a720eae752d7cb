------------------------------ MODULE Academy ------------------------------
(***************************************************************************)
(* A member follows a course: lessons, quiz attempts and the announcement    *)
(* of a required course he finished (api/routes/academy.py).  Nothing is      *)
(* locked, no constraint keeps one progress row per lesson, and the session   *)
(* does not flush before a query: a query sees what is committed.             *)
(***************************************************************************)
EXTENDS Naturals, FiniteSets

CONSTANTS
    Lessons,        \* lessons of the course
    Rows,           \* progress rows the member may have for one lesson
    Clicks,         \* the member's requests: two devices, or two clicks
    MaxAttempts     \* bound: attempts at the quiz

VARIABLES
    published,      \* lessons that are published
    progress,       \* status of each progress row of each lesson
    click,          \* what each request is about to write
    attempts,       \* attempt_number of each attempt, as a set of <<row, number>>
    announced,      \* "Formation obligatoire terminee" has been sent
    finished        \* history: completing a lesson has completed the course

academyVars == <<published, progress, click, attempts, announced, finished>>
-----------------------------------------------------------------------------
NoClick == [does |-> "nothing"]
Existing(l) == {r \in Rows : progress[l][r] # "none"}
ClaimedRows(l) == {click[c].row : c \in {d \in Clicks : click[d].does \in {"start", "complete"}
                                                    /\ click[d].lesson = l}}

\* _lesson_progress: any row of the lesson, or a new one.
Reached(l) == IF Existing(l) # {} THEN Existing(l) ELSE Rows \ ClaimedRows(l)

\* _course_completion_percent: committed rows, those of lessons that are no longer
\* published and duplicates included.
CompletedRows == {<<l, r>> \in Lessons \X Rows : progress[l][r] = "completed"}
CountsAsComplete == published # {} /\ Cardinality(CompletedRows) >= Cardinality(published)

\* A course is finished once every published lesson has a completed row.
Finished(p) == published # {} /\ \A l \in published : \E r \in Rows : p[l][r] = "completed"
-----------------------------------------------------------------------------
AcademyInit ==
    /\ published = {} /\ attempts = {} /\ announced = FALSE /\ finished = FALSE
    /\ progress = [l \in Lessons |-> [r \in Rows |-> "none"]]
    /\ click = [c \in Clicks |-> NoClick]

\* create_lesson, update_lesson: publishing or withdrawing it.
PublishLesson(l) ==
    /\ published' = IF l \in published THEN published \ {l} ELSE published \cup {l}
    /\ UNCHANGED <<progress, click, attempts, announced, finished>>

\* The progress rows go with the lesson; what was about to write them fails.
DeleteLesson(l) ==
    /\ published' = published \ {l}
    /\ progress' = [progress EXCEPT ![l] = [r \in Rows |-> "none"]]
    /\ click' = [c \in Clicks |-> IF click[c].does \in {"start", "complete"} /\ click[c].lesson = l
                                  THEN NoClick ELSE click[c]]
    /\ UNCHANGED <<attempts, announced, finished>>

\* A first start inserts the row; a later one leaves its status alone.
StartRead(c, l, r) ==
    /\ click[c] = NoClick /\ r \in Reached(l) /\ Existing(l) = {}
    /\ click' = [click EXCEPT ![c] = [does |-> "start", lesson |-> l, row |-> r]]
    /\ UNCHANGED <<published, progress, attempts, announced, finished>>

StartCommit(c) ==
    /\ click[c].does = "start"
    /\ progress' = [progress EXCEPT ![click[c].lesson][click[c].row] = "in_progress"]
    /\ click' = [click EXCEPT ![c] = NoClick]
    /\ UNCHANGED <<published, attempts, announced, finished>>

\* The row is changed in memory, and the course is counted from the database.
CompleteRead(c, l, r) ==
    /\ click[c] = NoClick /\ r \in Reached(l)
    /\ click' = [click EXCEPT ![c] =
           [does |-> "complete", lesson |-> l, row |-> r, announces |-> CountsAsComplete]]
    /\ UNCHANGED <<published, progress, attempts, announced, finished>>

CompleteCommit(c) ==
    /\ click[c].does = "complete"
    /\ progress' = [progress EXCEPT ![click[c].lesson][click[c].row] = "completed"]
    /\ announced' = (announced \/ click[c].announces)
    /\ finished' = (finished \/ (~Finished(progress) /\ Finished(progress')))
    /\ click' = [click EXCEPT ![c] = NoClick]
    /\ UNCHANGED <<published, attempts>>

\* submit_quiz numbers the attempt after those it counts.
SubmitRead(c) ==
    /\ click[c] = NoClick /\ Cardinality(attempts) + Cardinality(Clicks) <= MaxAttempts
    /\ click' = [click EXCEPT ![c] = [does |-> "submit", number |-> Cardinality(attempts) + 1]]
    /\ UNCHANGED <<published, progress, attempts, announced, finished>>

SubmitCommit(c) ==
    /\ click[c].does = "submit"
    /\ attempts' = attempts \cup {<<Cardinality(attempts) + 1, click[c].number>>}
    /\ click' = [click EXCEPT ![c] = NoClick]
    /\ UNCHANGED <<published, progress, announced, finished>>

AcademyNext ==
    \/ \E l \in Lessons : PublishLesson(l) \/ DeleteLesson(l)
    \/ \E c \in Clicks :
          \/ \E l \in Lessons, r \in Rows : StartRead(c, l, r) \/ CompleteRead(c, l, r)
          \/ StartCommit(c) \/ CompleteCommit(c) \/ SubmitRead(c) \/ SubmitCommit(c)

AcademySpec == AcademyInit /\ [][AcademyNext]_academyVars

-----------------------------------------------------------------------------
AcademyTypeOK ==
    /\ published \subseteq Lessons /\ announced \in BOOLEAN /\ finished \in BOOLEAN
    /\ progress \in [Lessons -> [Rows -> {"none", "in_progress", "completed"}]]
    /\ attempts \subseteq (1..MaxAttempts) \X (1..MaxAttempts)

\* Finishing a required course announces it (docs/academy_permissions_audit.md:37).
CompletionAnnounced == finished => announced
=============================================================================
