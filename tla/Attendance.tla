----------------------------- MODULE Attendance -----------------------------
(***************************************************************************)
(* One attendance session of api/routes/attendance.py and the NFC badges   *)
(* of api/routes/attendance_nfc.py: the roll of expected members, the       *)
(* check-ins (QR code, badge, by hand), corrections, the closing that marks *)
(* the missing absent, justifications and their review, and the penalty     *)
(* each of them creates, revises or cancels.  What a penalty does to the    *)
(* account of the member is the subject of FinanceLedger.                   *)
(*                                                                         *)
(* Every handler that touches a record locks the session first, so it is    *)
(* one step.  The session does not flush before a query: the members that   *)
(* _ensure_expected_members has just added are not among the expected       *)
(* members the same handler reads next.                                     *)
(***************************************************************************)


CONSTANTS
    Attendees,    \* members the session may concern
    Marks,        \* what a manager may enter: records of a status and a review
    Badges,       \* NFC badges (their hashes)
    NoMember      \* a badge that was never enrolled

VARIABLES
    roll,         \* status of the session
    scope,        \* the members in the scope of the session (pole, project, club)
    expected,     \* members with an attendance_expected_members row
    record,       \* attendance record of each member
    penalty,      \* the fee tied to the record: "none", its type or "cancelled"
    sanctions,    \* the sanctions have started (settings)
    badge         \* owner and status of each badge

attendanceVars == <<roll, scope, expected, record, penalty, sanctions, badge>>
-----------------------------------------------------------------------------
NoRecord == [status |-> "none", review |-> "none"]
RecordStatuses == {"present", "late", "absent", "justified_absence", "excused",
                   "not_recorded"}
Reviews == {"not_submitted", "pending", "approved", "rejected", "expired"}

\* Any other value is refused, or brought to one of these.
ASSUME MarksAssumption == Marks \subseteq [status : RecordStatuses, review : Reviews]

\* What an attendance costs, by type of penalty.
PenaltyOf(r) ==
    IF ~sanctions THEN "none"
    ELSE IF r.status = "late" THEN "late"
    ELSE IF r.status = "absent" /\ r.review \in {"not_submitted", "rejected", "expired"}
         THEN "absent"
    ELSE "none"

\* Mutant: a fee that exists is left as it is when nothing is due any more.
SyncKeepsFee(old, r) == IF PenaltyOf(r) # "none" THEN PenaltyOf(r) ELSE old

\* The fee of a record follows the record: created, revised, reinstated, or
\* cancelled when nothing is due any more.
SyncPenalty(old, r) ==
    IF PenaltyOf(r) # "none" THEN PenaltyOf(r)
    ELSE IF old = "none" THEN "none" ELSE "cancelled"

WriteRecord(u, r) ==
    /\ record' = [record EXCEPT ![u] = r]
    /\ penalty' = [penalty EXCEPT ![u] = SyncPenalty(@, r)]

-----------------------------------------------------------------------------
AttendanceInit ==
    /\ roll = "none"
    /\ scope = {} /\ expected = {}
    /\ record = [u \in Attendees |-> NoRecord]
    /\ penalty = [u \in Attendees |-> "none"]
    /\ sanctions = FALSE

BadgesInit == badge = [b \in Badges |-> [owner |-> NoMember, status |-> "none"]]

CreateSession ==
    /\ roll = "none"
    /\ roll' = "draft"
    /\ expected' = scope
    /\ UNCHANGED <<scope, record, penalty, sanctions, badge>>

\* Somebody joins or leaves the pole or the project of the session.
ScopeChanges(u) ==
    /\ scope' = IF u \in scope THEN scope \ {u} ELSE scope \cup {u}
    /\ UNCHANGED <<roll, expected, record, penalty, sanctions, badge>>

\* The start of the sanctions is moved or reached.
SettingsChange ==
    /\ sanctions' = ~sanctions
    /\ UNCHANGED <<roll, scope, expected, record, penalty, badge>>

\* An edit of the session, or a look at the state of its QR code: neither looks
\* at the status of the session before it completes the expected members.
CompleteExpected ==
    /\ roll # "none"
    /\ expected' = expected \cup scope
    /\ UNCHANGED <<roll, scope, record, penalty, sanctions, badge>>

\* A QR code is drawn for an open session only.
ShowQrCode == roll = "open" /\ CompleteExpected

OpenSession ==
    /\ roll = "draft"
    /\ roll' = "open"
    /\ expected' = expected \cup scope
    /\ UNCHANGED <<scope, record, penalty, sanctions, badge>>

AddExpected(u) ==
    /\ roll \in {"draft", "open"}
    /\ expected' = expected \cup {u}
    /\ UNCHANGED <<roll, scope, record, penalty, sanctions, badge>>

\* Mutant: a scan is taken while the session is not closed, whatever is recorded.
ScanWhenNotClosed(u) == roll # "archived" /\ u \in expected

\* A scan of the QR code by the member or of the badge by a manager; outcome is
\* what the clock makes of it.  A member who is not expected yet is refused.
ScanAllowed(u) ==
    /\ roll = "open"
    /\ u \in expected
    /\ record[u].status \in {"none", "not_recorded"}

Scan(u, outcome) ==
    /\ ScanAllowed(u)
    /\ expected' = expected \cup scope
    /\ WriteRecord(u, [status |-> outcome, review |-> "not_submitted"])
    /\ UNCHANGED <<roll, scope, sanctions, badge>>

ScanNfc(u, b, outcome) ==
    /\ badge[b] = [owner |-> u, status |-> "active"]
    /\ Scan(u, outcome)

\* Marked by a manager, who may send a review status too.
MarkManually(u, mark) ==
    /\ roll = "open"
    /\ WriteRecord(u, mark)
    /\ UNCHANGED <<roll, scope, expected, sanctions, badge>>

\* A correction, in any status of the session: it keeps the review.
UpdateRecord(u, s) ==
    /\ record[u] # NoRecord
    /\ WriteRecord(u, [record[u] EXCEPT !.status = s])
    /\ UNCHANGED <<roll, scope, expected, sanctions, badge>>

\* Who is missing is marked absent: among the members expected when the closing
\* began, for it does not see the rows it has just added.
MarkMissing(missing) ==
    LET absent == [status |-> "absent", review |-> "not_submitted"]
    IN  /\ record' = [u \in Attendees |-> IF u \in missing THEN absent ELSE record[u]]
        /\ penalty' = [u \in Attendees |->
               IF u \in missing THEN SyncPenalty(penalty[u], absent) ELSE penalty[u]]

\* Mutant: closing reads the scope of the session instead of its expected members.
CloseByScope ==
    /\ roll = "open"
    /\ roll' = "closed"
    /\ MarkMissing({u \in scope : record[u] = NoRecord})
    /\ UNCHANGED <<expected, scope, sanctions, badge>>

CloseSession ==
    /\ roll = "open"
    /\ roll' = "closed"
    /\ expected' = expected \cup scope
    /\ MarkMissing({u \in expected : record[u] = NoRecord})
    /\ UNCHANGED <<scope, sanctions, badge>>

ArchiveSession ==
    /\ roll = "closed"
    /\ roll' = "archived"
    /\ UNCHANGED <<scope, expected, record, penalty, sanctions, badge>>

SubmitJustification(u) ==
    /\ record[u].status \in {"absent", "justified_absence"}
    /\ record[u].review \in {"not_submitted", "rejected"}
    /\ WriteRecord(u, [record[u] EXCEPT !.review = "pending"])
    /\ UNCHANGED <<roll, scope, expected, sanctions, badge>>

\* Mutant: the approval does not touch the penalty.
ApproveKeepsPenalty(u) ==
    /\ record[u].review = "pending"
    /\ record' = [record EXCEPT ![u] = [status |-> "justified_absence", review |-> "approved"]]
    /\ UNCHANGED <<roll, scope, expected, penalty, sanctions, badge>>

ApproveJustification(u) ==
    /\ record[u].review = "pending"
    /\ WriteRecord(u, [status |-> "justified_absence", review |-> "approved"])
    /\ UNCHANGED <<roll, scope, expected, sanctions, badge>>

RejectJustification(u) ==
    /\ record[u].review = "pending"
    /\ WriteRecord(u, [status |-> "absent", review |-> "rejected"])
    /\ UNCHANGED <<roll, scope, expected, sanctions, badge>>

\* The treasurer cancels the fee (FinanceLedger!CancelFee).
CancelPenaltyFee(u) ==
    /\ penalty[u] \in {"late", "absent"}
    /\ penalty' = [penalty EXCEPT ![u] = "cancelled"]
    /\ UNCHANGED <<roll, scope, expected, record, sanctions, badge>>

\* Mutant: only the active badges are looked at.
CanEnrollAgain(b, u) == badge[b].status # "active" \/ badge[b].owner = u

\* A badge that was ever revoked or replaced is never enrolled again.
CanEnroll(b, u) ==
    \/ badge[b].status = "none"
    \/ badge[b].status = "active" /\ badge[b].owner = u

ActiveBadges(u) == {b \in Badges : badge[b] = [owner |-> u, status |-> "active"]}

\* Enrolment retires the badge the member had, when asked to replace it; the
\* replacement of a badge is the same from the badge's side.  Two active badges
\* of one member are refused by a unique index.
EnrollBadge(b, u) ==
    /\ CanEnroll(b, u)
    /\ b \notin ActiveBadges(u)
    /\ badge' = [x \in Badges |->
           IF x = b THEN [owner |-> u, status |-> "active"]
           ELSE IF x \in ActiveBadges(u) THEN [badge[x] EXCEPT !.status = "replaced"]
           ELSE badge[x]]
    /\ UNCHANGED <<roll, scope, expected, record, penalty, sanctions>>

RevokeBadge(b) ==
    /\ badge[b].status = "active"
    /\ badge' = [badge EXCEPT ![b].status = "revoked"]
    /\ UNCHANGED <<roll, scope, expected, record, penalty, sanctions>>
-----------------------------------------------------------------------------
AttendanceNext ==
    \/ SettingsChange \/ CreateSession \/ CompleteExpected \/ ShowQrCode
    \/ OpenSession \/ CloseSession \/ ArchiveSession
    \/ \E u \in Attendees :
          \/ ScopeChanges(u) \/ AddExpected(u)
          \/ \E outcome \in {"present", "late"} :
                Scan(u, outcome) \/ \E b \in Badges : ScanNfc(u, b, outcome)
          \/ \E mark \in Marks : MarkManually(u, mark) \/ UpdateRecord(u, mark.status)
          \/ SubmitJustification(u) \/ ApproveJustification(u) \/ RejectJustification(u)
          \/ CancelPenaltyFee(u)

BadgeNext == \E b \in Badges : RevokeBadge(b) \/ \E u \in Attendees : EnrollBadge(b, u)

AttendanceSpec == AttendanceInit /\ BadgesInit /\ [][AttendanceNext \/ BadgeNext]_attendanceVars
-----------------------------------------------------------------------------
(* Properties. *)

\* Types of the rows.
AttendanceTypeOK ==
    /\ roll \in {"none", "draft", "open", "closed", "archived"}
    /\ scope \subseteq Attendees /\ expected \subseteq Attendees
    /\ \A u \in Attendees :
          \/ record[u] = NoRecord
          \/ record[u].status \in RecordStatuses /\ record[u].review \in Reviews
    /\ penalty \in [Attendees -> {"none", "late", "absent", "cancelled"}]
    /\ sanctions \in BOOLEAN
    /\ \A b \in Badges : /\ badge[b].owner \in Attendees \cup {NoMember}
                         /\ badge[b].status \in {"none", "active", "revoked", "replaced"}

\* A member is charged for a lateness or an absence only while the record says
\* so: no correction, approval or resubmission leaves the charge behind.
ChargedForWhatIsRecorded ==
    \A u \in Attendees :
        /\ penalty[u] = "late" => record[u].status = "late"
        /\ penalty[u] = "absent" =>
              /\ record[u].status = "absent"
              /\ record[u].review \in {"not_submitted", "rejected", "expired"}

\* One badge in use per member: a lost badge that was replaced opens nothing.
OneBadgePerMember == 
    \A u \in Attendees : \A a, b \in ActiveBadges(u) : a = b

AttendanceInv == AttendanceTypeOK /\ ChargedForWhatIsRecorded /\ OneBadgePerMember

\* The roll is taken once: everybody expected when the closing begins is on it
\* after, nobody is put on it later, and a session never opens again.  A badge
\* that was taken out of use never identifies anybody again.
RollTakenOnce ==
    [][/\ roll = "open" /\ roll' # "open" =>
             roll' = "closed" /\ \A u \in expected : record'[u] # NoRecord
       /\ roll \in {"closed", "archived"} =>
             /\ roll' \in {"closed", "archived"}
             /\ \A u \in Attendees : record[u] = NoRecord => record'[u] = NoRecord
       /\ \A b \in Badges :
             badge[b].status \in {"revoked", "replaced"} => badge'[b] = badge[b]
      ]_attendanceVars

\* Every member who is expected at a closed session has a record.
EveryExpectedMemberRecorded ==
    roll \in {"closed", "archived"} => \A u \in expected : record[u] # NoRecord
=============================================================================
