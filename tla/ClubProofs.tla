----------------------------- MODULE ClubProofs -----------------------------
(***************************************************************************)
(* Theorems about the workflows of the club: Attendance, Recruitment, Tasks, *)
(* Events and Impact, for any number of members, applications and claims.   *)
(* Each part states its inductive invariant (the invariant of its module     *)
(* with the shape of the rows), shows that every action preserves it, and    *)
(* then what a step may do.                                                 *)
(***************************************************************************)
EXTENDS Attendance, Recruitment, Tasks, Events, Impact, FiniteSetTheorems, TLAPS

(* The roll of a session, its penalties, the badges. *)

AttendanceIInv ==
    /\ AttendanceInv
    /\ record \in [Attendees -> [status : RecordStatuses \cup {"none"},
                                 review : Reviews \cup {"none"}]]
    /\ badge \in [Badges -> [owner : Attendees \cup {NoMember},
                             status : {"none", "active", "revoked", "replaced"}]]

\* The penalty follows the record that is written.
LEMMA SyncedPenalty ==
  ASSUME NEW r \in [status : RecordStatuses, review : Reviews],
         NEW old \in {"none", "late", "absent", "cancelled"}
  PROVE  /\ SyncPenalty(old, r) \in {"none", "late", "absent", "cancelled"}
         /\ SyncPenalty(old, r) = "late" => r.status = "late"
         /\ SyncPenalty(old, r) = "absent" =>
               r.status = "absent" /\ r.review \in {"not_submitted", "rejected", "expired"}
BY DEF SyncPenalty, PenaltyOf

LEMMA WriteRecordInv ==
  ASSUME AttendanceIInv, NEW u \in Attendees,
         NEW r \in [status : RecordStatuses, review : Reviews], WriteRecord(u, r),
         roll' \in {"none", "draft", "open", "closed", "archived"},
         scope' \subseteq Attendees, expected' \subseteq Attendees, sanctions' \in BOOLEAN,
         UNCHANGED badge
  PROVE  AttendanceIInv'
<1>1. /\ penalty[u] \in {"none", "late", "absent", "cancelled"}
      /\ penalty' = [penalty EXCEPT ![u] = SyncPenalty(penalty[u], r)]
      /\ record' = [record EXCEPT ![u] = r]
  BY DEF WriteRecord, AttendanceIInv, AttendanceInv, AttendanceTypeOK
<1>2. AttendanceTypeOK'
  BY <1>1, SyncedPenalty DEF AttendanceIInv, AttendanceInv, AttendanceTypeOK
<1>3. ChargedForWhatIsRecorded'
  BY <1>1, SyncedPenalty
     DEF AttendanceIInv, AttendanceInv, AttendanceTypeOK, ChargedForWhatIsRecorded
<1>4. OneBadgePerMember'
  BY DEF AttendanceIInv, AttendanceInv, OneBadgePerMember, ActiveBadges
<1>5. QED
  BY <1>1, <1>2, <1>3, <1>4 DEF AttendanceIInv, AttendanceInv

LEMMA CloseSessionInv ==
  ASSUME AttendanceIInv, CloseSession
  PROVE  AttendanceIInv'
<1> DEFINE missing == {u \in expected : record[u] = NoRecord}
           absent == [status |-> "absent", review |-> "not_submitted"]
<1>1. absent \in [status : RecordStatuses, review : Reviews]
  BY DEF RecordStatuses, Reviews
<1>2. /\ roll' = "closed" /\ expected' = expected \cup scope
      /\ record' = [u \in Attendees |-> IF u \in missing THEN absent ELSE record[u]]
      /\ penalty' = [u \in Attendees |->
             IF u \in missing THEN SyncPenalty(penalty[u], absent) ELSE penalty[u]]
      /\ UNCHANGED <<scope, sanctions, badge>>
  BY DEF CloseSession, MarkMissing
<1>3. \A u \in Attendees :
        /\ SyncPenalty(penalty[u], absent) \in {"none", "late", "absent", "cancelled"}
        /\ SyncPenalty(penalty[u], absent) # "late"
  <2>1. \A u \in Attendees : penalty[u] \in {"none", "late", "absent", "cancelled"}
    BY DEF AttendanceIInv, AttendanceInv, AttendanceTypeOK
  <2>2. absent.status # "late"
    OBVIOUS
  <2> HIDE DEF absent
  <2>3. QED
    BY <1>1, <2>1, <2>2, SyncedPenalty
<1>4. AttendanceTypeOK'
  BY <1>1, <1>2, <1>3 DEF AttendanceIInv, AttendanceInv, AttendanceTypeOK
<1>5. ChargedForWhatIsRecorded'
  BY <1>2, <1>3 DEF AttendanceIInv, AttendanceInv, AttendanceTypeOK, ChargedForWhatIsRecorded
<1>6. OneBadgePerMember'
  BY <1>2 DEF AttendanceIInv, AttendanceInv, OneBadgePerMember, ActiveBadges
<1>7. QED
  BY <1>1, <1>2, <1>4, <1>5, <1>6 DEF AttendanceIInv, AttendanceInv

LEMMA EnrollBadgeInv ==
  ASSUME AttendanceIInv, NEW b \in Badges, NEW u \in Attendees, EnrollBadge(b, u)
  PROVE  AttendanceIInv'
<1>1. /\ badge' = [x \in Badges |->
           IF x = b THEN [owner |-> u, status |-> "active"]
           ELSE IF x \in ActiveBadges(u) THEN [badge[x] EXCEPT !.status = "replaced"]
           ELSE badge[x]]
      /\ UNCHANGED <<roll, scope, expected, record, penalty, sanctions>>
  BY DEF EnrollBadge
<1>2. badge' \in [Badges -> [owner : Attendees \cup {NoMember},
                             status : {"none", "active", "revoked", "replaced"}]]
  BY <1>1 DEF AttendanceIInv
<1>3. AttendanceTypeOK' /\ ChargedForWhatIsRecorded'
  BY <1>1, <1>2 DEF AttendanceIInv, AttendanceInv, AttendanceTypeOK, ChargedForWhatIsRecorded
<1>4. OneBadgePerMember'
  <2> SUFFICES ASSUME NEW v \in Attendees, NEW x \in ActiveBadges(v)', NEW y \in ActiveBadges(v)'
               PROVE  x = y
    BY DEF OneBadgePerMember
  <2>1. x \in Badges /\ y \in Badges
        /\ badge'[x] = [owner |-> v, status |-> "active"]
        /\ badge'[y] = [owner |-> v, status |-> "active"]
    BY DEF ActiveBadges
  <2>2. CASE v = u
    <3>1. \A z \in Badges \ {b} : badge'[z] # [owner |-> u, status |-> "active"]
      BY <1>1 DEF ActiveBadges, AttendanceIInv
    <3>2. QED
      BY <2>1, <2>2, <3>1
  <2>3. CASE v # u
    <3>1. x # b /\ y # b
      BY <1>1, <2>1, <2>3
    <3>2. x \in ActiveBadges(v) /\ y \in ActiveBadges(v)
      BY <1>1, <2>1, <3>1 DEF ActiveBadges, AttendanceIInv
    <3>3. QED
      BY <3>2 DEF AttendanceIInv, AttendanceInv, OneBadgePerMember
  <2>4. QED
    BY <2>2, <2>3
<1>5. QED
  BY <1>1, <1>2, <1>3, <1>4 DEF AttendanceIInv, AttendanceInv

LEMMA RevokeBadgeInv ==
  ASSUME AttendanceIInv, NEW b \in Badges, RevokeBadge(b)
  PROVE  AttendanceIInv'
<1>1. /\ badge' = [badge EXCEPT ![b] = [badge[b] EXCEPT !.status = "revoked"]]
      /\ UNCHANGED <<roll, scope, expected, record, penalty, sanctions>>
  BY DEF RevokeBadge
<1>2. badge' \in [Badges -> [owner : Attendees \cup {NoMember},
                             status : {"none", "active", "revoked", "replaced"}]]
  BY <1>1 DEF AttendanceIInv
<1>3. AttendanceTypeOK' /\ ChargedForWhatIsRecorded'
  BY <1>1, <1>2 DEF AttendanceIInv, AttendanceInv, AttendanceTypeOK, ChargedForWhatIsRecorded
<1>4. \A u \in Attendees : ActiveBadges(u)' \subseteq ActiveBadges(u)
  BY <1>1 DEF ActiveBadges, AttendanceIInv
<1>5. OneBadgePerMember'
  BY <1>4 DEF AttendanceIInv, AttendanceInv, OneBadgePerMember
<1>6. QED
  BY <1>1, <1>2, <1>3, <1>5 DEF AttendanceIInv, AttendanceInv

\* The session and its expected members change, the records do not.
LEMMA RollChangesInv ==
  ASSUME AttendanceIInv, UNCHANGED <<record, badge>>,
         roll' \in {"none", "draft", "open", "closed", "archived"},
         scope' \subseteq Attendees, expected' \subseteq Attendees, sanctions' \in BOOLEAN,
         penalty' \in [Attendees -> {"none", "late", "absent", "cancelled"}],
         \A u \in Attendees : penalty'[u] \in {penalty[u], "cancelled"}
  PROVE  AttendanceIInv'
BY DEF AttendanceIInv, AttendanceInv, AttendanceTypeOK, ChargedForWhatIsRecorded,
       OneBadgePerMember, ActiveBadges

LEMMA AttendanceStepInv ==
  ASSUME AttendanceIInv, [AttendanceNext \/ BadgeNext]_attendanceVars
  PROVE  AttendanceIInv'
<1> USE DEF NoRecord
<1>0. /\ roll \in {"none", "draft", "open", "closed", "archived"}
      /\ scope \subseteq Attendees /\ expected \subseteq Attendees /\ sanctions \in BOOLEAN
      /\ penalty \in [Attendees -> {"none", "late", "absent", "cancelled"}]
      /\ \A u \in Attendees : record[u] = NoRecord
                              \/ record[u] \in [status : RecordStatuses, review : Reviews]
  BY DEF AttendanceIInv, AttendanceInv, AttendanceTypeOK
<1>1. CASE SettingsChange \/ CreateSession \/ CompleteExpected \/ ShowQrCode
           \/ OpenSession \/ ArchiveSession
  BY <1>0, <1>1, RollChangesInv
     DEF SettingsChange, CreateSession, CompleteExpected, ShowQrCode, OpenSession, ArchiveSession
<1>2. CASE CloseSession
  BY <1>2, CloseSessionInv
<1>3. ASSUME NEW u \in Attendees, ScopeChanges(u) \/ AddExpected(u) \/ CancelPenaltyFee(u)
      PROVE  AttendanceIInv'
  BY <1>0, <1>3, RollChangesInv DEF ScopeChanges, AddExpected, CancelPenaltyFee
<1>4. ASSUME NEW u \in Attendees, NEW outcome \in {"present", "late"},
             Scan(u, outcome) \/ \E b \in Badges : ScanNfc(u, b, outcome)
      PROVE  AttendanceIInv'
  <2>1. [status |-> outcome, review |-> "not_submitted"]
            \in [status : RecordStatuses, review : Reviews]
    BY DEF RecordStatuses, Reviews
  <2>2. Scan(u, outcome)
    BY <1>4 DEF ScanNfc
  <2>3. QED
    BY <1>0, <2>1, <2>2, WriteRecordInv DEF Scan
<1>5. ASSUME NEW u \in Attendees, NEW mark \in Marks,
             MarkManually(u, mark) \/ UpdateRecord(u, mark.status)
      PROVE  AttendanceIInv'
  <2>1. mark \in [status : RecordStatuses, review : Reviews]
    BY MarksAssumption
  <2>2. record[u] # NoRecord => [record[u] EXCEPT !.status = mark.status]
            \in [status : RecordStatuses, review : Reviews]
    BY <1>0, <2>1
  <2>3. QED
    BY <1>0, <1>5, <2>1, <2>2, WriteRecordInv DEF MarkManually, UpdateRecord
<1>6. ASSUME NEW u \in Attendees,
             SubmitJustification(u) \/ ApproveJustification(u) \/ RejectJustification(u)
      PROVE  AttendanceIInv'
  <2>1. PICK r \in [status : RecordStatuses, review : Reviews] :
           WriteRecord(u, r) /\ UNCHANGED <<roll, scope, expected, sanctions, badge>>
    <3>1. CASE SubmitJustification(u)
      <4>1. [record[u] EXCEPT !.review = "pending"] \in [status : RecordStatuses, review : Reviews]
        BY <1>0, <3>1 DEF SubmitJustification, Reviews
      <4>2. QED
        BY <3>1, <4>1 DEF SubmitJustification
    <3>2. CASE ApproveJustification(u)
      BY <3>2 DEF ApproveJustification, RecordStatuses, Reviews
    <3>3. CASE RejectJustification(u)
      BY <3>3 DEF RejectJustification, RecordStatuses, Reviews
    <3>4. QED
      BY <1>6, <3>1, <3>2, <3>3
  <2>2. QED
    BY <1>0, <2>1, WriteRecordInv
<1>7. CASE BadgeNext
  BY <1>7, EnrollBadgeInv, RevokeBadgeInv DEF BadgeNext
<1>8. CASE UNCHANGED attendanceVars
  BY <1>0, <1>8, RollChangesInv DEF attendanceVars
<1>9. QED
  BY <1>1, <1>2, <1>3, <1>4, <1>5, <1>6, <1>7, <1>8 DEF AttendanceNext

LEMMA AttendanceInitInv ==
  ASSUME AttendanceInit,
         badge \in [Badges -> [owner : Attendees \cup {NoMember},
                               status : {"none", "active", "revoked", "replaced"}]],
         OneBadgePerMember
  PROVE  AttendanceIInv
BY DEF AttendanceInit, AttendanceIInv, AttendanceInv, AttendanceTypeOK,
       ChargedForWhatIsRecorded, NoRecord

\* No action but the closing makes up for who is missing, and none opens what is closed.
LEMMA RollStep ==
  ASSUME AttendanceIInv, AttendanceNext \/ BadgeNext
  PROVE  /\ roll = "open" /\ roll' # "open" =>
               roll' = "closed" /\ \A u \in expected : record'[u] # NoRecord
         /\ roll \in {"closed", "archived"} =>
               /\ roll' \in {"closed", "archived"}
               /\ \A u \in Attendees : record[u] = NoRecord => record'[u] = NoRecord
         /\ \A b \in Badges :
               badge[b].status \in {"revoked", "replaced"} => badge'[b] = badge[b]
<1>0. /\ expected \subseteq Attendees
      /\ record \in [Attendees -> [status : RecordStatuses \cup {"none"},
                                   review : Reviews \cup {"none"}]]
      /\ badge \in [Badges -> [owner : Attendees \cup {NoMember},
                               status : {"none", "active", "revoked", "replaced"}]]
  BY DEF AttendanceIInv, AttendanceInv, AttendanceTypeOK
<1>1. CASE BadgeNext
  <2>1. ASSUME NEW b \in Badges, RevokeBadge(b)
        PROVE  /\ UNCHANGED <<roll, record>>
               /\ \A x \in Badges : badge[x].status \in {"revoked", "replaced"} =>
                      badge'[x] = badge[x]
    BY <1>0, <2>1 DEF RevokeBadge
  <2>2. ASSUME NEW b \in Badges, NEW u \in Attendees, EnrollBadge(b, u)
        PROVE  /\ UNCHANGED <<roll, record>>
               /\ \A x \in Badges : badge[x].status \in {"revoked", "replaced"} =>
                      badge'[x] = badge[x]
    BY <1>0, <2>2 DEF EnrollBadge, CanEnroll, ActiveBadges
  <2>3. QED
    BY <1>1, <2>1, <2>2 DEF BadgeNext
<1>2. CASE CloseSession
  <2>1. /\ roll = "open" /\ roll' = "closed" /\ badge' = badge
        /\ record' = [u \in Attendees |->
               IF u \in {v \in expected : record[v] = NoRecord}
               THEN [status |-> "absent", review |-> "not_submitted"] ELSE record[u]]
    BY <1>2 DEF CloseSession, MarkMissing
  <2>2. QED
    BY <1>0, <2>1 DEF NoRecord
<1>3. CASE SettingsChange \/ CreateSession \/ CompleteExpected \/ ShowQrCode
           \/ OpenSession \/ ArchiveSession
  BY <1>3 DEF SettingsChange, CreateSession, CompleteExpected, ShowQrCode, OpenSession,
              ArchiveSession
<1>4. ASSUME NEW u \in Attendees, ScopeChanges(u) \/ AddExpected(u) \/ CancelPenaltyFee(u)
      PROVE  UNCHANGED <<roll, record, badge>>
  BY <1>4 DEF ScopeChanges, AddExpected, CancelPenaltyFee
<1>5. ASSUME NEW u \in Attendees,
             \/ \E outcome \in {"present", "late"} :
                   Scan(u, outcome) \/ \E b \in Badges : ScanNfc(u, b, outcome)
             \/ \E mark \in Marks : MarkManually(u, mark)
      PROVE  roll = "open" /\ UNCHANGED <<roll, badge>>
  BY <1>5 DEF Scan, ScanNfc, ScanAllowed, MarkManually
<1>6. ASSUME NEW u \in Attendees,
             \/ \E mark \in Marks : UpdateRecord(u, mark.status)
             \/ SubmitJustification(u) \/ ApproveJustification(u) \/ RejectJustification(u)
      PROVE  /\ record[u] # NoRecord /\ UNCHANGED <<roll, badge>>
             /\ \A v \in Attendees \ {u} : record'[v] = record[v]
  <2>1. record[u] # NoRecord
    <3>1. NoRecord.status = "none" /\ NoRecord.review = "none"
      BY DEF NoRecord
    <3>2. QED
      BY <1>6, <3>1 DEF UpdateRecord, SubmitJustification, ApproveJustification,
                        RejectJustification
  <2>2. /\ UNCHANGED <<roll, badge>>
        /\ \E r : WriteRecord(u, r)
    BY <1>6 DEF UpdateRecord, SubmitJustification, ApproveJustification, RejectJustification
  <2>3. QED
    BY <1>0, <2>1, <2>2 DEF WriteRecord
<1>7. QED
  BY <1>1, <1>2, <1>3, <1>4, <1>5, <1>6 DEF AttendanceNext

\* A member is charged for what his record says, and has one badge at most.
THEOREM AttendanceSafe == AttendanceSpec => []AttendanceInv
<1>1. AttendanceInit /\ BadgesInit => AttendanceIInv
  <2>1. BadgesInit => /\ OneBadgePerMember
                      /\ badge \in [Badges -> [owner : Attendees \cup {NoMember},
                               status : {"none", "active", "revoked", "replaced"}]]
    BY DEF BadgesInit, OneBadgePerMember, ActiveBadges
  <2>2. QED
    BY <2>1, AttendanceInitInv
<1>2. AttendanceIInv /\ [AttendanceNext \/ BadgeNext]_attendanceVars => AttendanceIInv'
  BY AttendanceStepInv
<1>3. AttendanceIInv => AttendanceInv
  BY DEF AttendanceIInv
<1>4. QED
  BY <1>1, <1>2, <1>3, PTL DEF AttendanceSpec

----------------------------------------------------------------------------
(* Recruitment.  A conversion under way keeps its application accepted: its rows are *)
(* held while it inserts, and whoever deletes them sends it back.                    *)

ConversionsStand ==
    \A k \in Officers : officer[k] # Idle => application[officer[k].app] = "accepted"

ApplicationsHaveCampaigns ==
    \A a \in Applications : application[a] # "none" => campaign[a[1]] # "none"

RecruitmentShape ==
    /\ officer \in [Officers -> {Idle} \cup [stage : {"inserting", "retrying"}, app : Applications]]
    /\ reviewing \in [Reviewers ->
           {Idle} \cup [stage : {"read"}, app : Applications, given : Given \cup {NoReview},
                        average : SUBSET (Reviewers \X Scores)]]
    /\ finalScore \in [Applications -> SUBSET (Reviewers \X Scores)]

RecruitmentIInv ==
    RecruitmentInv /\ RecruitmentShape /\ ConversionsStand /\ ApplicationsHaveCampaigns

LEMMA RecruitmentRows ==
  ASSUME RecruitmentIInv
  PROVE  /\ campaign \in [Campaigns -> {"none", "open", "closed"}]
         /\ application \in [Applications -> DOMAIN Transitions]
         /\ converted \subseteq Applications
         /\ account \in [Emails -> {"none", "active", "inactive"}]
         /\ score \in [Applications -> [Reviewers -> Given \cup {NoReview}]]
         /\ \A k \in Officers : officer[k] # Idle =>
               /\ officer[k] \in [stage : {"inserting", "retrying"}, app : Applications]
               /\ officer[k].app \in Applications
         /\ \A a \in Applications : a[1] \in Campaigns /\ a[2] \in Emails /\ a = <<a[1], a[2]>>
BY DEF RecruitmentIInv, RecruitmentInv, RecruitmentTypeOK, RecruitmentShape, Applications

LEMMA StatusFacts ==
  /\ DOMAIN Transitions = {"none", "submitted", "under_review", "interview_scheduled",
                           "waiting_list", "accepted", "rejected", "cancelled"}
  /\ \A s \in {"none", "accepted", "rejected", "cancelled"} : Transitions[s] = {}
  /\ \A s \in DOMAIN Transitions : Transitions[s] \subseteq DOMAIN Transitions \ {"none"}
BY DEF Transitions

LEMMA HeldCampaign ==
  ASSUME RecruitmentIInv, NEW k \in Officers, officer[k].stage = "inserting"
  PROVE  /\ officer[k].app \in Applications /\ officer[k] # Idle
         /\ CampaignHeld(officer[k].app[1]) /\ Held(officer[k].app)
<1>1. officer[k] # Idle
  BY DEF Idle
<1>2. officer[k].app \in Applications /\ officer[k].app[2] \in Emails
      /\ officer[k].app = <<officer[k].app[1], officer[k].app[2]>>
  BY <1>1, RecruitmentRows
<1>3. Held(officer[k].app)
  BY DEF Held
<1>4. CampaignHeld(officer[k].app[1])
  BY <1>2, <1>3 DEF CampaignHeld
<1>5. QED
  BY <1>1, <1>2, <1>3, <1>4

\* Rows that are deleted take their reviews, and what was under way on them, along.
LEMMA EraseRowsInv ==
  ASSUME RecruitmentIInv, NEW gone \in SUBSET Applications, EraseRows(gone),
         gone \cap converted = {},
         UNCHANGED <<converted, account>>,
         campaign' \in [Campaigns -> {"none", "open", "closed"}],
         \A a \in Applications : campaign'[a[1]] = campaign[a[1]] \/ a \in gone
  PROVE  RecruitmentIInv'
<1>1. /\ application' = [a \in Applications |-> IF a \in gone THEN "none" ELSE application[a]]
      /\ score' = [a \in Applications |->
             IF a \in gone THEN [r \in Reviewers |-> NoReview] ELSE score[a]]
      /\ finalScore' = [a \in Applications |-> IF a \in gone THEN {} ELSE finalScore[a]]
      /\ officer' = [k \in Officers |->
             IF officer[k] # Idle /\ officer[k].app \in gone THEN Idle ELSE officer[k]]
      /\ reviewing' = [r \in Reviewers |->
             IF reviewing[r] # Idle /\ reviewing[r].app \in gone THEN Idle ELSE reviewing[r]]
  BY DEF EraseRows
<1>2. RecruitmentTypeOK'
  <2>1. \A a \in Applications : finalScore'[a] \subseteq Reviewers \X Scores
    BY <1>1 DEF RecruitmentIInv, RecruitmentInv, RecruitmentTypeOK
  <2>2. score' \in [Applications -> [Reviewers -> Given \cup {NoReview}]]
    BY <1>1, RecruitmentRows
  <2>3. application' \in [Applications -> DOMAIN Transitions]
    BY <1>1, RecruitmentRows, StatusFacts
  <2>4. QED
    BY <2>1, <2>2, <2>3, RecruitmentRows DEF RecruitmentTypeOK
<1>3. RecruitmentShape'
  <2>1. finalScore' \in [Applications -> SUBSET (Reviewers \X Scores)]
    BY <1>1 DEF RecruitmentIInv, RecruitmentShape
  <2>2. officer' \in [Officers -> {Idle} \cup [stage : {"inserting", "retrying"}, app : Applications]]
    BY <1>1 DEF RecruitmentIInv, RecruitmentShape
  <2>3. reviewing' \in [Reviewers ->
           {Idle} \cup [stage : {"read"}, app : Applications, given : Given \cup {NoReview},
                        average : SUBSET (Reviewers \X Scores)]]
    BY <1>1 DEF RecruitmentIInv, RecruitmentShape
  <2>4. QED
    BY <2>1, <2>2, <2>3 DEF RecruitmentShape
<1>4. ConversionsStand'
  BY <1>1, RecruitmentRows DEF RecruitmentIInv, ConversionsStand
<1>5. ApplicationsHaveCampaigns'
  BY <1>1 DEF RecruitmentIInv, ApplicationsHaveCampaigns
<1>6. ConvertedWasAccepted'
  BY <1>1, RecruitmentRows DEF RecruitmentIInv, RecruitmentInv, ConvertedWasAccepted
<1>7. QED
  BY <1>2, <1>3, <1>4, <1>5, <1>6 DEF RecruitmentIInv, RecruitmentInv

\* Campaigns, applications and accounts change; the reviews do not.
LEMMA ApplicationsMoveInv ==
  ASSUME RecruitmentIInv, UNCHANGED reviewVars, UNCHANGED officer,
         campaign' \in [Campaigns -> {"none", "open", "closed"}],
         application' \in [Applications -> DOMAIN Transitions],
         account' \in [Emails -> {"none", "active", "inactive"}],
         converted' \subseteq Applications,
         \A c \in Campaigns : campaign[c] # "none" => campaign'[c] # "none",
         \A e \in Emails : account[e] # "none" => account'[e] # "none",
         \A a \in Applications : application[a] = "accepted" => application'[a] = "accepted",
         \A a \in Applications :
            application[a] = "none" /\ application'[a] # "none" => campaign[a[1]] # "none",
         \A a \in converted' \ converted :
            application[a] = "accepted" /\ account'[a[2]] # "none"
  PROVE  RecruitmentIInv'
<1>1. RecruitmentTypeOK' /\ RecruitmentShape'
  BY DEF RecruitmentIInv, RecruitmentInv, RecruitmentTypeOK, RecruitmentShape, reviewVars
<1>2. ConversionsStand'
  BY RecruitmentRows DEF RecruitmentIInv, ConversionsStand
<1>3. ApplicationsHaveCampaigns'
  BY RecruitmentRows DEF RecruitmentIInv, ApplicationsHaveCampaigns
<1>4. ConvertedWasAccepted'
  <2>1. \A a \in Applications : application[a] = "accepted" => campaign[a[1]] # "none"
    BY DEF RecruitmentIInv, ApplicationsHaveCampaigns
  <2>2. QED
    BY <2>1, RecruitmentRows DEF RecruitmentIInv, RecruitmentInv, ConvertedWasAccepted
<1>5. QED
  BY <1>1, <1>2, <1>3, <1>4 DEF RecruitmentIInv, RecruitmentInv

\* A conversion under way moves.
LEMMA OfficerMovesInv ==
  ASSUME RecruitmentIInv, UNCHANGED reviewVars, UNCHANGED <<campaign, application>>,
         officer' \in [Officers -> {Idle} \cup [stage : {"inserting", "retrying"}, app : Applications]],
         account' \in [Emails -> {"none", "active", "inactive"}],
         converted' \subseteq Applications,
         \A k \in Officers : officer'[k] # Idle => application[officer'[k].app] = "accepted",
         \A e \in Emails : account[e] # "none" => account'[e] # "none",
         \A a \in converted' \ converted :
            application[a] = "accepted" /\ account'[a[2]] # "none"
  PROVE  RecruitmentIInv'
<1>1. RecruitmentTypeOK' /\ RecruitmentShape'
  BY DEF RecruitmentIInv, RecruitmentInv, RecruitmentTypeOK, RecruitmentShape, reviewVars
<1>2. ConversionsStand' /\ ApplicationsHaveCampaigns'
  BY DEF RecruitmentIInv, ConversionsStand, ApplicationsHaveCampaigns
<1>3. ConvertedWasAccepted'
  <2>1. \A a \in Applications : application[a] = "accepted" => campaign[a[1]] # "none"
    BY DEF RecruitmentIInv, ApplicationsHaveCampaigns
  <2>2. QED
    BY <2>1, RecruitmentRows DEF RecruitmentIInv, RecruitmentInv, ConvertedWasAccepted
<1>4. QED
  BY <1>1, <1>2, <1>3 DEF RecruitmentIInv, RecruitmentInv

LEMMA ConversionStepInv ==
  ASSUME RecruitmentIInv, ConversionNext
  PROVE  RecruitmentIInv'
<1>0. officer \in [Officers -> {Idle} \cup [stage : {"inserting", "retrying"}, app : Applications]]
  BY DEF RecruitmentIInv, RecruitmentShape
<1>1. ASSUME NEW c \in Campaigns, DeleteCampaign(c) PROVE RecruitmentIInv'
  <2> DEFINE gone == {a \in Applications : a[1] = c}
  <2>1. /\ converted \cap gone = {} /\ EraseRows(gone)
        /\ campaign' = [campaign EXCEPT ![c] = "none"]
        /\ UNCHANGED <<converted, account>>
    BY <1>1 DEF DeleteCampaign
  <2>2. campaign' \in [Campaigns -> {"none", "open", "closed"}]
    BY <2>1, RecruitmentRows
  <2>3. \A a \in Applications : campaign'[a[1]] = campaign[a[1]] \/ a \in gone
    BY <2>1, RecruitmentRows
  <2> HIDE DEF gone
  <2>4. gone \subseteq Applications
    BY DEF gone
  <2>5. QED
    BY <2>1, <2>2, <2>3, <2>4, EraseRowsInv
<1>2. ASSUME NEW c \in Campaigns, NEW s \in {"open", "closed"},
             CreateCampaign(c, s) \/ SetCampaign(c, s)
      PROVE  RecruitmentIInv'
  <2>1. campaign' = [campaign EXCEPT ![c] = s]
        /\ UNCHANGED <<application, converted, account, officer, reviewVars>>
    BY <1>2 DEF CreateCampaign, SetCampaign
  <2>2. QED
    BY <2>1, RecruitmentRows, ApplicationsMoveInv
<1>3. ASSUME NEW a \in Applications, Submit(a) PROVE RecruitmentIInv'
  <2>1. /\ application' = [application EXCEPT ![a] = "submitted"]
        /\ application[a] = "none" /\ campaign[a[1]] = "open"
        /\ UNCHANGED <<campaign, converted, account, officer, reviewVars>>
    BY <1>3 DEF Submit, Exists
  <2>2. application' \in [Applications -> DOMAIN Transitions]
    BY <2>1, RecruitmentRows, StatusFacts
  <2>3. QED
    BY <2>1, <2>2, RecruitmentRows, ApplicationsMoveInv
<1>4. ASSUME NEW a \in Applications, DeleteApplication(a) PROVE RecruitmentIInv'
  <2>1. {a} \in SUBSET Applications /\ {a} \cap converted = {}
    BY <1>4 DEF DeleteApplication
  <2>2. QED
    BY <1>4, <2>1, RecruitmentRows, EraseRowsInv DEF DeleteApplication
<1>5. ASSUME NEW a \in Applications, NEW s \in DOMAIN Transitions, ChangeStatus(a, s)
      PROVE  RecruitmentIInv'
  <2>1. /\ application' = [application EXCEPT ![a] = s]
        /\ s \in Transitions[application[a]]
        /\ UNCHANGED <<campaign, converted, account, officer, reviewVars>>
    BY <1>5 DEF ChangeStatus, CanMove
  <2>2. application[a] \in DOMAIN Transitions
    BY RecruitmentRows
  <2>3. application[a] \notin {"none", "accepted"} /\ application' \in [Applications -> DOMAIN Transitions]
    BY <2>1, <2>2, RecruitmentRows, StatusFacts
  <2>4. QED
    BY <2>1, <2>3, RecruitmentRows, ApplicationsMoveInv
<1>6. ASSUME NEW a \in Applications, NEW k \in Officers, ConvertLink(k, a)
      PROVE  RecruitmentIInv'
  <2>1. /\ converted' = converted \cup {a} /\ application[a] = "accepted"
        /\ account[a[2]] = "active"
        /\ UNCHANGED <<campaign, application, account, officer, reviewVars>>
    BY <1>6 DEF ConvertLink, Link, Convertible, Operational
  <2>2. QED
    BY <2>1, RecruitmentRows, ApplicationsMoveInv
<1>7. ASSUME NEW a \in Applications, NEW k \in Officers, ConvertBegin(k, a)
      PROVE  RecruitmentIInv'
  <2>1. /\ officer' = [officer EXCEPT ![k] = [stage |-> "inserting", app |-> a]]
        /\ application[a] = "accepted"
        /\ UNCHANGED <<campaign, application, converted, account, reviewVars>>
    BY <1>7 DEF ConvertBegin, Convertible
  <2>2. \A x \in Officers : officer'[x] # Idle => application[officer'[x].app] = "accepted"
    BY <1>0, <2>1 DEF RecruitmentIInv, ConversionsStand
  <2>3. QED
    BY <1>0, <2>1, <2>2, RecruitmentRows, OfficerMovesInv
<1>8. ASSUME NEW k \in Officers, ConvertInsert(k) PROVE RecruitmentIInv'
  <2> DEFINE a == officer[k].app
  <2>1. officer[k] # Idle /\ a \in Applications
        /\ officer[k] \in [stage : {"inserting", "retrying"}, app : Applications]
        /\ application[a] = "accepted" /\ a[2] \in Emails
    BY <1>8, HeldCampaign, RecruitmentRows DEF ConvertInsert, RecruitmentIInv, ConversionsStand
  <2>2. UNCHANGED <<campaign, application, reviewVars>>
    BY <1>8 DEF ConvertInsert
  <2>3. CASE /\ account' = [account EXCEPT ![a[2]] = "active"]
             /\ converted' = converted \cup {a}
             /\ officer' = [officer EXCEPT ![k] = Idle]
    <3>1. \A x \in Officers : officer'[x] # Idle => application[officer'[x].app] = "accepted"
      BY <1>0, <2>3 DEF RecruitmentIInv, ConversionsStand
    <3>2. QED
      BY <1>0, <2>1, <2>2, <2>3, <3>1, RecruitmentRows, OfficerMovesInv
  <2>4. CASE /\ officer' = [officer EXCEPT ![k].stage = "retrying"]
             /\ UNCHANGED <<account, converted>>
    <3>1. officer'[k] \in [stage : {"inserting", "retrying"}, app : Applications]
          /\ officer'[k].app = a
          /\ \A x \in Officers \ {k} : officer'[x] = officer[x]
      BY <1>0, <2>1, <2>4
    <3>2. \A x \in Officers : officer'[x] # Idle => application[officer'[x].app] = "accepted"
      BY <2>1, <3>1 DEF RecruitmentIInv, ConversionsStand
    <3>3. officer' \in [Officers -> {Idle} \cup [stage : {"inserting", "retrying"}, app : Applications]]
      BY <1>0, <2>4, <3>1
    <3>4. QED
      BY <2>2, <2>4, <3>2, <3>3, RecruitmentRows, OfficerMovesInv
  <2>5. QED
    BY <1>8, <2>3, <2>4 DEF ConvertInsert, Link
<1>9. ASSUME NEW k \in Officers, ConvertRetry(k) PROVE RecruitmentIInv'
  <2> DEFINE a == officer[k].app
  <2>1. officer[k] # Idle
    BY <1>9 DEF ConvertRetry, Idle
  <2>2. a \in Applications /\ application[a] = "accepted"
    BY <2>1, RecruitmentRows DEF RecruitmentIInv, ConversionsStand
  <2>3. /\ converted' = converted \/ (converted' = converted \cup {a} /\ account[a[2]] = "active")
        /\ officer' = [officer EXCEPT ![k] = Idle]
        /\ UNCHANGED <<campaign, application, account, reviewVars>>
    BY <1>9 DEF ConvertRetry, CanLinkNow, Operational, Link
  <2>4. \A x \in Officers : officer'[x] # Idle => application[officer'[x].app] = "accepted"
    BY <1>0, <2>3 DEF RecruitmentIInv, ConversionsStand
  <2>5. QED
    BY <1>0, <2>2, <2>3, <2>4, RecruitmentRows, OfficerMovesInv
<1>10. ASSUME NEW e \in Emails, NEW s \in {"active", "inactive"}, AccountChanges(e, s)
       PROVE  RecruitmentIInv'
  <2>1. account' = [account EXCEPT ![e] = s]
        /\ UNCHANGED <<campaign, application, converted, officer, reviewVars>>
    BY <1>10 DEF AccountChanges
  <2>2. QED
    BY <2>1, RecruitmentRows, ApplicationsMoveInv
<1>11. QED
  BY <1>1, <1>2, <1>3, <1>4, <1>5, <1>6, <1>7, <1>8, <1>9, <1>10 DEF ConversionNext

LEMMA CountedType ==
  ASSUME NEW a, NEW scores
  PROVE  Counted(a, scores) \in SUBSET (Reviewers \X Scores)
BY DEF Counted

\* A review that is about to be written: nothing else changes.
LEMMA ReviewBeginsInv ==
  ASSUME RecruitmentIInv, NEW r \in Reviewers, NEW a \in Applications,
         NEW s \in Given \cup {NoReview}, NEW average \in SUBSET (Reviewers \X Scores),
         reviewing' = [reviewing EXCEPT ![r] =
             [stage |-> "read", app |-> a, given |-> s, average |-> average]],
         UNCHANGED <<campaign, application, converted, account, officer, score, finalScore>>
  PROVE  RecruitmentIInv'
<1>1. [stage |-> "read", app |-> a, given |-> s, average |-> average]
        \in [stage : {"read"}, app : Applications, given : Given \cup {NoReview},
             average : SUBSET (Reviewers \X Scores)]
  OBVIOUS
<1>2. RecruitmentShape'
  BY <1>1 DEF RecruitmentIInv, RecruitmentShape
<1>3. RecruitmentTypeOK' /\ ConvertedWasAccepted' /\ ConversionsStand' /\ ApplicationsHaveCampaigns'
  BY DEF RecruitmentIInv, RecruitmentInv, RecruitmentTypeOK, ConvertedWasAccepted,
         ConversionsStand, ApplicationsHaveCampaigns
<1>4. QED
  BY <1>2, <1>3 DEF RecruitmentIInv, RecruitmentInv

LEMMA ReviewCommitInv ==
  ASSUME RecruitmentIInv, NEW r \in Reviewers, ReviewCommit(r)
  PROVE  RecruitmentIInv'
<1> DEFINE w == reviewing[r]
<1>1. w \in [stage : {"read"}, app : Applications, given : Given \cup {NoReview},
             average : SUBSET (Reviewers \X Scores)]
  BY DEF ReviewCommit, RecruitmentIInv, RecruitmentShape, Idle
<1>2. w.app \in Applications /\ w.given \in Given \cup {NoReview}
      /\ w.average \in SUBSET (Reviewers \X Scores)
  BY <1>1
<1>3. /\ reviewing' = [reviewing EXCEPT ![r] = Idle]
      /\ score' = [score EXCEPT ![w.app] = [score[w.app] EXCEPT ![r] = w.given]]
      /\ finalScore' = [finalScore EXCEPT ![w.app] = w.average]
      /\ UNCHANGED <<campaign, application, converted, account, officer>>
  BY DEF ReviewCommit
<1> HIDE DEF w
<1>4. RecruitmentShape'
  BY <1>2, <1>3 DEF RecruitmentIInv, RecruitmentShape
<1>5. RecruitmentTypeOK'
  <2>1. score' \in [Applications -> [Reviewers -> Given \cup {NoReview}]]
    <3>1. [score[w.app] EXCEPT ![r] = w.given] \in [Reviewers -> Given \cup {NoReview}]
      BY <1>2, RecruitmentRows
    <3>2. QED
      BY <1>3, <3>1, RecruitmentRows
  <2>2. \A a \in Applications : finalScore'[a] \subseteq Reviewers \X Scores
    BY <1>4 DEF RecruitmentShape
  <2>3. QED
    BY <1>3, <2>1, <2>2, RecruitmentRows DEF RecruitmentTypeOK
<1>6. ConvertedWasAccepted' /\ ConversionsStand' /\ ApplicationsHaveCampaigns'
  BY <1>3 DEF RecruitmentIInv, RecruitmentInv, ConvertedWasAccepted, ConversionsStand,
              ApplicationsHaveCampaigns
<1>7. QED
  BY <1>4, <1>5, <1>6 DEF RecruitmentIInv, RecruitmentInv

LEMMA RecruitmentStepInv ==
  ASSUME RecruitmentIInv, [ConversionNext \/ ReviewNext]_recruitmentVars
  PROVE  RecruitmentIInv'
<1>1. ASSUME NEW r \in Reviewers, NEW a \in Applications, DeleteReviewBegin(r, a)
      PROVE  RecruitmentIInv'
  BY <1>1, CountedType, ReviewBeginsInv DEF DeleteReviewBegin
<1>2. ASSUME NEW r \in Reviewers, NEW a \in Applications, NEW s \in Given,
             ReviewBegin(r, a, s) \/ EditReviewBegin(r, a, s)
      PROVE  RecruitmentIInv'
  BY <1>2, CountedType, ReviewBeginsInv DEF ReviewBegin, EditReviewBegin
<1>3. CASE ReviewNext
  BY <1>1, <1>2, <1>3, ReviewCommitInv DEF ReviewNext
<1>4. CASE UNCHANGED recruitmentVars
  BY <1>4 DEF recruitmentVars, RecruitmentIInv, RecruitmentInv, RecruitmentTypeOK,
     RecruitmentShape, ConvertedWasAccepted, ConversionsStand, ApplicationsHaveCampaigns
<1>5. QED
  BY <1>3, <1>4, ConversionStepInv

LEMMA RecruitmentInitInv == RecruitmentInit => RecruitmentIInv
<1>1. ASSUME RecruitmentInit PROVE RecruitmentIInv
  <2>1. RecruitmentTypeOK /\ RecruitmentShape
    BY <1>1, StatusFacts DEF RecruitmentInit, RecruitmentTypeOK, RecruitmentShape
  <2>2. ConvertedWasAccepted /\ ConversionsStand /\ ApplicationsHaveCampaigns
    BY <1>1 DEF RecruitmentInit, ConvertedWasAccepted, ConversionsStand, ApplicationsHaveCampaigns
  <2>3. QED
    BY <2>1, <2>2 DEF RecruitmentIInv, RecruitmentInv
<1>2. QED
  BY <1>1

\* What DecisionsAreFinal says of a step.
DecidedForGood ==
    /\ converted \subseteq converted'
    /\ \A a \in converted' \ converted : account'[a[2]] = "active"
    /\ \A a \in Applications :
          application[a] \in {"accepted", "rejected", "cancelled"} =>
              application'[a] \in {application[a], "none"}

LEMMA DecisionStep ==
  ASSUME RecruitmentIInv, ConversionNext \/ ReviewNext
  PROVE  DecidedForGood
<1> USE RecruitmentRows
<1>1. CASE ReviewNext
  BY <1>1 DEF ReviewNext, ReviewCommit, DeleteReviewBegin, ReviewBegin, EditReviewBegin,
              DecidedForGood
<1>2. ASSUME NEW c \in Campaigns, DeleteCampaign(c) PROVE DecidedForGood
  BY <1>2 DEF DeleteCampaign, EraseRows, DecidedForGood
<1>3. ASSUME NEW c \in Campaigns, NEW s \in {"open", "closed"},
             CreateCampaign(c, s) \/ SetCampaign(c, s)
      PROVE  DecidedForGood
  BY <1>3 DEF CreateCampaign, SetCampaign, DecidedForGood
<1>4. ASSUME NEW a \in Applications, Submit(a) \/ DeleteApplication(a)
      PROVE  DecidedForGood
  BY <1>4 DEF Submit, Exists, DeleteApplication, EraseRows, DecidedForGood
<1>5. ASSUME NEW a \in Applications, NEW s \in DOMAIN Transitions, ChangeStatus(a, s)
      PROVE  DecidedForGood
  <2>1. application[a] \notin {"accepted", "rejected", "cancelled"}
    BY <1>5, StatusFacts DEF ChangeStatus, CanMove
  <2>2. QED
    BY <1>5, <2>1 DEF ChangeStatus, DecidedForGood
<1>6. ASSUME NEW a \in Applications, NEW k \in Officers, ConvertLink(k, a) \/ ConvertBegin(k, a)
      PROVE  DecidedForGood
  BY <1>6 DEF ConvertLink, ConvertBegin, Link, Operational, DecidedForGood
<1>7. ASSUME NEW k \in Officers, ConvertInsert(k) PROVE DecidedForGood
  <2>1. officer[k].app \in Applications
    BY <1>7, HeldCampaign DEF ConvertInsert
  <2>2. QED
    BY <1>7, <2>1 DEF ConvertInsert, Link, DecidedForGood
<1>8. ASSUME NEW k \in Officers, ConvertRetry(k) PROVE DecidedForGood
  BY <1>8 DEF ConvertRetry, CanLinkNow, Operational, Link, DecidedForGood
<1>9. ASSUME NEW e \in Emails, NEW s \in {"active", "inactive"}, AccountChanges(e, s)
      PROVE  DecidedForGood
  BY <1>9 DEF AccountChanges, DecidedForGood
<1>10. QED
  BY <1>1, <1>2, <1>3, <1>4, <1>5, <1>6, <1>7, <1>8, <1>9 DEF ConversionNext

\* A converted application was accepted, its campaign exists and its email has an account.
THEOREM RecruitmentSafe == RecruitmentSpec => []RecruitmentInv
<1>1. RecruitmentIInv /\ [ConversionNext \/ ReviewNext]_recruitmentVars => RecruitmentIInv'
  BY RecruitmentStepInv
<1>2. RecruitmentIInv => RecruitmentInv
  BY DEF RecruitmentIInv
<1>3. QED
  BY <1>1, <1>2, RecruitmentInitInv, PTL DEF RecruitmentSpec

\* A decision is not taken back, and a conversion links an operational account for good.
THEOREM RecruitmentDecisions == RecruitmentSpec => DecisionsAreFinal
<1>1. RecruitmentIInv /\ [ConversionNext \/ ReviewNext]_recruitmentVars => RecruitmentIInv'
  BY RecruitmentStepInv
<1>2. RecruitmentIInv /\ [ConversionNext \/ ReviewNext]_recruitmentVars =>
        [/\ converted \subseteq converted'
         /\ \A a \in converted' \ converted : account'[a[2]] = "active"
         /\ \A a \in Applications :
               application[a] \in {"accepted", "rejected", "cancelled"} =>
                   application'[a] \in {application[a], "none"}]_recruitmentVars
  BY DecisionStep DEF DecidedForGood
<1>3. QED
  BY <1>1, <1>2, RecruitmentInitInv, PTL DEF RecruitmentSpec, DecisionsAreFinal

----------------------------------------------------------------------------
(* Tasks. *)

TaskRows == [status : TaskStatuses \cup {"none"}, required : BOOLEAN, proof : {"none", "given"},
             completed : BOOLEAN, validatedBy : Workers \cup {Nobody},
             creator : Workers \cup {Nobody}, checklist : {"none", "open", "done"}]

\* A row whose dates follow its status.
Dated(t) == /\ t.completed <=> t.status \in {"termine", "valide"}
            /\ t.validatedBy # Nobody <=> t.status = "valide"

TasksIInv == task \in TaskRows /\ Dated(task) /\ assignees \subseteq Workers

LEMMA TasksIInvImplies == TasksIInv => TasksInv
BY DEF TasksIInv, TaskRows, Dated, TasksInv, TasksTypeOK, DatesFollowStatus

LEMMA NoTaskRow == NoTask \in TaskRows /\ Dated(NoTask) /\ NoTask.status = "none"
BY DEF NoTask, TaskRows, Dated

\* The moves of the table: from where, and never from a final status.
LEMMA MoveFacts ==
  ASSUME NEW t \in TaskRows, NEW manages \in BOOLEAN, NEW s, s \in AllowedMoves(t, manages),
         t.status # "none"
  PROVE  /\ s \in TaskStatuses /\ t.status \notin Terminal
         /\ s = "valide" => t.status = "termine" /\ manages
         /\ s = "annule" => manages
<1>1. t.status \in TaskStatuses
  BY DEF TaskRows
<1>2. QED
  BY <1>1 DEF AllowedMoves, TaskTransitions, TaskStatuses, Terminal

\* The row after a move.
LEMMA MovedRow ==
  ASSUME NEW t \in TaskRows, Dated(t), NEW u \in Workers, NEW manages \in BOOLEAN,
         NEW s, s \in AllowedMoves(t, manages), t.status # "none"
  PROVE  /\ Moved(t, s, u) \in TaskRows /\ Dated(Moved(t, s, u))
         /\ Moved(t, s, u).status = s /\ Moved(t, s, u).required = t.required
         /\ Moved(t, s, u).proof = t.proof
         /\ s = "valide" => Moved(t, s, u).validatedBy = u
<1>1. /\ s \in TaskStatuses /\ t.status \notin Terminal
      /\ s = "valide" => t.status = "termine" /\ manages
  BY MoveFacts
<1>2. CASE s = "valide"
  BY <1>1, <1>2, NobodyAssumption DEF Moved, TaskRows, Dated, TaskStatuses
<1>3. CASE s # "valide"
  BY <1>1, <1>3, NobodyAssumption DEF Moved, TaskRows, Dated, TaskStatuses
<1>4. QED
  BY <1>2, <1>3

\* What WorkIsCheckedOnce says of a step.
CheckedOnce ==
    /\ task.status \in Terminal /\ task' # NoTask =>
          /\ task'.status = task.status /\ task'.proof = task.proof
          /\ task'.validatedBy = task.validatedBy /\ assignees' \subseteq assignees
    /\ task'.status = "termine" /\ task.status # "termine" =>
          ~task'.required \/ task'.proof = "given"
    /\ task'.status = "valide" /\ task.status # "valide" =>
          task.status = "termine" /\ Manages(task'.validatedBy)
    /\ task'.status = "annule" /\ task.status # "annule" =>
          \E u \in operational : Manages(u)
    /\ assignees' \ assignees \subseteq operational

\* A row that is moved, after the proof was changed (t) or not.
LEMMA MoveStep ==
  ASSUME TasksIInv, NEW t \in TaskRows, Dated(t), t.status = task.status,
         task.status # "none",
         NEW u \in Workers, u \in operational, NEW manages \in BOOLEAN, manages => Manages(u),
         NEW s, CanMoveTask(t, s, manages),
         task' = Moved(t, s, u), UNCHANGED assignees
  PROVE  TasksIInv' /\ CheckedOnce
<1>1. /\ s \in TaskStatuses /\ task.status \notin Terminal
      /\ s = "valide" => task.status = "termine" /\ manages
      /\ s = "annule" => manages
  BY MoveFacts DEF CanMoveTask
<1>2. /\ task' \in TaskRows /\ Dated(task') /\ task'.status = s
      /\ task'.required = t.required /\ task'.proof = t.proof
      /\ s = "valide" => task'.validatedBy = u
  BY MovedRow DEF CanMoveTask
<1>3. TasksIInv'
  BY <1>2 DEF TasksIInv, Dated, TaskRows
<1>4. CheckedOnce
  BY <1>1, <1>2 DEF CheckedOnce, CanMoveTask
<1>5. QED
  BY <1>3, <1>4

LEMMA TasksStep ==
  ASSUME TasksIInv, TasksNext
  PROVE  TasksIInv' /\ CheckedOnce
<1>0. task \in TaskRows /\ Dated(task) /\ assignees \subseteq Workers
  BY DEF TasksIInv
<1>1. ASSUME NEW u \in Workers, NEW s \in TaskStatuses, ChangeTaskStatus(u, s)
      PROVE  TasksIInv' /\ CheckedOnce
  <2>1. Manages(u) \in BOOLEAN
    BY DEF Manages
  <2>2. QED
    BY <1>0, <1>1, <2>1, MoveStep DEF ChangeTaskStatus, TaskExists
<1>2. ASSUME NEW u \in Workers, NEW s \in TaskStatuses, NEW required \in BOOLEAN,
             NEW proof \in {"none", "given"}, UpdateTask(u, required, proof, s)
      PROVE  TasksIInv' /\ CheckedOnce
  <2> DEFINE t == [task EXCEPT !.required = required, !.proof = proof]
  <2>1. /\ t \in TaskRows /\ Dated(t) /\ t.status = task.status
        /\ t.validatedBy = task.validatedBy /\ t.proof = proof
    BY <1>0 DEF TaskRows, Dated
  <2>2. CASE s = task.status
    <3>1. task' = t /\ UNCHANGED assignees /\ (task.status \in Terminal => proof = task.proof)
      BY <1>2, <2>2 DEF UpdateTask
    <3> HIDE DEF t
    <3>2. TasksIInv'
      BY <1>0, <2>1, <3>1 DEF TasksIInv, Dated, TaskRows
    <3>3. CheckedOnce
      BY <2>1, <3>1 DEF CheckedOnce
    <3>4. QED
      BY <3>2, <3>3
  <2>3. CASE s # task.status
    <3>1. /\ CanMoveTask(t, s, TRUE) /\ task' = Moved(t, s, u) /\ UNCHANGED assignees
          /\ u \in operational /\ Manages(u) /\ task.status # "none"
      BY <1>2, <2>3 DEF UpdateTask, TaskExists
    <3> HIDE DEF t
    <3>2. QED
      BY <2>1, <3>1, MoveStep
  <2>4. QED
    BY <2>2, <2>3
<1>3. ASSUME NEW u \in Workers, SubmitProof(u) PROVE TasksIInv' /\ CheckedOnce
  <2>1. /\ task' = [task EXCEPT !.proof = "given"] /\ UNCHANGED assignees
        /\ task.status \notin Terminal
    BY <1>3 DEF SubmitProof
  <2>2. task' \in TaskRows /\ Dated(task') /\ task'.status = task.status
    BY <1>0, <2>1 DEF TaskRows, Dated
  <2>3. QED
    BY <1>0, <2>1, <2>2 DEF TasksIInv, CheckedOnce, Dated, TaskRows
<1>4. ASSUME NEW u \in Workers, DeleteTask(u) PROVE TasksIInv' /\ CheckedOnce
  BY <1>4, NoTaskRow DEF DeleteTask, TasksIInv, CheckedOnce, Dated, TaskRows
<1>5. ASSUME NEW u \in Workers, PeopleChange(u) PROVE TasksIInv' /\ CheckedOnce
  <2>1. UNCHANGED <<task, assignees>>
    BY <1>5 DEF PeopleChange
  <2>2. QED
    BY <1>0, <2>1 DEF TasksIInv, CheckedOnce, Dated, TaskRows
<1>6. ASSUME NEW u \in Workers, NEW c \in {"none", "open", "done"}, EditChecklist(u, c)
      PROVE  TasksIInv' /\ CheckedOnce
  <2>1. task' = [task EXCEPT !.checklist = c] /\ UNCHANGED assignees
    BY <1>6 DEF EditChecklist
  <2>2. /\ task' \in TaskRows /\ Dated(task') /\ task'.status = task.status
        /\ task'.proof = task.proof /\ task'.validatedBy = task.validatedBy
    BY <1>0, <2>1 DEF TaskRows, Dated
  <2>3. QED
    BY <1>0, <2>1, <2>2 DEF TasksIInv, CheckedOnce, Dated, TaskRows
<1>7. ASSUME NEW u \in Workers, NEW w \in Workers, RemoveAssignee(u, w)
      PROVE  TasksIInv' /\ CheckedOnce
  BY <1>0, <1>7 DEF RemoveAssignee, TasksIInv, CheckedOnce, Dated, TaskRows
<1>8. ASSUME NEW u \in Workers, NEW targets \in SUBSET Workers, AddAssignees(u, targets)
      PROVE  TasksIInv' /\ CheckedOnce
  BY <1>0, <1>8 DEF AddAssignees, CanAssign, TasksIInv, CheckedOnce, Dated, TaskRows
<1>9. ASSUME NEW u \in Workers, NEW targets \in SUBSET Workers, NEW required \in BOOLEAN,
             CreateTask(u, targets, required)
      PROVE  TasksIInv' /\ CheckedOnce
  <2>1. /\ task' = [NoTask EXCEPT !.status = "a_faire", !.required = required, !.creator = u]
        /\ assignees' = targets /\ targets \subseteq operational /\ task.status = "none"
    BY <1>9 DEF CreateTask, CanAssign, TaskExists
  <2>2. task' \in TaskRows /\ Dated(task') /\ task'.status = "a_faire"
    BY <2>1 DEF NoTask, TaskRows, Dated, TaskStatuses
  <2>3. QED
    BY <2>1, <2>2 DEF TasksIInv, CheckedOnce, Dated, TaskRows, Terminal
<1>10. QED
  BY <1>1, <1>2, <1>3, <1>4, <1>5, <1>6, <1>7, <1>8, <1>9 DEF TasksNext

LEMMA TasksInitInv == TasksInit => TasksIInv
BY NoTaskRow DEF TasksInit, TasksIInv

LEMMA TasksStepInv == TasksIInv /\ [TasksNext]_taskVars => TasksIInv'
BY TasksStep DEF taskVars, TasksIInv, Dated, TaskRows

\* The completion and the validator of a task agree with its status.
THEOREM TasksSafe == TasksSpec => []TasksInv
BY TasksInitInv, TasksStepInv, TasksIInvImplies, PTL DEF TasksSpec

\* Finished work has its proof, is validated by who manages the task, and is final.
THEOREM TasksCheckedOnce == TasksSpec => WorkIsCheckedOnce
<1>1. TasksIInv /\ [TasksNext]_taskVars =>
        [/\ task.status \in Terminal /\ task' # NoTask =>
              /\ task'.status = task.status /\ task'.proof = task.proof
              /\ task'.validatedBy = task.validatedBy /\ assignees' \subseteq assignees
         /\ task'.status = "termine" /\ task.status # "termine" =>
              ~task'.required \/ task'.proof = "given"
         /\ task'.status = "valide" /\ task.status # "valide" =>
              task.status = "termine" /\ Manages(task'.validatedBy)
         /\ task'.status = "annule" /\ task.status # "annule" =>
              \E u \in operational : Manages(u)
         /\ assignees' \ assignees \subseteq operational]_taskVars
  BY TasksStep DEF CheckedOnce
<1>2. QED
  BY <1>1, TasksInitInv, TasksStepInv, PTL DEF TasksSpec, WorkIsCheckedOnce

----------------------------------------------------------------------------
(* Events.  The registration that holds the row is the only one, and the room it saw *)
(* is still there when it commits: places are only given up meanwhile.               *)

RoomWasSeen ==
    /\ IsFiniteSet(participants)
    /\ \A u, v \in registering : u = v
    /\ registering # {} => HasRoom

EventsIInv == EventsInv /\ RoomWasSeen

\* What RegistrationWithinCapacity says of a step.
WithinCapacity ==
    \A u \in Guests : u \in participants' \ participants /\ event.capacity # Unlimited
        => Cardinality(participants') <= event.capacity

LEMMA CapacityType ==
  ASSUME EventsTypeOK
  PROVE  event.capacity \in Nat /\ event.exists \in BOOLEAN /\ event.started \in BOOLEAN
<1>1. Capacities \cup {Unlimited} \subseteq Nat
  BY CapacitiesAssumption DEF Unlimited
<1>2. CASE event \in EventValues
  BY <1>1, <1>2 DEF EventValues
<1>3. CASE event = NoEvent
  BY <1>3 DEF NoEvent, Unlimited
<1>4. QED
  BY <1>2, <1>3 DEF EventsTypeOK

LEMMA EventsStep ==
  ASSUME EventsIInv, EventsNext
  PROVE  EventsIInv' /\ WithinCapacity
<1> USE DEF EventsIInv, EventsInv
<1>0. /\ event \in EventValues \cup {NoEvent}
      /\ participants \subseteq Guests /\ registering \subseteq Guests /\ referenced \in BOOLEAN
      /\ IsFiniteSet(participants) /\ Cardinality(participants) \in Nat
      /\ event.capacity \in Nat
      /\ NoEvent.exists = FALSE /\ \A e \in EventValues : e.exists = TRUE
  BY FS_CardinalityType, CapacityType DEF EventsTypeOK, RoomWasSeen, NoEvent, EventValues
<1>1. ASSUME NEW e \in EventValues, CreateEvent(e) \/ UpdateEvent(e)
      PROVE  EventsIInv' /\ WithinCapacity
  <2>1. event' = e /\ registering = {} /\ UNCHANGED <<participants, registering, referenced>>
    BY <1>1 DEF CreateEvent, UpdateEvent, EventLocked
  <2>2. EventsInv'
    BY <1>0, <2>1 DEF EventsTypeOK
  <2>3. RoomWasSeen' /\ WithinCapacity
    BY <1>0, <2>1 DEF RoomWasSeen, WithinCapacity
  <2>4. QED
    BY <2>2, <2>3
<1>2. CASE EventStarts
  <2>1. /\ event' = [event EXCEPT !.started = TRUE] /\ event \in EventValues
        /\ UNCHANGED <<participants, registering, referenced>>
    BY <1>0, <1>2 DEF EventStarts
  <2>2. event' \in EventValues /\ event'.capacity = event.capacity
    BY <2>1 DEF EventValues
  <2>3. EventsInv'
    BY <1>0, <2>1, <2>2 DEF EventsTypeOK
  <2>4. RoomWasSeen' /\ WithinCapacity
    BY <2>1, <2>2 DEF RoomWasSeen, WithinCapacity, HasRoom
  <2>5. QED
    BY <2>3, <2>4
<1>3. CASE DeleteEvent
  <2>1. /\ event' = NoEvent /\ participants' = {} /\ registering' = {} /\ registering = {}
        /\ referenced' = FALSE
    BY <1>0, <1>3 DEF DeleteEvent, EventLocked
  <2>2. EventsInv'
    BY <1>0, <2>1 DEF EventsTypeOK
  <2>3. RoomWasSeen' /\ WithinCapacity
    BY <2>1, FS_EmptySet DEF RoomWasSeen, WithinCapacity
  <2>4. QED
    BY <2>2, <2>3
<1>4. CASE ReferToEvent
  <2>1. referenced' = TRUE /\ event.exists /\ UNCHANGED <<event, participants, registering>>
    BY <1>4 DEF ReferToEvent
  <2>2. EventsInv'
    BY <1>0, <2>1 DEF EventsTypeOK
  <2>3. RoomWasSeen' /\ WithinCapacity
    BY <2>1 DEF RoomWasSeen, WithinCapacity, HasRoom
  <2>4. QED
    BY <2>2, <2>3
<1>5. ASSUME NEW u \in Guests, RegisterBegin(u) PROVE EventsIInv' /\ WithinCapacity
  <2>1. /\ registering' = {u} /\ event.exists /\ HasRoom
        /\ UNCHANGED <<event, participants, referenced>>
    BY <1>5 DEF RegisterBegin, RegisterGuard, EventLocked
  <2>2. EventsInv'
    BY <1>0, <2>1 DEF EventsTypeOK
  <2>3. RoomWasSeen' /\ WithinCapacity
    BY <2>1 DEF RoomWasSeen, WithinCapacity, HasRoom
  <2>4. QED
    BY <2>2, <2>3
<1>6. ASSUME NEW u \in Guests, RegisterCommit(u) PROVE EventsIInv' /\ WithinCapacity
  <2>1. /\ registering' = {} /\ HasRoom /\ event.exists
        /\ participants' = participants \cup {u}
        /\ UNCHANGED <<event, referenced>>
    BY <1>6 DEF RegisterCommit, RoomWasSeen
  <2>2. IsFiniteSet(participants') /\ Cardinality(participants') <= Cardinality(participants) + 1
    <3>1. IsFiniteSet(participants \cup {u})
      BY <1>0, FS_AddElement
    <3>2. \/ Cardinality(participants \cup {u}) = Cardinality(participants)
          \/ Cardinality(participants \cup {u}) = Cardinality(participants) + 1
      BY <1>0, FS_AddElement
    <3>3. QED
      BY <1>0, <2>1, <3>1, <3>2
  <2>3. EventsInv'
    BY <1>0, <2>1 DEF EventsTypeOK
  <2>4. RoomWasSeen'
    BY <2>1, <2>2 DEF RoomWasSeen
  <2>5. WithinCapacity
    <3>1. event.capacity # Unlimited => Cardinality(participants) < event.capacity
      BY <2>1 DEF HasRoom
    <3>2. Cardinality(participants') \in Nat
      BY <2>2, FS_CardinalityType
    <3>3. event.capacity # Unlimited => Cardinality(participants') <= event.capacity
      BY <1>0, <2>2, <3>1, <3>2
    <3>4. QED
      BY <3>3 DEF WithinCapacity
  <2>6. QED
    BY <2>3, <2>4, <2>5
<1>7. ASSUME NEW u \in Guests, Unregister(u) PROVE EventsIInv' /\ WithinCapacity
  <2>1. /\ participants' = participants \ {u}
        /\ UNCHANGED <<event, registering, referenced>>
    BY <1>7 DEF Unregister
  <2>2. /\ IsFiniteSet(participants') /\ Cardinality(participants') \in Nat
        /\ Cardinality(participants') <= Cardinality(participants)
    <3>1. IsFiniteSet(participants \ {u})
      BY <1>0, FS_RemoveElement
    <3>2. Cardinality(participants \ {u}) \in Nat
      BY <3>1, FS_CardinalityType
    <3>3. \/ Cardinality(participants \ {u}) = Cardinality(participants)
          \/ Cardinality(participants \ {u}) = Cardinality(participants) - 1
      BY <1>0, FS_RemoveElement
    <3>4. QED
      BY <1>0, <2>1, <3>1, <3>2, <3>3
  <2>3. EventsInv'
    BY <1>0, <2>1 DEF EventsTypeOK
  <2>4. registering # {} => HasRoom'
    BY <1>0, <2>1, <2>2 DEF RoomWasSeen, HasRoom
  <2>5. RoomWasSeen' /\ WithinCapacity
    BY <2>1, <2>2, <2>4 DEF RoomWasSeen, WithinCapacity
  <2>6. QED
    BY <2>3, <2>5
<1>8. QED
  BY <1>1, <1>2, <1>3, <1>4, <1>5, <1>6, <1>7 DEF EventsNext

LEMMA EventsInitInv == EventsInit => EventsIInv
BY FS_EmptySet DEF EventsInit, EventsIInv, EventsInv, EventsTypeOK, RoomWasSeen, NoEvent

LEMMA EventsStepInv == EventsIInv /\ [EventsNext]_eventVars => EventsIInv'
<1>1. EventsIInv /\ UNCHANGED eventVars => EventsIInv'
  BY DEF eventVars, EventsIInv, EventsInv, EventsTypeOK, RoomWasSeen, HasRoom
<1>2. QED
  BY <1>1, EventsStep

EventsSpec == EventsInit /\ [][EventsNext]_eventVars

\* Nobody is registered to an event that is gone, or about to be, and nothing refers to it.
THEOREM EventsSafe == EventsSpec => []EventsInv
<1>1. EventsIInv => EventsInv
  BY DEF EventsIInv
<1>2. QED
  BY <1>1, EventsInitInv, EventsStepInv, PTL DEF EventsSpec

\* Nobody is registered beyond the capacity, whichever requests compete for the last place.
THEOREM EventsCapacity == EventsSpec => RegistrationWithinCapacity
<1>1. EventsIInv /\ [EventsNext]_eventVars =>
        [\A u \in Guests :
            u \in participants' \ participants /\ event.capacity # Unlimited
               => Cardinality(participants') <= event.capacity]_eventVars
  BY EventsStep DEF WithinCapacity
<1>2. QED
  BY <1>1, EventsInitInv, EventsStepInv, PTL DEF EventsSpec, RegistrationWithinCapacity

----------------------------------------------------------------------------
(* Impact.  What carries the invariant is that a verified claim has superseded the   *)
(* one it replaces.                                                                  *)

ClaimRows == [status : {"none", Pending, "verified", "rejected", "superseded"},
              replaces : Claims \cup {NoClaim}, sourced : BOOLEAN]

OneActiveReplacement ==
    \A c \in Claims : \A r, s \in Replacements(c) : ActiveClaim(r) /\ ActiveClaim(s) => r = s

VerifiedSupersedes ==
    \A c \in Claims : claim[c].status = "verified" /\ claim[c].replaces # NoClaim
        => claim[claim[c].replaces].status = "superseded"

SupersededByRevision ==
    \A c \in Claims : claim[c].status = "superseded"
        => \E r \in Replacements(c) : claim[r].status \in {"verified", "superseded"}

ImpactIInv ==
    /\ ImpactTypeOK
    /\ \A c \in Claims : claim[c].replaces # c
    /\ OneActiveReplacement /\ VerifiedSupersedes /\ SupersededByRevision

LEMMA ImpactIInvImplies == ImpactIInv => ImpactInv
<1> SUFFICES ASSUME ImpactIInv, NEW c \in Claims
             PROVE  /\ Cardinality({r \in Replacements(c) : ActiveClaim(r)}) <= 1
                    /\ claim[c].status = "verified" =>
                           \A r \in Replacements(c) : claim[r].status # "verified"
                    /\ claim[c].status = "superseded" =>
                           \E r \in Replacements(c) : claim[r].status \in {"verified", "superseded"}
  BY DEF ImpactIInv, ImpactInv
<1> DEFINE A == {r \in Replacements(c) : ActiveClaim(r)}
<1>1. Cardinality(A) <= 1
  <2>1. CASE A = {}
    BY <2>1, FS_EmptySet
  <2>2. CASE A # {}
    <3>1. PICK r : r \in A
      BY <2>2
    <3>2. A = {r}
      BY <3>1 DEF ImpactIInv, OneActiveReplacement
    <3>3. Cardinality({r}) = 1
      BY FS_Singleton
    <3> HIDE DEF A
    <3>4. QED
      BY <3>2, <3>3
  <2>3. QED
    BY <2>1, <2>2
<1>2. claim[c].status = "verified" => \A r \in Replacements(c) : claim[r].status # "verified"
  BY NoClaimAssumption DEF ImpactIInv, VerifiedSupersedes, Replacements
<1>3. QED
  BY <1>1, <1>2 DEF ImpactIInv, SupersededByRevision

\* What VerifiedUntilReplaced says of a step.
WithdrawnByRevision ==
    \A c \in Claims : claim[c].status = "verified" /\ claim'[c].status # "verified"
        => /\ claim'[c].status = "superseded"
           /\ \E r \in Replacements(c) : claim'[r].status = "verified"

LEMMA CreateClaimStep ==
  ASSUME ImpactIInv, NEW c \in Claims, NEW p \in Claims \cup {NoClaim}, NEW s \in BOOLEAN,
         CreateClaim(c, p, s)
  PROVE  ImpactIInv' /\ WithdrawnByRevision
<1> DEFINE row == [status |-> Pending, replaces |-> p, sourced |-> s]
<1>0. claim \in [Claims -> ClaimRows] /\ row \in ClaimRows /\ row.replaces = p
      /\ row.status = Pending
      /\ Pending \notin {"none", "verified", "rejected", "superseded"}
  BY DEF ImpactIInv, ImpactTypeOK, ClaimRows, Pending
<1>1. /\ claim' = [claim EXCEPT ![c] = row] /\ claim[c].status = "none"
      /\ p # NoClaim => CanReplace(p)
      /\ UNCHANGED <<impactRecord, evidence>>
  BY DEF CreateClaim, ClaimExists
<1> HIDE DEF row
<1>2. /\ claim' \in [Claims -> ClaimRows] /\ claim'[c] = row
      /\ \A d \in Claims \ {c} : claim'[d] = claim[d]
  BY <1>0, <1>1
<1>3. ImpactTypeOK'
  BY <1>1, <1>2 DEF ImpactIInv, ImpactTypeOK, ClaimRows
<1>4. p # c
  BY <1>1, NoClaimAssumption DEF CanReplace, ClaimExists
<1>5. \A d \in Claims : Replacements(d)' = IF d = p THEN Replacements(d) \cup {c} ELSE Replacements(d)
  BY <1>0, <1>1, <1>2 DEF Replacements, ClaimExists
<1>6. OneActiveReplacement'
  <2>1. p \in Claims => \A r \in Replacements(p) : ~ActiveClaim(r)
    BY <1>1, NoClaimAssumption DEF CanReplace
  <2>2. \A d \in Claims \ {c} : ActiveClaim(d)' = ActiveClaim(d)
    BY <1>2 DEF ActiveClaim
  <2>3. \A d \in Claims : Replacements(d) \subseteq Claims \ {c}
    BY <1>1 DEF Replacements, ClaimExists
  <2>4. QED
    BY <1>5, <2>1, <2>2, <2>3 DEF ImpactIInv, OneActiveReplacement
<1>7. VerifiedSupersedes'
  <2> SUFFICES ASSUME NEW d \in Claims, claim'[d].status = "verified", claim'[d].replaces # NoClaim
               PROVE  claim'[claim'[d].replaces].status = "superseded"
    BY DEF VerifiedSupersedes
  <2>1. d # c /\ claim'[d] = claim[d]
    BY <1>0, <1>2
  <2>2. claim[claim[d].replaces].status = "superseded" /\ claim[d].replaces \in Claims
    BY <1>0, <2>1 DEF ImpactIInv, VerifiedSupersedes, ClaimRows
  <2>3. QED
    BY <1>1, <1>2, <2>1, <2>2
<1>8. SupersededByRevision'
  BY <1>0, <1>1, <1>2, <1>5 DEF ImpactIInv, SupersededByRevision, Replacements, ClaimExists
<1>9. \A d \in Claims : claim'[d].replaces # d
  BY <1>0, <1>2, <1>4 DEF ImpactIInv
<1>10. WithdrawnByRevision
  BY <1>1, <1>2 DEF WithdrawnByRevision
<1>11. QED
  BY <1>3, <1>6, <1>7, <1>8, <1>9, <1>10 DEF ImpactIInv

LEMMA ValidateClaimStep ==
  ASSUME ImpactIInv, NEW c \in Claims, ValidateClaim(c)
  PROVE  ImpactIInv' /\ WithdrawnByRevision
<1> DEFINE p == claim[c].replaces
<1>0. claim \in [Claims -> ClaimRows] /\ p # c
      /\ Pending \notin {"none", "verified", "rejected", "superseded"}
  BY DEF ImpactIInv, ImpactTypeOK, ClaimRows, Pending
<1>1. /\ claim' = [d \in Claims |->
             IF d = c THEN [claim[c] EXCEPT !.status = "verified"]
             ELSE IF d = p THEN [claim[d] EXCEPT !.status = "superseded"]
             ELSE claim[d]]
      /\ claim[c].status \in {Pending, "verified"}
      /\ UNCHANGED <<impactRecord, evidence>>
  BY DEF ValidateClaim
<1>2. /\ claim' \in [Claims -> ClaimRows]
      /\ claim'[c].status = "verified"
      /\ p \in Claims => claim'[p].status = "superseded"
      /\ \A d \in Claims : claim'[d].replaces = claim[d].replaces
      /\ \A d \in Claims \ {c, p} : claim'[d] = claim[d]
  BY <1>0, <1>1 DEF ClaimRows
<1> HIDE DEF p
<1>3. ImpactTypeOK'
  BY <1>1, <1>2 DEF ImpactIInv, ImpactTypeOK, ClaimRows
<1>4. \A d \in Claims : claim[d].status # "none" => claim'[d].status # "none"
  BY <1>1, <1>2
<1>5. \A d \in Claims : Replacements(d) \subseteq Replacements(d)'
                        /\ Replacements(d)' \ {p} \subseteq Replacements(d)
  BY <1>0, <1>1, <1>2, <1>4 DEF Replacements, ClaimExists
<1>6. \A d \in Claims : ActiveClaim(d)' => ActiveClaim(d) /\ d # p
  BY <1>0, <1>1, <1>2 DEF ActiveClaim
<1>7. OneActiveReplacement'
  BY <1>5, <1>6 DEF ImpactIInv, OneActiveReplacement, Replacements
<1>8. VerifiedSupersedes'
  <2> SUFFICES ASSUME NEW d \in Claims, claim'[d].status = "verified", claim'[d].replaces # NoClaim
               PROVE  claim'[claim'[d].replaces].status = "superseded"
    BY DEF VerifiedSupersedes
  <2>0. claim'[d].replaces = claim[d].replaces /\ claim[d].replaces \in Claims /\ d # p
    BY <1>0, <1>2 DEF ClaimRows
  <2>1. CASE d = c
    BY <1>2, <2>0, <2>1 DEF p
  <2>2. CASE d # c
    <3>1. claim[claim[d].replaces].status = "superseded"
      BY <1>2, <2>0, <2>2 DEF ImpactIInv, VerifiedSupersedes
    <3>2. claim[d].replaces # c
      BY <1>0, <1>1, <3>1
    <3>3. QED
      BY <1>2, <2>0, <3>1, <3>2
  <2>3. QED
    BY <2>1, <2>2
<1>9. SupersededByRevision'
  <2> SUFFICES ASSUME NEW d \in Claims, claim'[d].status = "superseded"
               PROVE  \E r \in Replacements(d)' : claim'[r].status \in {"verified", "superseded"}
    BY DEF SupersededByRevision
  <2>1. CASE d = p
    BY <1>2, <1>4, <2>1, <1>1, <1>0 DEF p, Replacements, ClaimExists
  <2>2. CASE d # p
    <3>1. d # c /\ claim[d].status = "superseded"
      BY <1>2, <2>2
    <3>2. PICK r \in Replacements(d) : claim[r].status \in {"verified", "superseded"}
      BY <3>1 DEF ImpactIInv, SupersededByRevision
    <3>3. r \in Claims /\ claim'[r].status \in {"verified", "superseded"}
      BY <1>2, <3>2 DEF Replacements
    <3>4. QED
      BY <1>5, <3>2, <3>3
  <2>3. QED
    BY <2>1, <2>2
<1>10. \A d \in Claims : claim'[d].replaces # d
  BY <1>2 DEF ImpactIInv
<1>11. WithdrawnByRevision
  <2> SUFFICES ASSUME NEW d \in Claims, claim[d].status = "verified", claim'[d].status # "verified"
               PROVE  /\ claim'[d].status = "superseded"
                      /\ \E r \in Replacements(d) : claim'[r].status = "verified"
    BY DEF WithdrawnByRevision
  <2>1. d = p
    BY <1>2
  <2>2. c \in Replacements(d)
    BY <1>0, <1>1, <2>1 DEF p, Replacements, ClaimExists
  <2>3. QED
    BY <1>2, <2>1, <2>2
<1>12. QED
  BY <1>3, <1>7, <1>8, <1>9, <1>10, <1>11 DEF ImpactIInv

LEMMA RejectClaimStep ==
  ASSUME ImpactIInv, NEW c \in Claims, RejectClaim(c)
  PROVE  ImpactIInv' /\ WithdrawnByRevision
<1>0. claim \in [Claims -> ClaimRows]
      /\ Pending \notin {"none", "verified", "rejected", "superseded"}
  BY DEF ImpactIInv, ImpactTypeOK, ClaimRows, Pending
<1>1. /\ claim' = [claim EXCEPT ![c] = [claim[c] EXCEPT !.status = "rejected"]]
      /\ claim[c].status \in {Pending, "rejected"}
      /\ UNCHANGED <<impactRecord, evidence>>
  BY DEF RejectClaim
<1>2. /\ claim' \in [Claims -> ClaimRows] /\ claim'[c].status = "rejected"
      /\ \A d \in Claims : claim'[d].replaces = claim[d].replaces
      /\ \A d \in Claims \ {c} : claim'[d] = claim[d]
  BY <1>0, <1>1 DEF ClaimRows
<1>3. ImpactTypeOK'
  BY <1>1, <1>2 DEF ImpactIInv, ImpactTypeOK, ClaimRows
<1>4. \A d \in Claims : Replacements(d)' = Replacements(d)
  BY <1>0, <1>1, <1>2 DEF Replacements, ClaimExists
<1>5. OneActiveReplacement'
  <2>1. \A d \in Claims : ActiveClaim(d)' => ActiveClaim(d)
    BY <1>0, <1>2 DEF ActiveClaim
  <2>2. QED
    BY <1>4, <2>1 DEF ImpactIInv, OneActiveReplacement, Replacements
<1>6. VerifiedSupersedes'
  <2> SUFFICES ASSUME NEW d \in Claims, claim'[d].status = "verified", claim'[d].replaces # NoClaim
               PROVE  claim'[claim'[d].replaces].status = "superseded"
    BY DEF VerifiedSupersedes
  <2>1. d # c /\ claim'[d] = claim[d] /\ claim[d].replaces \in Claims
    BY <1>0, <1>2 DEF ClaimRows
  <2>2. claim[claim[d].replaces].status = "superseded"
    BY <2>1 DEF ImpactIInv, VerifiedSupersedes
  <2>3. QED
    BY <1>0, <1>1, <1>2, <2>1, <2>2
<1>7. SupersededByRevision'
  <2> SUFFICES ASSUME NEW d \in Claims, claim'[d].status = "superseded"
               PROVE  \E r \in Replacements(d)' : claim'[r].status \in {"verified", "superseded"}
    BY DEF SupersededByRevision
  <2>1. PICK r \in Replacements(d) : claim[r].status \in {"verified", "superseded"}
    BY <1>2 DEF ImpactIInv, SupersededByRevision
  <2>2. r \in Claims \ {c}
    BY <1>0, <1>1, <2>1 DEF Replacements
  <2>3. QED
    BY <1>2, <1>4, <2>1, <2>2
<1>8. \A d \in Claims : claim'[d].replaces # d
  BY <1>2 DEF ImpactIInv
<1>9. WithdrawnByRevision
  BY <1>0, <1>1, <1>2 DEF WithdrawnByRevision
<1>10. QED
  BY <1>3, <1>5, <1>6, <1>7, <1>8, <1>9 DEF ImpactIInv

\* The record and the evidence: no claim changes.
LEMMA ClaimsStay ==
  ASSUME ImpactIInv, UNCHANGED claim, ImpactTypeOK'
  PROVE  ImpactIInv' /\ WithdrawnByRevision
BY DEF ImpactIInv, WithdrawnByRevision, OneActiveReplacement, VerifiedSupersedes,
       SupersededByRevision, Replacements, ClaimExists, ActiveClaim

LEMMA ImpactStep ==
  ASSUME ImpactIInv, ImpactNext
  PROVE  ImpactIInv' /\ WithdrawnByRevision
<1>0. ImpactTypeOK
  BY DEF ImpactIInv
<1>1. CASE SaveRecord \/ JudgeRecord
  <2>1. ImpactTypeOK' /\ UNCHANGED claim
    BY <1>0, <1>1 DEF SaveRecord, JudgeRecord, ImpactTypeOK
  <2>2. QED
    BY <2>1, ClaimsStay
<1>2. ASSUME NEW v \in Evidences, JudgeEvidence(v) \/ \E c \in Claims \cup {NoClaim} : AddEvidence(v, c)
      PROVE  ImpactIInv' /\ WithdrawnByRevision
  <2>1. ImpactTypeOK' /\ UNCHANGED claim
    BY <1>0, <1>2 DEF JudgeEvidence, AddEvidence, ImpactTypeOK
  <2>2. QED
    BY <2>1, ClaimsStay
<1>3. QED
  BY <1>1, <1>2, CreateClaimStep, ValidateClaimStep, RejectClaimStep DEF ImpactNext

LEMMA ImpactInitInv == ImpactInit => ImpactIInv
BY NoClaimAssumption DEF ImpactInit, ImpactIInv, ImpactTypeOK, NoClaimRow, NoEvidence,
   OneActiveReplacement, VerifiedSupersedes, SupersededByRevision, Replacements, ClaimExists

LEMMA ImpactStepInv == ImpactIInv /\ [ImpactNext]_impactVars => ImpactIInv'
BY ImpactStep DEF impactVars, ImpactIInv, ImpactTypeOK, OneActiveReplacement,
   VerifiedSupersedes, SupersededByRevision, Replacements, ClaimExists, ActiveClaim

ImpactSpec == ImpactInit /\ [][ImpactNext]_impactVars

\* A claim has one active replacement at most; a verified claim has no verified
\* replacement, and a superseded one has a replacement that was verified.
THEOREM ImpactSafe == ImpactSpec => []ImpactInv
BY ImpactInitInv, ImpactStepInv, ImpactIInvImplies, PTL DEF ImpactSpec

\* A verified claim is only withdrawn by the verification of its replacement.
THEOREM ImpactVerified == ImpactSpec => VerifiedUntilReplaced
<1>1. ImpactIInv /\ [ImpactNext]_impactVars =>
        [\A c \in Claims :
            claim[c].status = "verified" /\ claim'[c].status # "verified"
               => /\ claim'[c].status = "superseded"
                  /\ \E r \in Replacements(c) : claim'[r].status = "verified"]_impactVars
  BY ImpactStep DEF WithdrawnByRevision
<1>2. QED
  BY <1>1, ImpactInitInv, ImpactStepInv, PTL DEF ImpactSpec, VerifiedUntilReplaced
=============================================================================
