---------------------------- MODULE WorkflowsMC ----------------------------
(***************************************************************************)
(* The workflows of the club that share no state with one another, checked   *)
(* together.  Each has a module and at most a few requests under way; the     *)
(* focus chosen at the start is the workflow that moves, so that the sizes of *)
(* their state spaces add up and do not multiply.                            *)
(***************************************************************************)
EXTENDS Attendance, Recruitment, Tasks, Events, Impact, Heritage, DocumentRequests,
        ReleasePolicy, StoredFiles, AccountServices, ChatThreads, Community, TLC

VARIABLE focus

AbsentMark == [status |-> "absent", review |-> "not_submitted"]
PendingMark == [status |-> "present", review |-> "pending"]
ExpiredMark == [status |-> "not_recorded", review |-> "expired"]
MarksGiven == {AbsentMark, PendingMark, ExpiredMark}

Foci == {"attendance", "badges", "recruitment", "reviews", "tasks", "events", "impact",
         "heritage", "statistics", "documents", "releases", "files", "terms", "deletion", "ticket", "chat",
         "posts", "reactions", "comments", "honours"}

\* The same two people work in every workflow, on the same two rows.  Only one
\* workflow moves, so either may be exchanged everywhere at once.
Symmetry == Permutations(Workers) \cup Permutations(Requests)

workflowVars == <<attendanceVars, recruitmentVars, taskVars, eventVars, impactVars,
                  heritageVars, documentVars, releaseVars, filesVars, serviceVars, chatVars,
                  communityVars>>

\* A member has the badge of his name when the roll is called.
ASSUME BadgesAssumption == Badges \subseteq Attendees

BadgeHeld == badge = [b \in Badges |-> [owner |-> b, status |-> "active"]]

WorkflowsInit ==
    /\ focus \in Foci
    /\ AttendanceInit /\ (IF focus = "attendance" THEN BadgeHeld ELSE BadgesInit)
    /\ RecruitmentInit /\ TasksInit /\ EventsInit /\ ImpactInit /\ HeritageInit
    /\ DocumentsInit /\ (focus # "documents" => template = "letter")
    /\ ReleasesInit /\ FilesInit /\ ServicesInit /\ ChatInit /\ CommunityInit

\* Applications come and go under the reviews.
ReviewedNext ==
    \/ ReviewNext
    \/ \E c \in Campaigns : CreateCampaign(c, "open")
    \/ \E a \in Applications : Submit(a) \/ DeleteApplication(a)

clubVars == <<taskVars, eventVars>>
recordVars == <<impactVars, heritageVars, documentVars, filesVars>>
officeVars == <<releaseVars, serviceVars, chatVars>>

AtTheSession == UNCHANGED <<recruitmentVars, clubVars, recordVars, officeVars, communityVars>>
AtRecruitment == UNCHANGED <<attendanceVars, clubVars, recordVars, officeVars, communityVars>>
AtTheClub == UNCHANGED <<attendanceVars, recruitmentVars, recordVars, officeVars, communityVars>>
AtTheRecords == UNCHANGED <<attendanceVars, recruitmentVars, clubVars, officeVars, communityVars>>
AtTheOffice == UNCHANGED <<attendanceVars, recruitmentVars, clubVars, recordVars, communityVars>>
AtTheNews == UNCHANGED <<attendanceVars, recruitmentVars, clubVars, recordVars, officeVars>>

WorkflowsNext ==
    /\ UNCHANGED focus
    /\ \/ /\ \/ focus = "attendance" /\ AttendanceNext
             \/ focus = "badges" /\ BadgeNext
          /\ AtTheSession
       \/ /\ \/ focus = "recruitment" /\ ConversionNext
             \/ focus = "reviews" /\ ReviewedNext
          /\ AtRecruitment
       \/ /\ \/ focus = "tasks" /\ TasksNext /\ UNCHANGED eventVars
             \/ focus = "events" /\ EventsNext /\ UNCHANGED taskVars
          /\ AtTheClub
       \/ /\ \/ focus = "impact" /\ ImpactNext /\ UNCHANGED <<heritageVars, documentVars, filesVars>>
             \/ focus = "heritage" /\ HeritageNext /\ UNCHANGED <<impactVars, documentVars, filesVars>>
             \/ focus = "statistics" /\ StatisticNext /\ UNCHANGED <<impactVars, documentVars, filesVars>>
             \/ focus = "documents" /\ DocumentsNext /\ UNCHANGED <<impactVars, heritageVars, filesVars>>
             \/ focus = "files" /\ FilesNext /\ UNCHANGED <<impactVars, heritageVars, documentVars>>
          /\ AtTheRecords
       \/ /\ \/ focus = "releases" /\ ReleasesNext /\ UNCHANGED <<serviceVars, chatVars>>
             \/ focus = "terms" /\ TermsNext /\ UNCHANGED <<releaseVars, chatVars>>
             \/ focus = "deletion" /\ DeletionNext /\ UNCHANGED <<releaseVars, chatVars>>
             \/ focus = "ticket" /\ TicketNext /\ UNCHANGED <<releaseVars, chatVars>>
             \/ focus = "chat" /\ ChatNext /\ UNCHANGED <<releaseVars, serviceVars>>
          /\ AtTheOffice
       \/ /\ \/ focus = "posts" /\ PostNext
             \/ focus = "reactions" /\ ReactionNext
             \/ focus = "comments" /\ CommentNext
             \/ focus = "honours" /\ HonourNext
          /\ AtTheNews

WorkflowsSpec == WorkflowsInit /\ [][WorkflowsNext]_<<focus, workflowVars>>
-----------------------------------------------------------------------------
\* The records of the club agree: those of recruitment, tasks, events, impact,
\* memory and archives, account services, conversations and publications, each as
\* its module states it.
ClubInv ==
    /\ RecruitmentInv /\ TasksInv /\ EventsInv /\ ImpactInv /\ HeritageInv
    /\ ServicesInv /\ ChatInv /\ CommunityInv

\* What was decided stands: the final state of an application, the completion of a
\* task, the verification of a claim or of a fact of the memory.
DecisionsStand ==
    /\ DecisionsAreFinal /\ WorkIsCheckedOnce /\ VerifiedUntilReplaced /\ FinalisedStays
=============================================================================
