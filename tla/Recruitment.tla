---------------------------- MODULE Recruitment ----------------------------
(***************************************************************************)
(* Recruitment campaigns, applications, their reviews and their conversion *)
(* into accounts (api/routes/recruitment.py).                              *)
(*                                                                         *)
(* An application is its campaign and its email, unique together.  The     *)
(* handlers that change its status lock its row; a conversion locks the     *)
(* campaign first, then the application, and can lose both when another     *)
(* transaction inserts the same email first.  A review locks nothing.       *)
(***************************************************************************)
CONSTANTS
    Campaigns, Emails,
    Officers,       \* requests that convert an application
    Reviewers,
    Scores          \* the scores a review may give, besides none

VARIABLES
    campaign,       \* status of each campaign
    application,    \* status of each application
    converted,      \* applications with a converted_user_id
    account,        \* the account of each email
    officer,        \* conversions under way: application and stage
    score,          \* score given to an application by each reviewer
    finalScore,     \* the reviews the final score was computed from
    reviewing       \* reviews flushed and not committed

recruitmentVars == <<campaign, application, converted, account, officer, score,
                     finalScore, reviewing>>
-----------------------------------------------------------------------------
Applications == Campaigns \X Emails
NoScore == "unscored"
NoReview == "not reviewed"
Given == Scores \cup {NoScore}
Idle == [stage |-> "idle"]

Transitions == [
    none                |-> {},
    submitted           |-> {"under_review", "cancelled"},
    under_review        |-> {"interview_scheduled", "waiting_list", "accepted",
                             "rejected", "cancelled"},
    interview_scheduled |-> {"under_review", "waiting_list", "accepted", "rejected",
                             "cancelled"},
    waiting_list        |-> {"interview_scheduled", "accepted", "rejected", "cancelled"},
    accepted            |-> {},
    rejected            |-> {},
    cancelled           |-> {}]

Exists(a) == application[a] # "none"

\* Somebody holds the row of the application (and of its campaign).
Held(a) == \E k \in Officers : officer[k].stage = "inserting" /\ officer[k].app = a

CampaignHeld(c) == \E e \in Emails : Held(<<c, e>>)

\* The reviews an average is taken over.
Counted(a, scores) ==
    {<<r, scores[a][r]>> : r \in {x \in Reviewers : scores[a][x] \in Scores}}
-----------------------------------------------------------------------------
RecruitmentInit ==
    /\ campaign = [c \in Campaigns |-> "none"]
    /\ application = [a \in Applications |-> "none"]
    /\ converted = {}
    /\ account = [e \in Emails |-> "none"]
    /\ officer = [k \in Officers |-> Idle]
    /\ score = [a \in Applications |-> [r \in Reviewers |-> NoReview]]
    /\ finalScore = [a \in Applications |-> {}]
    /\ reviewing = [r \in Reviewers |-> Idle]

reviewVars == <<score, finalScore, reviewing>>

CreateCampaign(c, s) ==
    /\ campaign[c] = "none" /\ s \in {"open", "closed"}
    /\ campaign' = [campaign EXCEPT ![c] = s]
    /\ UNCHANGED <<application, converted, account, officer, reviewVars>>

\* Closed or reopened by hand; its dates open and close it too.
SetCampaign(c, s) ==
    /\ campaign[c] # "none" /\ ~CampaignHeld(c)
    /\ s # campaign[c] /\ s \in {"open", "closed"}
    /\ campaign' = [campaign EXCEPT ![c] = s]
    /\ UNCHANGED <<application, converted, account, officer, reviewVars>>

\* The rows are deleted: their reviews go with them, and whoever meant to retry a
\* conversion or to commit a review of them finds nothing.
EraseRows(gone) ==
    /\ application' = [a \in Applications |-> IF a \in gone THEN "none" ELSE application[a]]
    /\ score' = [a \in Applications |->
           IF a \in gone THEN [r \in Reviewers |-> NoReview] ELSE score[a]]
    /\ finalScore' = [a \in Applications |-> IF a \in gone THEN {} ELSE finalScore[a]]
    /\ officer' = [k \in Officers |->
           IF officer[k] # Idle /\ officer[k].app \in gone THEN Idle ELSE officer[k]]
    /\ reviewing' = [r \in Reviewers |->
           IF reviewing[r] # Idle /\ reviewing[r].app \in gone THEN Idle ELSE reviewing[r]]

\* Mutant: the campaign is deleted whatever became of its applications.
DeleteConvertedCampaign(c) ==
    /\ campaign[c] # "none"
    /\ campaign' = [campaign EXCEPT ![c] = "none"]
    /\ application' = [a \in Applications |-> IF a[1] = c THEN "none" ELSE application[a]]
    /\ UNCHANGED <<converted, account, officer, reviewVars>>

DeleteCampaign(c) ==
    LET gone == {a \in Applications : a[1] = c}
    IN  /\ campaign[c] # "none" /\ ~CampaignHeld(c)
        /\ converted \cap gone = {}
        /\ campaign' = [campaign EXCEPT ![c] = "none"]
        /\ EraseRows(gone)
        /\ UNCHANGED <<converted, account>>

Submit(a) ==
    /\ campaign[a[1]] = "open" /\ ~CampaignHeld(a[1])
    /\ ~Exists(a)
    /\ application' = [application EXCEPT ![a] = "submitted"]
    /\ UNCHANGED <<campaign, converted, account, officer, reviewVars>>

\* Mutant: a decision can be taken back.
CanReconsider(a, s) == Exists(a) /\ s # application[a]

\* A status change, an interview, an edit: the same transitions.
CanMove(a, s) ==
    /\ a \notin converted
    /\ s \in Transitions[application[a]]

ChangeStatus(a, s) ==
    /\ ~Held(a) /\ CanMove(a, s)
    /\ application' = [application EXCEPT ![a] = s]
    /\ UNCHANGED <<campaign, converted, account, officer, reviewVars>>

DeleteApplication(a) ==
    /\ Exists(a) /\ ~Held(a) /\ a \notin converted
    /\ EraseRows({a})
    /\ UNCHANGED <<campaign, converted, account>>

-----------------------------------------------------------------------------
(* Conversion into an account. *)

Operational(e) == account[e] = "active"

Link(a) == converted' = converted \cup {a}

\* Both rows are locked, and the account of the email when there is one.
Convertible(k, a) ==
    /\ officer[k] = Idle /\ ~CampaignHeld(a[1])
    /\ application[a] = "accepted" /\ a \notin converted

\* An account that exists is linked, or refused.
ConvertLink(k, a) ==
    /\ Convertible(k, a) /\ Operational(a[2])
    /\ Link(a)
    /\ UNCHANGED <<campaign, application, account, officer, reviewVars>>

ConvertBegin(k, a) ==
    /\ Convertible(k, a) /\ account[a[2]] = "none"
    /\ officer' = [officer EXCEPT ![k] = [stage |-> "inserting", app |-> a]]
    /\ UNCHANGED <<campaign, application, converted, account, reviewVars>>

\* The insertion, or its refusal by the unique email, which rolls back.
ConvertInsert(k) ==
    LET a == officer[k].app
    IN  /\ officer[k].stage = "inserting"
        /\ \/ /\ account[a[2]] = "none"
              /\ account' = [account EXCEPT ![a[2]] = "active"]
              /\ Link(a)
              /\ officer' = [officer EXCEPT ![k] = Idle]
           \/ /\ account[a[2]] # "none"
              /\ officer' = [officer EXCEPT ![k].stage = "retrying"]
              /\ UNCHANGED <<account, converted>>
        /\ UNCHANGED <<campaign, application, reviewVars>>

\* Mutant: the account is not looked at again.
LinkAnyAccount(a) == a \notin converted

\* The rows are locked again, and what is there decides.
CanLinkNow(a) == a \notin converted /\ Operational(a[2])

ConvertRetry(k) ==
    LET a == officer[k].app
    IN  /\ officer[k].stage = "retrying" /\ ~CampaignHeld(a[1])
        /\ IF CanLinkNow(a) THEN Link(a) ELSE UNCHANGED converted
        /\ officer' = [officer EXCEPT ![k] = Idle]
        /\ UNCHANGED <<campaign, application, account, reviewVars>>

\* An administrator or an import creates the account of an email, or its
\* lifecycle changes (Membership).
AccountChanges(e, s) ==
    /\ s \in {"active", "inactive"} /\ account[e] # s
    /\ account' = [account EXCEPT ![e] = s]
    /\ UNCHANGED <<campaign, application, converted, officer, reviewVars>>
-----------------------------------------------------------------------------
(* Reviews: the row of the review and the final score of the application    *)
(* are written together, the score from what the transaction had read.      *)

\* A new review, or one sent again, is flushed before the average is read.
ReviewBegin(r, a, s) ==
    /\ reviewing[r] = Idle /\ Exists(a)
    /\ reviewing' = [reviewing EXCEPT ![r] =
           [stage |-> "read", app |-> a, given |-> s,
            average |-> Counted(a, [score EXCEPT ![a][r] = s])]]
    /\ UNCHANGED <<campaign, application, converted, account, officer, score, finalScore>>

\* An edit is not: the average is that of the review before the edit.
EditReviewBegin(r, a, s) ==
    /\ reviewing[r] = Idle /\ score[a][r] # NoReview
    /\ reviewing' = [reviewing EXCEPT ![r] =
           [stage |-> "read", app |-> a, given |-> s, average |-> Counted(a, score)]]
    /\ UNCHANGED <<campaign, application, converted, account, officer, score, finalScore>>

DeleteReviewBegin(r, a) ==
    /\ reviewing[r] = Idle /\ score[a][r] # NoReview
    /\ reviewing' = [reviewing EXCEPT ![r] =
           [stage |-> "read", app |-> a, given |-> NoReview,
            average |-> Counted(a, [score EXCEPT ![a][r] = NoReview])]]
    /\ UNCHANGED <<campaign, application, converted, account, officer, score, finalScore>>

ReviewCommit(r) ==
    LET w == reviewing[r]
    IN  /\ w.stage = "read" /\ ~Held(w.app)
        /\ reviewing' = [reviewing EXCEPT ![r] = Idle]
        /\ score' = [score EXCEPT ![w.app][r] = w.given]
        /\ finalScore' = [finalScore EXCEPT ![w.app] = w.average]
        /\ UNCHANGED <<campaign, application, converted, account, officer>>
-----------------------------------------------------------------------------
ConversionNext ==
    \/ \E c \in Campaigns : DeleteCampaign(c)
    \/ \E c \in Campaigns, s \in {"open", "closed"} : CreateCampaign(c, s) \/ SetCampaign(c, s)
    \/ \E a \in Applications :
          \/ Submit(a) \/ DeleteApplication(a)
          \/ \E s \in DOMAIN Transitions : ChangeStatus(a, s)
          \/ \E k \in Officers : ConvertLink(k, a) \/ ConvertBegin(k, a)
    \/ \E k \in Officers : ConvertInsert(k) \/ ConvertRetry(k)
    \/ \E e \in Emails, s \in {"active", "inactive"} : AccountChanges(e, s)

ReviewNext ==
    \E r \in Reviewers :
       \/ ReviewCommit(r)
       \/ \E a \in Applications :
             \/ DeleteReviewBegin(r, a)
             \/ \E s \in Given : ReviewBegin(r, a, s) \/ EditReviewBegin(r, a, s)

RecruitmentSpec == RecruitmentInit /\ [][ConversionNext \/ ReviewNext]_recruitmentVars
-----------------------------------------------------------------------------
(* Properties. *)

\* Types of the rows.
RecruitmentTypeOK ==
    /\ campaign \in [Campaigns -> {"none", "open", "closed"}]
    /\ application \in [Applications -> DOMAIN Transitions]
    /\ converted \subseteq Applications
    /\ account \in [Emails -> {"none", "active", "inactive"}]
    /\ score \in [Applications -> [Reviewers -> Given \cup {NoReview}]]
    /\ \A a \in Applications : finalScore[a] \subseteq Reviewers \X Scores

\* A converted application is an accepted application of a campaign that exists,
\* and its email has an account: a rollback and retry that met a deletion in
\* between leaves nothing behind.
ConvertedWasAccepted ==
    \A a \in converted : /\ application[a] = "accepted"
                         /\ campaign[a[1]] # "none"
                         /\ account[a[2]] # "none"

RecruitmentInv == RecruitmentTypeOK /\ ConvertedWasAccepted

\* A decision on an application is not taken back (it can only be deleted), a
\* conversion is for good, and it links only an account operational then: the
\* lock order and the second look after a rollback are there for this.
DecisionsAreFinal ==
    [][/\ converted \subseteq converted'
       /\ \A a \in converted' \ converted : account'[a[2]] = "active"
       /\ \A a \in Applications :
             application[a] \in {"accepted", "rejected", "cancelled"} =>
                 application'[a] \in {application[a], "none"}
      ]_recruitmentVars

\* The final score of an application is the average of its reviews.
FinalScoreIsAverage ==
    \A a \in Applications : finalScore[a] = Counted(a, score)
=============================================================================
