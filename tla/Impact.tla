------------------------------- MODULE Impact -------------------------------
(***************************************************************************)
(* The impact record of a project, its claims (indicators) and the evidence *)
(* attached to them (api/routes/impact.py).  A claim may replace another;   *)
(* replacing locks the replaced row, validating locks the claim and then    *)
(* the row it replaces, so each is one step.                                *)
(***************************************************************************)
EXTENDS Naturals, FiniteSets

CONSTANTS
    Claims,         \* rows of impact_metrics
    Evidences,      \* rows of impact_evidence
    NoClaim

ASSUME NoClaimAssumption == NoClaim \notin Claims

VARIABLES
    impactRecord,   \* validation status of the record of the project
    claim,          \* status, replaced claim and own source of each claim
    evidence        \* status and claim of each evidence

impactVars == <<impactRecord, claim, evidence>>
-----------------------------------------------------------------------------
\* DRAFT, EVIDENCE_PENDING, EVIDENCE_ATTACHED and UNDER_REVIEW: no handler tells
\* them apart, and none but the dedicated one sets another status.
Pending == "pending"

NoClaimRow == [status |-> "none", replaces |-> NoClaim, sourced |-> FALSE]
NoEvidence == [status |-> "none", claim |-> NoClaim]

ClaimExists(c) == claim[c].status # "none"

\* ACTIVE_REPLACEMENT_STATUSES.
ActiveClaim(c) == claim[c].status \in {Pending, "verified"}

Replacements(p) == {c \in Claims : ClaimExists(c) /\ claim[c].replaces = p}

Linked(c) == {v \in Evidences : evidence[v].claim = c}

\* A reference, a file of its own or a linked evidence, whatever became of it.
Backed(c) == claim[c].sourced \/ Linked(c) # {}
-----------------------------------------------------------------------------
ImpactInit ==
    /\ impactRecord = "none"
    /\ claim = [c \in Claims |-> NoClaimRow]
    /\ evidence = [v \in Evidences |-> NoEvidence]

\* Created and edited as pending; edited without its status, a verified or
\* rejected record stays what it was.
SaveRecord ==
    /\ impactRecord # Pending
    /\ impactRecord' = Pending
    /\ UNCHANGED <<claim, evidence>>

\* validate_impact_record and reject_impact_record look at no status.
JudgeRecord ==
    /\ impactRecord # "none"
    /\ impactRecord' \in {"verified", "rejected"} \ {impactRecord}
    /\ UNCHANGED <<claim, evidence>>

\* Mutant: the replacements already there are not looked at.
CanReplaceAgain(p) == ClaimExists(p) /\ claim[p].status # "superseded"

\* The replaced claim is locked, so no second replacement is seen too late.
CanReplace(p) ==
    /\ ClaimExists(p) /\ claim[p].status # "superseded"
    /\ \A r \in Replacements(p) : ~ActiveClaim(r)

CreateClaim(c, p, sourced) ==
    /\ impactRecord # "none" /\ ~ClaimExists(c)
    /\ p # NoClaim => CanReplace(p)
    /\ claim' = [claim EXCEPT ![c] =
           [status |-> Pending, replaces |-> p, sourced |-> sourced]]
    /\ UNCHANGED <<impactRecord, evidence>>

\* Mutant: what the claim replaces is left as it was.
ValidateAlone(c) ==
    /\ claim[c].status \in {Pending, "verified"} /\ Backed(c)
    /\ claim' = [claim EXCEPT ![c].status = "verified"]
    /\ UNCHANGED <<impactRecord, evidence>>

\* A claim verified again keeps what it replaced superseded.
ValidateClaim(c) ==
    /\ claim[c].status \in {Pending, "verified"} /\ Backed(c)
    /\ claim' = [d \in Claims |->
           IF d = c THEN [claim[c] EXCEPT !.status = "verified"]
           ELSE IF d = claim[c].replaces THEN [claim[d] EXCEPT !.status = "superseded"]
           ELSE claim[d]]
    /\ UNCHANGED <<impactRecord, evidence>>

\* Mutant: only a superseded claim is refused.
RejectVerified(c) ==
    /\ ClaimExists(c) /\ claim[c].status # "superseded"
    /\ claim' = [claim EXCEPT ![c].status = "rejected"]
    /\ UNCHANGED <<impactRecord, evidence>>

\* A rejected claim may be rejected again, a verified one never is.
RejectClaim(c) ==
    /\ claim[c].status \in {Pending, "rejected"}
    /\ claim' = [claim EXCEPT ![c].status = "rejected"]
    /\ UNCHANGED <<impactRecord, evidence>>

AddEvidence(v, c) ==
    /\ impactRecord # "none" /\ evidence[v] = NoEvidence
    /\ c # NoClaim => ClaimExists(c)
    /\ evidence' = [evidence EXCEPT ![v] = [status |-> Pending, claim |-> c]]
    /\ UNCHANGED <<impactRecord, claim>>

JudgeEvidence(v) ==
    /\ evidence[v] # NoEvidence
    /\ \E s \in {"verified", "rejected"} \ {evidence[v].status} :
           evidence' = [evidence EXCEPT ![v].status = s]
    /\ UNCHANGED <<impactRecord, claim>>

ImpactNext ==
    \/ SaveRecord \/ JudgeRecord
    \/ \E c \in Claims :
          \/ \E p \in Claims \cup {NoClaim}, s \in BOOLEAN : CreateClaim(c, p, s)
          \/ ValidateClaim(c) \/ RejectClaim(c)
    \/ \E v \in Evidences :
          \/ \E c \in Claims \cup {NoClaim} : AddEvidence(v, c)
          \/ JudgeEvidence(v)

-----------------------------------------------------------------------------
ImpactTypeOK ==
    /\ impactRecord \in {"none", Pending, "verified", "rejected"}
    /\ claim \in [Claims -> [status : {"none", Pending, "verified", "rejected", "superseded"},
                             replaces : Claims \cup {NoClaim}, sourced : BOOLEAN]]
    /\ evidence \in [Evidences -> [status : {"none", Pending, "verified", "rejected"},
                                   claim : Claims \cup {NoClaim}]]

\* A claim and the one it replaces are not both verified, one replacement at most
\* is open or verified, and a superseded claim was superseded by a revision that
\* stands or was superseded in turn.  (A claim and the revision of a revision that
\* was never verified may both stand: only the claim directly replaced is looked at.)
ImpactInv ==
    /\ ImpactTypeOK
    /\ \A c \in Claims :
          /\ Cardinality({r \in Replacements(c) : ActiveClaim(r)}) <= 1
          /\ claim[c].status = "verified" =>
                 \A r \in Replacements(c) : claim[r].status # "verified"
          /\ claim[c].status = "superseded" =>
                 \E r \in Replacements(c) : claim[r].status \in {"verified", "superseded"}

\* A verified claim is only ever withdrawn by the verification of the claim that
\* replaces it: it is never rejected and never becomes pending again.
VerifiedUntilReplaced ==
    [][\A c \in Claims :
          claim[c].status = "verified" /\ claim'[c].status # "verified"
             => /\ claim'[c].status = "superseded"
                /\ \E r \in Replacements(c) : claim'[r].status = "verified"]_impactVars
=============================================================================
