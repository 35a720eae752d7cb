----------------------------- MODULE Community -----------------------------
(***************************************************************************)
(* A publication with the reactions of one reader, the comments it receives *)
(* and what its author is told of them (api/routes/posts.py,                *)
(* services/notification_service.py), and a badge of the club               *)
(* (api/routes/gamification.py).  Nothing is locked: a request reads in one  *)
(* step and commits what it changed in another, the updates of a commit      *)
(* before its deletions.                                                    *)
(***************************************************************************)
EXTENDS Naturals, FiniteSets, Sequences, SequencesExt

CONSTANTS
    Devices,        \* requests under way at once
    Kinds,          \* kinds of reaction
    Notes,          \* rows of notifications of one kind about the post
    Seasons, NoSeason

ASSUME DevicesAssumption == IsFiniteSet(Devices)
ASSUME NoSeasonAssumption == NoSeason \notin Seasons

VARIABLES
    post,           \* the publication: none, or whether it is official and pinned
    announced,      \* history: what its audience was told, since it is true
    reactions,      \* the reader's rows, oldest first: identity and kind
    note,           \* the author's notifications about its comments
    badgeHeld,      \* rows that give the badge to the member, by season; "no badge"
    device          \* what each request, having read, is about to write

communityVars == <<post, announced, reactions, note, badgeHeld, device>>
-----------------------------------------------------------------------------
NoPost == [there |-> FALSE, official |-> FALSE, pinned |-> FALSE]
Flags == {"official", "pinned"}
AtHand == [does |-> "nothing"]
NotHeld == [s \in Seasons \cup {NoSeason} |-> 0]

CommunityInit ==
    /\ post = NoPost /\ announced = {} /\ reactions = <<>>
    /\ note = [n \in Notes |-> "none"]
    /\ badgeHeld = [exists |-> FALSE, rows |-> NotHeld]
    /\ device = [d \in Devices |-> AtHand]

Begins(d, what) == device[d] = AtHand /\ device' = [device EXCEPT ![d] = what]
Finishes(d) == device' = [device EXCEPT ![d] = AtHand]

(* The publication. *)

CreatePost(official) ==
    /\ ~post.there
    /\ post' = [there |-> TRUE, official |-> official, pinned |-> FALSE]
    /\ announced' = IF official THEN {"official"} ELSE {}
    /\ UNCHANGED <<reactions, note, badgeHeld, device>>

\* Mutant: what the request asks for is written, changed or not.
WritesAll(given) == given

\* An attribute set to the value that was read is not written.
WritesChanged(given) == [x \in {y \in DOMAIN given : given[y] # post[y]} |-> given[x]]

\* notify_post_audience, for each thing the request makes true of the post.
Announces(given) == {x \in DOMAIN given : given[x] /\ ~post[x]}

\* Edited, pinned or unpinned; what becomes true is announced to the audience.
EditPostRead(d, given) ==
    /\ post.there
    /\ Begins(d, [does |-> "edit", writes |-> WritesChanged(given),
                  announces |-> Announces(given)])
    /\ UNCHANGED <<post, announced, reactions, note, badgeHeld>>

EditPostCommit(d) ==
    /\ device[d].does = "edit"
    /\ LET w == device[d].writes
           lowered == {x \in DOMAIN w : ~w[x]}
       IN  IF post.there
           THEN /\ post' = [x \in DOMAIN post |-> IF x \in DOMAIN w THEN w[x] ELSE post[x]]
                /\ announced' = (announced \cup device[d].announces) \ lowered
           ELSE UNCHANGED <<post, announced>>
    /\ Finishes(d)
    /\ UNCHANGED <<reactions, note, badgeHeld>>

\* Its reactions and comments go with it, the notifications stay.
RemovePost ==
    /\ post.there
    /\ post' = NoPost /\ announced' = {} /\ reactions' = <<>>
    /\ UNCHANGED <<note, badgeHeld, device>>

PostNext ==
    \/ \E official \in BOOLEAN : CreatePost(official)
    \/ RemovePost
    \/ \E d \in Devices :
          \/ \E given \in UNION {[S -> BOOLEAN] : S \in SUBSET Flags \ {{}}} :
                EditPostRead(d, given)
          \/ EditPostCommit(d)

(* The reactions of one reader. *)

KindsOf(rows) == {rows[i].kind : i \in DOMAIN rows}
Ids(rows) == {rows[i].id : i \in DOMAIN rows}

\* Mutant: the reactions already there are not looked up.
FoundNothing(rows) == <<>>

Found(rows) == rows

\* The rows left, in order, when those of the identities gone are deleted.
RowsLeft(rows, gone) ==
    LET left[i \in 0..Len(rows)] ==
            IF i = 0 THEN <<>>
            ELSE IF rows[i].id \in gone THEN left[i - 1] ELSE Append(left[i - 1], rows[i])
    IN  left[Len(rows)]

\* The oldest row found is changed and the others are deleted; without one, a row
\* is inserted.
ReactRead(d, k) ==
    /\ post.there
    /\ Begins(d, [does |-> "react", kind |-> k, rows |-> Found(reactions)])
    /\ UNCHANGED <<post, announced, reactions, note, badgeHeld>>

\* uq_post_user_reaction, at the insertion or at the update that comes before the
\* deletions: two rows of the reader are never of one kind.
ReactRefused(r) ==
    IF r.rows = <<>> THEN r.kind \in KindsOf(reactions)
    ELSE /\ r.rows[1].kind # r.kind
         /\ \/ r.rows[1].id \notin Ids(reactions)
            \/ \E i \in DOMAIN reactions : /\ reactions[i].kind = r.kind
                                          /\ reactions[i].id # r.rows[1].id

NewId == CHOOSE n \in 1..(Len(reactions) + 1) : n \notin Ids(reactions)

ReactCommit(d) ==
    LET r == device[d]
    IN  /\ r.does = "react"
        /\ reactions' =
              IF ~post.there \/ ReactRefused(r) THEN reactions
              ELSE IF r.rows = <<>> THEN Append(reactions, [id |-> NewId, kind |-> r.kind])
              ELSE LET kept == RowsLeft(reactions, Ids(Tail(r.rows)))
                   IN  [i \in DOMAIN kept |->
                          IF kept[i].id = r.rows[1].id /\ r.rows[1].kind # r.kind
                          THEN [kept[i] EXCEPT !.kind = r.kind] ELSE kept[i]]
        /\ Finishes(d)
        /\ UNCHANGED <<post, announced, note, badgeHeld>>

\* The rows under a request that is about to change them are gone with this one.
Unreact(i) ==
    /\ i \in DOMAIN reactions
    /\ reactions' = RemoveAt(reactions, i)
    /\ UNCHANGED <<post, announced, note, badgeHeld, device>>

ReactionNext ==
    \/ CreatePost(FALSE) \/ RemovePost
    \/ \E d \in Devices : ReactCommit(d) \/ \E k \in Kinds : ReactRead(d, k)
    \/ \E i \in 1..Len(reactions) : Unreact(i)

(* Comments, and the notification of the author. *)

Unread == {n \in Notes : note[n] = "unread"}

\* Mutant: a notification that was read will do.
AnyNote == {n \in Notes : note[n] # "none"}

\* create_notification: an unread notification about the same thing is not
\* repeated.
Repeated == Unread

CommentRead(d) ==
    /\ post.there
    /\ Begins(d, [does |-> "comment", tells |-> Repeated = {}, touched |-> FALSE])
    /\ UNCHANGED <<post, announced, reactions, note, badgeHeld>>

CommentCommit(d) ==
    /\ device[d].does = "comment"
    /\ IF post.there /\ device[d].tells
       THEN \E n \in Notes : note[n] = "none" /\ note' = [note EXCEPT ![n] = "unread"]
       ELSE UNCHANGED note
    /\ Finishes(d)
    /\ UNCHANGED <<post, announced, reactions, badgeHeld>>

\* The author reads, marks unread or deletes; requests on their way remember it.
AuthorTouches(S, s) ==
    /\ note' = [n \in Notes |-> IF n \in S THEN s ELSE note[n]]
    /\ note' # note
    /\ device' = [d \in Devices |-> IF device[d].does = "comment"
                                    THEN [device[d] EXCEPT !.touched = TRUE] ELSE device[d]]
    /\ UNCHANGED <<post, announced, reactions, badgeHeld>>

MarkRead(n) == note[n] # "none" /\ AuthorTouches({n}, "read")
MarkUnread(n) == note[n] # "none" /\ AuthorTouches({n}, "unread")
MarkAllRead == AuthorTouches(Unread, "read")
DeleteNote(n) == AuthorTouches({n}, "none")

CommentNext ==
    \/ CreatePost(FALSE) \/ RemovePost \/ MarkAllRead
    \/ \E d \in Devices : CommentRead(d) \/ CommentCommit(d)
    \/ \E n \in Notes : MarkRead(n) \/ MarkUnread(n) \/ DeleteNote(n)

(* A badge. *)

\* Created by hand or by init_default_badges; deleted with its awards.
CreateBadge ==
    /\ ~badgeHeld.exists
    /\ badgeHeld' = [badgeHeld EXCEPT !.exists = TRUE]
    /\ UNCHANGED <<post, announced, reactions, note, device>>

DeleteBadge ==
    /\ badgeHeld.exists
    /\ badgeHeld' = [exists |-> FALSE, rows |-> NotHeld]
    /\ UNCHANGED <<post, announced, reactions, note, device>>

\* An award that is there is returned as it is.
AwardRead(d, s) ==
    /\ badgeHeld.exists /\ badgeHeld.rows[s] = 0
    /\ Begins(d, [does |-> "award", season |-> s])
    /\ UNCHANGED <<post, announced, reactions, note, badgeHeld>>

\* Mutant: the award is not unique.
NeverAwarded(s) == FALSE

\* uq_user_badge_season does not hold without a season: NULLs are distinct.
AlreadyAwarded(s) == s # NoSeason /\ badgeHeld.rows[s] > 0

AwardCommit(d) ==
    LET s == device[d].season
    IN  /\ device[d].does = "award"
        /\ badgeHeld' = IF ~badgeHeld.exists \/ AlreadyAwarded(s) THEN badgeHeld
                        ELSE [badgeHeld EXCEPT !.rows[s] = @ + 1]
        /\ Finishes(d)
        /\ UNCHANGED <<post, announced, reactions, note>>

RemoveAward(s) ==
    /\ badgeHeld.rows[s] > 0
    /\ badgeHeld' = [badgeHeld EXCEPT !.rows[s] = @ - 1]
    /\ UNCHANGED <<post, announced, reactions, note, device>>

HonourNext ==
    \/ CreateBadge \/ DeleteBadge
    \/ \E s \in Seasons \cup {NoSeason} :
          RemoveAward(s) \/ \E d \in Devices : AwardRead(d, s)
    \/ \E d \in Devices : AwardCommit(d)

-----------------------------------------------------------------------------
CommunityTypeOK ==
    /\ post \in [there : BOOLEAN, official : BOOLEAN, pinned : BOOLEAN]
    /\ announced \subseteq Flags
    /\ \A i \in DOMAIN reactions : reactions[i].kind \in Kinds
    /\ note \in [Notes -> {"none", "unread", "read"}]

\* What a publication is, its audience was told since it became so, whoever edits
\* it at the same time; a reader never has more reactions on it than requests that
\* were under way together, and never two of one kind; a badge is held once in a
\* season.
CommunityInv ==
    /\ CommunityTypeOK
    /\ \A x \in Flags : post[x] => x \in announced
    /\ Len(reactions) <= Cardinality(Devices)
    /\ \A i, j \in DOMAIN reactions : reactions[i].kind = reactions[j].kind => i = j
    /\ \A s \in Seasons : badgeHeld.rows[s] <= 1

\* A comment that is committed leaves its author something unread, unless he read
\* or deleted a notification while the comment was on its way.
CommentsAreHeard ==
    [][\A d \in Devices :
          /\ device[d].does = "comment" /\ device'[d] = AtHand
          /\ post.there /\ ~device[d].touched
          => \E n \in Notes : note'[n] = "unread"]_communityVars

\* A reader has one reaction on a publication.
OneReactionPerReader == Len(reactions) <= 1
=============================================================================
