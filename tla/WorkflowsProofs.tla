-------------------------- MODULE WorkflowsProofs --------------------------
(***************************************************************************)
(* What a publication promises its readers and its author, and the theorems *)
(* about the workflows of the club taken together.                          *)
(***************************************************************************)
EXTENDS WorkflowsMC, ClubProofs, RecordsProofs, SequenceTheorems, WellFoundedInduction

(* Induction over numbers, as the least counterexample. *)

\* A set of natural numbers that is not empty has a least element.
LEMMA LeastNumber ==
  ASSUME NEW T \in SUBSET Nat, T # {}
  PROVE  \E n \in T : \A m \in T : ~(m < n)
<1>1. IsWellFoundedOn(OpToRel(<, Nat), Nat)
  BY NatLessThanWellFounded
<1>2. PICK n \in T : \A y \in T : <<y, n>> \notin OpToRel(<, Nat)
  BY <1>1, WFMin
<1> QED
  BY <1>2 DEF OpToRel

(* The rows left by a deletion. *)

Row == [id : Nat, kind : Kinds]
IdsDiffer(rows) == \A i, j \in DOMAIN rows : rows[i].id = rows[j].id => i = j
KindsDiffer(rows) == \A i, j \in DOMAIN rows : rows[i].kind = rows[j].kind => i = j

\* g is the table of the rows left among the first 0, 1, ... n of them.
IsTable(g, n, rows, gone) ==
    g = [i \in 0..n |-> IF i = 0 THEN <<>>
                        ELSE IF rows[i].id \in gone THEN g[i - 1]
                        ELSE Append(g[i - 1], rows[i])]

\* The recursion of RowsLeft has a solution, and RowsLeft is its last entry.
LEMMA RowsLeftTable ==
  ASSUME NEW rows, NEW gone, Len(rows) \in Nat
  PROVE  \E g : IsTable(g, Len(rows), rows, gone) /\ RowsLeft(rows, gone) = g[Len(rows)]
<1> DEFINE Bad == {n \in Nat : ~\E g : IsTable(g, n, rows, gone)}
<1>1. Bad = {}
  <2> SUFFICES ASSUME Bad # {} PROVE FALSE
    OBVIOUS
  <2>1. PICK n \in Bad : \A m \in Bad : ~(m < n)
    BY LeastNumber
  <2>2. CASE n = 0
    <3>1. IsTable([i \in 0..0 |-> <<>>], 0, rows, gone)
      BY DEF IsTable
    <3> QED
      BY <2>1, <2>2, <3>1
  <2>3. CASE n # 0
    <3>1. n \in Nat /\ n - 1 \in Nat /\ n - 1 < n
      BY <2>1, <2>3
    <3>2. PICK g : IsTable(g, n - 1, rows, gone)
      BY <2>1, <3>1
    <3> DEFINE last == IF rows[n].id \in gone THEN g[n - 1] ELSE Append(g[n - 1], rows[n])
               h == [i \in 0..n |-> IF i = n THEN last ELSE g[i]]
               step(f, i) == IF i = 0 THEN <<>> ELSE IF rows[i].id \in gone THEN f[i - 1]
                             ELSE Append(f[i - 1], rows[i])
    <3>3. \A i \in 0..n : h[i] = step(h, i)
      <4> SUFFICES ASSUME NEW i \in 0..n PROVE h[i] = step(h, i)
        OBVIOUS
      <4>1. CASE i = n
        <5>1. h[n - 1] = g[n - 1]
          BY <3>1
        <5> QED
          BY <3>1, <4>1, <5>1, <2>3
      <4>2. CASE i # n
        <5>1. i \in 0..(n - 1)
          BY <3>1, <4>2
        <5>2. g[i] = step(g, i)
          BY <3>2, <5>1 DEF IsTable
        <5>3. i # 0 => h[i - 1] = g[i - 1]
          BY <3>1, <5>1
        <5> QED
          BY <3>1, <4>2, <5>2, <5>3
      <4> QED
        BY <4>1, <4>2
    <3>4. h = [i \in 0..n |-> step(h, i)]
      <4> HIDE DEF step
      <4> QED
        BY <3>3
    <3>5. IsTable(h, n, rows, gone)
      BY <3>4 DEF IsTable
    <3> QED
      BY <2>1, <3>5
  <2> QED
    BY <2>2, <2>3
<1>2. \E g : IsTable(g, Len(rows), rows, gone)
  BY <1>1
<1>3. IsTable(CHOOSE g : IsTable(g, Len(rows), rows, gone), Len(rows), rows, gone)
  BY <1>2
<1>4. RowsLeft(rows, gone) = (CHOOSE g : IsTable(g, Len(rows), rows, gone))[Len(rows)]
  BY DEF RowsLeft, IsTable
<1> QED
  BY <1>3, <1>4

\* s is made of rows among the first n, each at most once.
Among(s, n, rows) ==
    /\ s \in Seq(Row) /\ Len(s) <= n
    /\ \A i \in DOMAIN s : \E x \in 1..n : s[i] = rows[x]
    /\ IdsDiffer(s)

\* What a deletion leaves are rows that were there, each once.
LEMMA RowsLeftAmong ==
  ASSUME NEW rows \in Seq(Row), NEW gone, IdsDiffer(rows)
  PROVE  Among(RowsLeft(rows, gone), Len(rows), rows)
<1>1. Len(rows) \in Nat
  OBVIOUS
<1>2. PICK g : IsTable(g, Len(rows), rows, gone) /\ RowsLeft(rows, gone) = g[Len(rows)]
  BY <1>1, RowsLeftTable
<1> DEFINE Bad == {n \in 0..Len(rows) : ~Among(g[n], n, rows)}
<1>3. Bad = {}
  <2> SUFFICES ASSUME Bad # {} PROVE FALSE
    OBVIOUS
  <2>1. Bad \subseteq Nat
    BY <1>1
  <2>2. PICK n \in Bad : \A m \in Bad : ~(m < n)
    BY <2>1, LeastNumber
  <2>3. n \in 0..Len(rows) /\ n \in Nat /\ ~Among(g[n], n, rows)
    BY <1>1, <2>2
  <2>4. g[n] = IF n = 0 THEN <<>> ELSE IF rows[n].id \in gone THEN g[n - 1]
               ELSE Append(g[n - 1], rows[n])
    BY <1>2, <2>3 DEF IsTable
  <2>5. CASE n = 0
    <3>1. g[n] = <<>>
      BY <2>4, <2>5
    <3>2. Among(<<>>, 0, rows)
      BY DEF Among, IdsDiffer
    <3> QED
      BY <2>3, <2>5, <3>1, <3>2
  <2>6. CASE n # 0
    <3> DEFINE s == g[n - 1]
    <3>1. n - 1 \in 0..Len(rows) /\ n - 1 < n /\ n \in DOMAIN rows
      BY <1>1, <2>3, <2>6
    <3>2. Among(s, n - 1, rows)
      BY <2>2, <3>1
    <3> HIDE DEF s
    <3>3. /\ s \in Seq(Row) /\ Len(s) \in Nat /\ Len(s) <= n - 1 /\ DOMAIN s = 1..Len(s)
          /\ \A i \in DOMAIN s : \E x \in 1..(n - 1) : s[i] = rows[x]
      BY <3>2 DEF Among
    <3>4. rows[n] \in Row
      BY <3>1
    <3>5. \A i \in DOMAIN s : s[i].id # rows[n].id
      <4> SUFFICES ASSUME NEW i \in DOMAIN s PROVE s[i].id # rows[n].id
        OBVIOUS
      <4>1. PICK x \in 1..(n - 1) : s[i] = rows[x]
        BY <3>3
      <4>2. x \in DOMAIN rows /\ x # n
        BY <2>3, <3>1
      <4> QED
        BY <3>1, <4>1, <4>2 DEF IdsDiffer
    <3>6. Among(s, n, rows)
      BY <2>3, <3>2, <3>3 DEF Among
    <3>7. Among(Append(s, rows[n]), n, rows)
      <4> DEFINE t == Append(s, rows[n])
      <4>1. /\ t \in Seq(Row) /\ Len(t) = Len(s) + 1 /\ DOMAIN t = 1..(Len(s) + 1)
            /\ t[Len(s) + 1] = rows[n] /\ \A i \in 1..Len(s) : t[i] = s[i]
        BY <3>3, <3>4
      <4> HIDE DEF t
      <4>2. \A i \in DOMAIN t : \E x \in 1..n : t[i] = rows[x]
        BY <2>3, <2>6, <3>3, <4>1
      <4>3. IdsDiffer(t)
        <5> SUFFICES ASSUME NEW i \in DOMAIN t, NEW j \in DOMAIN t, t[i].id = t[j].id
                     PROVE  i = j
          BY DEF IdsDiffer
        <5>1. (i \in DOMAIN s \/ i = Len(s) + 1) /\ (j \in DOMAIN s \/ j = Len(s) + 1)
          BY <3>3, <4>1
        <5>2. CASE i \in DOMAIN s /\ j \in DOMAIN s
          <6>1. s[i].id = s[j].id
            BY <3>3, <4>1, <5>2
          <6> QED
            BY <3>2, <5>2, <6>1 DEF Among, IdsDiffer
        <5>3. CASE i = Len(s) + 1 \/ j = Len(s) + 1
          BY <3>3, <3>5, <4>1, <5>1, <5>3
        <5> QED
          BY <5>1, <5>2, <5>3
      <4>4. Len(t) <= n
        BY <2>3, <3>3, <4>1
      <4> QED
        BY <4>1, <4>2, <4>3, <4>4 DEF Among, t
    <3> QED
      BY <2>3, <2>4, <2>6, <3>6, <3>7 DEF s
  <2> QED
    BY <2>5, <2>6
<1> QED
  BY <1>1, <1>2, <1>3
-----------------------------------------------------------------------------
(* Publications. *)

Edits == [does : {"edit"}, writes : UNION {[S -> BOOLEAN] : S \in SUBSET Flags},
          announces : SUBSET Flags]
Reacts == [does : {"react"}, kind : Kinds, rows : Seq(Row)]
Comments == [does : {"comment"}, tells : BOOLEAN, touched : BOOLEAN]
Awards == [does : {"award"}, season : Seasons \cup {NoSeason}]
Errands == {AtHand} \cup Edits \cup Reacts \cup Comments \cup Awards

\* The requests that found no reaction and will insert one.
Inserting == {d \in Devices : device[d].does = "react" /\ device[d].rows = <<>>}

CommunityRecordsOK ==
    /\ post \in [there : BOOLEAN, official : BOOLEAN, pinned : BOOLEAN]
    /\ announced \subseteq Flags
    /\ reactions \in Seq(Row)
    /\ note \in [Notes -> {"none", "unread", "read"}]
    /\ badgeHeld \in [exists : BOOLEAN, rows : [Seasons \cup {NoSeason} -> Nat]]
    /\ device \in [Devices -> Errands]

\* What an edit is about to make true it is about to announce.
AudienceIsTold ==
    /\ \A x \in Flags : post[x] => x \in announced
    /\ \A d \in Devices : device[d].does = "edit" =>
          \A x \in DOMAIN device[d].writes : device[d].writes[x] => x \in device[d].announces

\* The rows there are and those about to be inserted were asked for by requests
\* that were under way together.
ReactionsBounded ==
    /\ IdsDiffer(reactions) /\ KindsDiffer(reactions)
    /\ Len(reactions) + Cardinality(Inserting) <= Cardinality(Devices)

\* A comment that tells nothing has seen an unread notification, which is still
\* there if the author touched none.
AuthorWillHear ==
    \A d \in Devices :
       device[d].does = "comment" /\ ~device[d].tells /\ ~device[d].touched => Unread # {}

BadgeHeldOnce == \A s \in Seasons : badgeHeld.rows[s] <= 1

CommunityIInv ==
    CommunityRecordsOK /\ AudienceIsTold /\ ReactionsBounded /\ AuthorWillHear /\ BadgeHeldOnce

LEMMA InsertingFinite ==
    /\ IsFiniteSet(Devices) /\ Cardinality(Devices) \in Nat
    /\ IsFiniteSet(Inserting) /\ Cardinality(Inserting) \in Nat
    /\ Cardinality(Inserting) <= Cardinality(Devices)
<1>1. Inserting \subseteq Devices
  BY DEF Inserting
<1> QED
  BY <1>1, DevicesAssumption, FS_CardinalityType, FS_Subset

\* The invariant says what the module promises.
LEMMA CommunityIInvImplies ==
  ASSUME CommunityIInv PROVE CommunityInv
<1>1. Len(reactions) <= Cardinality(Devices)
  <2>1. Len(reactions) \in Nat
    BY DEF CommunityIInv, CommunityRecordsOK
  <2> QED
    BY <2>1, InsertingFinite DEF CommunityIInv, ReactionsBounded
<1>2. \A i \in DOMAIN reactions : reactions[i].kind \in Kinds
  <2>1. \A i \in DOMAIN reactions : reactions[i] \in Row
    BY DEF CommunityIInv, CommunityRecordsOK
  <2> QED
    BY <2>1 DEF Row
<1>3. CommunityTypeOK
  BY <1>2 DEF CommunityIInv, CommunityRecordsOK, CommunityTypeOK
<1>4. \A i, j \in DOMAIN reactions : reactions[i].kind = reactions[j].kind => i = j
  BY DEF CommunityIInv, ReactionsBounded, KindsDiffer
<1> QED
  BY <1>1, <1>3, <1>4 DEF CommunityIInv, AudienceIsTold, BadgeHeldOnce, CommunityInv

LEMMA CommunityInitInv ==
  ASSUME CommunityInit PROVE CommunityIInv
<1>1. \A d \in Devices : device[d] = AtHand
  BY DEF CommunityInit
<1>2. CommunityRecordsOK
  <2>1. device \in [Devices -> Errands]
    BY DEF CommunityInit, Errands
  <2>2. badgeHeld \in [exists : BOOLEAN, rows : [Seasons \cup {NoSeason} -> Nat]]
    BY DEF CommunityInit, NotHeld
  <2>3. note \in [Notes -> {"none", "unread", "read"}]
    BY DEF CommunityInit
  <2> QED
    BY <2>1, <2>2, <2>3 DEF CommunityInit, CommunityRecordsOK, NoPost
<1>3. AudienceIsTold
  BY <1>1 DEF CommunityInit, AudienceIsTold, NoPost, AtHand, Flags
<1>4. ReactionsBounded
  <2>1. Inserting = {}
    BY <1>1 DEF Inserting, AtHand
  <2>2. Len(reactions) = 0 /\ Cardinality(Inserting) = 0
    BY <2>1, FS_EmptySet DEF CommunityInit
  <2>3. IdsDiffer(reactions) /\ KindsDiffer(reactions)
    BY DEF CommunityInit, IdsDiffer, KindsDiffer
  <2> QED
    BY <2>2, <2>3, InsertingFinite DEF ReactionsBounded
<1>5. AuthorWillHear
  BY <1>1 DEF AuthorWillHear, AtHand
<1>6. BadgeHeldOnce
  BY DEF CommunityInit, BadgeHeldOnce, NotHeld
<1> QED
  BY <1>2, <1>3, <1>4, <1>5, <1>6 DEF CommunityIInv

\* An errand is of the kind it says.
LEMMA ErrandKinds ==
  ASSUME NEW x \in Errands
  PROVE  /\ x.does \in {"nothing", "edit", "react", "comment", "award"}
         /\ x.does = "nothing" => x = AtHand
         /\ x.does = "edit" => x \in Edits
         /\ x.does = "react" => x \in Reacts
         /\ x.does = "comment" => x \in Comments
         /\ x.does = "award" => x \in Awards
  BY DEF Errands, AtHand, Edits, Reacts, Comments, Awards

LEMMA BeginsErrand ==
  ASSUME CommunityIInv, NEW d \in Devices, NEW what \in Errands, Begins(d, what)
  PROVE  /\ device[d] = AtHand /\ device' \in [Devices -> Errands]
         /\ device'[d] = what /\ \A e \in Devices : e # d => device'[e] = device[e]
  BY DEF CommunityIInv, CommunityRecordsOK, Begins

LEMMA FinishesErrand ==
  ASSUME CommunityIInv, NEW d \in Devices, Finishes(d)
  PROVE  /\ device' \in [Devices -> Errands]
         /\ device'[d] = AtHand /\ \A e \in Devices : e # d => device'[e] = device[e]
  BY DEF CommunityIInv, CommunityRecordsOK, Finishes, Errands

(* What keeps each part of the invariant.  An errand is new to a kind when it is *)
(* of that kind and was not there.                                               *)

NewErrands(kind) == {d \in Devices : device'[d].does = kind /\ device'[d] # device[d]}

LEMMA AudienceKept ==
  ASSUME CommunityIInv, UNCHANGED <<post, announced>>, NewErrands("edit") = {}
  PROVE  AudienceIsTold'
<1>1. \A d \in Devices : device'[d].does = "edit" => device'[d] = device[d]
  BY DEF NewErrands
<1>2. AudienceIsTold
  BY DEF CommunityIInv
<1> QED
  BY <1>1, <1>2 DEF AudienceIsTold

LEMMA CountKept ==
  ASSUME CommunityIInv, Inserting' \subseteq Inserting,
         Len(reactions') \in Nat, Len(reactions') <= Len(reactions)
  PROVE  Len(reactions') + Cardinality(Inserting') <= Cardinality(Devices)
<1>1. Cardinality(Inserting') \in Nat /\ Cardinality(Inserting') <= Cardinality(Inserting)
  BY InsertingFinite, FS_Subset, FS_CardinalityType
<1>2. Len(reactions) \in Nat
  BY DEF CommunityIInv, CommunityRecordsOK
<1> QED
  BY <1>1, <1>2, InsertingFinite DEF CommunityIInv, ReactionsBounded

LEMMA ReactionsKept ==
  ASSUME CommunityIInv, UNCHANGED reactions, NewErrands("react") = {}
  PROVE  ReactionsBounded'
<1>1. \A d \in Devices : device'[d].does = "react" => device'[d] = device[d]
  BY DEF NewErrands
<1>2. Inserting' \subseteq Inserting
  BY <1>1 DEF Inserting
<1>3. Len(reactions') \in Nat /\ Len(reactions') <= Len(reactions)
  BY DEF CommunityIInv, CommunityRecordsOK
<1>4. IdsDiffer(reactions) /\ KindsDiffer(reactions)
  BY DEF CommunityIInv, ReactionsBounded
<1>5. IdsDiffer(reactions') /\ KindsDiffer(reactions')
  BY <1>4
<1> QED
  BY <1>2, <1>3, <1>5, CountKept DEF ReactionsBounded

LEMMA HearingKept ==
  ASSUME CommunityIInv, UNCHANGED note, NewErrands("comment") = {}
  PROVE  AuthorWillHear'
<1>1. \A d \in Devices : device'[d].does = "comment" => device'[d] = device[d]
  BY DEF NewErrands
<1>2. AuthorWillHear /\ Unread' = Unread
  BY DEF CommunityIInv, Unread
<1> QED
  BY <1>1, <1>2 DEF AuthorWillHear

LEMMA BadgeKept ==
  ASSUME CommunityIInv, UNCHANGED badgeHeld
  PROVE  BadgeHeldOnce'
  BY DEF CommunityIInv, BadgeHeldOnce

\* A request that begins is new to its own kind only, one that ends to none.
LEMMA BeginsNewErrands ==
  ASSUME CommunityIInv, NEW d \in Devices, NEW what \in Errands, Begins(d, what),
         NEW kind, kind # what.does
  PROVE  NewErrands(kind) = {}
  BY BeginsErrand DEF NewErrands

LEMMA FinishesNewErrands ==
  ASSUME CommunityIInv, NEW d \in Devices, Finishes(d), NEW kind, kind # "nothing"
  PROVE  NewErrands(kind) = {}
  BY FinishesErrand DEF NewErrands, AtHand

LEMMA IdleNewErrands ==
  ASSUME UNCHANGED device, NEW kind
  PROVE  NewErrands(kind) = {}
  BY DEF NewErrands

\* The step of a comment that is committed.
StepHeard ==
    \A d \in Devices :
       /\ device[d].does = "comment" /\ device'[d] = AtHand
       /\ post.there /\ ~device[d].touched
       => \E n \in Notes : note'[n] = "unread"

\* Nobody else ends a comment.
CommentsGoOn == \A d \in Devices : device[d].does = "comment" => device'[d].does = "comment"

LEMMA CommentsGoOnHeard ==
  ASSUME CommentsGoOn PROVE StepHeard
  BY DEF CommentsGoOn, StepHeard, AtHand

LEMMA BeginsGoOn ==
  ASSUME CommunityIInv, NEW d \in Devices, NEW what \in Errands, Begins(d, what)
  PROVE  CommentsGoOn
  BY BeginsErrand DEF CommentsGoOn, AtHand

LEMMA FinishesGoOn ==
  ASSUME CommunityIInv, NEW d \in Devices, Finishes(d), device[d].does # "comment"
  PROVE  CommentsGoOn
  BY FinishesErrand DEF CommentsGoOn

LEMMA IdleGoOn ==
  ASSUME UNCHANGED device PROVE CommentsGoOn
  BY DEF CommentsGoOn

LEMMA CreatePostStep ==
  ASSUME CommunityIInv, NEW official \in BOOLEAN, CreatePost(official)
  PROVE  CommunityIInv' /\ StepHeard
<1> USE DEF CreatePost
<1>1. \A kind : NewErrands(kind) = {}
  BY IdleNewErrands
<1>2. CommunityRecordsOK'
  <2>1. post' \in [there : BOOLEAN, official : BOOLEAN, pinned : BOOLEAN]
    OBVIOUS
  <2>2. announced' \subseteq Flags
    BY DEF Flags
  <2> QED
    BY <2>1, <2>2 DEF CommunityIInv, CommunityRecordsOK
<1>3. AudienceIsTold'
  <2>1. \A x \in Flags : post'[x] => x \in announced'
    BY DEF Flags
  <2> QED
    BY <2>1 DEF CommunityIInv, AudienceIsTold
<1>4. ReactionsBounded' /\ AuthorWillHear' /\ BadgeHeldOnce'
  BY <1>1, ReactionsKept, HearingKept, BadgeKept
<1> QED
  BY <1>2, <1>3, <1>4, IdleGoOn, CommentsGoOnHeard DEF CommunityIInv

LEMMA RemovePostStep ==
  ASSUME CommunityIInv, RemovePost
  PROVE  CommunityIInv' /\ StepHeard
<1> USE DEF RemovePost
<1>1. \A kind : NewErrands(kind) = {}
  BY IdleNewErrands
<1>2. CommunityRecordsOK'
  <2>1. post' \in [there : BOOLEAN, official : BOOLEAN, pinned : BOOLEAN]
    BY DEF NoPost
  <2>2. announced' \subseteq Flags /\ reactions' \in Seq(Row)
    OBVIOUS
  <2> QED
    BY <2>1, <2>2 DEF CommunityIInv, CommunityRecordsOK
<1>3. AudienceIsTold'
  <2>1. \A x \in Flags : ~post'[x]
    BY DEF Flags, NoPost
  <2> QED
    BY <2>1 DEF CommunityIInv, AudienceIsTold
<1>4. ReactionsBounded'
  <2>1. Inserting' \subseteq Inserting
    BY DEF Inserting
  <2>2. Len(reactions') = 0 /\ DOMAIN reactions' = {}
    OBVIOUS
  <2>3. IdsDiffer(reactions') /\ KindsDiffer(reactions')
    BY <2>2 DEF IdsDiffer, KindsDiffer
  <2>4. Len(reactions') \in Nat /\ Len(reactions') <= Len(reactions)
    BY <2>2 DEF CommunityIInv, CommunityRecordsOK
  <2> QED
    BY <2>1, <2>3, <2>4, CountKept DEF ReactionsBounded
<1>5. AuthorWillHear' /\ BadgeHeldOnce'
  BY <1>1, HearingKept, BadgeKept
<1> QED
  BY <1>2, <1>3, <1>4, <1>5, IdleGoOn, CommentsGoOnHeard DEF CommunityIInv

LEMMA EditPostReadStep ==
  ASSUME CommunityIInv, NEW d \in Devices, NEW S \in SUBSET Flags, NEW given \in [S -> BOOLEAN],
         EditPostRead(d, given)
  PROVE  CommunityIInv' /\ StepHeard
<1> DEFINE what == [does |-> "edit", writes |-> WritesChanged(given),
                    announces |-> Announces(given)]
<1>1. /\ Begins(d, what) /\ UNCHANGED <<post, announced, reactions, note, badgeHeld>>
  BY DEF EditPostRead
<1>2. /\ WritesChanged(given) \in [{y \in S : given[y] # post[y]} -> BOOLEAN]
      /\ \A x \in DOMAIN WritesChanged(given) :
            WritesChanged(given)[x] => x \in Announces(given)
  <2>1. \A x \in S : post[x] \in BOOLEAN
    BY DEF CommunityIInv, CommunityRecordsOK, Flags
  <2> QED
    BY <2>1 DEF WritesChanged, Announces
<1>3. what \in Errands
  <2>1. WritesChanged(given) \in UNION {[T -> BOOLEAN] : T \in SUBSET Flags}
    <3>1. {y \in S : given[y] # post[y]} \in SUBSET Flags
      OBVIOUS
    <3> QED
      BY <1>2, <3>1
  <2>2. Announces(given) \subseteq Flags
    BY DEF Announces
  <2>3. what \in Edits
    BY <2>1, <2>2 DEF Edits
  <2> QED
    BY <2>3 DEF Errands
<1>4. /\ device' \in [Devices -> Errands] /\ device'[d] = what
      /\ \A e \in Devices : e # d => device'[e] = device[e]
  BY <1>1, <1>3, BeginsErrand
<1>5. AudienceIsTold'
  <2>1. /\ device'[d].writes = WritesChanged(given)
        /\ device'[d].announces = Announces(given)
    BY <1>4
  <2> HIDE DEF what
  <2>2. AudienceIsTold
    BY DEF CommunityIInv
  <2> QED
    BY <1>1, <1>2, <1>4, <2>1, <2>2 DEF AudienceIsTold
<1>6. CommunityRecordsOK'
  BY <1>1, <1>4 DEF CommunityIInv, CommunityRecordsOK
<1>7. NewErrands("react") = {} /\ NewErrands("comment") = {}
  BY <1>1, <1>3, BeginsNewErrands
<1>8. ReactionsBounded' /\ AuthorWillHear' /\ BadgeHeldOnce'
  BY <1>1, <1>7, ReactionsKept, HearingKept, BadgeKept
<1>9. StepHeard
  BY <1>1, <1>3, BeginsGoOn, CommentsGoOnHeard
<1> QED
  BY <1>5, <1>6, <1>8, <1>9 DEF CommunityIInv

LEMMA EditPostCommitStep ==
  ASSUME CommunityIInv, NEW d \in Devices, EditPostCommit(d)
  PROVE  CommunityIInv' /\ StepHeard
<1> DEFINE w == device[d].writes
           lowered == {x \in DOMAIN w : ~w[x]}
<1>1. /\ device[d].does = "edit" /\ Finishes(d) /\ UNCHANGED <<reactions, note, badgeHeld>>
      /\ IF post.there
         THEN /\ post' = [x \in DOMAIN post |-> IF x \in DOMAIN w THEN w[x] ELSE post[x]]
              /\ announced' = (announced \cup device[d].announces) \ lowered
         ELSE UNCHANGED <<post, announced>>
  BY DEF EditPostCommit
<1>2. PICK T \in SUBSET Flags : w \in [T -> BOOLEAN]
  <2>1. device[d] \in Errands
    BY DEF CommunityIInv, CommunityRecordsOK
  <2>2. device[d] \in Edits
    BY <1>1, <2>1, ErrandKinds
  <2> QED
    BY <2>2 DEF Edits
<1>3. device[d].announces \subseteq Flags
  <2>1. device[d] \in Errands
    BY DEF CommunityIInv, CommunityRecordsOK
  <2>2. device[d] \in Edits
    BY <1>1, <2>1, ErrandKinds
  <2> QED
    BY <2>2 DEF Edits
<1>4. \A x \in DOMAIN w : w[x] => x \in device[d].announces
  BY <1>1 DEF CommunityIInv, AudienceIsTold
<1> HIDE DEF w
<1>5. /\ post' \in [there : BOOLEAN, official : BOOLEAN, pinned : BOOLEAN]
      /\ announced' \subseteq Flags
      /\ \A x \in Flags : post'[x] => x \in announced'
  <2>1. CASE ~post.there
    BY <1>1, <2>1 DEF CommunityIInv, CommunityRecordsOK, AudienceIsTold
  <2>2. CASE post.there
    <3>1. /\ post \in [there : BOOLEAN, official : BOOLEAN, pinned : BOOLEAN]
          /\ announced \subseteq Flags /\ \A x \in Flags : post[x] => x \in announced
      BY DEF CommunityIInv, CommunityRecordsOK, AudienceIsTold
    <3>2. DOMAIN post = {"there", "official", "pinned"}
      BY <3>1
    <3>3. post' = [there |-> post.there,
                   official |-> IF "official" \in T THEN w["official"] ELSE post.official,
                   pinned |-> IF "pinned" \in T THEN w["pinned"] ELSE post.pinned]
      BY <1>1, <1>2, <2>2, <3>1, <3>2 DEF Flags
    <3>4. post' \in [there : BOOLEAN, official : BOOLEAN, pinned : BOOLEAN]
      BY <1>2, <3>1, <3>3
    <3>5. announced' = (announced \cup device[d].announces) \ {x \in T : ~w[x]}
      BY <1>1, <1>2, <2>2
    <3>6. \A x \in Flags : post'[x] = IF x \in T THEN w[x] ELSE post[x]
      BY <3>3 DEF Flags
    <3>7. \A x \in Flags : post'[x] => x \in announced'
      BY <1>2, <1>4, <3>1, <3>5, <3>6
    <3> QED
      BY <1>3, <3>1, <3>4, <3>5, <3>7
  <2> QED
    BY <2>1, <2>2
<1>6. /\ device' \in [Devices -> Errands] /\ device'[d] = AtHand
      /\ \A e \in Devices : e # d => device'[e] = device[e]
  BY <1>1, FinishesErrand
<1>7. CommunityRecordsOK'
  BY <1>1, <1>5, <1>6 DEF CommunityIInv, CommunityRecordsOK
<1>8. AudienceIsTold'
  <2>1. AudienceIsTold
    BY DEF CommunityIInv
  <2> QED
    BY <1>5, <1>6, <2>1 DEF AudienceIsTold, AtHand
<1>9. NewErrands("react") = {} /\ NewErrands("comment") = {}
  BY <1>1, FinishesNewErrands
<1>10. ReactionsBounded' /\ AuthorWillHear' /\ BadgeHeldOnce'
  BY <1>1, <1>9, ReactionsKept, HearingKept, BadgeKept
<1>11. StepHeard
  BY <1>1, FinishesGoOn, CommentsGoOnHeard
<1> QED
  BY <1>7, <1>8, <1>10, <1>11 DEF CommunityIInv

LEMMA PostsStep ==
  ASSUME CommunityIInv, PostNext
  PROVE  CommunityIInv' /\ StepHeard
<1>1. CASE \E official \in BOOLEAN : CreatePost(official)
  BY <1>1, CreatePostStep
<1>2. CASE RemovePost
  BY <1>2, RemovePostStep
<1>3. ASSUME NEW d \in Devices,
             NEW given \in UNION {[S -> BOOLEAN] : S \in SUBSET Flags \ {{}}},
             EditPostRead(d, given)
      PROVE  CommunityIInv' /\ StepHeard
  BY <1>3, EditPostReadStep
<1>4. ASSUME NEW d \in Devices, EditPostCommit(d)
      PROVE  CommunityIInv' /\ StepHeard
  BY <1>4, EditPostCommitStep
<1> QED
  BY <1>1, <1>2, <1>3, <1>4 DEF PostNext
-----------------------------------------------------------------------------
(* Reactions. *)

LEMMA RemoveAtRows ==
  ASSUME NEW R, NEW s \in Seq(R), NEW i \in DOMAIN s
  PROVE  /\ RemoveAt(s, i) \in Seq(R) /\ Len(RemoveAt(s, i)) = Len(s) - 1
         /\ \A j \in 1..(Len(s) - 1) : RemoveAt(s, i)[j] = IF j < i THEN s[j] ELSE s[j + 1]
<1> DEFINE a == SubSeq(s, 1, i - 1)
           b == SubSeq(s, i + 1, Len(s))
<1>1. i \in 1..Len(s) /\ Len(s) \in Nat
  OBVIOUS
<1>2. a \in Seq(R) /\ Len(a) = i - 1 /\ \A j \in 1..(i - 1) : a[j] = s[j]
  BY <1>1
<1>3. b \in Seq(R) /\ Len(b) = Len(s) - i /\ \A j \in 1..(Len(s) - i) : b[j] = s[i + j]
  BY <1>1
<1>4. RemoveAt(s, i) = a \o b
  BY DEF RemoveAt
<1> HIDE DEF a, b
<1>5. a \o b \in Seq(R) /\ Len(a \o b) = Len(s) - 1
  BY <1>1, <1>2, <1>3
<1>6. \A j \in 1..(Len(s) - 1) : (a \o b)[j] = IF j < i THEN s[j] ELSE s[j + 1]
  <2> SUFFICES ASSUME NEW j \in 1..(Len(s) - 1)
               PROVE  (a \o b)[j] = IF j < i THEN s[j] ELSE s[j + 1]
    OBVIOUS
  <2>1. (a \o b)[j] = IF j <= Len(a) THEN a[j] ELSE b[j - Len(a)]
    BY <1>1, <1>2, <1>3
  <2>2. CASE j < i
    BY <1>1, <1>2, <2>1, <2>2
  <2>3. CASE ~(j < i)
    <3> DEFINE k == j - (i - 1)
    <3>1. k \in 1..(Len(s) - i) /\ i + k = j + 1 /\ k = j - Len(a) /\ ~(j <= Len(a))
      BY <1>1, <1>2, <2>3
    <3> HIDE DEF k
    <3>2. (a \o b)[j] = b[k] /\ b[k] = s[i + k]
      BY <1>3, <2>1, <3>1
    <3> QED
      BY <2>3, <3>1, <3>2
  <2> QED
    BY <2>2, <2>3
<1> QED
  BY <1>4, <1>5, <1>6

LEMMA UnreactStep ==
  ASSUME CommunityIInv, NEW i \in 1..Len(reactions), Unreact(i)
  PROVE  CommunityIInv' /\ StepHeard
<1> USE DEF Unreact
<1>1. \A kind : NewErrands(kind) = {}
  BY IdleNewErrands
<1>2. /\ reactions \in Seq(Row) /\ i \in DOMAIN reactions
      /\ IdsDiffer(reactions) /\ KindsDiffer(reactions)
  BY DEF CommunityIInv, CommunityRecordsOK, ReactionsBounded
<1>3. /\ reactions' \in Seq(Row) /\ Len(reactions') = Len(reactions) - 1
      /\ \A j \in 1..(Len(reactions) - 1) :
            reactions'[j] = IF j < i THEN reactions[j] ELSE reactions[j + 1]
  BY <1>2, RemoveAtRows
<1>4. /\ DOMAIN reactions' = 1..(Len(reactions) - 1) /\ DOMAIN reactions = 1..Len(reactions)
      /\ Len(reactions) \in Nat
  BY <1>2, <1>3
<1>5. IdsDiffer(reactions') /\ KindsDiffer(reactions')
  <2> SUFFICES ASSUME NEW j \in DOMAIN reactions', NEW k \in DOMAIN reactions',
                      \/ reactions'[j].id = reactions'[k].id
                      \/ reactions'[j].kind = reactions'[k].kind
               PROVE  j = k
    BY DEF IdsDiffer, KindsDiffer
  <2> DEFINE at(m) == IF m < i THEN m ELSE m + 1
  <2>1. /\ at(j) \in DOMAIN reactions /\ reactions'[j] = reactions[at(j)]
        /\ at(k) \in DOMAIN reactions /\ reactions'[k] = reactions[at(k)]
    BY <1>3, <1>4
  <2> HIDE DEF at
  <2>2. at(j) = at(k)
    BY <1>2, <2>1 DEF IdsDiffer, KindsDiffer
  <2> QED
    BY <1>4, <2>2 DEF at
<1>6. ReactionsBounded'
  <2>1. Inserting' \subseteq Inserting
    BY DEF Inserting
  <2>2. Len(reactions') \in Nat /\ Len(reactions') <= Len(reactions)
    BY <1>3, <1>4
  <2> QED
    BY <1>5, <2>1, <2>2, CountKept DEF ReactionsBounded
<1>7. CommunityRecordsOK'
  BY <1>3 DEF CommunityIInv, CommunityRecordsOK
<1>8. AudienceIsTold' /\ AuthorWillHear' /\ BadgeHeldOnce'
  BY <1>1, AudienceKept, HearingKept, BadgeKept
<1> QED
  BY <1>6, <1>7, <1>8, IdleGoOn, CommentsGoOnHeard DEF CommunityIInv

LEMMA ReactReadStep ==
  ASSUME CommunityIInv, NEW d \in Devices, NEW k \in Kinds, ReactRead(d, k)
  PROVE  CommunityIInv' /\ StepHeard
<1> DEFINE what == [does |-> "react", kind |-> k, rows |-> reactions]
<1>1. Begins(d, what) /\ UNCHANGED <<post, announced, reactions, note, badgeHeld>>
  BY DEF ReactRead, Found
<1>2. what \in Errands
  <2>1. reactions \in Seq(Row)
    BY DEF CommunityIInv, CommunityRecordsOK
  <2>2. what \in Reacts
    BY <2>1 DEF Reacts
  <2> QED
    BY <2>2 DEF Errands
<1>3. /\ device' \in [Devices -> Errands] /\ device'[d] = what
      /\ \A e \in Devices : e # d => device'[e] = device[e]
  BY <1>1, <1>2, BeginsErrand
<1>4. /\ reactions \in Seq(Row) /\ reactions' = reactions
      /\ IdsDiffer(reactions) /\ KindsDiffer(reactions)
  BY <1>1 DEF CommunityIInv, CommunityRecordsOK, ReactionsBounded
<1>5. Len(reactions') + Cardinality(Inserting') <= Cardinality(Devices)
  <2>1. CASE reactions = <<>>
    <3>1. Inserting' \subseteq Devices
      BY DEF Inserting
    <3>2. /\ Cardinality(Inserting') \in Nat
          /\ Cardinality(Inserting') <= Cardinality(Devices)
      BY <3>1, DevicesAssumption, FS_CardinalityType, FS_Subset
    <3>3. Len(reactions') = 0
      BY <1>4, <2>1
    <3> QED
      BY <3>2, <3>3, InsertingFinite
  <2>2. CASE reactions # <<>>
    <3>1. device'[d].rows # <<>>
      BY <1>3, <2>2
    <3>2. Inserting' \subseteq Inserting
      BY <1>3, <3>1 DEF Inserting
    <3> QED
      BY <1>4, <3>2, CountKept
  <2> QED
    BY <2>1, <2>2
<1>6. ReactionsBounded'
  BY <1>4, <1>5 DEF ReactionsBounded
<1>7. CommunityRecordsOK'
  BY <1>1, <1>3 DEF CommunityIInv, CommunityRecordsOK
<1>8. NewErrands("edit") = {} /\ NewErrands("comment") = {}
  BY <1>1, <1>2, BeginsNewErrands
<1>9. AudienceIsTold' /\ AuthorWillHear' /\ BadgeHeldOnce'
  BY <1>1, <1>8, AudienceKept, HearingKept, BadgeKept
<1>10. StepHeard
  BY <1>1, <1>2, BeginsGoOn, CommentsGoOnHeard
<1> QED
  BY <1>6, <1>7, <1>9, <1>10 DEF CommunityIInv

\* An identity that no row has is found.
LEMMA NewIdIsNew ==
  ASSUME reactions \in Seq(Row)
  PROVE  NewId \in Nat /\ NewId \notin Ids(reactions)
<1> DEFINE L == Len(reactions)
<1>1. L \in Nat /\ DOMAIN reactions = 1..L
  OBVIOUS
<1> HIDE DEF L
<1>2. \E n \in 1..(L + 1) : n \notin Ids(reactions)
  <2> SUFFICES ASSUME \A n \in 1..(L + 1) : n \in Ids(reactions) PROVE FALSE
    OBVIOUS
  <2> DEFINE f == [n \in 1..(L + 1) |-> CHOOSE i \in 1..L : reactions[i].id = n]
  <2>1. \A n \in 1..(L + 1) : \E i \in 1..L : reactions[i].id = n
    BY <1>1 DEF Ids
  <2>2. \A n \in 1..(L + 1) : f[n] \in 1..L /\ reactions[f[n]].id = n
    BY <2>1
  <2>3. f \in [1..(L + 1) -> 1..L]
    BY <2>2
  <2>4. /\ IsFiniteSet(1..L) /\ Cardinality(1..L) = L
        /\ IsFiniteSet(1..(L + 1)) /\ Cardinality(1..(L + 1)) = L + 1
    BY <1>1, FS_Interval
  <2>5. Cardinality(1..L) < Cardinality(1..(L + 1))
    BY <1>1, <2>4
  <2> HIDE DEF f
  <2>6. \E x, y \in 1..(L + 1) : x # y /\ f[x] = f[y]
    BY <2>3, <2>4, <2>5, FS_PigeonHole
  <2> QED
    BY <2>2, <2>6
<1>3. NewId \in 1..(L + 1) /\ NewId \notin Ids(reactions)
  BY <1>2 DEF NewId, L
<1> QED
  BY <1>1, <1>3

\* The row that is inserted has an identity and a kind of its own.
LEMMA InsertedRows ==
  ASSUME CommunityIInv, NEW k \in Kinds, k \notin KindsOf(reactions)
  PROVE  LET t == Append(reactions, [id |-> NewId, kind |-> k])
         IN  /\ t \in Seq(Row) /\ Len(t) = Len(reactions) + 1
             /\ IdsDiffer(t) /\ KindsDiffer(t)
<1> DEFINE row == [id |-> NewId, kind |-> k]
           t == Append(reactions, row)
<1>1. reactions \in Seq(Row) /\ IdsDiffer(reactions) /\ KindsDiffer(reactions)
  BY DEF CommunityIInv, CommunityRecordsOK, ReactionsBounded
<1>2. NewId \in Nat /\ NewId \notin Ids(reactions)
  BY <1>1, NewIdIsNew
<1>3. row \in Row /\ row.id = NewId /\ row.kind = k
  BY <1>2 DEF Row
<1> HIDE DEF row
<1>4. /\ t \in Seq(Row) /\ Len(t) = Len(reactions) + 1 /\ DOMAIN t = 1..(Len(reactions) + 1)
      /\ t[Len(reactions) + 1] = row
      /\ \A i \in 1..Len(reactions) : t[i] = reactions[i]
      /\ DOMAIN reactions = 1..Len(reactions) /\ Len(reactions) \in Nat
  BY <1>1, <1>3
<1>5. \A i \in DOMAIN reactions : reactions[i].id # NewId /\ reactions[i].kind # k
  BY <1>2 DEF Ids, KindsOf
<1> HIDE DEF t
<1>6. IdsDiffer(t) /\ KindsDiffer(t)
  <2> SUFFICES ASSUME NEW i \in DOMAIN t, NEW j \in DOMAIN t,
                      t[i].id = t[j].id \/ t[i].kind = t[j].kind
               PROVE  i = j
    BY DEF IdsDiffer, KindsDiffer
  <2>1. CASE i \in DOMAIN reactions /\ j \in DOMAIN reactions
    <3>1. t[i] = reactions[i] /\ t[j] = reactions[j]
      BY <1>4, <2>1
    <3> QED
      BY <1>1, <2>1, <3>1 DEF IdsDiffer, KindsDiffer
  <2>2. CASE i \in DOMAIN reactions /\ j = Len(reactions) + 1
    BY <1>3, <1>4, <1>5, <2>2
  <2>3. CASE i = Len(reactions) + 1 /\ j \in DOMAIN reactions
    BY <1>3, <1>4, <1>5, <2>3
  <2>4. CASE i = Len(reactions) + 1 /\ j = Len(reactions) + 1
    BY <2>4
  <2>5. /\ i \in DOMAIN reactions \/ i = Len(reactions) + 1
        /\ j \in DOMAIN reactions \/ j = Len(reactions) + 1
    BY <1>4
  <2> QED
    BY <2>1, <2>2, <2>3, <2>4, <2>5
<1> QED
  BY <1>4, <1>6 DEF t, row

\* The oldest row found is given the kind asked for, the others are deleted.
KindChanged(rows, id, from, to) ==
    [i \in DOMAIN rows |-> IF rows[i].id = id /\ from # to THEN [rows[i] EXCEPT !.kind = to]
                           ELSE rows[i]]

\* The rows left still differ, when the kind asked for is on no other row than the
\* one that is changed.
LEMMA ChangedRows ==
  ASSUME CommunityIInv, NEW gone, NEW id, NEW from, NEW to \in Kinds,
         from # to => \A i \in DOMAIN reactions : reactions[i].kind = to => reactions[i].id = id
  PROVE  LET t == KindChanged(RowsLeft(reactions, gone), id, from, to)
         IN  /\ t \in Seq(Row) /\ Len(t) <= Len(reactions)
             /\ IdsDiffer(t) /\ KindsDiffer(t)
<1> DEFINE kept == RowsLeft(reactions, gone)
           t == KindChanged(kept, id, from, to)
<1>1. /\ reactions \in Seq(Row) /\ IdsDiffer(reactions) /\ KindsDiffer(reactions)
      /\ Len(reactions) \in Nat /\ DOMAIN reactions = 1..Len(reactions)
  BY DEF CommunityIInv, CommunityRecordsOK, ReactionsBounded
<1>2. Among(kept, Len(reactions), reactions)
  BY <1>1, RowsLeftAmong
<1> HIDE DEF kept
<1>3. /\ kept \in Seq(Row) /\ Len(kept) <= Len(reactions) /\ Len(kept) \in Nat
      /\ DOMAIN kept = 1..Len(kept) /\ IdsDiffer(kept)
      /\ \A i \in DOMAIN kept : \E x \in DOMAIN reactions : kept[i] = reactions[x]
  BY <1>1, <1>2 DEF Among
<1>4. \A i \in DOMAIN kept :
         /\ t[i] \in Row /\ t[i].id = kept[i].id
         /\ t[i].kind = IF kept[i].id = id /\ from # to THEN to ELSE kept[i].kind
  <2> SUFFICES ASSUME NEW i \in DOMAIN kept
               PROVE  /\ t[i] \in Row /\ t[i].id = kept[i].id
                      /\ t[i].kind = IF kept[i].id = id /\ from # to THEN to ELSE kept[i].kind
    OBVIOUS
  <2>1. kept[i] \in Row
    BY <1>3
  <2>2. t[i] = IF kept[i].id = id /\ from # to THEN [kept[i] EXCEPT !.kind = to] ELSE kept[i]
    BY DEF KindChanged
  <2> HIDE DEF t
  <2> QED
    BY <2>1, <2>2 DEF Row
<1>5. DOMAIN t = 1..Len(kept) /\ t = [i \in 1..Len(kept) |-> t[i]]
  BY <1>3 DEF KindChanged
<1> HIDE DEF t
<1>6. t \in Seq(Row) /\ Len(t) = Len(kept)
  <2>1. t \in [1..Len(kept) -> Row]
    BY <1>3, <1>4, <1>5
  <2> QED
    BY <1>3, <2>1
<1>7. IdsDiffer(t)
  BY <1>3, <1>4, <1>5 DEF IdsDiffer
<1>8. KindsDiffer(t)
  <2> SUFFICES ASSUME NEW i \in DOMAIN kept, NEW j \in DOMAIN kept, t[i].kind = t[j].kind
               PROVE  i = j
    BY <1>3, <1>5 DEF KindsDiffer
  <2>1. PICK x \in DOMAIN reactions : kept[i] = reactions[x]
    BY <1>3
  <2>2. PICK y \in DOMAIN reactions : kept[j] = reactions[y]
    BY <1>3
  <2>3. kept[i].id = kept[j].id
    <3>1. CASE kept[i].kind = kept[j].kind
      BY <1>1, <2>1, <2>2, <3>1 DEF KindsDiffer
    <3>2. CASE kept[i].kind # kept[j].kind
      BY <1>4, <2>1, <2>2, <3>2
    <3> QED
      BY <3>1, <3>2
  <2> QED
    BY <1>3, <2>3 DEF IdsDiffer
<1> QED
  BY <1>3, <1>6, <1>7, <1>8 DEF t, kept

LEMMA ReactCommitStep ==
  ASSUME CommunityIInv, NEW d \in Devices, ReactCommit(d)
  PROVE  CommunityIInv' /\ StepHeard
<1> DEFINE r == device[d]
<1>1. /\ r.does = "react" /\ Finishes(d) /\ UNCHANGED <<post, announced, note, badgeHeld>>
      /\ reactions' =
            IF ~post.there \/ ReactRefused(r) THEN reactions
            ELSE IF r.rows = <<>> THEN Append(reactions, [id |-> NewId, kind |-> r.kind])
            ELSE KindChanged(RowsLeft(reactions, Ids(Tail(r.rows))), r.rows[1].id,
                         r.rows[1].kind, r.kind)
  BY DEF ReactCommit, KindChanged
<1>2. r.kind \in Kinds
  <2>1. r \in Errands
    BY DEF CommunityIInv, CommunityRecordsOK
  <2>2. r \in Reacts
    BY <1>1, <2>1, ErrandKinds
  <2> QED
    BY <2>2 DEF Reacts
<1>3. /\ device' \in [Devices -> Errands] /\ device'[d] = AtHand
      /\ \A e \in Devices : e # d => device'[e] = device[e]
  BY <1>1, FinishesErrand
<1>4. Inserting' = Inserting \ {d}
  BY <1>3 DEF Inserting, AtHand
<1>5. /\ reactions \in Seq(Row) /\ IdsDiffer(reactions) /\ KindsDiffer(reactions)
      /\ Len(reactions) \in Nat /\ DOMAIN reactions = 1..Len(reactions)
  BY DEF CommunityIInv, CommunityRecordsOK, ReactionsBounded
<1>6. reactions' \in Seq(Row) /\ ReactionsBounded'
  <2>1. CASE reactions' = reactions
    BY <1>4, <1>5, <2>1, CountKept DEF ReactionsBounded
  <2>2. CASE /\ ~ReactRefused(r) /\ r.rows = <<>>
             /\ reactions' = Append(reactions, [id |-> NewId, kind |-> r.kind])
    <3>1. r.kind \notin KindsOf(reactions)
      BY <2>2 DEF ReactRefused
    <3> HIDE DEF r
    <3>2. /\ reactions' \in Seq(Row) /\ Len(reactions') = Len(reactions) + 1
          /\ IdsDiffer(reactions') /\ KindsDiffer(reactions')
      BY <1>2, <2>2, <3>1, InsertedRows
    <3>3. d \in Inserting
      BY <1>1, <2>2 DEF Inserting, r
    <3>4. Cardinality(Inserting') = Cardinality(Inserting) - 1
      BY <1>4, <3>3, InsertingFinite, FS_RemoveElement
    <3>5. Len(reactions') + Cardinality(Inserting') <= Cardinality(Devices)
      BY <1>5, <3>2, <3>4, InsertingFinite DEF CommunityIInv, ReactionsBounded
    <3> QED
      BY <3>2, <3>5 DEF ReactionsBounded
  <2>3. CASE /\ ~ReactRefused(r) /\ r.rows # <<>>
             /\ reactions' = KindChanged(RowsLeft(reactions, Ids(Tail(r.rows))), r.rows[1].id,
                                     r.rows[1].kind, r.kind)
    <3>1. r.rows[1].kind # r.kind =>
             \A i \in DOMAIN reactions :
                reactions[i].kind = r.kind => reactions[i].id = r.rows[1].id
      BY <2>3 DEF ReactRefused
    <3> HIDE DEF r
    <3>2. /\ reactions' \in Seq(Row) /\ Len(reactions') <= Len(reactions)
          /\ IdsDiffer(reactions') /\ KindsDiffer(reactions')
      BY <1>2, <2>3, <3>1, ChangedRows
    <3> QED
      BY <1>4, <3>2, CountKept DEF ReactionsBounded
  <2> QED
    BY <1>1, <2>1, <2>2, <2>3
<1>7. CommunityRecordsOK'
  BY <1>1, <1>3, <1>6 DEF CommunityIInv, CommunityRecordsOK
<1>8. NewErrands("edit") = {} /\ NewErrands("comment") = {}
  BY <1>1, FinishesNewErrands
<1>9. AudienceIsTold' /\ AuthorWillHear' /\ BadgeHeldOnce'
  BY <1>1, <1>8, AudienceKept, HearingKept, BadgeKept
<1>10. StepHeard
  BY <1>1, FinishesGoOn, CommentsGoOnHeard
<1> QED
  BY <1>6, <1>7, <1>9, <1>10 DEF CommunityIInv

LEMMA ReactionsStep ==
  ASSUME CommunityIInv, ReactionNext
  PROVE  CommunityIInv' /\ StepHeard
<1>1. CASE CreatePost(FALSE)
  BY <1>1, CreatePostStep
<1>2. CASE RemovePost
  BY <1>2, RemovePostStep
<1>3. ASSUME NEW d \in Devices, ReactCommit(d)
      PROVE  CommunityIInv' /\ StepHeard
  BY <1>3, ReactCommitStep
<1>4. ASSUME NEW d \in Devices, NEW k \in Kinds, ReactRead(d, k)
      PROVE  CommunityIInv' /\ StepHeard
  BY <1>4, ReactReadStep
<1>5. ASSUME NEW i \in 1..Len(reactions), Unreact(i)
      PROVE  CommunityIInv' /\ StepHeard
  BY <1>5, UnreactStep
<1> QED
  BY <1>1, <1>2, <1>3, <1>4, <1>5 DEF ReactionNext
-----------------------------------------------------------------------------
(* Comments. *)

LEMMA CommentReadStep ==
  ASSUME CommunityIInv, NEW d \in Devices, CommentRead(d)
  PROVE  CommunityIInv' /\ StepHeard
<1> DEFINE what == [does |-> "comment", tells |-> Unread = {}, touched |-> FALSE]
<1>1. Begins(d, what) /\ UNCHANGED <<post, announced, reactions, note, badgeHeld>>
  BY DEF CommentRead, Repeated
<1>2. what \in Errands
  <2>1. what \in Comments
    BY DEF Comments
  <2> QED
    BY <2>1 DEF Errands
<1>3. /\ device' \in [Devices -> Errands] /\ device'[d] = what
      /\ \A e \in Devices : e # d => device'[e] = device[e]
  BY <1>1, <1>2, BeginsErrand
<1>4. AuthorWillHear'
  <2>1. Unread' = Unread
    BY <1>1 DEF Unread
  <2>2. device'[d].tells = (Unread = {})
    BY <1>3
  <2> QED
    BY <1>3, <2>1, <2>2 DEF CommunityIInv, AuthorWillHear
<1>5. CommunityRecordsOK'
  BY <1>1, <1>3 DEF CommunityIInv, CommunityRecordsOK
<1>6. NewErrands("edit") = {} /\ NewErrands("react") = {}
  BY <1>1, <1>2, BeginsNewErrands
<1>7. AudienceIsTold' /\ ReactionsBounded' /\ BadgeHeldOnce'
  BY <1>1, <1>6, AudienceKept, ReactionsKept, BadgeKept
<1>8. StepHeard
  BY <1>1, <1>2, BeginsGoOn, CommentsGoOnHeard
<1> QED
  BY <1>4, <1>5, <1>7, <1>8 DEF CommunityIInv

LEMMA CommentCommitStep ==
  ASSUME CommunityIInv, NEW d \in Devices, CommentCommit(d)
  PROVE  CommunityIInv' /\ StepHeard
<1>1. /\ device[d].does = "comment" /\ Finishes(d)
      /\ UNCHANGED <<post, announced, reactions, badgeHeld>>
      /\ IF post.there /\ device[d].tells
         THEN \E n \in Notes : note[n] = "none" /\ note' = [note EXCEPT ![n] = "unread"]
         ELSE UNCHANGED note
  BY DEF CommentCommit
<1>2. /\ device' \in [Devices -> Errands] /\ device'[d] = AtHand
      /\ \A e \in Devices : e # d => device'[e] = device[e]
  BY <1>1, FinishesErrand
<1>3. /\ note' \in [Notes -> {"none", "unread", "read"}] /\ Unread \subseteq Unread'
      /\ post.there /\ device[d].tells => Unread' # {}
  <2>1. note \in [Notes -> {"none", "unread", "read"}]
    BY DEF CommunityIInv, CommunityRecordsOK
  <2>2. CASE UNCHANGED note /\ ~(post.there /\ device[d].tells)
    BY <2>1, <2>2 DEF Unread
  <2>3. CASE post.there /\ device[d].tells
    <3>1. PICK n \in Notes : note[n] = "none" /\ note' = [note EXCEPT ![n] = "unread"]
      BY <1>1, <2>3
    <3> QED
      BY <2>1, <3>1 DEF Unread
  <2> QED
    BY <1>1, <2>2, <2>3
<1>4. AuthorWillHear'
  BY <1>2, <1>3 DEF CommunityIInv, AuthorWillHear, AtHand
<1>5. CommunityRecordsOK'
  BY <1>1, <1>2, <1>3 DEF CommunityIInv, CommunityRecordsOK
<1>6. NewErrands("edit") = {} /\ NewErrands("react") = {}
  BY <1>1, FinishesNewErrands
<1>7. AudienceIsTold' /\ ReactionsBounded' /\ BadgeHeldOnce'
  BY <1>1, <1>6, AudienceKept, ReactionsKept, BadgeKept
<1>8. StepHeard
  <2> SUFFICES ASSUME NEW e \in Devices, device[e].does = "comment", device'[e] = AtHand,
                      post.there, ~device[e].touched
               PROVE  \E n \in Notes : note'[n] = "unread"
    BY DEF StepHeard
  <2>1. e = d
    BY <1>2 DEF AtHand
  <2>2. ~device[d].tells => Unread # {}
    BY <2>1 DEF CommunityIInv, AuthorWillHear
  <2>3. Unread' # {}
    <3>1. device[d] \in Errands
      BY DEF CommunityIInv, CommunityRecordsOK
    <3>2. device[d].tells \in BOOLEAN
      BY <1>1, <3>1, ErrandKinds DEF Comments
    <3> QED
      BY <1>3, <2>2, <3>2
  <2> QED
    BY <2>3 DEF Unread
<1> QED
  BY <1>4, <1>5, <1>7, <1>8 DEF CommunityIInv

LEMMA AuthorTouchesStep ==
  ASSUME CommunityIInv, NEW S \in SUBSET Notes, NEW s \in {"none", "unread", "read"},
         AuthorTouches(S, s)
  PROVE  CommunityIInv' /\ StepHeard
<1>1. /\ note' = [n \in Notes |-> IF n \in S THEN s ELSE note[n]]
      /\ device' = [d \in Devices |-> IF device[d].does = "comment"
                                      THEN [device[d] EXCEPT !.touched = TRUE] ELSE device[d]]
      /\ UNCHANGED <<post, announced, reactions, badgeHeld>>
  BY DEF AuthorTouches
<1>2. \A d \in Devices :
         /\ device'[d] \in Errands
         /\ device[d].does = "comment" => device'[d].does = "comment" /\ device'[d].touched
         /\ device[d].does # "comment" => device'[d] = device[d]
  <2> SUFFICES ASSUME NEW d \in Devices
               PROVE  /\ device'[d] \in Errands
                      /\ device[d].does = "comment" =>
                            device'[d].does = "comment" /\ device'[d].touched
                      /\ device[d].does # "comment" => device'[d] = device[d]
    OBVIOUS
  <2>1. device[d] \in Errands
    BY DEF CommunityIInv, CommunityRecordsOK
  <2>2. CASE device[d].does # "comment"
    BY <1>1, <2>1, <2>2
  <2>3. CASE device[d].does = "comment"
    <3>1. device[d] \in Comments
      BY <2>1, <2>3, ErrandKinds
    <3>2. device'[d] = [device[d] EXCEPT !.touched = TRUE]
      BY <1>1, <2>3
    <3>3. device'[d] \in Comments /\ device'[d].does = "comment" /\ device'[d].touched = TRUE
      BY <3>1, <3>2 DEF Comments
    <3> QED
      BY <2>3, <3>3 DEF Errands
  <2> QED
    BY <2>2, <2>3
<1>3. CommunityRecordsOK'
  <2>1. device' \in [Devices -> Errands]
    BY <1>1, <1>2
  <2>2. note' \in [Notes -> {"none", "unread", "read"}]
    BY <1>1 DEF CommunityIInv, CommunityRecordsOK
  <2> QED
    BY <1>1, <2>1, <2>2 DEF CommunityIInv, CommunityRecordsOK
<1>4. NewErrands("edit") = {} /\ NewErrands("react") = {}
  BY <1>2 DEF NewErrands
<1>5. AudienceIsTold' /\ ReactionsBounded' /\ BadgeHeldOnce'
  BY <1>1, <1>4, AudienceKept, ReactionsKept, BadgeKept
<1>6. AuthorWillHear'
  <2>1. \A d \in Devices : device'[d].does = "comment" => device'[d].touched
    BY <1>2
  <2> QED
    BY <2>1 DEF AuthorWillHear
<1>7. StepHeard
  <2>1. CommentsGoOn
    BY <1>2 DEF CommentsGoOn
  <2> QED
    BY <2>1, CommentsGoOnHeard
<1> QED
  BY <1>3, <1>5, <1>6, <1>7 DEF CommunityIInv

LEMMA CommentsStep ==
  ASSUME CommunityIInv, CommentNext
  PROVE  CommunityIInv' /\ StepHeard
<1>1. CASE CreatePost(FALSE)
  BY <1>1, CreatePostStep
<1>2. CASE RemovePost
  BY <1>2, RemovePostStep
<1>3. CASE MarkAllRead
  <2>1. Unread \in SUBSET Notes
    BY DEF Unread
  <2> QED
    BY <1>3, <2>1, AuthorTouchesStep DEF MarkAllRead
<1>4. ASSUME NEW d \in Devices, CommentRead(d)
      PROVE  CommunityIInv' /\ StepHeard
  BY <1>4, CommentReadStep
<1>5. ASSUME NEW d \in Devices, CommentCommit(d)
      PROVE  CommunityIInv' /\ StepHeard
  BY <1>5, CommentCommitStep
<1>6. ASSUME NEW n \in Notes, MarkRead(n) \/ MarkUnread(n) \/ DeleteNote(n)
      PROVE  CommunityIInv' /\ StepHeard
  BY <1>6, AuthorTouchesStep DEF MarkRead, MarkUnread, DeleteNote
<1> QED
  BY <1>1, <1>2, <1>3, <1>4, <1>5, <1>6 DEF CommentNext
-----------------------------------------------------------------------------
(* The badge. *)

LEMMA BadgeRowsStep ==
  ASSUME CommunityIInv, UNCHANGED <<post, announced, reactions, note, device>>,
         badgeHeld' \in [exists : BOOLEAN, rows : [Seasons \cup {NoSeason} -> Nat]],
         BadgeHeldOnce'
  PROVE  CommunityIInv' /\ StepHeard
<1>1. \A kind : NewErrands(kind) = {}
  BY IdleNewErrands
<1>2. AudienceIsTold' /\ ReactionsBounded' /\ AuthorWillHear'
  BY <1>1, AudienceKept, ReactionsKept, HearingKept
<1>3. CommunityRecordsOK'
  BY DEF CommunityIInv, CommunityRecordsOK
<1> QED
  BY <1>2, <1>3, IdleGoOn, CommentsGoOnHeard DEF CommunityIInv

LEMMA HonoursStep ==
  ASSUME CommunityIInv, HonourNext
  PROVE  CommunityIInv' /\ StepHeard
<1>1. /\ badgeHeld \in [exists : BOOLEAN, rows : [Seasons \cup {NoSeason} -> Nat]]
      /\ \A s \in Seasons : badgeHeld.rows[s] <= 1
  BY DEF CommunityIInv, CommunityRecordsOK, BadgeHeldOnce
<1>2. CASE CreateBadge
  BY <1>1, <1>2, BadgeRowsStep DEF CreateBadge, BadgeHeldOnce
<1>3. CASE DeleteBadge
  BY <1>1, <1>3, BadgeRowsStep DEF DeleteBadge, BadgeHeldOnce, NotHeld
<1>4. ASSUME NEW s \in Seasons \cup {NoSeason}, RemoveAward(s)
      PROVE  CommunityIInv' /\ StepHeard
  <2>1. badgeHeld.rows[s] > 0 /\ badgeHeld.rows[s] \in Nat
    BY <1>1, <1>4 DEF RemoveAward
  <2>2. badgeHeld' = [exists |-> badgeHeld.exists,
                      rows |-> [badgeHeld.rows EXCEPT ![s] = badgeHeld.rows[s] - 1]]
    BY <1>1, <1>4 DEF RemoveAward
  <2>3. BadgeHeldOnce'
    BY <1>1, <2>1, <2>2 DEF BadgeHeldOnce
  <2> QED
    BY <1>1, <1>4, <2>1, <2>2, <2>3, BadgeRowsStep DEF RemoveAward
<1>5. ASSUME NEW s \in Seasons \cup {NoSeason}, NEW d \in Devices, AwardRead(d, s)
      PROVE  CommunityIInv' /\ StepHeard
  <2> DEFINE what == [does |-> "award", season |-> s]
  <2>1. Begins(d, what) /\ UNCHANGED <<post, announced, reactions, note, badgeHeld>>
    BY <1>5 DEF AwardRead
  <2>2. what \in Errands
    BY DEF Errands, Awards
  <2>3. NewErrands("edit") = {} /\ NewErrands("react") = {} /\ NewErrands("comment") = {}
    BY <2>1, <2>2, BeginsNewErrands
  <2>4. AudienceIsTold' /\ ReactionsBounded' /\ AuthorWillHear' /\ BadgeHeldOnce'
    BY <2>1, <2>3, AudienceKept, ReactionsKept, HearingKept, BadgeKept
  <2>5. CommunityRecordsOK'
    BY <2>1, <2>2, BeginsErrand DEF CommunityIInv, CommunityRecordsOK
  <2> QED
    BY <2>1, <2>2, <2>4, <2>5, BeginsGoOn, CommentsGoOnHeard DEF CommunityIInv
<1>6. ASSUME NEW d \in Devices, AwardCommit(d)
      PROVE  CommunityIInv' /\ StepHeard
  <2> DEFINE s == device[d].season
  <2>1. /\ device[d].does = "award" /\ Finishes(d)
        /\ UNCHANGED <<post, announced, reactions, note>>
        /\ badgeHeld' = IF ~badgeHeld.exists \/ AlreadyAwarded(s) THEN badgeHeld
                        ELSE [badgeHeld EXCEPT !.rows[s] = @ + 1]
    BY <1>6 DEF AwardCommit
  <2>2. s \in Seasons \cup {NoSeason}
    <3>1. device[d] \in Errands
      BY DEF CommunityIInv, CommunityRecordsOK
    <3> QED
      BY <2>1, <3>1, ErrandKinds DEF Awards
  <2> HIDE DEF s
  <2>3. /\ badgeHeld' \in [exists : BOOLEAN, rows : [Seasons \cup {NoSeason} -> Nat]]
        /\ BadgeHeldOnce'
    <3>1. CASE ~badgeHeld.exists \/ AlreadyAwarded(s)
      BY <1>1, <2>1, <3>1 DEF BadgeHeldOnce
    <3>2. CASE badgeHeld.exists /\ ~AlreadyAwarded(s)
      <4>1. badgeHeld' = [exists |-> badgeHeld.exists,
                          rows |-> [badgeHeld.rows EXCEPT ![s] = badgeHeld.rows[s] + 1]]
        BY <1>1, <2>1, <2>2, <3>2
      <4>2. badgeHeld.rows[s] \in Nat /\ (s \in Seasons => badgeHeld.rows[s] = 0)
        BY <1>1, <2>2, <3>2, NoSeasonAssumption DEF AlreadyAwarded
      <4> QED
        BY <1>1, <2>2, <4>1, <4>2 DEF BadgeHeldOnce
    <3> QED
      BY <3>1, <3>2
  <2>4. NewErrands("edit") = {} /\ NewErrands("react") = {} /\ NewErrands("comment") = {}
    BY <2>1, FinishesNewErrands
  <2>5. AudienceIsTold' /\ ReactionsBounded' /\ AuthorWillHear'
    BY <2>1, <2>4, AudienceKept, ReactionsKept, HearingKept
  <2>6. CommunityRecordsOK'
    BY <2>1, <2>3, FinishesErrand DEF CommunityIInv, CommunityRecordsOK
  <2> QED
    BY <2>1, <2>3, <2>5, <2>6, FinishesGoOn, CommentsGoOnHeard DEF CommunityIInv
<1> QED
  BY <1>2, <1>3, <1>4, <1>5, <1>6 DEF HonourNext

CommunityNext == PostNext \/ ReactionNext \/ CommentNext \/ HonourNext

LEMMA CommunityStep ==
  CommunityIInv /\ [CommunityNext]_communityVars => CommunityIInv' /\ StepHeard
<1> SUFFICES ASSUME CommunityIInv, [CommunityNext]_communityVars
             PROVE  CommunityIInv' /\ StepHeard
  OBVIOUS
<1>1. CASE CommunityNext
  BY <1>1, PostsStep, ReactionsStep, CommentsStep, HonoursStep DEF CommunityNext
<1>2. CASE UNCHANGED communityVars
  BY <1>2, BadgeRowsStep
     DEF communityVars, CommunityIInv, CommunityRecordsOK, BadgeHeldOnce
<1> QED
  BY <1>1, <1>2

CommunitySpec == CommunityInit /\ [][CommunityNext]_communityVars

\* What a publication is, its audience was told; the reactions of a reader are of
\* different kinds and no more than his requests; a badge is held once in a season.
THEOREM CommunitySafe == CommunitySpec => []CommunityInv
<1>1. CommunityIInv /\ [CommunityNext]_communityVars => CommunityIInv'
  BY CommunityStep
<1>2. CommunityInit => CommunityIInv
  BY CommunityInitInv
<1>3. CommunityIInv => CommunityInv
  BY CommunityIInvImplies
<1> QED
  BY <1>1, <1>2, <1>3, PTL DEF CommunitySpec

\* A comment leaves its author something unread, unless he touched his notifications
\* while it was on its way.
THEOREM CommunityHears == CommunitySpec => CommentsAreHeard
<1>1. CommunityIInv /\ [CommunityNext]_communityVars => CommunityIInv'
  BY CommunityStep
<1>2. CommunityInit => CommunityIInv
  BY CommunityInitInv
<1>3. CommunityIInv /\ [CommunityNext]_communityVars =>
        [\A d \in Devices :
            /\ device[d].does = "comment" /\ device'[d] = AtHand
            /\ post.there /\ ~device[d].touched
            => \E n \in Notes : note'[n] = "unread"]_communityVars
  BY CommunityStep DEF StepHeard
<1> QED
  BY <1>1, <1>2, <1>3, PTL DEF CommunitySpec, CommentsAreHeard
-----------------------------------------------------------------------------
(* The workflows together.  Each sees its own steps only, the steps of the others *)
(* leave its rows alone.                                                          *)

EachSteps ==
    /\ [AttendanceNext \/ BadgeNext]_attendanceVars
    /\ [ConversionNext \/ ReviewNext]_recruitmentVars
    /\ [TasksNext]_taskVars /\ [EventsNext]_eventVars /\ [ImpactNext]_impactVars
    /\ [HeritageNext \/ StatisticNext]_heritageVars
    /\ [DocumentsNext]_documentVars /\ [FilesNext]_filesVars /\ [ReleasesNext]_releaseVars
    /\ [TermsNext \/ DeletionNext \/ TicketNext]_serviceVars /\ [ChatNext]_chatVars
    /\ [CommunityNext]_communityVars

LEMMA WorkflowSteps ==
  [WorkflowsNext]_<<focus, workflowVars>> => EachSteps
<1> SUFFICES ASSUME [WorkflowsNext]_<<focus, workflowVars>> PROVE EachSteps
  OBVIOUS
<1>1. CASE UNCHANGED <<focus, workflowVars>>
  BY <1>1 DEF workflowVars, EachSteps
<1>2. CASE (AttendanceNext \/ BadgeNext) /\ AtTheSession
  BY <1>2 DEF AtTheSession, clubVars, recordVars, officeVars, EachSteps
<1>3. CASE (ConversionNext \/ ReviewedNext) /\ AtRecruitment
  <2>1. ConversionNext \/ ReviewNext
    <3>1. ASSUME NEW c \in Campaigns, CreateCampaign(c, "open") PROVE ConversionNext
      BY <3>1 DEF ConversionNext
    <3>2. ASSUME NEW a \in Applications, Submit(a) \/ DeleteApplication(a) PROVE ConversionNext
      BY <3>2 DEF ConversionNext
    <3> QED
      BY <1>3, <3>1, <3>2 DEF ReviewedNext
  <2> QED
    BY <1>3, <2>1 DEF AtRecruitment, clubVars, recordVars, officeVars, EachSteps
<1>4. CASE /\ \/ TasksNext /\ UNCHANGED eventVars
              \/ EventsNext /\ UNCHANGED taskVars
           /\ AtTheClub
  BY <1>4 DEF AtTheClub, recordVars, officeVars, EachSteps
<1>5. CASE /\ \/ ImpactNext /\ UNCHANGED <<heritageVars, documentVars, filesVars>>
              \/ HeritageNext /\ UNCHANGED <<impactVars, documentVars, filesVars>>
              \/ StatisticNext /\ UNCHANGED <<impactVars, documentVars, filesVars>>
              \/ DocumentsNext /\ UNCHANGED <<impactVars, heritageVars, filesVars>>
              \/ FilesNext /\ UNCHANGED <<impactVars, heritageVars, documentVars>>
           /\ AtTheRecords
  BY <1>5 DEF AtTheRecords, clubVars, officeVars, EachSteps
<1>6. CASE /\ \/ ReleasesNext /\ UNCHANGED <<serviceVars, chatVars>>
              \/ TermsNext /\ UNCHANGED <<releaseVars, chatVars>>
              \/ DeletionNext /\ UNCHANGED <<releaseVars, chatVars>>
              \/ TicketNext /\ UNCHANGED <<releaseVars, chatVars>>
              \/ ChatNext /\ UNCHANGED <<releaseVars, serviceVars>>
           /\ AtTheOffice
  BY <1>6 DEF AtTheOffice, clubVars, recordVars, EachSteps
<1>7. CASE CommunityNext /\ AtTheNews
  BY <1>7 DEF AtTheNews, clubVars, recordVars, officeVars, EachSteps
<1>8. WorkflowsNext =>
         \/ (AttendanceNext \/ BadgeNext) /\ AtTheSession
         \/ (ConversionNext \/ ReviewedNext) /\ AtRecruitment
         \/ /\ \/ TasksNext /\ UNCHANGED eventVars
               \/ EventsNext /\ UNCHANGED taskVars
            /\ AtTheClub
         \/ /\ \/ ImpactNext /\ UNCHANGED <<heritageVars, documentVars, filesVars>>
               \/ HeritageNext /\ UNCHANGED <<impactVars, documentVars, filesVars>>
               \/ StatisticNext /\ UNCHANGED <<impactVars, documentVars, filesVars>>
               \/ DocumentsNext /\ UNCHANGED <<impactVars, heritageVars, filesVars>>
               \/ FilesNext /\ UNCHANGED <<impactVars, heritageVars, documentVars>>
            /\ AtTheRecords
         \/ /\ \/ ReleasesNext /\ UNCHANGED <<serviceVars, chatVars>>
               \/ TermsNext /\ UNCHANGED <<releaseVars, chatVars>>
               \/ DeletionNext /\ UNCHANGED <<releaseVars, chatVars>>
               \/ TicketNext /\ UNCHANGED <<releaseVars, chatVars>>
               \/ ChatNext /\ UNCHANGED <<releaseVars, serviceVars>>
            /\ AtTheOffice
         \/ CommunityNext /\ AtTheNews
  BY Zenon DEF WorkflowsNext, CommunityNext
<1> QED
  BY <1>1, <1>2, <1>3, <1>4, <1>5, <1>6, <1>7, <1>8

\* The workflows together are a behaviour of each of them.
THEOREM WorkflowsImplement ==
  WorkflowsSpec => /\ RecruitmentSpec /\ TasksSpec /\ EventsSpec /\ ImpactSpec
                   /\ HeritageSpec /\ DocumentsSpec /\ FilesSpec /\ ReleasesSpec
                   /\ ServicesSpec /\ ChatSpec /\ CommunitySpec
<1>1. WorkflowsInit => /\ RecruitmentInit /\ TasksInit /\ EventsInit /\ ImpactInit
                       /\ HeritageInit /\ DocumentsInit /\ FilesInit /\ ReleasesInit
                       /\ ServicesInit /\ ChatInit /\ CommunityInit
  BY DEF WorkflowsInit
<1>2. EachSteps =>
        /\ [ConversionNext \/ ReviewNext]_recruitmentVars
        /\ [TasksNext]_taskVars /\ [EventsNext]_eventVars /\ [ImpactNext]_impactVars
        /\ [HeritageNext \/ StatisticNext]_heritageVars
        /\ [DocumentsNext]_documentVars /\ [FilesNext]_filesVars /\ [ReleasesNext]_releaseVars
        /\ [TermsNext \/ DeletionNext \/ TicketNext]_serviceVars /\ [ChatNext]_chatVars
        /\ [CommunityNext]_communityVars
  BY DEF EachSteps
<1> QED
  BY <1>1, <1>2, WorkflowSteps, PTL
  DEF WorkflowsSpec, RecruitmentSpec, TasksSpec, EventsSpec, ImpactSpec, HeritageSpec,
      DocumentsSpec, FilesSpec, ReleasesSpec, ServicesSpec, ChatSpec, CommunitySpec

\* The badges begin with one active badge for each of the members that have one.
LEMMA WorkflowsAttendance ==
  /\ WorkflowsInit => AttendanceIInv
  /\ [WorkflowsNext]_<<focus, workflowVars>> => [AttendanceNext \/ BadgeNext]_attendanceVars
<1>1. ASSUME WorkflowsInit PROVE AttendanceIInv
  <2>1. AttendanceInit /\ (BadgeHeld \/ BadgesInit)
    BY <1>1 DEF WorkflowsInit
  <2>2. /\ badge \in [Badges -> [owner : Attendees \cup {NoMember},
                                 status : {"none", "active", "revoked", "replaced"}]]
        /\ OneBadgePerMember
    <3>1. CASE BadgeHeld
      <4>1. \A b \in Badges : badge[b].owner = b
        BY <3>1 DEF BadgeHeld
      <4> QED
        BY <3>1, <4>1, BadgesAssumption DEF BadgeHeld, OneBadgePerMember, ActiveBadges
    <3>2. CASE BadgesInit
      BY <3>2 DEF BadgesInit, OneBadgePerMember, ActiveBadges
    <3> QED
      BY <2>1, <3>1, <3>2
  <2> QED
    BY <2>1, <2>2, AttendanceInitInv
<1> QED
  BY <1>1, WorkflowSteps DEF EachSteps

\* A penalty that is active is the one of the mark that is recorded, and a member has
\* one badge in use at most.
THEOREM WorkflowsAttendanceSafe == WorkflowsSpec => []AttendanceInv
<1>1. AttendanceIInv /\ [AttendanceNext \/ BadgeNext]_attendanceVars => AttendanceIInv'
  BY AttendanceStepInv
<1>2. AttendanceIInv => AttendanceInv
  BY DEF AttendanceIInv
<1> QED
  BY <1>1, <1>2, WorkflowsAttendance, PTL DEF WorkflowsSpec

\* The closing takes the roll of everybody expected, once, and a badge taken out of
\* use identifies nobody again.
THEOREM WorkflowsRoll == WorkflowsSpec => RollTakenOnce
<1>1. AttendanceIInv /\ [AttendanceNext \/ BadgeNext]_attendanceVars => AttendanceIInv'
  BY AttendanceStepInv
<1>2. AttendanceIInv /\ [AttendanceNext \/ BadgeNext]_attendanceVars =>
        [/\ roll = "open" /\ roll' # "open" =>
               roll' = "closed" /\ \A u \in expected : record'[u] # NoRecord
         /\ roll \in {"closed", "archived"} =>
               /\ roll' \in {"closed", "archived"}
               /\ \A u \in Attendees : record[u] = NoRecord => record'[u] = NoRecord
         /\ \A b \in Badges :
               badge[b].status \in {"revoked", "replaced"} => badge'[b] = badge[b]
        ]_attendanceVars
  BY RollStep
<1> QED
  BY <1>1, <1>2, WorkflowsAttendance, PTL DEF WorkflowsSpec, RollTakenOnce

\* A document that was validated has a reference that was given out, and no two
\* requests share one.
THEOREM WorkflowsDocuments == WorkflowsSpec => []DocumentsInv
BY WorkflowsImplement, DocumentsSafe

\* A file that is referred to has its row, and its bytes while it can be used.
THEOREM WorkflowsFiles == WorkflowsSpec => []FilesInv
BY WorkflowsImplement, FilesSafe

\* The policy in force names published releases only.
THEOREM WorkflowsReleases == WorkflowsSpec => []ReleasesInv
BY WorkflowsImplement, ReleasesSafe

\* The records of the club agree, in each of its workflows.
THEOREM WorkflowsSafe == WorkflowsSpec => []ClubInv
<1>1. ClubInv <=> /\ RecruitmentInv /\ TasksInv /\ EventsInv /\ ImpactInv /\ HeritageInv
                  /\ ServicesInv /\ ChatInv /\ CommunityInv
  BY DEF ClubInv
<1>2. WorkflowsSpec => /\ []RecruitmentInv /\ []TasksInv /\ []EventsInv /\ []ImpactInv
                       /\ []HeritageInv /\ []ServicesInv /\ []ChatInv /\ []CommunityInv
  BY WorkflowsImplement, RecruitmentSafe, TasksSafe, EventsSafe, ImpactSafe, HeritageSafe,
     ServicesSafe, ChatSafe, CommunitySafe
<1> QED
  BY <1>1, <1>2, PTL

\* A decision on an application, the completion of a task, the verification of a claim
\* and what the memory holds as final stand.
THEOREM WorkflowsDecisions == WorkflowsSpec => DecisionsStand
<1>1. DecisionsStand <=> /\ DecisionsAreFinal /\ WorkIsCheckedOnce
                         /\ VerifiedUntilReplaced /\ FinalisedStays
  BY DEF DecisionsStand
<1> QED
  BY <1>1, WorkflowsImplement, RecruitmentDecisions, TasksCheckedOnce, ImpactVerified,
     HeritageFinalised

\* Whoever registers finds a place, whichever requests compete for the last one.
THEOREM WorkflowsCapacity == WorkflowsSpec => RegistrationWithinCapacity
BY WorkflowsImplement, EventsCapacity

\* A comment that is committed leaves its author something unread.
THEOREM WorkflowsComments == WorkflowsSpec => CommentsAreHeard
BY WorkflowsImplement, CommunityHears
=============================================================================
