------------------------ MODULE FinanceLedgerProofs ------------------------
(***************************************************************************)
(* What the ledger's handlers keep true of its tables, for every set of    *)
(* members, fees, payments and amounts.  The inductive invariant joins the *)
(* types with the two facts they rest on: a fee is never overpaid (so a    *)
(* revised penalty keeps a legal amount), and the validated payments are   *)
(* exactly those booked.  BooksInv carries the sums: what a fee was paid   *)
(* and what a member paid in all change by one term in each step.  The     *)
(* balance follows by what each handler adds to it and to the open fees    *)
(* (Moves), with nothing lost as long as no fee is cancelled.              *)
(***************************************************************************)
EXTENDS FinanceLedger, FiniteSetTheorems, SequenceTheorems, WellFoundedInduction, TLAPS

----------------------------------------------------------------------------
(* Sums over a finite set.  SumFunctionOnSet is a recursion over the subsets of *)
(* the set, each giving up the element that CHOOSE picks; what it computes is   *)
(* found by looking at a least set where a claim about it fails.                *)

\* A family of subsets of a finite set that is not empty has a minimal member.
LEMMA LeastSet ==
  ASSUME NEW S, IsFiniteSet(S), NEW C \in SUBSET SUBSET S, C # {}
  PROVE  \E s \in C : \A t \in C : ~(t \subseteq s /\ t # s)
<1>1. IsWellFoundedOn(StrictSubsetOrdering(S), FiniteSubsetsOf(S))
  BY FS_StrictSubsetOrderingWellFounded
<1>2. C \subseteq FiniteSubsetsOf(S)
  BY FS_Subset DEF FiniteSubsetsOf
<1>3. PICK s \in C : \A t \in C : <<t, s>> \notin StrictSubsetOrdering(S)
  BY <1>1, <1>2, WFMin
<1> QED BY <1>3 DEF StrictSubsetOrdering

Picked(s) == CHOOSE x \in s : TRUE

LEMMA PickedIn ==
  ASSUME NEW s, s # {} PROVE Picked(s) \in s
BY DEF Picked

\* What the sum of f over s is, once the sums g over smaller sets are known.
SumStep(f, g, s) == IF s = {} THEN 0 ELSE f[Picked(s)] + g[s \ {Picked(s)}]

\* g holds the sums of f over the subsets of S.
IsSums(g, f, S) == g = [s \in SUBSET S |-> SumStep(f, g, s)]

LEMMA SumsAgree ==
  ASSUME NEW S, IsFiniteSet(S), NEW T, NEW f, NEW g, NEW h, IsSums(g, f, S), IsSums(h, f, T),
         NEW u \in SUBSET S, u \subseteq T
  PROVE  g[u] = h[u]
<1> DEFINE Bad == {s \in SUBSET S : s \subseteq T /\ g[s] # h[s]}
<1> SUFFICES ASSUME Bad # {} PROVE FALSE
  OBVIOUS
<1>0. Bad \in SUBSET SUBSET S
  OBVIOUS
<1>1. PICK s \in Bad : \A t \in Bad : ~(t \subseteq s /\ t # s)
  <2> HIDE DEF Bad
  <2> QED BY <1>0, LeastSet
<1>2. g[s] = SumStep(f, g, s) /\ h[s] = SumStep(f, h, s)
  BY DEF IsSums
<1>3. s # {}
  BY <1>1, <1>2 DEF SumStep
<1>4. Picked(s) \in s
  BY <1>3, PickedIn
<1> DEFINE t == s \ {Picked(s)}
<1>5. t \subseteq s /\ t # s /\ t \in SUBSET S /\ t \subseteq T
  BY <1>4
<1>6. g[t] = h[t]
  BY <1>1, <1>5
<1> QED BY <1>1, <1>2, <1>3, <1>6 DEF SumStep

LEMMA SumsExist ==
  ASSUME NEW S, IsFiniteSet(S), NEW f
  PROVE  \E g : IsSums(g, f, S)
<1> DEFINE Bad == {s \in SUBSET S : ~\E g : IsSums(g, f, s)}
<1> SUFFICES ASSUME Bad # {} PROVE FALSE
  OBVIOUS
<1>0. Bad \in SUBSET SUBSET S
  OBVIOUS
<1>1. PICK s \in Bad : \A t \in Bad : ~(t \subseteq s /\ t # s)
  <2> HIDE DEF Bad
  <2> QED BY <1>0, LeastSet
<1> DEFINE G(t) == CHOOSE g : IsSums(g, f, t)
           Less(t) == t \subseteq s /\ t # s
           h == [t \in SUBSET s |->
                   IF t = {} THEN 0
                   ELSE f[Picked(t)] + G(t \ {Picked(t)})[t \ {Picked(t)}]]
<1>2. \A t : Less(t) => IsSums(G(t), f, t) /\ IsFiniteSet(t)
  <2> SUFFICES ASSUME NEW t, Less(t) PROVE IsSums(G(t), f, t) /\ IsFiniteSet(t)
    OBVIOUS
  <2>1. \E g : IsSums(g, f, t)
    BY <1>1
  <2>2. IsFiniteSet(t)
    <3>1. s \subseteq S
      OBVIOUS
    <3> QED BY <3>1, FS_Subset
  <2> QED BY <2>1, <2>2
<1> HIDE DEF G
<1>3. \A t : Less(t) => h[t] = G(t)[t]
  <2> SUFFICES ASSUME NEW t, Less(t) PROVE h[t] = G(t)[t]
    OBVIOUS
  <2> DEFINE u == t \ {Picked(t)}
  <2>1. G(t)[t] = SumStep(f, G(t), t)
    <3>1. G(t) = [r \in SUBSET t |-> SumStep(f, G(t), r)]
      BY <1>2 DEF IsSums
    <3>2. t \in SUBSET t
      OBVIOUS
    <3> QED BY <3>1, <3>2
  <2>2. CASE t = {}
    BY <2>1, <2>2 DEF SumStep
  <2>3. CASE t # {}
    <3>1. Picked(t) \in t /\ u \subseteq t /\ Less(u) /\ u \in SUBSET t
      <4>1. Picked(t) \in t
        BY <2>3, PickedIn
      <4> QED BY <4>1
    <3>2. G(t)[u] = G(u)[u]
      <4>1. IsSums(G(t), f, t) /\ IsFiniteSet(t) /\ IsSums(G(u), f, u)
        BY <1>2, <3>1
      <4> HIDE DEF u
      <4> QED BY <4>1, <3>1, SumsAgree
    <3> QED BY <2>1, <2>3, <3>2 DEF SumStep
  <2> QED BY <2>2, <2>3
<1>4. \A t \in SUBSET s : h[t] = SumStep(f, h, t)
  <2> SUFFICES ASSUME NEW t \in SUBSET s PROVE h[t] = SumStep(f, h, t)
    OBVIOUS
  <2>1. CASE t = {}
    BY <2>1 DEF SumStep
  <2>2. CASE t # {}
    <3> DEFINE u == t \ {Picked(t)}
    <3>1. Less(u)
      BY <2>2, PickedIn
    <3>2. h[u] = G(u)[u]
      BY <1>3, <3>1
    <3> QED BY <2>2, <3>2 DEF SumStep
  <2> QED BY <2>1, <2>2
<1>5. IsSums(h, f, s)
  <2>1. h = [t \in SUBSET s |-> h[t]]
    OBVIOUS
  <2> HIDE DEF h
  <2> QED BY <1>4, <2>1 DEF IsSums
<1> QED BY <1>1, <1>5

LEMMA SumIsLastSum ==
  ASSUME NEW S, IsFiniteSet(S), NEW f, NEW g, IsSums(g, f, S)
  PROVE  SumFunctionOnSet(f, S) = g[S]
<1> DEFINE c == CHOOSE i : IsSums(i, f, S)
<1>1. IsSums(c, f, S)
  BY SumsExist
<1>2. SumFunctionOnSet(f, S) = c[S]
  BY DEF SumFunctionOnSet, FoldFunctionOnSet, MapThenFoldSet, IsSums, SumStep, Picked
<1> HIDE DEF c
<1> QED BY <1>1, <1>2, SumsAgree

LEMMA SumEmpty == \A f : SumFunctionOnSet(f, {}) = 0
<1> SUFFICES ASSUME NEW f PROVE SumFunctionOnSet(f, {}) = 0
  OBVIOUS
<1>1. PICK g : IsSums(g, f, {})
  BY SumsExist, FS_EmptySet
<1>2. SumFunctionOnSet(f, {}) = g[{}]
  BY <1>1, SumIsLastSum, FS_EmptySet
<1> QED BY <1>1, <1>2 DEF IsSums, SumStep

LEMMA SumPicked ==
  ASSUME NEW S, IsFiniteSet(S), S # {}, NEW f
  PROVE  /\ Picked(S) \in S
         /\ SumFunctionOnSet(f, S)
              = f[Picked(S)] + SumFunctionOnSet(f, S \ {Picked(S)})
<1> DEFINE T == S \ {Picked(S)}
<1>1. PICK g : IsSums(g, f, S)
  BY SumsExist
<1>2. IsFiniteSet(T) /\ T \subseteq S
  BY FS_Subset
<1>3. PICK h : IsSums(h, f, T)
  BY <1>2, SumsExist
<1>4. Picked(S) \in S
  BY PickedIn
<1>5. g[S] = f[Picked(S)] + g[T]
  BY <1>1 DEF IsSums, SumStep
<1>6. SumFunctionOnSet(f, S) = g[S] /\ SumFunctionOnSet(f, T) = h[T]
  BY <1>1, <1>2, <1>3, SumIsLastSum
<1>7. g[T] = h[T]
  <2> HIDE DEF T
  <2> QED BY <1>1, <1>2, <1>3, SumsAgree
<1> QED BY <1>4, <1>5, <1>6, <1>7

IntOn(f, S) == \A x \in S : f[x] \in Int

LEMMA SumType ==
  ASSUME NEW S, IsFiniteSet(S), NEW f, IntOn(f, S)
  PROVE  SumFunctionOnSet(f, S) \in Int
<1> DEFINE Bad == {s \in SUBSET S : SumFunctionOnSet(f, s) \notin Int}
<1> SUFFICES ASSUME Bad # {} PROVE FALSE
  OBVIOUS
<1>0. Bad \in SUBSET SUBSET S
  OBVIOUS
<1>1. PICK s \in Bad : \A t \in Bad : ~(t \subseteq s /\ t # s)
  <2> HIDE DEF Bad
  <2> QED BY <1>0, LeastSet
<1>2. IsFiniteSet(s) /\ s # {}
  <2>1. IsFiniteSet(s)
    BY <1>1, FS_Subset
  <2>2. SumFunctionOnSet(f, {}) = 0
    BY SumEmpty
  <2>3. {} \notin Bad
    BY <2>2
  <2>4. s # {}
    <3> HIDE DEF Bad
    <3> QED BY <1>1, <2>3
  <2> QED BY <2>1, <2>4
<1>3. /\ Picked(s) \in s
      /\ SumFunctionOnSet(f, s) = f[Picked(s)] + SumFunctionOnSet(f, s \ {Picked(s)})
  BY <1>2, SumPicked
<1>4. s \ {Picked(s)} \notin Bad
  BY <1>1, <1>3
<1> QED BY <1>1, <1>3, <1>4 DEF IntOn

\* Any element may be taken out first.
LEMMA SumTakesOut ==
  ASSUME NEW S, IsFiniteSet(S), NEW f, IntOn(f, S), NEW y \in S
  PROVE  SumFunctionOnSet(f, S) = f[y] + SumFunctionOnSet(f, S \ {y})
<1> DEFINE Sum(s) == SumFunctionOnSet(f, s)
           Bad == {s \in SUBSET S : \E x \in s : Sum(s) # f[x] + Sum(s \ {x})}
<1>a. \A s \in SUBSET S : IsFiniteSet(s) /\ IntOn(f, s) /\ Sum(s) \in Int
  BY FS_Subset, SumType DEF IntOn
<1>b. \A s \in SUBSET S : s # {} =>
         Picked(s) \in s /\ Sum(s) = f[Picked(s)] + Sum(s \ {Picked(s)})
  BY <1>a, SumPicked
<1> HIDE DEF Sum
<1>0. Bad = {}
  <2> SUFFICES ASSUME Bad # {} PROVE FALSE
    OBVIOUS
  <2>0. Bad \in SUBSET SUBSET S
    OBVIOUS
  <2>1. PICK s \in Bad : \A t \in Bad : ~(t \subseteq s /\ t # s)
    <3> HIDE DEF Bad
    <3> QED BY <2>0, LeastSet
  <2>2. PICK x \in s : Sum(s) # f[x] + Sum(s \ {x})
    BY <2>1
  <2> DEFINE z == Picked(s)
             sz == s \ {z}
             sx == s \ {x}
             sxz == s \ {x, z}
  <2>3. s \in SUBSET S /\ z \in s /\ Sum(s) = f[z] + Sum(sz)
    BY <2>1, <2>2, <1>b
  <2> HIDE DEF z
  <2>4. z # x
    BY <2>2, <2>3
  <2>5. /\ x \in sz /\ z \in sx /\ sz \ {x} = sxz /\ sx \ {z} = sxz
        /\ sz \notin Bad /\ sx \notin Bad /\ sz \in SUBSET S /\ sx \in SUBSET S
        /\ sxz \in SUBSET S
    BY <2>1, <2>3, <2>4
  <2>6. Sum(sz) = f[x] + Sum(sxz) /\ Sum(sx) = f[z] + Sum(sxz)
    <3> HIDE DEF sz, sx, sxz
    <3> QED BY <2>5
  <2>7. f[x] \in Int /\ f[z] \in Int /\ Sum(sxz) \in Int
    BY <1>a, <2>2, <2>3, <2>5 DEF IntOn
  <2> HIDE DEF sz, sx, sxz
  <2>8. Sum(s) = f[x] + Sum(sx)
    BY <2>3, <2>6, <2>7
  <2> QED BY <2>2, <2>8 DEF sx
<1> QED BY <1>0 DEF Sum

\* Sums of terms that are equal, one by one, are equal.
LEMMA SumEqual ==
  ASSUME NEW S, IsFiniteSet(S), NEW f, NEW g, \A x \in S : f[x] = g[x]
  PROVE  SumFunctionOnSet(f, S) = SumFunctionOnSet(g, S)
<1> DEFINE Bad == {s \in SUBSET S : SumFunctionOnSet(f, s) # SumFunctionOnSet(g, s)}
<1> SUFFICES ASSUME Bad # {} PROVE FALSE
  OBVIOUS
<1>0. Bad \in SUBSET SUBSET S
  OBVIOUS
<1>1. PICK s \in Bad : \A t \in Bad : ~(t \subseteq s /\ t # s)
  <2> HIDE DEF Bad
  <2> QED BY <1>0, LeastSet
<1>2. IsFiniteSet(s) /\ s # {}
  <2>1. IsFiniteSet(s)
    BY <1>1, FS_Subset
  <2>2. SumFunctionOnSet(f, {}) = 0 /\ SumFunctionOnSet(g, {}) = 0
    BY SumEmpty
  <2>3. {} \notin Bad
    BY <2>2
  <2>4. s # {}
    <3> HIDE DEF Bad
    <3> QED BY <1>1, <2>3
  <2> QED BY <2>1, <2>4
<1>3. /\ Picked(s) \in s
      /\ SumFunctionOnSet(f, s) = f[Picked(s)] + SumFunctionOnSet(f, s \ {Picked(s)})
      /\ SumFunctionOnSet(g, s) = g[Picked(s)] + SumFunctionOnSet(g, s \ {Picked(s)})
  BY <1>2, SumPicked
<1>4. s \ {Picked(s)} \notin Bad
  BY <1>1, <1>3
<1> QED BY <1>1, <1>3, <1>4

\* A term that changes changes the sum by as much.
LEMMA SumUpdate ==
  ASSUME NEW S, IsFiniteSet(S), NEW f, IntOn(f, S), NEW g, IntOn(g, S), NEW x \in S,
         \A y \in S : y # x => g[y] = f[y]
  PROVE  /\ SumFunctionOnSet(f, S) \in Int
         /\ SumFunctionOnSet(g, S) = SumFunctionOnSet(f, S) - f[x] + g[x]
<1> DEFINE T == S \ {x}
<1>1. IsFiniteSet(T) /\ IntOn(f, T)
  BY FS_Subset DEF IntOn
<1>2. /\ SumFunctionOnSet(f, S) = f[x] + SumFunctionOnSet(f, T)
      /\ SumFunctionOnSet(g, S) = g[x] + SumFunctionOnSet(g, T)
  BY SumTakesOut
<1>3. SumFunctionOnSet(f, T) = SumFunctionOnSet(g, T)
  BY <1>1, SumEqual
<1>4. SumFunctionOnSet(f, T) \in Int /\ f[x] \in Int /\ g[x] \in Int
  BY <1>1, SumType DEF IntOn
<1> QED BY <1>2, <1>3, <1>4

\* A sum of sums is the sum of both.
LEMMA SumAdds ==
  ASSUME NEW S, IsFiniteSet(S), NEW f, IntOn(f, S), NEW g, IntOn(g, S),
         NEW h, \A x \in S : h[x] = f[x] + g[x]
  PROVE  SumFunctionOnSet(h, S) = SumFunctionOnSet(f, S) + SumFunctionOnSet(g, S)
<1> DEFINE F(s) == SumFunctionOnSet(f, s)
           G(s) == SumFunctionOnSet(g, s)
           H(s) == SumFunctionOnSet(h, s)
           Bad == {s \in SUBSET S : H(s) # F(s) + G(s)}
<1> SUFFICES ASSUME Bad # {} PROVE FALSE
  OBVIOUS
<1>0. Bad \in SUBSET SUBSET S
  OBVIOUS
<1>1. PICK s \in Bad : \A t \in Bad : ~(t \subseteq s /\ t # s)
  <2> HIDE DEF Bad
  <2> QED BY <1>0, LeastSet
<1>2. IsFiniteSet(s) /\ s # {}
  <2>1. IsFiniteSet(s)
    BY <1>1, FS_Subset
  <2>2. SumFunctionOnSet(f, {}) = 0 /\ SumFunctionOnSet(g, {}) = 0 /\ SumFunctionOnSet(h, {}) = 0
    BY SumEmpty
  <2>3. {} \notin Bad
    BY <2>2
  <2>4. s # {}
    <3> HIDE DEF Bad
    <3> QED BY <1>1, <2>3
  <2> QED BY <2>1, <2>4
<1> DEFINE x == Picked(s)
           t == s \ {Picked(s)}
<1>3. /\ x \in s /\ F(s) = f[x] + F(t) /\ G(s) = g[x] + G(t) /\ H(s) = h[x] + H(t)
  BY <1>2, SumPicked
<1>4. t \notin Bad /\ t \in SUBSET S /\ IsFiniteSet(t) /\ x \in S
  BY <1>1, <1>2, <1>3, FS_Subset
<1>5. F(t) \in Int /\ G(t) \in Int /\ f[x] \in Int /\ g[x] \in Int
  <2>1. IntOn(f, t) /\ IntOn(g, t)
    BY <1>4 DEF IntOn
  <2> HIDE DEF t
  <2> QED BY <2>1, <1>4, SumType DEF IntOn
<1>6. H(t) = F(t) + G(t) /\ h[x] = f[x] + g[x]
  BY <1>4
<1> HIDE DEF t, x, F, G, H
<1>7. H(s) = F(s) + G(s)
  BY <1>3, <1>5, <1>6
<1> QED BY <1>1, <1>7

\* No larger terms, no larger sum.
LEMMA SumMonotone ==
  ASSUME NEW S, IsFiniteSet(S), NEW f, IntOn(f, S), NEW g, IntOn(g, S),
         \A x \in S : f[x] <= g[x]
  PROVE  SumFunctionOnSet(f, S) <= SumFunctionOnSet(g, S)
<1> DEFINE F(s) == SumFunctionOnSet(f, s)
           G(s) == SumFunctionOnSet(g, s)
           Bad == {s \in SUBSET S : ~(F(s) <= G(s))}
<1> SUFFICES ASSUME Bad # {} PROVE FALSE
  OBVIOUS
<1>0. Bad \in SUBSET SUBSET S
  OBVIOUS
<1>1. PICK s \in Bad : \A t \in Bad : ~(t \subseteq s /\ t # s)
  <2> HIDE DEF Bad
  <2> QED BY <1>0, LeastSet
<1>2. IsFiniteSet(s) /\ s # {}
  <2>1. IsFiniteSet(s)
    BY <1>1, FS_Subset
  <2>2. SumFunctionOnSet(f, {}) = 0 /\ SumFunctionOnSet(g, {}) = 0
    BY SumEmpty
  <2>3. {} \notin Bad
    BY <2>2
  <2>4. s # {}
    <3> HIDE DEF Bad
    <3> QED BY <1>1, <2>3
  <2> QED BY <2>1, <2>4
<1> DEFINE x == Picked(s)
           t == s \ {Picked(s)}
<1>3. /\ x \in s /\ F(s) = f[x] + F(t) /\ G(s) = g[x] + G(t)
  BY <1>2, SumPicked
<1>4. t \notin Bad /\ t \in SUBSET S /\ IsFiniteSet(t) /\ x \in S
  BY <1>1, <1>2, <1>3, FS_Subset
<1>5. F(t) \in Int /\ G(t) \in Int /\ f[x] \in Int /\ g[x] \in Int
  <2>1. IntOn(f, t) /\ IntOn(g, t)
    BY <1>4 DEF IntOn
  <2> HIDE DEF t
  <2> QED BY <2>1, <1>4, SumType DEF IntOn
<1>6. F(t) <= G(t) /\ f[x] <= g[x]
  BY <1>4
<1> HIDE DEF t, x, F, G
<1>7. F(s) <= G(s)
  BY <1>3, <1>5, <1>6
<1> QED BY <1>1, <1>7

LEMMA SumZero ==
  ASSUME NEW S, IsFiniteSet(S), NEW f, \A x \in S : f[x] = 0
  PROVE  SumFunctionOnSet(f, S) = 0
<1> DEFINE Bad == {s \in SUBSET S : SumFunctionOnSet(f, s) # 0}
<1> SUFFICES ASSUME Bad # {} PROVE FALSE
  OBVIOUS
<1>0. Bad \in SUBSET SUBSET S
  OBVIOUS
<1>1. PICK s \in Bad : \A t \in Bad : ~(t \subseteq s /\ t # s)
  <2> HIDE DEF Bad
  <2> QED BY <1>0, LeastSet
<1>2. IsFiniteSet(s) /\ s # {}
  <2>1. IsFiniteSet(s)
    BY <1>1, FS_Subset
  <2>2. SumFunctionOnSet(f, {}) = 0
    BY SumEmpty
  <2>3. {} \notin Bad
    BY <2>2
  <2>4. s # {}
    <3> HIDE DEF Bad
    <3> QED BY <1>1, <2>3
  <2> QED BY <2>1, <2>4
<1>3. /\ Picked(s) \in s
      /\ SumFunctionOnSet(f, s) = f[Picked(s)] + SumFunctionOnSet(f, s \ {Picked(s)})
  BY <1>2, SumPicked
<1>4. s \ {Picked(s)} \notin Bad
  BY <1>1, <1>3
<1> QED BY <1>1, <1>3, <1>4

\* Terms that are zero do not count.
LEMMA SumSupport ==
  ASSUME NEW S, IsFiniteSet(S), NEW T \in SUBSET S, NEW f, IntOn(f, S),
         \A x \in S \ T : f[x] = 0
  PROVE  SumFunctionOnSet(f, S) = SumFunctionOnSet(f, T)
<1> DEFINE F(s) == SumFunctionOnSet(f, s)
           Bad == {s \in SUBSET S : T \subseteq s /\ F(s) # F(T)}
<1> SUFFICES ASSUME Bad # {} PROVE FALSE
  OBVIOUS
<1>0. Bad \in SUBSET SUBSET S
  OBVIOUS
<1>1. PICK s \in Bad : \A t \in Bad : ~(t \subseteq s /\ t # s)
  <2> HIDE DEF Bad
  <2> QED BY <1>0, LeastSet
<1>2. PICK x \in s : x \notin T
  <2>1. T \subseteq s /\ s # T
    BY <1>1
  <2> QED BY <2>1
<1>3. IsFiniteSet(s) /\ IntOn(f, s)
  BY <1>1, FS_Subset DEF IntOn
<1>4. F(s) = f[x] + F(s \ {x})
  BY <1>3, SumTakesOut
<1>5. f[x] = 0 /\ F(s \ {x}) = F(T)
  BY <1>1, <1>2
<1>6. F(T) \in Int
  <2>1. IsFiniteSet(T) /\ IntOn(f, T)
    BY FS_Subset DEF IntOn
  <2> QED BY <2>1, SumType
<1> HIDE DEF F
<1> QED BY <1>1, <1>4, <1>5, <1>6

----------------------------------------------------------------------------
(* The helpers stay in the columns they are written to *)

LEMMA Floor0Type ==
  ASSUME NEW n \in Int
  PROVE  Floor0(n) \in Nat
BY DEF Floor0

LEMMA FeeStatusType ==
  ASSUME NEW amount, NEW paid
  PROVE  FeeStatus(amount, paid) \in FeeStatuses
BY DEF FeeStatus, FeeStatuses

LEMMA RemainingType ==
  ASSUME NEW row \in FeeRow, row.paid <= row.amount
  PROVE  Remaining(row) \in Nat /\ Remaining(row) = row.amount - row.paid
BY LedgerAssumption DEF FeeRow, Cash, Remaining, Floor0

\* The allocation loop never hands a fee more than it still owes.
LEMMA AllocationWithinRemaining ==
  ASSUME NEW rows, NEW order, NEW amount,
         NEW a \in Allocations(rows, order, amount),
         NEW f \in Fees, rows[f] \in FeeRow, rows[f].paid <= rows[f].amount
  PROVE  a[f] \in Nat /\ rows[f].paid + a[f] <= rows[f].amount
<1>1. a[f] \in Nat
  BY LedgerAssumption DEF Allocations, Cash
<1>2. Remaining(rows[f]) \in Nat /\ Remaining(rows[f]) = rows[f].amount - rows[f].paid
  BY RemainingType
<1>3. rows[f].amount \in Nat /\ rows[f].paid \in Nat
  BY LedgerAssumption DEF FeeRow, Cash
<1>4. CASE f \notin ToSet(order)
  <2>1. a[f] = 0
    BY <1>4 DEF Allocations, IsAllocation
  <2> QED BY <2>1, <1>3
<1>5. CASE f \in ToSet(order)
  <2>1. PICK i \in DOMAIN order : order[i] = f
    BY <1>5 DEF ToSet
  <2>2. PICK left : a[f] = Least(Remaining(rows[f]), left)
    BY <2>1 DEF Allocations, IsAllocation
  <2>3. a[f] <= Remaining(rows[f])
    BY <2>2, <1>1, <1>2 DEF Least
  <2> QED BY <2>3, <1>1, <1>2, <1>3
<1> QED BY <1>4, <1>5

LEMMA FeeRowStatus ==
  ASSUME NEW row \in FeeRow, NEW status \in FeeStatuses
  PROVE  LET next == [row EXCEPT !.status = status]
         IN next \in FeeRow /\ next.paid = row.paid /\ next.amount = row.amount
BY DEF FeeRow

\* It leaves well-formed fees rows, none of them overpaid, of unchanged amount.
LEMMA AllocatedRows ==
  ASSUME NEW rows \in [Fees -> FeeRow], NEW order, NEW amount,
         \A f \in Fees : rows[f].paid <= rows[f].amount,
         NEW a \in Allocations(rows, order, amount)
  PROVE  /\ Allocated(rows, order, amount, a) \in [Fees -> FeeRow]
         /\ \A f \in Fees : Allocated(rows, order, amount, a)[f].paid
                              <= Allocated(rows, order, amount, a)[f].amount
<1> DEFINE after == Allocated(rows, order, amount, a)
<1> SUFFICES ASSUME NEW f \in Fees
             PROVE  after[f] \in FeeRow /\ after[f].paid <= after[f].amount
  BY DEF Allocated
<1>1. a[f] \in Nat /\ rows[f].paid + a[f] <= rows[f].amount
  BY AllocationWithinRemaining
<1>2. FeeStatus(rows[f].amount, rows[f].paid + a[f]) \in FeeStatuses
  BY FeeStatusType
<1>3. rows[f] \in FeeRow /\ rows[f].paid \in Nat /\ rows[f].paid <= rows[f].amount
  BY DEF FeeRow
<1>4. CASE after[f] = rows[f]
  BY <1>3, <1>4
<1>5. CASE after[f] = [status |-> FeeStatus(rows[f].amount, rows[f].paid + a[f]),
                       amount |-> rows[f].amount, paid |-> rows[f].paid + a[f]]
  <2>1. rows[f].paid + a[f] \in Nat
    BY <1>1, <1>3
  <2> QED BY <1>1, <1>2, <1>3, <1>5, <2>1 DEF FeeRow
<1> QED BY <1>4, <1>5 DEF Allocated

LEMMA CreditedType ==
  ASSUME NEW row \in AccountRow, NEW amount \in Cash, NEW allocated \in Cash
  PROVE  /\ Credited(row, amount, allocated) \in AccountRow
         /\ Credited(row, amount, allocated).paid = row.paid + amount
<1>1. row.due - allocated \in Int /\ row.paid + amount \in Nat
  BY LedgerAssumption DEF AccountRow, Cash
<1>2. Floor0(row.due - allocated) \in Nat
  BY <1>1, Floor0Type
<1> QED BY <1>1, <1>2 DEF Credited, AccountRow

----------------------------------------------------------------------------
(* The inductive invariant *)

LedgerInv == LedgerTypeOK /\ FeesNotOverpaid /\ PaymentsBookedOnce

LEMMA LedgerInitInv == LedgerInit => LedgerInv
BY LedgerAssumption
   DEF LedgerInit, LedgerInv, LedgerTypeOK, RowsTypeOK, FeesNotOverpaid,
       PaymentsBookedOnce, NoFee, NoPayment, FeeRow, FeeStatuses, AccountRow,
       PaymentRow, Cash, CancelRequest

\* Reducing what a member owes keeps the account well-formed.
LEMMA DueType ==
  ASSUME LedgerTypeOK, NEW m \in Members, NEW n \in Nat
  PROVE  [account EXCEPT ![m].due = Floor0(@ - n)] \in [Members -> AccountRow]
<1>1. account[m].due - n \in Int
  BY DEF LedgerTypeOK, RowsTypeOK, AccountRow
<1>2. Floor0(account[m].due - n) \in Nat
  BY <1>1, Floor0Type
<1> QED BY <1>2 DEF LedgerTypeOK, RowsTypeOK, AccountRow

\* Every handler that only concerns fees.
LEMMA FeeStepInv ==
  ASSUME LedgerInv,
         \/ \E f \in Fees : CreateFee(f) \/ RemovePenalty(f)
         \/ \E f \in Fees, amount \in Amounts : SyncPenalty(f, amount)
         \/ \E c \in Clerks, f \in Fees : CancelFeeRead(c, f)
         \/ \E c \in Clerks : CancelFeeCommit(c)
  PROVE  LedgerInv'
<1> USE LedgerAssumption DEF LedgerInv, LedgerTypeOK, RowsTypeOK
<1>1. PaymentsBookedOnce'
  BY DEF PaymentsBookedOnce, CreateFee, CreateFeeRecord, RemovePenalty, SyncPenalty,
         CancelFeeRead, CancelFeeCommit, tableVars
<1>2. ASSUME NEW f \in Fees, CreateFee(f)
      PROVE  LedgerTypeOK' /\ FeesNotOverpaid'
  <2>1. PICK amount \in Amounts :
          /\ fee' = [fee EXCEPT ![f] = [status |-> "unpaid",
                                        amount |-> amount, paid |-> 0]]
          /\ account' = [account EXCEPT ![Owner[f]].due = @ + amount]
    BY <1>2 DEF CreateFee, CreateFeeRecord
  <2>2. amount \in Nat /\ amount \in Cash
    BY DEF Cash
  <2>3. fee' \in [Fees -> FeeRow] /\ FeesNotOverpaid'
    BY <2>1, <2>2 DEF FeeRow, FeeStatuses, FeesNotOverpaid
  <2>4. Owner[f] \in Members /\ account[Owner[f]].due + amount \in Nat
    BY <2>2 DEF AccountRow
  <2>5. account' \in [Members -> AccountRow]
    BY <2>1, <2>4 DEF AccountRow
  <2> QED BY <1>2, <2>3, <2>5 DEF CreateFee
<1>3. ASSUME NEW f \in Fees, RemovePenalty(f)
      PROVE  LedgerTypeOK' /\ FeesNotOverpaid'
  <2>1. Remaining(fee[f]) \in Nat
    BY RemainingType DEF FeesNotOverpaid
  <2>2. account' \in [Members -> AccountRow]
    BY <1>3, <2>1, DueType DEF RemovePenalty
  <2>3. fee' \in [Fees -> FeeRow] /\ FeesNotOverpaid'
    BY <1>3 DEF RemovePenalty, FeeRow, FeeStatuses, FeesNotOverpaid
  <2> QED BY <1>3, <2>2, <2>3 DEF RemovePenalty
<1>4. ASSUME NEW f \in Fees, NEW amount \in Amounts, SyncPenalty(f, amount)
      PROVE  LedgerTypeOK' /\ FeesNotOverpaid'
  <2> DEFINE row   == fee[f]
             total == IF amount < row.paid THEN row.paid ELSE amount
             was   == IF row.status \in {"absent", "cancelled"}
                        THEN 0 ELSE Remaining(row)
             due   == account[Owner[f]].due - was + Floor0(total - row.paid)
  <2>1. row \in FeeRow /\ row.paid <= row.amount /\ row.paid \in Nat
    BY DEF FeesNotOverpaid, FeeRow
  <2>2. total \in Cash /\ row.paid <= total
    BY <2>1 DEF Cash, FeeRow
  <2>3. was \in Nat
    BY <2>1, RemainingType
  <2>4. Floor0(total - row.paid) \in Nat
    BY <2>1, <2>2 DEF Cash, Floor0
  <2>5. Floor0(due) \in Nat
    <3>1. due \in Int
      BY <2>3, <2>4 DEF AccountRow
    <3> QED BY <3>1, Floor0Type
  <2>6. account' = [account EXCEPT ![Owner[f]].due = Floor0(due)]
    BY <1>4 DEF SyncPenalty
  <2>7. fee' = [fee EXCEPT ![f] = [status |-> FeeStatus(total, row.paid),
                                   amount |-> total, paid |-> row.paid]]
    BY <1>4 DEF SyncPenalty
  <2>8. account' \in [Members -> AccountRow]
    BY <2>5, <2>6 DEF AccountRow
  <2>9. fee' \in [Fees -> FeeRow] /\ FeesNotOverpaid'
    <3>1. FeeStatus(total, row.paid) \in FeeStatuses
      BY FeeStatusType
    <3> QED BY <2>1, <2>2, <2>7, <3>1 DEF FeeRow, FeesNotOverpaid
  <2> QED BY <1>4, <2>8, <2>9 DEF SyncPenalty
<1>5. ASSUME NEW c \in Clerks, NEW f \in Fees, CancelFeeRead(c, f)
      PROVE  LedgerTypeOK' /\ FeesNotOverpaid'
  <2>1. Remaining(fee[f]) \in Nat
    BY RemainingType DEF FeesNotOverpaid
  <2>2. fee[f].status \in FeeStatuses
    BY DEF FeeRow
  <2>3. cancelling' \in [Clerks -> CancelRequest]
    BY <1>5, <2>1, <2>2 DEF CancelFeeRead, CancelRequest
  <2> QED BY <1>5, <2>3 DEF CancelFeeRead, tableVars, FeesNotOverpaid
<1>6. ASSUME NEW c \in Clerks, CancelFeeCommit(c)
      PROVE  LedgerTypeOK' /\ FeesNotOverpaid'
  <2>1. cancelling[c] \in [op : {"cancel_fee"}, fee : Fees, was : FeeStatuses,
                           remaining : Nat]
    BY <1>6 DEF CancelFeeCommit, CancelRequest
  <2>2. account' \in [Members -> AccountRow]
    BY <1>6, <2>1, DueType DEF CancelFeeCommit
  <2>3. fee' \in [Fees -> FeeRow] /\ FeesNotOverpaid'
    <3> DEFINE f == cancelling[c].fee
    <3>1. f \in Fees /\ fee[f] \in FeeRow /\ "cancelled" \in FeeStatuses
      BY <2>1 DEF FeeStatuses
    <3>2. CASE fee' = [fee EXCEPT ![f].status = "cancelled"]
      <4>1. fee' = [fee EXCEPT ![f] = [fee[f] EXCEPT !.status = "cancelled"]]
        BY <3>2
      <4>2. [fee[f] EXCEPT !.status = "cancelled"] \in FeeRow
        BY <3>1, FeeRowStatus
      <4> QED BY <3>1, <4>1, <4>2, FeeRowStatus DEF FeesNotOverpaid
    <3> QED BY <1>6, <3>2 DEF CancelFeeCommit, FeesNotOverpaid
  <2>4. cancelling' \in [Clerks -> CancelRequest]
    BY <1>6 DEF CancelFeeCommit, CancelRequest
  <2> QED BY <1>6, <2>2, <2>3, <2>4 DEF CancelFeeCommit
<1> QED BY <1>1, <1>2, <1>3, <1>4, <1>5, <1>6

\* Validation: the payment is booked, its allocations raise what fees were paid.
LEMMA ValidatePaymentInv ==
  ASSUME LedgerInv, NEW p \in Payments, ValidatePayment(p)
  PROVE  LedgerInv'
<1> USE LedgerAssumption DEF LedgerInv, LedgerTypeOK, RowsTypeOK
<1> DEFINE m      == payment[p].user
           amount == payment[p].amount
           order  == OpenFees(m)
<1>1. PICK a \in Allocations(fee, order, amount), got \in Cash :
        /\ fee' = Allocated(fee, order, amount, a)
        /\ alloc' = [alloc EXCEPT ![p] = a]
        /\ account' = [account EXCEPT ![m] = Credited(@, amount, got)]
        /\ income' = [income EXCEPT ![p] = amount]
  BY DEF ValidatePayment
<1>2. payment' = [payment EXCEPT ![p].status = "validated"] /\ cancelling' = cancelling
  BY DEF ValidatePayment
<1>3. amount \in Cash /\ amount \in Nat
  BY DEF PaymentRow, Cash
<1>4. fee' \in [Fees -> FeeRow] /\ FeesNotOverpaid'
  BY <1>1, AllocatedRows DEF FeesNotOverpaid
<1>5. alloc' \in [Payments -> [Fees -> Nat]]
  BY <1>1 DEF Allocations, Cash
<1>6. account' \in [Members -> AccountRow]
  BY <1>1, <1>3, CreditedType
<1>7. payment' \in [Payments -> PaymentRow]
  BY <1>2 DEF PaymentRow
<1>8. income' \in [Payments -> Nat]
  BY <1>1, <1>3
<1>9. PaymentsBookedOnce'
  BY <1>1, <1>2 DEF PaymentsBookedOnce, PaymentRow
<1> QED BY <1>2, <1>4, <1>5, <1>6, <1>7, <1>8, <1>9

LEMMA PaymentStepInv ==
  ASSUME LedgerInv,
         \/ \E p \in Payments, m \in Members : CreatePayment(p, m)
         \/ \E p \in Payments : RejectPayment(p) \/ CancelPayment(p)
  PROVE  LedgerInv'
<1> USE LedgerAssumption DEF LedgerInv, LedgerTypeOK, RowsTypeOK
<1>1. FeesNotOverpaid' /\ cancelling' = cancelling /\ UNCHANGED <<fee, account, alloc, income>>
  BY DEF CreatePayment, RejectPayment, CancelPayment, FeesNotOverpaid
<1>2. ASSUME NEW p \in Payments, NEW m \in Members, CreatePayment(p, m)
      PROVE  payment' \in [Payments -> PaymentRow] /\ PaymentsBookedOnce'
  BY <1>2 DEF CreatePayment, PaymentRow, Cash, PaymentsBookedOnce
<1>3. ASSUME NEW p \in Payments, RejectPayment(p) \/ CancelPayment(p)
      PROVE  payment' \in [Payments -> PaymentRow] /\ PaymentsBookedOnce'
  <2>1. PICK status \in {"rejected", "cancelled"} :
          payment' = [payment EXCEPT ![p].status = status]
    BY <1>3 DEF RejectPayment, CancelPayment
  <2>2. payment[p].status # "validated" /\ UNCHANGED <<alloc, income>>
    BY <1>3 DEF RejectPayment, CancelPayment
  <2>3. payment' \in [Payments -> PaymentRow]
    BY <2>1 DEF PaymentRow
  <2>4. /\ payment'[p].status # "validated"
        /\ \A q \in Payments : q # p => payment'[q] = payment[q]
    BY <2>1 DEF PaymentRow
  <2> QED BY <2>2, <2>3, <2>4 DEF PaymentsBookedOnce
<1> QED BY <1>1, <1>2, <1>3

LEMMA LedgerNextInv ==
  ASSUME LedgerInv, [LedgerNext]_ledgerVars
  PROVE  LedgerInv'
<1>1. CASE UNCHANGED ledgerVars
  BY <1>1 DEF ledgerVars, LedgerInv, LedgerTypeOK, RowsTypeOK, FeesNotOverpaid,
              PaymentsBookedOnce
<1>2. CASE \E p \in Payments : ValidatePayment(p)
  BY <1>2, ValidatePaymentInv
<1> QED BY <1>1, <1>2, FeeStepInv, PaymentStepInv DEF LedgerNext

----------------------------------------------------------------------------
(* Theorems *)

\* The tables keep their types, no fee is overpaid, and exactly the validated
\* payments are booked: for any number of members, fees, payments and clerks.
THEOREM LedgerSafe ==
  LedgerSpec => [](LedgerTypeOK /\ FeesNotOverpaid /\ PaymentsBookedOnce)
<1>1. LedgerInit => LedgerInv
  BY LedgerInitInv
<1>2. LedgerInv /\ [LedgerNext]_ledgerVars => LedgerInv'
  BY LedgerNextInv
<1> QED BY <1>1, <1>2, PTL DEF LedgerSpec, LedgerInv

\* A step of the ledger leaves a validated payment, its allocations and its
\* income row as they are.
LEMMA ValidatedKept ==
  ASSUME LedgerInv, [LedgerNext]_ledgerVars,
         NEW p \in Payments, payment[p].status = "validated"
  PROVE  payment'[p] = payment[p] /\ alloc'[p] = alloc[p] /\ income'[p] = income[p]
<1> USE DEF LedgerInv, LedgerTypeOK, RowsTypeOK
<1>1. CASE UNCHANGED ledgerVars
  BY <1>1 DEF ledgerVars
<1>2. CASE \/ \E f \in Fees : CreateFee(f) \/ RemovePenalty(f)
           \/ \E f \in Fees, amount \in Amounts : SyncPenalty(f, amount)
           \/ \E c \in Clerks, f \in Fees : CancelFeeRead(c, f)
           \/ \E c \in Clerks : CancelFeeCommit(c)
  BY <1>2 DEF CreateFee, CreateFeeRecord, RemovePenalty, SyncPenalty, CancelFeeRead,
              CancelFeeCommit, tableVars
<1>3. ASSUME NEW q \in Payments, NEW m \in Members, CreatePayment(q, m)
      PROVE  payment'[p] = payment[p] /\ alloc' = alloc /\ income' = income
  BY <1>3 DEF CreatePayment
<1>4. ASSUME NEW q \in Payments, RejectPayment(q) \/ CancelPayment(q)
      PROVE  payment'[p] = payment[p] /\ alloc' = alloc /\ income' = income
  BY <1>4 DEF RejectPayment, CancelPayment
<1>5. ASSUME NEW q \in Payments, ValidatePayment(q)
      PROVE  payment'[p] = payment[p] /\ alloc'[p] = alloc[p] /\ income'[p] = income[p]
  BY <1>5 DEF ValidatePayment
<1> QED BY <1>1, <1>2, <1>3, <1>4, <1>5 DEF LedgerNext

\* A validated payment is final.
THEOREM LedgerValidatedIsFinal == LedgerSpec => ValidatedIsFinal
<1>1. LedgerInv /\ [LedgerNext]_ledgerVars =>
        [\A p \in Payments : payment[p].status = "validated" =>
           payment'[p] = payment[p] /\ alloc'[p] = alloc[p] /\ income'[p] = income[p]]_ledgerVars
  BY ValidatedKept
<1>2. LedgerInit => LedgerInv
  BY LedgerInitInv
<1>3. LedgerInv /\ [LedgerNext]_ledgerVars => LedgerInv'
  BY LedgerNextInv
<1> QED BY <1>1, <1>2, <1>3, PTL DEF LedgerSpec, ValidatedIsFinal

----------------------------------------------------------------------------
(* What a payment hands out *)

LEMMA LeastNumber ==
  ASSUME NEW T \in SUBSET Nat, T # {}
  PROVE  \E n \in T : \A k \in T : ~(k < n)
<1>1. IsWellFoundedOn(OpToRel(<, Nat), Nat)
  BY NatLessThanWellFounded
<1>2. PICK n \in T : \A y \in T : <<y, n>> \notin OpToRel(<, Nat)
  BY <1>1, WFMin
<1> QED BY <1>2 DEF OpToRel

\* The fees of the first i rows of the loop.
Before(order, i) == ToSet(SubSeq(order, 1, i))

LEMMA BeforeRows ==
  ASSUME NEW order \in Seq(Fees)
  PROVE  /\ Len(order) \in Nat /\ DOMAIN order = 1..Len(order)
         /\ \A i \in 0..Len(order) : /\ Before(order, i) = {order[j] : j \in 1..i}
                                     /\ Before(order, i) \subseteq Fees
         /\ Before(order, Len(order)) = ToSet(order)
<1>1. Len(order) \in Nat /\ DOMAIN order = 1..Len(order)
  OBVIOUS
<1>2. ASSUME NEW i \in 0..Len(order)
      PROVE  Before(order, i) = {order[j] : j \in 1..i} /\ Before(order, i) \subseteq Fees
  <2>1. SubSeq(order, 1, i) = [j \in 1..i |-> order[j]]
    BY <1>1
  <2>2. DOMAIN SubSeq(order, 1, i) = 1..i /\ \A j \in 1..i : SubSeq(order, 1, i)[j] = order[j]
    BY <2>1
  <2>3. Before(order, i) = {order[j] : j \in 1..i}
    BY <2>2 DEF Before, ToSet
  <2>4. \A j \in 1..i : order[j] \in Fees
    BY <1>1
  <2> QED BY <2>3, <2>4
<1>3. Before(order, Len(order)) = ToSet(order)
  BY <1>1, <1>2 DEF ToSet
<1> QED BY <1>1, <1>2, <1>3

\* The loop hands out no more than the payment brought, and a fee that it does
\* not reach, or that is not in its list, takes nothing.
LEMMA HandsOutAtMost ==
  ASSUME NEW rows, NEW order \in Seq(Fees), NEW amount \in Nat,
         NEW a \in Allocations(rows, order, amount)
  PROVE  /\ a \in [Fees -> Nat]
         /\ SumFunction(a) = SumFunctionOnSet(a, Fees)
         /\ SumFunction(a) \in Int /\ SumFunction(a) <= amount
         /\ \A f \in Fees :
              (~\E i \in DOMAIN order : order[i] = f /\ Reached(a, order, i, amount))
                => a[f] = 0
<1> DEFINE Sum(s) == SumFunctionOnSet(a, s)
<1>1. /\ a \in [Fees -> Nat] /\ IsAllocation(a, rows, order, amount)
      /\ DOMAIN a = Fees
  BY LedgerAssumption DEF Allocations, Cash
<1>2. \A s \in SUBSET Fees : IsFiniteSet(s) /\ IntOn(a, s) /\ Sum(s) \in Int
  <2> SUFFICES ASSUME NEW s \in SUBSET Fees
               PROVE  IsFiniteSet(s) /\ IntOn(a, s) /\ Sum(s) \in Int
    OBVIOUS
  <2>1. IsFiniteSet(s) /\ IntOn(a, s)
    BY <1>1, LedgerAssumption, FS_Subset DEF IntOn
  <2> QED BY <2>1, SumType
<1>3. \A i \in DOMAIN order : a[order[i]] <= amount - Sum(Before(order, i - 1))
  <2> SUFFICES ASSUME NEW i \in DOMAIN order
               PROVE  a[order[i]] <= amount - Sum(Before(order, i - 1))
    OBVIOUS
  <2>1. PICK owed : a[order[i]] = Least(owed, amount - Sum(Before(order, i - 1)))
    BY <1>1 DEF IsAllocation, Before
  <2>2. i - 1 \in 0..Len(order) /\ order[i] \in Fees
    BY BeforeRows
  <2>3. Sum(Before(order, i - 1)) \in Int /\ a[order[i]] \in Int
    BY <1>1, <1>2, <2>2, BeforeRows
  <2> HIDE DEF Sum
  <2> QED BY <2>1, <2>3 DEF Least
<1>4. \A i \in 0..Len(order) : Sum(Before(order, i)) <= amount
  <2> DEFINE Bad == {i \in 0..Len(order) : ~(Sum(Before(order, i)) <= amount)}
  <2> SUFFICES ASSUME Bad # {} PROVE FALSE
    OBVIOUS
  <2>0. Bad \in SUBSET Nat
    BY BeforeRows
  <2>1. PICK i \in Bad : \A k \in Bad : ~(k < i)
    <3> HIDE DEF Bad
    <3> QED BY <2>0, LeastNumber
  <2>2. i \in 0..Len(order) /\ i \in Nat
    BY <2>0, <2>1
  <2>3. CASE i = 0
    <3>1. Before(order, 0) = {}
      BY <2>2, <2>3, BeforeRows
    <3>2. Sum(Before(order, 0)) = 0
      BY <3>1, SumEmpty
    <3> QED BY <2>1, <2>3, <3>2
  <2>4. CASE i # 0
    <3> DEFINE s == Before(order, i - 1)
    <3>1. /\ i \in DOMAIN order /\ i - 1 \in 0..Len(order) /\ i - 1 < i
          /\ i - 1 \notin Bad
      BY <2>1, <2>2, <2>4, BeforeRows
    <3>2. Before(order, i) = s \cup {order[i]} /\ s \subseteq Fees /\ order[i] \in Fees
      BY <2>2, <3>1, BeforeRows
    <3>3. Sum(s) \in Int /\ Sum(s) <= amount /\ a[order[i]] <= amount - Sum(s)
      BY <1>2, <1>3, <3>1, <3>2
    <3>4. CASE order[i] \in s
      <4>1. Before(order, i) = s
        BY <3>2, <3>4
      <4> QED BY <2>1, <3>3, <4>1
    <3>5. CASE order[i] \notin s
      <4> DEFINE t == Before(order, i)
      <4>1. t \in SUBSET Fees /\ order[i] \in t /\ t \ {order[i]} = s
        BY <3>2, <3>5
      <4>2. Sum(t) = a[order[i]] + Sum(s)
        <5>1. IsFiniteSet(t) /\ IntOn(a, t)
          BY <1>2, <4>1
        <5> HIDE DEF t, s
        <5> QED BY <5>1, <4>1, SumTakesOut
      <4>3. a[order[i]] \in Int
        BY <1>1, <3>2
      <4>4. Sum(t) <= amount
        <5> HIDE DEF t, s, Sum
        <5> QED BY <3>3, <4>2, <4>3
      <4> QED BY <2>1, <4>4
    <3> QED BY <3>4, <3>5
  <2> QED BY <2>3, <2>4
<1>5. Sum(Fees) = Sum(ToSet(order))
  <2>1. ToSet(order) \in SUBSET Fees /\ \A f \in Fees \ ToSet(order) : a[f] = 0
    BY <1>1, BeforeRows DEF ToSet, IsAllocation
  <2>2. IsFiniteSet(Fees) /\ IntOn(a, Fees)
    BY <1>2
  <2> QED BY <2>1, <2>2, SumSupport
<1>6. SumFunction(a) = Sum(Fees)
  BY <1>1 DEF SumFunction
<1>7. Sum(Fees) \in Int /\ Sum(Fees) <= amount
  <2>1. Sum(ToSet(order)) <= amount
    BY <1>4, BeforeRows
  <2> QED BY <1>2, <1>5, <2>1
<1>8. ASSUME NEW f \in Fees,
             ~\E i \in DOMAIN order : order[i] = f /\ Reached(a, order, i, amount)
      PROVE  a[f] = 0
  <2>1. CASE f \notin ToSet(order)
    BY <1>1, <2>1 DEF IsAllocation
  <2>2. CASE f \in ToSet(order)
    <3>1. PICK i \in DOMAIN order : order[i] = f
      BY <2>2 DEF ToSet
    <3>2. ~(Sum(Before(order, i - 1)) < amount)
      BY <1>8, <3>1 DEF Reached, Before
    <3>3. Sum(Before(order, i - 1)) \in Int /\ a[f] <= amount - Sum(Before(order, i - 1))
      <4>1. i - 1 \in 0..Len(order)
        BY BeforeRows
      <4> QED BY <1>2, <1>3, <3>1, <4>1, BeforeRows
    <3>4. a[f] \in Nat
      BY <1>1
    <3> HIDE DEF Sum
    <3> QED BY <3>2, <3>3, <3>4
  <2> QED BY <2>1, <2>2
<1> QED BY <1>1, <1>6, <1>7, <1>8

----------------------------------------------------------------------------
(* The fees selected for a payment *)

IsOpen(f, m) == Owner[f] = m /\ fee[f].status \in {"unpaid", "partial"}

\* The entry i of the table of OpenFees, from the entry before it.
Selected(g, i, m) ==
  IF i = 0 THEN <<>>
  ELSE IF IsOpen(FeeOrder[i], m) THEN Append(g[i - 1], FeeOrder[i])
  ELSE g[i - 1]

IsSelection(g, n, m) == g = [i \in 0..n |-> Selected(g, i, m)]

LEMMA SelectionExists ==
  ASSUME NEW m, NEW n \in Nat
  PROVE  \E g : IsSelection(g, n, m)
<1> DEFINE Bad == {k \in Nat : ~\E g : IsSelection(g, k, m)}
<1> SUFFICES ASSUME Bad # {} PROVE FALSE
  OBVIOUS
<1>1. PICK k \in Bad : \A l \in Bad : ~(l < k)
  BY LeastNumber
<1>2. CASE k = 0
  <2> DEFINE h == [i \in 0..0 |-> <<>>]
  <2>1. \A i \in 0..0 : h[i] = Selected(h, i, m)
    BY DEF Selected
  <2>2. h = [i \in 0..0 |-> h[i]]
    OBVIOUS
  <2> HIDE DEF h
  <2>3. IsSelection(h, 0, m)
    BY <2>1, <2>2 DEF IsSelection
  <2> QED BY <1>1, <1>2, <2>3
<1>3. CASE k # 0
  <2>1. k \in Nat /\ k - 1 \in Nat /\ k - 1 < k
    BY <1>1, <1>3
  <2>2. PICK g : IsSelection(g, k - 1, m)
    BY <1>1, <2>1
  <2> DEFINE h == [i \in 0..k |-> IF i = k THEN Selected(g, k, m) ELSE g[i]]
  <2>3. \A i \in 0..k : h[i] = Selected(h, i, m)
    <3> SUFFICES ASSUME NEW i \in 0..k PROVE h[i] = Selected(h, i, m)
      OBVIOUS
    <3>1. i # 0 => h[i - 1] = g[i - 1]
      BY <2>1
    <3>2. Selected(h, i, m) = Selected(g, i, m)
      BY <3>1 DEF Selected
    <3>3. i # k => g[i] = Selected(g, i, m)
      BY <2>1, <2>2 DEF IsSelection
    <3> QED BY <3>2, <3>3
  <2>4. h = [i \in 0..k |-> h[i]]
    OBVIOUS
  <2> HIDE DEF h
  <2>5. IsSelection(h, k, m)
    BY <2>3, <2>4 DEF IsSelection
  <2> QED BY <1>1, <2>5
<1> QED BY <1>2, <1>3

\* allocate_payment_to_unpaid_fees sees fees of the member that are still open.
LEMMA OpenFeesSelected ==
  ASSUME NEW m
  PROVE  /\ OpenFees(m) \in Seq(Fees)
         /\ \A i \in DOMAIN OpenFees(m) : IsOpen(OpenFees(m)[i], m)
<1> DEFINE n == Len(FeeOrder)
           c == CHOOSE g : IsSelection(g, n, m)
           Good(s) == s \in Seq(Fees) /\ \A i \in DOMAIN s : IsOpen(s[i], m)
<1>1. n \in Nat /\ \A i \in 1..n : FeeOrder[i] \in Fees
  BY LedgerAssumption
<1>2. IsSelection(c, n, m)
  BY <1>1, SelectionExists
<1>3. OpenFees(m) = c[n]
  BY DEF OpenFees, IsSelection, Selected, IsOpen
<1> HIDE DEF c, n
<1> DEFINE Bad == {i \in 0..n : ~Good(c[i])}
<1>4. Bad = {}
  <2> SUFFICES ASSUME Bad # {} PROVE FALSE
    OBVIOUS
  <2>0. Bad \in SUBSET Nat
    BY <1>1
  <2>1. PICK i \in Bad : \A k \in Bad : ~(k < i)
    <3> HIDE DEF Bad
    <3> QED BY <2>0, LeastNumber
  <2>2. i \in 0..n /\ i \in Nat /\ c[i] = Selected(c, i, m)
    BY <1>1, <1>2, <2>1 DEF IsSelection
  <2>3. CASE i = 0
    <3>1. c[i] = <<>>
      BY <2>2, <2>3 DEF Selected
    <3>2. <<>> \in Seq(Fees) /\ DOMAIN <<>> = {}
      OBVIOUS
    <3>3. Good(<<>>)
      BY <3>2
    <3> HIDE DEF Good
    <3> QED BY <2>1, <3>1, <3>3
  <2>4. CASE i # 0
    <3>1. i - 1 \in 0..n /\ i - 1 < i /\ i \in 1..n
      BY <1>1, <2>2, <2>4
    <3>2. Good(c[i - 1])
      BY <2>1, <3>1
    <3>3. CASE ~IsOpen(FeeOrder[i], m)
      BY <2>1, <2>2, <2>4, <3>2, <3>3 DEF Selected
    <3>4. CASE IsOpen(FeeOrder[i], m)
      <4> DEFINE s == c[i - 1]
      <4>1. c[i] = Append(s, FeeOrder[i])
        BY <2>2, <2>4, <3>4 DEF Selected
      <4> HIDE DEF s
      <4>2. s \in Seq(Fees) /\ FeeOrder[i] \in Fees
        BY <1>1, <3>1, <3>2 DEF s
      <4>3. \A j \in DOMAIN Append(s, FeeOrder[i]) :
               \/ j \in DOMAIN s /\ Append(s, FeeOrder[i])[j] = s[j]
               \/ Append(s, FeeOrder[i])[j] = FeeOrder[i]
        BY <4>2
      <4>4. \A j \in DOMAIN s : IsOpen(s[j], m)
        BY <3>2 DEF s
      <4>5. Good(Append(s, FeeOrder[i]))
        BY <3>4, <4>2, <4>3, <4>4
      <4> QED BY <2>1, <4>1, <4>5
    <3> QED BY <3>3, <3>4
  <2> QED BY <2>3, <2>4
<1>5. Good(c[n])
  BY <1>1, <1>4
<1> QED BY <1>3, <1>5

----------------------------------------------------------------------------
(* A payment that is spent *)

\* What ValidatePayment and confirm_transaction both do: payment p of `amount` by
\* m is validated and handed to the fees rows `order` as `a` says.
Spends(p, m, order, amount, a) ==
  /\ fee' = Allocated(fee, order, amount, a)
  /\ alloc' = [alloc EXCEPT ![p] = a]
  /\ payment' = [payment EXCEPT ![p] =
       [status |-> "validated", user |-> m, amount |-> amount]]
  /\ account' = [account EXCEPT ![m] = Credited(@, amount, SumFunction(a))]

\* The fees rows take what the allocation says, and only those of the order move.
LEMMA SpentRows ==
  ASSUME NEW rows \in [Fees -> FeeRow], \A f \in Fees : rows[f].paid <= rows[f].amount,
         NEW order \in Seq(Fees), NEW amount \in Nat,
         NEW a \in Allocations(rows, order, amount)
  PROVE  \A f \in Fees :
           /\ a[f] \in Nat
           /\ Allocated(rows, order, amount, a)[f].amount = rows[f].amount
           /\ Allocated(rows, order, amount, a)[f].paid = rows[f].paid + a[f]
           /\ \/ Allocated(rows, order, amount, a)[f] = rows[f] /\ a[f] = 0
              \/ /\ f \in ToSet(order)
                 /\ Allocated(rows, order, amount, a)[f].status \in {"unpaid", "partial", "paid"}
<1> SUFFICES ASSUME NEW f \in Fees, NEW after,
                    after = Allocated(rows, order, amount, a)[f]
             PROVE  /\ a[f] \in Nat
                    /\ after.amount = rows[f].amount
                    /\ after.paid = rows[f].paid + a[f]
                    /\ \/ after = rows[f] /\ a[f] = 0
                       \/ f \in ToSet(order) /\ after.status \in {"unpaid", "partial", "paid"}
  OBVIOUS
<1> DEFINE reached == \E i \in DOMAIN order : order[i] = f /\ Reached(a, order, i, amount)
<1>1. a[f] \in Nat /\ (~reached => a[f] = 0)
  BY HandsOutAtMost
<1>2. after = IF reached
                THEN [status |-> FeeStatus(rows[f].amount, rows[f].paid + a[f]),
                      amount |-> rows[f].amount, paid |-> rows[f].paid + a[f]]
                ELSE rows[f]
  BY DEF Allocated
<1>3. rows[f].paid \in Nat
  BY DEF FeeRow
<1>4. FeeStatus(rows[f].amount, rows[f].paid + a[f]) \in {"unpaid", "partial", "paid"}
  BY DEF FeeStatus
<1>5. reached => f \in ToSet(order)
  BY DEF ToSet
<1> HIDE DEF reached
<1>6. CASE reached
  BY <1>1, <1>2, <1>4, <1>5, <1>6
<1>7. CASE ~reached
  BY <1>1, <1>2, <1>3, <1>7
<1> QED BY <1>6, <1>7

\* What fee f got from all payments grows by what this one hands it.
LEMMA HandedAfter ==
  ASSUME alloc \in [Payments -> [Fees -> Nat]], NEW p \in Payments, NEW f \in Fees,
         alloc[p][f] = 0, NEW a \in [Fees -> Nat], alloc' = [alloc EXCEPT ![p] = a]
  PROVE  HandedTo(f) \in Int /\ HandedTo(f)' = HandedTo(f) + a[f]
<1> DEFINE old == [q \in Payments |-> alloc[q][f]]
           new == [q \in Payments |-> alloc'[q][f]]
<1>1. HandedTo(f) = SumFunctionOnSet(old, Payments)
      /\ HandedTo(f)' = SumFunctionOnSet(new, Payments)
  BY DEF HandedTo, SumFunction
<1>2. IntOn(old, Payments) /\ IntOn(new, Payments)
  BY DEF IntOn
<1>3. old[p] = 0 /\ new[p] = a[f] /\ a[f] \in Nat
      /\ \A q \in Payments : q # p => new[q] = old[q]
  OBVIOUS
<1> HIDE DEF old, new
<1>4. IsFiniteSet(Payments)
  BY LedgerAssumption
<1>5. SumFunctionOnSet(old, Payments) \in Int
      /\ SumFunctionOnSet(new, Payments) = SumFunctionOnSet(old, Payments) - old[p] + new[p]
  BY <1>2, <1>3, <1>4, SumUpdate
<1> QED BY <1>1, <1>3, <1>5

LEMMA HandedType ==
  ASSUME alloc \in [Payments -> [Fees -> Nat]], NEW f \in Fees
  PROVE  HandedTo(f) \in Int
<1> DEFINE old == [q \in Payments |-> alloc[q][f]]
<1>1. HandedTo(f) = SumFunctionOnSet(old, Payments)
  BY DEF HandedTo, SumFunction
<1>2. IntOn(old, Payments) /\ IsFiniteSet(Payments)
  BY LedgerAssumption DEF IntOn
<1> QED BY <1>1, <1>2, SumType

----------------------------------------------------------------------------
(* The books: what fees were paid, what payments handed out, what members paid *)

\* A fees row that does not exist yet was not paid.
AbsentUnpaid == \A f \in Fees : fee[f].status = "absent" => fee[f].paid = 0

BooksInv == AbsentUnpaid /\ AllocationsBalance /\ TotalPaidIsValidated

\* What payment p adds to the total of m.
Brings(row, m) == IF row.status = "validated" /\ row.user = m THEN row.amount ELSE 0

LEMMA BringsType ==
  ASSUME NEW row \in PaymentRow, NEW m
  PROVE  Brings(row, m) \in Nat /\ row.amount \in Nat
BY LedgerAssumption DEF PaymentRow, Cash, Brings

LEMMA TotalPaidSum ==
  TotalPaidIsValidated <=>
    \A m \in Members :
      account[m].paid = SumFunctionOnSet([p \in Payments |-> Brings(payment[p], m)], Payments)
BY DEF TotalPaidIsValidated, SumFunction, Brings

\* A payment that was not validated handed out nothing: its sum is no issue.
LEMMA UnvalidatedHandsNothing ==
  ASSUME LedgerInv, NEW p \in Payments, payment[p].status # "validated"
  PROVE  (\A f \in Fees : alloc[p][f] = 0) /\ SumFunction(alloc[p]) = 0
<1>1. \A f \in Fees : alloc[p][f] = 0
  BY DEF LedgerInv, PaymentsBookedOnce
<1>2. SumFunction(alloc[p]) = SumFunctionOnSet(alloc[p], Fees)
  BY DEF SumFunction, LedgerInv, LedgerTypeOK, RowsTypeOK
<1> QED BY <1>1, <1>2, SumZero, LedgerAssumption

LEMMA SpendsBooks ==
  ASSUME LedgerInv, BooksInv, NEW p \in Payments, payment[p].status # "validated",
         NEW m, NEW order \in Seq(Fees), NEW amount \in Cash,
         NEW a \in Allocations(fee, order, amount), Spends(p, m, order, amount, a)
  PROVE  BooksInv'
<1> USE DEF LedgerInv, LedgerTypeOK, RowsTypeOK
<1>1. amount \in Nat /\ IsFiniteSet(Payments) /\ IsFiniteSet(Fees)
  BY LedgerAssumption DEF Cash
<1>2. a \in [Fees -> Nat] /\ SumFunction(a) \in Int /\ SumFunction(a) <= amount
  BY <1>1, HandsOutAtMost
<1>3. \A f \in Fees :
         /\ fee'[f].paid = fee[f].paid + a[f]
         /\ fee'[f].status = "absent" => fee[f].status = "absent" /\ a[f] = 0
  BY <1>1, SpentRows DEF Spends, FeesNotOverpaid
<1>4. \A f \in Fees : alloc[p][f] = 0
  BY UnvalidatedHandsNothing
<1>5. AbsentUnpaid'
  <2> SUFFICES ASSUME NEW f \in Fees, fee'[f].status = "absent"
               PROVE  fee'[f].paid = 0
    BY DEF AbsentUnpaid
  <2>1. fee[f].status = "absent" /\ a[f] = 0 /\ fee'[f].paid = fee[f].paid + a[f]
    BY <1>3
  <2>2. fee[f].paid = 0
    BY <2>1 DEF BooksInv, AbsentUnpaid
  <2> QED BY <2>1, <2>2
<1>6. AllocationsBalance'
  <2>1. ASSUME NEW f \in Fees PROVE fee'[f].paid = HandedTo(f)'
    BY <1>2, <1>3, <1>4, HandedAfter DEF BooksInv, AllocationsBalance, Spends
  <2>2. ASSUME NEW q \in Payments PROVE SumFunction(alloc'[q]) <= payment'[q].amount
    <3>1. CASE q = p
      <4>1. alloc'[q] = a /\ payment'[q].amount = amount
        BY <3>1 DEF Spends
      <4> QED BY <4>1, <1>2
    <3>2. CASE q # p
      <4>1. alloc'[q] = alloc[q] /\ payment'[q] = payment[q]
        BY <3>2 DEF Spends
      <4> QED BY <4>1 DEF BooksInv, AllocationsBalance
    <3> QED BY <3>1, <3>2
  <2> QED BY <2>1, <2>2 DEF AllocationsBalance
<1>7. TotalPaidIsValidated'
  <2> SUFFICES ASSUME NEW k \in Members
               PROVE  account'[k].paid =
                        SumFunctionOnSet([q \in Payments |-> Brings(payment'[q], k)], Payments)
    BY DEF TotalPaidIsValidated, SumFunction, Brings
  <2> DEFINE old == [q \in Payments |-> Brings(payment[q], k)]
             new == [q \in Payments |-> Brings(payment'[q], k)]
  <2>1. \A q \in Payments : q # p => new[q] = old[q]
    BY DEF Spends
  <2>2. old[p] = 0 /\ new[p] = (IF k = m THEN amount ELSE 0)
    BY DEF Spends, Brings
  <2>3. IntOn(old, Payments)
    BY BringsType DEF IntOn
  <2>4. IntOn(new, Payments)
    BY <1>1, <2>1, <2>2, <2>3 DEF IntOn
  <2>5. account[k].paid = SumFunctionOnSet(old, Payments) /\ account[k].paid \in Nat
    BY TotalPaidSum DEF BooksInv, AccountRow
  <2> HIDE DEF old, new
  <2>6. SumFunctionOnSet(new, Payments) = SumFunctionOnSet(old, Payments) - old[p] + new[p]
    BY <1>1, <2>1, <2>3, <2>4, SumUpdate
  <2>7. account'[k].paid = IF k = m THEN account[k].paid + amount ELSE account[k].paid
    BY DEF Spends, Credited
  <2>8. account'[k].paid = SumFunctionOnSet(new, Payments)
    BY <1>1, <2>2, <2>5, <2>6, <2>7
  <2> QED BY <2>8 DEF new
<1> QED BY <1>5, <1>6, <1>7 DEF BooksInv

\* Any step that moves no money keeps the books.
LEMMA StillBooks ==
  ASSUME LedgerInv, BooksInv, AbsentUnpaid', UNCHANGED alloc,
         \A f \in Fees : fee'[f].paid = fee[f].paid,
         \A m \in Members : account'[m].paid = account[m].paid,
         \A p \in Payments : \/ payment'[p] = payment[p]
                             \/ /\ payment[p].status # "validated"
                                /\ payment'[p].status # "validated"
                                /\ payment'[p].amount \in Nat
  PROVE  BooksInv'
<1>1. ASSUME NEW f \in Fees PROVE fee'[f].paid = HandedTo(f)'
  BY DEF BooksInv, AllocationsBalance, HandedTo
<1>2. ASSUME NEW p \in Payments PROVE SumFunction(alloc'[p]) <= payment'[p].amount
  <2>1. CASE payment'[p] = payment[p]
    BY <2>1 DEF BooksInv, AllocationsBalance
  <2>2. CASE payment'[p] # payment[p]
    BY <2>2, UnvalidatedHandsNothing
  <2> QED BY <2>1, <2>2
<1>3. TotalPaidIsValidated'
  <2> SUFFICES ASSUME NEW k \in Members
               PROVE  account'[k].paid =
                        SumFunctionOnSet([q \in Payments |-> Brings(payment'[q], k)], Payments)
    BY DEF TotalPaidIsValidated, SumFunction, Brings
  <2>1. [q \in Payments |-> Brings(payment'[q], k)] = [q \in Payments |-> Brings(payment[q], k)]
    BY DEF Brings
  <2> QED BY <2>1, TotalPaidSum DEF BooksInv
<1> QED BY <1>1, <1>2, <1>3 DEF BooksInv, AllocationsBalance

\* The handlers that only concern fees move no money.
LEMMA FeeStepBooks ==
  ASSUME LedgerInv, BooksInv,
         \/ \E f \in Fees : CreateFee(f) \/ RemovePenalty(f)
         \/ \E f \in Fees, amount \in Amounts : SyncPenalty(f, amount)
         \/ \E c \in Clerks, f \in Fees : CancelFeeRead(c, f)
         \/ \E c \in Clerks : CancelFeeCommit(c)
  PROVE  BooksInv'
<1> USE LedgerAssumption DEF LedgerInv, LedgerTypeOK, RowsTypeOK
<1> DEFINE RowsStay == \A f \in Fees : fee'[f].paid = fee[f].paid
           AccountsStay == \A m \in Members : account'[m].paid = account[m].paid
<1>1. UNCHANGED <<payment, alloc>>
  BY DEF CreateFee, RemovePenalty, SyncPenalty, CancelFeeRead, CancelFeeCommit, tableVars
<1>2. ASSUME NEW f \in Fees, CreateFee(f)
      PROVE  RowsStay /\ AccountsStay /\ AbsentUnpaid'
  <2>1. fee[f].paid = 0
    BY <1>2 DEF CreateFee, BooksInv, AbsentUnpaid
  <2>2. PICK amount \in Amounts :
          fee' = [fee EXCEPT ![f] = [status |-> "unpaid", amount |-> amount, paid |-> 0]]
    BY <1>2 DEF CreateFee, CreateFeeRecord
  <2>3. AccountsStay
    BY <1>2 DEF CreateFee, CreateFeeRecord, AccountRow
  <2> QED BY <2>1, <2>2, <2>3 DEF BooksInv, AbsentUnpaid
<1>3. ASSUME NEW f \in Fees, RemovePenalty(f)
      PROVE  RowsStay /\ AccountsStay /\ AbsentUnpaid'
  BY <1>3 DEF RemovePenalty, BooksInv, AbsentUnpaid, FeeRow, AccountRow
<1>4. ASSUME NEW f \in Fees, NEW amount \in Amounts, SyncPenalty(f, amount)
      PROVE  RowsStay /\ AccountsStay /\ AbsentUnpaid'
  <2>1. PICK total :
          fee' = [fee EXCEPT ![f] = [status |-> FeeStatus(total, fee[f].paid),
                                     amount |-> total, paid |-> fee[f].paid]]
    BY <1>4 DEF SyncPenalty
  <2>2. FeeStatus(total, fee[f].paid) # "absent"
    BY DEF FeeStatus
  <2>3. AccountsStay
    BY <1>4 DEF SyncPenalty, AccountRow
  <2> QED BY <2>1, <2>2, <2>3 DEF BooksInv, AbsentUnpaid
<1>5. ASSUME NEW c \in Clerks, NEW f \in Fees, CancelFeeRead(c, f)
      PROVE  RowsStay /\ AccountsStay /\ AbsentUnpaid'
  BY <1>5 DEF CancelFeeRead, tableVars, BooksInv, AbsentUnpaid
<1>6. ASSUME NEW c \in Clerks, CancelFeeCommit(c)
      PROVE  RowsStay /\ AccountsStay /\ AbsentUnpaid'
  <2> DEFINE f == cancelling[c].fee
  <2>1. fee' = fee \/ fee' = [fee EXCEPT ![f].status = "cancelled"]
    BY <1>6 DEF CancelFeeCommit
  <2>2. AccountsStay
    <3>1. PICK due : account' = [account EXCEPT ![Owner[f]].due = due]
      BY <1>6 DEF CancelFeeCommit
    <3> QED BY <3>1 DEF AccountRow
  <2>3. CASE fee' = fee
    BY <2>2, <2>3 DEF BooksInv, AbsentUnpaid
  <2>4. CASE fee' = [fee EXCEPT ![f].status = "cancelled"]
    <3>1. \A g \in Fees : fee'[g].paid = fee[g].paid
                         /\ (fee'[g].status = "absent" => fee[g].status = "absent")
      BY <2>4 DEF FeeRow
    <3> QED BY <2>2, <3>1 DEF BooksInv, AbsentUnpaid
  <2> QED BY <2>1, <2>3, <2>4
<1>7. RowsStay /\ AccountsStay /\ AbsentUnpaid'
  BY <1>2, <1>3, <1>4, <1>5, <1>6
<1> QED BY <1>1, <1>7, StillBooks

LEMMA PaymentStepBooks ==
  ASSUME LedgerInv, BooksInv,
         \/ \E p \in Payments, m \in Members : CreatePayment(p, m)
         \/ \E p \in Payments : RejectPayment(p) \/ CancelPayment(p)
  PROVE  BooksInv'
<1> USE LedgerAssumption DEF LedgerInv, LedgerTypeOK, RowsTypeOK
<1>1. UNCHANGED <<fee, account, alloc>>
  BY DEF CreatePayment, RejectPayment, CancelPayment
<1> DEFINE Kept(p) == \/ payment'[p] = payment[p]
                      \/ /\ payment[p].status # "validated"
                         /\ payment'[p].status # "validated"
                         /\ payment'[p].amount \in Nat
<1>2. ASSUME NEW q \in Payments, NEW m \in Members, CreatePayment(q, m)
      PROVE  \A p \in Payments : Kept(p)
  BY <1>2 DEF CreatePayment
<1>3. ASSUME NEW q \in Payments, RejectPayment(q) \/ CancelPayment(q)
      PROVE  \A p \in Payments : Kept(p)
  <2>1. payment[q].amount \in Nat
    BY DEF PaymentRow, Cash
  <2>2. PICK status \in {"rejected", "cancelled"} :
          payment' = [payment EXCEPT ![q].status = status]
    BY <1>3 DEF RejectPayment, CancelPayment
  <2>3. payment[q].status # "validated"
    BY <1>3 DEF RejectPayment, CancelPayment
  <2>4. payment'[q].status = status /\ payment'[q].amount = payment[q].amount
    BY <2>2 DEF PaymentRow
  <2>5. \A p \in Payments : p # q => payment'[p] = payment[p]
    BY <2>2
  <2> QED BY <2>1, <2>3, <2>4, <2>5
<1>4. \A p \in Payments : Kept(p)
  BY <1>2, <1>3
<1>5. AbsentUnpaid'
  BY <1>1 DEF BooksInv, AbsentUnpaid
<1> QED BY <1>1, <1>4, <1>5, StillBooks

\* A payment declared by hand is spent on the open fees of its member.
LEMMA ValidateSpends ==
  ASSUME LedgerInv, NEW p \in Payments, ValidatePayment(p)
  PROVE  LET m == payment[p].user
             amount == payment[p].amount
             order == OpenFees(m)
         IN /\ payment[p].status = "pending" /\ order \in Seq(Fees) /\ amount \in Cash
            /\ \A i \in DOMAIN order : IsOpen(order[i], m)
            /\ \E a \in Allocations(fee, order, amount) : Spends(p, m, order, amount, a)
            /\ UNCHANGED cancelling
<1> DEFINE m == payment[p].user
           amount == payment[p].amount
           order == OpenFees(m)
<1>1. order \in Seq(Fees) /\ \A i \in DOMAIN order : IsOpen(order[i], m)
  BY OpenFeesSelected
<1>2. payment[p] \in PaymentRow
  BY DEF LedgerInv, LedgerTypeOK, RowsTypeOK
<1>3. payment' = [payment EXCEPT ![p] =
                    [status |-> "validated", user |-> m, amount |-> amount]]
  <2>1. [payment[p] EXCEPT !.status = "validated"]
          = [status |-> "validated", user |-> m, amount |-> amount]
    BY <1>2 DEF PaymentRow
  <2>2. payment' = [payment EXCEPT ![p] = [payment[p] EXCEPT !.status = "validated"]]
    BY DEF ValidatePayment
  <2> QED BY <2>1, <2>2
<1>4. PICK a \in Allocations(fee, order, amount), got \in Cash :
        /\ got = SumFunction(a)
        /\ fee' = Allocated(fee, order, amount, a)
        /\ alloc' = [alloc EXCEPT ![p] = a]
        /\ account' = [account EXCEPT ![m] = Credited(@, amount, got)]
  BY DEF ValidatePayment
<1>5. Spends(p, m, order, amount, a)
  BY <1>3, <1>4 DEF Spends
<1>6. payment[p].status = "pending" /\ amount \in Cash /\ UNCHANGED cancelling
  BY <1>2 DEF ValidatePayment, PaymentRow
<1> QED BY <1>1, <1>4, <1>5, <1>6

LEMMA LedgerNextBooks ==
  ASSUME LedgerInv, BooksInv, [LedgerNext]_ledgerVars
  PROVE  BooksInv'
<1>1. CASE UNCHANGED ledgerVars
  <2>1. AbsentUnpaid'
    BY <1>1 DEF ledgerVars, BooksInv, AbsentUnpaid
  <2> QED BY <1>1, <2>1, StillBooks DEF ledgerVars
<1>2. ASSUME NEW p \in Payments, ValidatePayment(p)
      PROVE  BooksInv'
  BY <1>2, ValidateSpends, SpendsBooks
<1> QED BY <1>1, <1>2, FeeStepBooks, PaymentStepBooks DEF LedgerNext

LEMMA LedgerInitBooks == LedgerInit => BooksInv
<1> SUFFICES ASSUME LedgerInit PROVE BooksInv
  OBVIOUS
<1> USE DEF LedgerInit
<1>1. IsFiniteSet(Fees) /\ IsFiniteSet(Payments)
  BY LedgerAssumption
<1>2. AbsentUnpaid
  BY DEF AbsentUnpaid, NoFee
<1>3. ASSUME NEW f \in Fees PROVE fee[f].paid = HandedTo(f)
  <2> DEFINE old == [q \in Payments |-> alloc[q][f]]
  <2>1. HandedTo(f) = SumFunctionOnSet(old, Payments)
    BY DEF HandedTo, SumFunction
  <2>2. \A q \in Payments : old[q] = 0
    OBVIOUS
  <2> HIDE DEF old
  <2>3. SumFunctionOnSet(old, Payments) = 0
    BY <1>1, <2>2, SumZero
  <2> QED BY <2>1, <2>3 DEF NoFee
<1>4. ASSUME NEW p \in Payments PROVE SumFunction(alloc[p]) <= payment[p].amount
  <2>1. SumFunction(alloc[p]) = SumFunctionOnSet(alloc[p], Fees)
    BY DEF SumFunction
  <2>2. \A f \in Fees : alloc[p][f] = 0
    OBVIOUS
  <2>3. SumFunctionOnSet(alloc[p], Fees) = 0
    BY <1>1, <2>2, SumZero
  <2> QED BY <2>1, <2>3 DEF NoPayment
<1>5. TotalPaidIsValidated
  <2> SUFFICES ASSUME NEW k \in Members
               PROVE  0 = SumFunctionOnSet([q \in Payments |-> Brings(payment[q], k)], Payments)
    BY TotalPaidSum
  <2> DEFINE old == [q \in Payments |-> Brings(payment[q], k)]
  <2>1. \A q \in Payments : old[q] = 0
    BY DEF Brings, NoPayment
  <2> HIDE DEF old
  <2>2. SumFunctionOnSet(old, Payments) = 0
    BY <1>1, <2>1, SumZero
  <2> QED BY <2>2 DEF old
<1> QED BY <1>2, <1>3, <1>4, <1>5 DEF BooksInv, AllocationsBalance

\* Every franc a fee was paid comes from an allocation, and no payment hands out
\* more than it brought.
THEOREM LedgerBalances == LedgerSpec => []AllocationsBalance
<1>1. LedgerInit => LedgerInv /\ BooksInv
  BY LedgerInitInv, LedgerInitBooks
<1>2. LedgerInv /\ BooksInv /\ [LedgerNext]_ledgerVars => LedgerInv' /\ BooksInv'
  BY LedgerNextInv, LedgerNextBooks
<1>3. BooksInv => AllocationsBalance
  BY DEF BooksInv
<1> QED BY <1>1, <1>2, <1>3, PTL DEF LedgerSpec

\* No fee is paid beyond its amount.
THEOREM LedgerNeverOverpaid == LedgerSpec => []FeesNotOverpaid
BY LedgerSafe, PTL

\* Exactly the validated payments are booked.
THEOREM LedgerBookedOnce == LedgerSpec => []PaymentsBookedOnce
BY LedgerSafe, PTL

\* The total a member paid is the sum of the member's validated payments.
THEOREM LedgerTotals == LedgerSpec => []TotalPaidIsValidated
<1>1. LedgerInit => LedgerInv /\ BooksInv
  BY LedgerInitInv, LedgerInitBooks
<1>2. LedgerInv /\ BooksInv /\ [LedgerNext]_ledgerVars => LedgerInv' /\ BooksInv'
  BY LedgerNextInv, LedgerNextBooks
<1>3. BooksInv => TotalPaidIsValidated
  BY DEF BooksInv
<1> QED BY <1>1, <1>2, <1>3, PTL DEF LedgerSpec

----------------------------------------------------------------------------
(* The balance a member is shown and what the member's fees owe *)

\* What the row of fee f adds to the outstanding amount of m.
Owes(row, f, m) ==
  IF Owner[f] = m /\ row.status \notin {"absent", "cancelled"} THEN Remaining(row) ELSE 0

LEMMA OutstandingSum ==
  ASSUME NEW m
  PROVE  /\ Outstanding(m) = SumFunctionOnSet([f \in Fees |-> Owes(fee[f], f, m)], Fees)
         /\ Outstanding(m)' = SumFunctionOnSet([f \in Fees |-> Owes(fee'[f], f, m)], Fees)
BY DEF Outstanding, SumFunction, Owes

LEMMA OwesType ==
  ASSUME NEW row \in FeeRow, row.paid <= row.amount, NEW f, NEW m
  PROVE  /\ Owes(row, f, m) \in Nat /\ Remaining(row) \in Nat
         /\ Owes(row, f, m) = (IF Owner[f] = m /\ row.status \notin {"absent", "cancelled"}
                                 THEN row.amount - row.paid ELSE 0)
BY RemainingType DEF Owes

LEMMA OwedType ==
  ASSUME NEW rows \in [Fees -> FeeRow], \A f \in Fees : rows[f].paid <= rows[f].amount, NEW m
  PROVE  SumFunctionOnSet([f \in Fees |-> Owes(rows[f], f, m)], Fees) \in Nat
<1> DEFINE owed == [f \in Fees |-> Owes(rows[f], f, m)]
           none == [f \in Fees |-> 0]
<1>1. \A f \in Fees : owed[f] \in Nat
  BY OwesType
<1>2. \A f \in Fees : none[f] = 0
  OBVIOUS
<1> HIDE DEF owed, none
<1>3. IsFiniteSet(Fees) /\ IntOn(owed, Fees) /\ IntOn(none, Fees)
      /\ \A f \in Fees : none[f] <= owed[f]
  BY <1>1, <1>2, LedgerAssumption DEF IntOn
<1>4. SumFunctionOnSet(none, Fees) = 0
  BY <1>2, <1>3, SumZero
<1>5. SumFunctionOnSet(owed, Fees) \in Int
  BY <1>3, SumType
<1>6. SumFunctionOnSet(none, Fees) <= SumFunctionOnSet(owed, Fees)
  BY <1>3, SumMonotone
<1>7. SumFunctionOnSet(owed, Fees) \in Nat
  BY <1>4, <1>5, <1>6
<1> QED BY <1>7 DEF owed

LEMMA OutstandingType ==
  ASSUME LedgerInv, NEW m
  PROVE  Outstanding(m) \in Nat
BY OutstandingSum, OwedType DEF LedgerInv, LedgerTypeOK, RowsTypeOK, FeesNotOverpaid

LEMMA OutstandingTypeNext ==
  ASSUME LedgerInv', NEW m
  PROVE  Outstanding(m)' \in Nat
BY OutstandingSum, OwedType DEF LedgerInv, LedgerTypeOK, RowsTypeOK, FeesNotOverpaid

\* A step that writes one fees row changes what is outstanding by that row.
LEMMA OutstandingAfterOne ==
  ASSUME LedgerInv, LedgerInv', NEW f \in Fees, NEW m,
         \A g \in Fees : g # f => fee'[g] = fee[g]
  PROVE  /\ Owes(fee[f], f, m) \in Nat /\ Owes(fee'[f], f, m) \in Nat
         /\ Outstanding(m)' = Outstanding(m) - Owes(fee[f], f, m) + Owes(fee'[f], f, m)
<1> DEFINE old == [g \in Fees |-> Owes(fee[g], g, m)]
           new == [g \in Fees |-> Owes(fee'[g], g, m)]
<1>1. \A g \in Fees : old[g] \in Nat /\ new[g] \in Nat
  BY OwesType DEF LedgerInv, LedgerTypeOK, RowsTypeOK, FeesNotOverpaid
<1>2. \A g \in Fees : g # f => new[g] = old[g]
  OBVIOUS
<1>3. /\ Outstanding(m) = SumFunctionOnSet(old, Fees)
      /\ Outstanding(m)' = SumFunctionOnSet(new, Fees)
  BY OutstandingSum
<1>4. old[f] = Owes(fee[f], f, m) /\ new[f] = Owes(fee'[f], f, m)
  OBVIOUS
<1> HIDE DEF old, new
<1>5. IsFiniteSet(Fees) /\ IntOn(old, Fees) /\ IntOn(new, Fees)
  BY <1>1, LedgerAssumption DEF IntOn
<1>6. SumFunctionOnSet(new, Fees) = SumFunctionOnSet(old, Fees) - old[f] + new[f]
  BY <1>2, <1>5, SumUpdate
<1> QED BY <1>1, <1>3, <1>4, <1>6

\* The account of m moves by d, its fees by e.
Moves(m, d, e) ==
  /\ account'[m].due = Floor0(account[m].due + d)
  /\ Outstanding(m)' = Outstanding(m) + e

\* The account follows the fees; it moves no further up than they do.
Follows == \A m \in Members : \E d \in Int : Moves(m, d, d)
Trails == \A m \in Members : \E d, e \in Int : d <= e /\ Moves(m, d, e)

LEMMA FollowsBalance ==
  ASSUME LedgerInv, LedgerInv', BalanceIsOutstanding, Follows
  PROVE  BalanceIsOutstanding'
<1> SUFFICES ASSUME NEW m \in Members PROVE account'[m].due = Outstanding(m)'
  BY DEF BalanceIsOutstanding
<1>1. PICK d \in Int : Moves(m, d, d)
  BY DEF Follows
<1>2. Outstanding(m) \in Nat /\ Outstanding(m)' \in Nat
  BY OutstandingType, OutstandingTypeNext
<1>3. account[m].due = Outstanding(m)
  BY DEF BalanceIsOutstanding
<1> QED BY <1>1, <1>2, <1>3 DEF Moves, Floor0

LEMMA TrailsBalance ==
  ASSUME LedgerInv, LedgerInv', NeverOverbilled, Trails
  PROVE  NeverOverbilled'
<1> SUFFICES ASSUME NEW m \in Members PROVE account'[m].due <= Outstanding(m)'
  BY DEF NeverOverbilled
<1>1. PICK d \in Int, e \in Int : d <= e /\ Moves(m, d, e)
  BY DEF Trails
<1>2. Outstanding(m) \in Nat /\ Outstanding(m)' \in Nat
  BY OutstandingType, OutstandingTypeNext
<1>3. account[m].due <= Outstanding(m) /\ account[m].due \in Nat
  BY DEF NeverOverbilled, LedgerInv, LedgerTypeOK, RowsTypeOK, AccountRow
<1> QED BY <1>1, <1>2, <1>3 DEF Moves, Floor0

LEMMA FollowsTrails == Follows => Trails
<1> SUFFICES ASSUME Follows, NEW m \in Members
             PROVE  \E d, e \in Int : d <= e /\ Moves(m, d, e)
  BY DEF Trails
<1>1. PICK d \in Int : Moves(m, d, d)
  BY DEF Follows
<1>2. d <= d
  OBVIOUS
<1> QED BY <1>1, <1>2

LEMMA StillFollows ==
  ASSUME LedgerInv, UNCHANGED <<fee, account>>
  PROVE  Follows
<1> SUFFICES ASSUME NEW m \in Members PROVE Moves(m, 0, 0)
  BY DEF Follows
<1>1. Outstanding(m)' = Outstanding(m) /\ Outstanding(m) \in Nat
  BY OutstandingType DEF Outstanding
<1>2. account[m].due \in Nat
  BY DEF LedgerInv, LedgerTypeOK, RowsTypeOK, AccountRow
<1> QED BY <1>1, <1>2 DEF Moves, Floor0

\* One fees row and its owner's account are written, and both move by d.
LEMMA OneFeeFollows ==
  ASSUME LedgerInv, LedgerInv', NEW f \in Fees, NEW d \in Int,
         \A g \in Fees : g # f => fee'[g] = fee[g],
         Owes(fee'[f], f, Owner[f]) = Owes(fee[f], f, Owner[f]) + d,
         account' = [account EXCEPT ![Owner[f]].due = Floor0(@ + d)]
  PROVE  Follows
<1> SUFFICES ASSUME NEW m \in Members PROVE \E e \in Int : Moves(m, e, e)
  BY DEF Follows
<1>1. /\ Owes(fee[f], f, m) \in Nat /\ Owes(fee'[f], f, m) \in Nat
      /\ Outstanding(m)' = Outstanding(m) - Owes(fee[f], f, m) + Owes(fee'[f], f, m)
  BY OutstandingAfterOne
<1>2. Outstanding(m) \in Nat
  BY OutstandingType
<1>3. account \in [Members -> AccountRow] /\ account[m].due \in Nat
  BY DEF LedgerInv, LedgerTypeOK, RowsTypeOK, AccountRow
<1>4. CASE m = Owner[f]
  <2>1. account'[m].due = Floor0(account[m].due + d)
    BY <1>3, <1>4 DEF AccountRow
  <2>2. Outstanding(m)' = Outstanding(m) + d
    BY <1>1, <1>2, <1>4
  <2> QED BY <2>1, <2>2 DEF Moves
<1>5. CASE m # Owner[f]
  <2>1. Owes(fee[f], f, m) = 0 /\ Owes(fee'[f], f, m) = 0
    BY <1>5 DEF Owes
  <2>2. account'[m] = account[m]
    BY <1>5
  <2>3. Moves(m, 0, 0)
    BY <1>1, <1>2, <1>3, <2>1, <2>2 DEF Moves, Floor0
  <2> QED BY <2>3
<1> QED BY <1>4, <1>5

LEMMA FeeStepFollows ==
  ASSUME LedgerInv, LedgerInv',
         \/ \E f \in Fees : CreateFee(f) \/ RemovePenalty(f)
         \/ \E f \in Fees, amount \in Amounts : SyncPenalty(f, amount)
         \/ \E c \in Clerks, f \in Fees : CancelFeeRead(c, f)
  PROVE  Follows
<1> USE LedgerAssumption DEF LedgerInv, LedgerTypeOK, RowsTypeOK
<1>0. \A f \in Fees : /\ fee[f] \in FeeRow /\ fee[f].paid <= fee[f].amount
                      /\ fee[f].paid \in Nat /\ fee[f].amount \in Nat
                      /\ Owner[f] \in Members /\ account[Owner[f]].due \in Nat
  BY DEF FeesNotOverpaid, FeeRow, Cash, AccountRow
<1>1. ASSUME NEW f \in Fees, CreateFee(f)
      PROVE  Follows
  <2>1. PICK amount \in Amounts : CreateFeeRecord(f, amount)
    BY <1>1 DEF CreateFee
  <2>2. amount \in Nat
    OBVIOUS
  <2>3. Owes(fee[f], f, Owner[f]) = 0 /\ Owes(fee'[f], f, Owner[f]) = amount
    BY <1>1, <2>1, <2>2 DEF CreateFee, CreateFeeRecord, Owes, Remaining, Floor0
  <2>4. account' = [account EXCEPT ![Owner[f]].due = Floor0(@ + amount)]
    <3>1. Floor0(account[Owner[f]].due + amount) = account[Owner[f]].due + amount
      BY <1>0, <2>2 DEF Floor0
    <3> QED BY <2>1, <3>1 DEF CreateFeeRecord
  <2>5. \A g \in Fees : g # f => fee'[g] = fee[g]
    BY <2>1 DEF CreateFeeRecord
  <2>6. amount \in Int /\ Owes(fee'[f], f, Owner[f]) = Owes(fee[f], f, Owner[f]) + amount
    BY <2>2, <2>3
  <2> QED BY <2>4, <2>5, <2>6, OneFeeFollows
<1>2. ASSUME NEW f \in Fees, RemovePenalty(f)
      PROVE  Follows
  <2> DEFINE d == 0 - Remaining(fee[f])
  <2>1. Remaining(fee[f]) \in Nat
    BY <1>0, RemainingType
  <2>2. Owes(fee[f], f, Owner[f]) = Remaining(fee[f]) /\ Owes(fee'[f], f, Owner[f]) = 0
    BY <1>2 DEF RemovePenalty, Owes
  <2>3. account' = [account EXCEPT ![Owner[f]].due = Floor0(@ + d)]
    <3>1. account[Owner[f]].due + d = account[Owner[f]].due - Remaining(fee[f])
      BY <1>0, <2>1
    <3> QED BY <1>2, <3>1 DEF RemovePenalty
  <2>4. \A g \in Fees : g # f => fee'[g] = fee[g]
    BY <1>2 DEF RemovePenalty
  <2>5. d \in Int /\ Owes(fee'[f], f, Owner[f]) = Owes(fee[f], f, Owner[f]) + d
    BY <2>1, <2>2
  <2> HIDE DEF d
  <2> QED BY <2>3, <2>4, <2>5, OneFeeFollows
<1>3. ASSUME NEW f \in Fees, NEW amount \in Amounts, SyncPenalty(f, amount)
      PROVE  Follows
  <2> DEFINE row   == fee[f]
             total == IF amount < row.paid THEN row.paid ELSE amount
             was   == IF row.status \in {"absent", "cancelled"}
                        THEN 0 ELSE Remaining(row)
             d     == Floor0(total - row.paid) - was
  <2>1. /\ fee' = [fee EXCEPT ![f] = [status |-> FeeStatus(total, row.paid),
                                      amount |-> total, paid |-> row.paid]]
        /\ account' = [account EXCEPT
             ![Owner[f]].due = Floor0(@ - was + Floor0(total - row.paid))]
    BY <1>3 DEF SyncPenalty
  <2>2. was \in Nat /\ Owes(fee[f], f, Owner[f]) = was
    BY <1>0, OwesType DEF Owes
  <2>3. Floor0(total - row.paid) \in Nat
        /\ Owes(fee'[f], f, Owner[f]) = Floor0(total - row.paid)
    <3>1. total - row.paid \in Int
      BY <1>0
    <3>2. FeeStatus(total, row.paid) \notin {"absent", "cancelled"}
      BY DEF FeeStatus
    <3>3. fee'[f] = [status |-> FeeStatus(total, row.paid),
                     amount |-> total, paid |-> row.paid]
      BY <2>1
    <3>4. /\ fee'[f].amount = total /\ fee'[f].paid = row.paid
          /\ fee'[f].status \notin {"absent", "cancelled"}
      BY <3>2, <3>3
    <3> HIDE DEF total, row
    <3>5. Owes(fee'[f], f, Owner[f]) = Floor0(total - row.paid)
      BY <3>4 DEF Owes, Remaining
    <3> QED BY <3>1, <3>5, Floor0Type
  <2>4. account' = [account EXCEPT ![Owner[f]].due = Floor0(@ + d)]
    <3>1. account[Owner[f]].due + d
            = account[Owner[f]].due - was + Floor0(total - row.paid)
      <4>1. account[Owner[f]].due \in Nat
        BY <1>0
      <4> HIDE DEF was, total, row
      <4> QED BY <4>1, <2>2, <2>3
    <3> HIDE DEF was, total, row, d
    <3> QED BY <2>1, <3>1
  <2>5. \A g \in Fees : g # f => fee'[g] = fee[g]
    BY <2>1
  <2>6. d \in Int /\ Owes(fee'[f], f, Owner[f]) = Owes(fee[f], f, Owner[f]) + d
    <3> HIDE DEF was, total, row
    <3> QED BY <2>2, <2>3
  <2> HIDE DEF d
  <2> QED BY <2>4, <2>5, <2>6, OneFeeFollows
<1>4. ASSUME NEW c \in Clerks, NEW f \in Fees, CancelFeeRead(c, f)
      PROVE  Follows
  BY <1>4, StillFollows DEF CancelFeeRead, tableVars
<1> QED BY <1>1, <1>2, <1>3, <1>4

\* A payment of k that is spent on k's own fees lowers them by what it hands out,
\* or by less when it meets a fee that was cancelled in the meantime.
LEMMA SpendsTrails ==
  ASSUME LedgerInv, LedgerInv', NEW p \in Payments, NEW k, NEW order \in Seq(Fees),
         \A f \in ToSet(order) : Owner[f] = k,
         NEW amount \in Cash, NEW a \in Allocations(fee, order, amount),
         Spends(p, k, order, amount, a)
  PROVE  /\ Trails
         /\ (\A f \in ToSet(order) : fee[f].status \notin {"absent", "cancelled"}) => Follows
<1> USE DEF LedgerInv, LedgerTypeOK, RowsTypeOK
<1>1. amount \in Nat /\ IsFiniteSet(Fees) /\ Cash \subseteq Nat
  BY LedgerAssumption DEF Cash
<1>2. /\ a \in [Fees -> Nat] /\ SumFunction(a) = SumFunctionOnSet(a, Fees)
      /\ SumFunction(a) \in Int
  BY <1>1, HandsOutAtMost
<1>3. \A f \in Fees :
         /\ fee'[f].amount = fee[f].amount
         /\ fee'[f].paid = fee[f].paid + a[f]
         /\ \/ fee'[f] = fee[f] /\ a[f] = 0
            \/ f \in ToSet(order) /\ fee'[f].status \in {"unpaid", "partial", "paid"}
  <2>1. fee' = Allocated(fee, order, amount, a)
    BY DEF Spends
  <2>2. fee \in [Fees -> FeeRow] /\ \A g \in Fees : fee[g].paid <= fee[g].amount
    BY DEF FeesNotOverpaid
  <2>3. \A f \in Fees :
           /\ a[f] \in Nat
           /\ Allocated(fee, order, amount, a)[f].amount = fee[f].amount
           /\ Allocated(fee, order, amount, a)[f].paid = fee[f].paid + a[f]
           /\ \/ Allocated(fee, order, amount, a)[f] = fee[f] /\ a[f] = 0
              \/ /\ f \in ToSet(order)
                 /\ Allocated(fee, order, amount, a)[f].status \in {"unpaid", "partial", "paid"}
    BY <1>1, <2>2, SpentRows
  <2> QED BY <2>1, <2>3, Zenon
<1> DEFINE opened == \A f \in ToSet(order) : fee[f].status \notin {"absent", "cancelled"}
<1>4. ASSUME NEW m \in Members
      PROVE  \E d, e \in Int : d <= e /\ (opened => d = e) /\ Moves(m, d, e)
  <2> DEFINE old == [f \in Fees |-> Owes(fee[f], f, m)]
             new == [f \in Fees |-> Owes(fee'[f], f, m)]
             took == [f \in Fees |-> IF m = k THEN a[f] ELSE 0]
             back == [f \in Fees |-> new[f] + took[f]]
  <2>1. \A f \in Fees : /\ old[f] \in Nat /\ new[f] \in Nat /\ took[f] \in Nat
                        /\ back[f] = new[f] + took[f]
    BY <1>2, OwesType DEF FeesNotOverpaid
  <2>2. ASSUME NEW f \in Fees
        PROVE  old[f] <= back[f] /\ (opened => old[f] = back[f])
    <3>1. CASE Owner[f] # m
      <4>1. old[f] = 0 /\ new[f] = 0
        BY <3>1 DEF Owes
      <4>2. took[f] = 0
        BY <1>3, <3>1
      <4> QED BY <4>1, <4>2
    <3>2. CASE Owner[f] = m /\ fee'[f] = fee[f] /\ a[f] = 0
      <4>1. new[f] = old[f] /\ took[f] = 0
        BY <3>2
      <4>2. old[f] \in Nat /\ back[f] = new[f] + took[f]
        BY <2>1
      <4> HIDE DEF old, new, took, back
      <4> QED BY <4>1, <4>2
    <3>3. CASE Owner[f] = m /\ f \in ToSet(order) /\ fee'[f].status \in {"unpaid", "partial", "paid"}
      <4>1. m = k /\ took[f] = a[f]
        BY <3>3
      <4>2. fee[f].amount \in Nat /\ fee[f].paid \in Nat /\ fee[f].paid <= fee[f].amount
            /\ fee[f] \in FeeRow /\ fee'[f] \in FeeRow /\ fee'[f].paid <= fee'[f].amount
        BY <1>1 DEF FeesNotOverpaid, FeeRow
      <4>3. new[f] = fee'[f].amount - fee'[f].paid
        BY <3>3, <4>2, OwesType
      <4>4. old[f] = (IF fee[f].status \notin {"absent", "cancelled"}
                        THEN fee[f].amount - fee[f].paid ELSE 0)
        BY <3>3, <4>2, OwesType
      <4>5. back[f] = fee[f].amount - fee[f].paid
        <5>1. a[f] \in Nat /\ fee'[f].amount = fee[f].amount /\ fee'[f].paid = fee[f].paid + a[f]
          BY <1>2, <1>3
        <5>2. back[f] = new[f] + took[f]
          OBVIOUS
        <5> HIDE DEF new, took, back
        <5> QED BY <4>1, <4>2, <4>3, <5>1, <5>2
      <4>6. opened => fee[f].status \notin {"absent", "cancelled"}
        BY <3>3
      <4> HIDE DEF old, new, took, back, opened
      <4> QED BY <4>2, <4>4, <4>5, <4>6
    <3> QED BY <1>3, <3>1, <3>2, <3>3
  <2>3. /\ Outstanding(m) = SumFunctionOnSet(old, Fees)
        /\ Outstanding(m)' = SumFunctionOnSet(new, Fees)
    BY OutstandingSum
  <2>4. SumFunctionOnSet(took, Fees) = IF m = k THEN SumFunction(a) ELSE 0
    <3>1. CASE m = k
      <4>1. \A f \in Fees : took[f] = a[f]
        BY <3>1
      <4> HIDE DEF took
      <4> QED BY <1>1, <1>2, <3>1, <4>1, SumEqual
    <3>2. CASE m # k
      <4>1. \A f \in Fees : took[f] = 0
        BY <3>2
      <4> HIDE DEF took
      <4> QED BY <1>1, <3>2, <4>1, SumZero
    <3> QED BY <3>1, <3>2
  <2>5. account'[m].due = Floor0(account[m].due + (0 - (IF m = k THEN SumFunction(a) ELSE 0)))
    <3>1. account \in [Members -> AccountRow] /\ account[m].due \in Nat
      BY DEF AccountRow
    <3>2. CASE m = k
      <4>1. account'[m].due = Floor0(account[m].due - SumFunction(a))
        BY <3>1, <3>2 DEF Spends, Credited
      <4>2. account[m].due - SumFunction(a) = account[m].due + (0 - SumFunction(a))
        BY <1>2, <3>1
      <4> QED BY <3>2, <4>1, <4>2
    <3>3. CASE m # k
      BY <3>1, <3>3 DEF Spends, Floor0
    <3> QED BY <3>2, <3>3
  <2> HIDE DEF old, new, took, back, opened
  <2>6. IsFiniteSet(Fees) /\ IntOn(old, Fees) /\ IntOn(new, Fees) /\ IntOn(took, Fees)
        /\ IntOn(back, Fees)
    <3>1. \A f \in Fees : /\ old[f] \in Int /\ new[f] \in Int /\ took[f] \in Int
                          /\ back[f] \in Int
      BY <2>1
    <3>2. IsFiniteSet(Fees)
      BY <1>1
    <3> QED BY <3>1, <3>2, Zenon DEF IntOn
  <2>7. SumFunctionOnSet(back, Fees) = SumFunctionOnSet(new, Fees) + SumFunctionOnSet(took, Fees)
    BY <2>1, <2>6, SumAdds
  <2>8. /\ SumFunctionOnSet(old, Fees) <= SumFunctionOnSet(back, Fees)
        /\ opened => SumFunctionOnSet(old, Fees) = SumFunctionOnSet(back, Fees)
    BY <2>2, <2>6, SumMonotone, SumEqual
  <2>9. /\ SumFunctionOnSet(old, Fees) \in Int /\ SumFunctionOnSet(new, Fees) \in Int
        /\ SumFunctionOnSet(took, Fees) \in Int
    BY <2>6, SumType
  <2> DEFINE d == 0 - SumFunctionOnSet(took, Fees)
             e == SumFunctionOnSet(new, Fees) - SumFunctionOnSet(old, Fees)
  <2>10. d \in Int /\ e \in Int /\ d <= e /\ (opened => d = e)
    BY <2>7, <2>8, <2>9
  <2>11. Moves(m, d, e)
    BY <2>3, <2>4, <2>5, <2>9 DEF Moves
  <2> QED BY <2>10, <2>11
<1>5. Trails
  BY <1>4 DEF Trails
<1>6. ASSUME opened PROVE Follows
  BY <1>4, <1>6 DEF Follows
<1> QED BY <1>5, <1>6

\* A payment declared by hand goes to open fees only: the balance follows exactly.
LEMMA ValidateFollows ==
  ASSUME LedgerInv, LedgerInv', NEW p \in Payments, ValidatePayment(p)
  PROVE  Follows
<1> DEFINE m == payment[p].user
           amount == payment[p].amount
           order == OpenFees(m)
<1>1. /\ order \in Seq(Fees) /\ amount \in Cash
      /\ \A i \in DOMAIN order : IsOpen(order[i], m)
      /\ \E a \in Allocations(fee, order, amount) : Spends(p, m, order, amount, a)
  BY ValidateSpends
<1>2. PICK a \in Allocations(fee, order, amount) : Spends(p, m, order, amount, a)
  BY <1>1
<1>3. \A f \in ToSet(order) : Owner[f] = m /\ fee[f].status \notin {"absent", "cancelled"}
  BY <1>1 DEF ToSet, IsOpen
<1> HIDE DEF m, amount, order
<1> QED BY <1>1, <1>2, <1>3, SpendsTrails

\* A step of the ledger other than the commit of cancel_fee.
LEMMA LedgerNextFollows ==
  ASSUME LedgerInv, LedgerInv', [LedgerNext]_ledgerVars, \A c \in Clerks : ~CancelFeeCommit(c)
  PROVE  Follows
<1>1. CASE UNCHANGED ledgerVars
  BY <1>1, StillFollows DEF ledgerVars
<1>2. ASSUME NEW p \in Payments, ValidatePayment(p)
      PROVE  Follows
  BY <1>2, ValidateFollows
<1>3. ASSUME NEW p \in Payments,
             \/ \E m \in Members : CreatePayment(p, m)
             \/ RejectPayment(p) \/ CancelPayment(p)
      PROVE  Follows
  BY <1>3, StillFollows DEF CreatePayment, RejectPayment, CancelPayment
<1> QED BY <1>1, <1>2, <1>3, FeeStepFollows DEF LedgerNext

\* A cancel_fee request commits only while its fee still is as it read it, and
\* it does not cancel a fee that was cancelled when it was read.
CommitsAsRead ==
  \A c \in Clerks : CancelFeeCommit(c) =>
    /\ cancelling[c].was # "cancelled"
    /\ fee[cancelling[c].fee].status \notin {"absent", "cancelled"}
    /\ Remaining(fee[cancelling[c].fee]) = cancelling[c].remaining

CancelledAsRead == [][CommitsAsRead]_ledgerVars

\* What the fee owed leaves the balance, and the fee owes nothing.
LEMMA CancelFollows ==
  ASSUME LedgerInv, LedgerInv', CommitsAsRead, NEW c \in Clerks, CancelFeeCommit(c)
  PROVE  Follows
<1> USE DEF LedgerInv, LedgerTypeOK, RowsTypeOK
<1> DEFINE f == cancelling[c].fee
           remaining == cancelling[c].remaining
           d == 0 - remaining
<1>1. f \in Fees /\ remaining \in Nat
  BY DEF CancelFeeCommit, CancelRequest
<1>2. /\ fee' = [fee EXCEPT ![f].status = "cancelled"]
      /\ account' = [account EXCEPT ![Owner[f]].due = Floor0(@ - remaining)]
  BY DEF CancelFeeCommit, CommitsAsRead
<1>3. fee[f] \in FeeRow /\ Owner[f] \in Members /\ account[Owner[f]].due \in Nat
  BY <1>1, LedgerAssumption DEF AccountRow
<1> HIDE DEF f, remaining
<1>4. Owes(fee[f], f, Owner[f]) = remaining
  BY DEF CommitsAsRead, Owes, f, remaining
<1>5. Owes(fee'[f], f, Owner[f]) = 0
  BY <1>1, <1>2, <1>3 DEF Owes, FeeRow
<1>6. account' = [account EXCEPT ![Owner[f]].due = Floor0(@ + d)]
  <2>1. account[Owner[f]].due + d = account[Owner[f]].due - remaining
    BY <1>1, <1>3
  <2> QED BY <1>2, <2>1
<1>7. \A g \in Fees : g # f => fee'[g] = fee[g]
  BY <1>2
<1>8. d \in Int /\ Owes(fee'[f], f, Owner[f]) = Owes(fee[f], f, Owner[f]) + d
  BY <1>1, <1>4, <1>5
<1> HIDE DEF d
<1> QED BY <1>1, <1>6, <1>7, <1>8, OneFeeFollows

LEMMA LedgerInitBalance == LedgerInit => BalanceIsOutstanding
<1> SUFFICES ASSUME LedgerInit, NEW m \in Members PROVE account[m].due = Outstanding(m)
  BY DEF BalanceIsOutstanding
<1> DEFINE owed == [f \in Fees |-> Owes(fee[f], f, m)]
<1>1. Outstanding(m) = SumFunctionOnSet(owed, Fees) /\ account[m].due = 0
  BY OutstandingSum DEF LedgerInit
<1>2. \A f \in Fees : owed[f] = 0
  BY DEF LedgerInit, Owes, NoFee
<1> HIDE DEF owed
<1> QED BY <1>1, <1>2, SumZero, LedgerAssumption

\* As long as no cancel_fee request commits on a stale read (finance.py:365), nor
\* cancels a fee a second time, balance_due is what the open fees owe, whatever
\* fees, penalties, revisions, payments and cancellations the member meets.
THEOREM LedgerBalanceFollows ==
  LedgerSpec /\ CancelledAsRead => []BalanceIsOutstanding
<1>1. LedgerInit => LedgerInv /\ BalanceIsOutstanding
  BY LedgerInitInv, LedgerInitBalance
<1>2. LedgerInv /\ [LedgerNext]_ledgerVars => LedgerInv'
  BY LedgerNextInv
<1>3. LedgerInv /\ LedgerInv' /\ BalanceIsOutstanding /\ [LedgerNext]_ledgerVars
        /\ [CommitsAsRead]_ledgerVars
        => BalanceIsOutstanding'
  <2> SUFFICES ASSUME LedgerInv, LedgerInv', BalanceIsOutstanding, [LedgerNext]_ledgerVars,
                      [CommitsAsRead]_ledgerVars
               PROVE  BalanceIsOutstanding'
    OBVIOUS
  <2>1. CASE UNCHANGED ledgerVars
    <3>1. Follows
      BY <2>1, StillFollows DEF ledgerVars
    <3> QED BY <3>1, FollowsBalance
  <2>2. CASE CommitsAsRead
    <3>1. ASSUME NEW c \in Clerks, CancelFeeCommit(c)
          PROVE  Follows
      BY <2>2, <3>1, CancelFollows
    <3>2. ASSUME \A c \in Clerks : ~CancelFeeCommit(c)
          PROVE  Follows
      BY <3>2, LedgerNextFollows
    <3>3. Follows
      BY <3>1, <3>2
    <3> QED BY <3>3, FollowsBalance
  <2> QED BY <2>1, <2>2
<1> QED BY <1>1, <1>2, <1>3, PTL DEF LedgerSpec, CancelledAsRead

----------------------------------------------------------------------------
(* cancel_fee, whose read is stale by the time it commits *)

\* What a cancel_fee request read of its fee is no less than what the fee owes.
CancellingEnough ==
  \A c \in Clerks : cancelling[c] # Idle =>
    /\ fee[cancelling[c].fee].status # "absent"
    /\ Remaining(fee[cancelling[c].fee]) <= cancelling[c].remaining

\* An existing fees row stays, and what it was paid stays paid.
RowsOnlyPaid ==
  \A f \in Fees : fee[f].status # "absent" =>
    fee'[f].status # "absent" /\ fee[f].paid <= fee'[f].paid

\* A fee is not made dearer while a cancel_fee request holds what it read of it.
NotDearer ==
  \A c \in Clerks : cancelling[c] # Idle =>
    fee'[cancelling[c].fee].amount <= fee[cancelling[c].fee].amount

LEMMA CancelTrails ==
  ASSUME LedgerInv, LedgerInv', CancellingEnough, NEW c \in Clerks, CancelFeeCommit(c)
  PROVE  Trails
<1> DEFINE f == cancelling[c].fee
           remaining == cancelling[c].remaining
<1>1. /\ cancelling[c] \in [op : {"cancel_fee"}, fee : Fees, was : FeeStatuses,
                            remaining : Nat]
      /\ cancelling[c] # Idle
  BY DEF CancelFeeCommit, LedgerInv, LedgerTypeOK, CancelRequest
<1>2. /\ f \in Fees /\ remaining \in Nat /\ Remaining(fee[f]) <= remaining
      /\ fee[f] \in FeeRow /\ fee[f].paid <= fee[f].amount
  BY <1>1 DEF CancellingEnough, LedgerInv, LedgerTypeOK, RowsTypeOK, FeesNotOverpaid
<1>3. /\ account' = [account EXCEPT ![Owner[f]].due = Floor0(@ - remaining)]
      /\ fee' = fee \/ fee' = [fee EXCEPT ![f].status = "cancelled"]
  BY DEF CancelFeeCommit
<1>4. \A g \in Fees : g # f => fee'[g] = fee[g]
  <2>1. fee \in [Fees -> FeeRow]
    BY DEF LedgerInv, LedgerTypeOK, RowsTypeOK
  <2> HIDE DEF f
  <2> QED BY <1>3, <2>1
<1> SUFFICES ASSUME NEW m \in Members PROVE \E d, e \in Int : d <= e /\ Moves(m, d, e)
  BY DEF Trails
<1>5. /\ Owes(fee[f], f, m) \in Nat /\ Owes(fee'[f], f, m) \in Nat
      /\ Outstanding(m)' = Outstanding(m) - Owes(fee[f], f, m) + Owes(fee'[f], f, m)
  BY <1>2, <1>4, OutstandingAfterOne
<1>6. Outstanding(m) \in Nat
  BY OutstandingType
<1>7. account \in [Members -> AccountRow] /\ account[m].due \in Nat
  BY DEF LedgerInv, LedgerTypeOK, RowsTypeOK, AccountRow
<1>8. CASE m # Owner[f]
  <2>1. Owes(fee[f], f, m) = 0 /\ Owes(fee'[f], f, m) = 0
    BY <1>8 DEF Owes
  <2>2. account'[m] = account[m]
    BY <1>3, <1>7, <1>8
  <2>3. Moves(m, 0, 0)
    BY <1>5, <1>6, <1>7, <2>1, <2>2 DEF Moves, Floor0
  <2> QED BY <2>3
<1>9. CASE m = Owner[f]
  <2> DEFINE d == 0 - remaining
             e == Owes(fee'[f], f, m) - Owes(fee[f], f, m)
  <2>1. d \in Int /\ e \in Int
    BY <1>2, <1>5
  <2>2. d <= e
    <3>1. CASE fee' = fee
      BY <1>2, <1>5, <3>1
    <3>2. CASE fee' = [fee EXCEPT ![f].status = "cancelled"]
      <4>1. fee'[f].status = "cancelled"
        BY <1>2, <3>2 DEF LedgerInv, LedgerTypeOK, RowsTypeOK, FeeRow
      <4>2. Owes(fee'[f], f, m) = 0
        BY <4>1 DEF Owes
      <4>3. Remaining(fee[f]) \in Nat /\ Owes(fee[f], f, m) <= Remaining(fee[f])
        BY <1>2, RemainingType DEF Owes
      <4> QED BY <1>2, <1>5, <4>2, <4>3
    <3> QED BY <1>3, <3>1, <3>2
  <2>3. account'[m].due = Floor0(account[m].due + d)
    <3>1. account[m].due + d = account[m].due - remaining
      BY <1>2, <1>7
    <3>2. account'[m].due = Floor0(account[m].due - remaining)
      BY <1>3, <1>7, <1>9 DEF AccountRow
    <3> QED BY <3>1, <3>2
  <2>4. Outstanding(m)' = Outstanding(m) + e
    BY <1>5, <1>6
  <2> HIDE DEF d, e
  <2> QED BY <2>1, <2>2, <2>3, <2>4 DEF Moves
<1> QED BY <1>8, <1>9

LEMMA LedgerNextTrails ==
  ASSUME LedgerInv, LedgerInv', CancellingEnough, [LedgerNext]_ledgerVars
  PROVE  Trails
<1>1. CASE \E c \in Clerks : CancelFeeCommit(c)
  BY <1>1, CancelTrails
<1>2. CASE \A c \in Clerks : ~CancelFeeCommit(c)
  BY <1>2, LedgerNextFollows, FollowsTrails
<1> QED BY <1>1, <1>2

\* Only the amount of a fee could make it owe more; it never owes less than
\* nothing, and what it was paid is never taken back.
LEMMA LedgerRowsOnlyPaid ==
  ASSUME LedgerInv, BooksInv, [LedgerNext]_ledgerVars, NEW f \in Fees, fee[f].status # "absent"
  PROVE  fee'[f].status # "absent" /\ fee[f].paid <= fee'[f].paid
<1> USE DEF LedgerInv, LedgerTypeOK, RowsTypeOK
<1>0. fee[f] \in FeeRow /\ fee[f].paid \in Nat /\ fee[f].paid <= fee[f].paid
  BY DEF FeeRow
<1>1. CASE UNCHANGED fee
  BY <1>0, <1>1
<1>2. ASSUME NEW g \in Fees, CreateFee(g)
      PROVE  fee'[f] = fee[f]
  BY <1>2 DEF CreateFee, CreateFeeRecord
<1>3. ASSUME NEW g \in Fees, fee' = [fee EXCEPT ![g].status = "cancelled"]
      PROVE  fee'[f].status # "absent" /\ fee'[f].paid = fee[f].paid
  BY <1>0, <1>3 DEF FeeRow
<1>4. ASSUME NEW g \in Fees, NEW amount \in Amounts, SyncPenalty(g, amount)
      PROVE  fee'[f].status # "absent" /\ fee'[f].paid = fee[f].paid
  BY <1>4 DEF SyncPenalty, FeeStatus
<1>5. ASSUME NEW c \in Clerks, CancelFeeCommit(c)
      PROVE  UNCHANGED fee \/ \E g \in Fees : fee' = [fee EXCEPT ![g].status = "cancelled"]
  <2>1. cancelling[c].fee \in Fees
    BY <1>5 DEF CancelFeeCommit, CancelRequest
  <2> QED BY <1>5, <2>1 DEF CancelFeeCommit
<1>6. ASSUME NEW p \in Payments, ValidatePayment(p)
      PROVE  fee'[f].status # "absent" /\ fee[f].paid <= fee'[f].paid
  <2> DEFINE amount == payment[p].amount
             order == OpenFees(payment[p].user)
  <2>1. /\ order \in Seq(Fees) /\ amount \in Nat
        /\ \E a \in Allocations(fee, order, amount) :
             Spends(p, payment[p].user, order, amount, a)
    BY <1>6, ValidateSpends, LedgerAssumption DEF Cash
  <2>2. PICK a \in Allocations(fee, order, amount) : fee' = Allocated(fee, order, amount, a)
    BY <2>1 DEF Spends
  <2> HIDE DEF amount, order
  <2>3. \A g \in Fees : fee[g].paid <= fee[g].amount
    BY DEF FeesNotOverpaid
  <2>4. /\ a[f] \in Nat
        /\ Allocated(fee, order, amount, a)[f].paid = fee[f].paid + a[f]
        /\ \/ Allocated(fee, order, amount, a)[f] = fee[f]
           \/ Allocated(fee, order, amount, a)[f].status \in {"unpaid", "partial", "paid"}
    BY <2>1, <2>3, SpentRows
  <2> QED BY <1>0, <2>2, <2>4
<1>7. ASSUME NEW g \in Fees, RemovePenalty(g)
      PROVE  fee' = [fee EXCEPT ![g].status = "cancelled"]
  BY <1>7 DEF RemovePenalty
<1>8. ASSUME \/ \E c \in Clerks, g \in Fees : CancelFeeRead(c, g)
             \/ \E p \in Payments, m \in Members : CreatePayment(p, m)
             \/ \E p \in Payments : RejectPayment(p) \/ CancelPayment(p)
             \/ UNCHANGED ledgerVars
      PROVE  UNCHANGED fee
  BY <1>8 DEF CancelFeeRead, CreatePayment, RejectPayment, CancelPayment, tableVars, ledgerVars
<1> QED BY <1>0, <1>1, <1>2, <1>3, <1>4, <1>5, <1>6, <1>7, <1>8 DEF LedgerNext

LEMMA StillEnough ==
  ASSUME LedgerInv, LedgerInv', CancellingEnough, RowsOnlyPaid, NotDearer,
         \A c \in Clerks : \/ cancelling'[c] \in {cancelling[c], Idle}
                           \/ \E f \in Fees : CancelFeeRead(c, f)
  PROVE  CancellingEnough'
<1> USE DEF LedgerInv, LedgerTypeOK, RowsTypeOK
<1> SUFFICES ASSUME NEW c \in Clerks, cancelling'[c] # Idle
             PROVE  /\ fee'[cancelling'[c].fee].status # "absent"
                    /\ Remaining(fee'[cancelling'[c].fee]) <= cancelling'[c].remaining
  BY DEF CancellingEnough
<1>1. CASE cancelling'[c] = cancelling[c]
  <2> DEFINE f == cancelling[c].fee
  <2>1. /\ cancelling[c] # Idle
        /\ fee[f].status # "absent" /\ Remaining(fee[f]) <= cancelling[c].remaining
    BY <1>1 DEF CancellingEnough
  <2>2. f \in Fees /\ cancelling[c].remaining \in Nat
    BY <2>1 DEF CancelRequest
  <2>3. /\ fee'[f].status # "absent" /\ fee'[f].amount <= fee[f].amount
        /\ fee[f].paid <= fee'[f].paid
    BY <2>1, <2>2 DEF RowsOnlyPaid, NotDearer
  <2>4. /\ fee[f] \in FeeRow /\ fee[f].paid <= fee[f].amount
        /\ fee'[f] \in FeeRow /\ fee'[f].paid <= fee'[f].amount
        /\ fee[f].paid \in Nat /\ fee'[f].paid \in Nat
        /\ fee[f].amount \in Nat /\ fee'[f].amount \in Nat
    BY <2>2, LedgerAssumption DEF FeesNotOverpaid, FeeRow, Cash
  <2>5. Remaining(fee[f]) = fee[f].amount - fee[f].paid
        /\ Remaining(fee'[f]) = fee'[f].amount - fee'[f].paid
    BY <2>4, RemainingType
  <2> HIDE DEF f
  <2>6. Remaining(fee'[f]) <= cancelling[c].remaining
    BY <2>1, <2>2, <2>3, <2>4, <2>5
  <2> QED BY <1>1, <2>3, <2>6 DEF f
<1>2. CASE \E f \in Fees : CancelFeeRead(c, f)
  <2>1. PICK f \in Fees : CancelFeeRead(c, f)
    BY <1>2
  <2>2. /\ cancelling'[c].fee = f /\ cancelling'[c].remaining = Remaining(fee[f])
        /\ fee[f].status # "absent" /\ UNCHANGED fee
    BY <2>1 DEF CancelFeeRead, tableVars
  <2>3. Remaining(fee[f]) \in Nat
    BY RemainingType DEF FeesNotOverpaid
  <2> QED BY <2>2, <2>3
<1> QED BY <1>1, <1>2

LEMMA LedgerNextEnough ==
  ASSUME LedgerInv, LedgerInv', BooksInv, CancellingEnough, [LedgerNext]_ledgerVars, NotDearer
  PROVE  CancellingEnough'
<1>1. RowsOnlyPaid
  BY LedgerRowsOnlyPaid DEF RowsOnlyPaid
<1>2. \A c \in Clerks : \/ cancelling'[c] \in {cancelling[c], Idle}
                        \/ \E f \in Fees : CancelFeeRead(c, f)
  <2> SUFFICES ASSUME NEW c \in Clerks
               PROVE  \/ cancelling'[c] \in {cancelling[c], Idle}
                      \/ \E f \in Fees : CancelFeeRead(c, f)
    OBVIOUS
  <2>1. cancelling \in [Clerks -> CancelRequest]
    BY DEF LedgerInv, LedgerTypeOK
  <2>2. ASSUME NEW k \in Clerks, NEW f \in Fees, CancelFeeRead(k, f)
        PROVE  cancelling'[c] = cancelling[c] \/ CancelFeeRead(c, f)
    BY <2>1, <2>2 DEF CancelFeeRead
  <2>3. ASSUME NEW k \in Clerks, CancelFeeCommit(k)
        PROVE  cancelling'[c] \in {cancelling[c], Idle}
    BY <2>1, <2>3 DEF CancelFeeCommit
  <2>4. ASSUME \/ \E f \in Fees : CreateFee(f) \/ RemovePenalty(f)
               \/ \E f \in Fees, amount \in Amounts : SyncPenalty(f, amount)
               \/ \E p \in Payments, m \in Members : CreatePayment(p, m)
               \/ \E p \in Payments :
                    ValidatePayment(p) \/ RejectPayment(p) \/ CancelPayment(p)
               \/ UNCHANGED ledgerVars
        PROVE  cancelling' = cancelling
    BY <2>4 DEF CreateFee, RemovePenalty, SyncPenalty, CreatePayment, ValidatePayment,
               RejectPayment, CancelPayment, ledgerVars
  <2> QED BY <2>2, <2>3, <2>4 DEF LedgerNext
<1> QED BY <1>1, <1>2, StillEnough
============================================================================
