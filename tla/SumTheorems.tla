----------------------------- MODULE SumTheorems -----------------------------
(***************************************************************************)
(* Sums of a function over a finite set, as SumFunctionOnSet of the module *)
(* Functions computes them: what a sum is when an element is added or      *)
(* taken away, when one value changes, and how two sums compare.           *)
(***************************************************************************)
EXTENDS Functions, FiniteSetTheorems, WellFoundedInduction, TLAPS

Pick(s) == CHOOSE x \in s : TRUE

(* g gives the sums of f over the subsets of S, as the fold computes them.  *)
Sums(g, f, S) ==
  g = [s \in SUBSET S |-> IF s = {} THEN 0 ELSE f[Pick(s)] + g[s \ {Pick(s)}]]

(* Induction over the subsets of a finite set, for a set of subsets.        *)
LEMMA SubsetInduction ==
  ASSUME NEW S, IsFiniteSet(S), NEW Good \in SUBSET (SUBSET S),
         \A T \in SUBSET S : (\A U \in SUBSET T : U # T => U \in Good) => T \in Good
  PROVE  S \in Good
<1> DEFINE Bad == (SUBSET S) \ Good
<1>1. SUFFICES ASSUME Bad # {} PROVE FALSE
  OBVIOUS
<1>2. SUBSET S \subseteq FiniteSubsetsOf(S)
  BY FS_Subset DEF FiniteSubsetsOf
<1>3. PICK T \in Bad : \A U \in Bad : ~ (<<U, T>> \in StrictSubsetOrdering(S))
  <2> HIDE DEF Bad
  <2> Bad \subseteq FiniteSubsetsOf(S)
    BY <1>2 DEF Bad
  <2> QED BY <1>1, FS_StrictSubsetOrderingWellFounded, WFMin
<1>4. \A U \in SUBSET T : U # T => U \in Good
  BY <1>3 DEF StrictSubsetOrdering
<1> QED BY <1>4, <1>3

LEMMA PickIn == \A s : s # {} => Pick(s) \in s
BY DEF Pick

LEMMA SumsAgree ==
  ASSUME NEW f, NEW S, IsFiniteSet(S), NEW T \in SUBSET S, NEW g, NEW h,
         Sums(g, f, S), Sums(h, f, T)
  PROVE  g[T] = h[T]
<1> DEFINE Good == {U \in SUBSET T : g[U] = h[U]}
<1>1. ASSUME NEW U \in SUBSET T, \A V \in SUBSET U : V # U => V \in Good
      PROVE  U \in Good
  <2>1. CASE U = {}
    BY <2>1 DEF Sums
  <2>2. CASE U # {}
    <3>1. U \ {Pick(U)} \in Good
      BY <1>1, <2>2, PickIn
    <3>2. g[U] = f[Pick(U)] + g[U \ {Pick(U)}]
      BY <2>2 DEF Sums
    <3>3. h[U] = f[Pick(U)] + h[U \ {Pick(U)}]
      BY <2>2 DEF Sums
    <3> QED BY <3>1, <3>2, <3>3
  <2> QED BY <2>1, <2>2
<1>2. IsFiniteSet(T)
  BY FS_Subset
<1>3. T \in Good
  <2> HIDE DEF Good
  <2> Good \in SUBSET (SUBSET T)
    BY DEF Good
  <2> QED BY <1>1, <1>2, SubsetInduction
<1> QED BY <1>3

LEMMA SumsExist ==
  ASSUME NEW f, NEW S, IsFiniteSet(S)
  PROVE  \E g : Sums(g, f, S)
<1> DEFINE Good == {T \in SUBSET S : \E g : Sums(g, f, T)}
           Of(T) == CHOOSE g : Sums(g, f, T)
<1>1. ASSUME NEW T \in SUBSET S, \A U \in SUBSET T : U # T => U \in Good
      PROVE  T \in Good
  <2> DEFINE Rest(s) == s \ {Pick(s)}
             g == [s \in SUBSET T |->
                     IF s = {} THEN 0 ELSE f[Pick(s)] + Of(Rest(s))[Rest(s)]]
  <2>1. ASSUME NEW s \in SUBSET T, s # {} PROVE Sums(Of(Rest(s)), f, Rest(s)) /\ IsFiniteSet(Rest(s))
    <3>1. Rest(s) \in SUBSET T /\ Rest(s) # T
      BY <2>1, PickIn
    <3>2. \E h : Sums(h, f, Rest(s))
      BY <3>1, <1>1
    <3> QED BY <3>1, <3>2, FS_Subset
  <2>2. ASSUME NEW s \in SUBSET T, s # {}
        PROVE  Of(Rest(s))[Rest(s)] = g[Rest(s)]
    <3> DEFINE r == Rest(s)
    <3>1. Sums(Of(r), f, r) /\ IsFiniteSet(r) /\ r \in SUBSET T
      BY <2>1, <2>2
    <3>2. CASE r = {}
      BY <3>1, <3>2 DEF Sums
    <3>3. CASE r # {}
      <4>1. Sums(Of(Rest(r)), f, Rest(r))
        BY <2>1, <3>1, <3>3
      <4>2. Of(r)[Rest(r)] = Of(Rest(r))[Rest(r)]
        <5> Rest(r) \in SUBSET r
          OBVIOUS
        <5> HIDE DEF Of, Rest, r
        <5> QED BY <3>1, <4>1, SumsAgree
      <4>3. Of(r)[r] = f[Pick(r)] + Of(r)[Rest(r)]
        <5> HIDE DEF Of, r
        <5> QED BY <3>1, <3>3 DEF Sums
      <4>4. g[r] = f[Pick(r)] + Of(Rest(r))[Rest(r)]
        <5> HIDE DEF Of, r
        <5> QED BY <3>1, <3>3
      <4> QED BY <4>2, <4>3, <4>4
    <3> QED BY <3>2, <3>3
  <2>3. Sums(g, f, T)
    <3>1. g = [s \in SUBSET T |-> IF s = {} THEN 0 ELSE f[Pick(s)] + g[Rest(s)]]
      <4> HIDE DEF Of
      <4> QED BY <2>2
    <3> HIDE DEF g
    <3> QED BY <3>1 DEF Sums
  <2> QED BY <2>3
<1>2. S \in Good
  <2> HIDE DEF Good
  <2> Good \in SUBSET (SUBSET S)
    BY DEF Good
  <2> QED BY <1>1, SubsetInduction
<1> QED BY <1>2

LEMMA SumIs ==
  ASSUME NEW f, NEW S
  PROVE  SumFunctionOnSet(f, S) = (CHOOSE g : Sums(g, f, S))[S]
BY DEF SumFunctionOnSet, FoldFunctionOnSet, MapThenFoldSet, Sums, Pick

(* The equation by which the fold computes a sum.                           *)
LEMMA SumEquation ==
  ASSUME NEW f, NEW S, IsFiniteSet(S)
  PROVE  /\ SumFunctionOnSet(f, {}) = 0
         /\ S # {} => SumFunctionOnSet(f, S)
                         = f[Pick(S)] + SumFunctionOnSet(f, S \ {Pick(S)})
<1> DEFINE Of(T) == CHOOSE g : Sums(g, f, T)
<1>1. ASSUME NEW T, IsFiniteSet(T)
      PROVE  Sums(Of(T), f, T) /\ SumFunctionOnSet(f, T) = Of(T)[T]
  BY <1>1, SumsExist, SumIs
<1> HIDE DEF Of
<1>2. SumFunctionOnSet(f, {}) = 0
  BY <1>1, FS_EmptySet DEF Sums
<1>3. ASSUME S # {}
      PROVE  SumFunctionOnSet(f, S) = f[Pick(S)] + SumFunctionOnSet(f, S \ {Pick(S)})
  <2> DEFINE R == S \ {Pick(S)}
  <2>1. R \in SUBSET S /\ IsFiniteSet(R)
    BY FS_Subset
  <2> HIDE DEF R
  <2>2. Of(S)[R] = Of(R)[R]
    BY <1>1, <2>1, SumsAgree
  <2>3. Of(S)[S] = f[Pick(S)] + Of(S)[R]
    BY <1>1, <1>3 DEF Sums, R
  <2>4. QED BY <1>1, <2>1, <2>2, <2>3 DEF R
<1>4. QED BY <1>2, <1>3

LEMMA SumEmpty == ASSUME NEW f PROVE SumFunctionOnSet(f, {}) = 0
BY SumEquation, FS_EmptySet

(* A sum of integers is one.                                                *)
LEMMA SumType ==
  ASSUME NEW S, IsFiniteSet(S), NEW f, \A x \in S : f[x] \in Int
  PROVE  SumFunctionOnSet(f, S) \in Int
<1> DEFINE Good == {T \in SUBSET S : SumFunctionOnSet(f, T) \in Int}
<1>1. ASSUME NEW T \in SUBSET S, \A U \in SUBSET T : U # T => U \in Good
      PROVE  T \in Good
  <2>1. IsFiniteSet(T)
    BY FS_Subset
  <2>2. CASE T = {}
    BY <2>2, SumEmpty
  <2>3. CASE T # {}
    <3>1. Pick(T) \in T
      BY <2>3, PickIn
    <3>2. T \ {Pick(T)} \in Good
      BY <1>1, <3>1
    <3>3. QED BY <2>1, <2>3, <3>1, <3>2, SumEquation
  <2>4. QED BY <2>2, <2>3
<1>2. S \in Good
  <2> HIDE DEF Good
  <2>1. Good \in SUBSET (SUBSET S)
    BY DEF Good
  <2>2. QED BY <1>1, <2>1, SubsetInduction
<1>3. QED BY <1>2

(* Any element may be taken out first.                                      *)
LEMMA SumRemove ==
  ASSUME NEW S, IsFiniteSet(S), NEW f, \A x \in S : f[x] \in Int, NEW k \in S
  PROVE  SumFunctionOnSet(f, S) = f[k] + SumFunctionOnSet(f, S \ {k})
<1> DEFINE Good == {T \in SUBSET S : \A x \in T :
              SumFunctionOnSet(f, T) = f[x] + SumFunctionOnSet(f, T \ {x})}
<1>1. ASSUME NEW T \in SUBSET S, \A U \in SUBSET T : U # T => U \in Good
      PROVE  T \in Good
  <2>1. SUFFICES ASSUME NEW x \in T
                 PROVE  SumFunctionOnSet(f, T) = f[x] + SumFunctionOnSet(f, T \ {x})
    OBVIOUS
  <2> DEFINE p == Pick(T)
  <2>2. IsFiniteSet(T) /\ p \in T
    BY FS_Subset, PickIn
  <2>3. SumFunctionOnSet(f, T) = f[p] + SumFunctionOnSet(f, T \ {p})
    BY <2>2, SumEquation
  <2> HIDE DEF p
  <2>4. CASE p = x
    BY <2>3, <2>4
  <2>5. CASE p # x
    <3> DEFINE R == (T \ {p}) \ {x}
    <3>1. R = (T \ {x}) \ {p}
      OBVIOUS
    <3>2. SumFunctionOnSet(f, T \ {p}) = f[x] + SumFunctionOnSet(f, R)
      <4>1. T \ {p} \in Good /\ x \in T \ {p}
        BY <1>1, <2>2, <2>5
      <4>2. QED BY <4>1
    <3>3. SumFunctionOnSet(f, T \ {x}) = f[p] + SumFunctionOnSet(f, R)
      <4>1. T \ {x} \in Good /\ p \in T \ {x}
        BY <1>1, <2>1, <2>2, <2>5
      <4>2. QED BY <4>1, <3>1
    <3>4. IsFiniteSet(R) /\ (\A y \in R : f[y] \in Int)
      BY <2>2, FS_Subset
    <3>5. f[x] \in Int /\ f[p] \in Int /\ SumFunctionOnSet(f, R) \in Int
      <4> HIDE DEF R
      <4>1. QED BY <2>1, <2>2, <3>4, SumType
    <3> HIDE DEF R
    <3>6. QED BY <2>3, <3>2, <3>3, <3>5
  <2>6. QED BY <2>4, <2>5
<1>2. S \in Good
  <2> HIDE DEF Good
  <2>1. Good \in SUBSET (SUBSET S)
    BY DEF Good
  <2>2. QED BY <1>1, <2>1, SubsetInduction
<1>3. QED BY <1>2

(* Functions that agree on a set have the same sum, and a larger one has a  *)
(* larger sum.                                                              *)
LEMMA SumMonotone ==
  ASSUME NEW S, IsFiniteSet(S), NEW f, NEW g,
         \A x \in S : f[x] \in Int /\ g[x] \in Int /\ f[x] <= g[x]
  PROVE  SumFunctionOnSet(f, S) <= SumFunctionOnSet(g, S)
<1> DEFINE Good == {T \in SUBSET S : SumFunctionOnSet(f, T) <= SumFunctionOnSet(g, T)}
<1>1. ASSUME NEW T \in SUBSET S, \A U \in SUBSET T : U # T => U \in Good
      PROVE  T \in Good
  <2> DEFINE p == Pick(T)
             R == T \ {p}
  <2>1. CASE T = {}
    BY <2>1, SumEmpty
  <2>2. CASE T # {}
    <3>1. p \in T /\ IsFiniteSet(T) /\ IsFiniteSet(R)
      BY <2>2, PickIn, FS_Subset
    <3>2. R \in Good
      BY <1>1, <3>1
    <3>3. SumFunctionOnSet(f, R) \in Int /\ SumFunctionOnSet(g, R) \in Int
      <4>1. \A x \in R : f[x] \in Int /\ g[x] \in Int
        OBVIOUS
      <4> HIDE DEF R
      <4>2. QED BY <3>1, <4>1, SumType
    <3>4. /\ SumFunctionOnSet(f, T) = f[p] + SumFunctionOnSet(f, R)
          /\ SumFunctionOnSet(g, T) = g[p] + SumFunctionOnSet(g, R)
      BY <2>2, <3>1, SumEquation
    <3> HIDE DEF p, R
    <3>5. QED BY <3>1, <3>2, <3>3, <3>4
  <2>3. QED BY <2>1, <2>2
<1>2. S \in Good
  <2> HIDE DEF Good
  <2>1. Good \in SUBSET (SUBSET S)
    BY DEF Good
  <2>2. QED BY <1>1, <2>1, SubsetInduction
<1>3. QED BY <1>2

LEMMA SumSame ==
  ASSUME NEW S, IsFiniteSet(S), NEW f, NEW g,
         \A x \in S : f[x] \in Int /\ f[x] = g[x]
  PROVE  SumFunctionOnSet(f, S) = SumFunctionOnSet(g, S)
<1>1. SumFunctionOnSet(f, S) \in Int /\ SumFunctionOnSet(g, S) \in Int
  BY SumType
<1>2. SumFunctionOnSet(f, S) <= SumFunctionOnSet(g, S)
      /\ SumFunctionOnSet(g, S) <= SumFunctionOnSet(f, S)
  BY SumMonotone
<1>3. QED BY <1>1, <1>2

(* What k adds to a sum over S.                                             *)
Share(f, S, k) == IF k \in S THEN f[k] ELSE 0

(* A step that changes the share of one element changes the sum by as much. *)
LEMMA SumChange ==
  ASSUME NEW S, IsFiniteSet(S), NEW T, IsFiniteSet(T), NEW f, NEW g, NEW k,
         S \ {k} = T \ {k},
         \A x \in S : f[x] \in Int, \A x \in T : g[x] \in Int,
         \A x \in S \ {k} : f[x] = g[x]
  PROVE  /\ SumFunctionOnSet(g, T)
              = SumFunctionOnSet(f, S) + Share(g, T, k) - Share(f, S, k)
         /\ SumFunctionOnSet(f, S) \in Int
<1> DEFINE R == S \ {k}
<1>1. IsFiniteSet(R)
  BY FS_Subset
<1>2. SumFunctionOnSet(f, R) = SumFunctionOnSet(g, R) /\ SumFunctionOnSet(f, R) \in Int
  <2>1. \A x \in R : f[x] \in Int /\ f[x] = g[x]
    OBVIOUS
  <2> HIDE DEF R
  <2>2. QED BY <1>1, <2>1, SumSame, SumType
<1>3. /\ SumFunctionOnSet(f, S) = SumFunctionOnSet(f, R) + Share(f, S, k)
      /\ Share(f, S, k) \in Int
  <2>1. CASE k \in S
    <3>1. SumFunctionOnSet(f, S) = f[k] + SumFunctionOnSet(f, R)
      BY <2>1, SumRemove
    <3> HIDE DEF R
    <3>2. QED BY <1>2, <2>1, <3>1 DEF Share
  <2>2. CASE k \notin S
    <3>1. R = S
      BY <2>2
    <3> HIDE DEF R
    <3>2. QED BY <1>2, <2>2, <3>1 DEF Share
  <2>3. QED BY <2>1, <2>2
<1>4. /\ SumFunctionOnSet(g, T) = SumFunctionOnSet(g, R) + Share(g, T, k)
      /\ Share(g, T, k) \in Int
  <2>1. CASE k \in T
    <3>1. SumFunctionOnSet(g, T) = g[k] + SumFunctionOnSet(g, T \ {k})
      BY <2>1, SumRemove
    <3>2. T \ {k} = R
      OBVIOUS
    <3>3. g[k] \in Int
      BY <2>1
    <3> HIDE DEF R
    <3>4. SumFunctionOnSet(g, T) = g[k] + SumFunctionOnSet(g, R)
      BY <3>1, <3>2
    <3>5. QED BY <1>2, <2>1, <3>3, <3>4 DEF Share
  <2>2. CASE k \notin T
    <3>1. R = T
      BY <2>2
    <3> HIDE DEF R
    <3>2. QED BY <1>2, <2>2, <3>1 DEF Share
  <2>3. QED BY <2>1, <2>2
<1> HIDE DEF R
<1>5. QED BY <1>2, <1>3, <1>4
==============================================================================
