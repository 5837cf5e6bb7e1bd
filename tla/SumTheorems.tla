----------------------------- MODULE SumTheorems -----------------------------
(***************************************************************************)
(* What the sum of a function over a finite set is: nothing for the empty  *)
(* set, an integer for integers, and one summand more for one element      *)
(* more.  SumFunctionOnSet is defined by recursion over the subsets of the *)
(* set, so it has to be shown first that the recursion has a solution and  *)
(* only one.  Induction over finite sets is by a least counterexample.     *)
(***************************************************************************)
EXTENDS Integers, FiniteSets, Functions, FiniteSetTheorems, TLAPS

\* A family of subsets of a finite set that is not empty has a least member.
LEMMA LeastSubset ==
    ASSUME NEW S, IsFiniteSet(S), NEW A, A \subseteq SUBSET S, A # {}
    PROVE  \E T \in A : \A U \in A : U \subseteq T => U = T
<1>1. IsWellFoundedOn(StrictSubsetOrdering(S), SUBSET S)
  BY FS_StrictSubsetOrderingWellFounded, FS_FiniteSubsetsOfFinite
<1>2. PICK T \in A : \A U \in A : ~ (<<U, T>> \in StrictSubsetOrdering(S))
  BY <1>1, WFMin
<1>3. QED BY <1>2 DEF StrictSubsetOrdering

-----------------------------------------------------------------------------
Chosen(T) == CHOOSE x \in T : TRUE
Others(T) == T \ {Chosen(T)}

LEMMA ChosenIsIn == \A T : T # {} => Chosen(T) \in T /\ Others(T) \subseteq T /\ Others(T) # T
BY DEF Chosen, Others

\* g sums f over every subset of S, one chosen element after the other.
Sums(g, f, S) ==
    g = [T \in SUBSET S |-> IF T = {} THEN 0 ELSE f[Chosen(T)] + g[T \ {Chosen(T)}]]

\* The definition, in these words.
LEMMA SumIsChosen ==
    ASSUME NEW f, NEW S
    PROVE  SumFunctionOnSet(f, S) = (CHOOSE g : Sums(g, f, S))[S]
BY DEF SumFunctionOnSet, FoldFunctionOnSet, MapThenFoldSet, Sums, Chosen

LEMMA SumsAt ==
    ASSUME NEW g, NEW f, NEW S, Sums(g, f, S), NEW T \in SUBSET S
    PROVE  g[T] = IF T = {} THEN 0 ELSE f[Chosen(T)] + g[Others(T)]
BY Zenon DEF Sums, Others

\* Two solutions for functions that agree, over one set and over a part of it, agree.
LEMMA SumsAgree ==
    ASSUME NEW S, IsFiniteSet(S), NEW T \in SUBSET S, NEW f, NEW k, \A x \in T : f[x] = k[x],
           NEW g, Sums(g, f, S), NEW h, Sums(h, k, T)
    PROVE  \A U \in SUBSET T : g[U] = h[U]
<1> SUFFICES ASSUME {U \in SUBSET T : g[U] # h[U]} # {} PROVE FALSE
  OBVIOUS
<1>1. PICK U \in SUBSET T : /\ g[U] # h[U]
                            /\ \A V \in SUBSET T : g[V] # h[V] /\ V \subseteq U => V = U
  <2> DEFINE A == {U \in SUBSET T : g[U] # h[U]}
  <2>1. \E U \in A : \A V \in A : V \subseteq U => V = U
    <3> HIDE DEF A
    <3>1. A \subseteq SUBSET T /\ A # {} BY DEF A
    <3>2. IsFiniteSet(T) BY FS_Subset
    <3>3. QED BY <3>1, <3>2, LeastSubset
  <2>2. QED BY <2>1
<1>2. U # {}
  BY <1>1, SumsAt
<1>3. g[U] = f[Chosen(U)] + g[Others(U)] /\ h[U] = k[Chosen(U)] + h[Others(U)]
  BY <1>2, SumsAt
<1>4. Chosen(U) \in T /\ Others(U) \in SUBSET T /\ g[Others(U)] = h[Others(U)]
  BY <1>1, <1>2, ChosenIsIn
<1>5. QED BY <1>1, <1>3, <1>4

LEMMA SumsExist ==
    ASSUME NEW S, IsFiniteSet(S), NEW f
    PROVE  \E g : Sums(g, f, S)
<1> SUFFICES ASSUME {T \in SUBSET S : ~ \E g : Sums(g, f, T)} # {} PROVE FALSE
  OBVIOUS
<1> DEFINE A == {T \in SUBSET S : ~ \E g : Sums(g, f, T)}
<1>1. PICK T \in SUBSET S : /\ ~ \E g : Sums(g, f, T)
                            /\ \A U \in SUBSET S : U \subseteq T /\ U # T => \E g : Sums(g, f, U)
  <2>1. \E T \in A : \A V \in A : V \subseteq T => V = T
    <3> HIDE DEF A
    <3>1. A \subseteq SUBSET S /\ A # {} BY DEF A
    <3>2. QED BY <3>1, LeastSubset
  <2>2. QED BY <2>1
<1> DEFINE F(U) == CHOOSE g : Sums(g, f, U)
           Value(U) == IF U = {} THEN 0 ELSE f[Chosen(U)] + F(Others(U))[Others(U)]
           g == [U \in SUBSET T |-> Value(U)]
<1>2. \A U \in SUBSET T : U # T => Sums(F(U), f, U)
  BY <1>1
<1>3. \A U \in SUBSET T : U # T => F(U)[U] = Value(U)
  <2> SUFFICES ASSUME NEW U \in SUBSET T, U # T PROVE F(U)[U] = Value(U)
    OBVIOUS
  <2> DEFINE V == Others(U)
  <2>1. Sums(F(U), f, U) BY <1>2
  <2>2. CASE U = {}
    BY <2>1, <2>2, SumsAt
  <2>3. CASE U # {}
    <3>1. V \in SUBSET U /\ V \in SUBSET T /\ V # T
      BY <2>3, ChosenIsIn
    <3>2. Sums(F(V), f, V) BY <1>2, <3>1
    <3>3. IsFiniteSet(U) BY FS_Subset
    <3> HIDE DEF F, V
    <3>4. F(U)[V] = F(V)[V]
      BY <2>1, <3>1, <3>2, <3>3, SumsAgree
    <3>5. F(U)[U] = f[Chosen(U)] + F(U)[V]
      BY <2>1, <2>3, SumsAt DEF V
    <3>6. QED BY <2>3, <3>4, <3>5 DEF V
  <2>4. QED BY <2>2, <2>3
<1>4. \A U \in SUBSET T : U # {} => g[Others(U)] = F(Others(U))[Others(U)]
  <2> SUFFICES ASSUME NEW U \in SUBSET T, U # {}
               PROVE  g[Others(U)] = F(Others(U))[Others(U)]
    OBVIOUS
  <2>1. Others(U) \in SUBSET T /\ Others(U) # T
    BY ChosenIsIn
  <2>2. QED BY <1>3, <2>1
<1>5. \A U \in SUBSET T :
          g[U] = IF U = {} THEN 0 ELSE f[Chosen(U)] + g[U \ {Chosen(U)}]
  <2> HIDE DEF F
  <2> SUFFICES ASSUME NEW U \in SUBSET T
               PROVE g[U] = IF U = {} THEN 0 ELSE f[Chosen(U)] + g[Others(U)]
    BY DEF Others
  <2>1. g[U] = Value(U) OBVIOUS
  <2> HIDE DEF g
  <2>2. QED BY <1>4, <2>1
<1>6. Sums(g, f, T)
  <2>1. g = [U \in SUBSET T |-> g[U]] OBVIOUS
  <2> HIDE DEF g
  <2>2. QED BY <1>5, <2>1 DEF Sums
<1>7. QED BY <1>1, <1>6

-----------------------------------------------------------------------------
\* What the definition promises of any finite set and any function.
LEMMA SumStep ==
    ASSUME NEW S, IsFiniteSet(S), NEW f
    PROVE  /\ SumFunctionOnSet(f, {}) = 0
           /\ S # {} => SumFunctionOnSet(f, S) = f[Chosen(S)] + SumFunctionOnSet(f, Others(S))
<1> DEFINE F(T) == CHOOSE g : Sums(g, f, T)
<1>1. \A T : IsFiniteSet(T) => Sums(F(T), f, T) /\ SumFunctionOnSet(f, T) = F(T)[T]
  BY SumsExist, SumIsChosen
<1> HIDE DEF F
<1>2. SumFunctionOnSet(f, {}) = 0
  BY <1>1, SumsAt, FS_EmptySet
<1>3. ASSUME S # {}
      PROVE  SumFunctionOnSet(f, S) = f[Chosen(S)] + SumFunctionOnSet(f, Others(S))
  <2> DEFINE T == Others(S)
  <2>1. T \in SUBSET S /\ IsFiniteSet(T)
    BY FS_Subset DEF Others
  <2> HIDE DEF T
  <2>2. Sums(F(S), f, S) /\ Sums(F(T), f, T)
    BY <1>1, <2>1
  <2>3. F(S)[T] = F(T)[T]
    BY <2>1, <2>2, SumsAgree
  <2>4. F(S)[S] = f[Chosen(S)] + F(S)[T]
    BY <1>3, <2>2, SumsAt DEF T
  <2>5. QED BY <1>1, <2>1, <2>3, <2>4 DEF T
<1>4. QED BY <1>2, <1>3

\* Functions that agree on a set have the same sum over it.
LEMMA SumSame ==
    ASSUME NEW S, IsFiniteSet(S), NEW f, NEW k, \A x \in S : f[x] = k[x]
    PROVE  SumFunctionOnSet(f, S) = SumFunctionOnSet(k, S)
<1> DEFINE F(j) == CHOOSE g : Sums(g, j, S)
<1>1. \A j : Sums(F(j), j, S) /\ SumFunctionOnSet(j, S) = F(j)[S]
  BY SumsExist, SumIsChosen
<1> HIDE DEF F
<1>2. F(f)[S] = F(k)[S]
  BY <1>1, SumsAgree
<1>3. QED BY <1>1, <1>2

\* The sum of f over T is an integer and any element can be taken out of it.
SumsWell(f, T) ==
    /\ SumFunctionOnSet(f, T) \in Int
    /\ \A x \in T : SumFunctionOnSet(f, T) = f[x] + SumFunctionOnSet(f, T \ {x})

\* A finite sum of integers is an integer, and any element can be taken out of it.
LEMMA SumRemove ==
    ASSUME NEW S, IsFiniteSet(S), NEW f, \A x \in S : f[x] \in Int
    PROVE  /\ SumFunctionOnSet(f, S) \in Int
           /\ \A x \in S : SumFunctionOnSet(f, S) = f[x] + SumFunctionOnSet(f, S \ {x})
<1> DEFINE A == {T \in SUBSET S : ~ SumsWell(f, T)}
<1>0. SUFFICES ASSUME A # {} PROVE FALSE
  BY DEF SumsWell
<1>1. PICK T \in SUBSET S :
          /\ ~ SumsWell(f, T)
          /\ \A U \in SUBSET S : U \subseteq T /\ U # T => SumsWell(f, U)
  <2>1. \E T \in A : \A V \in A : V \subseteq T => V = T
    <3> HIDE DEF A
    <3>1. A \subseteq SUBSET S /\ A # {} BY <1>0 DEF A
    <3>2. QED BY <3>1, LeastSubset
  <2>2. QED BY <2>1
<1>2. \A U \in SUBSET S : IsFiniteSet(U)
  BY FS_Subset
<1>3. T # {}
  <2>1. SumFunctionOnSet(f, {}) = 0
    BY SumStep
  <2>2. SumsWell(f, {})
    BY <2>1 DEF SumsWell
  <2>3. QED BY <1>1, <2>2
<1> DEFINE c == Chosen(T)
           R == Others(T)
<1>4. /\ c \in T /\ R = T \ {c} /\ R \in SUBSET S /\ R \subseteq T /\ R # T /\ f[c] \in Int
  BY <1>3, ChosenIsIn DEF Others
<1>5. SumFunctionOnSet(f, T) = f[c] + SumFunctionOnSet(f, R)
  BY <1>2, <1>3, SumStep
<1> HIDE DEF c, R
<1>6. SumsWell(f, R)
  BY <1>1, <1>4
<1>7. ASSUME NEW x \in T PROVE SumFunctionOnSet(f, T) = f[x] + SumFunctionOnSet(f, T \ {x})
  <2>1. CASE x = c
    BY <1>4, <1>5, <2>1
  <2>2. CASE x # c
    <3> DEFINE D == T \ {x}
               B == R \ {x}
    <3>1. x \in R /\ f[x] \in Int
      BY <1>4, <2>2
    <3>2. D \in SUBSET S /\ D \subseteq T /\ D # T /\ c \in D /\ D \ {c} = B
      BY <1>4, <2>2
    <3>3. B \in SUBSET S /\ B \subseteq T /\ B # T
      BY <1>4, <3>2
    <3> HIDE DEF D, B
    <3>4. SumsWell(f, D) /\ SumsWell(f, B)
      BY <1>1, <3>2, <3>3
    <3>5. SumFunctionOnSet(f, D) = f[c] + SumFunctionOnSet(f, B)
      BY <3>2, <3>4 DEF SumsWell
    <3>6. SumFunctionOnSet(f, R) = f[x] + SumFunctionOnSet(f, B)
      BY <1>6, <3>1 DEF B, SumsWell
    <3>7. SumFunctionOnSet(f, T) = f[x] + SumFunctionOnSet(f, D)
      BY <1>4, <1>5, <3>1, <3>4, <3>5, <3>6 DEF SumsWell
    <3>8. QED BY <3>7 DEF D
  <2>3. QED BY <2>1, <2>2
<1>8. SumFunctionOnSet(f, T) \in Int
  BY <1>4, <1>5, <1>6 DEF SumsWell
<1>9. QED BY <1>1, <1>7, <1>8 DEF SumsWell

\* One element more is one summand more.
LEMMA SumAdd ==
    ASSUME NEW S, IsFiniteSet(S), NEW x, x \notin S, NEW f, \A y \in S \cup {x} : f[y] \in Int
    PROVE  SumFunctionOnSet(f, S \cup {x}) = f[x] + SumFunctionOnSet(f, S)
<1>1. IsFiniteSet(S \cup {x}) /\ (S \cup {x}) \ {x} = S
  BY FS_AddElement
<1>2. QED BY <1>1, SumRemove
=============================================================================
