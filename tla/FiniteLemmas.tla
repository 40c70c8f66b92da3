---------------------------- MODULE FiniteLemmas ----------------------------
(***************************************************************************)
(* Facts about finite sets, the recursion behind the folds of the          *)
(* community modules, sums, and strict orders on finite sets.  Induction   *)
(* is stated over sets of subsets, never over an operator.                 *)
(***************************************************************************)
EXTENDS Integers, FiniteSets, Functions, FiniteSetTheorems, TLAPS

-----------------------------------------------------------------------------
(***************************************************************************)
(* Induction.                                                              *)
(***************************************************************************)

\* What holds of a set whenever it holds of its proper subsets holds of every
\* subset of a finite set.
LEMMA SmallerFirst ==
    ASSUME NEW S, IsFiniteSet(S), NEW A,
           \A T \in SUBSET S : (\A U \in SUBSET T : U # T => U \in A) => T \in A
    PROVE  \A T \in SUBSET S : T \in A
<1> DEFINE Bad == {T \in SUBSET S : T \notin A}
           R == StrictSubsetOrdering(S)
<1> SUFFICES ASSUME Bad # {} PROVE FALSE
  OBVIOUS
<1>1. IsWellFoundedOn(R, SUBSET S)
  <2>1. IsWellFoundedOn(R, FiniteSubsetsOf(S))
    BY FS_StrictSubsetOrderingWellFounded
  <2>2. FiniteSubsetsOf(S) = SUBSET S
    BY FS_FiniteSubsetsOfFinite
  <2> QED BY <2>1, <2>2
<1>2. Bad \subseteq SUBSET S
  OBVIOUS
<1>3. PICK T \in Bad : \A U \in Bad : <<U, T>> \notin R
  <2> HIDE DEF Bad, R
  <2> QED BY <1>1, <1>2, WFMin
<1>4. ASSUME NEW U \in SUBSET T, U # T PROVE U \in A
  <2>1. U \in SUBSET S
    OBVIOUS
  <2>2. <<U, T>> \in R
    BY <1>4, <2>1 DEF StrictSubsetOrdering
  <2> QED BY <1>3, <2>1, <2>2
<1> QED BY <1>4

\* Adding the elements one by one.
LEMMA SubsetInduction ==
    ASSUME NEW S, IsFiniteSet(S), NEW A, {} \in A,
           \A T \in SUBSET S : T \in A => \A x \in S \ T : T \cup {x} \in A
    PROVE  S \in A
<1>1. ASSUME NEW T \in SUBSET S, \A U \in SUBSET T : U # T => U \in A
      PROVE  T \in A
  <2>1. CASE T = {}
    BY <2>1
  <2>2. CASE T # {}
    <3>1. PICK x \in T : TRUE
      BY <2>2
    <3>2. T \ {x} \in A /\ T \ {x} \in SUBSET S /\ x \in S \ (T \ {x})
      BY <1>1
    <3>3. (T \ {x}) \cup {x} = T
      OBVIOUS
    <3> QED BY <3>2, <3>3
  <2> QED BY <2>1, <2>2
<1>2. \A T \in SUBSET S : T \in A
  BY <1>1, SmallerFirst
<1> QED BY <1>2

LEMMA NaturalsUpward ==
    ASSUME NEW A, 0 \in A, \A n \in Nat : n \in A => n + 1 \in A
    PROVE  \A n \in Nat : n \in A
<1> DEFINE Bad == {n \in Nat : n \notin A}
           R == OpToRel(<, Nat)
<1> SUFFICES ASSUME Bad # {} PROVE FALSE
  OBVIOUS
<1>1. Bad \subseteq Nat
  OBVIOUS
<1>2. PICK n \in Bad : \A m \in Bad : <<m, n>> \notin R
  <2> HIDE DEF Bad, R
  <2> QED BY <1>1, WFMin, NatLessThanWellFounded DEF R
<1>3. n # 0 /\ n \in Nat
  OBVIOUS
<1>4. n - 1 \in Nat /\ n - 1 < n
  BY <1>3
<1>5. <<n - 1, n>> \in R
  BY <1>3, <1>4 DEF OpToRel
<1>6. n - 1 \in A
  BY <1>2, <1>4, <1>5
<1>7. (n - 1) + 1 \in A
  BY <1>4, <1>6
<1> QED BY <1>3, <1>7

-----------------------------------------------------------------------------
(***************************************************************************)
(* Recursion over the subsets of a finite set, as in MapThenFoldSet: an    *)
(* element is picked, and the rest folded first.                           *)
(***************************************************************************)

IsFold(g, S, pick, step, base) ==
    \A s \in SUBSET S :
        g[s] = IF s = {} THEN base ELSE step[<<pick[s], g[s \ {pick[s]}]>>]

\* A fold that is right for the subsets of at most n elements.
FoldsUpTo(S, V, pick, step, base) ==
    {n \in Nat : \E g \in [SUBSET S -> V] :
        \A s \in SUBSET S : Cardinality(s) <= n =>
            g[s] = IF s = {} THEN base ELSE step[<<pick[s], g[s \ {pick[s]}]>>]}

LEMMA FoldExists ==
    ASSUME NEW S, IsFiniteSet(S), NEW V, NEW base \in V, NEW step \in [S \X V -> V],
           NEW pick, \A s \in SUBSET S : s # {} => pick[s] \in s
    PROVE  \E g \in [SUBSET S -> V] : IsFold(g, S, pick, step, base)
<1> DEFINE A == FoldsUpTo(S, V, pick, step, base)
           Card(s) == Cardinality(s)
<1>1. \A s \in SUBSET S : IsFiniteSet(s) /\ Card(s) \in Nat /\ Card(s) <= Card(S)
  BY FS_Subset, FS_CardinalityType
<1>2. \A s \in SUBSET S : Card(s) = 0 <=> s = {}
  BY <1>1, FS_EmptySet
<1>3. \A s \in SUBSET S : s # {} =>
         s \ {pick[s]} \in SUBSET S /\ Card(s \ {pick[s]}) = Card(s) - 1
  BY <1>1, FS_RemoveElement
<1> HIDE DEF Card
<1>4. 0 \in A
  <2> DEFINE g == [s \in SUBSET S |-> base]
  <2>1. g \in [SUBSET S -> V]
    OBVIOUS
  <2>2. \A s \in SUBSET S : Card(s) <= 0 => s = {} /\ g[s] = base
    BY <1>1, <1>2
  <2> HIDE DEF g
  <2> QED BY <2>1, <2>2 DEF FoldsUpTo, Card
<1>5. ASSUME NEW n \in Nat, n \in A PROVE n + 1 \in A
  <2>1. PICK h \in [SUBSET S -> V] :
           \A s \in SUBSET S : Card(s) <= n =>
               h[s] = IF s = {} THEN base ELSE step[<<pick[s], h[s \ {pick[s]}]>>]
    BY <1>5 DEF FoldsUpTo, Card
  <2> DEFINE g == [s \in SUBSET S |-> IF Card(s) <= n THEN h[s]
                                      ELSE step[<<pick[s], h[s \ {pick[s]}]>>]]
  <2>2. ASSUME NEW s \in SUBSET S, ~ Card(s) <= n
        PROVE  step[<<pick[s], h[s \ {pick[s]}]>>] \in V
    BY <1>1, <1>2, <1>3, <2>2
  <2>3. g \in [SUBSET S -> V]
    BY <2>2
  <2>4. \A s \in SUBSET S : g[s] = IF Card(s) <= n THEN h[s]
                                   ELSE step[<<pick[s], h[s \ {pick[s]}]>>]
    OBVIOUS
  <2> HIDE DEF g
  <2>5. ASSUME NEW s \in SUBSET S, Card(s) <= n + 1
        PROVE  g[s] = IF s = {} THEN base ELSE step[<<pick[s], g[s \ {pick[s]}]>>]
    <3>1. CASE s = {}
      <4>1. Card(s) = 0 /\ 0 <= n
        BY <3>1, <1>2
      <4>2. g[s] = h[s] /\ h[s] = base
        BY <3>1, <4>1, <2>1, <2>4
      <4> QED BY <3>1, <4>2
    <3>2. CASE s # {}
      <4>1. Card(s \ {pick[s]}) <= n /\ s \ {pick[s]} \in SUBSET S
        BY <3>2, <1>1, <1>3, <2>5
      <4>2. g[s \ {pick[s]}] = h[s \ {pick[s]}]
        BY <4>1, <2>4
      <4> QED BY <3>2, <4>2, <2>1, <2>4
    <3> QED BY <3>1, <3>2
  <2>6. n + 1 \in Nat
    OBVIOUS
  <2> QED BY <2>3, <2>5, <2>6 DEF FoldsUpTo, Card
<1>6. Card(S) \in A
  <2>1. \A n \in Nat : n \in A
    <3> HIDE DEF A
    <3> QED BY <1>4, <1>5, NaturalsUpward
  <2> QED BY <2>1, <1>1
<1> QED BY <1>1, <1>6 DEF FoldsUpTo, IsFold, Card

-----------------------------------------------------------------------------
(***************************************************************************)
(* Sums.                                                                   *)
(***************************************************************************)

Picked(s) == CHOOSE x \in s : TRUE

SumsOf(w, S) ==
    CHOOSE g : g = [s \in SUBSET S |->
                       IF s = {} THEN 0 ELSE w[CHOOSE x \in s : TRUE] + g[s \ {CHOOSE x \in s : TRUE}]]

LEMMA SumIsFold == \A w, S : SumFunctionOnSet(w, S) = SumsOf(w, S)[S]
  BY DEF SumFunctionOnSet, FoldFunctionOnSet, MapThenFoldSet, SumsOf

LEMMA SumsExist ==
    ASSUME NEW S, IsFiniteSet(S), NEW w, \A x \in S : w[x] \in Int
    PROVE  /\ SumsOf(w, S) \in [SUBSET S -> Int]
           /\ SumsOf(w, S)[{}] = 0
           /\ \A s \in SUBSET S : s # {} =>
                 Picked(s) \in s /\ SumsOf(w, S)[s] = w[Picked(s)] + SumsOf(w, S)[s \ {Picked(s)}]
<1> DEFINE pick == [s \in SUBSET S |-> Picked(s)]
           step == [p \in S \X Int |-> w[p[1]] + p[2]]
<1>1. \A s \in SUBSET S : s # {} => Picked(s) \in s /\ pick[s] = Picked(s) /\ pick[s] \in s
  BY DEF Picked
<1>2. step \in [S \X Int -> Int]
  OBVIOUS
<1>3. \A x \in S, v \in Int : step[<<x, v>>] = w[x] + v
  OBVIOUS
<1>a. \A s \in SUBSET S : s # {} => pick[s] \in s
  BY <1>1
<1> HIDE DEF pick, step
<1>4. PICK g \in [SUBSET S -> Int] : IsFold(g, S, pick, step, 0)
  <2>1. 0 \in Int
    OBVIOUS
  <2> QED BY <2>1, <1>2, <1>a, FoldExists
<1>5. \A s \in SUBSET S : g[s] = IF s = {} THEN 0 ELSE w[Picked(s)] + g[s \ {Picked(s)}]
  BY <1>1, <1>3, <1>4 DEF IsFold
<1>6. g = [s \in SUBSET S |-> IF s = {} THEN 0 ELSE w[Picked(s)] + g[s \ {Picked(s)}]]
  BY <1>5
<1> DEFINE G == SumsOf(w, S)
<1>7. G = [s \in SUBSET S |-> IF s = {} THEN 0 ELSE w[Picked(s)] + G[s \ {Picked(s)}]]
  BY <1>6 DEF SumsOf, Picked
<1> HIDE DEF G
<1>8. G[{}] = 0 /\ \A s \in SUBSET S : s # {} => G[s] = w[Picked(s)] + G[s \ {Picked(s)}]
  BY <1>7
<1>9. \A s \in SUBSET S : G[s] \in Int
  <2> DEFINE A == {s \in SUBSET S : G[s] \in Int}
  <2>1. ASSUME NEW T \in SUBSET S, \A U \in SUBSET T : U # T => U \in A
        PROVE  T \in A
    <3>1. CASE T = {}
      BY <3>1, <1>8
    <3>2. CASE T # {}
      <4>1. T \ {Picked(T)} \in A /\ Picked(T) \in S
        <5>1. Picked(T) \in T /\ T \ {Picked(T)} \in SUBSET T /\ T \ {Picked(T)} # T
          BY <3>2, <1>1
        <5> QED BY <5>1, <2>1
      <4>2. G[T \ {Picked(T)}] \in Int /\ w[Picked(T)] \in Int
        BY <4>1
      <4>3. G[T] = w[Picked(T)] + G[T \ {Picked(T)}]
        BY <3>2, <1>8
      <4>4. G[T] \in Int
        BY <4>2, <4>3
      <4> QED BY <4>4
    <3> QED BY <3>1, <3>2
  <2>2. \A T \in SUBSET S : T \in A
    <3> HIDE DEF A
    <3> QED BY <2>1, SmallerFirst
  <2> QED BY <2>2
<1> QED BY <1>1, <1>7, <1>8, <1>9 DEF G

\* The sums over the subsets of a set do not depend on the set.
LEMMA SumsAgree ==
    ASSUME NEW S, IsFiniteSet(S), NEW w, \A x \in S : w[x] \in Int,
           NEW v, \A x \in S : v[x] = w[x], NEW T \in SUBSET S
    PROVE  SumsOf(v, T)[T] = SumsOf(w, S)[T]
<1> DEFINE G == SumsOf(w, S)
           H == SumsOf(v, T)
           A == {s \in SUBSET T : H[s] = G[s]}
<1>1. IsFiniteSet(T) /\ \A x \in T : v[x] \in Int
  BY FS_Subset
<1>2. G[{}] = 0 /\ \A s \in SUBSET S : s # {} => Picked(s) \in s /\ G[s] = w[Picked(s)] + G[s \ {Picked(s)}]
  BY SumsExist
<1>3. H[{}] = 0 /\ \A s \in SUBSET T : s # {} => Picked(s) \in s /\ H[s] = v[Picked(s)] + H[s \ {Picked(s)}]
  BY <1>1, SumsExist
<1> HIDE DEF G, H
<1>4. ASSUME NEW s \in SUBSET T, \A U \in SUBSET s : U # s => U \in A
      PROVE  s \in A
  <2>1. CASE s = {}
    BY <2>1, <1>2, <1>3
  <2>2. CASE s # {}
    <3>1. Picked(s) \in s /\ s \ {Picked(s)} \in SUBSET s /\ s \ {Picked(s)} # s /\ s \in SUBSET S
      BY <2>2, <1>3
    <3>2. H[s \ {Picked(s)}] = G[s \ {Picked(s)}]
      BY <3>1, <1>4
    <3>3. v[Picked(s)] = w[Picked(s)]
      BY <3>1
    <3>4. H[s] = v[Picked(s)] + H[s \ {Picked(s)}] /\ G[s] = w[Picked(s)] + G[s \ {Picked(s)}]
      BY <2>2, <3>1, <1>2, <1>3
    <3> QED BY <3>2, <3>3, <3>4
  <2> QED BY <2>1, <2>2
<1>5. \A s \in SUBSET T : s \in A
  <2> HIDE DEF A
  <2> QED BY <1>1, <1>4, SmallerFirst
<1> QED BY <1>5 DEF G, H

LEMMA SumEmpty == \A w : SumFunctionOnSet(w, {}) = 0
<1> TAKE w
<1>1. IsFiniteSet({})
  BY FS_EmptySet
<1>2. SumsOf(w, {})[{}] = 0
  BY <1>1, SumsExist
<1> QED BY <1>2, SumIsFold

LEMMA SumType ==
    ASSUME NEW S, IsFiniteSet(S), NEW w, \A x \in S : w[x] \in Int
    PROVE  SumFunctionOnSet(w, S) \in Int
<1>1. SumsOf(w, S) \in [SUBSET S -> Int] /\ S \in SUBSET S
  BY SumsExist
<1>2. SumsOf(w, S)[S] \in Int
  BY <1>1
<1> QED BY <1>2, SumIsFold

LEMMA SumSame ==
    ASSUME NEW S, IsFiniteSet(S), NEW w, NEW v, \A x \in S : w[x] \in Int /\ v[x] = w[x]
    PROVE  SumFunctionOnSet(v, S) = SumFunctionOnSet(w, S)
  BY SumsAgree, SumIsFold

\* Any element may be taken out first.
LEMMA SumRemove ==
    ASSUME NEW S, IsFiniteSet(S), NEW w, \A x \in S : w[x] \in Int, NEW x \in S
    PROVE  SumFunctionOnSet(w, S) = w[x] + SumFunctionOnSet(w, S \ {x})
<1> DEFINE G == SumsOf(w, S)
           A == {T \in SUBSET S : \A y \in T : G[T] = w[y] + G[T \ {y}]}
<1>1. /\ G \in [SUBSET S -> Int]
      /\ \A s \in SUBSET S : s # {} => Picked(s) \in s /\ G[s] = w[Picked(s)] + G[s \ {Picked(s)}]
  BY SumsExist
<1>2. \A T \in SUBSET S : SumFunctionOnSet(w, T) = G[T]
  BY SumsAgree, SumIsFold
<1> HIDE DEF G
<1>3. ASSUME NEW T \in SUBSET S, \A U \in SUBSET T : U # T => U \in A
      PROVE  T \in A
  <2> SUFFICES ASSUME NEW y \in T PROVE G[T] = w[y] + G[T \ {y}]
    OBVIOUS
  <2> DEFINE p == Picked(T)
  <2>1. p \in T /\ G[T] = w[p] + G[T \ {p}]
    BY <1>1
  <2> HIDE DEF p
  <2>2. CASE y = p
    BY <2>1, <2>2
  <2>3. CASE y # p
    <3>1. T \ {p} \in A /\ T \ {y} \in A
      <4>1. T \ {p} \in SUBSET T /\ T \ {p} # T /\ T \ {y} \in SUBSET T /\ T \ {y} # T
        BY <2>1
      <4> QED BY <4>1, <1>3
    <3>2. G[T \ {p}] = w[y] + G[(T \ {p}) \ {y}]
      BY <3>1, <2>3
    <3>3. G[T \ {y}] = w[p] + G[(T \ {y}) \ {p}]
      BY <3>1, <2>1, <2>3
    <3>4. (T \ {p}) \ {y} = (T \ {y}) \ {p} /\ (T \ {p}) \ {y} \in SUBSET S
      OBVIOUS
    <3>5. w[p] \in Int /\ w[y] \in Int /\ G[(T \ {p}) \ {y}] \in Int
      BY <1>1, <2>1, <3>4
    <3>6. G[T] = w[p] + (w[y] + G[(T \ {p}) \ {y}])
      BY <2>1, <3>2
    <3>7. G[T \ {y}] = w[p] + G[(T \ {p}) \ {y}]
      BY <3>3, <3>4
    <3> QED BY <3>5, <3>6, <3>7
  <2> QED BY <2>2, <2>3
<1>4. S \in A
  <2>1. \A T \in SUBSET S : T \in A
    <3> HIDE DEF A
    <3> QED BY <1>3, SmallerFirst
  <2> QED BY <2>1
<1>5. G[S] = w[x] + G[S \ {x}]
  BY <1>4
<1> QED BY <1>2, <1>5

LEMMA SumAdd ==
    ASSUME NEW T, IsFiniteSet(T), NEW x, x \notin T, NEW w, \A y \in T \cup {x} : w[y] \in Int
    PROVE  /\ IsFiniteSet(T \cup {x})
           /\ SumFunctionOnSet(w, T \cup {x}) = w[x] + SumFunctionOnSet(w, T)
<1>1. IsFiniteSet(T \cup {x}) /\ x \in T \cup {x} /\ (T \cup {x}) \ {x} = T
  BY FS_AddElement
<1> QED BY <1>1, SumRemove

\* A sum of naturals is bounded by a multiple of another when every summand is.
LEMMA SumBetween ==
    ASSUME NEW S, IsFiniteSet(S), NEW w, NEW v, NEW c \in Nat,
           \A x \in S : w[x] \in Nat /\ v[x] \in Nat /\ w[x] <= c * v[x]
    PROVE  /\ SumFunctionOnSet(w, S) \in Nat /\ SumFunctionOnSet(v, S) \in Nat
           /\ SumFunctionOnSet(w, S) <= c * SumFunctionOnSet(v, S)
<1> DEFINE W(T) == SumFunctionOnSet(w, T)
           V(T) == SumFunctionOnSet(v, T)
           A == {T \in SUBSET S : W(T) \in Nat /\ V(T) \in Nat /\ W(T) <= c * V(T)}
<1>1. ASSUME NEW T \in SUBSET S, NEW x \in S \ T
      PROVE  W(T \cup {x}) = w[x] + W(T) /\ V(T \cup {x}) = v[x] + V(T)
  <2>1. T \cup {x} \in SUBSET S /\ x \in T \cup {x} /\ (T \cup {x}) \ {x} = T
    OBVIOUS
  <2>2. IsFiniteSet(T \cup {x})
    BY <2>1, FS_Subset
  <2>3. \A y \in T \cup {x} : w[y] \in Int /\ v[y] \in Int
    BY <2>1
  <2> QED BY <2>1, <2>2, <2>3, SumRemove
<1>2. W({}) = 0 /\ V({}) = 0
  BY SumEmpty
<1> HIDE DEF W, V
<1>3. {} \in A
  BY <1>2
<1>4. ASSUME NEW T \in SUBSET S, T \in A, NEW x \in S \ T PROVE T \cup {x} \in A
  <2>1. W(T) \in Nat /\ V(T) \in Nat /\ W(T) <= c * V(T)
    BY <1>4
  <2>2. w[x] \in Nat /\ v[x] \in Nat /\ w[x] <= c * v[x]
    OBVIOUS
  <2>3. c * (v[x] + V(T)) = c * v[x] + c * V(T)
    BY <2>1, <2>2
  <2>4. c * v[x] \in Nat /\ c * V(T) \in Nat
    BY <2>1, <2>2
  <2>5. w[x] + W(T) <= c * (v[x] + V(T))
    BY <2>1, <2>2, <2>3, <2>4
  <2>6. W(T \cup {x}) = w[x] + W(T) /\ V(T \cup {x}) = v[x] + V(T)
    BY <1>1
  <2>7. w[x] + W(T) \in Nat /\ v[x] + V(T) \in Nat
    BY <2>1, <2>2
  <2> QED BY <2>5, <2>6, <2>7
<1>5. S \in A
  <2> HIDE DEF A
  <2> QED BY <1>3, <1>4, SubsetInduction
<1> QED BY <1>5 DEF W, V

\* A sum of naturals grows with the set.
LEMMA SumGrows ==
    ASSUME NEW S, IsFiniteSet(S), NEW w, \A x \in S : w[x] \in Nat, NEW T \in SUBSET S
    PROVE  SumFunctionOnSet(w, T) <= SumFunctionOnSet(w, S)
<1> DEFINE W(U) == SumFunctionOnSet(w, U)
           A == {U \in SUBSET (S \ T) : W(T) <= W(T \cup U)}
<1>0. IsFiniteSet(S \ T)
  BY FS_Subset
<1>1. ASSUME NEW U \in SUBSET S PROVE W(U) \in Int
  <2>1. IsFiniteSet(U) /\ \A x \in U : w[x] \in Int
    BY FS_Subset
  <2> QED BY <2>1, SumType
<1>2. ASSUME NEW U \in SUBSET S, NEW x \in S \ U PROVE W(U \cup {x}) = w[x] + W(U)
  <2>1. U \cup {x} \in SUBSET S /\ x \in U \cup {x} /\ (U \cup {x}) \ {x} = U
    OBVIOUS
  <2>2. IsFiniteSet(U \cup {x})
    BY <2>1, FS_Subset
  <2>3. \A y \in U \cup {x} : w[y] \in Int
    BY <2>1
  <2> QED BY <2>1, <2>2, <2>3, SumRemove
<1> HIDE DEF W
<1>3. {} \in A
  <2>1. T \cup {} = T /\ W(T) \in Int
    BY <1>1
  <2>2. W(T) <= W(T \cup {})
    BY <2>1
  <2> QED BY <2>2
<1>4. ASSUME NEW U \in SUBSET (S \ T), U \in A, NEW x \in (S \ T) \ U PROVE U \cup {x} \in A
  <2>1. T \cup U \in SUBSET S /\ x \in S \ (T \cup U) /\ T \cup (U \cup {x}) = (T \cup U) \cup {x}
    OBVIOUS
  <2>2. W(T \cup (U \cup {x})) = w[x] + W(T \cup U)
    BY <2>1, <1>2
  <2>3. W(T) <= W(T \cup U) /\ W(T) \in Int /\ W(T \cup U) \in Int /\ w[x] \in Nat
    BY <1>1, <1>4, <2>1
  <2> QED BY <2>2, <2>3
<1>5. S \ T \in A
  <2> HIDE DEF A
  <2> QED BY <1>0, <1>3, <1>4, SubsetInduction
<1>6. T \cup (S \ T) = S
  OBVIOUS
<1>7. W(T) <= W(S)
  BY <1>5, <1>6
<1> QED BY <1>7 DEF W

-----------------------------------------------------------------------------
(***************************************************************************)
(* Strict orders on a finite set: the place of an element is the number of *)
(* elements before it.                                                     *)
(***************************************************************************)

IsOrder(R, S) ==
    /\ \A x \in S : <<x, x>> \notin R
    /\ \A x, y, z \in S : <<x, y>> \in R /\ <<y, z>> \in R => <<x, z>> \in R
    /\ \A x, y \in S : x # y => <<x, y>> \in R \/ <<y, x>> \in R

Before(R, S, x) == {y \in S : <<y, x>> \in R}

LEMMA FirstExists ==
    ASSUME NEW S, IsFiniteSet(S), S # {}, NEW R, IsOrder(R, S)
    PROVE  \E x \in S : \A y \in S \ {x} : <<x, y>> \in R
<1> DEFINE A == {T \in SUBSET S : T = {} \/ \E x \in T : \A y \in T \ {x} : <<x, y>> \in R}
<1>1. {} \in A
  OBVIOUS
<1>2. ASSUME NEW T \in SUBSET S, T \in A, NEW x \in S \ T PROVE T \cup {x} \in A
  <2>1. CASE T = {}
    BY <2>1
  <2>2. CASE T # {}
    <3>1. PICK f \in T : \A y \in T \ {f} : <<f, y>> \in R
      BY <1>2, <2>2
    <3>2. f # x /\ f \in S
      OBVIOUS
    <3>3. CASE <<f, x>> \in R
      <4>1. \A y \in (T \cup {x}) \ {f} : <<f, y>> \in R
        BY <3>1, <3>3
      <4> QED BY <4>1
    <3>4. CASE <<x, f>> \in R
      <4>1. \A y \in (T \cup {x}) \ {x} : <<x, y>> \in R
        BY <3>1, <3>2, <3>4 DEF IsOrder
      <4> QED BY <4>1
    <3> QED BY <3>2, <3>3, <3>4 DEF IsOrder
  <2> QED BY <2>1, <2>2
<1>3. S \in A
  <2> HIDE DEF A
  <2> QED BY <1>1, <1>2, SubsetInduction
<1> QED BY <1>3

LEMMA PlacesOrdered ==
    ASSUME NEW S, IsFiniteSet(S), NEW R, IsOrder(R, S)
    PROVE  /\ \A x \in S : Cardinality(Before(R, S, x)) \in 0 .. Cardinality(S) - 1
           /\ \A x, y \in S : <<x, y>> \in R =>
                 Cardinality(Before(R, S, x)) < Cardinality(Before(R, S, y))
<1>1. \A x \in S : Before(R, S, x) \in SUBSET S /\ x \notin Before(R, S, x)
  BY DEF Before, IsOrder
<1>2. \A T \in SUBSET S : /\ IsFiniteSet(T) /\ Cardinality(T) \in Nat
                          /\ \A x \in S \ T : Cardinality(T \cup {x}) = Cardinality(T) + 1
                          /\ \A U \in SUBSET T : Cardinality(U) <= Cardinality(T)
  BY FS_Subset, FS_CardinalityType, FS_AddElement
<1>3. ASSUME NEW x \in S
      PROVE  Cardinality(Before(R, S, x)) \in 0 .. Cardinality(S) - 1
  <2>1. Before(R, S, x) \cup {x} \in SUBSET S /\ S \in SUBSET S
    BY <1>1
  <2>2. Cardinality(Before(R, S, x) \cup {x}) = Cardinality(Before(R, S, x)) + 1
    BY <1>1, <1>2
  <2>3. Cardinality(Before(R, S, x) \cup {x}) <= Cardinality(S)
    BY <1>2, <2>1
  <2>4. Cardinality(S) \in Nat /\ Cardinality(Before(R, S, x)) \in Nat
    BY <1>1, <1>2, <2>1
  <2> QED BY <2>2, <2>3, <2>4
<1>4. ASSUME NEW x \in S, NEW y \in S, <<x, y>> \in R
      PROVE  Cardinality(Before(R, S, x)) < Cardinality(Before(R, S, y))
  <2>1. Before(R, S, x) \cup {x} \in SUBSET Before(R, S, y)
    BY <1>4 DEF Before, IsOrder
  <2>2. Cardinality(Before(R, S, x) \cup {x}) = Cardinality(Before(R, S, x)) + 1
    BY <1>1, <1>2
  <2>3. Cardinality(Before(R, S, x) \cup {x}) <= Cardinality(Before(R, S, y))
    BY <1>1, <1>2, <2>1
  <2>4. Cardinality(Before(R, S, y)) \in Nat /\ Cardinality(Before(R, S, x)) \in Nat
    BY <1>1, <1>2
  <2> QED BY <2>2, <2>3, <2>4
<1> QED BY <1>3, <1>4

\* Every place is the place of exactly one element.
LEMMA PlacesTaken ==
    ASSUME NEW S, IsFiniteSet(S), NEW R, IsOrder(R, S)
    PROVE  /\ \A n \in 0 .. Cardinality(S) - 1 :
                 \E x \in S : Cardinality(Before(R, S, x)) = n
           /\ \A x, y \in S :
                 Cardinality(Before(R, S, x)) = Cardinality(Before(R, S, y)) => x = y
<1> DEFINE N == Cardinality(S)
           place == [x \in S |-> Cardinality(Before(R, S, x))]
<1>1. N \in Nat
  BY FS_CardinalityType
<1>2. \A x \in S : place[x] \in 0 .. N - 1
  BY PlacesOrdered
<1>3. \A x, y \in S : <<x, y>> \in R => place[x] < place[y]
  BY PlacesOrdered
<1>4. place \in Injection(S, 0 .. N - 1)
  <2>1. ASSUME NEW x \in S, NEW y \in S, place[x] = place[y] PROVE x = y
    <3> SUFFICES ASSUME x # y PROVE FALSE
      OBVIOUS
    <3>1. <<x, y>> \in R \/ <<y, x>> \in R
      BY DEF IsOrder
    <3> HIDE DEF place, N
    <3>2. place[x] \in Int /\ place[y] \in Int
      BY <1>1, <1>2
    <3> QED BY <3>1, <3>2, <1>3, <2>1
  <2>2. place \in [S -> 0 .. N - 1]
    <3> HIDE DEF N
    <3>1. \A x \in S : Cardinality(Before(R, S, x)) \in 0 .. N - 1
      BY <1>2
    <3> QED BY <3>1
  <2> HIDE DEF place, N
  <2> QED BY <2>1, <2>2 DEF Injection, IsInjective
<1>5. IsFiniteSet(0 .. N - 1) /\ Cardinality(0 .. N - 1) = N
  <2> HIDE DEF N
  <2>1. 0 \in Int /\ N - 1 \in Int
    BY <1>1
  <2>2. IsFiniteSet(0 .. N - 1) /\ Cardinality(0 .. N - 1) = IF 0 > N - 1 THEN 0 ELSE N - 1 - 0 + 1
    BY <2>1, FS_Interval
  <2> QED BY <1>1, <2>2
<1>6. place \in Surjection(S, 0 .. N - 1)
  BY <1>4, <1>5, FS_Injection
<1>7. \A n \in 0 .. N - 1 : \E x \in S : place[x] = n
  <2> HIDE DEF place
  <2> QED BY <1>6 DEF Surjection
<1>8. \A x, y \in S : place[x] = place[y] => x = y
  <2> HIDE DEF place, N
  <2> QED BY <1>4 DEF Injection, IsInjective
<1> QED BY <1>7, <1>8

\* Listing a finite set by place is sorting it.
LEMMA Sorted ==
    ASSUME NEW S, IsFiniteSet(S), NEW R, IsOrder(R, S), NEW L,
           \A n \in 1 .. Cardinality(S) : \A x \in S :
              Cardinality(Before(R, S, x)) = n - 1
                 => L[n] \in S /\ Cardinality(Before(R, S, L[n])) = n - 1
    PROVE  /\ \A i \in 1 .. Cardinality(S) : L[i] \in S
           /\ \A x \in S : \E i \in 1 .. Cardinality(S) : L[i] = x
           /\ \A i, j \in 1 .. Cardinality(S) : i < j => <<L[i], L[j]>> \in R /\ L[i] # L[j]
<1> DEFINE N == Cardinality(S)
           place == [x \in S |-> Cardinality(Before(R, S, x))]
<1>1. N \in Nat
  BY FS_CardinalityType
<1>2. \A x \in S : place[x] \in 0 .. N - 1
  BY PlacesOrdered
<1>3. \A x, y \in S : <<x, y>> \in R => place[x] < place[y]
  BY PlacesOrdered
<1>4. \A n \in 0 .. N - 1 : \E x \in S : place[x] = n
  BY PlacesTaken
<1>5. \A x, y \in S : place[x] = place[y] => x = y
  BY PlacesTaken
<1>6. ASSUME NEW n \in 1 .. N
      PROVE  L[n] \in S /\ place[L[n]] = n - 1
  <2> HIDE DEF N
  <2>1. n - 1 \in 0 .. N - 1
    BY <1>1
  <2>2. \E x \in S : place[x] = n - 1
    <3> HIDE DEF place
    <3> QED BY <2>1, <1>4
  <2>3. \A x \in S : place[x] = n - 1 => L[n] \in S /\ place[L[n]] = n - 1
    BY DEF N
  <2> HIDE DEF place
  <2> QED BY <2>2, <2>3
<1> HIDE DEF place, N
<1>7. ASSUME NEW x \in S PROVE \E i \in 1 .. N : L[i] = x
  <2>1. place[x] + 1 \in 1 .. N
    BY <1>1, <1>2
  <2>2. place[x] \in Int /\ (place[x] + 1) - 1 = place[x]
    BY <1>1, <1>2
  <2>3. L[place[x] + 1] \in S /\ place[L[place[x] + 1]] = (place[x] + 1) - 1
    BY <2>1, <1>6
  <2>4. L[place[x] + 1] = x
    BY <2>2, <2>3, <1>5
  <2> QED BY <2>1, <2>4
<1>8. ASSUME NEW i \in 1 .. N, NEW j \in 1 .. N, i < j
      PROVE  <<L[i], L[j]>> \in R /\ L[i] # L[j]
  <2>1. place[L[i]] < place[L[j]] /\ place[L[i]] \in Int /\ place[L[j]] \in Int
    <3>1. place[L[i]] = i - 1 /\ place[L[j]] = j - 1
      BY <1>6
    <3> QED BY <1>8, <3>1
  <2>2. L[i] # L[j] /\ L[i] \in S /\ L[j] \in S
    <3>1. L[i] \in S /\ L[j] \in S
      BY <1>6
    <3>2. L[i] # L[j]
      BY <2>1
    <3> QED BY <3>1, <3>2
  <2>3. <<L[j], L[i]>> \notin R
    <3> SUFFICES ASSUME <<L[j], L[i]>> \in R PROVE FALSE
      OBVIOUS
    <3>1. place[L[j]] < place[L[i]]
      BY <1>3, <2>2
    <3> QED BY <3>1, <2>1
  <2> QED BY <2>2, <2>3 DEF IsOrder
<1> QED BY <1>6, <1>7, <1>8 DEF N

\* No more than k elements have fewer than k before them.
LEMMA FewFirst ==
    ASSUME NEW S, IsFiniteSet(S), NEW R, IsOrder(R, S), NEW k \in Nat
    PROVE  Cardinality({x \in S : Cardinality(Before(R, S, x)) < k}) <= k
<1> DEFINE F == {x \in S : Cardinality(Before(R, S, x)) < k}
           place == [x \in F |-> Cardinality(Before(R, S, x))]
<1>1. \A x \in S : Cardinality(Before(R, S, x)) \in Nat
  <2>1. Cardinality(S) \in Nat
    BY FS_CardinalityType
  <2> QED BY <2>1, PlacesOrdered
<1>2. place \in [F -> 0 .. k - 1]
  BY <1>1
<1>3. ASSUME NEW x \in F, NEW y \in F, place[x] = place[y] PROVE x = y
  <2> SUFFICES ASSUME x # y PROVE FALSE
    OBVIOUS
  <2>1. x \in S /\ y \in S
    OBVIOUS
  <2>2. <<x, y>> \in R \/ <<y, x>> \in R
    BY <2>1 DEF IsOrder
  <2>3. \/ Cardinality(Before(R, S, x)) < Cardinality(Before(R, S, y))
        \/ Cardinality(Before(R, S, y)) < Cardinality(Before(R, S, x))
    BY <2>1, <2>2, PlacesOrdered
  <2> QED BY <1>1, <1>3, <2>1, <2>3
<1>4. place \in Injection(F, 0 .. k - 1)
  <2> HIDE DEF place, F
  <2> QED BY <1>2, <1>3 DEF Injection, IsInjective
<1>5. IsFiniteSet(0 .. k - 1) /\ Cardinality(0 .. k - 1) = k
  <2>1. 0 \in Int /\ k - 1 \in Int
    OBVIOUS
  <2>2. IsFiniteSet(0 .. k - 1) /\ Cardinality(0 .. k - 1) = IF 0 > k - 1 THEN 0 ELSE k - 1 - 0 + 1
    BY <2>1, FS_Interval
  <2> QED BY <2>2
<1> QED BY <1>4, <1>5, FS_Injection

=============================================================================
