------------------------------ MODULE FiniteSums ------------------------------
(***************************************************************************)
(* What the proofs need of sums over finite sets.  The definition of       *)
(* MapThenSumSet in the community modules recurses over the subsets of its *)
(* set and takes out an element of its own choice; here it is shown that a *)
(* sum does not depend on that choice, and how it changes with its terms.  *)
(*                                                                         *)
(* The library's induction theorems take the induction hypothesis as an    *)
(* operator.  A smallest counterexample, which is an element of a set,     *)
(* serves instead.                                                         *)
(***************************************************************************)
EXTENDS Integers, FiniteSetsExt, FiniteSetTheorems, WellFoundedInduction, TLAPS

(* Every set of natural numbers has a least element.                       *)
LEMMA LeastNat ==
    ASSUME NEW T \in SUBSET Nat, T # {}
    PROVE  \E n \in T : \A m \in T : n <= m
<1>1. PICK n \in T : \A m \in T : <<m, n>> \notin OpToRel(<, Nat)
  BY NatLessThanWellFounded, WFMin
<1>2. n \in T
  BY <1>1, Zenon
<1>3. \A m \in T : n <= m
  <2> SUFFICES ASSUME NEW m \in T, m < n PROVE FALSE
    BY <1>2
  <2>1. m \in Nat /\ n \in Nat
    BY <1>2
  <2>2. <<m, n>> \in OpToRel(<, Nat)
    BY <2>1, Zenon DEF OpToRel
  <2> QED BY <1>1, <2>2, Zenon
<1> QED BY <1>2, <1>3

(* Among subsets of a finite set one contains none of the others.          *)
LEMMA LeastSet ==
    ASSUME NEW S, IsFiniteSet(S), NEW C \in SUBSET SUBSET S, C # {}
    PROVE  \E A \in C : \A B \in C : B \subseteq A => B = A
<1>1. C \subseteq FiniteSubsetsOf(S)
  BY FS_FiniteSubsetsOfFinite
<1>2. PICK A \in C : \A B \in C : <<B, A>> \notin StrictSubsetOrdering(S)
  BY <1>1, FS_StrictSubsetOrderingWellFounded, WFMin
<1>3. \A B \in C : B \subseteq A => B = A
  <2> SUFFICES ASSUME NEW B \in C, B \subseteq A, B # A PROVE FALSE
    OBVIOUS
  <2>1. <<B, A>> \in StrictSubsetOrdering(S)
    BY DEF StrictSubsetOrdering
  <2> QED BY <1>2, <2>1
<1> QED BY <1>3

-----------------------------------------------------------------------------
SumOver(f, A) == MapThenSumSet(LAMBDA x : f[x], A)

\* The element the definition takes out of s first.
First(s) == CHOOSE x \in s : TRUE

\* g gives the sums of f over the subsets of S.
Adds(g, f, S) == g = [s \in SUBSET S |-> IF s = {} THEN 0 ELSE f[First(s)] + g[s \ {First(s)}]]

LEMMA SumIsChosen ==
    ASSUME NEW f, NEW A
    PROVE  SumOver(f, A) = (CHOOSE g : Adds(g, f, A))[A]
BY DEF SumOver, MapThenSumSet, MapThenFoldSet, Adds, First

LEMMA FirstIn == ASSUME NEW s, s # {} PROVE First(s) \in s
BY DEF First

(* The sums over the subsets of at most n elements, n after n.             *)
Layer(S, n) == {s \in SUBSET S : Cardinality(s) <= n}

AddsLayer(g, f, S, n) ==
    /\ g \in [Layer(S, n) -> Int]
    /\ \A s \in Layer(S, n) : g[s] = IF s = {} THEN 0 ELSE f[First(s)] + g[s \ {First(s)}]

LEMMA LayerDown ==
    ASSUME NEW S, IsFiniteSet(S), NEW n \in Nat, NEW s \in Layer(S, n + 1), s # {}
    PROVE  s \ {First(s)} \in Layer(S, n)
<1>1. IsFiniteSet(s) /\ First(s) \in s
  BY FS_Subset, FirstIn DEF Layer
<1>2. Cardinality(s \ {First(s)}) = Cardinality(s) - 1 /\ Cardinality(s) \in Nat
  BY <1>1, FS_RemoveElement, FS_CardinalityType
<1> QED BY <1>2 DEF Layer

LEMMA LayersAdd ==
    ASSUME NEW S, IsFiniteSet(S), NEW f \in [S -> Int], NEW n \in Nat
    PROVE  \E g : AddsLayer(g, f, S, n)
<1> DEFINE T == {m \in Nat : ~ \E g : AddsLayer(g, f, S, m)}
<1> SUFFICES ASSUME T # {} PROVE FALSE
    OBVIOUS
<1>1. PICK m \in T : \A k \in T : m <= k
  BY LeastNat
<1>2. m # 0
  <2> SUFFICES ASSUME m = 0 PROVE \E g : AddsLayer(g, f, S, 0)
      OBVIOUS
  <2>1. \A s \in Layer(S, 0) : s = {}
    <3> SUFFICES ASSUME NEW s \in Layer(S, 0) PROVE s = {}
        OBVIOUS
    <3>1. IsFiniteSet(s) /\ Cardinality(s) <= 0
      BY FS_Subset DEF Layer
    <3>2. Cardinality(s) \in Nat
      BY <3>1, FS_CardinalityType
    <3> QED BY <3>1, <3>2, FS_EmptySet
  <2> DEFINE g == [s \in Layer(S, 0) |-> 0]
  <2>2. AddsLayer(g, f, S, 0)
    BY <2>1 DEF AddsLayer
  <2> QED BY <2>2
<1>3. m - 1 \in Nat /\ m - 1 \notin T
  BY <1>1, <1>2
<1>4. PICK h : AddsLayer(h, f, S, m - 1)
  BY <1>3
<1> DEFINE g == [s \in Layer(S, m) |-> IF s = {} THEN 0 ELSE f[First(s)] + h[s \ {First(s)}]]
<1>5. ASSUME NEW s \in Layer(S, m), s # {}
      PROVE  s \ {First(s)} \in Layer(S, m - 1) /\ First(s) \in S
  <2>1. m = (m - 1) + 1 /\ First(s) \in s
    BY <1>1, <1>5, FirstIn
  <2> QED BY <1>3, <1>5, <2>1, LayerDown DEF Layer
<1>6. g \in [Layer(S, m) -> Int]
  BY <1>4, <1>5 DEF AddsLayer
<1>7. ASSUME NEW s \in Layer(S, m - 1) PROVE s \in Layer(S, m) /\ g[s] = h[s]
  <2>1. s \in Layer(S, m)
    <3>1. IsFiniteSet(s)
      BY FS_Subset DEF Layer
    <3>2. Cardinality(s) \in Nat
      BY <3>1, FS_CardinalityType
    <3> QED BY <1>1, <3>2 DEF Layer
  <2> QED BY <1>4, <2>1 DEF AddsLayer
<1>8. AddsLayer(g, f, S, m)
  <2> SUFFICES ASSUME NEW s \in Layer(S, m)
               PROVE  g[s] = IF s = {} THEN 0 ELSE f[First(s)] + g[s \ {First(s)}]
      BY <1>6 DEF AddsLayer
  <2>1. s # {} => g[s \ {First(s)}] = h[s \ {First(s)}]
    BY <1>5, <1>7
  <2> QED BY <2>1
<1> QED BY <1>1, <1>8

(* A finite set of integers has its sums.                                  *)
LEMMA SumsExist ==
    ASSUME NEW S, IsFiniteSet(S), NEW f \in [S -> Int]
    PROVE  \E g \in [SUBSET S -> Int] : Adds(g, f, S)
<1>1. Cardinality(S) \in Nat
  BY FS_CardinalityType
<1>2. PICK g : AddsLayer(g, f, S, Cardinality(S))
  BY <1>1, LayersAdd
<1>3. Layer(S, Cardinality(S)) = SUBSET S
  <2>1. \A s \in SUBSET S : Cardinality(s) <= Cardinality(S)
    BY FS_Subset
  <2> QED BY <2>1 DEF Layer
<1>4. g \in [SUBSET S -> Int]
  BY <1>2, <1>3 DEF AddsLayer
<1>5. Adds(g, f, S)
  <2>1. g = [s \in SUBSET S |-> g[s]]
    BY <1>4
  <2>2. [s \in SUBSET S |-> g[s]] = [s \in SUBSET S |-> IF s = {} THEN 0 ELSE f[First(s)] + g[s \ {First(s)}]]
    BY <1>2, <1>3 DEF AddsLayer
  <2> QED BY <2>1, <2>2 DEF Adds
<1> QED BY <1>4, <1>5

(* There is one way to add up.                                             *)
LEMMA SumsAgree ==
    ASSUME NEW S, IsFiniteSet(S), NEW f, NEW g, NEW h, Adds(g, f, S), Adds(h, f, S)
    PROVE  \A A \in SUBSET S : g[A] = h[A]
<1> DEFINE C == {A \in SUBSET S : g[A] # h[A]}
<1> SUFFICES ASSUME C # {} PROVE FALSE
    OBVIOUS
<1>1. PICK A \in C : \A B \in C : B \subseteq A => B = A
  <2>1. C \in SUBSET SUBSET S
    OBVIOUS
  <2> HIDE DEF C
  <2> QED BY <2>1, LeastSet
<1>2. A \in SUBSET S /\ g[A] # h[A]
  BY <1>1
<1>3. A # {}
  BY <1>2 DEF Adds
<1> DEFINE B == A \ {First(A)}
<1>4. B \subseteq A /\ B # A
  BY <1>3, FirstIn
<1>5. g[B] = h[B]
  BY <1>1, <1>2, <1>4
<1>6. g[A] = f[First(A)] + g[B]
  BY <1>2, <1>3 DEF Adds
<1>7. h[A] = f[First(A)] + h[B]
  BY <1>2, <1>3 DEF Adds
<1> QED BY <1>2, <1>5, <1>6, <1>7

(* SumOver is what any such function says, over the whole set or a part.   *)
LEMMA SumIs ==
    ASSUME NEW S, IsFiniteSet(S), NEW f, NEW g, Adds(g, f, S), NEW A \in SUBSET S
    PROVE  SumOver(f, A) = g[A]
<1> DEFINE h == [s \in SUBSET A |-> g[s]]
<1>1. Adds(h, f, A)
  <2>1. ASSUME NEW s \in SUBSET A
        PROVE  h[s] = IF s = {} THEN 0 ELSE f[First(s)] + h[s \ {First(s)}]
    <3>1. s \in SUBSET S /\ s \ {First(s)} \in SUBSET A
      OBVIOUS
    <3>2. h[s] = g[s] /\ h[s \ {First(s)}] = g[s \ {First(s)}]
      BY <3>1
    <3>3. g[s] = IF s = {} THEN 0 ELSE f[First(s)] + g[s \ {First(s)}]
      BY <3>1 DEF Adds
    <3> QED BY <3>2, <3>3
  <2> QED BY <2>1 DEF Adds
<1> HIDE DEF h
<1>2. Adds(CHOOSE k : Adds(k, f, A), f, A)
  BY <1>1
<1>3. IsFiniteSet(A) /\ A \in SUBSET A
  BY FS_Subset
<1>4. h[A] = (CHOOSE k : Adds(k, f, A))[A]
  BY <1>1, <1>2, <1>3, SumsAgree
<1> QED BY <1>3, <1>4, SumIsChosen DEF h

(* So the sums over the parts of a finite set are one function, which may  *)
(* take out any element first.                                             *)
SumsOf(g, f, S) ==
    g \in [SUBSET S -> Int] /\ Adds(g, f, S) /\ \A A \in SUBSET S : SumOver(f, A) = g[A]

LEMMA OneSum ==
    ASSUME NEW S, IsFiniteSet(S), NEW f \in [S -> Int]
    PROVE  \E g : SumsOf(g, f, S)
<1>1. PICK g \in [SUBSET S -> Int] : Adds(g, f, S)
  BY SumsExist
<1>2. \A A \in SUBSET S : SumOver(f, A) = g[A]
  BY <1>1, SumIs
<1> QED BY <1>1, <1>2 DEF SumsOf

LEMMA SumType ==
    ASSUME NEW S, IsFiniteSet(S), NEW f \in [S -> Int], NEW A \in SUBSET S
    PROVE  SumOver(f, A) \in Int
<1>1. PICK g : SumsOf(g, f, S)
  BY OneSum
<1> QED BY <1>1 DEF SumsOf

LEMMA SumEmpty ==
    ASSUME NEW S, IsFiniteSet(S), NEW f \in [S -> Int]
    PROVE  SumOver(f, {}) = 0
<1>1. PICK g : SumsOf(g, f, S)
  BY OneSum
<1> QED BY <1>1 DEF SumsOf, Adds

LEMMA SumFirst ==
    ASSUME NEW S, IsFiniteSet(S), NEW f \in [S -> Int], NEW A \in SUBSET S, A # {}
    PROVE  SumOver(f, A) = f[First(A)] + SumOver(f, A \ {First(A)})
<1>1. PICK g : SumsOf(g, f, S)
  BY OneSum
<1>2. g[A] = f[First(A)] + g[A \ {First(A)}]
  BY <1>1 DEF SumsOf, Adds
<1>3. A \ {First(A)} \in SUBSET S
  OBVIOUS
<1> QED BY <1>1, <1>2, <1>3 DEF SumsOf

LEMMA SumRemove ==
    ASSUME NEW S, IsFiniteSet(S), NEW f \in [S -> Int], NEW A \in SUBSET S, NEW x \in A
    PROVE  SumOver(f, A) = f[x] + SumOver(f, A \ {x})
<1> DEFINE C == {B \in SUBSET S : \E y \in B : SumOver(f, B) # f[y] + SumOver(f, B \ {y})}
<1> SUFFICES ASSUME C # {} PROVE FALSE
    OBVIOUS
<1>1. PICK B \in C : \A D \in C : D \subseteq B => D = B
  <2>1. C \in SUBSET SUBSET S
    OBVIOUS
  <2> HIDE DEF C
  <2> QED BY <2>1, LeastSet
<1>2. PICK y \in B : SumOver(f, B) # f[y] + SumOver(f, B \ {y})
  BY <1>1
<1> DEFINE z == First(B)
<1>3. z \in B /\ B \in SUBSET S
  BY <1>1, <1>2, FirstIn
<1>4. SumOver(f, B) = f[z] + SumOver(f, B \ {z})
  BY <1>2, <1>3, SumFirst
<1> HIDE DEF z
<1>5. y # z
  BY <1>2, <1>4
<1>6. \A D \in SUBSET S : D \subseteq B /\ D # B => \A v \in D : SumOver(f, D) = f[v] + SumOver(f, D \ {v})
  BY <1>1
<1> DEFINE rest == B \ {y, z}
<1>7. rest = (B \ {z}) \ {y} /\ rest = (B \ {y}) \ {z}
  OBVIOUS
<1>8. SumOver(f, B \ {z}) = f[y] + SumOver(f, rest)
  BY <1>2, <1>3, <1>5, <1>6, <1>7
<1>9. SumOver(f, B \ {y}) = f[z] + SumOver(f, rest)
  BY <1>2, <1>3, <1>5, <1>6, <1>7
<1>10. SumOver(f, rest) \in Int /\ f[y] \in Int /\ f[z] \in Int
  BY <1>2, <1>3, SumType
<1> HIDE DEF rest
<1> QED BY <1>2, <1>4, <1>8, <1>9, <1>10

-----------------------------------------------------------------------------
(* How a sum changes.                                                      *)
LEMMA SumSame ==
    ASSUME NEW S, IsFiniteSet(S), NEW f \in [S -> Int], NEW h \in [S -> Int],
           NEW A \in SUBSET S, \A x \in A : f[x] = h[x]
    PROVE  SumOver(f, A) = SumOver(h, A)
<1> DEFINE C == {B \in SUBSET A : SumOver(f, B) # SumOver(h, B)}
<1> SUFFICES ASSUME C # {} PROVE FALSE
    OBVIOUS
<1>1. PICK B \in C : \A D \in C : D \subseteq B => D = B
  <2>1. C \in SUBSET SUBSET S
    OBVIOUS
  <2> HIDE DEF C
  <2> QED BY <2>1, LeastSet
<1>2. B \in SUBSET A /\ B \in SUBSET S /\ SumOver(f, B) # SumOver(h, B)
  BY <1>1
<1>3. B # {}
  BY <1>2, SumEmpty
<1>4. PICK x \in B : TRUE
  BY <1>3
<1>5. SumOver(f, B \ {x}) = SumOver(h, B \ {x})
  BY <1>1, <1>2, <1>4
<1>6. SumOver(f, B) = f[x] + SumOver(f, B \ {x}) /\ SumOver(h, B) = h[x] + SumOver(h, B \ {x})
  BY <1>2, <1>4, SumRemove
<1> QED BY <1>2, <1>4, <1>5, <1>6

(* One term changes.                                                       *)
LEMMA SumChange ==
    ASSUME NEW S, IsFiniteSet(S), NEW f \in [S -> Int], NEW h \in [S -> Int], NEW x \in S,
           \A y \in S : y # x => h[y] = f[y]
    PROVE  SumOver(h, S) = SumOver(f, S) - f[x] + h[x]
<1>1. SumOver(f, S) = f[x] + SumOver(f, S \ {x}) /\ SumOver(h, S) = h[x] + SumOver(h, S \ {x})
  BY SumRemove
<1>2. SumOver(f, S \ {x}) = SumOver(h, S \ {x})
  <2>1. \A y \in S \ {x} : f[y] = h[y]
    OBVIOUS
  <2> QED BY <2>1, SumSame
<1>3. SumOver(f, S \ {x}) \in Int /\ f[x] \in Int /\ h[x] \in Int
  BY SumType
<1> QED BY <1>1, <1>2, <1>3

(* The terms of R are set to zero.                                         *)
LEMMA SumErase ==
    ASSUME NEW S, IsFiniteSet(S), NEW f \in [S -> Int], NEW h \in [S -> Int], NEW R \in SUBSET S,
           \A y \in S : h[y] = IF y \in R THEN 0 ELSE f[y]
    PROVE  SumOver(h, S) = SumOver(f, S) - SumOver(f, R)
<1> DEFINE C == {B \in SUBSET S : SumOver(h, B) # SumOver(f, B) - SumOver(f, B \cap R)}
<1>0. SUFFICES ASSUME C # {} PROVE FALSE
  <2>1. S \in SUBSET S /\ S \cap R = R
    OBVIOUS
  <2> QED BY <2>1
<1>1. PICK B \in C : \A D \in C : D \subseteq B => D = B
  <2>1. C \in SUBSET SUBSET S
    OBVIOUS
  <2> HIDE DEF C
  <2> QED BY <1>0, <2>1, LeastSet
<1>2. B \in SUBSET S /\ SumOver(h, B) # SumOver(f, B) - SumOver(f, B \cap R)
  BY <1>1
<1>3. B # {}
  <2> SUFFICES ASSUME B = {} PROVE FALSE
      OBVIOUS
  <2>1. B \cap R = {} /\ SumOver(f, {}) = 0 /\ SumOver(h, {}) = 0
    BY SumEmpty
  <2> QED BY <1>2, <2>1
<1>4. PICK x \in B : TRUE
  BY <1>3
<1> DEFINE D == B \ {x}
<1>5. SumOver(h, D) = SumOver(f, D) - SumOver(f, D \cap R)
  BY <1>1, <1>2, <1>4
<1>6. SumOver(f, B) = f[x] + SumOver(f, D) /\ SumOver(h, B) = h[x] + SumOver(h, D)
  BY <1>2, <1>4, SumRemove
<1>7. SumOver(f, B \cap R) = (IF x \in R THEN f[x] ELSE 0) + SumOver(f, D \cap R)
  <2>1. CASE x \in R
    <3>1. x \in B \cap R /\ B \cap R \in SUBSET S /\ (B \cap R) \ {x} = D \cap R
      BY <1>2, <1>4, <2>1
    <3>2. SumOver(f, B \cap R) = f[x] + SumOver(f, (B \cap R) \ {x})
      BY <3>1, SumRemove
    <3> QED BY <2>1, <3>1, <3>2
  <2>2. CASE x \notin R
    <3>1. B \cap R = D \cap R /\ D \cap R \in SUBSET S
      BY <1>2, <2>2
    <3>2. SumOver(f, D \cap R) \in Int
      BY <3>1, SumType
    <3>3. SumOver(f, B \cap R) = SumOver(f, D \cap R)
      BY <3>1
    <3> HIDE DEF D
    <3> QED BY <2>2, <3>2, <3>3
  <2> QED BY <2>1, <2>2
<1>8. /\ SumOver(f, D) \in Int /\ SumOver(f, D \cap R) \in Int
      /\ f[x] \in Int /\ h[x] = IF x \in R THEN 0 ELSE f[x]
  <2>1. D \in SUBSET S /\ D \cap R \in SUBSET S /\ x \in S
    BY <1>2, <1>4
  <2> QED BY <2>1, SumType
<1> HIDE DEF D
<1> QED BY <1>2, <1>5, <1>6, <1>7, <1>8

(* A sum of terms that are not negative is not.                            *)
LEMMA SumNatural ==
    ASSUME NEW S, IsFiniteSet(S), NEW f \in [S -> Nat]
    PROVE  SumOver(f, S) \in Nat
<1> DEFINE C == {B \in SUBSET S : SumOver(f, B) \notin Nat}
<1>0. SUFFICES ASSUME C # {} PROVE FALSE
    OBVIOUS
<1>a. f \in [S -> Int]
  OBVIOUS
<1>1. PICK B \in C : \A D \in C : D \subseteq B => D = B
  <2>1. C \in SUBSET SUBSET S
    OBVIOUS
  <2> HIDE DEF C
  <2> QED BY <1>0, <2>1, LeastSet
<1>2. B \in SUBSET S /\ SumOver(f, B) \notin Nat
  BY <1>1
<1>3. B # {}
  BY <1>2, <1>a, SumEmpty
<1>4. PICK x \in B : TRUE
  BY <1>3
<1>5. SumOver(f, B \ {x}) \in Nat
  BY <1>1, <1>2, <1>4
<1>6. SumOver(f, B) = f[x] + SumOver(f, B \ {x})
  BY <1>2, <1>4, <1>a, SumRemove
<1>7. f[x] \in Nat
  BY <1>2, <1>4
<1> QED BY <1>2, <1>5, <1>6, <1>7

(* Equal terms, times how many they are.                                   *)
LEMMA SumConstant ==
    ASSUME NEW S, IsFiniteSet(S), NEW f \in [S -> Int], NEW c \in Int, NEW A \in SUBSET S,
           \A x \in A : f[x] = c
    PROVE  SumOver(f, A) = c * Cardinality(A)
<1> DEFINE C == {B \in SUBSET A : SumOver(f, B) # c * Cardinality(B)}
<1>0. SUFFICES ASSUME C # {} PROVE FALSE
    OBVIOUS
<1>1. PICK B \in C : \A D \in C : D \subseteq B => D = B
  <2>1. C \in SUBSET SUBSET S
    OBVIOUS
  <2> HIDE DEF C
  <2> QED BY <1>0, <2>1, LeastSet
<1>2. B \in SUBSET A /\ B \in SUBSET S /\ SumOver(f, B) # c * Cardinality(B)
  BY <1>1
<1>3. B # {}
  <2>1. Cardinality({}) = 0 /\ c * 0 = 0
    BY FS_EmptySet
  <2> QED BY <1>2, <2>1, SumEmpty
<1>4. PICK x \in B : TRUE
  BY <1>3
<1> DEFINE n == Cardinality(B \ {x})
<1>5. SumOver(f, B \ {x}) = c * n
  BY <1>1, <1>2, <1>4
<1>6. SumOver(f, B) = c + SumOver(f, B \ {x})
  BY <1>2, <1>4, SumRemove
<1>7. Cardinality(B) = n + 1 /\ n \in Nat
  <2>1. IsFiniteSet(B)
    BY <1>2, FS_Subset
  <2>2. IsFiniteSet(B \ {x}) /\ Cardinality(B \ {x}) = Cardinality(B) - 1 /\ Cardinality(B) \in Nat
    BY <1>4, <2>1, FS_RemoveElement, FS_CardinalityType
  <2>3. n \in Nat
    BY <2>2, FS_CardinalityType
  <2> QED BY <2>2, <2>3
<1> HIDE DEF n
<1>8. c * (n + 1) = c + c * n
  BY <1>7
<1> QED BY <1>2, <1>5, <1>6, <1>7, <1>8
=============================================================================
