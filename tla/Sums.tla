-------------------------------- MODULE Sums --------------------------------
(***************************************************************************)
(* Sums over finite sets (SumFunctionOnSet of the community modules),      *)
(* which the books of the paper engine and the token budgets are kept in.  *)
(*                                                                         *)
(* The induction theorems of the library take a predicate as a parameter;  *)
(* here induction is about sets of counterexamples, which have a least or  *)
(* a minimal element.                                                      *)
(***************************************************************************)
EXTENDS FiniteSetTheorems, TLAPS

(* A set of naturals has a least element. *)
LEMMA Least ==
  ASSUME NEW T, T \subseteq Nat, T # {}
  PROVE  \E n \in T : \A k \in T : n <= k
<1>1. PICK n \in T : \A k \in T : <<k, n>> \notin OpToRel(<, Nat)
  BY NatLessThanWellFounded, WFMin
<1>2. \A k \in T : <<k, n>> \in OpToRel(<, Nat) <=> k < n
  BY DEF OpToRel
<1>3. \A k \in T : n \in Nat /\ k \in Nat /\ ~(k < n) BY <1>1, <1>2
<1>4. \A k \in T : n <= k BY <1>3
<1> QED BY <1>4

(* A family of subsets of a finite set has a minimal member. *)
LEMMA Minimal ==
  ASSUME NEW S, IsFiniteSet(S), NEW F, F \subseteq SUBSET S, F # {}
  PROVE  \E T \in F : \A U \in F : U \subseteq T => U = T
<1> DEFINE R == StrictSubsetOrdering(S)
<1>1. IsWellFoundedOn(R, SUBSET S)
  BY FS_StrictSubsetOrderingWellFounded, FS_FiniteSubsetsOfFinite
<1> HIDE DEF R
<1>2. PICK T \in F : \A U \in F : <<U, T>> \notin R BY <1>1, WFMin
<1>3. ASSUME NEW U \in F, U \subseteq T, U # T PROVE FALSE
  <2>1. <<U, T>> \in R BY <1>3 DEF R, StrictSubsetOrdering
  <2> QED BY <1>2, <2>1
<1> QED BY <1>3

(* Induction over the subsets of a finite set: what holds of a set when it *)
(* holds of all its proper subsets holds of the whole set.                 *)
LEMMA SubsetInduction ==
  ASSUME NEW S, IsFiniteSet(S), NEW F,
         \A T \in SUBSET S : (\A U \in SUBSET T : U # T => U \in F) => T \in F
  PROVE  SUBSET S \subseteq F
<1> DEFINE Bad == (SUBSET S) \ F
<1> SUFFICES ASSUME Bad # {} PROVE FALSE
  OBVIOUS
<1>1. Bad \subseteq SUBSET S OBVIOUS
<1>2. \A T : T \in Bad <=> T \in SUBSET S /\ T \notin F OBVIOUS
<1> HIDE DEF Bad
<1>3. PICK T \in Bad : \A U \in Bad : U \subseteq T => U = T
  BY <1>1, Minimal
<1>4. \A U \in SUBSET T : U # T => U \in F BY <1>2, <1>3
<1> QED BY <1>2, <1>4

(* A finite set of integers has a greatest element. *)
LEMMA Greatest ==
  ASSUME NEW S, IsFiniteSet(S), S # {}, S \subseteq Int
  PROVE  \E x \in S : \A y \in S : x >= y
<1> DEFINE F == {T \in SUBSET S : T = {} \/ \E x \in T : \A y \in T : x >= y}
<1>1. ASSUME NEW T \in SUBSET S, \A U \in SUBSET T : U # T => U \in F
      PROVE  T \in F
  <2>1. CASE T = {} BY <2>1
  <2>2. CASE T # {}
    <3>1. PICK z \in T : TRUE BY <2>2
    <3>2. T \ {z} \in F BY <1>1, <3>1
    <3>3. CASE T \ {z} = {}
      <4>1. z \in Int /\ \A y \in T : y = z BY <3>1, <3>3
      <4> QED BY <3>1, <4>1
    <3>4. CASE T \ {z} # {}
      <4>1. PICK x \in T \ {z} : \A y \in T \ {z} : x >= y BY <3>2, <3>4
      <4>2. x \in Int /\ z \in Int /\ \A y \in T : y \in Int BY <3>1, <4>1
      <4>3. CASE x >= z BY <3>1, <4>1, <4>3
      <4>4. CASE z >= x
        <5>1. \A y \in T : z >= y BY <4>1, <4>2, <4>4
        <5> QED BY <3>1, <5>1
      <4> QED BY <4>2, <4>3, <4>4
    <3> QED BY <3>3, <3>4
  <2> QED BY <2>1, <2>2
<1>2. \A T \in SUBSET S : (\A U \in SUBSET T : U # T => U \in F) => T \in F
  BY <1>1
<1> HIDE DEF F
<1>3. S \in F BY <1>2, SubsetInduction
<1> QED BY <1>3 DEF F

---------------------------------------------------------------------------
(* The recursive function behind a sum exists, and is the only one. *)

One(s) == CHOOSE x \in s : TRUE

SmallSubsets(S, n) == {s \in SUBSET S : Cardinality(s) <= n}

Unfolds(it, f, D) ==
  it = [s \in D |-> IF s = {} THEN 0 ELSE f[One(s)] + it[s \ {One(s)}]]

LEMMA SumIs ==
  ASSUME NEW f, NEW S
  PROVE  SumFunctionOnSet(f, S) = (CHOOSE it : Unfolds(it, f, SUBSET S))[S]
BY DEF SumFunctionOnSet, FoldFunctionOnSet, MapThenFoldSet, Unfolds, One

LEMMA OneIn ==
  ASSUME NEW s, s # {}
  PROVE  One(s) \in s
BY DEF One

(* One level more of the recursion. *)
LEMMA UnfoldsMore ==
  ASSUME NEW S, IsFiniteSet(S), NEW f, NEW n \in Nat,
         NEW it, Unfolds(it, f, SmallSubsets(S, n))
  PROVE  \E h : Unfolds(h, f, SmallSubsets(S, n + 1))
<1> DEFINE D == SmallSubsets(S, n)
           E == SmallSubsets(S, n + 1)
           h == [s \in E |-> IF s = {} THEN 0 ELSE f[One(s)] + it[s \ {One(s)}]]
<1>1. \A s \in SUBSET S : IsFiniteSet(s) /\ Cardinality(s) \in Nat
  BY FS_Subset, FS_CardinalityType
<1>2. D \subseteq E BY <1>1 DEF SmallSubsets
<1>3. ASSUME NEW s \in E, s # {} PROVE s \ {One(s)} \in D
  <2>1. s \in SUBSET S /\ Cardinality(s) <= n + 1 BY DEF SmallSubsets
  <2>2. Cardinality(s \ {One(s)}) = Cardinality(s) - 1
    BY <1>1, <1>3, <2>1, OneIn, FS_RemoveElement
  <2>3. s \ {One(s)} \in SUBSET S BY <2>1
  <2> QED BY <1>1, <2>1, <2>2, <2>3 DEF SmallSubsets
<1>4. it = [s \in D |-> IF s = {} THEN 0 ELSE f[One(s)] + it[s \ {One(s)}]]
  BY DEF Unfolds
<1> HIDE DEF D, E
<1>5. \A s \in D : h[s] = it[s] BY <1>2, <1>4
<1>6. h = [s \in E |-> IF s = {} THEN 0 ELSE f[One(s)] + h[s \ {One(s)}]]
  BY <1>3, <1>5
<1> HIDE DEF h
<1> QED BY <1>6 DEF Unfolds, E

LEMMA UnfoldsExists ==
  ASSUME NEW S, IsFiniteSet(S), NEW f
  PROVE  \E it : Unfolds(it, f, SUBSET S)
<1> DEFINE Bad == {n \in Nat : ~ \E it : Unfolds(it, f, SmallSubsets(S, n))}
<1>1. 0 \notin Bad
  <2> DEFINE it == [s \in SmallSubsets(S, 0) |-> 0]
  <2>1. \A s \in SmallSubsets(S, 0) : s = {}
    <3>1. ASSUME NEW s \in SmallSubsets(S, 0) PROVE s = {}
      <4>1. s \in SUBSET S /\ Cardinality(s) <= 0 BY DEF SmallSubsets
      <4>2. IsFiniteSet(s) BY <4>1, FS_Subset
      <4>3. Cardinality(s) \in Nat BY <4>2, FS_CardinalityType
      <4> QED BY <4>1, <4>2, <4>3, FS_EmptySet
    <3> QED BY <3>1
  <2>2. Unfolds(it, f, SmallSubsets(S, 0)) BY <2>1 DEF Unfolds
  <2> QED BY <2>2
<1>2. \A n \in Nat : n \notin Bad => n + 1 \notin Bad BY UnfoldsMore
<1>3. Bad = {}
  <2> SUFFICES ASSUME Bad # {} PROVE FALSE
    OBVIOUS
  <2>1. Bad \subseteq Nat OBVIOUS
  <2> HIDE DEF Bad
  <2>2. PICK n \in Bad : \A k \in Bad : n <= k BY <2>1, Least
  <2>3. n # 0 /\ n \in Nat BY <1>1, <2>1
  <2>4. n - 1 \in Nat /\ ~(n <= n - 1) BY <2>3
  <2>5. n - 1 \notin Bad BY <2>2, <2>4
  <2>6. (n - 1) + 1 \notin Bad BY <1>2, <2>4, <2>5
  <2>7. (n - 1) + 1 = n BY <2>3
  <2> QED BY <2>6, <2>7
<1>4. Cardinality(S) \in Nat BY FS_CardinalityType
<1>5. SmallSubsets(S, Cardinality(S)) = SUBSET S BY FS_Subset DEF SmallSubsets
<1>6. \E it : Unfolds(it, f, SmallSubsets(S, Cardinality(S))) BY <1>3, <1>4
<1> QED BY <1>5, <1>6

LEMMA UnfoldsUnique ==
  ASSUME NEW S, IsFiniteSet(S), NEW f, NEW it, Unfolds(it, f, SUBSET S),
         NEW T \in SUBSET S, NEW jt, Unfolds(jt, f, SUBSET T)
  PROVE  it[T] = jt[T]
<1> DEFINE F == {U \in SUBSET T : it[U] = jt[U]}
<1>1. IsFiniteSet(T) BY FS_Subset
<1>2. ASSUME NEW U \in SUBSET T, \A V \in SUBSET U : V # U => V \in F
      PROVE  U \in F
  <2>1. U \in SUBSET S OBVIOUS
  <2>2. it[U] = IF U = {} THEN 0 ELSE f[One(U)] + it[U \ {One(U)}]
    BY <2>1 DEF Unfolds
  <2>3. jt[U] = IF U = {} THEN 0 ELSE f[One(U)] + jt[U \ {One(U)}]
    BY DEF Unfolds
  <2>4. CASE U = {} BY <2>2, <2>3, <2>4
  <2>5. CASE U # {}
    <3>1. U \ {One(U)} \in F BY <1>2, <2>5, OneIn
    <3> QED BY <2>2, <2>3, <2>5, <3>1
  <2> QED BY <2>4, <2>5
<1>3. \A U \in SUBSET T : (\A V \in SUBSET U : V # U => V \in F) => U \in F
  BY <1>2
<1> HIDE DEF F
<1>4. T \in F BY <1>1, <1>3, SubsetInduction
<1> QED BY <1>4 DEF F

---------------------------------------------------------------------------
(* Sums, without the recursion. *)

LEMMA SumEmpty ==
  ASSUME NEW f
  PROVE  SumFunctionOnSet(f, {}) = 0
<1> DEFINE it == CHOOSE it : Unfolds(it, f, SUBSET {})
<1>1. Unfolds(it, f, SUBSET {}) BY FS_EmptySet, UnfoldsExists
<1>2. it[{}] = 0 BY <1>1 DEF Unfolds
<1> QED BY <1>2, SumIs

LEMMA SumOne ==
  ASSUME NEW S, IsFiniteSet(S), S # {}, NEW f
  PROVE  SumFunctionOnSet(f, S) = f[One(S)] + SumFunctionOnSet(f, S \ {One(S)})
<1> DEFINE T == S \ {One(S)}
           it == CHOOSE h : Unfolds(h, f, SUBSET S)
           jt == CHOOSE h : Unfolds(h, f, SUBSET T)
<1>1. IsFiniteSet(T) /\ T \in SUBSET S BY FS_Subset
<1>2. SumFunctionOnSet(f, S) = it[S] /\ SumFunctionOnSet(f, T) = jt[T] BY SumIs
<1> HIDE DEF T
<1>3. Unfolds(it, f, SUBSET S) BY UnfoldsExists
<1>4. Unfolds(jt, f, SUBSET T) BY <1>1, UnfoldsExists
<1> HIDE DEF it, jt
<1>5. it[T] = jt[T] BY <1>1, <1>3, <1>4, UnfoldsUnique
<1>6. it[S] = f[One(S)] + it[T] BY <1>3 DEF Unfolds, T
<1> QED BY <1>2, <1>5, <1>6 DEF T

(* Taking out any element, whichever one the recursion takes. *)
LEMMA SumAny ==
  ASSUME NEW S, IsFiniteSet(S), NEW f, \A x \in S : f[x] \in Int
  PROVE  /\ SumFunctionOnSet(f, S) \in Int
         /\ \A x \in S : SumFunctionOnSet(f, S) = f[x] + SumFunctionOnSet(f, S \ {x})
<1> DEFINE Sum(T) == SumFunctionOnSet(f, T)
           F == {T \in SUBSET S : Sum(T) \in Int /\ \A x \in T : Sum(T) = f[x] + Sum(T \ {x})}
<1>1. \A T \in SUBSET S : T # {} => Sum(T) = f[One(T)] + Sum(T \ {One(T)})
  BY FS_Subset, SumOne
<1>2. Sum({}) = 0 BY SumEmpty
<1> HIDE DEF Sum
<1>3. ASSUME NEW T \in SUBSET S, \A U \in SUBSET T : U # T => U \in F
      PROVE  T \in F
  <2>1. CASE T = {} BY <1>2, <2>1
  <2>2. CASE T # {}
    <3> DEFINE y == One(T)
    <3>1. y \in T BY <2>2, OneIn
    <3>2. Sum(T) = f[y] + Sum(T \ {y}) BY <1>1, <2>2
    <3> HIDE DEF y
    <3>3. T \ {y} \in F BY <1>3, <3>1
    <3>4. f[y] \in Int /\ Sum(T \ {y}) \in Int /\ Sum(T) \in Int BY <3>1, <3>2, <3>3
    <3>5. ASSUME NEW x \in T, x # y PROVE Sum(T) = f[x] + Sum(T \ {x})
      <4> DEFINE V == (T \ {y}) \ {x}
      <4>1. V = (T \ {x}) \ {y} OBVIOUS
      <4>2. T \ {x} \in F BY <1>3, <3>5
      <4>3. Sum(T \ {x}) = f[y] + Sum(V) BY <3>1, <3>5, <4>1, <4>2
      <4>4. Sum(T \ {y}) = f[x] + Sum(V) BY <3>3, <3>5
      <4>5. V \in F BY <1>3, <3>1
      <4>6. f[x] \in Int /\ Sum(V) \in Int BY <4>5
      <4> HIDE DEF V
      <4> QED BY <3>2, <3>4, <4>3, <4>4, <4>6
    <3> QED BY <3>2, <3>4, <3>5
  <2> QED BY <2>1, <2>2
<1>4. \A T \in SUBSET S : (\A U \in SUBSET T : U # T => U \in F) => T \in F
  BY <1>3
<1> HIDE DEF F
<1>5. S \in F BY <1>4, SubsetInduction
<1> QED BY <1>5 DEF F, Sum

LEMMA SumInsert ==
  ASSUME NEW S, IsFiniteSet(S), NEW x, x \notin S, NEW f,
         f[x] \in Int, \A y \in S : f[y] \in Int
  PROVE  SumFunctionOnSet(f, S \cup {x}) = SumFunctionOnSet(f, S) + f[x]
<1> DEFINE T == S \cup {x}
<1>1. IsFiniteSet(T) BY FS_AddElement
<1>2. T \ {x} = S /\ x \in T /\ \A y \in T : f[y] \in Int OBVIOUS
<1> HIDE DEF T
<1>3. SumFunctionOnSet(f, T) = f[x] + SumFunctionOnSet(f, S) BY <1>1, <1>2, SumAny
<1>4. SumFunctionOnSet(f, S) \in Int BY SumAny
<1> QED BY <1>2, <1>3, <1>4 DEF T

LEMMA SumRemove ==
  ASSUME NEW S, IsFiniteSet(S), NEW x \in S, NEW f, \A y \in S : f[y] \in Int
  PROVE  SumFunctionOnSet(f, S \ {x}) = SumFunctionOnSet(f, S) - f[x]
<1>1. IsFiniteSet(S \ {x}) BY FS_RemoveElement
<1>2. SumFunctionOnSet(f, S \ {x}) \in Int BY <1>1, SumAny
<1> QED BY <1>2, SumAny

(* A sum of less, over fewer. *)
LEMMA SumBelow ==
  ASSUME NEW S, IsFiniteSet(S), NEW T \in SUBSET S, NEW f, NEW g,
         \A x \in S : g[x] \in Nat,
         \A x \in T : f[x] \in Int /\ f[x] <= g[x]
  PROVE  /\ SumFunctionOnSet(f, T) \in Int /\ SumFunctionOnSet(g, S) \in Nat
         /\ SumFunctionOnSet(f, T) <= SumFunctionOnSet(g, S)
<1> DEFINE SF(U) == SumFunctionOnSet(f, U \cap T)
           SG(U) == SumFunctionOnSet(g, U)
           F == {U \in SUBSET S : SF(U) \in Int /\ SG(U) \in Nat /\ SF(U) <= SG(U)}
<1>1. ASSUME NEW U \in SUBSET S, \A V \in SUBSET U : V # U => V \in F
      PROVE  U \in F
  <2>1. IsFiniteSet(U) /\ IsFiniteSet(U \cap T) BY FS_Subset
  <2>2. CASE U = {}
    <3>1. U \cap T = {} BY <2>2
    <3>2. SF(U) = 0 /\ SG(U) = 0 BY <2>2, <3>1, SumEmpty
    <3> QED BY <3>2
  <2>3. CASE U # {}
    <3>1. PICK x \in U : TRUE BY <2>3
    <3>2. U \ {x} \in F BY <1>1, <3>1
    <3>3. SG(U) = g[x] + SG(U \ {x}) BY <2>1, SumAny
    <3>4. g[x] \in Nat OBVIOUS
    <3>5. CASE x \in T
      <4>1. (U \cap T) \ {x} = (U \ {x}) \cap T OBVIOUS
      <4>2. SF(U) = f[x] + SF(U \ {x}) BY <2>1, <3>5, <4>1, SumAny
      <4>3. f[x] \in Int /\ f[x] <= g[x] BY <3>5
      <4> HIDE DEF SF, SG
      <4> QED BY <3>2, <3>3, <3>4, <4>2, <4>3
    <3>6. CASE x \notin T
      <4>1. U \cap T = (U \ {x}) \cap T BY <3>6
      <4>2. SF(U) = SF(U \ {x}) BY <4>1
      <4> HIDE DEF SF, SG
      <4> QED BY <3>2, <3>3, <3>4, <4>2
    <3> QED BY <3>5, <3>6
  <2> QED BY <2>2, <2>3
<1>2. \A U \in SUBSET S : (\A V \in SUBSET U : V # U => V \in F) => U \in F
  BY <1>1
<1> HIDE DEF F
<1>3. S \in F BY <1>2, SubsetInduction
<1>4. S \cap T = T OBVIOUS
<1> QED BY <1>3, <1>4 DEF F

LEMMA SumSame ==
  ASSUME NEW S, IsFiniteSet(S), NEW f, NEW g,
         \A x \in S : f[x] \in Nat /\ f[x] = g[x]
  PROVE  SumFunctionOnSet(f, S) = SumFunctionOnSet(g, S)
<1>1. /\ SumFunctionOnSet(f, S) \in Int /\ SumFunctionOnSet(g, S) \in Int
      /\ SumFunctionOnSet(f, S) <= SumFunctionOnSet(g, S)
      /\ SumFunctionOnSet(g, S) <= SumFunctionOnSet(f, S)
  BY SumBelow
<1> QED BY <1>1

(* A sum in two parts. *)
LEMMA SumParts ==
  ASSUME NEW S, IsFiniteSet(S), NEW T, IsFiniteSet(T), S \cap T = {}, NEW f,
         \A x \in S \cup T : f[x] \in Int
  PROVE  SumFunctionOnSet(f, S \cup T) = SumFunctionOnSet(f, S) + SumFunctionOnSet(f, T)
<1> DEFINE Sum(U) == SumFunctionOnSet(f, U)
           F == {U \in SUBSET S : Sum(U \cup T) = Sum(U) + Sum(T)}
<1>1. \A U \in SUBSET S : IsFiniteSet(U) /\ IsFiniteSet(U \cup T)
  BY FS_Subset, FS_Union
<1>2. \A U \in SUBSET S : Sum(U) \in Int /\ Sum(U \cup T) \in Int BY <1>1, SumAny
<1>3. Sum(T) \in Int BY SumAny
<1>4. ASSUME NEW U \in SUBSET S, \A V \in SUBSET U : V # U => V \in F
      PROVE  U \in F
  <2>1. CASE U = {}
    <3>1. Sum(U) = 0 BY <2>1, SumEmpty
    <3>2. U \cup T = T BY <2>1
    <3>3. Sum(U \cup T) = Sum(T) BY <3>2
    <3>4. Sum(U \cup T) = Sum(U) + Sum(T) BY <1>3, <3>1, <3>3
    <3> QED BY <3>4
  <2>2. CASE U # {}
    <3>1. PICK x \in U : TRUE BY <2>2
    <3>2. U \ {x} \in F BY <1>4, <3>1
    <3>3. Sum(U) = f[x] + Sum(U \ {x}) BY <1>1, SumAny
    <3>4. /\ (U \cup T) \ {x} = (U \ {x}) \cup T
          /\ x \in U \cup T /\ \A y \in U \cup T : f[y] \in Int
      BY <3>1
    <3>5. Sum(U \cup T) = f[x] + Sum((U \ {x}) \cup T)
      <4> DEFINE W == U \cup T
      <4>1. IsFiniteSet(W) /\ x \in W /\ \A y \in W : f[y] \in Int BY <1>1, <3>4
      <4> HIDE DEF W
      <4>2. Sum(W) = f[x] + Sum(W \ {x}) BY <4>1, SumAny
      <4> QED BY <3>4, <4>2 DEF W
    <3>6. f[x] \in Int /\ Sum(U \ {x}) \in Int BY <1>2
    <3> HIDE DEF Sum
    <3> QED BY <1>3, <3>2, <3>3, <3>5, <3>6
  <2> QED BY <2>1, <2>2
<1>5. \A U \in SUBSET S : (\A V \in SUBSET U : V # U => V \in F) => U \in F
  BY <1>4
<1> HIDE DEF F
<1>6. S \in F BY <1>5, SubsetInduction
<1> QED BY <1>6 DEF F

LEMMA SumZero ==
  ASSUME NEW S, IsFiniteSet(S), NEW f, \A x \in S : f[x] = 0
  PROVE  SumFunctionOnSet(f, S) = 0
<1> DEFINE F == {U \in SUBSET S : SumFunctionOnSet(f, U) = 0}
<1>1. ASSUME NEW U \in SUBSET S, \A V \in SUBSET U : V # U => V \in F
      PROVE  U \in F
  <2>1. CASE U = {} BY <2>1, SumEmpty
  <2>2. CASE U # {}
    <3>1. PICK x \in U : TRUE BY <2>2
    <3>2. U \ {x} \in F BY <1>1, <3>1
    <3>3. IsFiniteSet(U) /\ \A y \in U : f[y] \in Int BY FS_Subset
    <3>4. SumFunctionOnSet(f, U) = f[x] + SumFunctionOnSet(f, U \ {x})
      BY <3>3, SumAny
    <3> QED BY <3>2, <3>4
  <2> QED BY <2>1, <2>2
<1>2. \A U \in SUBSET S : (\A V \in SUBSET U : V # U => V \in F) => U \in F
  BY <1>1
<1> HIDE DEF F
<1>3. S \in F BY <1>2, SubsetInduction
<1> QED BY <1>3 DEF F

LEMMA ImageIsFinite ==
  ASSUME NEW S, IsFiniteSet(S), NEW h
  PROVE  IsFiniteSet({h[x] : x \in S})
<1> DEFINE T == {h[x] : x \in S}
           f == [x \in S |-> h[x]]
<1>1. f \in Surjection(S, T) BY DEF Surjection
<1> HIDE DEF T, f
<1>2. IsFiniteSet(T) BY <1>1, FS_Surjection
<1> QED BY <1>2 DEF T

(* A sum over what a one-to-one function makes of a set. *)
LEMMA SumImage ==
  ASSUME NEW S, IsFiniteSet(S), NEW h, NEW f, NEW g,
         \A x, y \in S : h[x] = h[y] => x = y,
         \A x \in S : f[x] \in Int /\ f[x] = g[h[x]]
  PROVE  SumFunctionOnSet(g, {h[x] : x \in S}) = SumFunctionOnSet(f, S)
<1> DEFINE Image(U) == {h[x] : x \in U}
           F == {U \in SUBSET S : /\ IsFiniteSet(Image(U))
                                  /\ SumFunctionOnSet(g, Image(U)) = SumFunctionOnSet(f, U)}
<1>1. ASSUME NEW U \in SUBSET S, \A V \in SUBSET U : V # U => V \in F
      PROVE  U \in F
  <2>1. IsFiniteSet(U) BY FS_Subset
  <2>2. CASE U = {}
    <3>1. Image(U) = {} BY <2>2
    <3> QED BY <2>2, <3>1, FS_EmptySet, SumEmpty
  <2>3. CASE U # {}
    <3>1. PICK x \in U : TRUE BY <2>3
    <3> DEFINE V == U \ {x}
    <3>2. V \in F BY <1>1, <3>1
    <3>3. Image(U) = Image(V) \cup {h[x]} OBVIOUS
    <3>4. h[x] \notin Image(V) OBVIOUS
    <3>5. \A y \in Image(V) : g[y] \in Int OBVIOUS
    <3>6. g[h[x]] \in Int /\ g[h[x]] = f[x] OBVIOUS
    <3>7. IsFiniteSet(Image(V)) /\ V \in SUBSET S BY <3>2
    <3>8. SumFunctionOnSet(f, U) = f[x] + SumFunctionOnSet(f, V) BY <2>1, SumAny
    <3>9. SumFunctionOnSet(g, Image(V)) = SumFunctionOnSet(f, V) BY <3>2
    <3>10. SumFunctionOnSet(f, V) \in Int
      <4>1. IsFiniteSet(V) BY <3>7, FS_Subset
      <4> QED BY <4>1, SumAny
    <3> HIDE DEF Image, V
    <3>11. SumFunctionOnSet(g, Image(U)) = SumFunctionOnSet(g, Image(V)) + g[h[x]]
      BY <3>3, <3>4, <3>5, <3>6, <3>7, SumInsert
    <3>12. IsFiniteSet(Image(U)) BY <3>3, <3>7, FS_AddElement
    <3> QED BY <3>6, <3>8, <3>9, <3>10, <3>11, <3>12
  <2> QED BY <2>2, <2>3
<1>2. \A U \in SUBSET S : (\A V \in SUBSET U : V # U => V \in F) => U \in F
  BY <1>1
<1> HIDE DEF F
<1>3. S \in F BY <1>2, SubsetInduction
<1> QED BY <1>3 DEF F
=============================================================================
