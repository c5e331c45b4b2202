----------------------------- MODULE Induction ------------------------------
(* Induction in the form the provers can use it: over a set of numbers, or of
   finite sets, instead of a predicate.  A recursive function of the models is then
   the one function that satisfies its equation, because one exists for every
   bound and no two differ.  The sum over a finite set is of that kind too: it does
   not depend on the order of the summands, and changes as they do. *)
EXTENDS Integers, FiniteSets, FiniteSetsExt, FiniteSetTheorems, WellFoundedInduction, TLAPS

(* A set of numbers that is not empty has a least one. *)
LEMMA LeastNat ==
    ASSUME NEW T, T \subseteq Nat, T # {}
    PROVE  \E x \in T : \A y \in T : ~(y < x)
  <1>1. IsWellFoundedOn(OpToRel(<, Nat), Nat)
    BY NatLessThanWellFounded
  <1>2. PICK x \in T : \A y \in T : ~(<<y, x>> \in OpToRel(<, Nat))
    BY <1>1, WFMin
  <1> QED
    BY <1>2 DEF OpToRel

(* A set that holds zero and with every number its successor holds them all. *)
LEMMA NumbersInduct ==
    ASSUME NEW S, 0 \in S, \A n \in Nat : n \in S => n + 1 \in S
    PROVE  Nat \subseteq S
  <1> SUFFICES ASSUME ~(Nat \subseteq S)
               PROVE  FALSE
    OBVIOUS
  <1> DEFINE T == Nat \ S
  <1>1. T \subseteq Nat /\ T # {}
    OBVIOUS
  <1> HIDE DEF T
  <1>2. PICK x \in T : \A y \in T : ~(y < x)
    BY <1>1, LeastNat
  <1>3. x \in Nat /\ x # 0 /\ x \notin S
    BY <1>2 DEF T
  <1>4. x - 1 \in Nat /\ x - 1 < x
    BY <1>3
  <1>5. x - 1 \in S
    BY <1>2, <1>4 DEF T
  <1>6. (x - 1) + 1 \in S
    BY <1>4, <1>5
  <1> QED
    BY <1>3, <1>6

(* A set of subsets of a finite set that holds the empty one, and with every one that
   with one more element, holds them all. *)
LEMMA SubsetsInduct ==
    ASSUME NEW S, IsFiniteSet(S), NEW P, {} \in P,
           \A T \in SUBSET S, x \in S : T \in P => T \cup {x} \in P
    PROVE  SUBSET S \subseteq P
  <1> DEFINE Sizes == {n \in Nat : \A T \in SUBSET S : Cardinality(T) = n => T \in P}
  <1>0. \A T \in SUBSET S : IsFiniteSet(T) /\ Cardinality(T) \in Nat
    BY FS_Subset, FS_CardinalityType
  <1>1. 0 \in Sizes
    <2>1. ASSUME NEW T \in SUBSET S, Cardinality(T) = 0
          PROVE  T \in P
      BY <1>0, <2>1, FS_EmptySet
    <2> QED
      BY <2>1
  <1>2. ASSUME NEW n \in Nat, n \in Sizes
        PROVE  n + 1 \in Sizes
    <2>1. ASSUME NEW T \in SUBSET S, Cardinality(T) = n + 1
          PROVE  T \in P
      <3>1. T # {}
        BY <1>0, <2>1, FS_EmptySet
      <3>2. PICK x : x \in T
        BY <3>1
      <3>3. Cardinality(T \ {x}) = n
        BY SMTT(30), <1>0, <2>1, <3>2, FS_RemoveElement
      <3>4. T \ {x} \in SUBSET S /\ T \ {x} \in P /\ x \in S /\ (T \ {x}) \cup {x} = T
        BY <1>2, <3>2, <3>3
      <3> QED
        BY <3>4
    <2> QED
      BY <2>1
  <1>3. Nat \subseteq Sizes
    <2> HIDE DEF Sizes
    <2> QED
      BY <1>1, <1>2, NumbersInduct
  <1> QED
    BY <1>0, <1>3

-----------------------------------------------------------------------------
(* Sums over finite sets *)

SumOf(f, S) == MapThenSumSet(LAMBDA x : f[x], S)

\* g[T] is the sum of f over T, for the subsets T of S.
Sums(g, f, S) ==
    /\ g \in [SUBSET S -> Int] /\ g[{}] = 0
    /\ \A T \in SUBSET S : \A x \in T : g[T] = f[x] + g[T \ {x}]

(* Sums exist. *)
LEMMA SumsExist ==
    ASSUME NEW S, IsFiniteSet(S), NEW f, \A x \in S : f[x] \in Int
    PROVE  \E g : Sums(g, f, S)
  <1> DEFINE P == {T \in SUBSET S : \E g : Sums(g, f, T)}
  <1>1. {} \in P
    <2>1. Sums([T \in SUBSET {} |-> 0], f, {})
      BY DEF Sums
    <2> QED
      BY <2>1
  <1>2. ASSUME NEW T \in SUBSET S, NEW a \in S, T \in P
        PROVE  T \cup {a} \in P
    <2>1. PICK g : Sums(g, f, T)
      BY <1>2
    <2>2. CASE a \in T
      <3>1. T \cup {a} = T
        BY <2>2
      <3> QED
        BY <1>2, <3>1
    <2>3. CASE a \notin T
      <3> DEFINE h == [U \in SUBSET (T \cup {a}) |-> IF a \in U THEN f[a] + g[U \ {a}] ELSE g[U]]
      <3>1. g \in [SUBSET T -> Int] /\ g[{}] = 0 /\ f[a] \in Int
        BY <2>1 DEF Sums
      <3>2. \A U \in SUBSET (T \cup {a}) : U \ {a} \in SUBSET T /\ (a \notin U => U \in SUBSET T)
        OBVIOUS
      <3>3. h \in [SUBSET (T \cup {a}) -> Int] /\ h[{}] = 0
        BY <3>1, <3>2
      <3>4. ASSUME NEW U \in SUBSET (T \cup {a}), NEW x \in U
            PROVE  h[U] = f[x] + h[U \ {x}]
        <4>0. U \ {x} \in SUBSET (T \cup {a}) /\ U \ {a} \in SUBSET T
          OBVIOUS
        <4>1. CASE x = a
          BY <4>0, <4>1
        <4>2. CASE x # a /\ a \in U
          <5>1. x \in U \ {a} /\ (U \ {x}) \ {a} = (U \ {a}) \ {x} /\ x \in T /\ a \in U \ {x}
            BY <4>2
          <5>2. g[U \ {a}] = f[x] + g[(U \ {a}) \ {x}]
            BY <2>1, <4>0, <5>1 DEF Sums
          <5>3. h[U] = f[a] + g[U \ {a}] /\ h[U \ {x}] = f[a] + g[(U \ {a}) \ {x}]
            BY <4>0, <4>2, <5>1
          <5>4. (U \ {a}) \ {x} \in SUBSET T
            BY <4>0
          <5>5. g[(U \ {a}) \ {x}] \in Int /\ f[x] \in Int
            BY <3>1, <5>1, <5>4
          <5> HIDE DEF h
          <5> QED
            BY <3>1, <5>2, <5>3, <5>5
        <4>3. CASE a \notin U
          <5>1. U \in SUBSET T /\ a \notin U \ {x}
            BY <4>3
          <5>2. h[U] = g[U] /\ h[U \ {x}] = g[U \ {x}]
            BY <4>0, <4>3, <5>1
          <5> QED
            BY <2>1, <5>1, <5>2 DEF Sums
        <4> QED
          BY <4>1, <4>2, <4>3
      <3>5. Sums(h, f, T \cup {a})
        <4> HIDE DEF h
        <4> QED
          BY <3>3, <3>4 DEF Sums
      <3> QED
        BY <3>5
    <2> QED
      BY <2>2, <2>3
  <1> HIDE DEF P
  <1>3. SUBSET S \subseteq P
    BY <1>1, <1>2, SubsetsInduct
  <1>4. S \in P
    BY <1>3
  <1> QED
    BY <1>4 DEF P

\* How a fold visits a set: it takes the element CHOOSE gives.
Visits(g, f, S) ==
    g = [T \in SUBSET S |-> IF T = {} THEN 0
                            ELSE f[CHOOSE x \in T : TRUE] + g[T \ {CHOOSE x \in T : TRUE}]]

(* A table is visited in any order. *)
LEMMA SumsVisit ==
    ASSUME NEW S, NEW f, NEW g, Sums(g, f, S)
    PROVE  Visits(g, f, S)
  <1>1. ASSUME NEW T \in SUBSET S
        PROVE  g[T] = IF T = {} THEN 0
                      ELSE f[CHOOSE x \in T : TRUE] + g[T \ {CHOOSE x \in T : TRUE}]
    BY DEF Sums
  <1> QED
    BY <1>1 DEF Sums, Visits

(* Whatever is visited that way ends with what any table of the sum says. *)
LEMMA VisitsAgree ==
    ASSUME NEW S, IsFiniteSet(S), NEW f, NEW g, Sums(g, f, S), NEW h, Visits(h, f, S)
    PROVE  h[S] = g[S]
  <1>2. Visits(g, f, S)
    BY SumsVisit
  <1>3. Visits(h, f, S)
    OBVIOUS
  <1> DEFINE P == {T \in SUBSET S : h[T] = g[T]}
  <1>4. ASSUME NEW T \in SUBSET S, T # {}, T \ {CHOOSE x \in T : TRUE} \in P
        PROVE  T \in P
    BY SMTT(30), <1>2, <1>3, <1>4 DEF Visits
  <1>5. {} \in P
    BY <1>2, <1>3 DEF Visits
  <1> DEFINE Sizes == {n \in Nat : \A T \in SUBSET S : Cardinality(T) = n => T \in P}
  <1>6. \A T \in SUBSET S : IsFiniteSet(T) /\ Cardinality(T) \in Nat
    BY FS_Subset, FS_CardinalityType
  <1>7. 0 \in Sizes
    <2>1. ASSUME NEW T \in SUBSET S, Cardinality(T) = 0
          PROVE  T \in P
      <3>1. T = {}
        BY <1>6, <2>1, FS_EmptySet
      <3> HIDE DEF P
      <3> QED
        BY <1>5, <3>1
    <2> HIDE DEF P
    <2> QED
      BY <2>1
  <1>8. ASSUME NEW n \in Nat, n \in Sizes
        PROVE  n + 1 \in Sizes
    <2>1. ASSUME NEW T \in SUBSET S, Cardinality(T) = n + 1
          PROVE  T \in P
      <3> DEFINE x == CHOOSE x \in T : TRUE
      <3>1. T # {}
        BY <1>6, <2>1, FS_EmptySet
      <3>2. x \in T
        BY <3>1
      <3>3. Cardinality(T \ {x}) = n
        <4> HIDE DEF x
        <4> QED
          BY <1>6, <2>1, <3>2, FS_RemoveElement
      <3>4. T \ {x} \in P
        BY <1>8, <3>3
      <3> HIDE DEF P
      <3> QED
        BY <1>4, <3>1, <3>4
    <2> HIDE DEF P
    <2> QED
      BY <2>1
  <1>9. Nat \subseteq Sizes
    <2> HIDE DEF Sizes
    <2> QED
      BY <1>7, <1>8, NumbersInduct
  <1>10. S \in P
    <2> HIDE DEF P
    <2> QED
      BY <1>6, <1>9
  <1> QED
    BY <1>10

(* The sum over nothing, over one element more, and over a part. *)
(* The sum is what any of its tables says, whatever the order. *)
LEMMA SumOfIsSum ==
    ASSUME NEW S, IsFiniteSet(S), NEW f, NEW g, Sums(g, f, S)
    PROVE  SumOf(f, S) = g[S]
  <1> DEFINE h == CHOOSE i : Visits(i, f, S)
  <1>1. SumOf(f, S) = h[S]
    BY DEF SumOf, MapThenSumSet, MapThenFoldSet, Visits
  <1>2. Visits(g, f, S)
    BY SumsVisit
  <1>3. Visits(h, f, S)
    BY <1>2
  <1> HIDE DEF h
  <1> QED
    BY <1>1, <1>3, VisitsAgree

(* Nothing sums to zero. *)
LEMMA SumEmpty == ASSUME NEW f PROVE SumOf(f, {}) = 0
  <1>1. PICK g : Sums(g, f, {})
    BY FS_EmptySet, SumsExist
  <1> QED
    BY <1>1, FS_EmptySet, SumOfIsSum DEF Sums

(* One summand more. *)
LEMMA SumAdd ==
    ASSUME NEW S, IsFiniteSet(S), NEW f, NEW a, a \notin S, \A x \in S \cup {a} : f[x] \in Int
    PROVE  SumOf(f, S \cup {a}) = f[a] + SumOf(f, S) /\ SumOf(f, S) \in Int
  <1> DEFINE R == S \cup {a}
  <1>1. IsFiniteSet(R)
    BY FS_AddElement
  <1>2. PICK g : Sums(g, f, R)
    <2> HIDE DEF R
    <2> QED
      BY <1>1, SumsExist DEF R
  <1>3. g[R] = f[a] + g[S] /\ g[S] \in Int
    <2>1. R \in SUBSET R /\ a \in R /\ R \ {a} = S /\ S \in SUBSET R
      OBVIOUS
    <2> HIDE DEF R
    <2> QED
      BY <1>2, <2>1 DEF Sums
  <1>4. SumOf(f, R) = g[R]
    <2> HIDE DEF R
    <2> QED
      BY <1>1, <1>2, SumOfIsSum
  <1> DEFINE h == [T \in SUBSET S |-> g[T]]
  <1>5. Sums(h, f, S)
    <2>1. \A T \in SUBSET S : T \in SUBSET R /\ h[T] = g[T] /\ \A x \in T : T \ {x} \in SUBSET S
      OBVIOUS
    <2> HIDE DEF R
    <2>2. h \in [SUBSET S -> Int] /\ h[{}] = 0
      BY <1>2, <2>1 DEF Sums
    <2>3. ASSUME NEW T \in SUBSET S, NEW x \in T
          PROVE  h[T] = f[x] + h[T \ {x}]
      BY <1>2, <2>1 DEF Sums
    <2> HIDE DEF h
    <2> QED
      BY <2>2, <2>3 DEF Sums
  <1>6. SumOf(f, S) = h[S]
    <2> HIDE DEF h
    <2> QED
      BY <1>5, SumOfIsSum
  <1> QED
    BY <1>3, <1>4, <1>6

(* A sum of integers is one. *)
LEMMA SumType ==
    ASSUME NEW S, IsFiniteSet(S), NEW f, \A x \in S : f[x] \in Int
    PROVE  SumOf(f, S) \in Int
  <1>1. PICK g : Sums(g, f, S)
    BY SumsExist
  <1>2. SumOf(f, S) = g[S]
    BY <1>1, SumOfIsSum
  <1> QED
    BY <1>1, <1>2 DEF Sums

(* The sum without an element. *)
LEMMA SumRemove ==
    ASSUME NEW S, IsFiniteSet(S), NEW f, NEW a \in S, \A x \in S : f[x] \in Int
    PROVE  SumOf(f, S) = f[a] + SumOf(f, S \ {a}) /\ SumOf(f, S \ {a}) \in Int
  <1>1. IsFiniteSet(S \ {a}) /\ (S \ {a}) \cup {a} = S
    BY FS_RemoveElement
  <1> DEFINE R == S \ {a}
  <1>2. IsFiniteSet(R) /\ R \cup {a} = S /\ a \notin R
    BY <1>1
  <1> HIDE DEF R
  <1>3. SumOf(f, R \cup {a}) = f[a] + SumOf(f, R) /\ SumOf(f, R) \in Int
    BY <1>2, SumAdd
  <1> QED
    BY <1>2, <1>3 DEF R

(* Functions that agree on a set have the same sum over it. *)
LEMMA SumSame ==
    ASSUME NEW S, IsFiniteSet(S), NEW f, NEW h, \A x \in S : f[x] \in Int /\ h[x] = f[x]
    PROVE  SumOf(h, S) = SumOf(f, S)
  <1>1. PICK g : Sums(g, f, S)
    BY SumsExist
  <1>2. Sums(g, h, S)
    <2>1. ASSUME NEW T \in SUBSET S, NEW x \in T
          PROVE  g[T] = h[x] + g[T \ {x}]
      <3>1. x \in S /\ h[x] = f[x]
        OBVIOUS
      <3> QED
        BY <1>1, <3>1 DEF Sums
    <2> QED
      BY <1>1, <2>1 DEF Sums
  <1> QED
    BY <1>1, <1>2, SumOfIsSum

(* The sums of two functions add up. *)
LEMMA SumPlus ==
    ASSUME NEW S, IsFiniteSet(S), NEW f, NEW h, NEW k,
           \A x \in S : f[x] \in Int /\ h[x] \in Int /\ k[x] = f[x] + h[x]
    PROVE  SumOf(k, S) = SumOf(f, S) + SumOf(h, S)
  <1>1. PICK g : Sums(g, f, S)
    BY SumsExist
  <1>2. PICK i : Sums(i, h, S)
    BY SumsExist
  <1> DEFINE j == [T \in SUBSET S |-> g[T] + i[T]]
  <1>3. Sums(j, k, S)
    <2>1. g \in [SUBSET S -> Int] /\ i \in [SUBSET S -> Int] /\ g[{}] = 0 /\ i[{}] = 0
      BY <1>1, <1>2 DEF Sums
    <2>2. j \in [SUBSET S -> Int] /\ j[{}] = 0
      BY <2>1
    <2>3. ASSUME NEW T \in SUBSET S, NEW x \in T
          PROVE  j[T] = k[x] + j[T \ {x}]
      <3>1. T \ {x} \in SUBSET S /\ x \in S
        OBVIOUS
      <3>2. /\ g[T] = f[x] + g[T \ {x}] /\ i[T] = h[x] + i[T \ {x}]
            /\ j[T] = g[T] + i[T] /\ j[T \ {x}] = g[T \ {x}] + i[T \ {x}]
        BY <1>1, <1>2, <3>1 DEF Sums
      <3>3. /\ g[T \ {x}] \in Int /\ i[T \ {x}] \in Int /\ f[x] \in Int /\ h[x] \in Int
            /\ k[x] = f[x] + h[x]
        BY <2>1, <3>1
      <3> HIDE DEF j
      <3> QED
        BY <3>2, <3>3
    <2> HIDE DEF j
    <2> QED
      BY <2>2, <2>3 DEF Sums
  <1>4. SumOf(k, S) = j[S]
    <2> HIDE DEF j
    <2> QED
      BY <1>3, SumOfIsSum
  <1> QED
    BY <1>1, <1>2, <1>4, SumOfIsSum

(* Where nothing is, the sum is nothing. *)
LEMMA SumZero ==
    ASSUME NEW S, IsFiniteSet(S), NEW f, \A x \in S : f[x] = 0
    PROVE  SumOf(f, S) = 0
  <1> DEFINE g == [T \in SUBSET S |-> 0]
  <1>1. Sums(g, f, S)
    <2>1. ASSUME NEW T \in SUBSET S, NEW x \in T
          PROVE  g[T] = f[x] + g[T \ {x}]
      OBVIOUS
    <2> QED
      BY <2>1 DEF Sums
  <1> HIDE DEF g
  <1>2. SumOf(f, S) = g[S]
    BY <1>1, SumOfIsSum
  <1> QED
    BY <1>2 DEF g

(* One element changes, and the sum by as much. *)
LEMMA SumChange ==
    ASSUME NEW S, IsFiniteSet(S), NEW f, NEW h, NEW a \in S, \A x \in S : f[x] \in Int /\ h[x] \in Int,
           \A x \in S : x # a => h[x] = f[x]
    PROVE  SumOf(h, S) = SumOf(f, S) + (h[a] - f[a])
  <1> DEFINE R == S \ {a}
  <1>1. IsFiniteSet(R)
    BY FS_RemoveElement
  <1>2. /\ SumOf(f, S) = f[a] + SumOf(f, R) /\ SumOf(f, R) \in Int
        /\ SumOf(h, S) = h[a] + SumOf(h, R)
    BY SumRemove
  <1>3. SumOf(h, R) = SumOf(f, R)
    BY <1>1, SumSame
  <1> QED
    BY <1>2, <1>3

(* A sum over what is worth nothing outside a part is the sum over that part. *)
LEMMA SumPart ==
    ASSUME NEW S, IsFiniteSet(S), NEW T \in SUBSET S, NEW f, NEW h,
           \A x \in S : f[x] \in Int, \A x \in S : h[x] = IF x \in T THEN f[x] ELSE 0
    PROVE  SumOf(h, S) = SumOf(f, T)
  <1>1. PICK g : Sums(g, f, S)
    BY SumsExist
  <1> DEFINE i == [U \in SUBSET S |-> g[U \cap T]]
  <1>2. g \in [SUBSET S -> Int] /\ g[{}] = 0
    BY <1>1 DEF Sums
  <1>3. \A U \in SUBSET S : U \cap T \in SUBSET S
    OBVIOUS
  <1>4. i \in [SUBSET S -> Int] /\ i[{}] = 0
    BY <1>2, <1>3
  <1>5. ASSUME NEW U \in SUBSET S, NEW x \in U
        PROVE  i[U] = h[x] + i[U \ {x}]
    <2>1. U \ {x} \in SUBSET S /\ x \in S /\ i[U] = g[U \cap T] /\ i[U \ {x}] = g[(U \ {x}) \cap T]
      OBVIOUS
    <2>2. CASE x \in T
      <3>1. x \in U \cap T /\ (U \ {x}) \cap T = (U \cap T) \ {x} /\ h[x] = f[x]
        BY <2>1, <2>2
      <3> HIDE DEF i
      <3> QED
        BY <1>1, <1>3, <2>1, <3>1 DEF Sums
    <2>3. CASE x \notin T
      <3>1. (U \ {x}) \cap T = U \cap T /\ h[x] = 0
        BY <2>1, <2>3
      <3>2. g[U \cap T] \in Int
        BY <1>2, <1>3
      <3>3. i[U] = g[U \cap T] /\ i[U \ {x}] = g[U \cap T]
        BY <2>1, <3>1
      <3> HIDE DEF i
      <3> QED
        BY <3>1, <3>2, <3>3
    <2> QED
      BY <2>2, <2>3
  <1>6. Sums(i, h, S)
    <2> HIDE DEF i
    <2> QED
      BY <1>4, <1>5 DEF Sums
  <1>7. SumOf(h, S) = g[T]
    <2>1. i[S] = g[T]
      <3>1. S \cap T = T
        OBVIOUS
      <3> QED
        BY <3>1
    <2> HIDE DEF i
    <2> QED
      BY <1>6, <2>1, SumOfIsSum
  <1> DEFINE j == [U \in SUBSET T |-> g[U]]
  <1>8. Sums(j, f, T)
    <2>1. \A U \in SUBSET T : U \in SUBSET S /\ j[U] = g[U] /\ \A x \in U : U \ {x} \in SUBSET T
      OBVIOUS
    <2>2. j \in [SUBSET T -> Int] /\ j[{}] = 0
      BY <1>2, <2>1
    <2>3. ASSUME NEW U \in SUBSET T, NEW x \in U
          PROVE  j[U] = f[x] + j[U \ {x}]
      BY <1>1, <2>1 DEF Sums
    <2> HIDE DEF j
    <2> QED
      BY <2>2, <2>3 DEF Sums
  <1>9. IsFiniteSet(T)
    BY FS_Subset
  <1>10. SumOf(f, T) = j[T]
    <2> HIDE DEF j
    <2> QED
      BY <1>8, <1>9, SumOfIsSum
  <1> QED
    BY <1>7, <1>10

(* A sum of natural numbers is one. *)
LEMMA SumNat ==
    ASSUME NEW S, IsFiniteSet(S), NEW f, \A x \in S : f[x] \in Nat
    PROVE  SumOf(f, S) \in Nat
  <1> DEFINE P == {T \in SUBSET S : SumOf(f, T) \in Nat}
  <1>1. {} \in P
    BY SumEmpty
  <1>2. ASSUME NEW T \in SUBSET S, NEW x \in S, T \in P
        PROVE  T \cup {x} \in P
    <2>1. CASE x \in T
      <3>1. T \cup {x} = T
        BY <2>1
      <3> HIDE DEF P
      <3> QED
        BY <1>2, <3>1
    <2>2. CASE x \notin T
      <3>1. IsFiniteSet(T)
        BY FS_Subset
      <3>2. \A y \in T \cup {x} : f[y] \in Int
        OBVIOUS
      <3>3. SumOf(f, T \cup {x}) = f[x] + SumOf(f, T)
        BY <2>2, <3>1, <3>2, SumAdd
      <3>4. SumOf(f, T) \in Nat /\ f[x] \in Nat
        BY <1>2
      <3> QED
        BY <3>3, <3>4
    <2> QED
      BY <2>1, <2>2
  <1>3. SUBSET S \subseteq P
    <2> HIDE DEF P
    <2> QED
      BY <1>1, <1>2, SubsetsInduct
  <1> QED
    BY <1>3

-----------------------------------------------------------------------------
(* Sums of the units of rows *)

UnitSum(r, S) == MapThenSumSet(LAMBDA x : r[x].units, S)

UnitVisits(g, r, S) ==
    g = [T \in SUBSET S |-> IF T = {} THEN 0
            ELSE r[CHOOSE x \in T : TRUE].units + g[T \ {CHOOSE x \in T : TRUE}]]

(* It is the sum of the function that gives the units of a row. *)
LEMMA UnitSumIsSum ==
    ASSUME NEW S, IsFiniteSet(S), NEW r, NEW f, \A x \in S : f[x] \in Int /\ f[x] = r[x].units
    PROVE  UnitSum(r, S) = SumOf(f, S)
  <1> DEFINE h == CHOOSE i : UnitVisits(i, r, S)
  <1>1. UnitSum(r, S) = h[S]
    BY DEF UnitSum, MapThenSumSet, MapThenFoldSet, UnitVisits
  <1>2. PICK g : Sums(g, f, S)
    BY SumsExist
  <1>3. ASSUME NEW i
        PROVE  UnitVisits(i, r, S) <=> Visits(i, f, S)
    <2> DEFINE A == [T \in SUBSET S |-> IF T = {} THEN 0
                        ELSE r[CHOOSE x \in T : TRUE].units + i[T \ {CHOOSE x \in T : TRUE}]]
               C == [T \in SUBSET S |-> IF T = {} THEN 0
                        ELSE f[CHOOSE x \in T : TRUE] + i[T \ {CHOOSE x \in T : TRUE}]]
    <2>1. ASSUME NEW T \in SUBSET S
          PROVE  A[T] = C[T]
      OBVIOUS
    <2>2. A = C
      BY <2>1
    <2> QED
      BY <2>2 DEF UnitVisits, Visits
  <1>4. UnitVisits(g, r, S)
    BY <1>2, <1>3, SumsVisit
  <1>5. UnitVisits(h, r, S)
    BY <1>4
  <1> HIDE DEF h
  <1>6. Visits(h, f, S)
    BY <1>3, <1>5
  <1> QED
    BY <1>1, <1>2, <1>6, VisitsAgree, SumOfIsSum

(* The first of a sequence of numbers, and the rest. *)
LEMMA SumShift ==
    ASSUME NEW n \in Nat, NEW f, \A i \in 1..(n + 1) : f[i] \in Int,
           NEW h, \A i \in 1..n : h[i] = f[i + 1]
    PROVE  SumOf(f, 1..(n + 1)) = f[1] + SumOf(h, 1..n)
  <1> DEFINE P == {m \in Nat : m <= n => SumOf(f, 1..(m + 1)) = f[1] + SumOf(h, 1..m)}
  <1>1. 0 \in P
    <2>1. 1..(0 + 1) = {1} /\ 1..0 = {}
      OBVIOUS
    <2>2. 1 \notin {} /\ IsFiniteSet({}) /\ \A x \in {} \cup {1} : f[x] \in Int
      BY FS_EmptySet
    <2>3. SumOf(f, {} \cup {1}) = f[1] + SumOf(f, {})
      BY <2>2, SumAdd
    <2>4. {} \cup {1} = {1}
      OBVIOUS
    <2> QED
      BY <2>1, <2>3, <2>4, SumEmpty
  <1>2. ASSUME NEW m \in Nat, m \in P
        PROVE  m + 1 \in P
    <2>1. ASSUME m + 1 <= n
          PROVE  SumOf(f, 1..((m + 1) + 1)) = f[1] + SumOf(h, 1..(m + 1))
      <3> DEFINE F == 1..(m + 1)
                 H == 1..m
      <3>0. IsFiniteSet(F) /\ IsFiniteSet(H)
        BY FS_Interval
      <3>1. /\ (m + 1) + 1 \notin F /\ 1..((m + 1) + 1) = F \cup {(m + 1) + 1}
            /\ m + 1 \notin H /\ F = H \cup {m + 1}
        OBVIOUS
      <3>2. SumOf(f, F) = f[1] + SumOf(h, H)
        BY <1>2, <2>1
      <3>3. /\ \A x \in F \cup {(m + 1) + 1} : f[x] \in Int
            /\ \A x \in H \cup {m + 1} : h[x] \in Int
            /\ h[m + 1] = f[(m + 1) + 1] /\ f[1] \in Int /\ h[m + 1] \in Int
        BY <2>1
      <3> HIDE DEF F, H
      <3>4. SumOf(f, F \cup {(m + 1) + 1}) = f[(m + 1) + 1] + SumOf(f, F) /\ SumOf(f, F) \in Int
        BY <3>0, <3>1, <3>3, SumAdd
      <3>5. SumOf(h, H \cup {m + 1}) = h[m + 1] + SumOf(h, H) /\ SumOf(h, H) \in Int
        BY <3>0, <3>1, <3>3, SumAdd
      <3>6. SumOf(h, F) = h[m + 1] + SumOf(h, H)
        BY <3>1, <3>5
      <3>7. SumOf(f, F \cup {(m + 1) + 1}) = f[1] + SumOf(h, F)
        BY <3>2, <3>3, <3>4, <3>5, <3>6
      <3> QED
        BY <3>1, <3>7 DEF F
    <2> QED
      BY <2>1
  <1>3. Nat \subseteq P
    <2> HIDE DEF P
    <2> QED
      BY <1>1, <1>2, NumbersInduct
  <1> QED
    BY <1>3


-----------------------------------------------------------------------------
(* Sums that are no greater *)
(* Part of the summands, where none is negative. *)
LEMMA SumLess ==
    ASSUME NEW S, IsFiniteSet(S), NEW T \in SUBSET S, NEW f, \A x \in S : f[x] \in Nat
    PROVE  SumOf(f, T) <= SumOf(f, S)
  <1> DEFINE Q == S \ T
             P == {D \in SUBSET Q : SumOf(f, T) <= SumOf(f, T \cup D)}
  <1>1. IsFiniteSet(T) /\ IsFiniteSet(Q)
    BY FS_Subset
  <1>2. {} \in P
    <2>1. T \cup {} = T /\ SumOf(f, T) \in Nat
      BY <1>1, SumNat
    <2> QED
      BY <2>1
  <1>3. ASSUME NEW D \in SUBSET Q, NEW x \in Q, D \in P
        PROVE  D \cup {x} \in P
    <2> DEFINE R == T \cup D
    <2>1. CASE x \in D
      <3>1. D \cup {x} = D
        BY <2>1
      <3> HIDE DEF P
      <3> QED
        BY <1>3, <3>1
    <2>2. CASE x \notin D
      <3>1. IsFiniteSet(R) /\ x \notin R /\ T \cup (D \cup {x}) = R \cup {x} /\ D \cup {x} \in SUBSET Q
        BY <2>2, FS_Subset
      <3>2. \A y \in R \cup {x} : f[y] \in Nat /\ f[y] \in Int
        OBVIOUS
      <3>3. SumOf(f, T) <= SumOf(f, R)
        BY <1>3
      <3> HIDE DEF R
      <3>4. SumOf(f, R \cup {x}) = f[x] + SumOf(f, R) /\ SumOf(f, R) \in Int /\ f[x] \in Nat
        BY <3>1, <3>2, SumAdd
      <3>5. SumOf(f, T) \in Nat
        BY <1>1, SumNat
      <3>6. SumOf(f, T) <= SumOf(f, R \cup {x})
        BY <3>3, <3>4, <3>5
      <3> QED
        BY <3>1, <3>6
    <2> QED
      BY <2>1, <2>2
  <1>4. SUBSET Q \subseteq P
    <2> HIDE DEF P, Q
    <2> QED
      BY <1>1, <1>2, <1>3, SubsetsInduct
  <1>5. T \cup Q = S /\ Q \in P
    BY <1>4
  <1> QED
    BY <1>5

(* Summands that have another to exceed them, each its own, have no greater sum. *)
LEMMA SumInject ==
    ASSUME NEW A, IsFiniteSet(A), NEW B, IsFiniteSet(B), NEW f, NEW g, NEW h,
           \A x \in A : f[x] \in Nat /\ h[x] \in B /\ f[x] <= g[h[x]],
           \A y \in B : g[y] \in Nat,
           \A x, y \in A : h[x] = h[y] => x = y
    PROVE  SumOf(f, A) <= SumOf(g, B)
  <1> DEFINE I(T) == {h[x] : x \in T}
             P == {T \in SUBSET A : SumOf(f, T) <= SumOf(g, I(T))}
  <1>1. \A T \in SUBSET A : /\ IsFiniteSet(T) /\ I(T) \in SUBSET B
    BY FS_Subset
  <1>2. \A T \in SUBSET A : IsFiniteSet(I(T))
    BY <1>1, FS_Subset
  <1>3. {} \in P
    <2>1. I({}) = {}
      OBVIOUS
    <2> HIDE DEF I
    <2>2. SumOf(f, {}) = 0 /\ SumOf(g, I({})) = 0
      BY <2>1, SumEmpty
    <2> QED
      BY <2>2
  <1>4. ASSUME NEW T \in SUBSET A, NEW x \in A, T \in P
        PROVE  T \cup {x} \in P
    <2>1. CASE x \in T
      <3>1. T \cup {x} = T
        BY <2>1
      <3> HIDE DEF P
      <3> QED
        BY <1>4, <3>1
    <2>2. CASE x \notin T
      <3>1. h[x] \notin I(T) /\ I(T \cup {x}) = I(T) \cup {h[x]} /\ h[x] \in B
        BY <2>2
      <3>2. /\ IsFiniteSet(T) /\ IsFiniteSet(I(T)) /\ I(T) \in SUBSET B
            /\ SumOf(f, T) <= SumOf(g, I(T))
        BY <1>1, <1>2, <1>4
      <3> HIDE DEF I
      <3>3. SumOf(f, T \cup {x}) = f[x] + SumOf(f, T) /\ SumOf(f, T) \in Int
        <4>1. \A y \in T \cup {x} : f[y] \in Int
          OBVIOUS
        <4> QED
          BY <2>2, <3>2, <4>1, SumAdd
      <3>4. SumOf(g, I(T) \cup {h[x]}) = g[h[x]] + SumOf(g, I(T)) /\ SumOf(g, I(T)) \in Int
        <4>1. \A y \in I(T) \cup {h[x]} : g[y] \in Int
          BY <3>1, <3>2
        <4> QED
          BY <3>1, <3>2, <4>1, SumAdd
      <3>5. f[x] \in Nat /\ g[h[x]] \in Nat /\ f[x] <= g[h[x]]
        BY <3>1
      <3>6. SumOf(f, T \cup {x}) <= SumOf(g, I(T) \cup {h[x]})
        BY <3>2, <3>3, <3>4, <3>5
      <3> QED
        BY <3>1, <3>6
    <2> QED
      BY <2>1, <2>2
  <1>5. SUBSET A \subseteq P
    <2> HIDE DEF P
    <2> QED
      BY <1>3, <1>4, SubsetsInduct
  <1>6. SumOf(f, A) <= SumOf(g, I(A)) /\ I(A) \in SUBSET B
    BY <1>1, <1>5
  <1>7. SumOf(f, A) \in Nat
    BY SumNat
  <1> HIDE DEF I
  <1>8. SumOf(g, I(A)) <= SumOf(g, B)
    BY <1>6, SumLess
  <1>9. SumOf(g, I(A)) \in Nat /\ SumOf(g, B) \in Nat
    <2>1. IsFiniteSet(I(A)) /\ \A y \in I(A) : g[y] \in Nat
      BY <1>2, <1>6
    <2> QED
      BY <2>1, SumNat
  <1> QED
    BY <1>6, <1>7, <1>8, <1>9
=============================================================================
