--------------------------- MODULE CatalogueProofs ---------------------------
(* Proofs about Dates.tla and Tree.tla, and about MCCatalogue.tla, which composes
   them.

   First the chain of categories above a product, a recursive function, and what the
   resolution of the rules reads of it; the invariant of Dates, one lemma per action,
   and its theorems.  Then the walks over a tree, which stop at MaxTreeDepth, the rank
   that shows a forest to be one, the invariant of Tree, and its theorem. *)
EXTENDS MCCatalogue, Induction

-----------------------------------------------------------------------------
(* The chain of categories above a product *)

\* f climbs m steps from k by the parents in above.
Climb(f, above, k, m) ==
    f = [n \in 0..m |->
           IF n = 0 THEN k ELSE IF f[n - 1] = Nothing THEN Nothing ELSE above[f[n - 1]]]

N == Cardinality(Category)

(* There are finitely many categories. *)
LEMMA CategoriesFinite == N \in Nat
  <1>1. IsFiniteSet(Rule) /\ Category \subseteq Rule
    BY DatesAssumption DEF Rule
  <1> QED
    BY <1>1, FS_Subset, FS_CardinalityType DEF N

(* A climb of every length exists. *)
LEMMA ClimbExists ==
    ASSUME NEW above, NEW k, NEW m \in Nat
    PROVE  \E f : Climb(f, above, k, m)
  <1> DEFINE S == {i \in Nat : \E f : Climb(f, above, k, i)}
  <1>1. 0 \in S
    <2>1. Climb([n \in 0..0 |-> k], above, k, 0)
      BY DEF Climb
    <2> QED
      BY <2>1
  <1>2. ASSUME NEW i \in Nat, i \in S
        PROVE  i + 1 \in S
    <2>1. PICK f : Climb(f, above, k, i)
      BY <1>2
    <2> DEFINE g == [n \in 0..(i + 1) |->
                       IF n = i + 1 THEN IF f[i] = Nothing THEN Nothing ELSE above[f[i]] ELSE f[n]]
    <2>2. ASSUME NEW n \in 0..(i + 1)
          PROVE  g[n] = IF n = 0 THEN k
                        ELSE IF g[n - 1] = Nothing THEN Nothing ELSE above[g[n - 1]]
      <3>1. CASE n = i + 1
        <4>1. n # 0 /\ n - 1 = i /\ n - 1 \in 0..(i + 1) /\ n - 1 # i + 1
          BY <3>1
        <4>2. g[n - 1] = f[i]
          BY <4>1
        <4> QED
          BY <3>1, <4>1, <4>2
      <3>2. CASE n # i + 1 /\ n # 0
        <4>1. n \in 0..i /\ n - 1 \in 0..i
          BY <3>2
        <4>2. g[n] = f[n] /\ g[n - 1] = f[n - 1]
          BY <3>2, <4>1
        <4> QED
          BY <2>1, <3>2, <4>1, <4>2 DEF Climb
      <3>3. CASE n = 0
        BY <2>1, <3>3 DEF Climb
      <3> QED
        BY <3>1, <3>2, <3>3
    <2>3. Climb(g, above, k, i + 1)
      BY <2>2 DEF Climb
    <2>4. \E h : Climb(h, above, k, i + 1)
      BY <2>3
    <2> QED
      BY <2>4
  <1> HIDE DEF S
  <1>3. Nat \subseteq S
    BY <1>1, <1>2, NumbersInduct
  <1> QED
    BY <1>3 DEF S

(* No two climbs from one category differ. *)
LEMMA ClimbUnique ==
    ASSUME NEW above, NEW k, NEW m \in Nat, NEW f, NEW g,
           Climb(f, above, k, m), Climb(g, above, k, m)
    PROVE  f = g
  <1> DEFINE S == {i \in Nat : i <= m => f[i] = g[i]}
  <1>1. 0 \in S
    BY DEF Climb
  <1>2. ASSUME NEW i \in Nat, i \in S
        PROVE  i + 1 \in S
    <2> SUFFICES ASSUME i + 1 <= m
                 PROVE  f[i + 1] = g[i + 1]
      OBVIOUS
    <2>1. f[i] = g[i] /\ i + 1 \in 0..m /\ (i + 1) - 1 = i /\ i + 1 # 0
      BY <1>2
    <2> QED
      BY <2>1 DEF Climb
  <1> HIDE DEF S
  <1>3. Nat \subseteq S
    BY <1>1, <1>2, NumbersInduct
  <1>4. \A i \in 0..m : f[i] = g[i]
    BY <1>3 DEF S
  <1>5. /\ f = [n \in 0..m |-> f[n]]
        /\ g = [n \in 0..m |-> g[n]]
    BY DEF Climb
  <1> QED
    BY <1>4, <1>5

(* Ancestry is the climb from k to the top. *)
LEMMA AncestryClimbs ==
    ASSUME NEW r, NEW k
    PROVE  Climb(Ancestry(r, k), r.above, k, N)
  <1>1. Ancestry(r, k) = CHOOSE f : Climb(f, r.above, k, N)
    BY Zenon DEF Ancestry, Climb, N
  <1>2. \E f : Climb(f, r.above, k, N)
    BY ClimbExists, CategoriesFinite
  <1> QED
    BY <1>1, <1>2, Zenon

(* What stands above a category is a category, or nothing. *)
LEMMA AncestryTypes ==
    ASSUME NEW r, NEW k \in Category \cup {Nothing},
           r.above \in [Category -> Category \cup {Nothing}]
    PROVE  /\ DOMAIN Ancestry(r, k) = 0..N
           /\ \A n \in 0..N : Ancestry(r, k)[n] \in Category \cup {Nothing}
  <1> DEFINE f == Ancestry(r, k)
  <1>1. Climb(f, r.above, k, N)
    BY AncestryClimbs
  <1> HIDE DEF f
  <1> DEFINE S == {i \in Nat : i <= N => f[i] \in Category \cup {Nothing}}
  <1>2. 0 \in S
    BY <1>1, CategoriesFinite DEF Climb
  <1>3. ASSUME NEW i \in Nat, i \in S
        PROVE  i + 1 \in S
    <2> SUFFICES ASSUME i + 1 <= N
                 PROVE  f[i + 1] \in Category \cup {Nothing}
      OBVIOUS
    <2>1. f[i] \in Category \cup {Nothing} /\ i + 1 \in 0..N /\ (i + 1) - 1 = i /\ i + 1 # 0
      BY <1>3, CategoriesFinite
    <2>2. f[i + 1] = IF f[i] = Nothing THEN Nothing ELSE r.above[f[i]]
      BY <1>1, <2>1 DEF Climb
    <2> QED
      BY <2>1, <2>2
  <1> HIDE DEF S
  <1>4. Nat \subseteq S
    BY <1>2, <1>3, NumbersInduct
  <1>5. \A n \in 0..N : f[n] \in Category \cup {Nothing}
    BY <1>4, CategoriesFinite DEF S
  <1>6. DOMAIN f = 0..N
    BY <1>1 DEF Climb
  <1> QED
    BY <1>5, <1>6 DEF f

(* A climb that does not pass the one category whose parent differs is the climb by
   the other parents too. *)
LEMMA AncestryAgrees ==
    ASSUME NEW r, NEW s, NEW k \in Category \cup {Nothing}, NEW moved,
           r.above \in [Category -> Category \cup {Nothing}],
           \A x \in Category : x # moved => r.above[x] = s.above[x],
           \A n \in 0..N : Ancestry(r, k)[n] # moved
    PROVE  Ancestry(r, k) = Ancestry(s, k)
  <1> DEFINE f == Ancestry(r, k)
  <1>1. Climb(f, r.above, k, N) /\ Climb(Ancestry(s, k), s.above, k, N)
    BY AncestryClimbs
  <1>2. \A n \in 0..N : f[n] # moved /\ f[n] \in Category \cup {Nothing}
    BY AncestryTypes
  <1> HIDE DEF f
  <1>3. ASSUME NEW n \in 0..N, n # 0, f[n - 1] # Nothing
        PROVE  r.above[f[n - 1]] = s.above[f[n - 1]]
    <2>1. n - 1 \in 0..N
      BY <1>3, CategoriesFinite
    <2> QED
      BY <1>2, <1>3, <2>1
  <1>4. Climb(f, s.above, k, N)
    BY <1>1, <1>3 DEF Climb
  <1>5. f = Ancestry(s, k)
    BY <1>1, <1>4, ClimbUnique, CategoriesFinite
  <1> QED
    BY <1>5 DEF f

(* Parents alone decide what stands above a category. *)
LEMMA AncestryByParents ==
    ASSUME NEW r, NEW s, NEW k, r.above = s.above
    PROVE  Ancestry(r, k) = Ancestry(s, k)
  BY AncestryClimbs, ClimbUnique, CategoriesFinite

-----------------------------------------------------------------------------
(* Rules *)

Parents == [Category -> Category \cup {Nothing}]

Rules ==
    [days : [Rule -> Shelf \cup {Nothing}], filed : [Product -> Category \cup {Nothing}],
     above : Parents, linked : [Product -> BOOLEAN], kind : [Product -> ItemType]]

\* What a change may write: a shelf life, the category of a product, the parent of a
\* category.
DaysWrites == [field : {"days"}, key : Rule, value : Shelf \cup {Nothing}]
FiledWrites == [field : {"filed"}, key : Product, value : Category \cup {Nothing}]
AboveWrites == [field : {"above"}, key : Category, value : Category \cup {Nothing}]
Writes == DaysWrites \cup FiledWrites \cup AboveWrites

(* What an overlaid write changes, and that it changes nothing else (Overlay). *)
LEMMA OverlayFields ==
    ASSUME NEW r \in Rules, NEW w \in Writes
    PROVE  /\ Overlay(r, w) \in Rules
           /\ Overlay(r, w).kind = r.kind /\ Overlay(r, w).linked = r.linked
           /\ w \in DaysWrites => /\ Overlay(r, w).days = [r.days EXCEPT ![w.key] = w.value]
                                 /\ Overlay(r, w).filed = r.filed /\ Overlay(r, w).above = r.above
           /\ w \in FiledWrites => /\ Overlay(r, w).filed = [r.filed EXCEPT ![w.key] = w.value]
                                  /\ Overlay(r, w).days = r.days /\ Overlay(r, w).above = r.above
           /\ w \in AboveWrites => /\ Overlay(r, w).above = [r.above EXCEPT ![w.key] = w.value]
                                  /\ Overlay(r, w).days = r.days /\ Overlay(r, w).filed = r.filed
  <1>1. Overlay(r, w) = [r EXCEPT ![w.field][w.key] = w.value]
    <2>1. w.key # Nothing
      BY DatesAssumption DEF Writes, DaysWrites, FiledWrites, AboveWrites, Rule
    <2> QED
      BY <2>1 DEF Overlay, NoWrite
  <1>2. CASE w \in DaysWrites
    <2>1. Overlay(r, w) = [r EXCEPT !.days = [r.days EXCEPT ![w.key] = w.value]]
      BY <1>1, <1>2 DEF DaysWrites, Rules
    <2>2. [r.days EXCEPT ![w.key] = w.value] \in [Rule -> Shelf \cup {Nothing}]
      BY <1>2 DEF DaysWrites, Rules
    <2> QED
      BY <1>2, <2>1, <2>2 DEF Rules, DaysWrites, FiledWrites, AboveWrites
  <1>3. CASE w \in FiledWrites
    <2>1. Overlay(r, w) = [r EXCEPT !.filed = [r.filed EXCEPT ![w.key] = w.value]]
      BY <1>1, <1>3 DEF FiledWrites, Rules
    <2>2. [r.filed EXCEPT ![w.key] = w.value] \in [Product -> Category \cup {Nothing}]
      BY <1>3 DEF FiledWrites, Rules
    <2> QED
      BY <1>3, <2>1, <2>2 DEF Rules, DaysWrites, FiledWrites, AboveWrites
  <1>4. CASE w \in AboveWrites
    <2>1. Overlay(r, w) = [r EXCEPT !.above = [r.above EXCEPT ![w.key] = w.value]]
      BY <1>1, <1>4 DEF AboveWrites, Rules
    <2>2. [r.above EXCEPT ![w.key] = w.value] \in Parents
      BY <1>4 DEF AboveWrites, Rules, Parents
    <2> QED
      BY <1>4, <2>1, <2>2 DEF Rules, DaysWrites, FiledWrites, AboveWrites
  <1> QED
    BY <1>2, <1>3, <1>4 DEF Writes

Least(T) == CHOOSE n \in T : \A m \in T : n <= m

\* The categories above p that have a shelf life, by their distance.
Stated(r, p) ==
    {n \in 0..N : /\ Ancestry(r, r.filed[p])[n] # Nothing
                  /\ r.days[Ancestry(r, r.filed[p])[n]] # Nothing}

(* The cascade of rules, with the walk to the nearest category named (Resolve). *)
LEMMA ResolveIs ==
    ASSUME NEW r \in Rules, NEW p \in Product
    PROVE  Resolve(r, p) =
             IF r.days[p] # Nothing THEN r.days[p]
             ELSE IF r.linked[p] /\ r.days[Entry] # Nothing THEN r.days[Entry]
             ELSE IF Stated(r, p) # {} THEN r.days[Ancestry(r, r.filed[p])[Least(Stated(r, p))]]
             ELSE ItemTypeFallbackDays[r.kind[p]]
  <1>1. r.filed[p] \in Category \cup {Nothing} /\ r.above \in Parents
    BY DEF Rules
  <1>2. DOMAIN Ancestry(r, r.filed[p]) = 0..N
    BY <1>1, AncestryTypes DEF Parents
  <1> QED
    BY <1>2 DEF Resolve, Stated, Least

(* The nearest category is one of them. *)
LEMMA LeastIn ==
    ASSUME NEW T, T \subseteq Nat, T # {}
    PROVE  Least(T) \in T
  <1>1. PICK x \in T : \A y \in T : ~(y < x)
    BY LeastNat
  <1>2. \A y \in T : x <= y
    BY <1>1
  <1> QED
    BY <1>2 DEF Least

(* A resolution is a number of days, or none. *)
LEMMA ResolveTypes ==
    ASSUME NEW r \in Rules, NEW p \in Product
    PROVE  Resolve(r, p) \in Nat \cup {Nothing}
  <1>1. \A x \in Rule : r.days[x] \in Nat \cup {Nothing}
    BY DatesAssumption DEF Rules
  <1>2. ASSUME Stated(r, p) # {}
        PROVE  Ancestry(r, r.filed[p])[Least(Stated(r, p))] \in Rule
    <2>1. Stated(r, p) \subseteq Nat
      BY CategoriesFinite DEF Stated
    <2>2. Least(Stated(r, p)) \in Stated(r, p)
      BY <1>2, <2>1, LeastIn
    <2>3. r.filed[p] \in Category \cup {Nothing} /\ r.above \in Parents
      BY DEF Rules
    <2>4. \A n \in 0..N : Ancestry(r, r.filed[p])[n] \in Category \cup {Nothing}
      BY <2>3, AncestryTypes DEF Parents
    <2>5. Ancestry(r, r.filed[p])[Least(Stated(r, p))] \in Category
      BY <2>2, <2>4 DEF Stated
    <2> QED
      BY <2>5 DEF Rule
  <1>3. r.kind[p] \in ItemType
    BY DEF Rules
  <1>4. ItemTypeFallbackDays[r.kind[p]] \in Nat \cup {Nothing}
    BY <1>3 DEF ItemTypeFallbackDays, ItemType
  <1>5. p \in Rule /\ Entry \in Rule
    BY DEF Rule
  <1> QED
    BY <1>1, <1>2, <1>4, <1>5, ResolveIs

(* Two states of the rules that agree on everything p's resolution reads give p the
   same days. *)
LEMMA ResolveAgrees ==
    ASSUME NEW r \in Rules, NEW s \in Rules, NEW p \in Product,
           r.days[p] = s.days[p], r.linked[p] = s.linked[p], r.kind[p] = s.kind[p],
           r.linked[p] /\ r.days[p] = Nothing => r.days[Entry] = s.days[Entry],
           r.filed[p] = s.filed[p],
           Ancestry(r, r.filed[p]) = Ancestry(s, s.filed[p]),
           \A n \in 0..N : LET x == Ancestry(r, r.filed[p])[n] IN x # Nothing => r.days[x] = s.days[x]
    PROVE  Resolve(r, p) = Resolve(s, p)
  <1>1. Stated(r, p) = Stated(s, p)
    BY DEF Stated
  <1>2. Stated(r, p) # {} => Least(Stated(r, p)) \in Stated(r, p)
    <2>1. Stated(r, p) \subseteq 0..N
      BY DEF Stated
    <2>2. Stated(r, p) \subseteq Nat
      BY <2>1, CategoriesFinite
    <2> QED
      BY Zenon, <2>2, LeastIn
  <1>3. Stated(r, p) # {} =>
          r.days[Ancestry(r, r.filed[p])[Least(Stated(r, p))]] =
          s.days[Ancestry(s, s.filed[p])[Least(Stated(s, p))]]
    BY <1>1, <1>2 DEF Stated
  <1> QED
    BY <1>1, <1>3, ResolveIs

\* The products whose dates a write bears on, in the rules r that include it.
Reach(r, w) ==
    IF w.key \in Category THEN ProductsUnderCategory(r, w.key)
    ELSE IF w.key = Entry THEN Linked(r)
    ELSE {w.key}

(* A product is under a category if its chain passes it (productsUnderCategory). *)
LEMMA UnderIs ==
    ASSUME NEW r \in Rules, NEW p \in Product, NEW k
    PROVE  p \in ProductsUnderCategory(r, k) <=> \E n \in 0..N : Ancestry(r, r.filed[p])[n] = k
  <1>1. r.filed[p] \in Category \cup {Nothing} /\ r.above \in Parents
    BY DEF Rules
  <1>2. DOMAIN Ancestry(r, r.filed[p]) = 0..N
    BY <1>1, AncestryTypes DEF Parents
  <1> QED
    BY <1>2 DEF ProductsUnderCategory

(* A write leaves a product it does not reach as it was: filed where it was, below
   the same categories, with the same rules of its own. *)
LEMMA OutOfReach ==
    ASSUME NEW r \in Rules, NEW w \in Writes, NEW p \in Product,
           p \notin Reach(Overlay(r, w), w)
    PROVE  LET s == Overlay(r, w)
           IN  /\ s.filed[p] = r.filed[p] /\ s.linked[p] = r.linked[p] /\ s.days[p] = r.days[p]
               /\ s.kind[p] = r.kind[p]
               /\ Ancestry(s, s.filed[p]) = Ancestry(r, r.filed[p])
               /\ Resolve(s, p) = Resolve(r, p)
  <1> DEFINE s == Overlay(r, w)
  <1>1. /\ s \in Rules
        /\ s.kind = r.kind /\ s.linked = r.linked
        /\ w \in DaysWrites => /\ s.days = [r.days EXCEPT ![w.key] = w.value]
                              /\ s.filed = r.filed /\ s.above = r.above
        /\ w \in FiledWrites => /\ s.filed = [r.filed EXCEPT ![w.key] = w.value]
                               /\ s.days = r.days /\ s.above = r.above
        /\ w \in AboveWrites => /\ s.above = [r.above EXCEPT ![w.key] = w.value]
                               /\ s.days = r.days /\ s.filed = r.filed
    BY OverlayFields
  <1>2. p \notin Reach(s, w)
    OBVIOUS
  <1> HIDE DEF s
  <1>3. w.key # p
    <2>1. w.key \in Rule /\ p \notin Category /\ p # Entry
      BY DatesAssumption DEF Writes, DaysWrites, FiledWrites, AboveWrites, Rule
    <2> QED
      BY <1>2, <2>1 DEF Reach
  <1>4. s.filed[p] = r.filed[p] /\ s.days[p] = r.days[p]
    BY <1>1, <1>3 DEF Writes, Rules, Rule
  <1>5. /\ r.filed[p] \in Category \cup {Nothing} /\ r.above \in Parents /\ s.above \in Parents
    BY <1>1 DEF Rules
  <1>6. w.key \in Category => \A n \in 0..N : Ancestry(s, s.filed[p])[n] # w.key
    BY <1>1, <1>2, UnderIs DEF Reach
  <1>7. Ancestry(s, r.filed[p]) = Ancestry(r, r.filed[p])
    <2>1. CASE w \in AboveWrites
      <3>1. w.key \in Category /\ \A x \in Category : x # w.key => s.above[x] = r.above[x]
        BY <1>1, <1>5, <2>1 DEF AboveWrites, Parents
      <3>2. \A n \in 0..N : Ancestry(s, r.filed[p])[n] # w.key
        BY <1>4, <1>6, <3>1
      <3> QED
        BY <1>5, <3>1, <3>2, AncestryAgrees DEF Parents
    <2>2. CASE w \notin AboveWrites
      BY <1>1, <2>2, AncestryByParents DEF Writes
    <2> QED
      BY <2>1, <2>2
  <1>8. Ancestry(s, s.filed[p]) = Ancestry(r, r.filed[p])
    BY <1>4, <1>7
  <1>9. ASSUME NEW n \in 0..N, Ancestry(s, s.filed[p])[n] # Nothing
        PROVE  s.days[Ancestry(s, s.filed[p])[n]] = r.days[Ancestry(s, s.filed[p])[n]]
    <2> DEFINE x == Ancestry(s, s.filed[p])[n]
    <2>1. x \in Category
      BY <1>4, <1>5, <1>9, AncestryTypes DEF Parents
    <2>2. x # w.key
      BY <1>6, <2>1
    <2>3. r.days \in [Rule -> Shelf \cup {Nothing}] /\ x \in Rule
      BY <2>1 DEF Rules, Rule
    <2> HIDE DEF x
    <2>4. s.days[x] = r.days[x]
      BY <1>1, <2>2, <2>3 DEF Writes
    <2> QED
      BY <2>4 DEF x
  <1>10. s.linked[p] /\ s.days[p] = Nothing => s.days[Entry] = r.days[Entry]
    <2> SUFFICES ASSUME s.linked[p], s.days[p] = Nothing
                 PROVE  s.days[Entry] = r.days[Entry]
      OBVIOUS
    <2>1. w.key # Entry
      <3>1. p \in Linked(s)
        BY DEF Linked
      <3> QED
        BY <1>2, <3>1, DatesAssumption DEF Reach
    <2>2. r.days \in [Rule -> Shelf \cup {Nothing}] /\ Entry \in Rule
      BY DEF Rules, Rule
    <2> QED
      BY <1>1, <2>1, <2>2 DEF Writes
  <1>11. Resolve(s, p) = Resolve(r, p)
    BY <1>1, <1>4, <1>8, <1>9, <1>10, ResolveAgrees
  <1> QED
    BY <1>1, <1>4, <1>8, <1>11 DEF s

(* Whether another write reaches a product depends on the product's own rows and on
   the categories above it. *)
LEMMA ReachAgrees ==
    ASSUME NEW r \in Rules, NEW s \in Rules, NEW v \in Writes, NEW p \in Product,
           s.filed[p] = r.filed[p], s.linked[p] = r.linked[p], s.days[p] = r.days[p],
           Ancestry(s, s.filed[p]) = Ancestry(r, r.filed[p]),
           v \in AboveWrites => s.above = r.above
    PROVE  p \in Reach(Overlay(s, v), v) <=> p \in Reach(Overlay(r, v), v)
  <1> DEFINE r1 == Overlay(r, v)
             s1 == Overlay(s, v)
  <1>1. /\ r1 \in Rules /\ s1 \in Rules /\ s1.linked = s.linked /\ r1.linked = r.linked
        /\ v \in DaysWrites => /\ r1.days = [r.days EXCEPT ![v.key] = v.value]
                              /\ s1.days = [s.days EXCEPT ![v.key] = v.value]
                              /\ r1.filed = r.filed /\ r1.above = r.above
                              /\ s1.filed = s.filed /\ s1.above = s.above
        /\ v \in FiledWrites => r1.days = r.days /\ s1.days = s.days
        /\ v \in AboveWrites => /\ r1.above = [r.above EXCEPT ![v.key] = v.value]
                               /\ s1.above = [s.above EXCEPT ![v.key] = v.value]
                               /\ r1.filed = r.filed /\ s1.filed = s.filed
    BY OverlayFields
  <1> HIDE DEF r1, s1
  <1>2. CASE v.key \in Category
    <2>1. v \in DaysWrites \/ v \in AboveWrites
      BY <1>2, DatesAssumption DEF Writes, FiledWrites
    <2>2. Ancestry(s1, s1.filed[p]) = Ancestry(r1, r1.filed[p])
      <3>1. CASE v \in DaysWrites
        <4>1. Ancestry(s1, s.filed[p]) = Ancestry(s, s.filed[p])
          BY <1>1, <3>1, AncestryByParents
        <4>2. Ancestry(r1, r.filed[p]) = Ancestry(r, r.filed[p])
          BY <1>1, <3>1, AncestryByParents
        <4> QED
          BY <1>1, <3>1, <4>1, <4>2
      <3>2. CASE v \in AboveWrites
        <4>1. s1.above = r1.above
          BY <1>1, <3>2
        <4> QED
          BY <1>1, <3>2, <4>1, AncestryByParents
      <3> QED
        BY <2>1, <3>1, <3>2
    <2>3. p \in ProductsUnderCategory(s1, v.key) <=> p \in ProductsUnderCategory(r1, v.key)
      BY <1>1, <2>2, UnderIs
    <2> QED
      BY <1>2, <2>3 DEF Reach, r1, s1
  <1>3. CASE v.key = Entry
    <2>1. v \in DaysWrites /\ Entry \notin Category /\ Entry # p
      BY <1>3, DatesAssumption DEF Writes, FiledWrites, AboveWrites
    <2>2. r.days \in [Rule -> Shelf \cup {Nothing}] /\ s.days \in [Rule -> Shelf \cup {Nothing}] /\ p \in Rule
      BY DEF Rules, Rule
    <2>3. s1.days[p] = s.days[p] /\ r1.days[p] = r.days[p]
      BY <1>1, <1>3, <2>1, <2>2
    <2>4. p \in Linked(s1) <=> p \in Linked(r1)
      BY <1>1, <2>3 DEF Linked
    <2> QED
      BY <1>3, <2>1, <2>4 DEF Reach, r1, s1
  <1>4. CASE v.key \notin Category /\ v.key # Entry
    BY <1>4 DEF Reach
  <1> QED
    BY <1>2, <1>3, <1>4

-----------------------------------------------------------------------------
(* The inductive invariant *)

Plans == UNION {[S -> Nat \cup {Nothing}] : S \in SUBSET Batch}

ChangeRow ==
    [phase : {"idle", "wrote", "found", "resolved", "loaded"}, write : Writes \cup {NoWrite},
     reach : SUBSET (Category \cup {Entry}), todo : SUBSET Product, product : Product \cup {Nothing},
     days : Nat \cup {Nothing}, plan : Plans, crossed : BOOLEAN]

BatchRow ==
    [live : BOOLEAN, product : Product \cup {Nothing}, made : 0..MaxDay, date : Nat \cup {Nothing},
     source : {"derived", "user"}, lot : Batch \cup {Nothing}]

(* The types of what DatesTypeOK leaves out. *)
MoreTypes ==
    /\ change \in [Changer -> ChangeRow]
    /\ said \in [Batch -> Nat \cup {Nothing, ByRules}]
    /\ \A b \in Batch : batch[b].live => batch[b].product \in Product

(* Where a change is, and what it has then. *)
StepOf(c) ==
    /\ change[c].phase = "wrote" /\ change[c].write = NoWrite =>
         \E k \in Category : change[c].reach = {k}
    /\ change[c].phase = "wrote" /\ change[c].write # NoWrite =>
         change[c].reach = {change[c].write.key}
    /\ change[c].phase # "wrote" => change[c].reach = {}
    /\ change[c].phase = "resolved" => change[c].product \in Product
    /\ change[c].write = NoWrite /\ change[c].phase # "loaded" => DOMAIN change[c].plan = {}
    /\ change[c].phase = "wrote" => change[c].todo = {}

Steps == \A c \in Changer : StepOf(c)

(* The batches of a plan are locked: derived, and of the product in hand when the
   change dates one product at a time. *)
PlanOf(c) ==
    \A b \in DOMAIN change[c].plan :
        /\ batch[b].live /\ batch[b].source = "derived"
        /\ change[c].write = NoWrite => batch[b].product = change[c].product

PlanRows == \A c \in Changer : PlanOf(c)

(* Moves of categories are serialised. *)
OneMove ==
    \A c, d \in Changer :
        change[c].write \in AboveWrites /\ change[d].write \in AboveWrites => c = d

\* The products a cascade finds if it looks now, and those it has not dated yet.
Found(c) ==
    UNION {IF r = Entry THEN Linked(View(c)) ELSE ProductsUnderCategory(View(c), r) :
           r \in change[c].reach}

ToVisit(c) ==
    Found(c) \cup change[c].todo
    \cup (IF change[c].phase = "resolved" THEN {change[c].product} ELSE {})

\* The change has still to date this batch, or holds it locked.
Due(c, b) == batch[b].product \in ToVisit(c) \/ b \in DOMAIN change[c].plan

\* A derived date that somebody vouches for.
Trusted(b) == batch[b].live /\ batch[b].source = "derived" /\ b \notin loose

(* A trusted date is the one the committed rules give, unless a category's cascade,
   whose rule is committed already, has still to come to it. *)
Followed ==
    \A b \in Batch : Trusted(b) =>
        \/ batch[b].date = DateFor(batch[b].made, Resolve(rules, batch[b].product))
        \/ \E c \in InFlight : change[c].write = NoWrite /\ Due(c, b)

(* A change that commits with its cascade misses no trusted batch its write bears on,
   whatever was committed since it looked. *)
Reached ==
    \A c \in InFlight : change[c].write # NoWrite =>
        \A b \in Batch : Trusted(b) /\ batch[b].product \in Reach(View(c), change[c].write) => Due(c, b)

(* A change nobody has crossed is alone, and plans the dates that its own view of the
   rules gives. *)
Undisturbed ==
    \A c \in InFlight : ~change[c].crossed =>
        /\ InFlight = {c}
        /\ change[c].phase = "resolved" => change[c].days = Resolve(View(c), change[c].product)
        /\ \A b \in DOMAIN change[c].plan :
             change[c].plan[b] = DateFor(batch[b].made, Resolve(View(c), batch[b].product))

DatesIInv ==
    /\ DatesTypeOK /\ MoreTypes /\ Steps /\ PlanRows /\ OneMove
    /\ UserDatesStick /\ Followed /\ Reached /\ Undisturbed

(* A plan is a function of some batches to dates. *)
LEMMA PlanTypes ==
    /\ <<>> \in Plans
    /\ \A f \in Plans : DOMAIN f \subseteq Batch /\ \A b \in DOMAIN f : f[b] \in Nat \cup {Nothing}
    /\ \A f : \A S \in SUBSET Batch : f \in [S -> Nat \cup {Nothing}] => f \in Plans
  <1>1. <<>> \in [{} -> Nat \cup {Nothing}]
    OBVIOUS
  <1>2. {} \in SUBSET Batch
    OBVIOUS
  <1>3. <<>> \in Plans
    BY <1>1, <1>2 DEF Plans
  <1>4. \A f \in Plans : DOMAIN f \subseteq Batch /\ \A b \in DOMAIN f : f[b] \in Nat \cup {Nothing}
    BY DEF Plans
  <1>5. \A f : \A S \in SUBSET Batch : f \in [S -> Nat \cup {Nothing}] => f \in Plans
    BY DEF Plans
  <1> QED
    BY <1>3, <1>4, <1>5

(* A request that is not being served has a row too. *)
LEMMA NoChangeType == NoChange \in ChangeRow /\ NoChange.phase = "idle"
  BY PlanTypes DEF NoChange, ChangeRow

(* What a transaction reads is a state of the rules (View). *)
LEMMA ViewTypes ==
    ASSUME DatesTypeOK, MoreTypes, NEW c \in Changer
    PROVE  /\ rules \in Rules /\ View(c) \in Rules
           /\ change[c].write = NoWrite => View(c) = rules
           /\ change[c].write # NoWrite => change[c].write \in Writes
  <1>1. rules \in Rules
    BY DEF DatesTypeOK, Rules, Parents
  <1>2. change[c].write \in Writes \cup {NoWrite}
    BY DEF MoreTypes, ChangeRow
  <1>3. change[c].write = NoWrite => View(c) = rules
    BY DEF View, Overlay
  <1> QED
    BY <1>1, <1>2, <1>3, OverlayFields DEF View

(* A date is a day, or none (DateFor). *)
LEMMA DateTypes ==
    ASSUME NEW made \in 0..MaxDay, NEW days \in Nat \cup {Nothing}
    PROVE  DateFor(made, days) \in Nat \cup {Nothing}
  BY DatesAssumption DEF DateFor

-----------------------------------------------------------------------------
(* Steps that touch batches only *)

(* Whatever happens to batches nobody has locked, the changes in flight find what
   they would have found, if a batch is trusted only with the date it had or, while
   no change is in flight, with the date of the rules. *)
LEMMA BatchStep ==
    ASSUME DatesIInv, UNCHANGED <<rules, change>>,
           \A c \in Changer : \A b \in DOMAIN change[c].plan : batch'[b] = batch[b],
           \A b \in Batch : Trusted(b)' =>
               \/ Trusted(b) /\ batch'[b] = batch[b]
               \/ /\ InFlight = {}
                  /\ batch'[b].date = DateFor(batch'[b].made, Resolve(rules, batch'[b].product))
    PROVE  Steps' /\ PlanRows' /\ OneMove' /\ Followed' /\ Reached' /\ Undisturbed'
  <1>0. /\ InFlight' = InFlight
        /\ \A c \in Changer : View(c)' = View(c) /\ Found(c)' = Found(c) /\ ToVisit(c)' = ToVisit(c)
    BY DEF InFlight, View, Found, ToVisit
  <1>1. Steps' /\ OneMove'
    BY DEF DatesIInv, Steps, StepOf, OneMove
  <1>2. PlanRows'
    BY DEF DatesIInv, PlanRows, PlanOf
  <1>3. \A c \in Changer, b \in Batch : batch'[b] = batch[b] => (Due(c, b)' <=> Due(c, b))
    BY <1>0 DEF Due
  <1>4. InFlight \subseteq Changer
    BY DEF InFlight
  <1>5. Followed'
    <2> SUFFICES ASSUME NEW b \in Batch, Trusted(b)'
                 PROVE  \/ batch'[b].date = DateFor(batch'[b].made, Resolve(rules', batch'[b].product))
                        \/ \E c \in InFlight' : change'[c].write = NoWrite /\ Due(c, b)'
      BY DEF Followed
    <2> QED
      BY <1>0, <1>3, <1>4 DEF DatesIInv, Followed
  <1>6. Reached'
    <2> SUFFICES ASSUME NEW c \in InFlight, change[c].write # NoWrite, NEW b \in Batch, Trusted(b)',
                        batch'[b].product \in Reach(View(c), change[c].write)
                 PROVE  Due(c, b)'
      BY <1>0, <1>4 DEF Reached, View
    <2>1. Trusted(b) /\ batch'[b] = batch[b]
      OBVIOUS
    <2> QED
      BY <1>3, <1>4, <2>1 DEF DatesIInv, Reached
  <1>7. Undisturbed'
    BY <1>0, <1>4 DEF DatesIInv, Undisturbed
  <1> QED
    BY <1>1, <1>2, <1>5, <1>6, <1>7

(* Writing one row of an unlocked batch keeps the invariant, if the row says whether
   a person dated it, and is trusted only with the date of the rules (Dated). *)
LEMMA DatedStep ==
    ASSUME DatesIInv, NEW b \in Batch, NEW row \in BatchRow, NEW claim \in Nat \cup {Nothing, ByRules},
           Dated(b, row, claim), row.live, row.product \in Product,
           \A c \in Changer : b \notin DOMAIN change[c].plan,
           claim # ByRules => row.source = "user" /\ row.date = claim,
           loose' \subseteq Batch,
           \A d \in Batch : d # b /\ d \in loose => d \in loose',
           b \notin loose' /\ row.source = "derived" =>
               InFlight = {} /\ row.date = DateFor(row.made, Resolve(rules, row.product))
    PROVE  DatesIInv'
  <1>0. batch \in [Batch -> BatchRow] /\ said \in [Batch -> Nat \cup {Nothing, ByRules}]
    BY DEF DatesIInv, DatesTypeOK, MoreTypes, BatchRow
  <1>1. /\ batch'[b] = row /\ said'[b] = claim
        /\ \A d \in Batch : d # b => batch'[d] = batch[d] /\ said'[d] = said[d]
        /\ batch' \in [Batch -> BatchRow] /\ said' \in [Batch -> Nat \cup {Nothing, ByRules}]
        /\ UNCHANGED <<rules, today, change, changes>>
    BY <1>0 DEF Dated
  <1>2. Steps' /\ PlanRows' /\ OneMove' /\ Followed' /\ Reached' /\ Undisturbed'
    <2>1. \A c \in Changer : \A d \in DOMAIN change[c].plan : d \in Batch /\ batch'[d] = batch[d]
      BY <1>1 DEF DatesIInv, DatesTypeOK
    <2>2. ASSUME NEW d \in Batch, Trusted(d)'
          PROVE  \/ Trusted(d) /\ batch'[d] = batch[d]
                 \/ /\ InFlight = {}
                    /\ batch'[d].date = DateFor(batch'[d].made, Resolve(rules, batch'[d].product))
      BY <1>1, <2>2 DEF Trusted
    <2> QED
      BY <1>1, <2>1, <2>2, BatchStep
  <1>3. MoreTypes'
    BY <1>1 DEF DatesIInv, MoreTypes
  <1>4. DatesTypeOK'
    <2>1. \A c \in Changer : DOMAIN change[c].plan \subseteq {d \in Batch : batch'[d].live}
      BY <1>1 DEF DatesIInv, DatesTypeOK
    <2>2. batch' \in [Batch ->
            [live : BOOLEAN, product : Product \cup {Nothing}, made : 0..MaxDay, date : Nat \cup {Nothing},
             source : {"derived", "user"}, lot : Batch \cup {Nothing}]]
      BY <1>1 DEF BatchRow
    <2> QED
      BY <1>1, <2>1, <2>2 DEF DatesIInv, DatesTypeOK
  <1>5. UserDatesStick'
    BY <1>1 DEF DatesIInv, UserDatesStick
  <1> QED
    BY <1>2, <1>3, <1>4, <1>5 DEF DatesIInv

(* A batch is created, dated by a person or by the rules of the moment. *)
LEMMA CreateBatchKeeps ==
    ASSUME DatesIInv, NEW b \in Batch, NEW p \in Product, NEW date \in StatedDate,
           NEW stated \in BOOLEAN, CreateBatch(b, p, stated, date)
    PROVE  DatesIInv'
  <1> DEFINE derived == DateFor(today, Resolve(rules, p))
             row == [live |-> TRUE, product |-> p, made |-> today, lot |-> b,
                     source |-> IF stated THEN "user" ELSE "derived",
                     date |-> IF stated THEN date ELSE derived]
             claim == IF stated THEN date ELSE ByRules
  <1>1. Dated(b, row, claim)
    BY DEF CreateBatch
  <1>2. derived \in Nat \cup {Nothing}
    BY DateTypes, ResolveTypes DEF DatesIInv, DatesTypeOK, Rules, Parents
  <1>3. row \in BatchRow /\ claim \in Nat \cup {Nothing, ByRules}
    BY <1>2, DatesAssumption DEF BatchRow, DatesIInv, DatesTypeOK
  <1>4. \A c \in Changer : b \notin DOMAIN change[c].plan
    BY DEF CreateBatch, FreshID, DatesIInv, PlanRows, PlanOf
  <1>5. /\ loose' \subseteq Batch
        /\ \A d \in Batch : d # b /\ d \in loose => d \in loose'
        /\ b \notin loose' => InFlight = {}
    BY DEF CreateBatch, DatesIInv, DatesTypeOK
  <1>6. row.live /\ row.product = p /\ row.made = today
        /\ (row.source = "derived" => ~stated) /\ (~stated => row.date = derived)
        /\ (claim # ByRules => row.source = "user" /\ row.date = claim)
    OBVIOUS
  <1> HIDE DEF row, claim
  <1> QED
    BY <1>1, <1>3, <1>4, <1>5, <1>6, DatedStep

(* A person dates a batch, or says it has no date. *)
LEMMA SetBatchExpirationKeeps ==
    ASSUME DatesIInv, NEW b \in Batch, NEW date \in StatedDate, SetBatchExpiration(b, date)
    PROVE  DatesIInv'
  <1> DEFINE row == [batch[b] EXCEPT !.date = date, !.source = "user", !.lot = b]
  <1>1. Dated(b, row, date) /\ loose' = loose /\ \A c \in Changer : b \notin DOMAIN change[c].plan
    BY DEF SetBatchExpiration, BatchFree
  <1>2. date \in Nat \cup {Nothing} /\ date # ByRules
    BY DatesAssumption
  <1>3. batch[b] \in BatchRow /\ batch[b].live /\ batch[b].product \in Product /\ loose \subseteq Batch
    BY DEF SetBatchExpiration, DatesIInv, DatesTypeOK, MoreTypes, BatchRow
  <1>4. row \in BatchRow /\ row.live /\ row.product \in Product /\ row.source = "user" /\ row.date = date
    BY <1>2, <1>3 DEF BatchRow
  <1> HIDE DEF row
  <1> QED
    BY <1>1, <1>2, <1>3, <1>4, DatedStep

(* A person hands a batch back to the rules. *)
LEMMA ResetBatchExpirationKeeps ==
    ASSUME DatesIInv, NEW b \in Batch, ResetBatchExpirationToDerived(b)
    PROVE  DatesIInv'
  <1> DEFINE derived == DateFor(batch[b].made, Resolve(rules, batch[b].product))
             row == [batch[b] EXCEPT !.date = derived, !.source = "derived", !.lot = b]
  <1>1. Dated(b, row, ByRules) /\ \A c \in Changer : b \notin DOMAIN change[c].plan
    BY DEF ResetBatchExpirationToDerived, BatchFree
  <1>2. batch[b] \in BatchRow /\ batch[b].live /\ batch[b].product \in Product
    BY DEF ResetBatchExpirationToDerived, DatesIInv, DatesTypeOK, MoreTypes, BatchRow
  <1>3. derived \in Nat \cup {Nothing}
    BY <1>2, DateTypes, ResolveTypes DEF DatesIInv, DatesTypeOK, Rules, Parents, BatchRow
  <1>4. row \in BatchRow /\ row.live /\ row.product = batch[b].product /\ row.made = batch[b].made
        /\ row.date = derived
    BY <1>2, <1>3 DEF BatchRow
  <1>5. /\ loose' \subseteq Batch
        /\ \A d \in Batch : d # b /\ d \in loose => d \in loose'
        /\ b \notin loose' => InFlight = {}
    BY DEF ResetBatchExpirationToDerived, DatesIInv, DatesTypeOK
  <1> HIDE DEF row
  <1> QED
    BY <1>1, <1>2, <1>4, <1>5, DatedStep

(* The half that is taken out of a batch has its date and its claim to it. *)
LEMMA SplitBatchKeeps ==
    ASSUME DatesIInv, NEW b \in Batch, NEW t \in Batch, SplitBatch(b, t)
    PROVE  DatesIInv'
  <1> DEFINE row == [batch[b] EXCEPT !.made = today]
  <1>1. Dated(t, row, said[b]) /\ loose' = loose \cup {t}
    BY DEF SplitBatch
  <1>2. batch[b] \in BatchRow /\ batch[b].live /\ batch[b].product \in Product /\ loose \subseteq Batch
        /\ said[b] \in Nat \cup {Nothing, ByRules}
    BY DEF SplitBatch, DatesIInv, DatesTypeOK, MoreTypes, BatchRow
  <1>3. row \in BatchRow /\ row.live /\ row.product \in Product
        /\ row.source = batch[b].source /\ row.date = batch[b].date
    BY <1>2 DEF BatchRow, DatesIInv, DatesTypeOK
  <1>4. said[b] # ByRules => row.source = "user" /\ row.date = said[b]
    BY <1>2, <1>3 DEF DatesIInv, UserDatesStick
  <1>5. \A c \in Changer : t \notin DOMAIN change[c].plan
    BY DEF SplitBatch, FreshID, DatesIInv, PlanRows, PlanOf
  <1> HIDE DEF row
  <1> QED
    BY <1>1, <1>2, <1>3, <1>4, <1>5, DatedStep

(* The batches of a merged product follow the survivor's rules, dated by a person
   or not. *)
LEMMA MergeProductsKeeps ==
    ASSUME DatesIInv, NEW survivor \in Product, NEW source \in Product, MergeProducts(survivor, source)
    PROVE  DatesIInv'
  <1> DEFINE moved == DerivedBatches(source)
             Dating(b) == DateFor(batch[b].made, Resolve(rules, survivor))
  <1>0. batch \in [Batch -> BatchRow] /\ loose \subseteq Batch /\ moved \subseteq BatchesOf(source)
    BY DEF DatesIInv, DatesTypeOK, BatchRow, DerivedBatches
  <1>1. ASSUME NEW b \in BatchesOf(source)
        PROVE  /\ b \in Batch /\ Dating(b) \in Nat \cup {Nothing}
               /\ [batch[b] EXCEPT !.product = survivor, !.date = IF b \in moved THEN Dating(b) ELSE @] \in BatchRow
    <2>1. batch[b] \in BatchRow /\ b \in Batch
      BY <1>0 DEF BatchesOf
    <2>2. Dating(b) \in Nat \cup {Nothing}
      BY <2>1, DateTypes, ResolveTypes DEF DatesIInv, DatesTypeOK, Rules, Parents, BatchRow
    <2> HIDE DEF Dating
    <2> QED
      BY <2>1, <2>2 DEF BatchRow
  <1>2. batch' = [b \in Batch |-> IF b \notin BatchesOf(source) THEN batch[b]
                   ELSE [batch[b] EXCEPT !.product = survivor, !.date = IF b \in moved THEN Dating(b) ELSE @]]
    BY DEF MergeProducts
  <1>2a. /\ UNCHANGED <<rules, today, change, changes, said>>
         /\ \A c \in Changer : DOMAIN change[c].plan \cap BatchesOf(source) = {}
         /\ loose' = IF InFlight # {} THEN loose \cup moved ELSE loose \ moved
    BY DEF MergeProducts, BatchFree
  <1> HIDE DEF moved, Dating
  <1>3. batch' \in [Batch -> BatchRow] /\ loose' \subseteq Batch
    BY <1>0, <1>1, <1>2, <1>2a
  <1>4. /\ \A b \in Batch \ BatchesOf(source) : batch'[b] = batch[b]
        /\ \A b \in BatchesOf(source) :
             /\ batch'[b].live = batch[b].live /\ batch'[b].source = batch[b].source
             /\ batch'[b].made = batch[b].made /\ batch'[b].product = survivor
             /\ b \in moved => batch'[b].date = Dating(b)
             /\ b \notin moved => batch'[b].date = batch[b].date
    BY <1>0, <1>1, <1>2 DEF BatchRow
  <1>5. \A c \in Changer : \A b \in DOMAIN change[c].plan : b \in Batch /\ batch'[b] = batch[b]
    BY <1>2a, <1>4 DEF DatesIInv, DatesTypeOK
  <1>6. Steps' /\ PlanRows' /\ OneMove' /\ Followed' /\ Reached' /\ Undisturbed'
    <2>1. ASSUME NEW b \in Batch, Trusted(b)'
          PROVE  \/ Trusted(b) /\ batch'[b] = batch[b]
                 \/ /\ InFlight = {}
                    /\ batch'[b].date = DateFor(batch'[b].made, Resolve(rules, batch'[b].product))
      <3>1. CASE b \notin BatchesOf(source)
        BY <1>0, <1>2a, <1>4, <2>1, <3>1 DEF Trusted
      <3>2. CASE b \in BatchesOf(source)
        <4>1. b \in moved
          BY <1>4, <2>1, <3>2 DEF Trusted, moved, DerivedBatches
        <4>2. InFlight = {}
          BY <1>2a, <2>1, <4>1 DEF Trusted
        <4> QED
          BY <1>4, <3>2, <4>1, <4>2 DEF Dating
      <3> QED
        BY <3>1, <3>2
    <2> QED
      BY <1>2a, <1>5, <2>1, BatchStep
  <1>7. MoreTypes'
    BY <1>2a, <1>4 DEF DatesIInv, MoreTypes
  <1>8. DatesTypeOK'
    <2>1. \A c \in Changer : DOMAIN change[c].plan \subseteq {b \in Batch : batch'[b].live}
      BY <1>5 DEF DatesIInv, DatesTypeOK
    <2> QED
      BY <1>2a, <1>3, <2>1 DEF DatesIInv, DatesTypeOK, BatchRow
  <1>9. UserDatesStick'
    <2>1. \A b \in moved : said[b] = ByRules
      BY DEF moved, DerivedBatches, BatchesOf, DatesIInv, UserDatesStick
    <2> QED
      BY <1>2a, <1>4, <2>1 DEF DatesIInv, UserDatesStick
  <1> QED
    BY <1>6, <1>7, <1>8, <1>9 DEF DatesIInv

(* A day passes: no date depends on it. *)
LEMMA TomorrowKeeps ==
    ASSUME DatesIInv, Tomorrow
    PROVE  DatesIInv'
  <1>1. Steps' /\ PlanRows' /\ OneMove' /\ Followed' /\ Reached' /\ Undisturbed'
    BY BatchStep DEF Tomorrow, Trusted
  <1>2. DatesTypeOK' /\ MoreTypes' /\ UserDatesStick'
    BY DatesAssumption DEF DatesIInv, Tomorrow, DatesTypeOK, MoreTypes, UserDatesStick
  <1> QED
    BY <1>1, <1>2 DEF DatesIInv

-----------------------------------------------------------------------------
(* Steps of a change on its way to its commit *)

(* A change goes on: the batches it owes a date it still owes it, and what it plans
   is what its view gives, unless somebody has crossed it. *)
LEMMA ProgressStep ==
    ASSUME DatesIInv, NEW c \in InFlight, NEW row \in ChangeRow,
           change' = [change EXCEPT ![c] = row],
           UNCHANGED <<rules, batch, today, changes, said, loose>>,
           row.phase # "idle", row.write = change[c].write, row.crossed = change[c].crossed,
           DOMAIN row.plan \subseteq {b \in Batch : batch[b].live},
           Steps', PlanRows',
           \A b \in Batch : Trusted(b) /\ Due(c, b) => Due(c, b)',
           ~row.crossed =>
               /\ row.phase = "resolved" => row.days = Resolve(View(c), row.product)
               /\ \A b \in DOMAIN row.plan :
                    row.plan[b] = DateFor(batch[b].made, Resolve(View(c), batch[b].product))
    PROVE  DatesIInv'
  <1>0. c \in Changer /\ change \in [Changer -> ChangeRow]
    BY DEF InFlight, DatesIInv, MoreTypes
  <1>1. /\ change'[c] = row /\ \A d \in Changer : d # c => change'[d] = change[d]
        /\ change' \in [Changer -> ChangeRow]
    BY <1>0
  <1>2. InFlight' = InFlight
    BY <1>0, <1>1 DEF InFlight
  <1>3. \A d \in Changer : View(d)' = View(d) /\ change'[d].write = change[d].write
    BY <1>1 DEF View
  <1>4. \A d \in Changer, b \in Batch : d # c => (Due(d, b)' <=> Due(d, b))
    BY <1>1, <1>3 DEF Due, ToVisit, Found
  <1>5. \A d \in Changer, b \in Batch : Trusted(b) /\ Due(d, b) => Due(d, b)'
    BY <1>4
  <1>6. \A b \in Batch : Trusted(b)' <=> Trusted(b)
    BY DEF Trusted
  <1>7. Followed'
    <2> SUFFICES ASSUME NEW b \in Batch, Trusted(b)
                 PROVE  \/ batch'[b].date = DateFor(batch'[b].made, Resolve(rules', batch'[b].product))
                        \/ \E d \in InFlight' : change'[d].write = NoWrite /\ Due(d, b)'
      BY <1>6 DEF Followed
    <2>1. \/ batch[b].date = DateFor(batch[b].made, Resolve(rules, batch[b].product))
          \/ \E d \in InFlight : change[d].write = NoWrite /\ Due(d, b)
      BY DEF DatesIInv, Followed
    <2>2. InFlight \subseteq Changer
      BY DEF InFlight
    <2> QED
      BY <1>2, <1>3, <1>5, <2>1, <2>2
  <1>8. Reached'
    <2> SUFFICES ASSUME NEW d \in InFlight, change[d].write # NoWrite, NEW b \in Batch, Trusted(b),
                        batch[b].product \in Reach(View(d), change[d].write)
                 PROVE  Due(d, b)'
      <3>1. \A d \in InFlight : Reach(View(d), change[d].write)' = Reach(View(d), change[d].write)
        BY <1>3 DEF View, InFlight
      <3> QED
        BY <1>2, <1>3, <1>6, <3>1 DEF Reached, InFlight
    <2>1. d \in Changer /\ Due(d, b)
      BY DEF InFlight, DatesIInv, Reached
    <2> QED
      BY <1>5, <2>1
  <1>9. Undisturbed'
    <2> SUFFICES ASSUME NEW d \in InFlight, ~change'[d].crossed
                 PROVE  /\ InFlight = {d}
                        /\ change'[d].phase = "resolved" =>
                             change'[d].days = Resolve(View(d), change'[d].product)
                        /\ \A b \in DOMAIN change'[d].plan :
                             change'[d].plan[b] = DateFor(batch[b].made, Resolve(View(d), batch[b].product))
      BY <1>2, <1>3 DEF Undisturbed, InFlight
    <2>1. ~change[d].crossed
      BY <1>1 DEF InFlight
    <2>2. d = c
      BY <2>1 DEF DatesIInv, Undisturbed
    <2> QED
      BY <1>1, <2>1, <2>2 DEF DatesIInv, Undisturbed
  <1>10. OneMove'
    BY <1>1, <1>3 DEF DatesIInv, OneMove
  <1>11. DatesTypeOK'
    <2>1. \A d \in Changer :
            /\ change'[d].phase \in {"idle", "wrote", "found", "resolved", "loaded"}
            /\ change'[d].todo \subseteq Product
      BY <1>1 DEF ChangeRow
    <2>2. \A d \in Changer : DOMAIN change'[d].plan \subseteq {b \in Batch : batch[b].live}
      BY <1>1 DEF DatesIInv, DatesTypeOK
    <2> QED
      BY <2>1, <2>2 DEF DatesIInv, DatesTypeOK
  <1>12. MoreTypes' /\ UserDatesStick'
    BY <1>1 DEF DatesIInv, MoreTypes, UserDatesStick
  <1> QED
    BY <1>7, <1>8, <1>9, <1>10, <1>11, <1>12 DEF DatesIInv

(* What the cascade looks for it finds, and then has to visit (Find). *)
LEMMA FindKeeps ==
    ASSUME DatesIInv, NEW c \in Changer, Find(c)
    PROVE  DatesIInv'
  <1> DEFINE row == [change[c] EXCEPT !.phase = "found", !.reach = {}, !.todo = Found(c)]
  <1>0. change \in [Changer -> ChangeRow] /\ change[c] \in ChangeRow
    BY DEF DatesIInv, MoreTypes
  <1>1. change' = [change EXCEPT ![c] = row] /\ c \in InFlight
    BY <1>0 DEF Find, Found, InFlight
  <1>2. Found(c) \subseteq Product
    BY DEF Found, Linked, ProductsUnderCategory
  <1>3. /\ row \in ChangeRow /\ row.phase = "found" /\ row.reach = {} /\ row.todo = Found(c)
        /\ row.write = change[c].write /\ row.crossed = change[c].crossed
        /\ row.plan = change[c].plan /\ row.product = change[c].product
    BY <1>0, <1>2 DEF ChangeRow
  <1> HIDE DEF row
  <1>4. /\ change'[c] = row /\ \A d \in Changer : d # c => change'[d] = change[d]
        /\ UNCHANGED <<rules, batch, today, changes, said, loose>> /\ change[c].phase = "wrote"
    BY <1>0, <1>1 DEF Find
  <1>5. Steps'
    BY <1>3, <1>4 DEF DatesIInv, Steps, StepOf
  <1>6. PlanRows'
    BY <1>3, <1>4 DEF DatesIInv, PlanRows, PlanOf
  <1>7. \A b \in Batch : Due(c, b) => Due(c, b)'
    <2>1. Found(c) \subseteq ToVisit(c)' /\ (change[c].phase # "resolved")
      BY <1>3, <1>4 DEF ToVisit
    <2>2. change[c].todo = {}
      BY <1>4 DEF DatesIInv, Steps, StepOf
    <2> QED
      BY <1>3, <1>4, <2>1, <2>2 DEF Due, ToVisit
  <1>8. ~row.crossed => \A b \in DOMAIN row.plan :
          row.plan[b] = DateFor(batch[b].made, Resolve(View(c), batch[b].product))
    BY <1>1, <1>3 DEF DatesIInv, Undisturbed
  <1>9. DOMAIN row.plan \subseteq {b \in Batch : batch[b].live}
    BY <1>3 DEF DatesIInv, DatesTypeOK
  <1> QED
    BY <1>1, <1>3, <1>4, <1>5, <1>6, <1>7, <1>8, <1>9, ProgressStep

(* The rules of one product are read (ExpiryRulesFor). *)
LEMMA ExpiryRulesForKeeps ==
    ASSUME DatesIInv, NEW c \in Changer, NEW p \in Product, ExpiryRulesFor(c, p)
    PROVE  DatesIInv'
  <1> DEFINE row == [change[c] EXCEPT !.phase = "resolved", !.todo = @ \ {p}, !.product = p,
                                      !.days = Resolve(View(c), p)]
  <1>0. change \in [Changer -> ChangeRow] /\ change[c] \in ChangeRow
    BY DEF DatesIInv, MoreTypes
  <1>1. change' = [change EXCEPT ![c] = row] /\ c \in InFlight
    BY <1>0 DEF ExpiryRulesFor, InFlight
  <1>2. Resolve(View(c), p) \in Nat \cup {Nothing}
    BY ViewTypes, ResolveTypes DEF DatesIInv
  <1>3. /\ row \in ChangeRow /\ row.phase = "resolved" /\ row.reach = change[c].reach
        /\ row.todo = change[c].todo \ {p} /\ row.product = p /\ row.days = Resolve(View(c), p)
        /\ row.write = change[c].write /\ row.crossed = change[c].crossed
        /\ row.plan = change[c].plan
    BY <1>0, <1>2 DEF ChangeRow
  <1> HIDE DEF row
  <1>4. /\ change'[c] = row /\ \A d \in Changer : d # c => change'[d] = change[d]
        /\ UNCHANGED <<rules, batch, today, changes, said, loose>> /\ change[c].phase = "found"
    BY <1>0, <1>1 DEF ExpiryRulesFor
  <1>5. Steps'
    BY <1>3, <1>4 DEF DatesIInv, Steps, StepOf
  <1>6. PlanRows'
    BY <1>3, <1>4 DEF DatesIInv, PlanRows, PlanOf, Steps, StepOf
  <1>7. \A b \in Batch : Due(c, b) => Due(c, b)'
    <2>1. Found(c)' = Found(c)
      BY <1>3, <1>4 DEF Found, View
    <2> QED
      BY <1>3, <1>4, <2>1 DEF Due, ToVisit
  <1>8. ~row.crossed => \A b \in DOMAIN row.plan :
          row.plan[b] = DateFor(batch[b].made, Resolve(View(c), batch[b].product))
    BY <1>1, <1>3 DEF DatesIInv, Undisturbed
  <1>9. DOMAIN row.plan \subseteq {b \in Batch : batch[b].live}
    BY <1>3 DEF DatesIInv, DatesTypeOK
  <1> QED
    BY <1>1, <1>3, <1>4, <1>5, <1>6, <1>7, <1>8, <1>9, ProgressStep

(* The derived batches of that product are locked and their dates planned
   (LoadDerivedBatches). *)
LEMMA LoadDerivedBatchesKeeps ==
    ASSUME DatesIInv, NEW c \in Changer, LoadDerivedBatches(c)
    PROVE  DatesIInv'
  <1> DEFINE taken == DerivedBatches(change[c].product)
             plan == change[c].plan
             planned == [b \in DOMAIN plan \cup taken |->
                           IF b \in taken THEN DateFor(batch[b].made, change[c].days) ELSE plan[b]]
             row == [change[c] EXCEPT !.phase = After(c), !.plan = planned]
  <1>0. change \in [Changer -> ChangeRow] /\ change[c] \in ChangeRow
    BY DEF DatesIInv, MoreTypes
  <1>1. change' = [change EXCEPT ![c] = row] /\ c \in InFlight
    BY <1>0 DEF LoadDerivedBatches, InFlight
  <1>2. /\ taken \subseteq {b \in Batch : batch[b].live} /\ DOMAIN plan \subseteq {b \in Batch : batch[b].live}
        /\ change[c].product \in Product /\ change[c].phase = "resolved" /\ change[c].days \in Nat \cup {Nothing}
        /\ \A b \in taken : batch[b].product = change[c].product /\ batch[b].source = "derived"
    BY <1>0 DEF DerivedBatches, BatchesOf, DatesIInv, DatesTypeOK, Steps, StepOf, LoadDerivedBatches, ChangeRow
  <1>3. planned \in Plans
    <2>1. \A b \in taken : DateFor(batch[b].made, change[c].days) \in Nat \cup {Nothing}
      <3>1. \A b \in taken : batch[b].made \in 0..MaxDay
        BY <1>2 DEF DatesIInv, DatesTypeOK
      <3> QED
        BY <1>2, <3>1, DateTypes
    <2>2. plan \in Plans
      BY <1>0 DEF ChangeRow
    <2>3. \A b \in DOMAIN plan : plan[b] \in Nat \cup {Nothing}
      BY <2>2, PlanTypes
    <2> HIDE DEF plan, taken
    <2>4. planned \in [DOMAIN plan \cup taken -> Nat \cup {Nothing}]
      BY <2>1, <2>3
    <2>5. DOMAIN plan \cup taken \in SUBSET Batch
      BY <1>2
    <2> QED
      BY <2>4, <2>5, PlanTypes
  <1>4. After(c) \in {"found", "loaded"} /\ (change[c].write = NoWrite => After(c) = "loaded")
    BY DEF After
  <1>5. /\ DOMAIN planned = DOMAIN plan \cup taken
        /\ \A b \in taken : planned[b] = DateFor(batch[b].made, change[c].days)
        /\ \A b \in DOMAIN plan \ taken : planned[b] = plan[b]
    OBVIOUS
  <1> HIDE DEF planned
  <1>6. /\ row \in ChangeRow /\ row.phase = After(c) /\ row.reach = change[c].reach
        /\ row.todo = change[c].todo /\ row.product = change[c].product
        /\ row.write = change[c].write /\ row.crossed = change[c].crossed
        /\ row.plan = planned
    BY <1>0, <1>3, <1>4 DEF ChangeRow
  <1> HIDE DEF row
  <1>7. /\ change'[c] = row /\ \A d \in Changer : d # c => change'[d] = change[d]
        /\ UNCHANGED <<rules, batch, today, changes, said, loose>>
    BY <1>0, <1>1 DEF LoadDerivedBatches
  <1>8. Steps'
    BY <1>2, <1>4, <1>6, <1>7 DEF DatesIInv, Steps, StepOf
  <1>9. PlanRows'
    <2>1. change[c].write = NoWrite => DOMAIN plan = {}
      BY <1>2 DEF DatesIInv, Steps, StepOf
    <2> QED
      BY <1>2, <1>5, <1>6, <1>7, <2>1 DEF DatesIInv, PlanRows, PlanOf
  <1>10. ASSUME NEW b \in Batch, Trusted(b), Due(c, b)
         PROVE  Due(c, b)'
    <2>1. Found(c)' = Found(c)
      BY <1>6, <1>7 DEF Found, View
    <2>2. CASE batch[b].product = change[c].product
      <3>1. b \in taken
        BY <1>10, <2>2 DEF Trusted, DerivedBatches, BatchesOf
      <3> QED
        BY <1>5, <1>6, <1>7, <3>1 DEF Due
    <2>3. CASE batch[b].product # change[c].product
      BY <1>2, <1>5, <1>6, <1>7, <1>10, <2>1, <2>3 DEF Due, ToVisit
    <2> QED
      BY <2>2, <2>3
  <1>11. ASSUME ~row.crossed, NEW b \in DOMAIN row.plan
         PROVE  row.plan[b] = DateFor(batch[b].made, Resolve(View(c), batch[b].product))
    <2>1. /\ change[c].days = Resolve(View(c), change[c].product)
          /\ \A d \in DOMAIN plan : plan[d] = DateFor(batch[d].made, Resolve(View(c), batch[d].product))
      BY <1>1, <1>2, <1>6, <1>11 DEF DatesIInv, Undisturbed
    <2>2. CASE b \in taken
      BY <1>2, <1>5, <1>6, <2>1, <2>2
    <2>3. CASE b \notin taken
      BY <1>5, <1>6, <1>11, <2>1, <2>3
    <2> QED
      BY <2>2, <2>3
  <1>12. row.phase # "idle" /\ row.phase # "resolved" /\ DOMAIN row.plan \subseteq {b \in Batch : batch[b].live}
    BY <1>2, <1>4, <1>5, <1>6
  <1> QED
    BY <1>1, <1>6, <1>7, <1>8, <1>9, <1>10, <1>11, <1>12, ProgressStep

-----------------------------------------------------------------------------
(* Changes that begin, fail and commit *)

\* d stands where it stood; whether it has been crossed is left open.
Stands(d) ==
    /\ change'[d].phase = change[d].phase /\ change'[d].write = change[d].write
    /\ change'[d].reach = change[d].reach /\ change'[d].todo = change[d].todo
    /\ change'[d].product = change[d].product /\ change'[d].days = change[d].days
    /\ change'[d].plan = change[d].plan

\* p has the rows it had, below the categories it had.
SamePlace(r, s, p) ==
    /\ s.filed[p] = r.filed[p] /\ s.linked[p] = r.linked[p] /\ s.days[p] = r.days[p]
    /\ Ancestry(s, s.filed[p]) = Ancestry(r, r.filed[p])

(* A change that stands finds a product again if the product's place is the same. *)
LEMMA FoundAgain ==
    ASSUME DatesIInv, rules' \in Rules, NEW d \in Changer, Stands(d), NEW p \in Product,
           SamePlace(rules, rules', p),
           change[d].write \in AboveWrites => rules'.above = rules.above
    PROVE  /\ p \in ToVisit(d)' <=> p \in ToVisit(d)
           /\ change[d].write # NoWrite =>
                (p \in Reach(View(d)', change[d].write) <=> p \in Reach(View(d), change[d].write))
  <1> DEFINE w == change[d].write
  <1>0. rules \in Rules /\ change[d] \in ChangeRow /\ w \in Writes \cup {NoWrite}
    BY DEF DatesIInv, DatesTypeOK, Rules, Parents, MoreTypes, ChangeRow
  <1>1. View(d) = Overlay(rules, w) /\ View(d)' = Overlay(rules', w)
    BY DEF View, Stands
  <1>2. w # NoWrite => (p \in Reach(View(d)', w) <=> p \in Reach(View(d), w))
    BY <1>0, <1>1, ReachAgrees DEF SamePlace
  <1>3. /\ Found(d)  = UNION {IF r = Entry THEN Linked(View(d)) ELSE ProductsUnderCategory(View(d), r) : r \in change[d].reach}
        /\ Found(d)' = UNION {IF r = Entry THEN Linked(View(d)') ELSE ProductsUnderCategory(View(d)', r) : r \in change[d].reach}
    BY DEF Found, Stands, View
  <1>4. p \in Found(d)' <=> p \in Found(d)
    <2>1. CASE change[d].phase # "wrote"
      <3>1. change[d].reach = {}
        BY <2>1 DEF DatesIInv, Steps, StepOf
      <3> QED
        BY <1>3, <3>1
    <2>2. CASE change[d].phase = "wrote" /\ w = NoWrite
      <3>1. PICK k \in Category : change[d].reach = {k}
        BY <2>2 DEF DatesIInv, Steps, StepOf
      <3>2. View(d) = rules /\ View(d)' = rules' /\ k # Entry
        BY <1>1, <2>2, DatesAssumption DEF Overlay
      <3>3. Found(d) = ProductsUnderCategory(rules, k) /\ Found(d)' = ProductsUnderCategory(rules', k)
        BY <1>3, <3>1, <3>2
      <3> QED
        BY <1>0, <3>3, UnderIs DEF SamePlace
    <2>3. CASE change[d].phase = "wrote" /\ w # NoWrite
      <3>1. change[d].reach = {w.key} /\ w.key \in Category \cup {Entry}
        BY <1>0, <2>3 DEF DatesIInv, Steps, StepOf, ChangeRow
      <3>2. Found(d) = Reach(View(d), w) /\ Found(d)' = Reach(View(d)', w)
        BY <1>3, <3>1, DatesAssumption DEF Reach
      <3> QED
        BY <1>2, <2>3, <3>2
    <2> QED
      BY <2>1, <2>2, <2>3
  <1> QED
    BY <1>2, <1>4 DEF ToVisit, Stands

(* The effect on the others of a change that begins: they are crossed if they are in
   flight, and stand (Crossing). *)
LEMMA CrossingStands ==
    ASSUME DatesIInv, NEW c, NEW d \in Changer, change'[d] = Crossing(c)[d]
    PROVE  /\ Stands(d) /\ change'[d] \in ChangeRow
           /\ d \in InFlight => change'[d].crossed
  <1>1. change[d] \in ChangeRow
    BY DEF DatesIInv, MoreTypes
  <1>2. change'[d] = [change[d] EXCEPT !.crossed = @ \/ d \in InFlight]
    BY DEF Crossing
  <1> QED
    BY <1>1, <1>2 DEF Stands, ChangeRow

(* The parts of the invariant that look at one change at a time survive where the
   change stands and no batch it has locked loses its lock's terms. *)
LEMMA StandingRows ==
    ASSUME DatesIInv, NEW T \in SUBSET Changer, \A d \in T : Stands(d),
           \A d \in T : \A b \in DOMAIN change[d].plan :
               /\ batch'[b].live = batch[b].live /\ batch'[b].source = batch[b].source
               /\ batch'[b].product = batch[b].product
    PROVE  \A d \in T : StepOf(d)' /\ PlanOf(d)'
  BY DEF DatesIInv, Steps, StepOf, PlanRows, PlanOf, Stands

(* A change begins with its own write (BeginChange). *)
LEMMA BeginChangeKeeps ==
    ASSUME DatesIInv, NEW c \in Changer, NEW w \in Writes, BeginChange(c, w, {w.key}),
           w \in AboveWrites => \A d \in Changer : change[d].write \notin AboveWrites
    PROVE  DatesIInv'
  <1> DEFINE row == [NoChange EXCEPT !.phase = IF {w.key} \subseteq Product THEN "found" ELSE "wrote",
                                     !.write = w, !.todo = {w.key} \cap Product,
                                     !.reach = {w.key} \ Product, !.crossed = InFlight # {}]
  <1>1. change' = [Crossing(c) EXCEPT ![c] = row]
    BY DEF BeginChange
  <1>2. UNCHANGED <<rules, batch, today, said, loose>> /\ changes' \in 0..MaxChanges /\ c \notin InFlight
    BY DatesAssumption DEF BeginChange, FreshRequest, DatesIInv, DatesTypeOK
  <1>3. change'[c] = row /\ \A d \in Changer : d # c => change'[d] = Crossing(c)[d]
    BY <1>1 DEF Crossing
  <1>4. w.key \in Rule /\ w.key # Nothing /\ w # NoWrite
    BY DatesAssumption DEF Writes, DaysWrites, FiledWrites, AboveWrites, Rule, NoWrite
  <1>5. row \in ChangeRow
    <2>1. {w.key} \ Product \in SUBSET (Category \cup {Entry}) /\ {w.key} \cap Product \in SUBSET Product
      BY <1>4 DEF Rule
    <2>2. <<>> \in Plans /\ w \in Writes
      BY PlanTypes
    <2>3. (InFlight # {}) \in BOOLEAN
      OBVIOUS
    <2> QED
      BY <2>1, <2>2, <2>3, NoChangeType DEF ChangeRow
  <1>6. /\ row.phase = (IF w.key \in Product THEN "found" ELSE "wrote") /\ row.write = w
        /\ row.reach = {w.key} \ Product /\ row.todo = {w.key} \cap Product
        /\ DOMAIN row.plan = {} /\ row.crossed = (InFlight # {})
    BY DEF NoChange
  <1> HIDE DEF row
  <1>7. \A d \in Changer : d # c => Stands(d) /\ change'[d] \in ChangeRow /\ (d \in InFlight => change'[d].crossed)
    BY <1>3, CrossingStands
  <1>8. change' \in [Changer -> ChangeRow]
    <2>1. \A d \in Changer : change'[d] \in ChangeRow
      BY <1>3, <1>5, <1>7
    <2> QED
      BY <1>1, <2>1 DEF Crossing
  <1>9. InFlight' = InFlight \cup {c}
    BY <1>3, <1>6, <1>7 DEF InFlight, Stands
  <1>10. Steps' /\ PlanRows'
    <2>1. \A d \in Changer \ {c} : StepOf(d)' /\ PlanOf(d)'
      BY <1>2, <1>7, StandingRows
    <2>2. /\ row.phase = "wrote" => row.reach = {row.write.key} /\ row.todo = {}
          /\ row.phase # "wrote" => row.reach = {}
          /\ row.write # NoWrite /\ row.phase # "resolved"
      BY <1>4, <1>6
    <2> QED
      BY <1>3, <1>6, <2>1, <2>2 DEF Steps, StepOf, PlanRows, PlanOf
  <1>11. OneMove'
    BY <1>3, <1>6, <1>7 DEF DatesIInv, OneMove, Stands
  <1>12. \A d \in Changer \ {c} : /\ View(d)' = View(d) /\ ToVisit(d)' = ToVisit(d)
                                 /\ \A b \in Batch : Due(d, b)' <=> Due(d, b)
    <2>1. \A d \in Changer \ {c} : View(d)' = View(d)
      BY <1>2, <1>7 DEF View, Stands
    <2>2. \A d \in Changer \ {c} : Found(d)' = Found(d)
      BY <1>7, <2>1 DEF Found, Stands
    <2> QED
      BY <1>2, <1>7, <2>1, <2>2 DEF Due, ToVisit, Stands
  <1>13. \A b \in Batch : Trusted(b)' <=> Trusted(b)
    BY <1>2 DEF Trusted
  <1>14. Followed'
    <2> SUFFICES ASSUME NEW b \in Batch, Trusted(b)
                 PROVE  \/ batch[b].date = DateFor(batch[b].made, Resolve(rules, batch[b].product))
                        \/ \E d \in InFlight' : change'[d].write = NoWrite /\ Due(d, b)'
      BY <1>2, <1>13 DEF Followed
    <2>1. \/ batch[b].date = DateFor(batch[b].made, Resolve(rules, batch[b].product))
          \/ \E d \in InFlight : change[d].write = NoWrite /\ Due(d, b)
      BY DEF DatesIInv, Followed
    <2>2. \A d \in InFlight : d \in Changer \ {c} /\ change'[d].write = change[d].write
      BY <1>2, <1>7 DEF InFlight, Stands
    <2> QED
      BY <1>9, <1>12, <2>1, <2>2
  <1>15. Reached'
    <2> SUFFICES ASSUME NEW d \in InFlight', change'[d].write # NoWrite, NEW b \in Batch, Trusted(b),
                        batch[b].product \in Reach(View(d)', change'[d].write)
                 PROVE  Due(d, b)'
      BY <1>2, <1>13 DEF Reached
    <2>1. CASE d # c
      <3>1. d \in InFlight /\ d \in Changer \ {c} /\ change'[d].write = change[d].write
        BY <1>7, <1>9, <2>1 DEF InFlight, Stands
      <3> QED
        BY <1>12, <3>1 DEF DatesIInv, Reached
    <2>2. CASE d = c
      <3>1. View(c)' = Overlay(rules, w) /\ change'[c].write = w
        BY <1>2, <1>3, <1>6 DEF View
      <3>2. CASE w.key \in Product
        <4>1. Reach(View(c)', w) = {w.key}
          BY <3>2, DatesAssumption DEF Reach
        <4>2. w.key \in ToVisit(c)'
          BY <1>3, <1>6, <3>2 DEF ToVisit
        <4> QED
          BY <1>2, <2>2, <3>1, <4>1, <4>2 DEF Due
      <3>3. CASE w.key \notin Product
        <4>1. w.key \in Category \cup {Entry} /\ change'[c].reach = {w.key}
          BY <1>3, <1>4, <1>6, <3>3 DEF Rule
        <4>2. Found(c)' = UNION {IF r = Entry THEN Linked(View(c)') ELSE ProductsUnderCategory(View(c)', r) :
                                 r \in change'[c].reach}
          BY DEF Found, View
        <4>3. Found(c)' = Reach(View(c)', w)
          BY <4>1, <4>2, DatesAssumption DEF Reach
        <4> QED
          BY <1>2, <2>2, <3>1, <4>3 DEF Due, ToVisit
      <3> QED
        BY <3>2, <3>3
    <2> QED
      BY <2>1, <2>2
  <1>16. Undisturbed'
    <2> SUFFICES ASSUME NEW d \in InFlight', ~change'[d].crossed
                 PROVE  /\ InFlight' = {d}
                        /\ change'[d].phase # "resolved" /\ DOMAIN change'[d].plan = {}
      BY DEF Undisturbed
    <2>1. d = c
      BY <1>7, <1>9 DEF InFlight
    <2>2. InFlight = {}
      BY <1>3, <1>6, <2>1
    <2> QED
      BY <1>3, <1>6, <1>9, <2>1, <2>2
  <1>17. DatesTypeOK'
    <2>1. \A d \in Changer :
            /\ change'[d].phase \in {"idle", "wrote", "found", "resolved", "loaded"}
            /\ change'[d].todo \subseteq Product
      BY <1>8 DEF ChangeRow
    <2>2. \A d \in Changer : DOMAIN change'[d].plan \subseteq {b \in Batch : batch[b].live}
      BY <1>3, <1>6, <1>7 DEF DatesIInv, DatesTypeOK, Stands
    <2> QED
      BY <1>2, <2>1, <2>2 DEF DatesIInv, DatesTypeOK
  <1>18. MoreTypes' /\ UserDatesStick'
    BY <1>2, <1>8 DEF DatesIInv, MoreTypes, UserDatesStick
  <1> QED
    BY <1>10, <1>11, <1>14, <1>15, <1>16, <1>17, <1>18 DEF DatesIInv

(* The shelf life of a category is committed before its cascade looks for products:
   those it bears on are the ones the cascade will find (PatchCategoryShelfLife). *)
LEMMA PatchCategoryKeeps ==
    ASSUME DatesIInv, NEW c \in Changer, NEW k \in Category, NEW days \in Shelf \cup {Nothing},
           PatchCategoryShelfLife(c, k, days)
    PROVE  DatesIInv'
  <1> DEFINE w == Write("days", k, days)
             row == [NoChange EXCEPT !.phase = "wrote", !.reach = {k}, !.crossed = InFlight # {}]
  <1>1. /\ change' = [Crossing(c) EXCEPT ![c] = row] /\ rules' = Overlay(rules, w)
        /\ UNCHANGED <<batch, today, said, loose>> /\ changes' \in 0..MaxChanges /\ c \notin InFlight
    BY DatesAssumption
    DEF PatchCategoryShelfLife, SetCategoryShelfLife, FreshRequest, DatesIInv, DatesTypeOK
  <1>2. w \in Writes /\ w \in DaysWrites /\ w.key = k /\ w.value = days
    BY DEF Write, Writes, DaysWrites, Rule
  <1> HIDE DEF w
  <1>3. rules \in Rules /\ rules' \in Rules /\ rules'.above = rules.above /\ rules'.filed = rules.filed
        /\ rules'.linked = rules.linked /\ rules'.days = [rules.days EXCEPT ![k] = days]
    <2>1. rules \in Rules
      BY DEF DatesIInv, DatesTypeOK, Rules, Parents
    <2> QED
      BY <1>1, <1>2, <2>1, OverlayFields
  <1>4. row \in ChangeRow
    <2>1. {k} \in SUBSET (Category \cup {Entry}) /\ (InFlight # {}) \in BOOLEAN
      OBVIOUS
    <2> QED
      BY <2>1, NoChangeType DEF ChangeRow
  <1>5. /\ row.phase = "wrote" /\ row.reach = {k} /\ row.todo = {} /\ row.write = NoWrite
        /\ DOMAIN row.plan = {} /\ row.crossed = (InFlight # {})
    BY DEF NoChange
  <1> HIDE DEF row
  <1>6. change'[c] = row /\ \A d \in Changer : d # c => change'[d] = Crossing(c)[d]
    BY <1>1 DEF Crossing
  <1>7. \A d \in Changer : d # c => Stands(d) /\ change'[d] \in ChangeRow /\ (d \in InFlight => change'[d].crossed)
    BY <1>6, CrossingStands
  <1>8. change' \in [Changer -> ChangeRow]
    <2>1. \A d \in Changer : change'[d] \in ChangeRow
      BY <1>4, <1>6, <1>7
    <2> QED
      BY <1>1, <2>1 DEF Crossing
  <1>9. InFlight' = InFlight \cup {c}
    BY <1>5, <1>6, <1>7 DEF InFlight, Stands
  <1>10. Steps' /\ PlanRows'
    <2>1. \A d \in Changer \ {c} : StepOf(d)' /\ PlanOf(d)'
      BY <1>1, <1>7, StandingRows
    <2>2. StepOf(c)' /\ PlanOf(c)'
      BY <1>5, <1>6 DEF StepOf, PlanOf
    <2> QED
      BY <2>1, <2>2 DEF Steps, PlanRows
  <1>11. OneMove'
    <2>1. NoWrite \notin AboveWrites
      BY DatesAssumption DEF NoWrite, AboveWrites, Rule
    <2> QED
      BY <1>5, <1>6, <1>7, <2>1 DEF DatesIInv, OneMove, Stands
  <1>12. \A p \in Product : SamePlace(rules, rules', p)
    <2> SUFFICES ASSUME NEW p \in Product
                 PROVE  SamePlace(rules, rules', p)
      OBVIOUS
    <2>1. rules'.days[p] = rules.days[p]
      BY <1>3, DatesAssumption DEF Rules, Rule
    <2>2. Ancestry(rules', rules'.filed[p]) = Ancestry(rules, rules.filed[p])
      BY <1>3, AncestryByParents
    <2> QED
      BY <1>3, <2>1, <2>2 DEF SamePlace
  <1>13. \A b \in Batch : (Trusted(b)' <=> Trusted(b)) /\ (Trusted(b) => batch[b].product \in Product)
    BY <1>1 DEF Trusted, DatesIInv, MoreTypes
  <1>14. ASSUME NEW d \in InFlight, NEW b \in Batch, Trusted(b)
         PROVE  /\ d \in Changer /\ d # c /\ change'[d].write = change[d].write
                /\ Due(d, b)' <=> Due(d, b)
                /\ change[d].write # NoWrite =>
                     (batch[b].product \in Reach(View(d)', change[d].write)
                        <=> batch[b].product \in Reach(View(d), change[d].write))
    <2>1. d \in Changer /\ d # c
      BY <1>1 DEF InFlight
    <2>2. /\ batch[b].product \in ToVisit(d)' <=> batch[b].product \in ToVisit(d)
          /\ change[d].write # NoWrite =>
                     (batch[b].product \in Reach(View(d)', change[d].write)
                        <=> batch[b].product \in Reach(View(d), change[d].write))
      BY <1>3, <1>7, <1>12, <1>13, <1>14, <2>1, FoundAgain
    <2> QED
      BY <1>1, <1>7, <2>1, <2>2 DEF Due, Stands
  <1>15. Followed'
    <2> SUFFICES ASSUME NEW b \in Batch, Trusted(b)
                 PROVE  \/ batch[b].date = DateFor(batch[b].made, Resolve(rules', batch[b].product))
                        \/ \E d \in InFlight' : change'[d].write = NoWrite /\ Due(d, b)'
      BY <1>1, <1>13 DEF Followed
    <2> DEFINE p == batch[b].product
    <2>0. p \in Product
      BY <1>13
    <2>1. CASE p \in Reach(rules', w)
      <3>1. View(c)' = rules' /\ change'[c].reach = {k}
        BY <1>5, <1>6 DEF View, Overlay
      <3>2. Found(c)' = UNION {IF r = Entry THEN Linked(View(c)') ELSE ProductsUnderCategory(View(c)', r) :
                               r \in change'[c].reach}
        BY DEF Found, View
      <3>3. Found(c)' = Reach(rules', w)
        BY <1>2, <3>1, <3>2, DatesAssumption DEF Reach
      <3>4. Due(c, b)'
        BY <1>1, <2>1, <3>3 DEF Due, ToVisit
      <3> QED
        BY <1>5, <1>6, <1>9, <3>4
    <2>2. CASE p \notin Reach(rules', w)
      <3>1. Resolve(rules', p) = Resolve(rules, p)
        BY <1>1, <1>2, <1>3, <2>0, <2>2, OutOfReach
      <3>2. \/ batch[b].date = DateFor(batch[b].made, Resolve(rules, p))
            \/ \E d \in InFlight : change[d].write = NoWrite /\ Due(d, b)
        BY DEF DatesIInv, Followed
      <3> QED
        BY <1>9, <1>14, <3>1, <3>2
    <2> QED
      BY <2>1, <2>2
  <1>16. Reached'
    <2> SUFFICES ASSUME NEW d \in InFlight', change'[d].write # NoWrite, NEW b \in Batch, Trusted(b),
                        batch[b].product \in Reach(View(d)', change'[d].write)
                 PROVE  Due(d, b)'
      BY <1>1, <1>13 DEF Reached
    <2>1. d \in InFlight
      BY <1>5, <1>6, <1>9
    <2> QED
      BY <1>14, <2>1 DEF DatesIInv, Reached
  <1>17. Undisturbed'
    <2> SUFFICES ASSUME NEW d \in InFlight', ~change'[d].crossed
                 PROVE  /\ InFlight' = {d}
                        /\ change'[d].phase # "resolved" /\ DOMAIN change'[d].plan = {}
      BY DEF Undisturbed
    <2>1. d = c
      BY <1>7, <1>9 DEF InFlight
    <2>2. InFlight = {}
      BY <1>5, <1>6, <2>1
    <2> QED
      BY <1>5, <1>6, <1>9, <2>1, <2>2
  <1>18. DatesTypeOK'
    <2>1. \A d \in Changer :
            /\ change'[d].phase \in {"idle", "wrote", "found", "resolved", "loaded"}
            /\ change'[d].todo \subseteq Product
      BY <1>8 DEF ChangeRow
    <2>2. \A d \in Changer : DOMAIN change'[d].plan \subseteq {b \in Batch : batch[b].live}
      BY <1>5, <1>6, <1>7 DEF DatesIInv, DatesTypeOK, Stands
    <2>3. rules' \in [days : [Rule -> Shelf \cup {Nothing}], filed : [Product -> Category \cup {Nothing}],
                  above : [Category -> Category \cup {Nothing}], linked : [Product -> BOOLEAN],
                  kind : [Product -> ItemType]]
      BY <1>3 DEF Rules, Parents
    <2> QED
      BY <1>1, <2>1, <2>2, <2>3 DEF DatesIInv, DatesTypeOK
  <1>19. MoreTypes' /\ UserDatesStick'
    BY <1>1, <1>8 DEF DatesIInv, MoreTypes, UserDatesStick
  <1> QED
    BY <1>10, <1>11, <1>15, <1>16, <1>17, <1>18, <1>19 DEF DatesIInv

(* An item type, or the links of a catalog entry, changes and no cascade follows:
   nobody vouches for the batches it bears on (Uncascaded). *)
LEMMA UncascadedKeeps ==
    ASSUME DatesIInv, NEW ps \in SUBSET Product, NEW field, NEW value, Uncascaded(field, ps, value),
           rules' \in Rules,
           rules'.days = rules.days, rules'.filed = rules.filed, rules'.above = rules.above,
           \A p \in Product \ ps : rules'.linked[p] = rules.linked[p] /\ rules'.kind[p] = rules.kind[p]
    PROVE  DatesIInv'
  <1>1. /\ \A d \in Changer : change'[d] = Crossing(d)[d]
        /\ UNCHANGED <<batch, today, said>> /\ changes' \in 0..MaxChanges
        /\ loose' = loose \cup {b \in Batch : batch[b].live /\ batch[b].product \in ps}
        /\ change' = [d \in Changer |-> change'[d]]
    BY DatesAssumption DEF Uncascaded, Crossing, DatesIInv, DatesTypeOK
  <1>2. \A d \in Changer : Stands(d) /\ change'[d] \in ChangeRow /\ (d \in InFlight => change'[d].crossed)
    BY <1>1, CrossingStands
  <1>3. change' \in [Changer -> ChangeRow]
    BY <1>1, <1>2
  <1>4. InFlight' = InFlight /\ InFlight \subseteq Changer
    BY <1>2 DEF InFlight, Stands
  <1>5. Steps' /\ PlanRows'
    BY <1>1, <1>2, StandingRows DEF Steps, PlanRows
  <1>6. OneMove'
    BY <1>2 DEF DatesIInv, OneMove, Stands
  <1>7. ASSUME NEW b \in Batch, Trusted(b)'
        PROVE  /\ Trusted(b) /\ batch[b].product \in Product
               /\ SamePlace(rules, rules', batch[b].product)
               /\ Resolve(rules', batch[b].product) = Resolve(rules, batch[b].product)
    <2> DEFINE p == batch[b].product
    <2>1. Trusted(b) /\ p \in Product /\ p \notin ps
      BY <1>1, <1>7 DEF Trusted, DatesIInv, MoreTypes
    <2> HIDE DEF p
    <2>2. SamePlace(rules, rules', p)
      BY <2>1, AncestryByParents DEF SamePlace
    <2>3. rules \in Rules
      BY DEF DatesIInv, DatesTypeOK, Rules, Parents
    <2>4. Resolve(rules', p) = Resolve(rules, p)
      BY <2>1, <2>2, <2>3, ResolveAgrees DEF SamePlace
    <2> QED
      BY <2>1, <2>2, <2>4 DEF p
  <1>8. ASSUME NEW d \in Changer, NEW b \in Batch, Trusted(b)'
        PROVE  /\ change'[d].write = change[d].write
               /\ Due(d, b)' <=> Due(d, b)
               /\ change[d].write # NoWrite =>
                    (batch[b].product \in Reach(View(d)', change[d].write)
                       <=> batch[b].product \in Reach(View(d), change[d].write))
    <2>1. /\ batch[b].product \in ToVisit(d)' <=> batch[b].product \in ToVisit(d)
          /\ change[d].write # NoWrite =>
                    (batch[b].product \in Reach(View(d)', change[d].write)
                       <=> batch[b].product \in Reach(View(d), change[d].write))
      BY <1>2, <1>7, <1>8, FoundAgain
    <2> QED
      BY <1>1, <1>2, <2>1 DEF Due, Stands
  <1>9. Followed'
    <2> SUFFICES ASSUME NEW b \in Batch, Trusted(b)'
                 PROVE  \/ batch[b].date = DateFor(batch[b].made, Resolve(rules', batch[b].product))
                        \/ \E d \in InFlight' : change'[d].write = NoWrite /\ Due(d, b)'
      BY <1>1 DEF Followed
    <2>1. \/ batch[b].date = DateFor(batch[b].made, Resolve(rules, batch[b].product))
          \/ \E d \in InFlight : change[d].write = NoWrite /\ Due(d, b)
      BY <1>7 DEF DatesIInv, Followed
    <2> QED
      BY <1>4, <1>7, <1>8, <2>1
  <1>10. Reached'
    <2> SUFFICES ASSUME NEW d \in InFlight, change'[d].write # NoWrite, NEW b \in Batch, Trusted(b)',
                        batch[b].product \in Reach(View(d)', change'[d].write)
                 PROVE  Due(d, b)'
      BY <1>1, <1>4 DEF Reached
    <2> QED
      BY <1>4, <1>7, <1>8 DEF DatesIInv, Reached
  <1>11. Undisturbed'
    BY <1>2, <1>4 DEF Undisturbed
  <1>12. DatesTypeOK'
    <2>1. \A d \in Changer :
            /\ change'[d].phase \in {"idle", "wrote", "found", "resolved", "loaded"}
            /\ change'[d].todo \subseteq Product
      BY <1>3 DEF ChangeRow
    <2>2. \A d \in Changer : DOMAIN change'[d].plan \subseteq {b \in Batch : batch[b].live}
      BY <1>2 DEF DatesIInv, DatesTypeOK, Stands
    <2>3. rules' \in [days : [Rule -> Shelf \cup {Nothing}], filed : [Product -> Category \cup {Nothing}],
                  above : [Category -> Category \cup {Nothing}], linked : [Product -> BOOLEAN],
                  kind : [Product -> ItemType]]
      BY DEF Rules, Parents
    <2> QED
      BY <1>1, <2>1, <2>2, <2>3 DEF DatesIInv, DatesTypeOK
  <1>13. MoreTypes' /\ UserDatesStick'
    BY <1>1, <1>3 DEF DatesIInv, MoreTypes, UserDatesStick
  <1> QED
    BY <1>5, <1>6, <1>9, <1>10, <1>11, <1>12, <1>13 DEF DatesIInv

(* A change is given up: its write is gone with its transaction, or is that of a
   category, and then nobody vouches for what it left undone (Fail). *)
LEMMA FailKeeps ==
    ASSUME DatesIInv, NEW c \in Changer, Fail(c)
    PROVE  DatesIInv'
  <1>1. /\ c \in InFlight /\ change' = [change EXCEPT ![c] = NoChange]
        /\ UNCHANGED <<rules, batch, today, changes, said>>
        /\ loose \subseteq loose' /\ loose' \subseteq Batch
    BY DEF Fail, DatesIInv, DatesTypeOK
  <1>2. change \in [Changer -> ChangeRow]
    BY DEF DatesIInv, MoreTypes
  <1>3. change'[c] = NoChange /\ \A d \in Changer : d # c => change'[d] = change[d]
    BY <1>1, <1>2
  <1>4. /\ NoChange.phase = "idle" /\ NoChange.write = NoWrite /\ NoChange.reach = {}
        /\ NoChange.todo = {} /\ DOMAIN NoChange.plan = {}
    BY DEF NoChange
  <1>5. InFlight' = InFlight \ {c}
    BY <1>3, <1>4 DEF InFlight
  <1>6. \A d \in Changer : d # c =>
          /\ Stands(d) /\ View(d)' = View(d) /\ \A b : Due(d, b)' <=> Due(d, b)
    BY <1>1, <1>3 DEF Stands, View, Due, ToVisit, Found
  <1>7. change' \in [Changer -> ChangeRow]
    BY <1>1, <1>2, NoChangeType
  <1>8. Steps' /\ PlanRows'
    <2>1. \A d \in Changer \ {c} : StepOf(d)' /\ PlanOf(d)'
      BY <1>1, <1>6, StandingRows
    <2>2. StepOf(c)' /\ PlanOf(c)'
      BY <1>3, <1>4 DEF StepOf, PlanOf
    <2> QED
      BY <2>1, <2>2 DEF Steps, PlanRows
  <1>9. OneMove'
    <2>1. NoWrite \notin AboveWrites
      BY DatesAssumption DEF NoWrite, AboveWrites, Rule
    <2> QED
      BY <1>3, <1>4, <2>1 DEF DatesIInv, OneMove
  <1>10. \A b \in Batch : Trusted(b)' => Trusted(b)
    BY <1>1 DEF Trusted
  <1>11. ASSUME NEW b \in Batch, Trusted(b)', change[c].write = NoWrite
         PROVE  ~Due(c, b)
    <2> DEFINE p == batch[b].product
    <2>1. /\ p \in Product /\ p \notin change[c].todo /\ p # change[c].product
          /\ change[c].phase # "wrote"
      BY <1>1, <1>11 DEF Fail, Trusted, DatesIInv, MoreTypes
    <2>2. change[c].reach = {}
      BY <2>1 DEF DatesIInv, Steps, StepOf
    <2>3. Found(c) = {}
      BY <2>2 DEF Found
    <2>4. b \notin DOMAIN change[c].plan
      BY <1>11, <2>1 DEF DatesIInv, PlanRows, PlanOf
    <2> QED
      BY <2>1, <2>3, <2>4 DEF Due, ToVisit
  <1>12. Followed'
    <2> SUFFICES ASSUME NEW b \in Batch, Trusted(b)'
                 PROVE  \/ batch[b].date = DateFor(batch[b].made, Resolve(rules, batch[b].product))
                        \/ \E d \in InFlight' : change'[d].write = NoWrite /\ Due(d, b)'
      BY <1>1 DEF Followed
    <2>1. \/ batch[b].date = DateFor(batch[b].made, Resolve(rules, batch[b].product))
          \/ \E d \in InFlight : change[d].write = NoWrite /\ Due(d, b)
      BY <1>10 DEF DatesIInv, Followed
    <2>2. InFlight \subseteq Changer
      BY DEF InFlight
    <2> QED
      BY <1>3, <1>5, <1>6, <1>11, <2>1, <2>2
  <1>13. Reached'
    <2> SUFFICES ASSUME NEW d \in InFlight', change'[d].write # NoWrite, NEW b \in Batch, Trusted(b)',
                        batch[b].product \in Reach(View(d)', change'[d].write)
                 PROVE  Due(d, b)'
      BY <1>1 DEF Reached
    <2>1. d \in InFlight /\ d \in Changer /\ d # c
      BY <1>5 DEF InFlight
    <2> QED
      BY <1>3, <1>6, <1>10, <2>1 DEF DatesIInv, Reached
  <1>14. Undisturbed'
    <2>1. \A d \in InFlight' : d # c /\ d \in InFlight /\ d \in Changer
      BY <1>5 DEF InFlight
    <2> QED
      BY <1>1, <1>3, <2>1 DEF DatesIInv, Undisturbed
  <1>15. DatesTypeOK'
    <2>1. \A d \in Changer :
            /\ change'[d].phase \in {"idle", "wrote", "found", "resolved", "loaded"}
            /\ change'[d].todo \subseteq Product
      BY <1>7 DEF ChangeRow
    <2>2. \A d \in Changer : DOMAIN change'[d].plan \subseteq {b \in Batch : batch[b].live}
      BY <1>3, <1>4 DEF DatesIInv, DatesTypeOK
    <2> QED
      BY <1>1, <2>1, <2>2 DEF DatesIInv, DatesTypeOK
  <1>16. MoreTypes' /\ UserDatesStick'
    BY <1>1, <1>7 DEF DatesIInv, MoreTypes, UserDatesStick
  <1> QED
    BY <1>8, <1>9, <1>12, <1>13, <1>14, <1>15, <1>16 DEF DatesIInv

(* A change commits with its cascade, or a category's cascade one product of it
   (ApplyDerivedExpiry): the dates it planned are those of the rules it commits if
   nobody crossed it, and the batches it did not plan are out of its write's reach. *)
LEMMA ApplyDerivedExpiryKeeps ==
    ASSUME DatesIInv, NEW c \in Changer, ApplyDerivedExpiry(c)
    PROVE  DatesIInv'
  <1> DEFINE w == change[c].write
             plan == change[c].plan
             more == w = NoWrite /\ change[c].todo # {}
             row == IF more THEN [change[c] EXCEPT !.phase = "found", !.plan = <<>>] ELSE NoChange
  <1>1. /\ change[c].phase \in {"loaded", "found"} /\ (w # NoWrite => change[c].todo = {})
        /\ rules' = View(c) /\ UNCHANGED <<today, changes, said>>
        /\ change' = [change EXCEPT ![c] = row]
        /\ loose' = IF change[c].crossed THEN loose \cup DOMAIN plan ELSE loose \ DOMAIN plan
        /\ batch' = [b \in Batch |->
             IF b \in DOMAIN plan THEN [batch[b] EXCEPT !.date = plan[b], !.source = "derived"]
             ELSE batch[b]]
    BY DEF ApplyDerivedExpiry
  <1>2. /\ change \in [Changer -> ChangeRow] /\ change[c] \in ChangeRow
        /\ batch \in [Batch -> BatchRow] /\ plan \in Plans
    BY DEF DatesIInv, DatesTypeOK, MoreTypes, BatchRow, ChangeRow
  <1>3. /\ row \in ChangeRow /\ row.write = NoWrite /\ row.reach = {} /\ DOMAIN row.plan = {}
        /\ row.phase = IF more THEN "found" ELSE "idle"
        /\ more => row.todo = change[c].todo
    <2>1. change[c].reach = {}
      BY <1>1 DEF DatesIInv, Steps, StepOf
    <2>2. CASE more
      <3>1. row = [change[c] EXCEPT !.phase = "found", !.plan = <<>>] /\ w = NoWrite
        BY <2>2
      <3> HIDE DEF row, more
      <3>2. /\ row.phase = "found" /\ row.plan = <<>> /\ row.write = NoWrite /\ row.reach = {}
            /\ row.todo = change[c].todo
        BY <1>2, <2>1, <3>1 DEF ChangeRow
      <3>3. row \in ChangeRow
        <4>1. <<>> \in Plans
          BY PlanTypes
        <4> QED
          BY <1>2, <3>1, <4>1 DEF ChangeRow
      <3> QED
        BY <2>2, <3>2, <3>3
    <2>3. CASE ~more
      <3>1. row = NoChange
        BY <2>3
      <3> QED
        BY <2>3, <3>1, NoChangeType DEF NoChange
    <2> QED
      BY <2>2, <2>3
  <1> HIDE DEF row
  <1>4. change'[c] = row /\ \A d \in Changer : d # c => change'[d] = change[d]
    BY <1>1, <1>2
  <1>5. change' \in [Changer -> ChangeRow]
    BY <1>1, <1>2, <1>3
  <1>6. /\ c \in InFlight /\ InFlight' = (IF more THEN InFlight ELSE InFlight \ {c})
        /\ InFlight \subseteq Changer
    BY <1>1, <1>3, <1>4 DEF InFlight
  <1>7. rules \in Rules /\ rules' \in Rules /\ (w = NoWrite => rules' = rules) /\ (w # NoWrite => w \in Writes)
    BY <1>1, ViewTypes DEF DatesIInv
  <1>8. \A d \in Changer : d # c => Stands(d)
    BY <1>4 DEF Stands
  <1>9. \A b \in DOMAIN plan : b \in Batch /\ batch[b].live /\ batch[b].source = "derived"
                               /\ plan[b] \in Nat \cup {Nothing}
    BY <1>2, PlanTypes DEF DatesIInv, PlanRows, PlanOf
  <1>10. \A b \in Batch :
           /\ batch'[b].live = batch[b].live /\ batch'[b].source = batch[b].source
           /\ batch'[b].product = batch[b].product /\ batch'[b].made = batch[b].made
           /\ batch'[b] \in BatchRow
           /\ b \in DOMAIN plan => batch'[b].date = plan[b]
           /\ b \notin DOMAIN plan => batch'[b] = batch[b]
    <2> SUFFICES ASSUME NEW b \in Batch
                 PROVE  /\ batch'[b].live = batch[b].live /\ batch'[b].source = batch[b].source
                        /\ batch'[b].product = batch[b].product /\ batch'[b].made = batch[b].made
                        /\ batch'[b] \in BatchRow
                        /\ b \in DOMAIN plan => batch'[b].date = plan[b]
                        /\ b \notin DOMAIN plan => batch'[b] = batch[b]
      OBVIOUS
    <2>1. batch[b] \in BatchRow
      BY <1>2
    <2>2. CASE b \in DOMAIN plan
      <3>1. batch'[b] = [batch[b] EXCEPT !.date = plan[b], !.source = "derived"]
        BY <1>1, <2>2
      <3>2. batch[b].source = "derived" /\ plan[b] \in Nat \cup {Nothing}
        BY <1>9, <2>2
      <3> QED
        BY <2>1, <2>2, <3>1, <3>2 DEF BatchRow
    <2>3. CASE b \notin DOMAIN plan
      <3>1. batch'[b] = batch[b]
        BY <1>1, <2>3
      <3> QED
        BY <2>1, <2>3, <3>1
    <2> QED
      BY <2>2, <2>3
  <1>11. Steps' /\ PlanRows'
    <2>1. \A d \in Changer \ {c} : StepOf(d)' /\ PlanOf(d)'
      <3>1. \A d \in Changer \ {c} : \A b \in DOMAIN change[d].plan : b \in Batch
        BY DEF DatesIInv, DatesTypeOK
      <3> QED
        BY ZenonT(60), <1>8, <1>10, <3>1, StandingRows
    <2>2. StepOf(c)' /\ PlanOf(c)'
      BY <1>3, <1>4 DEF StepOf, PlanOf
    <2> QED
      BY <2>1, <2>2 DEF Steps, PlanRows
  <1>12. OneMove'
    <2>1. NoWrite \notin AboveWrites
      BY DatesAssumption DEF NoWrite, AboveWrites, Rule
    <2> QED
      BY <1>3, <1>4, <2>1 DEF DatesIInv, OneMove
  <1>13. \A b : Due(c, b) => batch[b].product \in change[c].todo \/ b \in DOMAIN plan
    <2>1. change[c].reach = {}
      BY <1>1 DEF DatesIInv, Steps, StepOf
    <2>2. Found(c) = {}
      BY <2>1 DEF Found
    <2> QED
      BY <1>1, <2>2 DEF Due, ToVisit
  <1>14. ASSUME NEW b \in DOMAIN plan, Trusted(b)'
         PROVE  /\ InFlight = {c}
                /\ batch'[b].date = DateFor(batch'[b].made, Resolve(rules', batch'[b].product))
    <2>1. ~change[c].crossed
      BY <1>1, <1>14 DEF Trusted
    <2>2. InFlight = {c} /\ plan[b] = DateFor(batch[b].made, Resolve(View(c), batch[b].product))
      BY <1>6, <2>1 DEF DatesIInv, Undisturbed
    <2>3. /\ batch'[b].date = plan[b] /\ batch'[b].made = batch[b].made
          /\ batch'[b].product = batch[b].product
      BY <1>9, <1>10
    <2> QED
      BY <1>1, <2>2, <2>3
  <1>15. ASSUME NEW b \in Batch, b \notin DOMAIN plan, Trusted(b)'
         PROVE  /\ Trusted(b) /\ batch[b].product \in Product
                /\ SamePlace(rules, rules', batch[b].product)
                /\ Resolve(rules', batch[b].product) = Resolve(rules, batch[b].product)
    <2>1. Trusted(b) /\ batch[b].product \in Product
      BY <1>1, <1>10, <1>15 DEF Trusted, DatesIInv, MoreTypes
    <2>2. CASE w = NoWrite
      BY <1>7, <2>1, <2>2 DEF SamePlace
    <2>3. CASE w # NoWrite
      <3>1. batch[b].product \notin Reach(View(c), w)
        BY <1>1, <1>6, <1>13, <1>15, <2>1, <2>3 DEF DatesIInv, Reached
      <3>2. w \in Writes /\ rules' = Overlay(rules, w) /\ View(c) = Overlay(rules, w)
        BY <1>1, <1>7, <2>3 DEF View
      <3> HIDE DEF w
      <3> QED
        BY <1>7, <2>1, <3>1, <3>2, OutOfReach DEF SamePlace
    <2> QED
      BY <2>1, <2>2, <2>3
  <1>16. ASSUME NEW d \in Changer, d # c, NEW b \in Batch, b \notin DOMAIN plan, Trusted(b)'
         PROVE  /\ Due(d, b)' <=> Due(d, b)
                /\ change[d].write # NoWrite =>
                     (batch[b].product \in Reach(View(d)', change[d].write)
                        <=> batch[b].product \in Reach(View(d), change[d].write))
    <2>1. change[d].write \in AboveWrites => rules'.above = rules.above
      <3> SUFFICES ASSUME change[d].write \in AboveWrites
                   PROVE  rules'.above = rules.above
        OBVIOUS
      <3>1. w \notin AboveWrites
        BY <1>16 DEF DatesIInv, OneMove
      <3>2. rules' = Overlay(rules, w)
        BY <1>1 DEF View
      <3> HIDE DEF w
      <3> QED
        BY <1>7, <3>1, <3>2, OverlayFields DEF Writes
    <2>2. Stands(d)
      BY <1>8, <1>16
    <2>3. /\ batch[b].product \in ToVisit(d)' <=> batch[b].product \in ToVisit(d)
          /\ change[d].write # NoWrite =>
                    (batch[b].product \in Reach(View(d)', change[d].write)
                       <=> batch[b].product \in Reach(View(d), change[d].write))
      BY <1>7, <1>15, <1>16, <2>1, <2>2, FoundAgain
    <2> QED
      BY <1>10, <2>2, <2>3 DEF Due, Stands
  <1>17. Followed'
    <2> SUFFICES ASSUME NEW b \in Batch, Trusted(b)', b \notin DOMAIN plan
                 PROVE  \/ batch'[b].date = DateFor(batch'[b].made, Resolve(rules', batch'[b].product))
                        \/ \E d \in InFlight' : change'[d].write = NoWrite /\ Due(d, b)'
      BY <1>14 DEF Followed
    <2>1. CASE batch[b].date = DateFor(batch[b].made, Resolve(rules, batch[b].product))
      BY <1>10, <1>15, <2>1
    <2>2. ASSUME NEW d \in InFlight, change[d].write = NoWrite, Due(d, b)
          PROVE  \E e \in InFlight' : change'[e].write = NoWrite /\ Due(e, b)'
      <3>1. CASE d # c
        BY <1>4, <1>6, <1>16, <2>2, <3>1
      <3>2. CASE d = c
        <4>1. batch[b].product \in change[c].todo /\ more
          BY <1>13, <2>2, <3>2
        <4>2. batch'[b].product \in change'[c].todo /\ c \in InFlight'
          BY <1>3, <1>4, <1>6, <1>10, <4>1
        <4> QED
          BY <1>3, <1>4, <4>2 DEF Due, ToVisit
      <3> QED
        BY <3>1, <3>2
    <2> QED
      BY <1>15, <2>1, <2>2 DEF DatesIInv, Followed
  <1>18. Reached'
    <2> SUFFICES ASSUME NEW d \in InFlight', change'[d].write # NoWrite, NEW b \in Batch, Trusted(b)',
                        batch'[b].product \in Reach(View(d)', change'[d].write)
                 PROVE  Due(d, b)'
      BY DEF Reached
    <2>1. d # c /\ d \in InFlight /\ d \in Changer
      BY <1>3, <1>4, <1>6
    <2>2. b \notin DOMAIN plan
      BY <1>14, <2>1
    <2>3. change'[d].write = change[d].write /\ batch'[b].product = batch[b].product
      BY <1>4, <1>10, <2>1
    <2>4. batch[b].product \in Reach(View(d), change[d].write)
      BY <1>16, <2>1, <2>2, <2>3
    <2>5. Due(d, b)
      BY <1>15, <2>1, <2>2, <2>3, <2>4 DEF DatesIInv, Reached
    <2> QED
      BY <1>16, <2>1, <2>2, <2>5
  <1>19. Undisturbed'
    <2> SUFFICES ASSUME NEW d \in InFlight', ~change'[d].crossed
                 PROVE  /\ InFlight' = {d}
                        /\ change'[d].phase # "resolved" /\ DOMAIN change'[d].plan = {}
      BY DEF Undisturbed
    <2>1. d = c
      BY <1>4, <1>6 DEF DatesIInv, Undisturbed
    <2>2. more
      BY <1>6, <2>1
    <2>3. ~change[c].crossed
      BY <1>2, <1>4, <2>1, <2>2 DEF row, ChangeRow
    <2> QED
      BY <1>3, <1>4, <1>6, <2>1, <2>2, <2>3 DEF DatesIInv, Undisturbed
  <1>20. DatesTypeOK'
    <2>1. \A d \in Changer :
            /\ change'[d].phase \in {"idle", "wrote", "found", "resolved", "loaded"}
            /\ change'[d].todo \subseteq Product
      BY <1>5 DEF ChangeRow
    <2>2. \A d \in Changer : DOMAIN change'[d].plan \subseteq {b \in Batch : batch'[b].live}
      BY <1>3, <1>4, <1>10 DEF DatesIInv, DatesTypeOK
    <2>3. rules' \in [days : [Rule -> Shelf \cup {Nothing}], filed : [Product -> Category \cup {Nothing}],
                  above : [Category -> Category \cup {Nothing}], linked : [Product -> BOOLEAN],
                  kind : [Product -> ItemType]]
      BY <1>7 DEF Rules, Parents
    <2>4. loose' \subseteq Batch
      BY <1>1, <1>9 DEF DatesIInv, DatesTypeOK
    <2>5. batch' \in [Batch -> BatchRow]
      BY <1>1, <1>10
    <2> QED
      BY <1>1, <2>1, <2>2, <2>3, <2>4, <2>5 DEF DatesIInv, DatesTypeOK, BatchRow
  <1>21. MoreTypes'
    BY <1>1, <1>5, <1>10 DEF DatesIInv, MoreTypes
  <1>22. UserDatesStick'
    BY <1>1, <1>9, <1>10 DEF DatesIInv, UserDatesStick
  <1> QED
    BY <1>11, <1>12, <1>17, <1>18, <1>19, <1>20, <1>21, <1>22 DEF DatesIInv

(* An item type is a rule too, of one product (PatchItemType). *)
LEMMA PatchItemTypeKeeps ==
    ASSUME DatesIInv, NEW p \in Product, NEW t \in ItemType, PatchItemType(p, t)
    PROVE  DatesIInv'
  <1> DEFINE kind == [q \in Product |-> IF q \in {p} THEN t ELSE rules.kind[q]]
  <1>1. Uncascaded("kind", {p}, t) /\ rules \in Rules
    BY DEF PatchItemType, DatesIInv, DatesTypeOK, Rules, Parents
  <1>2. rules' = [rules EXCEPT !.kind = kind]
    BY <1>1 DEF Uncascaded
  <1>3. kind \in [Product -> ItemType] /\ \A q \in Product \ {p} : kind[q] = rules.kind[q]
    BY <1>1 DEF Rules
  <1> HIDE DEF kind
  <1>4. /\ rules' \in Rules /\ rules'.kind = kind /\ rules'.days = rules.days
        /\ rules'.filed = rules.filed /\ rules'.above = rules.above /\ rules'.linked = rules.linked
    BY <1>1, <1>2, <1>3 DEF Rules
  <1> QED
    BY <1>1, <1>3, <1>4, UncascadedKeeps

(* A deleted catalog entry takes the links to it along (DeleteCatalogProduct). *)
LEMMA DeleteCatalogProductKeeps ==
    ASSUME DatesIInv, DeleteCatalogProduct
    PROVE  DatesIInv'
  <1> DEFINE linked == [q \in Product |-> IF q \in Product THEN FALSE ELSE rules.linked[q]]
  <1>1. Uncascaded("linked", Product, FALSE) /\ rules \in Rules
    BY DEF DeleteCatalogProduct, DatesIInv, DatesTypeOK, Rules, Parents
  <1>2. rules' = [rules EXCEPT !.linked = linked]
    BY <1>1 DEF Uncascaded
  <1>3. linked \in [Product -> BOOLEAN]
    OBVIOUS
  <1> HIDE DEF linked
  <1>4. /\ rules' \in Rules /\ rules'.kind = rules.kind /\ rules'.days = rules.days
        /\ rules'.filed = rules.filed /\ rules'.above = rules.above
    BY <1>1, <1>2, <1>3 DEF Rules
  <1> QED
    BY <1>1, <1>4, UncascadedKeeps

-----------------------------------------------------------------------------
(* The theorems *)

(* A change whose request asks for a shelf life, a category or a parent begins with a
   write of that kind (UpdateProduct, SetProductCategory, CorrectCatalogShelfLife,
   MoveCategory). *)
LEMMA RequestsKeep ==
    ASSUME DatesIInv, NEW c \in Changer,
           \/ \E p \in Product : PatchProduct(c, p) \/ PutProductCategory(c, p)
           \/ PatchCatalog(c)
           \/ \E n \in Category : \E k \in (Category \cup {Nothing}) \ {rules.above[n]} :
                MoveCategory(c, n, k)
    PROVE  DatesIInv'
  <1>1. ASSUME NEW key \in Rule, NEW days \in Shelf \cup {Nothing},
               BeginChange(c, Write("days", key, days), {key})
        PROVE  DatesIInv'
    <2> DEFINE w == Write("days", key, days)
    <2>1. w \in Writes /\ w.key = key /\ w \notin AboveWrites /\ BeginChange(c, w, {key})
      BY <1>1 DEF Write, Writes, DaysWrites, AboveWrites
    <2> HIDE DEF w
    <2> QED
      BY <2>1, BeginChangeKeeps
  <1>2. ASSUME NEW p \in Product, PatchProduct(c, p)
        PROVE  DatesIInv'
    <2>1. \/ \E d \in Shelf \cup {Nothing} : BeginChange(c, Write("days", p, d), {p})
          \/ \E t \in ItemType : PatchItemType(p, t)
      BY <1>2 DEF PatchProduct, UpdateProduct, ParseShelfLifeDays
    <2> QED
      BY <1>1, <2>1, PatchItemTypeKeeps DEF Rule
  <1>3. ASSUME NEW p \in Product, PutProductCategory(c, p)
        PROVE  DatesIInv'
    <2>1. PICK k \in Category \cup {Nothing} : BeginChange(c, Write("filed", p, k), {p})
      BY <1>3 DEF PutProductCategory, SetProductCategory
    <2> DEFINE w == Write("filed", p, k)
    <2>2. w \in Writes /\ w.key = p /\ w \notin AboveWrites /\ BeginChange(c, w, {p})
      BY <2>1 DEF Write, Writes, FiledWrites, AboveWrites
    <2> HIDE DEF w
    <2> QED
      BY <2>2, BeginChangeKeeps
  <1>4. ASSUME PatchCatalog(c)
        PROVE  DatesIInv'
    <2>1. \E d \in Shelf \cup {Nothing} : BeginChange(c, Write("days", Entry, d), {Entry})
      BY <1>4 DEF PatchCatalog, CorrectCatalogShelfLife, ParseShelfLifeDays
    <2> QED
      BY <1>1, <2>1 DEF Rule
  <1>5. ASSUME NEW n \in Category, NEW k \in Category \cup {Nothing}, MoveCategory(c, n, k)
        PROVE  DatesIInv'
    <2> DEFINE w == Write("above", n, k)
    <2>1. w \in Writes /\ w.key = n /\ BeginChange(c, w, {n})
      BY <1>5 DEF MoveCategory, Write, Writes, AboveWrites
    <2>2. \A d \in Changer : change[d].write \notin AboveWrites
      BY <1>5 DEF MoveCategory, AboveWrites
    <2> HIDE DEF w
    <2> QED
      BY <2>1, <2>2, BeginChangeKeeps
  <1> QED
    BY <1>2, <1>3, <1>4, <1>5

(* Every step keeps the invariant (DatesNext). *)
LEMMA DatesStepKeeps ==
    ASSUME DatesIInv, [DatesNext]_dateVars
    PROVE  DatesIInv'
  <1>1. ASSUME NEW c \in Changer,
               Find(c) \/ LoadDerivedBatches(c) \/ ApplyDerivedExpiry(c) \/ Fail(c)
        PROVE  DatesIInv'
    BY <1>1, FindKeeps, LoadDerivedBatchesKeeps, ApplyDerivedExpiryKeeps, FailKeeps
  <1>2. ASSUME NEW c \in Changer, NEW p \in Product, ExpiryRulesFor(c, p)
        PROVE  DatesIInv'
    BY <1>2, ExpiryRulesForKeeps
  <1>3. ASSUME NEW c \in Changer,
               \/ \E p \in Product : PatchProduct(c, p) \/ PutProductCategory(c, p)
               \/ PatchCatalog(c)
               \/ \E n \in Category : \E k \in (Category \cup {Nothing}) \ {rules.above[n]} :
                    MoveCategory(c, n, k)
        PROVE  DatesIInv'
    BY <1>3, RequestsKeep
  <1>4. ASSUME NEW c \in Changer, NEW k \in Category, NEW d \in ParseShelfLifeDays(rules.days[k]),
               PatchCategoryShelfLife(c, k, d)
        PROVE  DatesIInv'
    <2>1. d \in Shelf \cup {Nothing}
      BY DEF ParseShelfLifeDays
    <2> QED
      BY <1>4, <2>1, PatchCategoryKeeps
  <1>5. CASE DeleteCatalogProduct
    BY <1>5, DeleteCatalogProductKeeps
  <1>6. ASSUME NEW p \in Product, NEW q \in Product, MergeProducts(p, q)
        PROVE  DatesIInv'
    BY <1>6, MergeProductsKeeps
  <1>7. ASSUME NEW b \in Batch,
               \/ \E p \in Product, d \in StatedDate, stated \in BOOLEAN : CreateBatch(b, p, stated, d)
               \/ \E t \in Batch : SplitBatch(b, t)
               \/ PatchBatchExpiry(b)
        PROVE  DatesIInv'
    BY <1>7, CreateBatchKeeps, SplitBatchKeeps, SetBatchExpirationKeeps, ResetBatchExpirationKeeps
    DEF PatchBatchExpiry
  <1>8. CASE Tomorrow
    BY <1>8, TomorrowKeeps
  <1>9. CASE UNCHANGED dateVars
    BY <1>9
    DEF dateVars, DatesIInv, DatesTypeOK, MoreTypes, Steps, StepOf, PlanRows, PlanOf, OneMove,
        UserDatesStick, Followed, Reached, Undisturbed, Trusted, Due, ToVisit, Found, View, InFlight
  <1> QED
    BY <1>1, <1>2, <1>3, <1>4, <1>5, <1>6, <1>7, <1>8, <1>9 DEF DatesNext

(* The first state has no batch and no change, and satisfies the invariant
   (DatesInit). *)
LEMMA DatesInitHolds == DatesInit => DatesIInv
  <1> SUFFICES ASSUME DatesInit
               PROVE  DatesIInv
    OBVIOUS
  <1>1. /\ \A c \in Changer : change[c] = NoChange
        /\ change = [c \in Changer |-> NoChange]
        /\ \A b \in Batch : batch[b] = Gone /\ said[b] = ByRules
        /\ batch = [b \in Batch |-> Gone] /\ said = [b \in Batch |-> ByRules]
    BY DEF DatesInit
  <1>2. /\ NoChange.phase = "idle" /\ NoChange.write = NoWrite /\ NoChange.reach = {}
        /\ NoChange.todo = {} /\ DOMAIN NoChange.plan = {}
    BY DEF NoChange
  <1>3. Gone \in BatchRow /\ ~Gone.live
    BY DatesAssumption DEF Gone, BatchRow
  <1>4. InFlight = {}
    BY <1>1, <1>2 DEF InFlight
  <1>5. DatesTypeOK
    <2>1. rules \in [days : [Rule -> Shelf \cup {Nothing}], filed : [Product -> Category \cup {Nothing}],
                  above : [Category -> Category \cup {Nothing}], linked : [Product -> BOOLEAN],
                  kind : [Product -> ItemType]]
      <3>1. (CHOOSE k \in Category : TRUE) \in Category
        BY DatesAssumption
      <3> QED
        BY <3>1 DEF DatesInit, ItemType
    <2>2. batch \in [Batch -> BatchRow]
      BY <1>1, <1>3
    <2>3. today \in 0..MaxDay /\ changes \in 0..MaxChanges /\ loose \subseteq Batch
      BY DatesAssumption DEF DatesInit
    <2> QED
      BY <1>1, <1>2, <2>1, <2>2, <2>3 DEF DatesTypeOK, BatchRow
  <1>6. MoreTypes
    BY <1>1, <1>3, NoChangeType DEF MoreTypes
  <1>7. Steps /\ PlanRows
    BY <1>1, <1>2 DEF Steps, StepOf, PlanRows, PlanOf
  <1>8. OneMove
    <2>1. NoWrite \notin AboveWrites
      BY DatesAssumption DEF NoWrite, AboveWrites, Rule
    <2> QED
      BY <1>1, <1>2, <2>1 DEF OneMove
  <1>9. UserDatesStick /\ Followed
    BY <1>1, <1>3 DEF UserDatesStick, Followed, Trusted
  <1>10. Reached /\ Undisturbed
    BY <1>4 DEF Reached, Undisturbed
  <1> QED
    BY <1>5, <1>6, <1>7, <1>8, <1>9, <1>10 DEF DatesIInv

(* The invariant holds in every state the rules, the batches and the cascades can
   reach, for every number of products, categories, batches and changes in flight. *)
THEOREM DatesInvariant == DatesSpec => []DatesIInv
  <1>1. DatesInit => DatesIInv
    BY DatesInitHolds
  <1>2. DatesIInv /\ [DatesNext]_dateVars => DatesIInv'
    BY DatesStepKeeps
  <1> QED
    BY <1>1, <1>2, PTL DEF DatesSpec

(* Rules, batches and changes in flight have their types (the tables of expiry.go and
   batches.go): a planned batch is one that exists. *)
THEOREM DatesTypeCorrect == DatesSpec => []DatesTypeOK
  <1>1. DatesIInv => DatesTypeOK
    BY DEF DatesIInv
  <1> QED
    BY <1>1, DatesInvariant, PTL

(* A date a person typed outranks every rule: no cascade, merge or split, in any order,
   replaces it (expiry.go's "forever"). *)
THEOREM TypedDatesStick == DatesSpec => []UserDatesStick
  <1>1. DatesIInv => UserDatesStick
    BY DEF DatesIInv
  <1> QED
    BY <1>1, DatesInvariant, PTL

(* Once no rule change is being served, a derived date that is not loose is the date
   the current rules give: the cascades miss nothing (ApplyDerivedExpiry). *)
THEOREM DerivedDatesFollowRules == DatesSpec => []DatesFollowRules
  <1>1. DatesIInv => DatesFollowRules
    BY DEF DatesIInv, Followed, Trusted, DatesFollowRules
  <1> QED
    BY <1>1, DatesInvariant, PTL

-----------------------------------------------------------------------------
(* What can be reached from a node of a finite graph *)

\* The nodes one step of R away from those of S.
Beyond(R, S) == {y \in Node : \E x \in S : <<x, y>> \in R}

\* f walks d rows from n along R.
Walk(f, R, n, d) ==
    f = [i \in 1..d |-> IF i = 1 THEN {n} ELSE f[i - 1] \cup Beyond(R, f[i - 1])]

Spread(R, n, d) == (CHOOSE f : Walk(f, R, n, d))[d]

Size == Cardinality(Node)

Reachable(R, n) == Spread(R, n, Size)

Closed(R, S) == \A x \in S, y \in Node : <<x, y>> \in R => y \in S

(* A walk of every length exists. *)
LEMMA WalkExists ==
    ASSUME NEW R, NEW n, NEW d \in Nat
    PROVE  \E f : Walk(f, R, n, d)
  <1> DEFINE S == {i \in Nat : \E f : Walk(f, R, n, i)}
  <1>1. 0 \in S
    <2>1. Walk([i \in 1..0 |-> {n}], R, n, 0)
      BY DEF Walk
    <2> QED
      BY <2>1
  <1>2. ASSUME NEW i \in Nat, i \in S
        PROVE  i + 1 \in S
    <2>1. PICK f : Walk(f, R, n, i)
      BY <1>2
    <2> DEFINE g == [j \in 1..(i + 1) |-> IF j = 1 THEN {n}
                       ELSE IF j = i + 1 THEN f[i] \cup Beyond(R, f[i]) ELSE f[j]]
    <2>2. ASSUME NEW j \in 1..(i + 1)
          PROVE  g[j] = IF j = 1 THEN {n} ELSE g[j - 1] \cup Beyond(R, g[j - 1])
      <3>1. CASE j = 1
        BY <3>1
      <3>2. CASE j # 1 /\ j = i + 1
        <4>1. j - 1 \in 1..(i + 1) /\ j - 1 = i /\ i \in 1..i /\ i # i + 1
          BY <3>2
        <4>2. g[i] = f[i]
          BY <2>1, <4>1 DEF Walk
        <4> QED
          BY <3>2, <4>1, <4>2
      <3>3. CASE j # 1 /\ j # i + 1
        <4>1. j - 1 \in 1..(i + 1) /\ j - 1 \in 1..i /\ j \in 1..i /\ j - 1 # i + 1
          BY <3>3
        <4>2. g[j - 1] = f[j - 1] /\ g[j] = f[j]
          BY <2>1, <3>3, <4>1 DEF Walk
        <4>3. f[j] = f[j - 1] \cup Beyond(R, f[j - 1])
          BY <2>1, <3>3, <4>1 DEF Walk
        <4> HIDE DEF g
        <4> QED
          BY <3>3, <4>2, <4>3
      <3> QED
        BY <3>1, <3>2, <3>3
    <2>3. g = [j \in 1..(i + 1) |-> g[j]]
      OBVIOUS
    <2>4. Walk(g, R, n, i + 1)
      <3> HIDE DEF g
      <3> QED
        BY <2>2, <2>3 DEF Walk
    <2> QED
      BY <2>4
  <1> HIDE DEF S
  <1>3. Nat \subseteq S
    BY <1>1, <1>2, NumbersInduct
  <1> QED
    BY <1>3 DEF S

(* Two walks agree as far as both go. *)
LEMMA WalkUnique ==
    ASSUME NEW R, NEW n, NEW d \in Nat, NEW e \in Nat, NEW f, NEW g,
           Walk(f, R, n, d), Walk(g, R, n, e)
    PROVE  \A i \in 1..d : i \in 1..e => f[i] = g[i]
  <1> DEFINE S == {i \in Nat : i \in 1..d /\ i \in 1..e => f[i] = g[i]}
  <1>1. 0 \in S
    OBVIOUS
  <1>2. ASSUME NEW i \in Nat, i \in S
        PROVE  i + 1 \in S
    <2>1. SUFFICES ASSUME i + 1 \in 1..d, i + 1 \in 1..e
                   PROVE  f[i + 1] = g[i + 1]
      OBVIOUS
    <2>2. CASE i = 0
      BY <2>1, <2>2 DEF Walk
    <2>3. CASE i # 0
      <3>1. i \in 1..d /\ i \in 1..e /\ i + 1 # 1 /\ (i + 1) - 1 = i
        BY <2>1, <2>3
      <3>2. f[i] = g[i]
        BY <1>2, <3>1
      <3>3. f[i + 1] = f[i] \cup Beyond(R, f[i]) /\ g[i + 1] = g[i] \cup Beyond(R, g[i])
        BY <2>1, <3>1 DEF Walk
      <3> QED
        BY <3>2, <3>3
    <2> QED
      BY <2>2, <2>3
  <1> HIDE DEF S
  <1>3. Nat \subseteq S
    BY <1>1, <1>2, NumbersInduct
  <1> QED
    BY <1>3 DEF S

(* What is reached within d rows, row by row. *)
LEMMA SpreadSteps ==
    ASSUME NEW R, NEW n
    PROVE  /\ Spread(R, n, 1) = {n}
           /\ \A d \in Nat \ {0} :
                Spread(R, n, d + 1) = Spread(R, n, d) \cup Beyond(R, Spread(R, n, d))
  <1> DEFINE w(d) == CHOOSE f : Walk(f, R, n, d)
  <1>1. \A d \in Nat : Walk(w(d), R, n, d)
    BY WalkExists
  <1>2. \A d \in Nat : Spread(R, n, d) = w(d)[d]
    BY DEF Spread
  <1> HIDE DEF w
  <1>3. Spread(R, n, 1) = {n}
    <2>1. Walk(w(1), R, n, 1) /\ 1 \in 1..1
      BY <1>1
    <2> QED
      BY <1>2, <2>1 DEF Walk
  <1>4. ASSUME NEW d \in Nat \ {0}
        PROVE  Spread(R, n, d + 1) = Spread(R, n, d) \cup Beyond(R, Spread(R, n, d))
    <2>1. d + 1 \in Nat /\ d \in 1..d /\ d \in 1..(d + 1) /\ d + 1 \in 1..(d + 1) /\ d + 1 # 1
          /\ (d + 1) - 1 = d
      OBVIOUS
    <2>2. Walk(w(d), R, n, d) /\ Walk(w(d + 1), R, n, d + 1)
      BY <1>1, <2>1
    <2>3. w(d)[d] = w(d + 1)[d]
      BY <2>1, <2>2, WalkUnique
    <2>4. w(d + 1)[d + 1] = w(d + 1)[d] \cup Beyond(R, w(d + 1)[d])
      BY <2>1, <2>2 DEF Walk
    <2> QED
      BY <1>2, <2>1, <2>3, <2>4
  <1> QED
    BY <1>3, <1>4

(* Nodes are finitely many, at least one if there is a node at all. *)
LEMMA NodesFinite ==
    /\ IsFiniteSet(Node) /\ Size \in Nat
    /\ \A n \in Node : Size # 0
  <1>1. IsFiniteSet(Node) /\ Size \in Nat
    BY TreeAssumption, FS_CardinalityType DEF Size
  <1> QED
    BY <1>1, FS_EmptySet DEF Size

(* Within more rows more is reached, and never anything but nodes. *)
LEMMA SpreadTypes ==
    ASSUME NEW R, NEW n \in Node, NEW d \in Nat \ {0}
    PROVE  /\ n \in Spread(R, n, d) /\ Spread(R, n, d) \subseteq Node
           /\ IsFiniteSet(Spread(R, n, d)) /\ Cardinality(Spread(R, n, d)) \in Nat
  <1> DEFINE S == {i \in Nat : n \in Spread(R, n, i + 1) /\ Spread(R, n, i + 1) \subseteq Node}
  <1>1. 0 \in S
    <2>1. 0 + 1 = 1
      OBVIOUS
    <2> QED
      BY <2>1, SpreadSteps
  <1>2. ASSUME NEW i \in Nat, i \in S
        PROVE  i + 1 \in S
    <2>1. i + 1 \in Nat \ {0}
      OBVIOUS
    <2>2. Spread(R, n, (i + 1) + 1) = Spread(R, n, i + 1) \cup Beyond(R, Spread(R, n, i + 1))
      BY <2>1, SpreadSteps
    <2> QED
      BY <1>2, <2>2 DEF Beyond
  <1> HIDE DEF S
  <1>3. Nat \subseteq S
    BY <1>1, <1>2, NumbersInduct
  <1>4. d - 1 \in Nat /\ (d - 1) + 1 = d
    OBVIOUS
  <1>5. n \in Spread(R, n, d) /\ Spread(R, n, d) \subseteq Node
    BY <1>3, <1>4 DEF S
  <1> QED
    BY <1>5, NodesFinite, FS_Subset, FS_CardinalityType

(* Once a row adds nothing, none ever does. *)
LEMMA SpreadStays ==
    ASSUME NEW R, NEW n \in Node, NEW d \in Nat \ {0}, Closed(R, Spread(R, n, d)), NEW e \in Nat
    PROVE  Spread(R, n, d + e) = Spread(R, n, d)
  <1> DEFINE S == {i \in Nat : Spread(R, n, d + i) = Spread(R, n, d)}
  <1>1. 0 \in S
    <2>1. d + 0 = d
      OBVIOUS
    <2> QED
      BY <2>1
  <1>2. ASSUME NEW i \in Nat, i \in S
        PROVE  i + 1 \in S
    <2>1. d + i \in Nat \ {0} /\ d + (i + 1) = (d + i) + 1
      OBVIOUS
    <2>2. Spread(R, n, d + (i + 1)) = Spread(R, n, d) \cup Beyond(R, Spread(R, n, d))
      BY <1>2, <2>1, SpreadSteps
    <2>3. Beyond(R, Spread(R, n, d)) \subseteq Spread(R, n, d)
      BY DEF Beyond, Closed
    <2> QED
      BY <2>2, <2>3
  <1> HIDE DEF S
  <1>3. Nat \subseteq S
    BY <1>1, <1>2, NumbersInduct
  <1> QED
    BY <1>3 DEF S

(* Rows add up: each finds something new, or everything has been found. *)
LEMMA SpreadGrows ==
    ASSUME NEW R, NEW n \in Node, NEW d \in Nat \ {0}
    PROVE  Closed(R, Spread(R, n, d)) \/ Cardinality(Spread(R, n, d)) >= d
  <1> DEFINE S == {i \in Nat : \/ Closed(R, Spread(R, n, i + 1))
                               \/ Cardinality(Spread(R, n, i + 1)) >= i + 1}
  <1>1. 0 \in S
    <2>1. 0 + 1 = 1
      OBVIOUS
    <2>2. Cardinality({n}) = 1
      BY FS_Singleton
    <2>3. Spread(R, n, 0 + 1) = {n}
      BY <2>1, SpreadSteps
    <2> QED
      BY <2>1, <2>2, <2>3
  <1>2. ASSUME NEW i \in Nat, i \in S
        PROVE  i + 1 \in S
    <2>1. i + 1 \in Nat \ {0} /\ (i + 1) + 1 \in Nat \ {0}
      OBVIOUS
    <2>2. Spread(R, n, (i + 1) + 1) = Spread(R, n, i + 1) \cup Beyond(R, Spread(R, n, i + 1))
      BY <2>1, SpreadSteps
    <2>3. CASE Closed(R, Spread(R, n, i + 1))
      <3>1. Spread(R, n, (i + 1) + 1) = Spread(R, n, i + 1)
        BY <2>1, <2>3, SpreadStays
      <3>2. Closed(R, Spread(R, n, (i + 1) + 1))
        BY <2>3, <3>1
      <3> QED
        BY <3>2
    <2>4. CASE ~Closed(R, Spread(R, n, i + 1))
      <3>1. Cardinality(Spread(R, n, i + 1)) >= i + 1
        BY <1>2, <2>4
      <3>2. PICK y \in Node : y \notin Spread(R, n, i + 1) /\ y \in Beyond(R, Spread(R, n, i + 1))
        BY <2>4 DEF Closed, Beyond
      <3> DEFINE A == Spread(R, n, i + 1)
                 B == Spread(R, n, (i + 1) + 1)
      <3>3. /\ A \subseteq B /\ y \in B /\ y \notin A
            /\ IsFiniteSet(A) /\ Cardinality(A) \in Nat /\ IsFiniteSet(B) /\ Cardinality(B) \in Nat
        BY <2>1, <2>2, <3>2, SpreadTypes
      <3>4. Cardinality(A) >= i + 1
        BY <3>1
      <3> HIDE DEF A, B
      <3>5. IsFiniteSet(A \cup {y}) /\ Cardinality(A \cup {y}) = Cardinality(A) + 1
        BY <3>3, FS_AddElement
      <3>6. Cardinality(A \cup {y}) <= Cardinality(B)
        <4>1. A \cup {y} \subseteq B
          BY <3>3
        <4> QED
          BY <3>3, <4>1, FS_Subset
      <3>7. Cardinality(B) >= (i + 1) + 1
        BY <3>3, <3>4, <3>5, <3>6
      <3> QED
        BY <3>7 DEF B
    <2> QED
      BY <2>3, <2>4
  <1> HIDE DEF S
  <1>3. Nat \subseteq S
    BY <1>1, <1>2, NumbersInduct
  <1>4. d - 1 \in Nat /\ (d - 1) + 1 = d
    OBVIOUS
  <1>5. d - 1 \in S
    BY <1>3, <1>4
  <1> QED
    BY <1>4, <1>5 DEF S

(* Within as many rows as there are nodes, everything reachable is reached. *)
LEMMA ReachableCloses ==
    ASSUME NEW R, NEW n \in Node
    PROVE  /\ n \in Reachable(R, n) /\ Reachable(R, n) \subseteq Node
           /\ Closed(R, Reachable(R, n))
           /\ IsFiniteSet(Reachable(R, n)) /\ Cardinality(Reachable(R, n)) \in Nat
  <1>1. Size \in Nat \ {0}
    BY NodesFinite
  <1>2. /\ n \in Reachable(R, n) /\ Reachable(R, n) \subseteq Node
        /\ IsFiniteSet(Reachable(R, n)) /\ Cardinality(Reachable(R, n)) \in Nat
    BY <1>1, SpreadTypes DEF Reachable
  <1>3. CASE Cardinality(Reachable(R, n)) >= Size
    <2>1. Cardinality(Reachable(R, n)) <= Size
      BY <1>2, NodesFinite, FS_Subset DEF Size
    <2>2. Cardinality(Reachable(R, n)) = Cardinality(Node)
      BY <1>1, <1>2, <1>3, <2>1 DEF Size
    <2>3. Reachable(R, n) = Node
      BY <1>2, <2>2, NodesFinite, FS_Subset
    <2> QED
      BY <1>2, <2>3 DEF Closed
  <1>4. CASE Closed(R, Reachable(R, n))
    BY <1>2, <1>4
  <1>5. Closed(R, Spread(R, n, Size)) \/ Cardinality(Spread(R, n, Size)) >= Size
    BY <1>1, SpreadGrows
  <1> QED
    BY <1>3, <1>4, <1>5 DEF Reachable

(* A set that holds n and is closed holds everything within any number of rows. *)
LEMMA SpreadLeast ==
    ASSUME NEW R, NEW n \in Node, NEW d \in Nat \ {0}, NEW T, n \in T, Closed(R, T)
    PROVE  Spread(R, n, d) \subseteq T
  <1> DEFINE S == {i \in Nat : Spread(R, n, i + 1) \subseteq T}
  <1>1. 0 \in S
    <2>1. 0 + 1 = 1
      OBVIOUS
    <2> QED
      BY <2>1, SpreadSteps
  <1>2. ASSUME NEW i \in Nat, i \in S
        PROVE  i + 1 \in S
    <2>1. i + 1 \in Nat \ {0}
      OBVIOUS
    <2>2. Spread(R, n, (i + 1) + 1) = Spread(R, n, i + 1) \cup Beyond(R, Spread(R, n, i + 1))
      BY ZenonT(60), <2>1, SpreadSteps
    <2>3. Spread(R, n, i + 1) \subseteq T
      BY <1>2
    <2>4. Beyond(R, Spread(R, n, i + 1)) \subseteq T
      BY <2>3 DEF Beyond, Closed
    <2> QED
      BY <2>2, <2>3, <2>4
  <1> HIDE DEF S
  <1>3. Nat \subseteq S
    BY <1>1, <1>2, NumbersInduct
  <1>4. d - 1 \in Nat /\ (d - 1) + 1 = d
    OBVIOUS
  <1>5. d - 1 \in S
    BY <1>3, <1>4
  <1> QED
    BY <1>4, <1>5 DEF S

(* Whatever is closed and holds n holds everything reachable. *)
LEMMA ReachableLeast ==
    ASSUME NEW R, NEW n \in Node, NEW T, n \in T, Closed(R, T)
    PROVE  Reachable(R, n) \subseteq T
  BY NodesFinite, SpreadLeast DEF Reachable

(* As many rows as there are reachable nodes are enough. *)
LEMMA EnoughRows ==
    ASSUME NEW R, NEW n \in Node, NEW d \in Nat \ {0}, Cardinality(Reachable(R, n)) <= d
    PROVE  Spread(R, n, d) = Reachable(R, n)
  <1> DEFINE A == Spread(R, n, d)
             B == Reachable(R, n)
  <1>1. /\ n \in A /\ IsFiniteSet(A) /\ Cardinality(A) \in Nat
        /\ n \in B /\ Closed(R, B) /\ IsFiniteSet(B) /\ Cardinality(B) \in Nat
    BY SpreadTypes, ReachableCloses
  <1>2. A \subseteq B
    <2> HIDE DEF B
    <2> QED
      BY <1>1, SpreadLeast
  <1>3. CASE Closed(R, A)
    <2>1. B \subseteq A
      <3> HIDE DEF A
      <3> QED
        BY <1>1, <1>3, ReachableLeast
    <2> QED
      BY <1>2, <2>1
  <1>4. CASE Cardinality(A) >= d
    <2> HIDE DEF A
    <2>1. Cardinality(A) <= Cardinality(B)
      BY <1>1, <1>2, FS_Subset
    <2>2. Cardinality(A) = Cardinality(B)
      BY <1>1, <1>4, <2>1 DEF B
    <2>3. A = B
      BY <1>1, <1>2, <2>2, FS_Subset
    <2> QED
      BY <2>3 DEF A
  <1> QED
    BY <1>3, <1>4, SpreadGrows

-----------------------------------------------------------------------------
(* The walks of a tree.  A tree is a function par from nodes to their parents. *)

Forest == [Node -> Node \cup {Top, NoNode}]

UpOf(par) == {<<x, par[x]>> : x \in Node}
DownOf(par) == {<<par[x], x>> : x \in Node}

\* A node with all that is above it, and with all that is below it.
Anc(par, n) == Reachable(UpOf(par), n)
Desc(par, n) == Reachable(DownOf(par), n)

\* The next row of either walk.
UpRow(par, S) == (S \cup {par[m] : m \in S}) \ {Top, NoNode}
DownRow(par, S) == S \cup {m \in Node : par[m] \in S}

UpWalk(up, par, n, d) ==
    up = [i \in 1..d |-> IF i = 1 THEN {n} ELSE UpRow(par, up[i - 1])]

DownWalk(down, par, n, d) ==
    down = [i \in 1..d |-> IF i = 1 THEN {n} ELSE DownRow(par, down[i - 1])]

(* A row of either walk is a row along the tree's edges. *)
LEMMA RowsAre ==
    ASSUME NEW par \in Forest, NEW S \in SUBSET Node
    PROVE  /\ UpRow(par, S) = S \cup Beyond(UpOf(par), S)
           /\ DownRow(par, S) = S \cup Beyond(DownOf(par), S)
  <1>1. Top \notin Node /\ NoNode \notin Node
    BY TreeAssumption
  <1>2. \A x, y : <<x, y>> \in UpOf(par) <=> x \in Node /\ y = par[x]
    BY DEF UpOf
  <1>3. \A x, y : <<x, y>> \in DownOf(par) <=> y \in Node /\ x = par[y]
    BY DEF DownOf
  <1>4. Beyond(UpOf(par), S) = {y \in Node : \E x \in S : y = par[x]}
    BY <1>2 DEF Beyond
  <1>5. Beyond(DownOf(par), S) = {y \in Node : par[y] \in S}
    BY <1>3 DEF Beyond
  <1>6. \A x \in S : par[x] \in Node \cup {Top, NoNode}
    BY DEF Forest
  <1> QED
    BY <1>1, <1>4, <1>5, <1>6 DEF UpRow, DownRow

(* Upward and Downward are the walks along the edges. *)
LEMMA WalksAre ==
    ASSUME NEW par \in Forest, NEW n \in Node, NEW d \in Nat \ {0}
    PROVE  /\ (CHOOSE up : UpWalk(up, par, n, d))[d] = Spread(UpOf(par), n, d)
           /\ (CHOOSE down : DownWalk(down, par, n, d))[d] = Spread(DownOf(par), n, d)
  <1> DEFINE U(i) == Spread(UpOf(par), n, i)
             D(i) == Spread(DownOf(par), n, i)
             u == [i \in 1..d |-> U(i)]
             v == [i \in 1..d |-> D(i)]
  <1>1. \A i \in 1..d : i \in Nat \ {0} /\ (i # 1 => i - 1 \in Nat \ {0} /\ (i - 1) + 1 = i /\ i - 1 \in 1..d)
    OBVIOUS
  <1>2. \A i \in 1..d : U(i) \in SUBSET Node /\ D(i) \in SUBSET Node
    BY <1>1, SpreadTypes
  <1>3. ASSUME NEW i \in 1..d
        PROVE  /\ U(i) = IF i = 1 THEN {n} ELSE UpRow(par, U(i - 1))
               /\ D(i) = IF i = 1 THEN {n} ELSE DownRow(par, D(i - 1))
    <2>1. CASE i = 1
      BY <2>1, SpreadSteps
    <2>2. CASE i # 1
      <3>1. /\ i - 1 \in Nat \ {0} /\ (i - 1) + 1 = i /\ U(i - 1) \in SUBSET Node
            /\ D(i - 1) \in SUBSET Node
        BY <1>1, <1>2, <2>2
      <3>2. /\ U((i - 1) + 1) = U(i - 1) \cup Beyond(UpOf(par), U(i - 1))
            /\ D((i - 1) + 1) = D(i - 1) \cup Beyond(DownOf(par), D(i - 1))
        <4> DEFINE m == i - 1
        <4>1. m \in Nat \ {0}
          BY <3>1
        <4> HIDE DEF m
        <4>2. U(m + 1) = U(m) \cup Beyond(UpOf(par), U(m))
          BY <4>1, SpreadSteps
        <4>3. D(m + 1) = D(m) \cup Beyond(DownOf(par), D(m))
          BY <4>1, SpreadSteps
        <4> HIDE DEF U, D
        <4> QED
          BY <4>2, <4>3 DEF m
      <3>3. U((i - 1) + 1) = U(i) /\ D((i - 1) + 1) = D(i)
        BY <3>1
      <3> HIDE DEF U, D
      <3> QED
        BY <2>2, <3>1, <3>2, <3>3, RowsAre
    <2> QED
      BY <2>1, <2>2
  <1>4. UpWalk(u, par, n, d) /\ DownWalk(v, par, n, d)
    <2>1. \A i \in 1..d : u[i] = U(i) /\ v[i] = D(i) /\ (i # 1 => u[i - 1] = U(i - 1) /\ v[i - 1] = D(i - 1))
      BY <1>1
    <2>2. u = [i \in 1..d |-> u[i]] /\ v = [i \in 1..d |-> v[i]]
      OBVIOUS
    <2> HIDE DEF u, v, U, D
    <2>3. ASSUME NEW i \in 1..d
          PROVE  /\ u[i] = IF i = 1 THEN {n} ELSE UpRow(par, u[i - 1])
                 /\ v[i] = IF i = 1 THEN {n} ELSE DownRow(par, v[i - 1])
      <3>1. CASE i = 1
        BY <1>3, <2>1, <3>1
      <3>2. CASE i # 1
        <4>1. u[i] = U(i) /\ v[i] = D(i) /\ u[i - 1] = U(i - 1) /\ v[i - 1] = D(i - 1)
          BY <2>1, <3>2
        <4>2. /\ U(i) = UpRow(par, U(i - 1))
              /\ D(i) = DownRow(par, D(i - 1))
          BY <1>3, <3>2
        <4> QED
          BY <3>2, <4>1, <4>2
      <3> QED
        BY <3>1, <3>2
    <2>4. UpWalk(u, par, n, d)
      BY <2>2, <2>3 DEF UpWalk
    <2>5. DownWalk(v, par, n, d)
      BY <2>2, <2>3 DEF DownWalk
    <2> QED
      BY <2>4, <2>5
  <1>5. ASSUME NEW f, UpWalk(f, par, n, d)
        PROVE  f[d] = U(d)
    <2> DEFINE S == {i \in Nat : i \in 1..d => f[i] = U(i)}
    <2>1. 0 \in S
      OBVIOUS
    <2>2. ASSUME NEW i \in Nat, i \in S
          PROVE  i + 1 \in S
      <3>1. SUFFICES ASSUME i + 1 \in 1..d
                     PROVE  f[i + 1] = U(i + 1)
        OBVIOUS
      <3> HIDE DEF U
      <3>2. CASE i = 0
        <4>1. f[1] = {n} /\ U(1) = {n} /\ i + 1 = 1
          BY <1>3, <1>5, <3>1, <3>2 DEF UpWalk
        <4> QED
          BY <4>1
      <3>3. CASE i # 0
        <4>1. i \in 1..d /\ i + 1 # 1 /\ (i + 1) - 1 = i
          BY <3>1, <3>3
        <4>2. f[i] = U(i)
          BY <2>2, <4>1
        <4>3. f[i + 1] = UpRow(par, f[i])
          BY <1>5, <3>1, <4>1 DEF UpWalk
        <4>4. U(i + 1) = UpRow(par, U(i))
          BY <1>3, <3>1, <4>1
        <4> QED
          BY <4>2, <4>3, <4>4
      <3> QED
        BY <3>2, <3>3
    <2> HIDE DEF S
    <2>3. Nat \subseteq S
      BY <2>1, <2>2, NumbersInduct
    <2> QED
      BY <2>3 DEF S
  <1>6. ASSUME NEW f, DownWalk(f, par, n, d)
        PROVE  f[d] = D(d)
    <2> DEFINE S == {i \in Nat : i \in 1..d => f[i] = D(i)}
    <2>1. 0 \in S
      OBVIOUS
    <2>2. ASSUME NEW i \in Nat, i \in S
          PROVE  i + 1 \in S
      <3>1. SUFFICES ASSUME i + 1 \in 1..d
                     PROVE  f[i + 1] = D(i + 1)
        OBVIOUS
      <3> HIDE DEF D
      <3>2. CASE i = 0
        <4>1. f[1] = {n} /\ D(1) = {n} /\ i + 1 = 1
          BY <1>3, <1>6, <3>1, <3>2 DEF DownWalk
        <4> QED
          BY <4>1
      <3>3. CASE i # 0
        <4>1. i \in 1..d /\ i + 1 # 1 /\ (i + 1) - 1 = i
          BY <3>1, <3>3
        <4>2. f[i] = D(i)
          BY <2>2, <4>1
        <4>3. f[i + 1] = DownRow(par, f[i])
          BY <1>6, <3>1, <4>1 DEF DownWalk
        <4>4. D(i + 1) = DownRow(par, D(i))
          BY <1>3, <3>1, <4>1
        <4> QED
          BY <4>2, <4>3, <4>4
      <3> QED
        BY <3>2, <3>3
    <2> HIDE DEF S
    <2>3. Nat \subseteq S
      BY <2>1, <2>2, NumbersInduct
    <2> QED
      BY <2>3 DEF S
  <1> DEFINE f == CHOOSE up : UpWalk(up, par, n, d)
             g == CHOOSE down : DownWalk(down, par, n, d)
  <1>7. UpWalk(f, par, n, d) /\ DownWalk(g, par, n, d)
    <2> HIDE DEF u, v
    <2> QED
      BY <1>4
  <1> HIDE DEF f, g, u, v
  <1>8. f[d] = U(d) /\ g[d] = D(d)
    BY <1>5, <1>6, <1>7
  <1> QED
    BY <1>8 DEF f, g

(* The operators of the model in these terms, before and after a step. *)
LEMMA UpwardIs ==
    ASSUME NEW n \in Node, NEW d \in Nat \ {0}
    PROVE  /\ parent \in Forest => /\ Upward(n, d) = Spread(UpOf(parent), n, d)
                                   /\ Downward(n, d) = Spread(DownOf(parent), n, d)
           /\ parent' \in Forest => Upward(n, d)' = Spread(UpOf(parent'), n, d)
  <1>1. Upward(n, d) = (CHOOSE up : UpWalk(up, parent, n, d))[d]
    BY Zenon DEF Upward, UpWalk, UpRow
  <1>2. Downward(n, d) = (CHOOSE down : DownWalk(down, parent, n, d))[d]
    BY Zenon DEF Downward, DownWalk, DownRow
  <1>3. Upward(n, d)' = (CHOOSE up : UpWalk(up, parent', n, d))[d]
    BY Zenon DEF Upward, UpWalk, UpRow
  <1> QED
    BY <1>1, <1>2, <1>3, WalksAre

(* What is above n: n, the parent of whatever is above it, and nothing else. *)
LEMMA AncFacts ==
    ASSUME NEW par \in Forest, NEW n \in Node
    PROVE  /\ n \in Anc(par, n) /\ Anc(par, n) \subseteq Node
           /\ IsFiniteSet(Anc(par, n)) /\ Cardinality(Anc(par, n)) \in Nat
           /\ \A x \in Anc(par, n) : par[x] \in Node => par[x] \in Anc(par, n)
  <1>1. \A x \in Node : <<x, par[x]>> \in UpOf(par)
    BY DEF UpOf
  <1> QED
    BY <1>1, ReachableCloses DEF Anc, Closed

(* A set with the node and the parents of its members has all ancestors. *)
LEMMA AncLeast ==
    ASSUME NEW par \in Forest, NEW n \in Node, NEW T, n \in T,
           \A x \in T : x \in Node /\ par[x] \in Node => par[x] \in T
    PROVE  Anc(par, n) \subseteq T
  <1>1. Closed(UpOf(par), T)
    <2>1. \A x, y : <<x, y>> \in UpOf(par) => x \in Node /\ y = par[x]
      BY DEF UpOf
    <2> QED
      BY <2>1 DEF Closed
  <1> QED
    BY <1>1, ReachableLeast DEF Anc

(* What is below n: n, the children of whatever is below it, and nothing else. *)
LEMMA DescFacts ==
    ASSUME NEW par \in Forest, NEW n \in Node
    PROVE  /\ n \in Desc(par, n) /\ Desc(par, n) \subseteq Node
           /\ \A y \in Node : par[y] \in Desc(par, n) => y \in Desc(par, n)
  <1>1. \A y \in Node : <<par[y], y>> \in DownOf(par)
    BY DEF DownOf
  <1> QED
    BY <1>1, ReachableCloses DEF Desc, Closed

(* A set with the node and the children of its members has all descendants. *)
LEMMA DescLeast ==
    ASSUME NEW par \in Forest, NEW n \in Node, NEW T, n \in T,
           \A y \in Node : par[y] \in T => y \in T
    PROVE  Desc(par, n) \subseteq T
  <1>1. Closed(DownOf(par), T)
    <2>1. \A x, y : <<x, y>> \in DownOf(par) => y \in Node /\ x = par[y]
      BY DEF DownOf
    <2> QED
      BY <2>1 DEF Closed
  <1> QED
    BY <1>1, ReachableLeast DEF Desc

(* Above n are n, and what is above its parent. *)
LEMMA AncStep ==
    ASSUME NEW par \in Forest, NEW n \in Node
    PROVE  /\ par[n] \in Node => Anc(par, n) = {n} \cup Anc(par, par[n])
           /\ par[n] \notin Node => Anc(par, n) = {n}
  <1>1. CASE par[n] \in Node
    <2> DEFINE q == par[n]
               T == {n} \cup Anc(par, q)
    <2>1. /\ q \in Anc(par, q) /\ Anc(par, q) \subseteq Node
          /\ \A x \in Anc(par, q) : par[x] \in Node => par[x] \in Anc(par, q)
      BY <1>1, AncFacts
    <2>2. Anc(par, n) \subseteq T
      <3>1. n \in T /\ \A x \in T : x \in Node /\ par[x] \in Node => par[x] \in T
        BY <2>1
      <3> HIDE DEF T
      <3> QED
        BY <3>1, AncLeast
    <2>3. Anc(par, q) \subseteq Anc(par, n)
      <3>1. q \in Anc(par, n) /\ \A x \in Anc(par, n) : par[x] \in Node => par[x] \in Anc(par, n)
        BY <1>1, AncFacts
      <3> QED
        BY <1>1, <3>1, AncLeast
    <2>4. n \in Anc(par, n)
      BY AncFacts
    <2> QED
      BY <1>1, <2>2, <2>3, <2>4
  <1>2. CASE par[n] \notin Node
    <2>1. Anc(par, n) \subseteq {n}
      BY <1>2, AncLeast
    <2> QED
      BY <1>2, <2>1, AncFacts
  <1> QED
    BY <1>1, <1>2

(* What is above x is above whatever x is above. *)
LEMMA AncMore ==
    ASSUME NEW par \in Forest, NEW n \in Node, NEW x \in Anc(par, n)
    PROVE  Anc(par, x) \subseteq Anc(par, n)
  BY AncFacts, AncLeast

(* Below n is what n is above. *)
LEMMA DescIsAnc ==
    ASSUME NEW par \in Forest, NEW n \in Node, NEW m \in Node
    PROVE  m \in Desc(par, n) <=> n \in Anc(par, m)
  <1>1. ASSUME m \in Desc(par, n)
        PROVE  n \in Anc(par, m)
    <2> DEFINE T == {x \in Node : n \in Anc(par, x)}
    <2>1. n \in T
      BY AncFacts
    <2>2. ASSUME NEW y \in Node, par[y] \in T
          PROVE  y \in T
      BY <2>2, AncStep
    <2>3. Desc(par, n) \subseteq T
      <3> HIDE DEF T
      <3> QED
        BY <2>1, <2>2, DescLeast
    <2> QED
      BY <1>1, <2>3
  <1>2. ASSUME n \in Anc(par, m)
        PROVE  m \in Desc(par, n)
    <2> DEFINE T == {x \in Node : m \in Desc(par, x)}
    <2>1. m \in T
      BY DescFacts
    <2>2. ASSUME NEW x \in T, x \in Node /\ par[x] \in Node
          PROVE  par[x] \in T
      <3>1. x \in Desc(par, par[x])
        BY <2>2, DescFacts
      <3>2. Desc(par, x) \subseteq Desc(par, par[x])
        BY <2>2, <3>1, DescFacts, DescLeast
      <3> QED
        BY <2>2, <3>2
    <2>3. Anc(par, m) \subseteq T
      <3> HIDE DEF T
      <3> QED
        BY <2>1, <2>2, AncLeast
    <2> QED
      BY <1>2, <2>3
  <1> QED
    BY <1>1, <1>2

\* No ring: there is an order in which every parent comes before its children.
Ranks(rank, par) ==
    rank \in [Node -> Nat] /\ \A n \in Node : par[n] \in Node => rank[par[n]] < rank[n]
Ordered(par) == \E rank : Ranks(rank, par)

(* In a tree without a ring no node is above its own parent. *)
LEMMA NotAboveItself ==
    ASSUME NEW par \in Forest, Ordered(par), NEW n \in Node, par[n] \in Node
    PROVE  n \notin Anc(par, par[n])
  <1>1. PICK rank : Ranks(rank, par)
    BY DEF Ordered
  <1> DEFINE T == {x \in Node : rank[x] <= rank[par[n]]}
  <1>2. par[n] \in T /\ \A x \in T : x \in Node /\ par[x] \in Node => par[x] \in T
    BY <1>1 DEF Ranks
  <1>3. Anc(par, par[n]) \subseteq T
    <2> HIDE DEF T
    <2> QED
      BY <1>2, AncLeast
  <1> QED
    BY <1>1, <1>3 DEF Ranks

(* What is below n is found within as many rows as it has nodes above it. *)
LEMMA FoundBelow ==
    ASSUME NEW par \in Forest, Ordered(par), NEW n \in Node, NEW d \in Nat \ {0},
           \A m \in Desc(par, n) : Cardinality(Anc(par, m)) <= d
    PROVE  Spread(DownOf(par), n, d) = Desc(par, n)
  <1> DEFINE R == DownOf(par)
             S == {i \in Nat : \A m \in Node : n \in Anc(par, m) /\ Cardinality(Anc(par, m)) <= i
                                                 => i # 0 /\ m \in Spread(R, n, i)}
  <1>1. \A m \in Node : IsFiniteSet(Anc(par, m)) /\ Cardinality(Anc(par, m)) \in Nat \ {0}
    <2>1. ASSUME NEW m \in Node
          PROVE  IsFiniteSet(Anc(par, m)) /\ Cardinality(Anc(par, m)) \in Nat \ {0}
      <3>1. m \in Anc(par, m) /\ IsFiniteSet(Anc(par, m)) /\ Cardinality(Anc(par, m)) \in Nat
        BY AncFacts
      <3> QED
        BY <3>1, FS_EmptySet
    <2> QED
      BY <2>1
  <1>2. 0 \in S
    BY <1>1
  <1>3. ASSUME NEW i \in Nat, i \in S
        PROVE  i + 1 \in S
    <2>1. SUFFICES ASSUME NEW m \in Node, n \in Anc(par, m), Cardinality(Anc(par, m)) <= i + 1
                   PROVE  m \in Spread(R, n, i + 1)
      OBVIOUS
    <2>2. CASE m = n
      BY <2>2, SpreadTypes
    <2>3. CASE m # n
      <3>1. par[m] \in Node /\ n \in Anc(par, par[m]) /\ Anc(par, m) = {m} \cup Anc(par, par[m])
        BY <2>1, <2>3, AncStep
      <3>2. m \notin Anc(par, par[m])
        BY <3>1, NotAboveItself
      <3>3. Cardinality(Anc(par, m)) = Cardinality(Anc(par, par[m])) + 1
        <4>1. IsFiniteSet(Anc(par, par[m]))
          BY <1>1, <3>1
        <4>2. Cardinality(Anc(par, par[m]) \cup {m}) = Cardinality(Anc(par, par[m])) + 1
          BY <3>2, <4>1, FS_AddElement
        <4>3. Anc(par, m) = Anc(par, par[m]) \cup {m}
          BY <3>1
        <4> QED
          BY <4>2, <4>3
      <3>4. Cardinality(Anc(par, par[m])) <= i
        BY <1>1, <2>1, <3>1, <3>3
      <3>5. i # 0 /\ par[m] \in Spread(R, n, i)
        BY <1>3, <3>1, <3>4
      <3>6. Spread(R, n, i + 1) = Spread(R, n, i) \cup Beyond(R, Spread(R, n, i))
        BY <3>5, SpreadSteps
      <3>7. <<par[m], m>> \in R
        BY DEF DownOf
      <3> HIDE DEF R
      <3>8. m \in Beyond(R, Spread(R, n, i))
        BY <3>5, <3>7 DEF Beyond
      <3> QED
        BY <3>6, <3>8
    <2> QED
      BY <2>2, <2>3
  <1> HIDE DEF S
  <1>4. Nat \subseteq S
    BY <1>2, <1>3, NumbersInduct
  <1>5. Desc(par, n) \subseteq Spread(R, n, d)
    <2> SUFFICES ASSUME NEW m \in Desc(par, n)
                 PROVE  m \in Spread(R, n, d)
      OBVIOUS
    <2>1. m \in Node /\ n \in Anc(par, m) /\ Cardinality(Anc(par, m)) <= d
      BY DescFacts, DescIsAnc
    <2>2. d \in S
      BY <1>4
    <2> QED
      BY <2>1, <2>2 DEF S
  <1>6. Spread(R, n, d) \subseteq Desc(par, n)
    <2>1. n \in Desc(par, n) /\ Closed(R, Desc(par, n))
      BY ReachableCloses DEF Desc
    <2> QED
      BY <2>1, SpreadLeast
  <1> QED
    BY <1>5, <1>6

-----------------------------------------------------------------------------
(* Structural edits.  An edit that has been checked writes a tree that may have
   changed since: what it checked still holds because only its own storage's nodes
   matter to it, and the lock keeps every other edit away from those. *)

\* Parents exist, in the child's own storage and tree.
Placed(par) ==
    \A n \in Node : par[n] \in Node =>
        par[par[n]] # NoNode /\ Home[par[n]] = Home[n] /\ SameTree(n, par[n])

Sound ==
    /\ Ordered(parent) /\ Placed(parent)
    /\ \A n \in LiveNodes : Cardinality(Anc(parent, n)) <= MaxTreeDepth
    /\ LiveNodes \cup tomb = minted /\ LiveNodes \cap tomb = {}

EditRows ==
    \A e \in Editor : edit[e].phase # "idle" =>
        /\ edit[e].node \in Node /\ edit[e].storage = Home[edit[e].node]
        /\ edit[e].op \in {"create", "update", "delete"}
        /\ edit[e].op = "create" => edit[e].node \notin minted

OneEditor ==
    \A e, d \in Editor : edit[e].phase # "idle" /\ edit[d].phase # "idle" /\ e # d
                           => edit[e].storage # edit[d].storage

Checked(e) ==
    LET n == edit[e].node
        p == edit[e].parent
    IN  /\ edit[e].op # "create" => parent[n] # NoNode
        /\ edit[e].op # "delete" /\ p # Top =>
             /\ p \in Node /\ parent[p] # NoNode /\ Home[p] = Home[n] /\ SameTree(n, p)
             /\ n \notin Anc(parent, p)

AllChecked == \A e \in Editor : edit[e].phase = "checked" => Checked(e)

TreeIInv == TreeTypeOK /\ EditRows /\ OneEditor /\ (~deep => Sound /\ AllChecked)

(* What is above or below a node is of its storage, and what is above or below one
   that exists exists. *)
LEMMA Neighbours ==
    ASSUME NEW par \in Forest, Placed(par), NEW n \in Node, NEW m \in Anc(par, n)
    PROVE  Home[m] = Home[n] /\ (par[n] # NoNode => par[m] # NoNode)
  <1> DEFINE T == {x \in Node : Home[x] = Home[n] /\ (par[n] # NoNode => par[x] # NoNode)}
  <1>1. n \in T /\ \A x \in T : x \in Node /\ par[x] \in Node => par[x] \in T
    BY DEF Placed
  <1>2. Anc(par, n) \subseteq T
    <2> HIDE DEF T
    <2> QED
      BY <1>1, AncLeast
  <1> QED
    BY <1>2

(* What is below a row is a row. *)
LEMMA BelowExists ==
    ASSUME NEW par \in Forest, NEW n \in Node, par[n] # NoNode, NEW m \in Desc(par, n)
    PROVE  m \in Node /\ par[m] # NoNode
  <1> DEFINE T == {x \in Node : par[x] # NoNode}
  <1>1. n \in T /\ \A y \in Node : par[y] \in T => y \in T
    BY TreeAssumption
  <1>2. Desc(par, n) \subseteq T
    <2> HIDE DEF T
    <2> QED
      BY <1>1, DescLeast
  <1> QED
    BY <1>2

(* A node that is not above its new parent moves without closing a ring. *)
LEMMA OrderedMove ==
    ASSUME NEW par \in Forest, Ordered(par), NEW n \in Node, NEW p, p \in Node => n \notin Anc(par, p)
    PROVE  Ordered([par EXCEPT ![n] = p])
  <1>1. PICK rank : Ranks(rank, par)
    BY DEF Ordered
  <1> DEFINE far == IF p \in Node THEN rank[p] + 1 ELSE 0
             rank2 == [m \in Node |-> IF n \in Anc(par, m) THEN rank[m] + far ELSE rank[m]]
             par2 == [par EXCEPT ![n] = p]
  <1>2. far \in Nat /\ (p \in Node => far = rank[p] + 1)
    BY <1>1 DEF Ranks
  <1>3. rank \in [Node -> Nat]
    BY <1>1 DEF Ranks
  <1> HIDE DEF far
  <1>4. rank2 \in [Node -> Nat]
    BY <1>2, <1>3
  <1>5. ASSUME NEW m \in Node, par2[m] \in Node
        PROVE  rank2[par2[m]] < rank2[m]
    <2>1. CASE m = n
      <3>1. par2[m] = p /\ p \in Node
        BY <1>5, <2>1 DEF Forest
      <3>2. n \in Anc(par, n)
        BY AncFacts
      <3>3. rank2[p] = rank[p] /\ rank2[n] = rank[n] + far
        BY <3>1, <3>2
      <3> QED
        BY <1>2, <1>3, <2>1, <3>1, <3>3
    <2>2. CASE m # n
      <3>1. par2[m] = par[m] /\ par[m] \in Node
        BY <1>5, <2>2 DEF Forest
      <3>2. rank[par[m]] < rank[m]
        BY <1>1, <3>1 DEF Ranks
      <3>3. n \in Anc(par, m) <=> n \in Anc(par, par[m])
        BY <2>2, <3>1, AncStep
      <3>4. rank[par[m]] \in Nat /\ rank[m] \in Nat
        BY <1>3, <3>1
      <3>5. rank2[par[m]] < rank2[m]
        BY <1>2, <3>1, <3>2, <3>3, <3>4
      <3> QED
        BY <3>1, <3>5
    <2> QED
      BY <2>1, <2>2
  <1>6. Ranks(rank2, par2)
    <2> HIDE DEF rank2, par2
    <2> QED
      BY <1>4, <1>5 DEF Ranks
  <1> QED
    BY <1>6 DEF Ordered

(* Fewer edges: no ring either, and nothing more above anything. *)
LEMMA FewerEdges ==
    ASSUME NEW par \in Forest, NEW par2 \in Forest,
           \A x \in Node : par2[x] \in Node => par2[x] = par[x]
    PROVE  /\ Ordered(par) => Ordered(par2)
           /\ \A n \in Node : Anc(par2, n) \subseteq Anc(par, n)
  <1>1. ASSUME Ordered(par)
        PROVE  Ordered(par2)
    BY <1>1 DEF Ordered, Ranks
  <1>2. ASSUME NEW n \in Node
        PROVE  Anc(par2, n) \subseteq Anc(par, n)
    BY AncFacts, AncLeast
  <1> QED
    BY <1>1, <1>2

(* A walk that does not meet n does not notice that n moves. *)
LEMMA MovedElsewhere ==
    ASSUME NEW par \in Forest, NEW n \in Node, NEW q, [par EXCEPT ![n] = q] \in Forest,
           NEW p \in Node, n \notin Anc(par, p)
    PROVE  Anc([par EXCEPT ![n] = q], p) \subseteq Anc(par, p)
  <1> DEFINE par2 == [par EXCEPT ![n] = q]
  <1>1. \A x \in Anc(par, p) : x \in Node /\ par2[x] = par[x]
    BY AncFacts DEF Forest
  <1>2. \A x \in Anc(par, p) : par2[x] \in Node => par2[x] \in Anc(par, p)
    BY <1>1, AncFacts
  <1>3. p \in Anc(par, p)
    BY AncFacts
  <1> HIDE DEF par2
  <1>4. Anc(par2, p) \subseteq Anc(par, p)
    BY <1>2, <1>3, AncLeast DEF par2
  <1> QED
    BY <1>4 DEF par2

(* A tree that is sound is nested from its roots. *)
LEMMA SoundIsNested ==
    ASSUME TreeTypeOK, Sound
    PROVE  Nested = LiveNodes
  <1>0. parent \in Forest
    BY DEF TreeTypeOK, Forest
  <1>1. \A n \in Node : Downward(n, Cardinality(Node)) = Desc(parent, n)
    BY <1>0, NodesFinite, UpwardIs DEF Desc, Reachable, Size
  <1> DEFINE Roots == {m \in LiveNodes : parent[m] = Top}
  <1>2. \A n \in Node : n \in Nested <=> \E r \in Roots : n \in Desc(parent, r)
    BY <1>1 DEF Nested, LiveNodes
  <1>3. Nested \subseteq Node
    <2>1. \A r \in Roots : Downward(r, Cardinality(Node)) \subseteq Node
      BY <1>0, <1>1, DescFacts DEF LiveNodes
    <2> QED
      BY <2>1 DEF Nested
  <1>4. ASSUME NEW n \in Nested
        PROVE  n \in LiveNodes
    <2>1. PICK r \in Roots : n \in Desc(parent, r)
      BY <1>2, <1>3
    <2> QED
      BY <1>0, <2>1, BelowExists DEF LiveNodes
  <1>5. ASSUME NEW n0 \in LiveNodes, n0 \notin Nested
        PROVE  FALSE
    <2>1. PICK rank : Ranks(rank, parent)
      BY DEF Sound, Ordered
    <2> DEFINE Lost == {n \in LiveNodes : n \notin Nested}
               T == {rank[n] : n \in Lost}
    <2>2. T \subseteq Nat /\ T # {}
      BY <1>5, <2>1 DEF Ranks, LiveNodes
    <2>3. PICK x \in T : \A y \in T : ~(y < x)
      <3> HIDE DEF T
      <3> QED
        BY <2>2, LeastNat
    <2>4. PICK n \in Lost : x = rank[n]
      BY <2>3
    <2>5. n \in Node /\ parent[n] # NoNode /\ parent[n] \in Node \cup {Top, NoNode}
      BY <2>4, <1>0 DEF LiveNodes, Forest
    <2>6. CASE parent[n] = Top
      <3>1. n \in Roots /\ n \in Desc(parent, n)
        BY <1>0, <2>4, <2>5, <2>6, DescFacts
      <3> QED
        BY <1>2, <2>4, <2>5, <3>1
    <2>7. CASE parent[n] \in Node
      <3>1. parent[n] \in LiveNodes /\ rank[parent[n]] < rank[n]
        BY <2>1, <2>5, <2>7 DEF Sound, Placed, LiveNodes, Ranks
      <3>2. parent[n] \in Nested
        <4>1. CASE parent[n] \in Lost
          BY <2>3, <2>4, <3>1, <4>1
        <4> QED
          BY <3>1, <4>1
      <3>3. PICK r \in Roots : parent[n] \in Desc(parent, r)
        BY <1>2, <2>7, <3>2
      <3>4. r \in Node
        BY DEF LiveNodes
      <3>5. n \in Desc(parent, r)
        BY <1>0, <2>5, <3>3, <3>4, DescFacts
      <3> QED
        BY <1>2, <2>4, <2>5, <3>5
    <2> QED
      BY <2>5, <2>6, <2>7
  <1> QED
    BY <1>4, <1>5

EditRow ==
    [phase : {"idle", "locked", "checked"}, op : {"none", "create", "update", "delete"},
     storage : {Home[n] : n \in Node} \cup {Top}, node : Node \cup {NoNode}, parent : Node \cup {Top}]

(* An editor that does nothing is well formed. *)
LEMMA NoEditType == NoEdit \in EditRow /\ NoEdit.phase = "idle"
  BY DEF NoEdit, EditRow

(* An edit begins: it has its storage to itself, and a new id is nobody's. *)
LEMMA BeginEditKeeps ==
    ASSUME TreeIInv, NEW e \in Editor, NEW op \in {"create", "update", "delete"}, NEW n \in Node,
           NEW p \in Node \cup {Top}, op = "create" => Fresh(n), BeginEdit(e, op, Home[n], n, p)
    PROVE  TreeIInv'
  <1> DEFINE r == [phase |-> "locked", op |-> op, storage |-> Home[n], node |-> n, parent |-> p]
  <1>1. r \in EditRow /\ r.phase = "locked" /\ r.op = op /\ r.storage = Home[n] /\ r.node = n
    BY DEF EditRow
  <1>2. /\ edit' = [edit EXCEPT ![e] = r] /\ UNCHANGED <<parent, used, tomb, minted, deep>>
        /\ \A d \in Editor : edit[d].phase # "idle" => edit[d].storage # Home[n]
    BY DEF BeginEdit, LockStorageTree
  <1> HIDE DEF r
  <1>3. edit \in [Editor -> EditRow]
    BY DEF TreeIInv, TreeTypeOK, EditRow
  <1>4. edit'[e] = r /\ \A d \in Editor : d # e => edit'[d] = edit[d]
    BY <1>2, <1>3
  <1>5. TreeTypeOK'
    <2>1. edit' \in [Editor -> EditRow]
      BY <1>1, <1>2, <1>3
    <2> QED
      BY <1>2, <2>1 DEF TreeIInv, TreeTypeOK, EditRow, LiveNodes
  <1>6. EditRows'
    BY <1>1, <1>2, <1>4 DEF TreeIInv, EditRows, Fresh
  <1>7. OneEditor'
    BY <1>1, <1>2, <1>4 DEF TreeIInv, OneEditor
  <1>8. ASSUME ~deep'
        PROVE  Sound' /\ AllChecked'
    <2>1. Sound /\ AllChecked
      BY <1>2, <1>8 DEF TreeIInv
    <2>2. Sound'
      BY <1>2, <2>1 DEF Sound, LiveNodes
    <2>3. AllChecked'
      BY <1>1, <1>2, <1>4, <2>1 DEF AllChecked, Checked
    <2> QED
      BY <2>2, <2>3
  <1> QED
    BY <1>5, <1>6, <1>7, <1>8 DEF TreeIInv

(* Nobody above a parent that exists is missing; and the walk wouldCycle makes is long
   enough to meet them all. *)
LEMMA CycleCheck ==
    ASSUME TreeTypeOK, Sound, NEW n \in Node, NEW p \in Node, parent[p] # NoNode,
           parent[n] = NoNode \/ ~WouldCycle(n, p)
    PROVE  n \notin Anc(parent, p)
  <1>1. parent \in Forest
    BY DEF TreeTypeOK, Forest
  <1>2. CASE parent[n] = NoNode
    BY <1>1, <1>2, Neighbours DEF Sound
  <1>3. CASE ~WouldCycle(n, p)
    <2>1. MaxTreeDepth \in Nat \ {0} /\ Cardinality(Anc(parent, p)) <= MaxTreeDepth
      BY TreeAssumption DEF Sound, LiveNodes
    <2>2. Upward(p, MaxTreeDepth) = Anc(parent, p)
      BY <1>1, <2>1, UpwardIs, EnoughRows DEF Anc
    <2> QED
      BY <1>3, <2>2 DEF WouldCycle
  <1> QED
    BY <1>2, <1>3

(* The checks of an edit, under the lock (CheckEdit). *)
LEMMA CheckEditKeeps ==
    ASSUME TreeIInv, NEW e \in Editor, CheckEdit(e)
    PROVE  TreeIInv'
  <1>1. edit \in [Editor -> EditRow]
    BY DEF TreeIInv, TreeTypeOK, EditRow
  <1>2. /\ edit[e].phase = "locked" /\ UNCHANGED <<parent, used, tomb, minted, deep>>
        /\ edit' = [edit EXCEPT ![e].phase = "checked"]
    BY DEF CheckEdit
  <1> DEFINE r == [edit[e] EXCEPT !.phase = "checked"]
  <1>3. /\ r \in EditRow /\ r.phase = "checked" /\ r.op = edit[e].op /\ r.node = edit[e].node
        /\ r.storage = edit[e].storage /\ r.parent = edit[e].parent
    BY <1>1 DEF EditRow
  <1>4. edit' = [edit EXCEPT ![e] = r]
    BY <1>2
  <1> HIDE DEF r
  <1>5. edit'[e] = r /\ \A d \in Editor : d # e => edit'[d] = edit[d]
    BY <1>1, <1>4
  <1>6. TreeTypeOK'
    <2>1. edit' \in [Editor -> EditRow]
      BY <1>1, <1>3, <1>4
    <2> QED
      BY <1>2, <2>1 DEF TreeIInv, TreeTypeOK, EditRow, LiveNodes
  <1>7. EditRows'
    BY <1>2, <1>3, <1>5 DEF TreeIInv, EditRows
  <1>8. OneEditor'
    BY <1>2, <1>3, <1>5 DEF TreeIInv, OneEditor
  <1>9. ASSUME ~deep'
        PROVE  Sound' /\ AllChecked'
    <2>1. Sound /\ AllChecked /\ TreeTypeOK /\ EditRows
      BY <1>2, <1>9 DEF TreeIInv
    <2>2. Sound'
      BY <1>2, <2>1 DEF Sound, LiveNodes
    <2> DEFINE n == edit[e].node
               p == edit[e].parent
    <2>3. /\ n \in Node /\ (edit[e].op = "create" => n \notin minted)
          /\ edit[e].op \in {"create", "update", "delete"} /\ p \in Node \cup {Top}
          /\ edit[e].storage = Home[n]
      BY <1>1, <1>2, <2>1 DEF EditRows, EditRow
    <2>4. edit[e].op # "create" => parent[n] # NoNode
      BY DEF CheckEdit, RequireSameStorage, LiveNodes
    <2>5. edit[e].op # "delete" /\ p # Top =>
            /\ p \in Node /\ parent[p] # NoNode /\ Home[p] = Home[n] /\ SameTree(n, p)
            /\ edit[e].op = "update" => ~WouldCycle(n, p)
      BY <2>3 DEF CheckEdit, ResolveParent, RequireSameStorage, LiveNodes
    <2>6. edit[e].op = "create" => parent[n] = NoNode
      BY <2>1, <2>3 DEF Sound, LiveNodes
    <2>7. edit[e].op # "delete" /\ p # Top => n \notin Anc(parent, p)
      BY <2>1, <2>3, <2>5, <2>6, CycleCheck
    <2>8. Checked(e)
      BY <2>4, <2>5, <2>7 DEF Checked
    <2>9. AllChecked'
      <3> SUFFICES ASSUME NEW d \in Editor, edit'[d].phase = "checked"
                   PROVE  Checked(d)'
        BY DEF AllChecked
      <3>1. CASE d = e
        BY <1>2, <1>3, <1>5, <2>8, <3>1 DEF Checked
      <3>2. CASE d # e
        BY <1>2, <1>5, <2>1, <3>2 DEF AllChecked, Checked
      <3> QED
        BY <3>1, <3>2
    <2> QED
      BY <2>2, <2>9
  <1> QED
    BY <1>6, <1>7, <1>8, <1>9 DEF TreeIInv

(* An edit ends without a trace. *)
LEMMA AbandonKeeps ==
    ASSUME TreeIInv, NEW e \in Editor, Abandon(e)
    PROVE  TreeIInv'
  <1>1. edit \in [Editor -> EditRow]
    BY DEF TreeIInv, TreeTypeOK, EditRow
  <1>2. UNCHANGED <<parent, used, tomb, minted, deep>> /\ edit' = [edit EXCEPT ![e] = NoEdit]
    BY DEF Abandon
  <1>3. edit'[e] = NoEdit /\ \A d \in Editor : d # e => edit'[d] = edit[d]
    BY <1>1, <1>2
  <1>4. TreeTypeOK'
    <2>1. edit' \in [Editor -> EditRow]
      BY <1>1, <1>2, NoEditType
    <2> QED
      BY <1>2, <2>1 DEF TreeIInv, TreeTypeOK, EditRow, LiveNodes
  <1>5. EditRows' /\ OneEditor'
    BY <1>2, <1>3, NoEditType DEF TreeIInv, EditRows, OneEditor
  <1>6. ASSUME ~deep'
        PROVE  Sound' /\ AllChecked'
    <2>1. Sound /\ AllChecked
      BY <1>2, <1>6 DEF TreeIInv
    <2>2. Sound'
      BY <1>2, <2>1 DEF Sound, LiveNodes
    <2>3. AllChecked'
      BY <1>2, <1>3, <2>1, NoEditType DEF AllChecked, Checked
    <2> QED
      BY <2>2, <2>3
  <1> QED
    BY <1>4, <1>5, <1>6 DEF TreeIInv

(* What nodes hold is nothing to the trees. *)
LEMMA UseKeeps ==
    ASSUME TreeIInv, NEW n \in Node, Use(n) \/ Vacate(n)
    PROVE  TreeIInv'
  <1>1. UNCHANGED <<parent, tomb, edit, minted, deep>>
    BY DEF Use, Vacate
  <1>2. used' \subseteq LiveNodes'
    BY <1>1 DEF Use, Vacate, TreeIInv, TreeTypeOK, LiveNodes
  <1>3. TreeTypeOK'
    BY <1>1, <1>2 DEF TreeIInv, TreeTypeOK
  <1>4. EditRows' /\ OneEditor'
    BY <1>1 DEF TreeIInv, EditRows, OneEditor
  <1>5. (~deep => Sound /\ AllChecked)'
    BY <1>1 DEF TreeIInv, Sound, LiveNodes, AllChecked, Checked
  <1> QED
    BY <1>3, <1>4, <1>5 DEF TreeIInv

(* A node is inserted or moved: whoever else has checked an edit did so in another
   storage, above whose nodes this one is not. *)
LEMMA ReparentKeeps ==
    ASSUME TreeIInv, NEW e \in Editor, edit[e].op \in {"create", "update"}, Reparent(e)
    PROVE  TreeIInv'
  <1> DEFINE n == edit[e].node
             p == edit[e].parent
  <1>1. edit \in [Editor -> EditRow] /\ parent \in Forest
    BY DEF TreeIInv, TreeTypeOK, EditRow, Forest
  <1>2. /\ edit[e].phase = "checked" /\ parent' = [parent EXCEPT ![n] = p]
        /\ edit' = [edit EXCEPT ![e] = NoEdit] /\ minted' = minted \cup {n}
        /\ deep' = (deep \/ \E m \in LiveNodes' : Depth(m)' > MaxTreeDepth)
        /\ UNCHANGED <<used, tomb>>
    BY DEF Reparent
  <1>3. /\ n \in Node /\ p \in Node \cup {Top} /\ edit[e].storage = Home[n]
        /\ edit[e].op = "create" => n \notin minted
    BY <1>1, <1>2 DEF TreeIInv, EditRows, EditRow
  <1>4. edit'[e] = NoEdit /\ \A d \in Editor : d # e => edit'[d] = edit[d]
    BY <1>1, <1>2
  <1>5. parent' \in Forest /\ parent'[n] = p /\ \A m \in Node : m # n => parent'[m] = parent[m]
    BY <1>1, <1>2, <1>3 DEF Forest
  <1>6. p # NoNode /\ LiveNodes' = LiveNodes \cup {n}
    BY <1>3, <1>5, TreeAssumption DEF LiveNodes
  <1>7. TreeTypeOK'
    <2>1. edit' \in [Editor -> EditRow]
      BY <1>1, <1>2, NoEditType
    <2>2. deep' \in BOOLEAN
      BY <1>2 DEF TreeIInv, TreeTypeOK
    <2>3. used' \subseteq LiveNodes'
      BY <1>2, <1>6 DEF TreeIInv, TreeTypeOK
    <2> QED
      BY <1>2, <1>3, <1>5, <2>1, <2>2, <2>3 DEF TreeIInv, TreeTypeOK, EditRow, Forest
  <1>8. \A d \in Editor : d # e /\ edit'[d].phase # "idle" =>
          edit[d].node \in Node /\ edit[d].storage = Home[edit[d].node] /\ Home[edit[d].node] # Home[n]
    BY <1>2, <1>3, <1>4 DEF TreeIInv, EditRows, OneEditor
  <1>9. EditRows'
    BY <1>2, <1>4, <1>8, NoEditType DEF TreeIInv, EditRows
  <1>10. OneEditor'
    BY <1>4, NoEditType DEF TreeIInv, OneEditor
  <1>11. ASSUME ~deep'
         PROVE  Sound' /\ AllChecked'
    <2>1. ~deep /\ Sound /\ AllChecked /\ Checked(e)
      BY <1>2, <1>11 DEF TreeIInv, AllChecked
    <2>2. p \in Node => /\ parent[p] # NoNode /\ Home[p] = Home[n] /\ SameTree(n, p)
                        /\ n \notin Anc(parent, p)
      BY <2>1, TreeAssumption DEF Checked
    <2>3. Ordered(parent')
      BY <1>1, <1>2, <1>3, <2>1, <2>2, OrderedMove DEF Sound
    <2>4. Placed(parent')
      <3> SUFFICES ASSUME NEW m \in Node, parent'[m] \in Node
                   PROVE  /\ parent'[parent'[m]] # NoNode /\ Home[parent'[m]] = Home[m]
                          /\ SameTree(m, parent'[m])
        BY DEF Placed
      <3>1. CASE m = n
        <4>1. parent'[m] = p /\ p \in Node /\ parent'[p] # NoNode
          BY <1>5, <1>6, <2>2, <3>1
        <4> QED
          BY <2>2, <3>1, <4>1
      <3>2. CASE m # n
        <4>1. parent'[m] = parent[m] /\ parent[m] \in Node
          BY <1>5, <3>2
        <4>2. parent[parent[m]] # NoNode /\ Home[parent[m]] = Home[m] /\ SameTree(m, parent[m])
          BY <2>1, <4>1 DEF Sound, Placed
        <4>3. parent'[parent[m]] # NoNode
          BY <1>5, <1>6, <4>1, <4>2
        <4> QED
          BY <4>1, <4>2, <4>3
      <3> QED
        BY <3>1, <3>2
    <2>5. ASSUME NEW m \in LiveNodes'
          PROVE  Cardinality(Anc(parent', m)) <= MaxTreeDepth
      <3>1. m \in Node
        BY DEF LiveNodes
      <3>2. ~(Depth(m)' > MaxTreeDepth)
        BY <1>2, <1>11
      <3>3. Upward(m, Cardinality(Node))' = Anc(parent', m)
        BY <1>5, <3>1, UpwardIs, NodesFinite DEF Anc, Reachable, Size
      <3>4. Depth(m)' = Cardinality(Anc(parent', m))
        BY <3>3 DEF Depth
      <3>5. Cardinality(Anc(parent', m)) \in Nat
        BY <1>5, <3>1, AncFacts
      <3> QED
        BY <3>2, <3>4, <3>5, TreeAssumption
    <2>6. LiveNodes' \cup tomb' = minted' /\ LiveNodes' \cap tomb' = {}
      <3>1. n \notin tomb
        <4>1. CASE edit[e].op = "create"
          BY <1>3, <2>1, <4>1 DEF Sound
        <4>2. CASE edit[e].op = "update"
          BY <1>3, <2>1, <4>2 DEF Checked, Sound, LiveNodes
        <4> QED
          BY <4>1, <4>2
      <3> QED
        BY <1>2, <1>6, <2>1, <3>1 DEF Sound
    <2>7. Sound'
      BY <2>3, <2>4, <2>5, <2>6 DEF Sound
    <2>8. AllChecked'
      <3> SUFFICES ASSUME NEW d \in Editor, edit'[d].phase = "checked"
                   PROVE  Checked(d)'
        BY DEF AllChecked
      <3>1. d # e /\ edit'[d] = edit[d] /\ Checked(d)
        BY <1>4, <2>1, NoEditType DEF AllChecked
      <3> DEFINE m == edit[d].node
                 q == edit[d].parent
      <3>2. m \in Node /\ Home[m] # Home[n] /\ m # n
        BY <1>8, <3>1
      <3>3. edit[d].op # "create" => parent'[m] # NoNode
        BY <1>5, <3>1, <3>2 DEF Checked
      <3>4. ASSUME edit[d].op # "delete", q # Top
            PROVE  /\ q \in Node /\ parent'[q] # NoNode /\ Home[q] = Home[m] /\ SameTree(m, q)
                   /\ m \notin Anc(parent', q)
        <4>1. /\ q \in Node /\ parent[q] # NoNode /\ Home[q] = Home[m] /\ SameTree(m, q)
              /\ m \notin Anc(parent, q)
          BY <3>1, <3>4 DEF Checked
        <4>2. n \notin Anc(parent, q)
          BY <1>1, <2>1, <3>2, <4>1, Neighbours DEF Sound
        <4>3. Anc(parent', q) \subseteq Anc(parent, q)
          BY <1>1, <1>2, <1>3, <1>5, <4>1, <4>2, MovedElsewhere
        <4> QED
          BY <1>5, <1>6, <4>1, <4>3
      <3> QED
        BY <3>1, <3>3, <3>4 DEF Checked
    <2> QED
      BY <2>7, <2>8
  <1> QED
    BY <1>7, <1>9, <1>10, <1>11 DEF TreeIInv

(* A subtree is deleted: what the transaction listed is what the cascade takes, and
   nobody else has checked anything in it. *)
LEMMA DeleteSubtreeKeeps ==
    ASSUME TreeIInv, NEW e \in Editor, DeleteSubtree(e)
    PROVE  TreeIInv'
  <1> DEFINE n == edit[e].node
             doomed == Downward(n, Cardinality(Node))
  <1>1. edit \in [Editor -> EditRow] /\ parent \in Forest
    BY DEF TreeIInv, TreeTypeOK, EditRow, Forest
  <1>2. /\ edit[e].phase = "checked" /\ edit[e].op = "delete" /\ doomed \cap used = {}
        /\ parent' = [m \in Node |-> IF m \in doomed THEN NoNode ELSE parent[m]]
        /\ tomb' = tomb \cup Subtree(n)
        /\ edit' = [edit EXCEPT ![e] = NoEdit] /\ UNCHANGED <<used, minted, deep>>
    BY DEF DeleteSubtree
  <1>3. n \in Node /\ edit[e].storage = Home[n]
    BY <1>1, <1>2 DEF TreeIInv, EditRows
  <1>4. doomed = Desc(parent, n) /\ doomed \subseteq Node
    <2>1. doomed = Desc(parent, n)
      BY <1>1, <1>3, UpwardIs, NodesFinite DEF Desc, Reachable, Size
    <2> QED
      BY <1>1, <1>3, <2>1, DescFacts
  <1>5. Subtree(n) = Spread(DownOf(parent), n, MaxTreeDepth) /\ Subtree(n) \subseteq Node
    <2>1. Subtree(n) = Spread(DownOf(parent), n, MaxTreeDepth)
      BY <1>1, <1>3, UpwardIs, TreeAssumption DEF Subtree
    <2> QED
      BY <1>3, <2>1, SpreadTypes, TreeAssumption
  <1> HIDE DEF doomed
  <1>6. edit'[e] = NoEdit /\ \A d \in Editor : d # e => edit'[d] = edit[d]
    BY <1>1, <1>2
  <1>7. /\ parent' \in Forest /\ LiveNodes' = LiveNodes \ doomed
        /\ \A m \in Node : parent'[m] = IF m \in doomed THEN NoNode ELSE parent[m]
    BY <1>1, <1>2 DEF Forest, LiveNodes
  <1>8. TreeTypeOK'
    <2>1. edit' \in [Editor -> EditRow]
      BY <1>1, <1>2, NoEditType
    <2>2. used' \subseteq LiveNodes' /\ tomb' \subseteq Node
      BY <1>2, <1>5, <1>7 DEF TreeIInv, TreeTypeOK
    <2> QED
      BY <1>2, <1>7, <2>1, <2>2 DEF TreeIInv, TreeTypeOK, EditRow, Forest
  <1>9. \A d \in Editor : d # e /\ edit'[d].phase # "idle" =>
          edit[d].node \in Node /\ edit[d].storage = Home[edit[d].node] /\ Home[edit[d].node] # Home[n]
    BY <1>2, <1>3, <1>6 DEF TreeIInv, EditRows, OneEditor
  <1>10. EditRows' /\ OneEditor'
    BY <1>2, <1>6, NoEditType DEF TreeIInv, EditRows, OneEditor
  <1>11. ASSUME ~deep'
         PROVE  Sound' /\ AllChecked'
    <2>1. Sound /\ AllChecked /\ Checked(e)
      BY <1>2, <1>11 DEF TreeIInv, AllChecked
    <2>2. parent[n] # NoNode
      BY <1>2, <2>1 DEF Checked
    <2>3. \A m \in doomed : m \in LiveNodes /\ Home[m] = Home[n]
      <3> SUFFICES ASSUME NEW m \in doomed
                   PROVE  m \in LiveNodes /\ Home[m] = Home[n]
        OBVIOUS
      <3>1. m \in Node /\ parent[m] # NoNode
        BY <1>1, <1>3, <1>4, <2>2, BelowExists
      <3>2. n \in Anc(parent, m)
        BY <1>1, <1>3, <1>4, <3>1, DescIsAnc
      <3> QED
        BY <1>1, <2>1, <3>1, <3>2, Neighbours DEF LiveNodes, Sound
    <2>4. \A m \in Node : parent'[m] \in Node => parent'[m] = parent[m] /\ m \notin doomed
      BY <1>7, TreeAssumption
    <2>5. Ordered(parent') /\ \A m \in Node : Anc(parent', m) \subseteq Anc(parent, m)
      BY <1>1, <1>7, <2>1, <2>4, FewerEdges DEF Sound
    <2>6. Placed(parent')
      <3> SUFFICES ASSUME NEW m \in Node, parent'[m] \in Node
                   PROVE  /\ parent'[parent'[m]] # NoNode /\ Home[parent'[m]] = Home[m]
                          /\ SameTree(m, parent'[m])
        BY DEF Placed
      <3>1. parent'[m] = parent[m] /\ m \notin doomed /\ parent[m] \in Node
        BY <2>4
      <3>2. parent[parent[m]] # NoNode /\ Home[parent[m]] = Home[m] /\ SameTree(m, parent[m])
        BY <2>1, <3>1 DEF Sound, Placed
      <3>3. parent[m] \notin doomed
        BY <1>1, <1>3, <1>4, <3>1, DescFacts
      <3> QED
        BY <1>7, <3>1, <3>2, <3>3
    <2>7. ASSUME NEW m \in LiveNodes'
          PROVE  Cardinality(Anc(parent', m)) <= MaxTreeDepth
      <3>1. m \in Node /\ m \in LiveNodes
        BY <1>7 DEF LiveNodes
      <3>2. Cardinality(Anc(parent, m)) <= MaxTreeDepth
        BY <2>1, <3>1 DEF Sound
      <3>3. IsFiniteSet(Anc(parent, m)) /\ Cardinality(Anc(parent, m)) \in Nat
        BY <1>1, <3>1, AncFacts
      <3>4. Cardinality(Anc(parent', m)) <= Cardinality(Anc(parent, m))
        BY <2>5, <3>1, <3>3, FS_Subset
      <3>5. Cardinality(Anc(parent', m)) \in Nat
        BY <1>7, <3>1, AncFacts
      <3> QED
        BY <3>2, <3>3, <3>4, <3>5, TreeAssumption
    <2>8. Subtree(n) = doomed
      <3>1. \A m \in Desc(parent, n) : Cardinality(Anc(parent, m)) <= MaxTreeDepth
        BY <1>4, <2>1, <2>3 DEF Sound
      <3> QED
        BY <1>1, <1>3, <1>4, <1>5, <2>1, <3>1, FoundBelow, TreeAssumption DEF Sound
    <2>9. LiveNodes' \cup tomb' = minted' /\ LiveNodes' \cap tomb' = {}
      BY <1>2, <1>7, <2>1, <2>3, <2>8 DEF Sound
    <2>10. Sound'
      BY <2>5, <2>6, <2>7, <2>9 DEF Sound
    <2>11. AllChecked'
      <3> SUFFICES ASSUME NEW d \in Editor, edit'[d].phase = "checked"
                   PROVE  Checked(d)'
        BY DEF AllChecked
      <3>1. d # e /\ edit'[d] = edit[d] /\ Checked(d)
        BY <1>6, <2>1, NoEditType DEF AllChecked
      <3> DEFINE m == edit[d].node
                 q == edit[d].parent
      <3>2. m \in Node /\ m \notin doomed /\ Home[m] # Home[n]
        BY <1>9, <2>3, <3>1
      <3>3. edit[d].op # "create" => parent'[m] # NoNode
        BY <1>7, <3>1, <3>2 DEF Checked
      <3>4. ASSUME edit[d].op # "delete", q # Top
            PROVE  /\ q \in Node /\ parent'[q] # NoNode /\ Home[q] = Home[m] /\ SameTree(m, q)
                   /\ m \notin Anc(parent', q)
        <4>1. /\ q \in Node /\ parent[q] # NoNode /\ Home[q] = Home[m] /\ SameTree(m, q)
              /\ m \notin Anc(parent, q)
          BY <3>1, <3>4 DEF Checked
        <4>2. q \notin doomed
          BY <2>3, <3>2, <4>1
        <4> QED
          BY <1>7, <2>5, <4>1, <4>2
      <3> QED
        BY <3>1, <3>3, <3>4 DEF Checked
    <2> QED
      BY <2>10, <2>11
  <1> QED
    BY <1>8, <1>10, <1>11 DEF TreeIInv

(* Every step keeps the invariant. *)
LEMMA TreeStepKeeps ==
    ASSUME TreeIInv, [TreeNext]_treeVars
    PROVE  TreeIInv'
  <1>1. CASE UNCHANGED treeVars
    <2>1. UNCHANGED <<parent, used, tomb, edit, minted, deep>>
      BY <1>1 DEF treeVars
    <2>2. (~deep => Sound /\ AllChecked)'
      BY <2>1 DEF TreeIInv, Sound, LiveNodes, AllChecked, Checked
    <2> QED
      BY <2>1, <2>2 DEF TreeIInv, TreeTypeOK, LiveNodes, EditRows, OneEditor
  <1>2. ASSUME NEW e \in Editor, AskSomething(e)
        PROVE  TreeIInv'
    <2>1. Place \subseteq Node /\ CatNode \subseteq Node
      BY DEF Node
    <2>2. ASSUME NEW n \in Node, NEW p \in Node \cup {Top},
                 PostLocation(e, n, p) \/ PostCategory(e, n, p)
          PROVE  TreeIInv'
      BY <2>2, BeginEditKeeps DEF PostLocation, PostCategory
    <2>3. ASSUME NEW n \in Node, NEW p \in Node \cup {Top},
                 PatchLocation(e, Home[n], n, p) \/ PatchCategory(e, Home[n], n, p)
          PROVE  TreeIInv'
      BY <2>3, BeginEditKeeps DEF PatchLocation, PatchCategory
    <2>4. ASSUME NEW n \in Node, RemoveLocation(e, Home[n], n) \/ RemoveCategory(e, Home[n], n)
          PROVE  TreeIInv'
      BY <2>4, BeginEditKeeps DEF RemoveLocation, RemoveCategory
    <2> QED
      BY <1>2, <2>1, <2>2, <2>3, <2>4 DEF AskSomething
  <1>3. ASSUME NEW e \in Editor,
               CreateLocation(e) \/ UpdateLocation(e) \/ CreateCategory(e) \/ UpdateCategory(e)
        PROVE  TreeIInv'
    BY <1>3, ReparentKeeps DEF CreateLocation, UpdateLocation, CreateCategory, UpdateCategory
  <1>4. ASSUME NEW e \in Editor, DeleteLocation(e) \/ DeleteCategory(e)
        PROVE  TreeIInv'
    BY <1>4, DeleteSubtreeKeeps DEF DeleteLocation, DeleteCategory
  <1> QED
    BY <1>1, <1>2, <1>3, <1>4, CheckEditKeeps, AbandonKeeps, UseKeeps DEF TreeNext

(* The invariant of the trees holds initially. *)
LEMMA TreeInitHolds == TreeInit => TreeIInv
  <1> SUFFICES ASSUME TreeInit
               PROVE  TreeIInv
    OBVIOUS
  <1>1. /\ \A n \in Node : parent[n] = NoNode
        /\ parent \in Forest /\ LiveNodes = {} /\ NoNode \notin Node
    BY TreeAssumption DEF TreeInit, Forest, LiveNodes
  <1>2. edit \in [Editor -> EditRow] /\ \A e \in Editor : edit[e].phase = "idle"
    BY NoEditType DEF TreeInit
  <1>3. TreeTypeOK
    BY <1>1, <1>2 DEF TreeInit, TreeTypeOK, EditRow, Forest
  <1>4. EditRows /\ OneEditor /\ AllChecked
    BY <1>2 DEF EditRows, OneEditor, AllChecked
  <1>5. Sound
    <2>1. Ranks([n \in Node |-> 0], parent)
      BY <1>1 DEF Ranks
    <2>2. Ordered(parent)
      BY <2>1 DEF Ordered
    <2> QED
      BY <1>1, <2>2 DEF Sound, Placed, TreeInit
  <1> QED
    BY <1>3, <1>4, <1>5 DEF TreeIInv

(* The invariant holds in every state that concurrent edits reach, for trees and
   limits of any size. *)
THEOREM TreeInvariant == TreeSpec => []TreeIInv
  <1>1. TreeIInv /\ [TreeNext]_treeVars => TreeIInv'
    BY TreeStepKeeps
  <1> QED
    BY <1>1, TreeInitHolds, PTL DEF TreeSpec

(* No interleaving of moves, inserts and deletes closes a ring, detaches a subtree,
   crosses storages or leaves a deleted row without a tombstone, for trees of any
   size, as long as none has been deeper than maxTreeDepth (wouldCycle,
   lockStorageTree, locationSubtree). *)
THEOREM TreesStayRooted == TreeSpec => []Rooted
  <1>1. TreeIInv => Rooted
    <2> SUFFICES ASSUME TreeIInv, ~deep
                 PROVE  /\ Nested = LiveNodes
                        /\ \A n \in LiveNodes : parent[n] # Top =>
                             Home[parent[n]] = Home[n] /\ SameTree(n, parent[n])
                        /\ LiveNodes = minted \ tomb
      BY DEF Rooted
    <2>1. TreeTypeOK /\ Sound
      BY DEF TreeIInv
    <2>2. Nested = LiveNodes
      BY <2>1, SoundIsNested
    <2>3. \A n \in LiveNodes : parent[n] # Top => parent[n] \in Node
      BY <2>1 DEF TreeTypeOK, LiveNodes
    <2>4. \A n \in LiveNodes : n \in Node
      BY DEF LiveNodes
    <2> QED
      BY <2>1, <2>2, <2>3, <2>4 DEF Sound, Placed
  <1> QED
    BY <1>1, TreeInvariant, PTL

-----------------------------------------------------------------------------
(* The composition *)

(* The trees and the rules, put side by side, are each what they are alone. *)
THEOREM CatalogueImplements == CatalogueSpec => TreeSpec /\ DatesSpec
  <1>1. CatalogueInit => TreeInit /\ DatesInit
    BY DEF CatalogueInit
  <1>2. [CatalogueNext]_catalogueVars => [TreeNext]_treeVars /\ [DatesNext]_dateVars
    BY DEF CatalogueNext, catalogueVars
  <1> QED
    BY <1>1, <1>2, PTL DEF CatalogueSpec, TreeSpec, DatesSpec

(* Trees, edits, rules, batches and cascades keep their types. *)
THEOREM CatalogueTypeCorrect == CatalogueSpec => []CatalogueTypeOK
  <1>1. TreeIInv /\ DatesTypeOK => CatalogueTypeOK
    BY DEF TreeIInv, CatalogueTypeOK
  <1> QED
    BY <1>1, CatalogueImplements, TreeInvariant, DatesTypeCorrect, PTL
=============================================================================
