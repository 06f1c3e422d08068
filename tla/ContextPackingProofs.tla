----------------------- MODULE ContextPackingProofs -----------------------
(***************************************************************************)
(* Packing for any results, budgets and cap on the cards, and for any      *)
(* counter that gives a text a token at least: every item is packed or     *)
(* counted as dropped, the packing is maximal, and the relationships are   *)
(* the best of those between cards.  For a counter no denser than          *)
(* HeuristicCounter the budget is kept, and with HeuristicCounter the text *)
(* of LOCATE fits it.                                                      *)
(***************************************************************************)
EXTENDS ContextPacking, FiniteSetTheorems, WellFoundedInduction, TLAPS

-----------------------------------------------------------------------------
(***************************************************************************)
(* Orders.  R is the set of the pairs in order.                            *)
(***************************************************************************)
TotalOn(R, S) == \A x, y \in S : x # y => <<x, y>> \in R \/ <<y, x>> \in R
TransitiveOn(R, S) == \A x, y, z \in S : <<x, y>> \in R /\ <<y, z>> \in R => <<x, z>> \in R
LeastIn(R, S, x) == x \in S /\ \A y \in S \ {x} : <<x, y>> \in R

(* A smallest set without a least element would have one: an element of it *)
(* or the least of the others.                                             *)
LEMMA LeastExists ==
  ASSUME NEW S, IsFiniteSet(S), S # {}, NEW R, TotalOn(R, S), TransitiveOn(R, S)
  PROVE  \E x : LeastIn(R, S, x)
<1> DEFINE Bad == {T \in SUBSET S : T # {} /\ \A x : ~LeastIn(R, T, x)}
<1>1. Bad = {}
  <2> SUFFICES ASSUME Bad # {} PROVE FALSE
    OBVIOUS
  <2>1. IsWellFoundedOn(StrictSubsetOrdering(S), SUBSET S)
    BY FS_StrictSubsetOrderingWellFounded, FS_FiniteSubsetsOfFinite
  <2>2. Bad \subseteq SUBSET S
    OBVIOUS
  <2>3. PICK T \in Bad : \A U \in Bad : ~ (<<U, T>> \in StrictSubsetOrdering(S))
    <3> HIDE DEF Bad
    <3> QED BY <2>1, <2>2, WFMin
  <2>4. T \subseteq S /\ T # {} /\ \A x : ~LeastIn(R, T, x)
    OBVIOUS
  <2>5. PICK x : x \in T
    BY <2>4
  <2> DEFINE U == T \ {x}
  <2>6. CASE U = {}
    BY <2>4, <2>5, <2>6 DEF LeastIn
  <2>7. CASE U # {}
    <3>1. <<U, T>> \in StrictSubsetOrdering(S)
      BY <2>4, <2>5 DEF StrictSubsetOrdering
    <3>2. PICK y : LeastIn(R, U, y)
      BY <2>3, <2>4, <2>7, <3>1
    <3>3. x \in S /\ y \in S /\ x # y /\ y \in T
      BY <2>4, <2>5, <3>2 DEF LeastIn
    <3>4. CASE <<x, y>> \in R
      <4>1. LeastIn(R, T, x)
        <5> SUFFICES ASSUME NEW z \in T \ {x} PROVE <<x, z>> \in R
          BY <2>5 DEF LeastIn
        <5>1. z = y \/ <<y, z>> \in R
          BY <3>2 DEF LeastIn
        <5> QED BY <2>4, <3>3, <3>4, <5>1 DEF TransitiveOn
      <4> QED BY <2>4, <4>1
    <3>5. CASE <<y, x>> \in R
      <4>1. LeastIn(R, T, y)
        BY <3>2, <3>3, <3>5 DEF LeastIn
      <4> QED BY <2>4, <4>1
    <3> QED BY <3>3, <3>4, <3>5 DEF TotalOn
  <2> QED BY <2>6, <2>7
<1> QED BY <1>1

LEMMA MaxIs ==
  ASSUME NEW S \in SUBSET Int, IsFiniteSet(S), S # {}
  PROVE  Max(S) \in S /\ Max(S) \in Int /\ \A y \in S : y <= Max(S)
<1> DEFINE R == {p \in Int \X Int : p[1] >= p[2]}
<1>1. TotalOn(R, S) /\ TransitiveOn(R, S)
  BY DEF TotalOn, TransitiveOn
<1>2. \A x, y \in Int : <<x, y>> \in R <=> x >= y
  OBVIOUS
<1> HIDE DEF R
<1>3. PICK x : LeastIn(R, S, x)
  BY <1>1, LeastExists
<1>4. x \in S /\ \A y \in S : x >= y
  <2>1. x \in S /\ \A y \in S \ {x} : <<x, y>> \in R
    BY <1>3 DEF LeastIn
  <2>2. ASSUME NEW y \in S PROVE x >= y
    <3>1. CASE y = x
      BY <2>1, <3>1
    <3>2. CASE y # x
      BY <1>2, <2>1, <3>2
    <3> QED BY <3>1, <3>2
  <2> QED BY <2>1, <2>2
<1>5. Max(S) \in S /\ \A y \in S : Max(S) >= y
  BY <1>4 DEF Max
<1> QED BY <1>5

LEMMA MaxOfTwo ==
  ASSUME NEW a \in Int, NEW b \in Int
  PROVE  Max({a, b}) = IF a >= b THEN a ELSE b
<1>1. IsFiniteSet({a}) /\ IsFiniteSet({a} \cup {b}) /\ {a} \cup {b} = {a, b}
  BY FS_Singleton, FS_AddElement
<1>2. Max({a, b}) \in {a, b} /\ \A y \in {a, b} : y <= Max({a, b})
  <2> DEFINE S == {a, b}
  <2>1. S \in SUBSET Int /\ IsFiniteSet(S) /\ S # {}
    BY <1>1
  <2>2. Max(S) \in S /\ \A y \in S : y <= Max(S)
    <3> HIDE DEF S
    <3> QED BY <2>1, MaxIs
  <2> QED BY <2>2
<1> QED BY <1>2

LEMMA MinOfTwo ==
  ASSUME NEW a \in Int, NEW b \in Int
  PROVE  Min({a, b}) = IF a <= b THEN a ELSE b
<1> DEFINE m == IF a <= b THEN a ELSE b
<1>1. m \in {a, b} /\ \A y \in {a, b} : m <= y
  OBVIOUS
<1>2. Min({a, b}) \in {a, b} /\ \A y \in {a, b} : Min({a, b}) <= y
  BY <1>1 DEF Min
<1> QED BY <1>2

-----------------------------------------------------------------------------
(***************************************************************************)
(* Sums.                                                                   *)
(***************************************************************************)
Units(ns) == UNION {{i} \X (1..ns[i]) : i \in DOMAIN ns}

LEMMA UnitsOfOne ==
  ASSUME NEW i, NEW k \in Nat
  PROVE  IsFiniteSet({i} \X (1..k)) /\ Cardinality({i} \X (1..k)) = k
<1>1. IsFiniteSet({i}) /\ Cardinality({i}) = 1
  BY FS_Singleton
<1>2. IsFiniteSet(1..k) /\ Cardinality(1..k) = k
  BY FS_Interval
<1>3. IsFiniteSet({i} \X (1..k)) /\ Cardinality({i} \X (1..k)) = Cardinality({i}) * Cardinality(1..k)
  BY <1>1, <1>2, FS_Product, Zenon
<1>4. 1 * k = k
  OBVIOUS
<1> QED BY <1>1, <1>2, <1>3, <1>4

LEMMA UnitsAreFinite ==
  ASSUME NEW n \in Nat, NEW ns \in [1..n -> Nat]
  PROVE  IsFiniteSet(Units(ns)) /\ Sum(ns) \in Nat
<1> DEFINE F == {{i} \X (1..ns[i]) : i \in DOMAIN ns}
           f == [i \in 1..n |-> {i} \X (1..ns[i])]
<1>1. f \in Surjection(1..n, F)
  BY DEF Surjection
<1>2. IsFiniteSet(F)
  BY <1>1, FS_Interval, FS_Surjection
<1>3. \A T \in F : IsFiniteSet(T)
  <2> SUFFICES ASSUME NEW i \in 1..n PROVE IsFiniteSet({i} \X (1..ns[i]))
    OBVIOUS
  <2>1. ns[i] \in Nat
    OBVIOUS
  <2> QED BY <2>1, UnitsOfOne, Zenon
<1>4. IsFiniteSet(UNION F)
  BY <1>2, <1>3, FS_UNION
<1> QED BY <1>4, FS_CardinalityType DEF Units, Sum

LEMMA SumOfNone ==
  ASSUME NEW ns, DOMAIN ns = {}
  PROVE  Sum(ns) = 0
<1>1. UNION {{i} \X (1..ns[i]) : i \in DOMAIN ns} = {}
  OBVIOUS
<1> QED BY <1>1, FS_EmptySet DEF Sum

LEMMA SumGrows ==
  ASSUME NEW n \in Nat, NEW ns \in [1..n -> Nat], NEW ms \in [1..(n + 1) -> Nat],
         \A i \in 1..n : ms[i] = ns[i]
  PROVE  Sum(ms) = Sum(ns) + ms[n + 1]
<1> DEFINE last == {n + 1} \X (1..ms[n + 1])
<1>1. IsFiniteSet(Units(ns)) /\ Sum(ns) \in Nat /\ Sum(ns) = Cardinality(Units(ns))
  BY UnitsAreFinite DEF Sum, Units
<1>2. IsFiniteSet(last) /\ Cardinality(last) = ms[n + 1] /\ ms[n + 1] \in Nat
  <2>1. ms[n + 1] \in Nat
    OBVIOUS
  <2> QED BY <2>1, UnitsOfOne, Zenon
<1>3. Units(ms) = Units(ns) \cup last
  <2>1. DOMAIN ms = DOMAIN ns \cup {n + 1} /\ DOMAIN ns = 1..n
    OBVIOUS
  <2>2. \A p : p \in Units(ms) <=> \E i \in DOMAIN ms : p \in {i} \X (1..ms[i])
    BY DEF Units
  <2>3. \A p : p \in Units(ns) <=> \E i \in DOMAIN ns : p \in {i} \X (1..ns[i])
    BY DEF Units
  <2> QED BY <2>1, <2>2, <2>3
<1>4. Units(ns) \cap last = {}
  <2> SUFFICES ASSUME NEW p, p \in Units(ns), p \in last PROVE FALSE
    OBVIOUS
  <2>1. PICK i \in 1..n : p \in {i} \X (1..ns[i])
    BY DEF Units
  <2>2. p[1] = i /\ p[1] = n + 1
    BY <2>1
  <2> QED BY <2>2
<1> HIDE DEF last
<1>5. Cardinality(Units(ns) \cup last)
        = Cardinality(Units(ns)) + Cardinality(last) - Cardinality(Units(ns) \cap last)
  BY <1>1, <1>2, FS_Union, Zenon
<1>6. Cardinality(Units(ns) \cap last) = 0
  BY <1>4, FS_EmptySet, Zenon
<1>7. Sum(ms) = Cardinality(Units(ms))
  BY DEF Sum, Units
<1> QED BY <1>1, <1>2, <1>3, <1>5, <1>6, <1>7

(* Texts of which the counter counts each. *)
Counts(s) == \A i \in DOMAIN s : Count(s[i].chars) \in Nat /\ s[i].chars \in Nat

LEMMA CostOfNone == Cost(<<>>) = 0 /\ Chars(<<>>) = 0
BY SumOfNone DEF Cost, Chars

LEMMA CostGrows ==
  ASSUME NEW T, NEW s \in Seq(T), Counts(s), NEW x \in T,
         Count(x.chars) \in Nat, x.chars \in Nat
  PROVE  /\ Cost(s) \in Nat /\ Cost(Append(s, x)) = Cost(s) + Count(x.chars)
         /\ Chars(s) \in Nat /\ Chars(Append(s, x)) = Chars(s) + x.chars
<1> DEFINE n == Len(s)
           t == Append(s, x)
<1>1. n \in Nat /\ DOMAIN s = 1..n /\ t \in Seq(T) /\ DOMAIN t = 1..(n + 1)
      /\ t[n + 1] = x /\ \A i \in 1..n : t[i] = s[i]
  OBVIOUS
<1> HIDE DEF n, t
<1>2. \A i \in 1..(n + 1) : Count(t[i].chars) \in Nat /\ t[i].chars \in Nat
  <2> SUFFICES ASSUME NEW i \in 1..(n + 1) PROVE Count(t[i].chars) \in Nat /\ t[i].chars \in Nat
    OBVIOUS
  <2>1. i = n + 1 \/ i \in 1..n
    BY <1>1
  <2> QED BY <1>1, <2>1 DEF Counts
<1>3. Cost(s) \in Nat /\ Cost(t) = Cost(s) + Count(x.chars)
  <2> DEFINE ns == [i \in DOMAIN s |-> Count(s[i].chars)]
             ms == [i \in DOMAIN t |-> Count(t[i].chars)]
  <2>1. ns \in [1..n -> Nat] /\ ms \in [1..(n + 1) -> Nat] /\ \A i \in 1..n : ms[i] = ns[i]
    BY <1>1, <1>2 DEF Counts
  <2>2. ms[n + 1] = Count(x.chars)
    BY <1>1
  <2>3. Cost(s) = Sum(ns) /\ Cost(t) = Sum(ms)
    BY DEF Cost
  <2> HIDE DEF ns, ms
  <2> QED BY <1>1, <2>1, <2>2, <2>3, UnitsAreFinite, SumGrows
<1>4. Chars(s) \in Nat /\ Chars(t) = Chars(s) + x.chars
  <2> DEFINE ns == [i \in DOMAIN s |-> s[i].chars]
             ms == [i \in DOMAIN t |-> t[i].chars]
  <2>1. ns \in [1..n -> Nat] /\ ms \in [1..(n + 1) -> Nat] /\ \A i \in 1..n : ms[i] = ns[i]
    BY <1>1, <1>2 DEF Counts
  <2>2. ms[n + 1] = x.chars
    BY <1>1
  <2>3. Chars(s) = Sum(ns) /\ Chars(t) = Sum(ms)
    BY DEF Chars
  <2> HIDE DEF ns, ms
  <2> QED BY <1>1, <2>1, <2>2, <2>3, UnitsAreFinite, SumGrows
<1> QED BY <1>3, <1>4 DEF t

LEMMA CharsAre ==
  ASSUME NEW T, NEW s \in Seq(T), Counts(s)
  PROVE  Chars(s) \in Nat
<1>1. Len(s) \in Nat /\ DOMAIN s = 1..Len(s)
  OBVIOUS
<1> DEFINE ns == [i \in DOMAIN s |-> s[i].chars]
<1>2. ns \in [1..Len(s) -> Nat]
  BY <1>1 DEF Counts
<1> HIDE DEF ns
<1>3. Sum(ns) \in Nat
  BY <1>1, <1>2, UnitsAreFinite
<1> QED BY <1>3 DEF Chars, ns

-----------------------------------------------------------------------------
(***************************************************************************)
(* Shares of the budget, and the heuristic counter.                        *)
(***************************************************************************)
LEMMA ShareIs ==
  ASSUME NEW b \in Nat
  PROVE  /\ Effective(b) \in Nat /\ Reserve(b) \in Nat /\ CardBudget(b) \in Nat
         /\ 10 * Effective(b) <= 9 * b /\ Reserve(b) <= Effective(b)
         /\ CardBudget(b) + Reserve(b) = Effective(b)
<1> DEFINE e == (b * 9) \div 10
           r == (e * 15) \div 100
<1>1. e \in Nat /\ 10 * e <= 9 * b
  OBVIOUS
<1> HIDE DEF e
<1>2. r \in Nat /\ 100 * r <= 15 * e
  BY <1>1
<1> HIDE DEF r
<1>3. r <= e
  BY <1>1, <1>2
<1>4. Effective(b) = e /\ Reserve(b) = r /\ CardBudget(b) = e - r
  BY DEF Effective, Reserve, CardBudget, e, r
<1> QED BY <1>1, <1>2, <1>3, <1>4

LEMMA ClampedIs ==
  ASSUME NEW b \in Int
  PROVE  Clamped(b) \in Nat
BY MaxOfTwo DEF Clamped

LEMMA CapIs ==
  ASSUME NEW b \in Nat, NEW u \in Nat
  PROVE  LET cap == Min({Reserve(b), Max({0, b - u})})
         IN  /\ cap \in Nat /\ cap <= Reserve(b)
             /\ u <= b => cap + u <= b
<1>1. Reserve(b) \in Nat
  BY ShareIs
<1>2. b - u \in Int /\ Max({0, b - u}) = IF 0 >= b - u THEN 0 ELSE b - u
  BY MaxOfTwo
<1> DEFINE m == Max({0, b - u})
<1>3. m \in Nat /\ (u <= b => m + u <= b)
  BY <1>2
<1> HIDE DEF m
<1>4. Min({Reserve(b), m}) = IF Reserve(b) <= m THEN Reserve(b) ELSE m
  BY <1>1, <1>3, MinOfTwo
<1> QED BY <1>1, <1>3, <1>4 DEF m

LEMMA HeuristicIs ==
  ASSUME NEW c \in Nat
  PROVE  /\ Heuristic(c) \in Nat \ {0} /\ c <= 4 * Heuristic(c) /\ 4 * Heuristic(c) <= c + 4
         /\ \A k \in Nat \ {0} : c <= 4 * k => Heuristic(c) <= k
<1> DEFINE q == (c + 3) \div 4
<1>1. q \in Nat /\ 4 * q <= c + 3 /\ c <= 4 * q
  OBVIOUS
<1> HIDE DEF q
<1>2. Heuristic(c) = IF 1 >= q THEN 1 ELSE q
  BY <1>1, MaxOfTwo DEF Heuristic, q
<1> QED BY <1>1, <1>2

-----------------------------------------------------------------------------
(***************************************************************************)
(* The order of the items and that of the edges.                           *)
(***************************************************************************)
LEMMA ResultIs ==
  ASSUME result \in Results
  PROVE  IsResult(result)
BY ContextAssumption

LEMMA ConfidenceIs ==
  ASSUME result \in Results, NEW n
  PROVE  Confidence(n) \in Nat
<1> DEFINE at == {e \in result.edges : n.id \in {e.src, e.dst}}
           S == {0} \cup {e.confidence : e \in at}
<1>1. \A e \in at : e.confidence \in 0..100
  BY ResultIs DEF IsResult, Edge
<1>2. S \subseteq 0..100
  BY <1>1
<1> HIDE DEF at
<1>3. IsFiniteSet(0..100)
  <2>1. 0 \in Int /\ 100 \in Int
    OBVIOUS
  <2> QED BY <2>1, FS_Interval, Zenon
<1>4. S \in SUBSET Int /\ S # {} /\ IsFiniteSet(S)
  <2>1. S \in SUBSET (0..100) /\ S # {}
    BY <1>2
  <2>2. S \in SUBSET Int
    BY <1>2
  <2> HIDE DEF S
  <2> QED BY <1>3, <2>1, <2>2, FS_Subset, Zenon
<1>5. Max(S) \in S
  <2> HIDE DEF S
  <2> QED BY <1>4, MaxIs
<1> QED BY <1>2, <1>5 DEF Confidence, at

LEMMA LastPlaceIs ==
  ASSUME NEW n \in Nat, NEW P \in SUBSET (1..n), P # {}
  PROVE  Max(P) \in 1..n
<1>1. IsFiniteSet(1..n)
  BY FS_Interval
<1>2. IsFiniteSet(P) /\ P \in SUBSET Int
  <2>1. P \in SUBSET Int
    OBVIOUS
  <2> QED BY <1>1, <2>1, FS_Subset, Zenon
<1> QED BY <1>2, MaxIs

LEMMA RankIs ==
  ASSUME result \in Results, NEW n
  PROVE  Rank(n) \in Int
<1> DEFINE k == Len(result.seeds)
           seeded == {i \in 1..k : result.seeds[i] = n.id}
           d == IF n.id \in DOMAIN result.depths THEN result.depths[n.id] ELSE 99
           first == IF seeded = {} THEN 0 ELSE (30000 * (k + 1 - Max(seeded))) \div k
           near == 18000 \div (1 + d)
<1>1. k \in Nat /\ d \in Nat
  BY ResultIs DEF IsResult
<1>2. first \in Int
  <2>1. CASE seeded = {}
    BY <2>1
  <2>2. CASE seeded # {}
    <3>1. seeded \in SUBSET (1..k) /\ k > 0
      BY <1>1, <2>2
    <3> HIDE DEF k
    <3>2. Max(seeded) \in 1..k
      <4> HIDE DEF seeded
      <4> QED BY <1>1, <2>2, <3>1, LastPlaceIs
    <3> DEFINE x == 30000 * (k + 1 - Max(seeded))
    <3>3. x \in Int
      <4> HIDE DEF seeded
      <4> QED BY <1>1, <3>2
    <3> HIDE DEF x, seeded
    <3>4. x \div k \in Int
      BY <1>1, <3>1, <3>3
    <3> QED BY <2>2, <3>4 DEF x
  <2> QED BY <2>1, <2>2
<1> HIDE DEF k, seeded, d, first
<1>3. near \in Int
  <2>1. 1 + d \in Nat /\ 1 + d > 0
    BY <1>1
  <2> QED BY <2>1
<1> HIDE DEF near
<1>4. Rank(n) = first + near + 120 * Confidence(n)
  BY DEF Rank, k, seeded, d, first, near
<1> QED BY <1>2, <1>3, <1>4, ConfidenceIs

LEMMA SortKeyIs ==
  ASSUME result \in Results, NEW n
  PROVE  SortKey(n) \in Int
<1>1. Position(n) \in Int
  <2> DEFINE k == Len(result.ranking)
             at == {i \in DOMAIN result.ranking : result.ranking[i] = n.id}
  <2>1. k \in Nat /\ at \in SUBSET (1..k)
    BY ResultIs DEF IsResult
  <2>2. at # {} => Max(at) \in 1..k
    <3> HIDE DEF at, k
    <3> QED BY <2>1, LastPlaceIs
  <2>3. Position(n) = IF at = {} THEN k + 1 ELSE Max(at)
    BY DEF Position
  <2> HIDE DEF at, k
  <2> QED BY <2>1, <2>2, <2>3
<1>2. -Rank(n) \in Int
  BY RankIs
<1> QED BY <1>1, <1>2 DEF SortKey

(* The first of some items is one of them. *)
LEMMA FirstIs ==
  ASSUME result \in Results, NEW S \in SUBSET result.items, S # {}
  PROVE  First(S) \in S
<1> DEFINE R == {p \in S \X S : Precedes(p[1], p[2])}
<1>1. IsFiniteSet(S)
  BY ResultIs, FS_Subset DEF IsResult
<1>2. \A n \in S : n.id \in Nat /\ SortKey(n) \in Int
  BY ResultIs, SortKeyIs DEF IsResult, Item
<1>3. \A m, n \in S : m.id = n.id => m = n
  BY ResultIs DEF IsResult
<1>4. \A m, n \in S : <<m, n>> \in R <=> Precedes(m, n)
  OBVIOUS
<1> HIDE DEF R
<1>5. TotalOn(R, S)
  BY <1>2, <1>3, <1>4 DEF TotalOn, Precedes
<1>6. TransitiveOn(R, S)
  BY <1>2, <1>4 DEF TransitiveOn, Precedes
<1>7. PICK n : LeastIn(R, S, n)
  BY <1>1, <1>5, <1>6, LeastExists
<1>8. n \in S /\ \A m \in S \ {n} : Precedes(n, m)
  BY <1>4, <1>7 DEF LeastIn
<1> QED BY <1>8 DEF First

(* Of some edges the one at the top of the list is one of them, and is before *)
(* the others.                                                                *)
LEMMA LineIs ==
  ASSUME result \in Results, rest \in SUBSET result.edges, rest # {}
  PROVE  Line \in rest /\ \A f \in rest \ {Line} : EdgeOrder(Line, f)
<1> DEFINE R == {p \in rest \X rest : EdgeOrder(p[1], p[2])}
<1>1. IsFiniteSet(rest)
  BY ResultIs, FS_Subset DEF IsResult
<1>2. \A e \in rest : e.src \in Int /\ e.dst \in Int /\ e.relation \in Int /\ e.confidence \in Int
  <2> SUFFICES ASSUME NEW e \in rest
               PROVE  e.src \in Int /\ e.dst \in Int /\ e.relation \in Int /\ e.confidence \in Int
    OBVIOUS
  <2>1. e \in Edge
    BY ResultIs DEF IsResult
  <2> QED BY <2>1 DEF Edge
<1>3. \A e, f \in rest : e.src = f.src /\ e.dst = f.dst /\ e.relation = f.relation => e = f
  BY ResultIs DEF IsResult
<1>4. \A e, f \in rest : <<e, f>> \in R <=> EdgeOrder(e, f)
  OBVIOUS
<1> HIDE DEF R
<1>5. TotalOn(R, rest)
  BY <1>2, <1>3, <1>4 DEF TotalOn, EdgeOrder
<1>6. TransitiveOn(R, rest)
  BY <1>2, <1>4 DEF TransitiveOn, EdgeOrder
<1>7. PICK e : LeastIn(R, rest, e)
  BY <1>1, <1>5, <1>6, LeastExists
<1>8. e \in rest /\ \A f \in rest \ {e} : EdgeOrder(e, f)
  BY <1>4, <1>7 DEF LeastIn
<1> QED BY <1>8 DEF Line
-----------------------------------------------------------------------------
(* What each step keeps.                                                   *)
-----------------------------------------------------------------------------
(* The types, and the state before build() has looked at the result. *)
Typed ==
    /\ pc \in {"start", "cards", "relations", "refs", "done"}
    /\ result \in Results
    /\ budget \in Nat /\ used \in Nat /\ dropped \in Nat /\ spent \in Nat
    /\ truncated \in BOOLEAN
    /\ packed \in Seq([id : Nat, chars : 0..MaxLength])
    /\ rest \subseteq (IF pc = "relations" THEN result.edges ELSE result.items)
    /\ pc \in {"cards", "relations"} => result.intent = "EXPLAIN"
    /\ pc = "refs" => result.intent = "LOCATE"
    /\ result.intent = "EXPLAIN" => lines \in Seq(Edge)
    /\ pc \in {"start", "cards", "refs"} => lines = <<>> /\ spent = 0
    /\ pc = "start" => packed = <<>> /\ used = 0 /\ dropped = 0 /\ ~truncated

(* Every item is packed, dropped or to come; the branch of the first card  *)
(* is only taken on the first card, although it looks at used.             *)
Counted ==
    /\ Included \subseteq {n.id : n \in result.items}
    /\ Len(packed) = Cardinality(Included)
    /\ pc \in {"cards", "refs"} => \A n \in rest : n.id \notin Included
    /\ pc \in {"cards", "refs"} =>
          Len(packed) + dropped + Cardinality(rest) = Cardinality(result.items)
    /\ pc \in {"relations", "done"} => Len(packed) + dropped = Cardinality(result.items)
    /\ pc = "done" /\ dropped > 0 => truncated
    /\ pc = "cards" /\ used = 0 /\ rest # {} => packed = <<>> /\ rest = Ordered

(* used is what the cards cost, and each card that is left out overflowed. *)
Greedy ==
    /\ pc \in {"cards", "relations"} => used = Cost(packed)
    /\ pc \in {"cards", "relations", "done"} /\ result.intent = "EXPLAIN" /\ packed # <<>> =>
          \/ /\ \A n \in Ordered :
                   \/ n.id \in Included \/ (pc = "cards" /\ n \in rest)
                   \/ Cost(packed) + Count(n.chars) > CardBudget(budget)
             /\ Head(packed) = First(Ordered)
          \/ /\ Count(First(Ordered).chars) > CardBudget(budget) /\ truncated
             /\ Len(packed) = 1 /\ Head(packed).id = First(Ordered).id
             /\ pc = "cards" => rest = {}

(* The lines are the best of the incident edges, and those to come the others. *)
Joined ==
    /\ result.intent = "EXPLAIN" => Cost(lines) = spent /\ spent <= Reserve(budget)
    /\ pc = "relations" => spent <= Cap
    /\ pc \in {"relations", "done"} /\ result.intent = "EXPLAIN" =>
          /\ \A e \in Taken : Incident(e)
          /\ \A e \in Taken, f \in result.edges \ Taken : Incident(f) => EdgeOrder(e, f)
    /\ pc = "relations" /\ rest # {} => rest = {e \in result.edges \ Taken : Incident(e)}

(* The cards stay in their share, and the references under the ceiling. *)
Spared ==
    /\ pc \in {"cards", "relations"} => used <= CardBudget(budget)
    /\ pc = "refs" => used <= Effective(budget)
    /\ pc = "done" => used <= budget

(* A header has 4 tokens at least and a reference 5, and a token stands for *)
(* no more than 4 characters.                                               *)
Margin ==
    result.intent = "LOCATE" /\ (pc = "refs" \/ (pc = "done" /\ packed # <<>>)) =>
        /\ 4 + 5 * Len(packed) <= used /\ used <= Effective(budget)
        /\ HeaderChars + Chars(packed) <= 4 * used
        /\ lines = <<>>
-----------------------------------------------------------------------------
(* No step changes the result, and so the order. *)
LEMMA SameOrder ==
  ASSUME result' = result
  PROVE  Ordered' = Ordered /\ First(Ordered)' = First(Ordered) 
<1>1. Ordered' = Ordered
  BY DEF Ordered, Precedes, SortKey, Rank, Position, Confidence
<1>2. First(Ordered)' = First(Ordered)
  BY <1>1 DEF First, Precedes, SortKey, Rank, Position, Confidence
<1> QED BY <1>1, <1>2
LEMMA HeaderIs ==
  ASSUME result \in Results
  PROVE  /\ HeaderChars \in 16..MaxLength /\ 15 \in 0..MaxLength
         /\ Count(HeaderChars) \in Nat /\ Count(15) \in Nat
<1>1. result.symchars \in 1..(MaxLength - 15) /\ MaxLength \in Nat
  BY ResultIs, ContextAssumption DEF IsResult
<1>2. result.symchars \in Nat /\ 1 <= result.symchars /\ result.symchars + 15 <= MaxLength
  BY <1>1
<1>3. HeaderChars \in 16..MaxLength /\ HeaderChars \in 0..MaxLength /\ 15 \in 0..MaxLength
  BY <1>1, <1>2 DEF HeaderChars
<1> QED BY <1>3, CounterAssumption

LEMMA ItemsAre ==
  ASSUME result \in Results
  PROVE  /\ IsFiniteSet(result.items) /\ Cardinality(result.items) \in Nat
         /\ Ordered \subseteq result.items
         /\ Cardinality(Ordered) \in Nat /\ Cardinality(Ordered) <= Cardinality(result.items)
         /\ Ordered # {} => Cardinality(Ordered) > 0
<1>1. IsFiniteSet(result.items) /\ Ordered \in SUBSET result.items
  BY ResultIs DEF IsResult, Ordered
<1>2. IsFiniteSet(Ordered) /\ Cardinality(Ordered) <= Cardinality(result.items)
  BY <1>1, FS_Subset, Zenon
<1>3. Cardinality(result.items) \in Nat /\ Cardinality(Ordered) \in Nat
  BY <1>1, <1>2, FS_CardinalityType, Zenon
<1>4. Cardinality(Ordered) = 0 <=> Ordered = {}
  BY <1>2, FS_EmptySet, Zenon
<1> QED BY <1>1, <1>2, <1>3, <1>4

(* The item an iteration looks at. *)
LEMMA CardIs ==
  ASSUME Typed, pc \in {"cards", "refs"}, rest # {}
  PROVE  /\ Card \in rest /\ Card \in result.items
         /\ Card.id \in Nat /\ Card.chars \in 1..MaxLength /\ Card \in [id : Nat, chars : 0..MaxLength]
         /\ Count(Card.chars) \in Nat \ {0}
         /\ Cardinality(rest) \in Nat \ {0} /\ Cardinality(rest \ {Card}) = Cardinality(rest) - 1
         /\ result.intent = "LOCATE" => Card.chars >= 19
<1>1. result \in Results /\ rest \in SUBSET result.items
  BY DEF Typed
<1>2. Card \in rest
  BY <1>1, FirstIs DEF Card
<1>3. Card \in Item
  BY <1>1, <1>2, ResultIs DEF IsResult
<1>4. Card.id \in Nat /\ Card.chars \in 1..MaxLength /\ Card \in [id : Nat, chars : 0..MaxLength]
  <2> HIDE DEF Card
  <2>1. 1..MaxLength \subseteq 0..MaxLength
    BY ContextAssumption
  <2> QED BY <1>3, <2>1 DEF Item
<1>5. Count(Card.chars) \in Nat \ {0}
  <2> HIDE DEF Card
  <2>1. Card.chars \in 0..MaxLength /\ Card.chars > 0
    BY <1>4, ContextAssumption
  <2> QED BY <2>1, CounterAssumption
<1>6. Cardinality(rest) \in Nat \ {0} /\ Cardinality(rest \ {Card}) = Cardinality(rest) - 1
  <2>1. IsFiniteSet(rest)
    BY <1>1, ItemsAre, FS_Subset
  <2>2. Cardinality(rest) \in Nat /\ (Cardinality(rest) = 0 <=> rest = {})
    BY <2>1, FS_CardinalityType, FS_EmptySet, Zenon
  <2>3. Cardinality(rest \ {Card}) = Cardinality(rest) - 1
    BY <1>2, <2>1, FS_RemoveElement, Zenon
  <2> QED BY <2>2, <2>3
<1>7. result.intent = "LOCATE" => Card.chars >= 19
  BY <1>1, <1>2, ResultIs DEF IsResult
<1> QED BY <1>1, <1>2, <1>4, <1>5, <1>6, <1>7

LEMMA PackedCounts ==
  ASSUME Typed
  PROVE  /\ Counts(packed) /\ Len(packed) \in Nat /\ DOMAIN packed = 1..Len(packed)
         /\ \A i \in DOMAIN packed : packed[i].id \in Nat
         /\ IsFiniteSet(Included) /\ Cardinality(Included) \in Nat
<1>1. packed \in Seq([id : Nat, chars : 0..MaxLength]) /\ MaxLength \in Nat
  BY ContextAssumption DEF Typed
<1>2. \A i \in DOMAIN packed : packed[i] \in [id : Nat, chars : 0..MaxLength]
  <2> DEFINE T == [id : Nat, chars : 0..MaxLength]
  <2>1. packed \in Seq(T)
    BY <1>1
  <2> HIDE DEF T
  <2>2. \A i \in DOMAIN packed : packed[i] \in T
    BY <2>1
  <2> QED BY <2>2 DEF T
<1>3. \A i \in DOMAIN packed : packed[i].id \in Nat /\ packed[i].chars \in 0..MaxLength
  BY <1>2
<1>4. Counts(packed)
  BY <1>1, <1>3, CounterAssumption DEF Counts
<1>5. Len(packed) \in Nat /\ DOMAIN packed = 1..Len(packed)
  BY <1>1
<1>6. IsFiniteSet(Included)
  <2> DEFINE f == [i \in 1..Len(packed) |-> packed[i].id]
  <2>1. f \in Surjection(1..Len(packed), Included)
    BY <1>5 DEF Surjection, Included
  <2>2. IsFiniteSet(1..Len(packed))
    BY <1>5, FS_Interval
  <2> HIDE DEF f
  <2> QED BY <2>1, <2>2, FS_Surjection, Zenon
<1> QED BY <1>3, <1>4, <1>5, <1>6, FS_CardinalityType

(* What appending a card or a reference to packed makes of it. *)
LEMMA PackedGrows ==
  ASSUME Typed, NEW x \in [id : Nat, chars : 0..MaxLength], packed' = Append(packed, x)
  PROVE  /\ packed' \in Seq([id : Nat, chars : 0..MaxLength])
         /\ Included' = Included \cup {x.id}
         /\ Len(packed)' = Len(packed) + 1 /\ packed' # <<>>
         /\ Head(packed') = IF packed = <<>> THEN x ELSE Head(packed)
         /\ Cost(packed) \in Nat /\ Cost(packed)' = Cost(packed) + Count(x.chars)
         /\ Chars(packed) \in Nat /\ Chars(packed)' = Chars(packed) + x.chars
         /\ x.id \notin Included /\ Len(packed) = Cardinality(Included) =>
               Len(packed)' = Cardinality(Included')
<1> DEFINE T == [id : Nat, chars : 0..MaxLength]
<1>1. packed \in Seq(T) /\ x \in T
  BY DEF Typed
<1>2. x.chars \in Nat /\ Count(x.chars) \in Nat
  BY CounterAssumption, ContextAssumption
<1>3. Counts(packed) /\ Len(packed) \in Nat /\ DOMAIN packed = 1..Len(packed)
      /\ IsFiniteSet(Included) /\ Cardinality(Included) \in Nat
  BY PackedCounts
<1> HIDE DEF T
<1>4. /\ packed' \in Seq(T) /\ Len(packed') = Len(packed) + 1 /\ packed' # <<>>
      /\ DOMAIN packed' = 1..(Len(packed) + 1) /\ packed'[Len(packed) + 1] = x
      /\ \A i \in 1..Len(packed) : packed'[i] = packed[i]
      /\ Head(packed') = IF packed = <<>> THEN x ELSE Head(packed)
  <2>1. packed' \in Seq(T) /\ Len(packed') = Len(packed) + 1 /\ packed' # <<>>
        /\ DOMAIN packed' = 1..(Len(packed) + 1) /\ packed'[Len(packed) + 1] = x
        /\ \A i \in 1..Len(packed) : packed'[i] = packed[i]
    BY <1>1
  <2>2. Head(packed') = packed'[1]
    BY <2>1
  <2>3. CASE packed = <<>>
    BY <2>1, <2>2, <2>3
  <2>4. CASE packed # <<>>
    <3>1. 1 \in 1..Len(packed) /\ Head(packed) = packed[1]
      BY <1>1, <2>4
    <3> QED BY <2>1, <2>2, <2>4, <3>1
  <2> QED BY <2>1, <2>3, <2>4
<1>5. Included' = Included \cup {x.id}
  <2>1. DOMAIN packed' = DOMAIN packed \cup {Len(packed) + 1}
    BY <1>3, <1>4
  <2> QED BY <1>3, <1>4, <2>1 DEF Included
<1>6. /\ Cost(packed) \in Nat /\ Cost(Append(packed, x)) = Cost(packed) + Count(x.chars)
      /\ Chars(packed) \in Nat /\ Chars(Append(packed, x)) = Chars(packed) + x.chars
  BY <1>1, <1>2, <1>3, CostGrows
<1>7. Cost(packed)' = Cost(Append(packed, x)) /\ Chars(packed)' = Chars(Append(packed, x))
  BY DEF Cost, Chars
<1>8. x.id \notin Included => Cardinality(Included \cup {x.id}) = Cardinality(Included) + 1
  BY <1>3, FS_AddElement, Zenon
<1> QED BY <1>4, <1>5, <1>6, <1>7, <1>8 DEF T

LEMMA SameTexts ==
  /\ packed' = packed => Included' = Included /\ Cost(packed)' = Cost(packed) /\ Chars(packed)' = Chars(packed)
  /\ lines' = lines => Taken' = Taken /\ Cost(lines)' = Cost(lines) /\ Chars(lines)' = Chars(lines)
BY DEF Included, Cost, Chars, Taken
-----------------------------------------------------------------------------
LEMMA BudgetIs ==
  ASSUME Typed
  PROVE  /\ Effective(budget) \in Nat /\ Reserve(budget) \in Nat /\ CardBudget(budget) \in Nat
         /\ 10 * Effective(budget) <= 9 * budget /\ Reserve(budget) <= Effective(budget)
         /\ CardBudget(budget) + Reserve(budget) = Effective(budget)
         /\ Cap \in Nat /\ Cap <= Reserve(budget) /\ (used <= budget => Cap + used <= budget)
BY ShareIs, CapIs DEF Typed, Cap

(* The cut card is no longer than it was, and no longer than four          *)
(* characters for each token of the share.                                 *)
LEMMA CutIs ==
  ASSUME Typed, pc = "cards", rest # {}, CardBudget(budget) > 0, NEW odd \in {0, 1}
  PROVE  LET cut == Min({Card.chars, 4 * CardBudget(budget)}) - odd
         IN  /\ cut \in 0..MaxLength /\ cut <= 4 * CardBudget(budget)
             /\ [id |-> Card.id, chars |-> cut] \in [id : Nat, chars : 0..MaxLength]
             /\ Count(cut) \in Nat
<1> DEFINE c == Card.chars
           k == CardBudget(budget)
           cut == Min({c, 4 * k}) - odd
<1>1. c \in 1..MaxLength /\ Card.id \in Nat /\ k \in Nat /\ k > 0 /\ MaxLength \in Nat
  BY CardIs, BudgetIs, ContextAssumption
<1> HIDE DEF c, k
<1>2. Min({c, 4 * k}) = IF c <= 4 * k THEN c ELSE 4 * k
  BY <1>1, MinOfTwo
<1>3. cut \in 0..MaxLength /\ cut <= 4 * k
  BY <1>1, <1>2
<1>4. Count(cut) \in Nat
  <2> HIDE DEF cut
  <2> QED BY <1>3, CounterAssumption
<1> HIDE DEF cut
<1>5. [id |-> Card.id, chars |-> cut] \in [id : Nat, chars : 0..MaxLength]
  BY <1>1, <1>3
<1> QED BY <1>3, <1>4, <1>5 DEF c, k, cut

LEMMA StepTyped ==
  ASSUME Typed, Counted, Joined, [Next]_vars
  PROVE  Typed'
<1>1. ASSUME NEW b \in Budgets, BuildExplain(b)
      PROVE  Typed'
  <2>1. Clamped(b) \in Nat
    BY ClampedIs, ContextAssumption
  <2>2. Cardinality(result.items) - Cardinality(Ordered) \in Nat /\ Ordered \subseteq result.items
    BY ItemsAre DEF Typed
  <2> QED BY <1>1, <2>1, <2>2 DEF Typed, BuildExplain
<1>2. ASSUME NEW b \in Budgets, BuildNothing(b)
      PROVE  Typed'
  <2>1. Clamped(b) \in Nat
    BY ClampedIs, ContextAssumption
  <2> QED BY <1>2, <2>1 DEF Typed, BuildNothing, Finish
<1>3. ASSUME NEW b \in Budgets, BuildLocate(b)
      PROVE  Typed'
  <2>1. Clamped(b) \in Nat
    BY ClampedIs, ContextAssumption
  <2> DEFINE plain == Min({result.symchars, 4 * Effective(Clamped(b))})
  <2>2. plain \in 0..MaxLength
    <3>1. result.symchars \in 1..(MaxLength - 15) /\ MaxLength \in Nat
      BY ResultIs, ContextAssumption DEF Typed, IsResult
    <3>2. 4 * Effective(Clamped(b)) \in Nat
      <4>1. Effective(Clamped(b)) \in Nat
        BY <2>1, ShareIs, Zenon
      <4> QED BY <4>1
    <3>3. plain = IF result.symchars <= 4 * Effective(Clamped(b)) THEN result.symchars
                  ELSE 4 * Effective(Clamped(b))
      BY <3>1, <3>2, MinOfTwo
    <3> HIDE DEF plain
    <3> QED BY <3>1, <3>2, <3>3
  <2>3. Count(plain) \in Nat
    <3> HIDE DEF plain
    <3> QED BY <2>2, CounterAssumption
  <2>4. Cardinality(result.items) \in Nat /\ Count(HeaderChars) \in Nat
    BY ItemsAre, HeaderIs DEF Typed
  <2>5. used' \in Nat /\ dropped' \in Nat /\ truncated' \in BOOLEAN /\ pc' \in {"refs", "done"}
        /\ rest' \subseteq result.items
    BY <1>3, <2>3, <2>4 DEF BuildLocate, Finish, Typed
  <2>6. budget' \in Nat /\ result' = result /\ packed' = packed /\ lines' = lines /\ spent' = spent
        /\ pc = "start" /\ result.intent = "LOCATE"
    BY <1>3, <2>1 DEF BuildLocate
  <2> QED BY <2>5, <2>6 DEF Typed
<1>4. CASE DropAll
  <2>1. Cardinality(Ordered) \in Nat
    BY ItemsAre DEF Typed
  <2> QED BY <1>4, <2>1 DEF Typed, DropAll
<1>5. CASE CutFirst
  <2>1. PICK odd \in {0, 1} :
           /\ packed' = Append(packed, [id |-> Card.id, chars |-> Min({Card.chars, 4 * CardBudget(budget)}) - odd])
           /\ used' = used + Count(Min({Card.chars, 4 * CardBudget(budget)}) - odd)
    BY <1>5 DEF CutFirst
  <2> DEFINE cut == Min({Card.chars, 4 * CardBudget(budget)}) - odd
  <2>2. pc = "cards" /\ rest # {} /\ CardBudget(budget) > 0
    BY <1>5 DEF CutFirst
  <2>3. Count(cut) \in Nat /\ [id |-> Card.id, chars |-> cut] \in [id : Nat, chars : 0..MaxLength]
    BY <2>2, CutIs
  <2>4. packed' \in Seq([id : Nat, chars : 0..MaxLength])
    <3>1. packed' = Append(packed, [id |-> Card.id, chars |-> cut])
      BY <2>1
    <3> HIDE DEF cut
    <3> DEFINE x == [id |-> Card.id, chars |-> cut]
    <3>2. x \in [id : Nat, chars : 0..MaxLength] /\ packed' = Append(packed, x)
      BY <2>3, <3>1
    <3> HIDE DEF x
    <3> QED BY <3>2, PackedGrows
  <2>5. used' \in Nat
    BY <2>1, <2>3 DEF Typed
  <2>6. dropped' \in Nat
    <3>1. rest = Ordered /\ Cardinality(Ordered) \in Nat \ {0} /\ dropped \in Nat
      BY <1>5, <2>2, CardIs DEF CutFirst, FirstOverflows, Counted, Typed
    <3> QED BY <1>5, <3>1 DEF CutFirst
  <2> QED BY <1>5, <2>4, <2>5, <2>6 DEF Typed, CutFirst
<1>6. CASE SkipCard
  BY <1>6 DEF Typed, SkipCard
<1>7. CASE AddCard
  <2>1. packed' \in Seq([id : Nat, chars : 0..MaxLength]) /\ Count(Card.chars) \in Nat
    BY <1>7, CardIs, PackedGrows DEF AddCard
  <2> QED BY <1>7, <2>1 DEF Typed, AddCard
<1>8. CASE StartRelations
  <2>1. rest' \subseteq result.edges
    BY <1>8 DEF StartRelations
  <2> QED BY <1>8, <2>1 DEF Typed, StartRelations
<1>9. CASE AddLine
  <2>1. Line \in rest /\ rest \subseteq result.edges /\ result \in Results /\ result.intent = "EXPLAIN"
    BY <1>9, LineIs DEF AddLine, Typed
  <2>2. Line \in Edge
    BY <2>1, ResultIs DEF IsResult
  <2>3. Count(Line.chars) \in Nat
    <3>1. Line.chars \in 0..MaxLength
      BY <2>2, ContextAssumption DEF Edge
    <3> QED BY <3>1, CounterAssumption
  <2>4. lines' \in Seq(Edge) /\ spent' \in Nat
    BY <1>9, <2>1, <2>2, <2>3 DEF AddLine, Typed
  <2> QED BY <1>9, <2>1, <2>4 DEF Typed, AddLine
<1>10. CASE EndExplain
  BY <1>10 DEF Typed, EndExplain, Finish
<1>11. CASE AddReference
  <2>1. packed' \in Seq([id : Nat, chars : 0..MaxLength]) /\ Count(Card.chars) \in Nat
    BY <1>11, CardIs, PackedGrows DEF AddReference
  <2> QED BY <1>11, <2>1 DEF Typed, AddReference
<1>12. CASE SkipReference
  BY <1>12 DEF Typed, SkipReference
<1>13. CASE EndLocate
  <2>1. used' \in Nat /\ result.intent = "LOCATE"
    BY <1>13, HeaderIs DEF EndLocate, Typed
  <2> QED BY <1>13, <2>1 DEF Typed, EndLocate, Finish
<1>14. CASE UNCHANGED vars
  BY <1>14 DEF Typed, vars
<1> QED
  BY <1>1, <1>2, <1>3, <1>4, <1>5, <1>6, <1>7, <1>8, <1>9, <1>10, <1>11, <1>12, <1>13, <1>14 DEF Next

-----------------------------------------------------------------------------
LEMMA StepCounted ==
  ASSUME Typed, Counted, Joined, Greedy, [Next]_vars
  PROVE  Counted'
<1>0. ASSUME packed' = packed, result' = result
      PROVE  Included' \subseteq {n.id : n \in result'.items} /\ Len(packed') = Cardinality(Included')
             /\ Included' = Included /\ Len(packed') \in Nat
  BY <1>0, SameTexts, PackedCounts DEF Counted
<1>1. ASSUME NEW b \in Budgets, BuildExplain(b)
      PROVE  Counted'
  <2>1. packed = <<>> /\ Included = {} /\ Len(packed) = 0 /\ result' = result /\ packed' = packed
    BY <1>1 DEF BuildExplain, Typed, Included
  <2>2. dropped' = Cardinality(result.items) - Cardinality(Ordered) /\ rest' = Ordered
        /\ Cardinality(result.items) \in Nat /\ Cardinality(Ordered) \in Nat
    BY <1>1, ItemsAre DEF BuildExplain, Typed
  <2>3. Ordered' = Ordered /\ pc' = "cards"
    BY <1>1, <2>1, SameOrder DEF BuildExplain
  <2> QED BY <1>0, <2>1, <2>2, <2>3 DEF Counted
<1>2. ASSUME NEW b \in Budgets, BuildNothing(b)
      PROVE  Counted'
  <2>1. packed = <<>> /\ Len(packed) = 0 /\ dropped = 0 /\ result.items = {}
        /\ pc' = "done" /\ dropped' = dropped /\ result' = result /\ packed' = packed
    BY <1>2 DEF BuildNothing, Finish, Typed
  <2>2. Cardinality(result.items) = 0
    BY <2>1, FS_EmptySet
  <2>3. Len(packed') + dropped' = Cardinality(result'.items) /\ ~(dropped' > 0)
    <3>1. Len(packed') = 0 /\ dropped' = 0 /\ Cardinality(result'.items) = 0
      BY <2>1, <2>2, Zenon
    <3> QED BY <3>1
  <2> QED BY <1>0, <2>1, <2>3 DEF Counted
<1>3. ASSUME NEW b \in Budgets, BuildLocate(b)
      PROVE  Counted'
  <2>1. packed = <<>> /\ Len(packed) = 0 /\ Included = {} /\ dropped = 0
        /\ result' = result /\ packed' = packed
    BY <1>3 DEF BuildLocate, Typed, Included
  <2>2. \/ pc' = "refs" /\ rest' = result.items /\ dropped' = dropped
        \/ pc' = "done" /\ dropped' = Cardinality(result.items) /\ truncated'
    BY <1>3 DEF BuildLocate, Finish
  <2>3. Cardinality(result.items) \in Nat
    BY ItemsAre DEF Typed
  <2> QED BY <1>0, <2>1, <2>2, <2>3 DEF Counted
<1>4. CASE DropAll
  <2>1. pc = "cards" /\ rest # {} /\ used = 0 /\ pc' = pc /\ rest' = {} /\ packed' = packed /\ result' = result
        /\ dropped' = dropped + Cardinality(Ordered)
    BY <1>4 DEF DropAll, FirstOverflows
  <2>2. rest = Ordered /\ Len(packed) + dropped + Cardinality(rest) = Cardinality(result.items)
    BY <2>1 DEF Counted
  <2>3. Cardinality(rest') = 0 /\ Cardinality(Ordered) \in Nat /\ dropped \in Nat /\ Len(packed) \in Nat
    BY <2>1, FS_EmptySet, ItemsAre, PackedCounts DEF Typed
  <2> QED BY <1>0, <2>1, <2>2, <2>3 DEF Counted
<1>5. CASE CutFirst
  <2>1. pc = "cards" /\ rest # {} /\ used = 0 /\ pc' = pc /\ rest' = {} /\ result' = result
        /\ dropped' = dropped + Cardinality(Ordered) - 1 /\ CardBudget(budget) > 0
    BY <1>5 DEF CutFirst, FirstOverflows
  <2>2. PICK odd \in {0, 1} :
           packed' = Append(packed, [id |-> Card.id, chars |-> Min({Card.chars, 4 * CardBudget(budget)}) - odd])
    BY <1>5 DEF CutFirst
  <2> DEFINE x == [id |-> Card.id, chars |-> Min({Card.chars, 4 * CardBudget(budget)}) - odd]
  <2>3. x \in [id : Nat, chars : 0..MaxLength] /\ packed' = Append(packed, x) /\ x.id = Card.id
    BY <2>1, <2>2, CutIs
  <2>4. rest = Ordered /\ Len(packed) + dropped + Cardinality(rest) = Cardinality(result.items)
        /\ Card.id \notin Included /\ Card \in result.items
    BY <2>1, CardIs DEF Counted
  <2>5. Len(packed') = Cardinality(Included') /\ Len(packed') = Len(packed) + 1
        /\ Included' = Included \cup {Card.id}
    <3> HIDE DEF x
    <3> QED BY <2>3, <2>4, PackedGrows DEF Counted
  <2>6. Cardinality(rest') = 0 /\ Cardinality(Ordered) \in Nat /\ dropped \in Nat /\ Len(packed) \in Nat
    BY <2>1, FS_EmptySet, ItemsAre, PackedCounts DEF Typed
  <2>7. Included' \subseteq {n.id : n \in result'.items}
    BY <2>1, <2>4, <2>5 DEF Counted
  <2> HIDE DEF x
  <2> QED BY <2>1, <2>4, <2>5, <2>6, <2>7 DEF Counted
<1>6. CASE SkipCard \/ SkipReference
  <2>1. pc \in {"cards", "refs"} /\ rest # {} /\ pc' = pc /\ rest' = rest \ {Card} /\ packed' = packed
        /\ result' = result /\ dropped' = dropped + 1 /\ used' = used
    BY <1>6 DEF SkipCard, SkipReference
  <2>2. Cardinality(rest') = Cardinality(rest) - 1 /\ Cardinality(rest) \in Nat
        /\ dropped \in Nat /\ Len(packed) \in Nat
    BY <2>1, CardIs, PackedCounts DEF Typed
  <2>3. pc = "cards" => used # 0
    <3> SUFFICES ASSUME pc = "cards", used = 0 PROVE FALSE
      OBVIOUS
    <3>1. ~FirstOverflows /\ ~Fits
      BY <1>6 DEF SkipCard, SkipReference
    <3>2. Count(Card.chars) \in Nat /\ CardBudget(budget) \in Nat
      BY <2>1, CardIs, BudgetIs
    <3> QED BY <3>1, <3>2 DEF FirstOverflows, Fits
  <2> QED BY <1>0, <2>1, <2>2, <2>3 DEF Counted
<1>7. CASE AddCard \/ AddReference
  <2>1. pc \in {"cards", "refs"} /\ rest # {} /\ pc' = pc /\ rest' = rest \ {Card}
        /\ packed' = Append(packed, Card)
        /\ result' = result /\ dropped' = dropped /\ used' = used + Count(Card.chars)
    BY <1>7 DEF AddCard, AddReference
  <2>2. Cardinality(rest') = Cardinality(rest) - 1 /\ Cardinality(rest) \in Nat
        /\ dropped \in Nat /\ Len(packed) \in Nat /\ Card \in rest /\ rest \subseteq result.items
        /\ Card \in [id : Nat, chars : 0..MaxLength]
    BY <2>1, CardIs, PackedCounts DEF Typed
  <2>3. Card.id \notin Included
    BY <2>1, <2>2 DEF Counted
  <2>4. Len(packed') = Cardinality(Included') /\ Len(packed') = Len(packed) + 1
        /\ Included' = Included \cup {Card.id}
    BY <2>1, <2>2, <2>3, PackedGrows DEF Counted
  <2>5. used' # 0
    BY <2>1, CardIs DEF Typed
  <2>6. \A n \in rest' : n.id \notin Included'
    <3> SUFFICES ASSUME NEW n \in rest' PROVE n.id \notin Included'
      OBVIOUS
    <3>1. n.id # Card.id
      BY <2>1, <2>2, ResultIs DEF Typed, IsResult
    <3> QED BY <2>1, <2>4, <3>1 DEF Counted
  <2>7. Included' \subseteq {n.id : n \in result'.items}
    BY <2>1, <2>2, <2>4 DEF Counted
  <2>8. Len(packed') + dropped' + Cardinality(rest') = Cardinality(result'.items)
    BY <2>1, <2>2, <2>4 DEF Counted
  <2> QED BY <2>1, <2>4, <2>5, <2>6, <2>7, <2>8 DEF Counted
<1>8. CASE StartRelations
  <2>1. pc = "cards" /\ pc' = "relations" /\ rest = {} /\ packed' = packed /\ dropped' = dropped /\ result' = result
    BY <1>8 DEF StartRelations
  <2>2. Cardinality(rest) = 0 /\ dropped \in Nat /\ Len(packed) \in Nat
    BY <2>1, FS_EmptySet, PackedCounts DEF Typed
  <2> QED BY <1>0, <2>1, <2>2 DEF Counted
<1>9. CASE AddLine
  BY <1>0, <1>9 DEF AddLine, Counted
<1>10. CASE EndExplain
  BY <1>0, <1>10 DEF EndExplain, Finish, Counted
<1>11. CASE EndLocate
  <2>1. pc = "refs" /\ pc' = "done" /\ rest = {} /\ packed' = packed /\ dropped' = dropped
        /\ result' = result /\ (dropped > 0 => truncated')
    BY <1>11 DEF EndLocate, Finish
  <2>2. Cardinality(rest) = 0 /\ dropped \in Nat /\ Len(packed) \in Nat
    BY <2>1, FS_EmptySet, PackedCounts DEF Typed
  <2>3. Len(packed') + dropped' = Cardinality(result'.items)
    BY <2>1, <2>2 DEF Counted
  <2> QED BY <1>0, <2>1, <2>3 DEF Counted
<1>12. CASE UNCHANGED vars
  <2>1. Ordered' = Ordered
    BY <1>12, SameOrder DEF vars
  <2> QED BY <1>0, <1>12, <2>1 DEF Counted, vars
<1> QED
  BY <1>1, <1>2, <1>3, <1>4, <1>5, <1>6, <1>7, <1>8, <1>9, <1>10, <1>11, <1>12 DEF Next

-----------------------------------------------------------------------------
LEMMA StepGreedy ==
  ASSUME Typed, Counted, Greedy, [Next]_vars
  PROVE  Greedy'
<1>1. ASSUME NEW b \in Budgets, BuildExplain(b)
      PROVE  Greedy'
  <2>1. packed' = <<>> /\ used' = 0 /\ Cost(packed)' = Cost(packed) /\ packed = <<>>
    BY <1>1, SameTexts DEF BuildExplain, Typed
  <2> QED BY <2>1, CostOfNone DEF Greedy
<1>2. ASSUME NEW b \in Budgets, BuildNothing(b)
      PROVE  Greedy'
  BY <1>2 DEF BuildNothing, Finish, Typed, Greedy
<1>3. ASSUME NEW b \in Budgets, BuildLocate(b)
      PROVE  Greedy'
  <2>1. pc' \in {"refs", "done"} /\ packed' = <<>>
    BY <1>3 DEF BuildLocate, Finish, Typed
  <2> QED BY <2>1 DEF Greedy
<1>4. CASE DropAll
  <2>1. pc = "cards" /\ pc' = "cards" /\ used = 0 /\ rest # {} /\ packed' = packed /\ used' = used
    BY <1>4 DEF DropAll, FirstOverflows
  <2>2. packed = <<>> /\ Cost(packed)' = Cost(packed)
    BY <2>1, SameTexts DEF Counted
  <2> QED BY <2>1, <2>2 DEF Greedy
<1>5. CASE CutFirst
  <2>1. pc = "cards" /\ rest # {} /\ used = 0 /\ rest' = {} /\ result' = result /\ budget' = budget
        /\ truncated' /\ CardBudget(budget) > 0 /\ Count(Card.chars) > CardBudget(budget) /\ pc' = pc
    BY <1>5 DEF CutFirst, FirstOverflows
  <2>2. PICK odd \in {0, 1} :
           /\ packed' = Append(packed, [id |-> Card.id, chars |-> Min({Card.chars, 4 * CardBudget(budget)}) - odd])
           /\ used' = used + Count(Min({Card.chars, 4 * CardBudget(budget)}) - odd)
    BY <1>5 DEF CutFirst
  <2> DEFINE x == [id |-> Card.id, chars |-> Min({Card.chars, 4 * CardBudget(budget)}) - odd]
  <2>3. x \in [id : Nat, chars : 0..MaxLength] /\ packed' = Append(packed, x) /\ x.id = Card.id
        /\ used' = used + Count(x.chars)
    BY <2>1, <2>2, CutIs
  <2>4. packed = <<>> /\ rest = Ordered /\ used = Cost(packed)
    BY <2>1 DEF Counted, Greedy
  <2>5. Len(packed') = 1 /\ Head(packed') = x /\ Cost(packed)' = used'
    <3> HIDE DEF x
    <3>1. Len(packed') = Len(packed) + 1 /\ Head(packed') = x /\ Cost(packed)' = Cost(packed) + Count(x.chars)
      BY <2>3, <2>4, PackedGrows
    <3> QED BY <2>3, <2>4, <3>1
  <2>6. First(Ordered)' = First(Ordered) /\ First(Ordered) = Card
    BY <2>1, <2>4, SameOrder DEF Card
  <2>7. CardBudget(budget)' = CardBudget(budget)
    BY <2>1 DEF CardBudget, Effective, Reserve
  <2>8. Count(First(Ordered)'.chars) > CardBudget(budget)'
    BY <2>1, <2>6, <2>7
  <2> HIDE DEF x
  <2> QED BY <2>1, <2>3, <2>5, <2>6, <2>8 DEF Greedy
<1>6. CASE SkipCard
  <2>1. pc = "cards" /\ rest # {} /\ ~Fits /\ ~FirstOverflows /\ pc' = pc /\ rest' = rest \ {Card}
        /\ packed' = packed /\ used' = used /\ result' = result /\ budget' = budget /\ truncated' = truncated
    BY <1>6 DEF SkipCard
  <2>2. /\ Included' = Included /\ Cost(packed)' = Cost(packed)
        /\ Ordered' = Ordered /\ First(Ordered)' = First(Ordered)
        /\ CardBudget(budget)' = CardBudget(budget)
    BY <2>1, SameTexts, SameOrder DEF CardBudget, Effective, Reserve
  <2>3. Cost(packed) + Count(Card.chars) > CardBudget(budget)
    <3>1. used = Cost(packed) /\ used \in Nat /\ Count(Card.chars) \in Nat /\ CardBudget(budget) \in Nat
      BY <2>1, CardIs, BudgetIs DEF Greedy, Typed
    <3> QED BY <2>1, <3>1 DEF Fits
  <2> QED BY <2>1, <2>2, <2>3 DEF Greedy
<1>7. CASE AddCard
  <2>1. pc = "cards" /\ rest # {} /\ pc' = pc /\ rest' = rest \ {Card} /\ result' = result /\ budget' = budget
        /\ packed' = Append(packed, Card) /\ used' = used + Count(Card.chars) /\ truncated' = truncated
    BY <1>7 DEF AddCard
  <2>2. Card \in rest /\ Card \in [id : Nat, chars : 0..MaxLength] /\ Count(Card.chars) \in Nat
    BY <2>1, CardIs
  <2>3. /\ Included' = Included \cup {Card.id} /\ packed' # <<>>
        /\ Head(packed') = IF packed = <<>> THEN Card ELSE Head(packed)
        /\ Cost(packed) \in Nat /\ Cost(packed)' = Cost(packed) + Count(Card.chars)
    BY <2>1, <2>2, PackedGrows
  <2>4. /\ Ordered' = Ordered /\ First(Ordered)' = First(Ordered)
        /\ CardBudget(budget)' = CardBudget(budget) /\ CardBudget(budget) \in Nat
    BY <2>1, SameOrder, BudgetIs DEF CardBudget, Effective, Reserve
  <2>5. used' = Cost(packed)'
    BY <2>1, <2>3 DEF Greedy
  <2>6. Head(packed') = First(Ordered)
        /\ \A n \in Ordered : \/ n.id \in Included' \/ n \in rest'
                              \/ Cost(packed)' + Count(n.chars) > CardBudget(budget)
    <3>1. CASE packed = <<>>
      <4>1. used = 0 /\ rest = Ordered
        BY <2>1, <3>1, CostOfNone DEF Greedy, Counted
      <4> QED BY <2>1, <2>3, <3>1, <4>1 DEF Card
    <3>2. CASE packed # <<>>
      <4>1. Head(packed) = First(Ordered)
            /\ \A n \in Ordered : \/ n.id \in Included \/ n \in rest
                                  \/ Cost(packed) + Count(n.chars) > CardBudget(budget)
        BY <2>1, <3>2 DEF Greedy, Typed
      <4>2. ASSUME NEW n \in Ordered, Cost(packed) + Count(n.chars) > CardBudget(budget)
            PROVE  Cost(packed)' + Count(n.chars) > CardBudget(budget)
        <5>1. Count(n.chars) \in Nat
          <6>1. n \in Item
            BY ItemsAre, ResultIs DEF Typed, IsResult
          <6>2. n.chars \in 0..MaxLength
            BY <6>1, ContextAssumption DEF Item
          <6> QED BY <6>2, CounterAssumption
        <5> QED BY <2>2, <2>3, <2>4, <4>2, <5>1
      <4> QED BY <2>1, <2>3, <3>2, <4>1, <4>2
    <3> QED BY <3>1, <3>2
  <2> QED BY <2>1, <2>4, <2>5, <2>6 DEF Greedy
<1>8. CASE StartRelations \/ AddLine \/ EndExplain
  <2>1. /\ pc \in {"cards", "relations"} /\ pc' \in {"relations", "done"} /\ (pc = "cards" => rest = {})
        /\ (pc' = "relations" => used' = used)
        /\ packed' = packed /\ result' = result /\ budget' = budget
    BY <1>8 DEF StartRelations, AddLine, EndExplain, Finish
  <2>3. truncated => truncated'
    BY <1>8, Zenon DEF StartRelations, AddLine, EndExplain, Finish
  <2>2. /\ Included' = Included /\ Cost(packed)' = Cost(packed)
        /\ Ordered' = Ordered /\ First(Ordered)' = First(Ordered)
        /\ CardBudget(budget)' = CardBudget(budget)
    BY <2>1, SameTexts, SameOrder DEF CardBudget, Effective, Reserve
  <2> QED BY <2>1, <2>2, <2>3 DEF Greedy
<1>9. CASE AddReference \/ SkipReference \/ EndLocate
  <2>1. pc = "refs" /\ pc' \in {"refs", "done"} /\ result' = result
    BY <1>9 DEF AddReference, SkipReference, EndLocate, Finish
  <2>2. result'.intent # "EXPLAIN"
    BY <2>1 DEF Typed
  <2> QED BY <2>1, <2>2 DEF Greedy
<1>10. CASE UNCHANGED vars
  <2>1. /\ Included' = Included /\ Cost(packed)' = Cost(packed)
        /\ Ordered' = Ordered /\ First(Ordered)' = First(Ordered)
        /\ CardBudget(budget)' = CardBudget(budget)
    BY <1>10, SameTexts, SameOrder DEF CardBudget, Effective, Reserve, vars
  <2> QED BY <1>10, <2>1 DEF Greedy, vars
<1> QED
  BY <1>1, <1>2, <1>3, <1>4, <1>5, <1>6, <1>7, <1>8, <1>9, <1>10 DEF Next

LEMMA StepJoined ==
  ASSUME Typed, Joined, [Next]_vars
  PROVE  Joined'
<1>0. ASSUME lines' = <<>>, lines = <<>>
      PROVE  Cost(lines)' = 0 /\ Taken' = {}
  <2>1. Cost(lines)' = Cost(lines) /\ Taken' = Taken
    BY <1>0, SameTexts
  <2> QED BY <1>0, <2>1, CostOfNone DEF Taken
<1>1. ASSUME NEW b \in Budgets, BuildExplain(b) \/ BuildNothing(b) \/ BuildLocate(b)
      PROVE  Joined'
  <2>1. lines = <<>> /\ lines' = <<>> /\ spent' = 0 /\ pc' \in {"cards", "refs", "done"}
        /\ budget' = Clamped(b)
    BY <1>1 DEF BuildExplain, BuildNothing, BuildLocate, Finish, Typed
  <2>2. Cost(lines)' = 0 /\ Taken' = {}
    BY <1>0, <2>1
  <2>3. 0 <= Reserve(budget)'
    <3>1. Reserve(Clamped(b)) \in Nat
      BY ClampedIs, ShareIs, ContextAssumption
    <3> QED BY <2>1, <3>1 DEF Reserve, Effective
  <2> QED BY <2>1, <2>2, <2>3 DEF Joined
<1>2. ASSUME lines' = lines, spent' = spent, budget' = budget, result' = result,
             pc' \in {"cards", "refs"}
      PROVE  Joined'
  <2>1. Cost(lines)' = Cost(lines) /\ Reserve(budget)' = Reserve(budget)
    BY <1>2, SameTexts DEF Reserve, Effective
  <2> QED BY <1>2, <2>1 DEF Joined
<1>3. CASE DropAll \/ CutFirst \/ SkipCard \/ AddCard \/ AddReference \/ SkipReference
  BY <1>2, <1>3 DEF DropAll, CutFirst, SkipCard, AddCard, AddReference, SkipReference
<1>4. CASE StartRelations
  <2>1. /\ pc = "cards" /\ pc' = "relations" /\ lines = <<>> /\ lines' = <<>> /\ spent = 0 /\ spent' = 0
        /\ packed' = packed /\ used' = used /\ result' = result /\ budget' = budget
        /\ rest' = {e \in result.edges : Incident(e) /\ Cap > 0}
    BY <1>4 DEF StartRelations, Typed
  <2>2. Cost(lines)' = 0 /\ Taken' = {}
    BY <1>0, <2>1
  <2>3. Reserve(budget)' \in Nat /\ Cap' \in Nat /\ \A e : Incident(e)' = Incident(e)
    <3>1. Reserve(budget)' = Reserve(budget) /\ Cap' = Cap
      BY <2>1 DEF Reserve, Effective, Cap
    <3>2. \A e : Incident(e)' = Incident(e)
      BY <2>1 DEF Incident, Included
    <3> QED BY <3>1, <3>2, BudgetIs
  <2>4. rest' # {} => rest' = {e \in result'.edges \ Taken' : Incident(e)'}
    BY <2>1, <2>2, <2>3
  <2> QED BY <2>1, <2>2, <2>3, <2>4 DEF Joined
<1>5. CASE AddLine
  <2>1. /\ pc = "relations" /\ pc' = pc /\ rest # {} /\ spent + Count(Line.chars) <= Cap
        /\ lines' = Append(lines, Line) /\ rest' = rest \ {Line} /\ spent' = spent + Count(Line.chars)
        /\ packed' = packed /\ used' = used /\ result' = result /\ budget' = budget
    BY <1>5 DEF AddLine
  <2>2. result \in Results /\ rest \subseteq result.edges /\ result.intent = "EXPLAIN" /\ lines \in Seq(Edge)
    BY <2>1 DEF Typed
  <2>3. Line \in rest /\ \A f \in rest \ {Line} : EdgeOrder(Line, f)
    BY <2>1, <2>2, LineIs
  <2>4. rest = {e \in result.edges \ Taken : Incident(e)}
    BY <2>1 DEF Joined
  <2>5. /\ \A e : Incident(e)' = Incident(e)
        /\ Reserve(budget)' = Reserve(budget) /\ Cap' = Cap
    BY <2>1 DEF Incident, Included, Reserve, Effective, Cap
  <2>6. Cost(lines)' = Cost(lines) + Count(Line.chars) /\ Taken' = Taken \cup {Line}
    <3> DEFINE x == Line
    <3>1. \A e \in Edge : e.chars \in Nat /\ Count(e.chars) \in Nat
      <4> SUFFICES ASSUME NEW e \in Edge PROVE e.chars \in Nat /\ Count(e.chars) \in Nat
        OBVIOUS
      <4>1. e.chars \in 0..MaxLength
        BY ContextAssumption DEF Edge
      <4> QED BY <4>1, ContextAssumption, CounterAssumption
    <3>2. x \in Edge
      BY <2>2, <2>3, ResultIs DEF IsResult
    <3>3. Counts(lines)
      BY <2>2, <3>1 DEF Counts
    <3>4. Cost(Append(lines, x)) = Cost(lines) + Count(x.chars)
      <4> HIDE DEF x
      <4> QED BY <2>2, <3>1, <3>2, <3>3, CostGrows
    <3>5. Cost(lines)' = Cost(Append(lines, x))
      BY <2>1 DEF Cost
    <3>6. Taken' = Taken \cup {x}
      <4> HIDE DEF x
      <4>1. lines' = Append(lines, x)
        BY <2>1 DEF x
      <4>2. Len(lines) \in Nat /\ DOMAIN lines = 1..Len(lines) /\ DOMAIN lines' = DOMAIN lines \cup {Len(lines) + 1}
            /\ lines'[Len(lines) + 1] = x /\ \A i \in DOMAIN lines : lines'[i] = lines[i]
        <5> HIDE DEF Edge
        <5> QED BY <2>2, <3>2, <4>1
      <4> QED BY <4>2 DEF Taken
    <3> QED BY <3>4, <3>5, <3>6
  <2>7. Cost(lines)' = spent' /\ spent' <= Reserve(budget)' /\ spent' <= Cap'
    <3>1. Cap \in Nat /\ Reserve(budget) \in Nat /\ Cap <= Reserve(budget)
      BY BudgetIs
    <3>2. Count(Line.chars) \in Nat /\ spent \in Nat
      <4>1. Line \in Edge
        BY <2>2, <2>3, ResultIs DEF IsResult
      <4>2. Line.chars \in 0..MaxLength
        BY <4>1, ContextAssumption DEF Edge
      <4> QED BY <4>2, CounterAssumption DEF Typed
    <3> QED BY <2>1, <2>2, <2>5, <2>6, <3>1, <3>2 DEF Joined
  <2>8. \A e \in Taken' : Incident(e)'
    BY <2>1, <2>2, <2>3, <2>4, <2>5, <2>6 DEF Joined
  <2>9. ASSUME NEW e \in Taken', NEW f \in result'.edges \ Taken', Incident(f)'
        PROVE  EdgeOrder(e, f)
    <3>1. f \in rest \ {Line} /\ f \notin Taken
      BY <2>1, <2>4, <2>5, <2>6, <2>9
    <3>2. CASE e \in Taken
      BY <2>1, <2>2, <2>5, <2>9, <3>1, <3>2 DEF Joined
    <3>3. CASE e = Line
      BY <2>3, <3>1, <3>3
    <3> QED BY <2>6, <3>2, <3>3
  <2>10. rest' = {e \in result'.edges \ Taken' : Incident(e)'}
    BY <2>1, <2>4, <2>5, <2>6
  <2> QED BY <2>1, <2>7, <2>8, <2>9, <2>10 DEF Joined
<1>6. CASE EndExplain
  <2>1. pc = "relations" /\ pc' = "done" /\ lines' = lines /\ spent' = spent /\ packed' = packed
        /\ result' = result /\ budget' = budget
    BY <1>6 DEF EndExplain, Finish
  <2>2. /\ Cost(lines)' = Cost(lines) /\ Taken' = Taken /\ Reserve(budget)' = Reserve(budget)
        /\ \A e : Incident(e)' = Incident(e)
    BY <2>1, SameTexts DEF Reserve, Effective, Incident, Included
  <2> QED BY <2>1, <2>2 DEF Joined
<1>7. CASE EndLocate
  <2>1. pc = "refs" /\ pc' = "done" /\ result' = result
    BY <1>7 DEF EndLocate, Finish
  <2>2. result'.intent # "EXPLAIN"
    BY <2>1 DEF Typed
  <2> QED BY <2>1, <2>2 DEF Joined
<1>8. CASE UNCHANGED vars
  <2>1. lines' = lines /\ spent' = spent /\ packed' = packed /\ rest' = rest /\ pc' = pc /\ used' = used
        /\ result' = result /\ budget' = budget
    BY <1>8 DEF vars
  <2>2. /\ Cost(lines)' = Cost(lines) /\ Taken' = Taken /\ Reserve(budget)' = Reserve(budget) /\ Cap' = Cap
        /\ \A e : Incident(e)' = Incident(e)
    BY <2>1, SameTexts DEF Reserve, Effective, Incident, Included, Cap
  <2> QED BY <2>1, <2>2 DEF Joined
<1> QED
  BY <1>1, <1>3, <1>4, <1>5, <1>6, <1>7, <1>8 DEF Next

-----------------------------------------------------------------------------
(* A counter that gives no text more tokens than HeuristicCounter does. *)
NoDenser == \A c \in 0..MaxLength : Count(c) <= Heuristic(c)

LEMMA CutFits ==
  ASSUME NoDenser, NEW c \in 0..MaxLength, NEW k \in Nat, k > 0, c <= 4 * k
  PROVE  Count(c) \in Nat /\ Count(c) <= k
<1>1. c \in Nat /\ Count(c) \in Nat /\ Count(c) <= Heuristic(c)
  BY CounterAssumption, ContextAssumption DEF NoDenser
<1>2. Heuristic(c) \in Nat /\ Heuristic(c) <= k
  BY <1>1, HeuristicIs
<1> QED BY <1>1, <1>2

LEMMA StepSpared ==
  ASSUME NoDenser, Typed, Joined, Spared, [Next]_vars
  PROVE  Spared'
<1>0. /\ used \in Nat /\ budget \in Nat /\ spent \in Nat
      /\ Effective(budget) \in Nat /\ Reserve(budget) \in Nat /\ CardBudget(budget) \in Nat
      /\ Effective(budget) <= budget /\ CardBudget(budget) <= Effective(budget)
      /\ Cap \in Nat /\ (used <= budget => Cap + used <= budget)
  <2>1. 10 * Effective(budget) <= 9 * budget /\ Effective(budget) \in Nat /\ budget \in Nat
        /\ Reserve(budget) \in Nat /\ CardBudget(budget) \in Nat
        /\ CardBudget(budget) + Reserve(budget) = Effective(budget)
    BY BudgetIs DEF Typed
  <2>2. Effective(budget) <= budget /\ CardBudget(budget) <= Effective(budget)
    BY <2>1
  <2> QED BY <2>1, <2>2, BudgetIs DEF Typed
<1>1. ASSUME NEW b \in Budgets, BuildExplain(b) \/ BuildNothing(b)
      PROVE  Spared'
  <2>1. used' = 0 /\ budget' = Clamped(b) /\ pc' \in {"cards", "done"}
    BY <1>1 DEF BuildExplain, BuildNothing, Finish, Typed
  <2>2. budget' \in Nat /\ CardBudget(budget') \in Nat
    BY <2>1, ClampedIs, ShareIs, ContextAssumption
  <2> QED BY <2>1, <2>2 DEF Spared
<1>2. ASSUME NEW b \in Budgets, BuildLocate(b)
      PROVE  Spared'
  <2> DEFINE ceiling == Effective(Clamped(b))
             plain == Min({result.symchars, 4 * ceiling})
  <2>1. budget' = Clamped(b) /\ Clamped(b) \in Nat
    BY <1>2, ClampedIs, ContextAssumption DEF BuildLocate
  <2>2. ceiling \in Nat /\ ceiling <= Clamped(b) /\ Effective(budget') = ceiling
    <3>1. ceiling \in Nat /\ 10 * ceiling <= 9 * Clamped(b)
      BY <2>1, ShareIs
    <3> HIDE DEF ceiling
    <3> QED BY <2>1, <3>1 DEF ceiling
  <2>3. \/ pc' = "refs" /\ used' = Count(HeaderChars) /\ ~(Count(HeaderChars) > ceiling)
        \/ pc' = "done" /\ used' = IF plain = 0 THEN 0 ELSE Count(plain)
    BY <1>2 DEF BuildLocate, Finish
  <2>4. Count(HeaderChars) \in Nat
    BY HeaderIs DEF Typed
  <2>5. plain # 0 => Count(plain) \in Nat /\ Count(plain) <= ceiling
    <3>1. result.symchars \in 1..(MaxLength - 15) /\ MaxLength \in Nat
      BY ResultIs, ContextAssumption DEF Typed, IsResult
    <3> HIDE DEF ceiling
    <3>2. plain = IF result.symchars <= 4 * ceiling THEN result.symchars ELSE 4 * ceiling
      BY <2>2, <3>1, MinOfTwo
    <3>3. plain \in 0..MaxLength /\ plain <= 4 * ceiling
      BY <2>2, <3>1, <3>2
    <3> HIDE DEF plain
    <3>4. plain # 0 => ceiling > 0
      BY <2>2, <3>3
    <3> QED BY <2>2, <3>3, <3>4, CutFits
  <2> HIDE DEF plain, ceiling
  <2> QED BY <2>1, <2>2, <2>3, <2>4, <2>5 DEF Spared
<1>3. ASSUME budget' = budget
      PROVE  /\ CardBudget(budget)' = CardBudget(budget) /\ Effective(budget)' = Effective(budget)
  BY <1>3 DEF CardBudget, Effective, Reserve
<1>4. CASE CutFirst
  <2>1. pc = "cards" /\ rest # {} /\ used = 0 /\ budget' = budget /\ pc' = pc /\ CardBudget(budget) > 0
    BY <1>4 DEF CutFirst, FirstOverflows
  <2>2. PICK odd \in {0, 1} : used' = used + Count(Min({Card.chars, 4 * CardBudget(budget)}) - odd)
    BY <1>4 DEF CutFirst
  <2> DEFINE cut == Min({Card.chars, 4 * CardBudget(budget)}) - odd
  <2>3. cut \in 0..MaxLength /\ cut <= 4 * CardBudget(budget)
    BY <2>1, CutIs
  <2>4. used' = used + Count(cut)
    BY <2>2
  <2> HIDE DEF cut
  <2>5. Count(cut) \in Nat /\ Count(cut) <= CardBudget(budget)
    BY <1>0, <2>1, <2>3, CutFits
  <2>6. used' <= CardBudget(budget)
    BY <1>0, <2>1, <2>4, <2>5
  <2> QED BY <1>3, <2>1, <2>6 DEF Spared
<1>5. CASE DropAll \/ SkipCard \/ SkipReference \/ StartRelations \/ AddLine
  <2>1. budget' = budget /\ used' = used
        /\ \/ pc \in {"cards", "relations"} /\ pc' \in {"cards", "relations"}
           \/ pc = "refs" /\ pc' = "refs"
    BY <1>5 DEF DropAll, SkipCard, SkipReference, StartRelations, AddLine
  <2> QED BY <1>3, <2>1 DEF Spared
<1>6. CASE AddCard
  BY <1>3, <1>6 DEF AddCard, Fits, Spared
<1>7. CASE AddReference
  BY <1>3, <1>7 DEF AddReference, FitsCeiling, Spared
<1>8. CASE EndExplain
  <2>1. pc = "relations" /\ pc' = "done" /\ used' = used + spent /\ budget' = budget
    BY <1>8 DEF EndExplain, Finish
  <2>2. spent <= Cap /\ used <= CardBudget(budget)
    BY <2>1 DEF Joined, Spared
  <2>3. used' <= budget'
    BY <1>0, <2>1, <2>2
  <2> QED BY <2>1, <2>3 DEF Spared
<1>9. CASE EndLocate
  <2>1. /\ pc = "refs" /\ pc' = "done" /\ budget' = budget
        /\ \/ used' = used
           \/ used' = used + Count(15) /\ used + Count(15) <= Effective(budget)
    BY <1>9 DEF EndLocate, Finish
  <2>2. Count(15) \in Nat /\ used <= Effective(budget)
    BY <2>1, HeaderIs DEF Typed, Spared
  <2>3. used' <= budget'
    BY <1>0, <2>1, <2>2
  <2> QED BY <2>1, <2>3 DEF Spared
<1>10. CASE UNCHANGED vars
  BY <1>3, <1>10 DEF vars, Spared
<1> QED
  BY <1>1, <1>2, <1>4, <1>5, <1>6, <1>7, <1>8, <1>9, <1>10 DEF Next

-----------------------------------------------------------------------------
(* HeuristicCounter itself. *)
IsHeuristic == \A c \in Nat : Count(c) = Heuristic(c)

LEMMA StepMargin ==
  ASSUME IsHeuristic, Typed, Counted, Margin, [Next]_vars
  PROVE  Margin'
<1>0. ASSUME packed' = packed, result' = result, budget' = budget
      PROVE  /\ Chars(packed)' = Chars(packed) /\ HeaderChars' = HeaderChars
             /\ Effective(budget)' = Effective(budget)
  BY <1>0, SameTexts DEF HeaderChars, Effective
<1>1. ASSUME NEW b \in Budgets, BuildExplain(b) \/ BuildNothing(b)
      PROVE  Margin'
  <2>1. result'.intent = "EXPLAIN"
    BY <1>1 DEF BuildExplain, BuildNothing
  <2> QED BY <2>1 DEF Margin
<1>2. ASSUME NEW b \in Budgets, BuildLocate(b)
      PROVE  Margin'
  <2>1. packed = <<>> /\ packed' = <<>> /\ lines' = <<>> /\ result' = result /\ budget' = Clamped(b)
    BY <1>2 DEF BuildLocate, Typed
  <2>2. \/ pc' = "done"
        \/ pc' = "refs" /\ used' = Count(HeaderChars) /\ ~(Count(HeaderChars) > Effective(Clamped(b)))
    BY <1>2 DEF BuildLocate, Finish
  <2>3. CASE pc' = "done"
    BY <2>1, <2>3 DEF Margin
  <2>4. CASE pc' = "refs"
    <3>1. HeaderChars \in Nat /\ HeaderChars >= 16 /\ HeaderChars' = HeaderChars
      BY <2>1, HeaderIs, ContextAssumption DEF Typed, HeaderChars
    <3>2. Count(HeaderChars) = Heuristic(HeaderChars)
      BY <3>1 DEF IsHeuristic
    <3>3. Heuristic(HeaderChars) \in Nat /\ HeaderChars <= 4 * Heuristic(HeaderChars)
      BY <3>1, HeuristicIs
    <3>4. Effective(Clamped(b)) \in Nat
      BY ClampedIs, ShareIs, ContextAssumption
    <3>5. used' <= Effective(budget')
      BY <2>1, <2>2, <2>4, <3>2, <3>3, <3>4
    <3>6. Chars(packed)' = 0 /\ Len(packed') = 0
      <4>1. Chars(packed)' = Chars(packed)
        BY <2>1, SameTexts
      <4> QED BY <2>1, <4>1, CostOfNone
    <3>7. 4 + 5 * Len(packed') <= used' /\ HeaderChars' + Chars(packed)' <= 4 * used'
      BY <2>2, <2>4, <3>1, <3>2, <3>3, <3>6
    <3> QED BY <2>1, <3>5, <3>7 DEF Margin
  <2> QED BY <2>2, <2>3, <2>4
<1>3. CASE DropAll \/ CutFirst \/ SkipCard \/ AddCard \/ StartRelations \/ AddLine \/ EndExplain
  <2>1. pc \in {"cards", "relations"} /\ result' = result
    BY <1>3 DEF DropAll, CutFirst, SkipCard, AddCard, StartRelations, AddLine, EndExplain
  <2>2. result'.intent # "LOCATE"
    BY <2>1 DEF Typed
  <2> QED BY <2>2 DEF Margin
<1>4. CASE AddReference
  <2>1. /\ pc = "refs" /\ rest # {} /\ pc' = pc /\ packed' = Append(packed, Card) /\ FitsCeiling
        /\ result' = result /\ budget' = budget /\ used' = used + Count(Card.chars) /\ lines' = lines
    BY <1>4 DEF AddReference
  <2>2. result.intent = "LOCATE" /\ used \in Nat /\ result \in Results
    BY <2>1 DEF Typed
  <2>3. Card \in [id : Nat, chars : 0..MaxLength] /\ Card.chars \in Nat /\ Card.chars >= 19
    BY <2>1, <2>2, CardIs, ContextAssumption
  <2>4. Len(packed') = Len(packed) + 1 /\ Chars(packed) \in Nat /\ Chars(packed)' = Chars(packed) + Card.chars
    BY <2>1, <2>3, PackedGrows
  <2>5. /\ 4 + 5 * Len(packed) <= used /\ HeaderChars + Chars(packed) <= 4 * used /\ lines = <<>>
    BY <2>1, <2>2 DEF Margin
  <2> DEFINE h == Count(Card.chars)
  <2>6. h \in Nat /\ Card.chars <= 4 * h
    <3>1. h = Heuristic(Card.chars)
      BY <2>3 DEF IsHeuristic
    <3> QED BY <2>3, <3>1, HeuristicIs
  <2>7. used' = used + h /\ used' <= Effective(budget)
    BY <2>1 DEF FitsCeiling
  <2> HIDE DEF h
  <2>8. Len(packed) \in Nat /\ HeaderChars \in Nat
    BY <2>2, PackedCounts, HeaderIs, ContextAssumption
  <2>9. h >= 5
    BY <2>3, <2>6
  <2>10. 4 + 5 * Len(packed') <= used'
    BY <2>2, <2>4, <2>5, <2>6, <2>7, <2>8, <2>9
  <2>11. HeaderChars + Chars(packed)' <= 4 * used'
    BY <2>2, <2>3, <2>4, <2>5, <2>6, <2>7, <2>8
  <2>12. HeaderChars' = HeaderChars /\ Effective(budget)' = Effective(budget)
    BY <2>1 DEF HeaderChars, Effective
  <2> QED BY <2>1, <2>5, <2>7, <2>10, <2>11, <2>12 DEF Margin
<1>5. CASE SkipReference
  <2>1. pc = "refs" /\ pc' = pc /\ packed' = packed /\ used' = used /\ lines' = lines
        /\ result' = result /\ budget' = budget
    BY <1>5 DEF SkipReference
  <2> QED BY <1>0, <2>1 DEF Margin
<1>6. CASE EndLocate
  <2> SUFFICES ASSUME packed' # <<>> PROVE Margin'
    BY <1>6 DEF EndLocate, Finish, Margin
  <2>1. pc = "refs" /\ packed' = packed /\ result' = result /\ budget' = budget
    BY <1>6 DEF EndLocate
  <2>2. result.items # {}
    <3> SUFFICES ASSUME result.items = {} PROVE FALSE
      OBVIOUS
    <3>1. Included = {}
      BY DEF Counted
    <3>2. packed # <<>> /\ Len(packed) \in Nat /\ DOMAIN packed = 1..Len(packed) /\ packed \in Seq([id : Nat, chars : 0..MaxLength])
      BY <2>1, PackedCounts DEF Typed
    <3>3. 1 \in DOMAIN packed
      BY <3>2
    <3> QED BY <3>1, <3>3 DEF Included
  <2>3. used' = used /\ lines' = lines
    BY <1>6, <2>2 DEF EndLocate
  <2> QED BY <1>0, <2>1, <2>3 DEF Margin
<1>7. CASE UNCHANGED vars
  BY <1>0, <1>7 DEF Margin, vars
<1> QED
  BY <1>1, <1>2, <1>3, <1>4, <1>5, <1>6, <1>7 DEF Next

-----------------------------------------------------------------------------
(***************************************************************************)
(* The theorems.                                                           *)
(***************************************************************************)
IInv == Typed /\ Counted /\ Greedy /\ Joined

LEMMA InitIInv == Init => IInv /\ Spared /\ Margin
<1> SUFFICES ASSUME Init PROVE IInv /\ Spared /\ Margin
  OBVIOUS
<1>1. /\ pc = "start" /\ result \in Results /\ budget = 0 /\ rest = {} /\ packed = <<>> /\ lines = <<>>
      /\ used = 0 /\ dropped = 0 /\ spent = 0 /\ truncated = FALSE
  BY DEF Init
<1>2. Typed
  <2>1. \A T : <<>> \in Seq(T)
    OBVIOUS
  <2>2. packed \in Seq([id : Nat, chars : 0..MaxLength]) /\ lines \in Seq(Edge)
    BY <1>1, <2>1, Zenon
  <2> QED BY <1>1, <2>2 DEF Typed
<1>3. Counted
  <2>1. Included = {} /\ Len(packed) = 0
    BY <1>1 DEF Included
  <2>2. Cardinality(Included) = 0
    BY <2>1, FS_EmptySet
  <2> QED BY <1>1, <2>1, <2>2 DEF Counted
<1>4. Greedy
  BY <1>1 DEF Greedy
<1>5. Joined
  BY <1>1, <1>2, CostOfNone, BudgetIs DEF Joined
<1>6. Spared /\ Margin
  BY <1>1 DEF Spared, Margin
<1> QED BY <1>2, <1>3, <1>4, <1>5, <1>6 DEF IInv

LEMMA AlwaysIInv == Spec => []IInv
<1>1. Init => IInv
  BY InitIInv
<1>2. IInv /\ [Next]_vars => IInv'
  BY StepTyped, StepCounted, StepGreedy, StepJoined DEF IInv
<1> QED BY <1>1, <1>2, PTL DEF Spec

(* Types hold, and no budget that is spent is negative, for any results.   *)
THEOREM TypeCorrect == Spec => []TypeOK
<1>1. IInv => TypeOK
  BY DEF IInv, Typed, Counted, TypeOK
<1> QED BY <1>1, AlwaysIInv, PTL

(* Every item of any result is packed or counted as dropped, and truncated *)
(* says that some were: build(), whatever the counter.                     *)
THEOREM NothingIsLost == Spec => []NothingLostUncounted
<1>1. IInv => NothingLostUncounted
  BY DEF IInv, Counted, NothingLostUncounted
<1> QED BY <1>1, AlwaysIInv, PTL

(* No card that was left out for want of room fits beside those taken, and *)
(* only a best card that stands alone is cut, whatever the counter.        *)
THEOREM PackingStaysMaximal == Spec => []PackingIsMaximal
<1>1. IInv => PackingIsMaximal
  BY DEF IInv, Greedy, PackingIsMaximal
<1> QED BY <1>1, AlwaysIInv, PTL

(* The relationships are the best of those between cards, within the       *)
(* reserve, for any edges: _relationships().                               *)
THEOREM RelationsAreTheBest == Spec => []RelationsJoinIncluded
<1>1. IInv => RelationsJoinIncluded
  <2> SUFFICES ASSUME IInv, pc = "done", result.intent = "EXPLAIN"
               PROVE  /\ \A e \in Taken : {e.src, e.dst} \subseteq Included
                      /\ Cost(lines) <= Reserve(budget)
                      /\ \A e \in Taken, f \in result.edges \ Taken :
                            {f.src, f.dst} \subseteq Included => f.confidence <= e.confidence
    BY DEF RelationsJoinIncluded
  <2>1. Cost(lines) <= Reserve(budget) /\ \A e \in Taken : Incident(e)
    BY DEF IInv, Joined
  <2>2. ASSUME NEW e \in Taken, NEW f \in result.edges \ Taken, {f.src, f.dst} \subseteq Included
        PROVE  f.confidence <= e.confidence
    <3>1. EdgeOrder(e, f)
      BY <2>2 DEF IInv, Joined, Incident
    <3>2. e \in Edge /\ f \in Edge
      <4>1. lines \in Seq(Edge) /\ result.edges \subseteq Edge
        BY ResultIs DEF IInv, Typed, IsResult
      <4> HIDE DEF Edge
      <4> QED BY <4>1 DEF Taken
    <3>3. e.confidence \in Int /\ f.confidence \in Int
      BY <3>2 DEF Edge
    <3> QED BY <3>1, <3>3 DEF EdgeOrder
  <2> QED BY <2>1, <2>2 DEF Incident
<1> QED BY <1>1, AlwaysIInv, PTL

(* No more is spent than the budget, the cut card included, when the       *)
(* counter gives no text more tokens than HeuristicCounter: the cut is at  *)
(* four characters per token (context.py:162).                             *)
THEOREM BudgetIsKept ==
  ASSUME NoDenser
  PROVE  Spec => []UsedWithinBudget
<1>1. Init => IInv /\ Spared
  BY InitIInv
<1>2. IInv /\ Spared /\ [Next]_vars => (IInv /\ Spared)'
  BY StepTyped, StepCounted, StepGreedy, StepJoined, StepSpared DEF IInv
<1>3. IInv /\ Spared => UsedWithinBudget
  <2> SUFFICES ASSUME Typed, Spared PROVE used <= budget
    BY DEF IInv, UsedWithinBudget
  <2>1. /\ used \in Nat /\ budget \in Nat /\ Effective(budget) \in Nat /\ CardBudget(budget) \in Nat
        /\ 10 * Effective(budget) <= 9 * budget /\ Reserve(budget) \in Nat
        /\ CardBudget(budget) + Reserve(budget) = Effective(budget)
    BY BudgetIs DEF Typed
  <2>2. Effective(budget) <= budget /\ CardBudget(budget) <= budget
    BY <2>1
  <2>3. pc = "start" => used = 0
    BY DEF Typed
  <2> QED BY <2>1, <2>2, <2>3 DEF Spared, Typed
<1> QED BY <1>1, <1>2, <1>3, PTL DEF Spec

(* With HeuristicCounter the text of LOCATE fits the budget, separators    *)
(* included: the safety margin of a tenth pays for a newline per line.     *)
THEOREM LocateFits ==
  ASSUME IsHeuristic
  PROVE  Spec => []LocateWithinBudget
<1>1. Init => IInv /\ Margin
  BY InitIInv
<1>2. IInv /\ Margin /\ [Next]_vars => (IInv /\ Margin)'
  BY StepTyped, StepCounted, StepGreedy, StepJoined, StepMargin DEF IInv
<1>3. IInv /\ Margin => LocateWithinBudget
  <2> SUFFICES ASSUME IInv, Margin, result.intent = "LOCATE", pc = "done", packed # <<>>
               PROVE  Count(TextChars) <= budget
    BY DEF LocateWithinBudget, TextWithinBudget
  <2>1. Typed
    BY DEF IInv
  <2>2. /\ 4 + 5 * Len(packed) <= used /\ used <= Effective(budget)
        /\ HeaderChars + Chars(packed) <= 4 * used /\ lines = <<>>
    BY DEF Margin
  <2>3. Len(packed) \in Nat /\ HeaderChars \in Nat /\ used \in Nat /\ budget \in Nat
        /\ Effective(budget) \in Nat /\ 10 * Effective(budget) <= 9 * budget
    <3>1. Len(packed) \in Nat /\ Effective(budget) \in Nat /\ 10 * Effective(budget) <= 9 * budget
      BY <2>1, PackedCounts, BudgetIs
    <3>2. HeaderChars \in Nat
      BY <2>1, HeaderIs, ContextAssumption DEF Typed
    <3> QED BY <2>1, <3>1, <3>2 DEF Typed
  <2>4. Chars(packed) \in Nat
    BY <2>1, PackedCounts, CharsAre DEF Typed
  <2>5. Chars(lines) = 0 /\ Len(lines) = 0
    BY <2>2, CostOfNone
  <2>6. TextChars = HeaderChars + Chars(packed) + Len(packed)
    BY <2>3, <2>4, <2>5 DEF TextChars
  <2>7. TextChars \in Nat /\ TextChars <= 4 * budget /\ budget > 0
    BY <2>2, <2>3, <2>4, <2>6
  <2>8. Count(TextChars) = Heuristic(TextChars) /\ Heuristic(TextChars) <= budget
    <3>1. Heuristic(TextChars) <= budget
      BY <2>3, <2>7, HeuristicIs
    <3> QED BY <2>7, <3>1 DEF IsHeuristic
  <2> QED BY <2>8
<1> QED BY <1>1, <1>2, <1>3, PTL DEF Spec
=============================================================================
