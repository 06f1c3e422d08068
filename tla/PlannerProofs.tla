--------------------------- MODULE PlannerProofs ---------------------------
(***************************************************************************)
(* Routing, for any stores, vocabularies, queries and answers of the LLM:  *)
(* a cached verdict is what the client's last answer says (CacheInv), and  *)
(* what retrieve() returned was made of that verdict and of the store as   *)
(* it is (AnswerInv).  The rest is about the operators: the order of the   *)
(* candidates, of which the best exists, and LIMIT.                        *)
(***************************************************************************)
EXTENDS Planner, FiniteSetTheorems, WellFoundedInduction, TLAPS

(* A non-empty set of naturals has a least element. *)
LEMMA LeastExists ==
  ASSUME NEW S \in SUBSET Nat, S # {}
  PROVE  \E x \in S : \A y \in S : x <= y
<1> DEFINE Lt == {ss \in Nat \X Nat : ss[1] < ss[2]}
<1>1. IsWellFoundedOn(Lt, Nat)
  BY NatLessThanWellFounded, Zenon DEF OpToRel
<1> HIDE DEF Lt
<1>2. PICK x \in S : \A y \in S : ~ (<<y, x>> \in Lt)
  BY <1>1, WFMin
<1>3. ASSUME NEW y \in S  PROVE x <= y
  <2>1. ~ (<<y, x>> \in Lt)
    BY <1>2
  <2> QED BY <2>1 DEF Lt
<1> QED BY <1>3

-----------------------------------------------------------------------------
(***************************************************************************)
(* The candidates of a query.                                              *)
(***************************************************************************)
WordsOf(q) ==
    {Tokens[q][i] : i \in DOMAIN Tokens[q]} \cup {BareTail[Tokens[q][i]] : i \in DOMAIN Tokens[q]}

LEMMA HalfOf ==
  ASSUME NEW t \in Nat
  PROVE  /\ (2 * t) \div 2 = t /\ (2 * t + 1) \div 2 = t
         /\ (2 * t) % 2 = 0 /\ (2 * t + 1) % 2 = 1
  OBVIOUS

LEMMA OfferedIs ==
  ASSUME NEW q \in Queries
  PROVE  /\ 2 * Len(Tokens[q]) \in Nat
         /\ Offered(q) \in [1..(2 * Len(Tokens[q])) -> Words]
         /\ \A w : w \in WordsOf(q) <=> \E i \in 1..(2 * Len(Tokens[q])) : Offered(q)[i] = w
<1> DEFINE T == Tokens[q]
           n == Len(T)
           s == Offered(q)
<1>1. T \in Seq(Words) /\ n \in Nat /\ DOMAIN T = 1..n /\ \A i \in 1..n : T[i] \in Words
  BY PlannerAssumption
<1>2. \A i \in 1..(2 * n) : (i + 1) \div 2 \in 1..n
  BY <1>1
<1>3. s = [i \in 1..(2 * n) |-> IF i % 2 = 1 THEN T[(i + 1) \div 2] ELSE BareTail[T[(i + 1) \div 2]]]
  BY DEF Offered
<1> HIDE DEF s, T, n
<1>4. s \in [1..(2 * n) -> Words]
  BY <1>1, <1>2, <1>3, PlannerAssumption
<1>5. ASSUME NEW w, w \in WordsOf(q)  PROVE \E i \in 1..(2 * n) : s[i] = w
  <2>1. PICK t \in 1..n : w = T[t] \/ w = BareTail[T[t]]
    BY <1>1, <1>5 DEF WordsOf, T
  <2>2. CASE w = T[t]
    <3>1. 2 * t - 1 \in 1..(2 * n) /\ 2 * t - 1 = 2 * (t - 1) + 1 /\ (2 * t - 1) + 1 = 2 * t /\ t - 1 \in Nat
      BY <1>1, <2>1
    <3>2. (2 * t - 1) % 2 = 1 /\ ((2 * t - 1) + 1) \div 2 = t
      BY <3>1, HalfOf
    <3> QED BY <1>3, <2>2, <3>1, <3>2
  <2>3. CASE w = BareTail[T[t]]
    <3>1. 2 * t \in 1..(2 * n) /\ t \in Nat
      BY <1>1, <2>1
    <3>2. (2 * t) % 2 # 1 /\ (2 * t + 1) \div 2 = t
      BY <3>1, HalfOf
    <3> QED BY <1>3, <2>3, <3>1, <3>2
  <2> QED BY <2>1, <2>2, <2>3
<1>6. ASSUME NEW i \in 1..(2 * n)  PROVE s[i] \in WordsOf(q)
  BY <1>1, <1>2, <1>3 DEF WordsOf, T
<1>7. 2 * n \in Nat
  BY <1>1
<1> QED BY <1>4, <1>5, <1>6, <1>7 DEF n, T, s

(* The order of the candidates is a strict total order of the places.      *)
LEMMA BeforeIsTotal ==
  ASSUME NEW n \in Nat, NEW s \in [1..n -> Words], NEW i \in 1..n, NEW j \in 1..n, i # j
  PROVE  Before(s, i, j) \/ Before(s, j, i)
<1>1. WordLen[s[i]] \in Nat /\ WordLen[s[j]] \in Nat /\ Class(s[i]) \in Nat /\ Class(s[j]) \in Nat
  BY PlannerAssumption DEF Class
<1> QED BY <1>1 DEF Before

LEMMA BeforeIsTransitive ==
  ASSUME NEW n \in Nat, NEW s \in [1..n -> Words], NEW i \in 1..n, NEW j \in 1..n, NEW k \in 1..n,
         Before(s, i, j), Before(s, j, k)
  PROVE  Before(s, i, k)
<1>1. /\ WordLen[s[i]] \in Nat /\ WordLen[s[j]] \in Nat /\ WordLen[s[k]] \in Nat
      /\ Class(s[i]) \in Nat /\ Class(s[j]) \in Nat /\ Class(s[k]) \in Nat
  BY PlannerAssumption DEF Class
<1> QED BY <1>1 DEF Before

Best(s, H, i) == i \in H /\ \A j \in H \ {i} : Before(s, i, j)

AllHaveBest(s, m) == \A I \in SUBSET (1..m) : I # {} => \E i \in I : Best(s, I, i)

(* So a non-empty set of places has a best one: the least bound m of a set *)
(* without one would itself be best, or worse than the best of the rest.   *)
LEMMA BestExists ==
  ASSUME NEW n \in Nat, NEW s \in [1..n -> Words], NEW H \in SUBSET (1..n), H # {}
  PROVE  \E i \in H : Best(s, H, i)
<1> DEFINE Bad == {m \in 0..n : ~AllHaveBest(s, m)}
<1>1. Bad = {}
  <2> SUFFICES ASSUME Bad # {} PROVE FALSE
    OBVIOUS
  <2>1. PICK m \in Bad : \A l \in Bad : m <= l
    <3>1. Bad \in SUBSET Nat
      OBVIOUS
    <3> HIDE DEF Bad
    <3> QED BY <3>1, LeastExists
  <2>2. PICK I \in SUBSET (1..m) : I # {} /\ ~ \E i \in I : Best(s, I, i)
    BY DEF AllHaveBest
  <2>3. m \in 0..n /\ \A l \in 0..n : l < m => AllHaveBest(s, l)
    BY <2>1
  <2> HIDE DEF Bad
  <2> DEFINE R == I \ {m}
  <2>4. m # 0 /\ m - 1 \in 0..n /\ m - 1 < m /\ m \in 1..n
    <3>1. m # 0
      <4> SUFFICES ASSUME m = 0 PROVE FALSE
        OBVIOUS
      <4>1. 1..m = {}
        OBVIOUS
      <4> QED BY <2>2, <4>1
    <3> QED BY <2>3, <3>1
  <2>5. R \in SUBSET (1..(m - 1)) /\ I \in SUBSET (1..n)
    BY <2>3, <2>4
  <2>6. m \in I
    <3> SUFFICES ASSUME m \notin I PROVE FALSE
      OBVIOUS
    <3>1. R = I
      OBVIOUS
    <3> QED BY <2>2, <2>3, <2>4, <2>5, <3>1 DEF AllHaveBest
  <2>7. CASE R = {}
    <3>1. Best(s, I, m)
      BY <2>6, <2>7 DEF Best
    <3> QED BY <2>2, <2>6, <3>1
  <2>8. CASE R # {}
    <3>1. PICK i \in R : Best(s, R, i)
      BY <2>3, <2>4, <2>5, <2>8 DEF AllHaveBest
    <3>2. i # m /\ i \in I /\ i \in 1..n
      BY <2>5
    <3>3. CASE Before(s, i, m)
      <4>1. Best(s, I, i)
        BY <3>1, <3>2, <3>3 DEF Best
      <4> QED BY <2>2, <3>2, <4>1
    <3>4. CASE Before(s, m, i)
      <4>1. \A j \in R : Before(s, m, j)
        BY <2>4, <2>5, <3>1, <3>2, <3>4, BeforeIsTransitive DEF Best
      <4>2. Best(s, I, m)
        BY <2>6, <4>1 DEF Best
      <4> QED BY <2>2, <2>6, <4>2
    <3> QED BY <2>4, <3>2, <3>3, <3>4, BeforeIsTotal
  <2> QED BY <2>7, <2>8
<1>2. n \in 0..n
  OBVIOUS
<1> QED BY <1>1, <1>2 DEF AllHaveBest

(* Every word that is no stopword is a candidate, at its first place.      *)
LEMMA FirstPlace ==
  ASSUME NEW q \in Queries, NEW w \in WordsOf(q) \ Stopwords
  PROVE  \E i \in Candidates(q) : Offered(q)[i] = w
<1> DEFINE s == Offered(q)
           n == 2 * Len(Tokens[q])
           At == {i \in 1..n : s[i] = w}
<1>1. n \in Nat /\ s \in [1..n -> Words] /\ \E i \in 1..n : s[i] = w
  BY OfferedIs
<1> HIDE DEF s, n
<1>2. PICK i \in At : \A j \in At : i <= j
  <2>1. At # {} /\ At \in SUBSET Nat
    BY <1>1
  <2> HIDE DEF At
  <2> QED BY <2>1, LeastExists
<1>3. i \in 1..n /\ s[i] = w
  BY <1>2
<1>4. \A j \in 1..(i - 1) : s[j] # s[i]
  <2> SUFFICES ASSUME NEW j \in 1..(i - 1), s[j] = s[i] PROVE FALSE
    OBVIOUS
  <2>1. j \in 1..n /\ j < i
    BY <1>1, <1>3
  <2>2. j \in At
    BY <1>3, <2>1
  <2> QED BY <1>1, <1>2, <1>3, <2>1, <2>2
<1>5. i \in Candidates(q)
  BY <1>1, <1>3, <1>4 DEF Candidates, s
<1> QED BY <1>3, <1>5 DEF s

(* What a query is grounded on: a word that names a node, of the best      *)
(* class that such a word has.                                             *)
Naming(p, q) == {w \in WordsOf(q) \ Stopwords : Names(p, w)}

LEMMA GroundedIs ==
  ASSUME NEW p \in Planners, NEW q \in Queries
  PROVE  /\ Naming(p, q) = {} => Grounded(p, q) = NoWord
         /\ Naming(p, q) # {} =>
               /\ Grounded(p, q) \in Naming(p, q)
               /\ \A w \in Naming(p, q) : Class(Grounded(p, q)) <= Class(w)
<1> DEFINE s == Offered(q)
           n == 2 * Len(Tokens[q])
           hits == {i \in Candidates(q) : Names(p, s[i])}
           best == CHOOSE i \in hits : \A j \in hits \ {i} : Before(s, i, j)
<1>1. n \in Nat /\ s \in [1..n -> Words] /\ \A w : w \in WordsOf(q) <=> \E i \in 1..n : s[i] = w
  BY OfferedIs
<1>2. hits \in SUBSET (1..n) /\ \A i \in hits : s[i] \notin Stopwords /\ Names(p, s[i])
  BY <1>1 DEF Candidates
<1>3. Grounded(p, q) = IF hits = {} THEN NoWord ELSE s[best]
  BY DEF Grounded
<1>4. \A w \in Naming(p, q) : \E i \in hits : s[i] = w
  BY FirstPlace DEF Naming
<1>5. \A i \in hits : s[i] \in Naming(p, q)
  BY <1>1, <1>2 DEF Naming
<1> HIDE DEF s, n, hits
<1>6. CASE hits = {}
  BY <1>3, <1>4, <1>6
<1>7. CASE hits # {}
  <2>1. \E i \in hits : Best(s, hits, i)
    BY <1>1, <1>2, <1>7, BestExists
  <2>2. best \in hits /\ \A j \in hits \ {best} : Before(s, best, j)
    BY <2>1 DEF Best
  <2> HIDE DEF best
  <2>3. \A j \in hits : Class(s[best]) <= Class(s[j])
    <3>1. \A j \in hits : Class(s[j]) \in Nat
      BY DEF Class
    <3> QED BY <2>2, <3>1 DEF Before
  <2> QED BY <1>3, <1>4, <1>5, <1>7, <2>2, <2>3
<1> QED BY <1>6, <1>7

-----------------------------------------------------------------------------
(***************************************************************************)
(* ORDER BY uid LIMIT.                                                     *)
(***************************************************************************)
Below(W, x) == {y \in W : y < x}

LEMMA BelowIs ==
  ASSUME NEW W \in SUBSET Nat, IsFiniteSet(W), NEW x \in Nat
  PROVE  IsFiniteSet(Below(W, x)) /\ Cardinality(Below(W, x)) \in Nat
         /\ Below(W, x) \subseteq W
<1>1. Below(W, x) \subseteq W
  BY DEF Below
<1> QED BY <1>1, FS_Subset, FS_CardinalityType

(* A non-empty finite set of naturals has a greatest element: one below    *)
(* which the most of them are.                                             *)
LEMMA GreatestExists ==
  ASSUME NEW W \in SUBSET Nat, IsFiniteSet(W), W # {}
  PROVE  \E m \in W : \A n \in W : n <= m
<1> DEFINE c(x) == Cardinality(W) - Cardinality(Below(W, x))
           Left == {c(x) : x \in W}
<1>1. \A x \in W : c(x) \in Nat
  <2> SUFFICES ASSUME NEW x \in W PROVE c(x) \in Nat
    OBVIOUS
  <2>1. Cardinality(Below(W, x)) <= Cardinality(W) /\ Cardinality(W) \in Nat
        /\ Cardinality(Below(W, x)) \in Nat
    BY BelowIs, FS_Subset, FS_CardinalityType
  <2> QED BY <2>1
<1>2. PICK m \in W : \A n \in W : c(m) <= c(n)
  <2>1. Left \in SUBSET Nat /\ Left # {}
    BY <1>1
  <2>2. PICK l \in Left : \A y \in Left : l <= y
    <3> HIDE DEF Left
    <3> QED BY <2>1, LeastExists
  <2> QED BY <2>2
<1>3. ASSUME NEW n \in W  PROVE n <= m
  <2> SUFFICES ASSUME m < n PROVE FALSE
    OBVIOUS
  <2>1. Below(W, m) \subseteq Below(W, n)
    <3> SUFFICES ASSUME NEW y \in W, y < m PROVE y < n
      BY DEF Below
    <3>1. y \in Nat
      OBVIOUS
    <3> QED BY <3>1
  <2>2. m \in Below(W, n) /\ m \notin Below(W, m)
    BY DEF Below
  <2>3. Cardinality(Below(W, m)) < Cardinality(Below(W, n))
    <3>1. IsFiniteSet(Below(W, n)) /\ Below(W, m) # Below(W, n)
          /\ Cardinality(Below(W, m)) \in Nat /\ Cardinality(Below(W, n)) \in Nat
      BY <2>2, BelowIs
    <3>2. Cardinality(Below(W, m)) <= Cardinality(Below(W, n))
          /\ Cardinality(Below(W, m)) # Cardinality(Below(W, n))
      BY <2>1, <3>1, FS_Subset
    <3> QED BY <3>1, <3>2
  <2>4. Cardinality(Below(W, m)) \in Nat /\ Cardinality(Below(W, n)) \in Nat /\ Cardinality(W) \in Nat
    BY BelowIs, FS_CardinalityType
  <2> QED BY <1>2, <2>3, <2>4
<1> QED BY <1>3

(* What is left out is larger than all that is not.                        *)
LEMMA LowestIsLow ==
  ASSUME NEW W \in SUBSET Nat, IsFiniteSet(W), NEW l \in Nat,
         NEW x \in Lowest(W, l), NEW o \in W \ Lowest(W, l)
  PROVE  x < o
<1> SUFFICES ASSUME ~(x < o) PROVE FALSE
  OBVIOUS
<1>1. x \in Nat /\ o \in Nat /\ x \in W /\ o <= x
  BY DEF Lowest
<1>2. Cardinality(Below(W, x)) < l /\ ~(Cardinality(Below(W, o)) < l)
  BY DEF Lowest, Below
<1>3. Below(W, o) \subseteq Below(W, x)
  <2> SUFFICES ASSUME NEW y \in W, y < o PROVE y < x
    BY DEF Below
  <2>1. y \in Nat
    OBVIOUS
  <2> QED BY <1>1, <2>1
<1>4. Cardinality(Below(W, o)) <= Cardinality(Below(W, x))
  BY <1>1, <1>3, BelowIs, FS_Subset
<1> QED BY <1>1, <1>2, <1>4, BelowIs

LEMMA LowestGrows ==
  ASSUME NEW W \in SUBSET Nat, IsFiniteSet(W), NEW l \in Nat, Lowest(W, l) # W,
         Cardinality(Lowest(W, l)) = l
  PROVE  Cardinality(Lowest(W, l + 1)) = l + 1
<1> DEFINE L == Lowest(W, l)
           Rest == W \ L
<1>1. L \subseteq W /\ IsFiniteSet(L) /\ Rest # {} /\ Rest \in SUBSET Nat
  <2>1. L \subseteq W
    BY DEF Lowest
  <2> QED BY <2>1, FS_Subset
<1> HIDE DEF L
<1>2. PICK m \in Rest : \A o \in Rest : m <= o
  <2> HIDE DEF Rest
  <2> QED BY <1>1, LeastExists
<1>3. \A x \in L, o \in Rest : x < o
  BY LowestIsLow DEF L
<1>4. Below(W, m) = L
  <2>1. ASSUME NEW y \in W, y < m  PROVE y \in L
    <3>1. y \in Nat /\ m \in Nat /\ ~(m <= y)
      BY <1>1, <1>2, <2>1
    <3> QED BY <1>2, <3>1
  <2>2. \A y \in L : y \in W /\ y < m
    BY <1>1, <1>2, <1>3
  <2> QED BY <2>1, <2>2 DEF Below
<1>5. \A x \in L : Cardinality(Below(W, x)) < l
  BY DEF Lowest, Below, L
<1>6. IsFiniteSet(L \cup {m}) /\ Cardinality(L \cup {m}) = l + 1
  BY <1>1, <1>2, FS_AddElement DEF L
<1>7. ASSUME NEW o \in Rest, o # m  PROVE ~(Cardinality(Below(W, o)) < l + 1)
  <2>1. m < o /\ o \in Nat /\ m \in Nat
    BY <1>1, <1>2, <1>7
  <2>2. L \cup {m} \subseteq Below(W, o)
    BY <1>1, <1>2, <1>3, <2>1 DEF Below
  <2>3. Cardinality(L \cup {m}) <= Cardinality(Below(W, o))
    BY <2>1, <2>2, BelowIs, FS_Subset
  <2> QED BY <1>6, <2>1, <2>3, BelowIs
<1>8. Lowest(W, l + 1) = L \cup {m}
  <2>1. \A x \in W : x \in Lowest(W, l + 1) <=> Cardinality(Below(W, x)) < l + 1
    BY DEF Lowest, Below
  <2>2. \A x \in L : Cardinality(Below(W, x)) < l + 1
    BY <1>1, <1>5, BelowIs
  <2>3. Cardinality(Below(W, m)) < l + 1
    BY <1>4 DEF L
  <2>4. Lowest(W, l + 1) \subseteq W
    BY DEF Lowest
  <2> QED BY <1>1, <1>2, <1>7, <2>1, <2>2, <2>3, <2>4
<1> QED BY <1>6, <1>8

(* LIMIT l gives l rows, or all of them: of the limits that do not, the    *)
(* least would be one more than one that does.                             *)
LEMMA LowestHas ==
  ASSUME NEW W \in SUBSET Nat, IsFiniteSet(W), NEW l \in Nat
  PROVE  Lowest(W, l) = W \/ Cardinality(Lowest(W, l)) = l
<1> DEFINE Bad == {k \in Nat : ~(Lowest(W, k) = W \/ Cardinality(Lowest(W, k)) = k)}
<1>1. Bad = {}
  <2> SUFFICES ASSUME Bad # {} PROVE FALSE
    OBVIOUS
  <2>1. PICK k \in Bad : \A j \in Bad : k <= j
    <3>1. Bad \in SUBSET Nat
      OBVIOUS
    <3> HIDE DEF Bad
    <3> QED BY <3>1, LeastExists
  <2>2. k \in Nat /\ Lowest(W, k) # W /\ Cardinality(Lowest(W, k)) # k
    OBVIOUS
  <2>3. k # 0
    <3>1. \A x \in W : ~(Cardinality(Below(W, x)) < 0)
      BY BelowIs
    <3>2. Lowest(W, 0) = {}
      BY <3>1 DEF Lowest, Below
    <3> QED BY <2>2, <3>2, FS_EmptySet
  <2>4. k - 1 \in Nat /\ k - 1 \notin Bad /\ (k - 1) + 1 = k
    BY <2>1, <2>2, <2>3
  <2>5. CASE Lowest(W, k - 1) = W
    <3>1. \A x \in W : Cardinality(Below(W, x)) < k - 1 /\ Cardinality(Below(W, x)) \in Nat
      <4> SUFFICES ASSUME NEW x \in W
                   PROVE  Cardinality(Below(W, x)) < k - 1 /\ Cardinality(Below(W, x)) \in Nat
        OBVIOUS
      <4>1. x \in Lowest(W, k - 1)
        BY <2>5
      <4> QED BY <4>1, BelowIs DEF Lowest, Below
    <3>2. \A x \in W : Cardinality(Below(W, x)) < k
      BY <2>2, <3>1
    <3>3. Lowest(W, k) = W
      BY <3>2 DEF Lowest, Below
    <3> QED BY <2>2, <3>3
  <2>6. CASE Lowest(W, k - 1) # W
    <3>1. Cardinality(Lowest(W, k - 1)) = k - 1
      BY <2>4, <2>6
    <3>2. Cardinality(Lowest(W, (k - 1) + 1)) = (k - 1) + 1
      BY <2>4, <2>6, <3>1, LowestGrows
    <3> QED BY <2>2, <2>4, <3>2
  <2> QED BY <2>5, <2>6
<1> QED BY <1>1

StoreInv == store \in [Planners -> SUBSET Nodes]

LEMMA WhereIs ==
  ASSUME StoreInv, NEW p \in Planners, NEW f
  PROVE  /\ Where(p, f) \in SUBSET Nat /\ IsFiniteSet(Where(p, f))
         /\ Cardinality(Where(p, f)) \in Nat
         /\ Where(p, f) \in SUBSET Nodes /\ Cardinality(Where(p, f)) <= Cardinality(Nodes)
         /\ Cardinality(Nodes) \in Nat
<1>1. Where(p, f) \subseteq Nodes
  BY DEF Where, StoreInv
<1> QED BY <1>1, PlannerAssumption, FS_Subset, FS_CardinalityType

(* Without a cap nothing is cut.                                           *)
LEMMA LimitIsEnough ==
  ASSUME StoreInv, NEW p \in Planners, NEW f
  PROVE  Lowest(Where(p, f), Cardinality(Nodes)) = Where(p, f)
<1> DEFINE W == Where(p, f)
<1>0. W \in SUBSET Nat /\ IsFiniteSet(W) /\ Cardinality(W) \in Nat
      /\ Cardinality(W) <= Cardinality(Nodes) /\ Cardinality(Nodes) \in Nat
  BY WhereIs
<1> HIDE DEF W
<1>1. ASSUME NEW x \in W  PROVE Cardinality(Below(W, x)) < Cardinality(Nodes)
  <2>1. IsFiniteSet(Below(W, x)) /\ Cardinality(Below(W, x)) \in Nat /\ Below(W, x) \subseteq W
    BY <1>0, BelowIs
  <2>2. x \notin Below(W, x)
    BY <1>0 DEF Below
  <2>3. Below(W, x) # W
    BY <2>2
  <2>4. Cardinality(Below(W, x)) < Cardinality(W)
    BY <1>0, <2>1, <2>3, FS_Subset
  <2> QED BY <1>0, <2>1, <2>4
<1>2. Lowest(W, Cardinality(Nodes)) = W
  BY <1>1 DEF Lowest, Below
<1> QED BY <1>2 DEF W

(* The rows of a FILTER: all that match, or, when the cap cuts, k of them, *)
(* below all the others.                                                   *)
LEMMA FilterIsExact ==
  ASSUME StoreInv, NEW p \in Planners, NEW q, NEW f, NEW k \in Int
  PROVE  LET a == Filtered(p, q, f, k)
             W == Where(p, f)
         IN  /\ Usable(f) = {} => a.ids = {}
             /\ Usable(f) # {} /\ ~a.truncated => a.ids = W
             /\ Usable(f) # {} /\ a.truncated =>
                   /\ a.ids \subseteq W /\ Cardinality(a.ids) = k
                   /\ \A n \in a.ids, o \in W \ a.ids : n < o
<1> DEFINE a == Filtered(p, q, f, k)
           W == Where(p, f)
           rows == Selected(p, f, k)
           cut == k > 0 /\ Cardinality(rows) > k
<1>0. W \in SUBSET Nat /\ IsFiniteSet(W) /\ Cardinality(W) \in Nat
  BY WhereIs
<1>1. a.ids = (IF cut THEN Lowest(rows, k) ELSE rows) /\ a.truncated = cut
  BY DEF Filtered
<1>2. Usable(f) # {} => rows = Lowest(W, Limit(k))
  BY DEF Selected
<1>3. Usable(f) = {} => rows = {}
  BY DEF Selected
<1>4. Lowest(W, Cardinality(Nodes)) = W
  BY LimitIsEnough
<1> HIDE DEF a, W, rows
<1>5. CASE Usable(f) = {}
  <2>1. Cardinality(rows) = 0
    BY <1>3, <1>5, FS_EmptySet
  <2> QED BY <1>1, <1>3, <1>5, <2>1 DEF a, W
<1>6. CASE Usable(f) # {} /\ ~cut
  <2>1. CASE k > 0
    <3>1. rows = Lowest(W, k + 1) /\ k + 1 \in Nat
      BY <1>2, <1>6, <2>1 DEF Limit
    <3>2. Cardinality(rows) # k + 1
      BY <1>6, <2>1
    <3>3. rows = W
      BY <1>0, <3>1, <3>2, LowestHas
    <3> QED BY <1>1, <1>6, <3>3 DEF a, W
  <2>2. CASE ~(k > 0)
    <3>1. rows = W
      BY <1>2, <1>4, <1>6, <2>2 DEF Limit
    <3> QED BY <1>1, <1>6, <3>1 DEF a, W
  <2> QED BY <2>1, <2>2
<1>7. CASE Usable(f) # {} /\ cut
  <2>1. rows = Lowest(W, k + 1) /\ k \in Nat /\ k + 1 \in Nat /\ k < k + 1
    BY <1>2, <1>7 DEF Limit
  <2>2. rows \subseteq W /\ rows \in SUBSET Nat /\ IsFiniteSet(rows)
    <3>1. rows \subseteq W
      BY <2>1 DEF Lowest
    <3> QED BY <1>0, <3>1, FS_Subset
  <2>3. Cardinality(rows) > k
    BY <1>7
  <2>4. a.ids = Lowest(rows, k)
    BY <1>1, <1>7
  <2>5. a.ids \subseteq rows
    BY <2>4 DEF Lowest
  <2>6. Cardinality(a.ids) = k
    <3>1. a.ids = rows \/ Cardinality(a.ids) = k
      BY <2>1, <2>2, <2>4, LowestHas
    <3>2. CASE a.ids = rows
      <4>1. PICK m \in rows : \A n \in rows : n <= m
        <5>1. rows # {}
          <6>1. Cardinality({}) = 0
            BY FS_EmptySet
          <6> QED BY <2>1, <2>3, <6>1
        <5> QED BY <2>2, <5>1, GreatestExists
      <4>2. Below(rows, m) = rows \ {m}
        <5>1. ASSUME NEW n \in rows, n # m  PROVE n < m
          <6>1. n <= m /\ n \in Nat /\ m \in Nat
            BY <2>2, <4>1
          <6> QED BY <5>1, <6>1
        <5>2. ~(m < m)
          <6>1. m \in Nat
            BY <2>2, <4>1
          <6> QED BY <6>1
        <5> QED BY <5>1, <5>2 DEF Below
      <4>3. Cardinality(rows \ {m}) = Cardinality(rows) - 1 /\ Cardinality(rows) \in Nat
        BY <2>2, <4>1, FS_RemoveElement, FS_CardinalityType
      <4>4. Cardinality(Below(rows, m)) < k
        BY <2>4, <3>2, <4>1 DEF Lowest, Below
      <4> QED BY <2>1, <2>3, <4>2, <4>3, <4>4
    <3> QED BY <3>1, <3>2
  <2>7. ASSUME NEW n \in a.ids, NEW o \in W \ a.ids  PROVE n < o
    <3>1. CASE o \in rows
      <4>1. n \in Lowest(rows, k) /\ o \in rows \ Lowest(rows, k)
        BY <2>4, <2>7, <3>1
      <4> QED BY <2>1, <2>2, <4>1, LowestIsLow
    <3>2. CASE o \notin rows
      BY <1>0, <2>1, <2>5, <3>2, LowestIsLow
    <3> QED BY <3>1, <3>2
  <2> QED BY <1>1, <1>7, <2>2, <2>5, <2>6, <2>7 DEF a, W
<1> QED BY <1>5, <1>6, <1>7

-----------------------------------------------------------------------------
(***************************************************************************)
(* What retrieve() answers, of a store that it leaves as it is.            *)
(***************************************************************************)
LEMMA LocatedWithoutSymbol ==
  ASSUME NEW p \in Planners, NEW q \in Queries, store' = store, answer' = Located(p, q, NoWord)
  PROVE  VerbsAreLastResort'
<1> DEFINE g == Grounded(p, q)
<1>1. answer'.symbol = g /\ answer'.planner = p /\ answer'.query = q
  BY DEF Located
<1>2. /\ Naming(p, q) = {} => g = NoWord
      /\ Naming(p, q) # {} => g \in Naming(p, q)
                              /\ \A w \in Naming(p, q) : Class(g) <= Class(w)
  BY GroundedIs
<1>3. NoWord \notin Naming(p, q)
  <2>1. \A w \in WordsOf(q) : w \in Words
    BY OfferedIs
  <2> QED BY <2>1, PlannerAssumption DEF Naming
<1> HIDE DEF g
<1>4. g = NoWord <=> Naming(p, q) = {}
  BY <1>2, <1>3
<1>5. ASSUME g \in Verbs \ Shaped, Naming(p, q) # {}  PROVE Naming(p, q) \subseteq Verbs \ Shaped
  <2> SUFFICES ASSUME NEW w \in Naming(p, q) PROVE w \in Verbs \ Shaped
    OBVIOUS
  <2>1. Class(g) = 3 /\ Class(g) <= Class(w)
    BY <1>2, <1>5 DEF Class
  <2> QED BY <2>1 DEF Class
<1>6. ASSUME NEW w \in Naming(p, q) \cap Shaped  PROVE g \in Shaped
  <2>1. Class(w) = 1 /\ Class(g) <= Class(w)
    BY <1>2 DEF Class
  <2> QED BY <2>1 DEF Class
<1>7. Naming(p, q) = {w \in WordsOf(q) \ Stopwords : NamedBy[w] \cap store'[p] # {}}
  BY DEF Naming, Names
<1> DEFINE N == {w \in ({Tokens[q][i] : i \in DOMAIN Tokens[q]}
                          \cup {BareTail[Tokens[q][i]] : i \in DOMAIN Tokens[q]}) \ Stopwords :
                    NamedBy[w] \cap store'[p] # {}}
<1>8. N = Naming(p, q)
  BY <1>7 DEF WordsOf
<1> HIDE DEF N
<1>9. /\ g = NoWord <=> N = {}
      /\ g \in Verbs \ Shaped => N \subseteq Verbs \ Shaped
      /\ N \cap Shaped # {} => g \in Shaped
  BY <1>4, <1>5, <1>6, <1>8
<1> QED BY <1>1, <1>9 DEF VerbsAreLastResort, N

LEMMA FilteredIsExact ==
  ASSUME StoreInv, NEW p \in Planners, NEW q \in Queries, NEW f, NEW k \in Ks,
         store' = store, answer' = Filtered(p, q, f, k)
  PROVE  CapIsNeverSilent'
<1> DEFINE a == Filtered(p, q, f, k)
           W == Where(p, f)
           M == {n \in store'[p] \ Files : \A key \in DOMAIN f \ a.dropped : Satisfies(p, n, key, f[key])'}
<1>1. a.planner = p /\ a.filters = f /\ a.k = k /\ a.dropped = DOMAIN f \ Usable(f)
  BY DEF Filtered
<1>2. Usable(f) \subseteq DOMAIN f /\ DOMAIN f \ a.dropped = Usable(f)
  BY <1>1 DEF Usable
<1>3. M = W
  <2>1. \A n, key : Satisfies(p, n, key, f[key])' <=> Satisfies(p, n, key, f[key])
    BY DEF Satisfies
  <2> QED BY <1>2, <2>1 DEF Where
<1>4. a.dropped = DOMAIN f <=> Usable(f) = {}
  BY <1>1, <1>2
<1>5. k \in Int
  BY PlannerAssumption
<1>6. /\ Usable(f) = {} => a.ids = {}
      /\ Usable(f) # {} /\ ~a.truncated => a.ids = W
      /\ Usable(f) # {} /\ a.truncated =>
            /\ a.ids \subseteq W /\ Cardinality(a.ids) = k
            /\ \A n \in a.ids, o \in W \ a.ids : n < o
  BY <1>5, FilterIsExact
<1>7. answer' = a
  OBVIOUS
<1> HIDE DEF a, W
<1>8. IF a.dropped = DOMAIN f THEN a.ids = {}
      ELSE IF a.truncated
      THEN a.ids \subseteq M /\ Cardinality(a.ids) = k /\ \A n \in a.ids, o \in M \ a.ids : n < o
      ELSE a.ids = M
  BY <1>3, <1>4, <1>6
<1> QED BY <1>1, <1>7, <1>8 DEF CapIsNeverSilent

-----------------------------------------------------------------------------
(***************************************************************************)
(* The invariant.                                                          *)
(***************************************************************************)
Entry == {[query |-> q, verdict |-> Parse(q, r)] : q \in Queries, r \in Replies}

(* A query is cached once, with what the client's last answer says.        *)
CacheInv ==
    /\ cache \in Seq(Entry) /\ said \in [Queries -> Replies]
    /\ \A i, j \in 1..Len(cache) : cache[i].query = cache[j].query => i = j
    /\ \A i \in 1..Len(cache) : cache[i].verdict = Parse(cache[i].query, said[cache[i].query])
    /\ MaxCache # 0 => Len(cache) <= MaxCache

AnswerInv ==
    /\ answer.intent \in Intents \cup {"none"}
    /\ LocatesWhatTheModelNamed /\ VerbsAreLastResort /\ CapIsNeverSilent

PInv == StoreInv /\ CacheInv /\ AnswerInv

LEMMA ParseIs ==
  ASSUME NEW q, NEW r
  PROVE  /\ Parse(q, r) = [intent |-> Parse(q, r).intent, symbol |-> Parse(q, r).symbol,
                           filters |-> Parse(q, r).filters]
         /\ Parse(q, r).intent \in Intents
         /\ Valid(r) => Parse(q, r).symbol = r.symbol
                        /\ (r.confidence >= 50 => Parse(q, r).intent = r.intent)
         /\ ~Valid(r) => Parse(q, r).symbol = NoWord
<1>1. CASE Valid(r)
  <2>1. r.confidence \in 0..100 /\ r.intent \in Intents
    BY <1>1 DEF Valid
  <2>2. r.confidence >= 50 => ~(r.confidence < 50)
    BY <2>1
  <2> QED BY <1>1, <2>1, <2>2 DEF Parse, Intents
<1>2. CASE ~Valid(r)
  BY <1>2 DEF Parse, Classify, Intents
<1> QED BY <1>1, <1>2

LEMMA EntryIs ==
  ASSUME CacheInv, NEW i \in 1..Len(cache)
  PROVE  cache[i] \in Entry /\ cache[i].query \in Queries /\ cache[i].verdict.intent \in Intents
<1>1. cache[i] \in Entry
  BY DEF CacheInv
<1>2. PICK q \in Queries, r \in Replies : cache[i] = [query |-> q, verdict |-> Parse(q, r)]
  BY <1>1 DEF Entry
<1> QED BY <1>1, <1>2, ParseIs

(* A verdict out of the cache is the client's last.                        *)
LEMMA CachedIsSaid ==
  ASSUME CacheInv, NEW q \in Queries, IsCached(q)
  PROVE  VerdictOf(q) = Parse(q, said[q])
<1>1. DOMAIN cache = 1..Len(cache)
  BY DEF CacheInv
<1> DEFINE i == CHOOSE x \in DOMAIN cache : cache[x].query = q
<1>2. i \in 1..Len(cache) /\ cache[i].query = q
  BY <1>1 DEF IsCached
<1>3. VerdictOf(q) = cache[i].verdict
  BY DEF VerdictOf
<1> HIDE DEF i
<1> QED BY <1>2, <1>3 DEF CacheInv

(* Remembering a new one keeps the cache.                                  *)
LEMMA RememberKeeps ==
  ASSUME CacheInv, NEW q \in Queries, NEW r \in Replies, ~IsCached(q),
         said' = [said EXCEPT ![q] = r], cache' = Remember(q, Parse(q, r))
  PROVE  CacheInv'
<1> DEFINE n == Len(cache)
           e == [query |-> q, verdict |-> Parse(q, r)]
           all == Append(cache, e)
<1>1. cache \in Seq(Entry) /\ n \in Nat /\ DOMAIN cache = 1..n /\ e \in Entry
      /\ MaxCache \in Nat /\ e.query = q /\ e.verdict = Parse(q, r)
  BY PlannerAssumption DEF CacheInv, Entry
<1>2. \A i \in 1..n : cache[i].query # q /\ cache[i].query \in Queries
  BY <1>1, EntryIs DEF IsCached
<1> HIDE DEF e
<1>3. /\ all \in Seq(Entry) /\ Len(all) = n + 1 /\ all[n + 1] = e
      /\ \A i \in 1..n : all[i] = cache[i]
  BY <1>1
<1>4. cache' = IF MaxCache # 0 /\ Len(all) > MaxCache THEN Tail(all) ELSE all
  BY DEF Remember, e
<1> HIDE DEF all
<1>5. said' \in [Queries -> Replies] /\ said'[q] = r
      /\ \A x \in Queries \ {q} : said'[x] = said[x]
  BY DEF CacheInv
<1>6. \A i \in 1..(n + 1) : i \in 1..n \/ i = n + 1
  BY <1>1
<1>7. \A i, j \in 1..(n + 1) : all[i].query = all[j].query => i = j
  BY <1>1, <1>2, <1>3, <1>6 DEF CacheInv
<1>8. \A i \in 1..(n + 1) : all[i].verdict = Parse(all[i].query, said'[all[i].query])
  <2>1. ASSUME NEW i \in 1..n  PROVE all[i].verdict = Parse(all[i].query, said'[all[i].query])
    BY <1>2, <1>3, <1>5 DEF CacheInv
  <2>2. all[n + 1].verdict = Parse(all[n + 1].query, said'[all[n + 1].query])
    BY <1>1, <1>3, <1>5
  <2> QED BY <1>6, <2>1, <2>2
<1>9. CASE MaxCache # 0 /\ Len(all) > MaxCache
  <2>1. cache' = Tail(all)
    BY <1>4, <1>9
  <2>2. cache' \in Seq(Entry) /\ Len(cache') = n /\ \A i \in 1..n : cache'[i] = all[i + 1]
    BY <1>1, <1>3, <2>1
  <2>3. \A i \in 1..n : i + 1 \in 1..(n + 1) /\ i \in Int
    BY <1>1
  <2>4. n <= MaxCache
    BY <1>9 DEF CacheInv
  <2>5. ASSUME NEW i \in 1..n, NEW j \in 1..n, cache'[i].query = cache'[j].query  PROVE i = j
    <3>1. i + 1 = j + 1
      BY <1>7, <2>2, <2>3, <2>5
    <3> QED BY <2>3, <3>1
  <2>6. ASSUME NEW i \in 1..n  PROVE cache'[i].verdict = Parse(cache'[i].query, said'[cache'[i].query])
    BY <1>8, <2>2, <2>3
  <2> QED BY <1>5, <2>2, <2>4, <2>5, <2>6 DEF CacheInv
<1>10. CASE ~(MaxCache # 0 /\ Len(all) > MaxCache)
  <2>1. cache' = all /\ (MaxCache # 0 => Len(all) <= MaxCache)
    BY <1>1, <1>3, <1>4, <1>10
  <2> QED BY <1>3, <1>5, <1>7, <1>8, <2>1 DEF CacheInv
<1> QED BY <1>9, <1>10

LEMMA ConsultKeepsCache ==
  ASSUME CacheInv, NEW p \in Planners, NEW q \in Queries, NEW r \in Replies,
         NEW raises \in BOOLEAN, NEW k \in Ks, Consult(p, q, r, raises, k)
  PROVE  /\ CacheInv'
         /\ answer' = Routed(p, q, Guarded(Parse(q, said'[q]), raises), k)
<1>1. CASE IsCached(q)
  <2>1. UNCHANGED <<said, cache>> /\ answer' = Routed(p, q, Guarded(VerdictOf(q), raises), k)
    BY <1>1 DEF Consult
  <2>2. CacheInv'
    BY <2>1 DEF CacheInv
  <2> QED BY <1>1, <2>1, <2>2, CachedIsSaid
<1>2. CASE ~IsCached(q)
  <2>1. /\ said' = [said EXCEPT ![q] = r] /\ cache' = Remember(q, Parse(q, r))
        /\ answer' = Routed(p, q, Guarded(Parse(q, r), raises), k)
    BY <1>2 DEF Consult
  <2>2. CacheInv'
    BY <1>2, <2>1, RememberKeeps
  <2>3. said'[q] = r
    BY <2>1 DEF CacheInv
  <2> QED BY <2>1, <2>2, <2>3
<1> QED BY <1>1, <1>2

(* The guard lets a verdict be, or explains.                               *)
LEMMA GuardedIs ==
  ASSUME NEW q, NEW r, NEW raises \in BOOLEAN
  PROVE  LET v == Parse(q, r)
             g == Guarded(v, raises)
         IN  /\ g.intent \in {v.intent, "EXPLAIN"}
             /\ g.symbol = v.symbol /\ g.filters = v.filters
             /\ v.intent = "LOCATE" /\ v.symbol # NoWord /\ Guard # NoWord
                   /\ SymbolExists(Guard, v.symbol) => g.intent = "LOCATE"
             /\ Guard = NoWord => g.intent = v.intent
<1> DEFINE v == Parse(q, r)
<1>1. v = [intent |-> v.intent, symbol |-> v.symbol, filters |-> v.filters]
  BY ParseIs
<1> HIDE DEF v
<1>2. Downgraded(v) = [intent |-> "EXPLAIN", symbol |-> v.symbol, filters |-> v.filters]
  BY <1>1 DEF Downgraded
<1>3. /\ Guarded(v, raises).intent \in {v.intent, "EXPLAIN"}
      /\ Guarded(v, raises).symbol = v.symbol /\ Guarded(v, raises).filters = v.filters
      /\ v.intent = "LOCATE" /\ v.symbol # NoWord /\ Guard # NoWord
            /\ SymbolExists(Guard, v.symbol) => Guarded(v, raises).intent = "LOCATE"
      /\ Guard = NoWord => Guarded(v, raises).intent = v.intent
  BY <1>2 DEF Guarded
<1> QED BY <1>3 DEF v

LEMMA LocatedIs ==
  ASSUME NEW p, NEW q, NEW w
  PROVE  /\ Located(p, q, w).intent = "LOCATE" /\ Located(p, q, w).planner = p
         /\ Located(p, q, w).query = q
         /\ w # NoWord /\ SymbolExists(p, w) => Located(p, q, w).symbol = w
  BY DEF Located, SymbolExists, Names

LEMMA ExplainedIs ==
  ASSUME NEW p, NEW q
  PROVE  /\ Explained(p, q).intent = "EXPLAIN"
         /\ Explained(p, q).planner = p /\ Explained(p, q).query = q
  BY DEF Explained

LEMMA FilteredIs ==
  ASSUME NEW p, NEW q, NEW f, NEW k
  PROVE  /\ Filtered(p, q, f, k).intent = "FILTER"
         /\ Filtered(p, q, f, k).planner = p /\ Filtered(p, q, f, k).query = q
  BY DEF Filtered

(* What retrieve() may return: the three routes, of the verdict v.         *)
LEMMA RoutedIs ==
  ASSUME NEW p, NEW q, NEW v, NEW k, v.intent \in Intents
  PROVE  \/ /\ v.intent = "LOCATE" /\ Routed(p, q, v, k) = Located(p, q, v.symbol)
            /\ v.symbol # NoWord => SymbolExists(p, v.symbol)
         \/ /\ v.intent = "LOCATE" /\ Routed(p, q, v, k) = Explained(p, q)
            /\ v.symbol # NoWord /\ ~SymbolExists(p, v.symbol)
         \/ v.intent = "FILTER" /\ Routed(p, q, v, k) = Filtered(p, q, v.filters, k)
         \/ v.intent = "EXPLAIN" /\ Routed(p, q, v, k) = Explained(p, q)
  BY DEF Routed, Intents

LEMMA RetrieveKeeps ==
  ASSUME PInv, NEW p \in Planners, NEW q \in Queries, NEW r \in Replies,
         NEW raises \in BOOLEAN, NEW k \in Ks, Retrieve(p, q, r, raises, k)
  PROVE  PInv'
<1> DEFINE s == said'[q]
           v == Parse(q, s)
           g == Guarded(v, raises)
<1>1. store' = store /\ p \notin Plain /\ CacheInv' /\ answer' = Routed(p, q, g, k)
  BY ConsultKeepsCache DEF Retrieve, PInv
<1>2. StoreInv' /\ StoreInv
  BY <1>1 DEF PInv, StoreInv
<1>3. /\ v.intent \in Intents
      /\ Valid(s) => v.symbol = s.symbol /\ (s.confidence >= 50 => v.intent = s.intent)
      /\ ~Valid(s) => v.symbol = NoWord
  BY ParseIs
<1>4. /\ g.intent \in {v.intent, "EXPLAIN"} /\ g.symbol = v.symbol
      /\ v.intent = "LOCATE" /\ v.symbol # NoWord /\ Guard # NoWord
            /\ SymbolExists(Guard, v.symbol) => g.intent = "LOCATE"
      /\ Guard = NoWord => g.intent = v.intent
  BY GuardedIs
<1>5. g.intent \in Intents
  BY <1>3, <1>4 DEF Intents
<1> HIDE DEF g
<1>6. \/ /\ g.intent = "LOCATE" /\ answer' = Located(p, q, g.symbol)
         /\ g.symbol # NoWord => SymbolExists(p, g.symbol)
      \/ /\ g.intent = "LOCATE" /\ answer' = Explained(p, q)
         /\ g.symbol # NoWord /\ ~SymbolExists(p, g.symbol)
      \/ g.intent = "FILTER" /\ answer' = Filtered(p, q, g.filters, k)
      \/ g.intent = "EXPLAIN" /\ answer' = Explained(p, q)
  BY <1>1, <1>5, RoutedIs
<1> HIDE DEF v
<1>7. answer'.intent \in Intents /\ answer'.planner = p /\ answer'.query = q
  BY <1>6, LocatedIs, ExplainedIs, FilteredIs DEF Intents
<1>8. VerbsAreLastResort'
  <2>1. SUFFICES ASSUME answer'.intent = "LOCATE", ~Valid(s)  PROVE VerbsAreLastResort'
    BY <1>1, <1>7 DEF VerbsAreLastResort
  <2>2. answer' = Located(p, q, g.symbol)
    BY <1>6, <2>1, ExplainedIs, FilteredIs
  <2>3. g.symbol = NoWord
    BY <1>3, <1>4, <2>1
  <2> QED BY <1>1, <2>2, <2>3, LocatedWithoutSymbol
<1>9. CapIsNeverSilent'
  <2>1. CASE answer'.intent = "FILTER"
    <3>1. answer' = Filtered(p, q, g.filters, k)
      BY <1>6, <2>1, LocatedIs, ExplainedIs
    <3> QED BY <1>1, <1>2, <3>1, FilteredIsExact
  <2>2. CASE answer'.intent # "FILTER"
    BY <2>2 DEF CapIsNeverSilent
  <2> QED BY <2>1, <2>2
<1>10. LocatesWhatTheModelNamed'
  <2> SUFFICES ASSUME Guard \in {p, NoWord}, Valid(s), s.intent = "LOCATE",
                      s.confidence >= 50, s.symbol # NoWord
               PROVE  IF (NamedBy[s.symbol] \cap store'[p]) \ Files # {}
                      THEN answer'.intent = "LOCATE" /\ answer'.symbol = s.symbol
                      ELSE answer'.intent = "EXPLAIN"
    BY <1>7 DEF LocatesWhatTheModelNamed, Answered
  <2>1. v.intent = "LOCATE" /\ v.symbol = s.symbol /\ g.symbol = s.symbol
    BY <1>3, <1>4
  <2>2. SymbolExists(p, s.symbol) <=> (NamedBy[s.symbol] \cap store'[p]) \ Files # {}
    BY <1>1 DEF SymbolExists
  <2>3. CASE SymbolExists(p, s.symbol)
    <3>1. g.intent = "LOCATE"
      BY <1>4, <2>1, <2>3
    <3>2. answer' = Located(p, q, s.symbol)
      BY <1>6, <2>1, <2>3, <3>1
    <3> QED BY <2>2, <2>3, <3>2, LocatedIs
  <2>4. CASE ~SymbolExists(p, s.symbol)
    <3>1. answer' = Explained(p, q)
      BY <1>4, <1>6, <2>1, <2>4
    <3> QED BY <2>2, <2>4, <3>1, ExplainedIs
  <2> QED BY <2>3, <2>4
<1> QED BY <1>1, <1>2, <1>7, <1>8, <1>9, <1>10 DEF PInv, AnswerInv

LEMMA RetrievePlainKeeps ==
  ASSUME PInv, NEW p \in Planners, NEW q \in Queries, RetrievePlain(p, q)
  PROVE  PInv'
<1>1. /\ p \in Plain /\ UNCHANGED <<store, cache, said>>
      /\ answer' = Located(p, q, NoWord) \/ answer' = Explained(p, q)
  BY DEF RetrievePlain
<1>2. StoreInv' /\ CacheInv'
  BY <1>1 DEF PInv, StoreInv, CacheInv
<1>3. answer'.intent \in {"LOCATE", "EXPLAIN"} /\ answer'.planner = p
  BY <1>1, LocatedIs, ExplainedIs
<1>4. LocatesWhatTheModelNamed' /\ CapIsNeverSilent'
  BY <1>1, <1>3 DEF LocatesWhatTheModelNamed, Answered, CapIsNeverSilent
<1>5. VerbsAreLastResort'
  <2>1. CASE answer' = Located(p, q, NoWord)
    BY <1>1, <2>1, LocatedWithoutSymbol
  <2>2. CASE answer' = Explained(p, q)
    BY <2>2, ExplainedIs DEF VerbsAreLastResort
  <2> QED BY <1>1, <2>1, <2>2
<1> QED BY <1>2, <1>3, <1>4, <1>5 DEF PInv, AnswerInv, Intents

(* No answer makes no promise.                                             *)
LEMMA NoAnswerKeeps ==
  ASSUME answer = NoAnswer
  PROVE  AnswerInv
  BY DEF NoAnswer, AnswerInv, LocatesWhatTheModelNamed, Answered, VerbsAreLastResort, CapIsNeverSilent

LEMMA ReindexKeeps ==
  ASSUME PInv, NEW p \in Planners, NEW n \in Nodes, Reindex(p, n)
  PROVE  PInv'
<1>1. answer' = NoAnswer /\ UNCHANGED <<cache, said>>
      /\ store' = [store EXCEPT ![p] = IF n \in @ THEN @ \ {n} ELSE @ \cup {n}]
  BY DEF Reindex
<1>2. StoreInv'
  BY <1>1 DEF PInv, StoreInv
<1>3. CacheInv'
  BY <1>1 DEF PInv, CacheInv
<1>4. AnswerInv'
  BY <1>1 DEF NoAnswer, AnswerInv, LocatesWhatTheModelNamed, Answered, VerbsAreLastResort, CapIsNeverSilent
<1> QED BY <1>2, <1>3, <1>4 DEF PInv

LEMMA InitPInv == Init => PInv
<1> SUFFICES ASSUME Init PROVE PInv
  OBVIOUS
<1>1. StoreInv /\ CacheInv
  BY PlannerAssumption DEF Init, StoreInv, CacheInv
<1>2. AnswerInv
  BY NoAnswerKeeps DEF Init
<1> QED BY <1>1, <1>2 DEF PInv

LEMMA NextPInv == PInv /\ [Next]_vars => PInv'
<1> SUFFICES ASSUME PInv, [Next]_vars PROVE PInv'
  OBVIOUS
<1>1. CASE UNCHANGED vars
  <2>1. UNCHANGED <<store, cache, said, answer>>
    BY <1>1 DEF vars
  <2>2. StoreInv' /\ CacheInv'
    BY <2>1 DEF PInv, StoreInv, CacheInv
  <2>3. LocatesWhatTheModelNamed' /\ VerbsAreLastResort'
    BY <2>1 DEF PInv, AnswerInv, LocatesWhatTheModelNamed, Answered, VerbsAreLastResort
  <2>4. CapIsNeverSilent'
    <3>1. \A p, n, key, value : Satisfies(p, n, key, value)' = Satisfies(p, n, key, value)
      BY <2>1 DEF Satisfies
    <3> DEFINE M == {n \in store[answer.planner] \ Files :
                       \A key \in DOMAIN answer.filters \ answer.dropped :
                          Satisfies(answer.planner, n, key, answer.filters[key])}
    <3>2. M' = M
      BY <2>1, <3>1
    <3>3. CapIsNeverSilent <=>
            (answer.intent = "FILTER" =>
               IF answer.dropped = DOMAIN answer.filters THEN answer.ids = {}
               ELSE IF answer.truncated
               THEN /\ answer.ids \subseteq M /\ Cardinality(answer.ids) = answer.k
                    /\ \A n \in answer.ids, o \in M \ answer.ids : n < o
               ELSE answer.ids = M)
      BY DEF CapIsNeverSilent
    <3>4. CapIsNeverSilent' <=>
            (answer'.intent = "FILTER" =>
               IF answer'.dropped = DOMAIN answer'.filters THEN answer'.ids = {}
               ELSE IF answer'.truncated
               THEN /\ answer'.ids \subseteq M' /\ Cardinality(answer'.ids) = answer'.k
                    /\ \A n \in answer'.ids, o \in M' \ answer'.ids : n < o
               ELSE answer'.ids = M')
      BY DEF CapIsNeverSilent
    <3> HIDE DEF M
    <3> QED BY <2>1, <3>2, <3>3, <3>4 DEF PInv, AnswerInv
  <2> QED BY <2>1, <2>2, <2>3, <2>4 DEF PInv, AnswerInv
<1>2. CASE Next
  BY <1>2, RetrieveKeeps, RetrievePlainKeeps, ReindexKeeps DEF Next
<1> QED BY <1>1, <1>2

LEMMA AlwaysPInv == Spec => []PInv
  BY InitPInv, NextPInv, PTL DEF Spec

(* The variables have their types; a query is cached once, and never more  *)
(* than max_cache are (planner.py:140-146).                                *)
THEOREM TypeCorrect == Spec => []TypeOK
<1>1. PInv => TypeOK
  <2> SUFFICES ASSUME PInv PROVE TypeOK
    OBVIOUS
  <2>1. DOMAIN cache = 1..Len(cache)
    BY DEF PInv, CacheInv
  <2>2. \A i \in DOMAIN cache : cache[i].query \in Queries /\ cache[i].verdict.intent \in Intents
    BY <2>1, EntryIs DEF PInv
  <2> QED BY <2>1, <2>2 DEF TypeOK, PInv, StoreInv, CacheInv, AnswerInv
<1> QED BY <1>1, AlwaysPInv, PTL

(* A confident LOCATE of a symbol locates it where the planner's store has *)
(* it now, and explains where it has not, however old the cached verdict   *)
(* and whatever other planners share the classifier (planner.py:101-107,   *)
(* 136-155 and 219-232).                                                   *)
THEOREM VerdictIsNeverStale == Spec => []LocatesWhatTheModelNamed
<1>1. PInv => LocatesWhatTheModelNamed
  BY DEF PInv, AnswerInv
<1> QED BY <1>1, AlwaysPInv, PTL

(* A query is grounded on the best class of its words that name a node: a  *)
(* verb only where nothing better does (planner.py:348-370), whatever the  *)
(* words and their lengths.                                                *)
THEOREM VerbsComeLast == Spec => []VerbsAreLastResort
<1>1. PInv => VerbsAreLastResort
  BY DEF PInv, AnswerInv
<1> QED BY <1>1, AlwaysPInv, PTL

(* FILTER lists all that match, or says that it cut and lists the k lowest *)
(* uids of more than k (planner.py:308-334), whatever k and the filter.    *)
THEOREM FilterTellsItsCap == Spec => []CapIsNeverSilent
<1>1. PInv => CapIsNeverSilent
  BY DEF PInv, AnswerInv
<1> QED BY <1>1, AlwaysPInv, PTL
=============================================================================
