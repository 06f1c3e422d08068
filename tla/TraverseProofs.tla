--------------------------- MODULE TraverseProofs ---------------------------
(***************************************************************************)
(* Reachability for any graph, any seeds and any bound on the depth: the   *)
(* recursive query of traverse() returns the nodes that walks reach, at    *)
(* the length of a shortest one, and shortest_path() loses nothing by      *)
(* searching the subgraph those nodes induce.                              *)
(*                                                                         *)
(* The invariant is that of any worklist: a row stands for a walk of its   *)
(* depth, the seeds have rows, and what an extracted row leads to has a    *)
(* row.  When the queue is empty, the rows are closed under the edges, and *)
(* a walk that left them would have a first node outside.                  *)
(***************************************************************************)
EXTENDS Traverse, FiniteSetTheorems, WellFoundedInduction, TLAPS

-----------------------------------------------------------------------------
(* A non-empty set of naturals has a least element. *)
LEMMA LeastExists ==
  ASSUME NEW S \in SUBSET Nat, S # {}
  PROVE  \E x \in S : \A y \in S : x <= y
<1> DEFINE Lt == {ss \in Nat \X Nat : ss[1] < ss[2]}
<1>1. IsWellFoundedOn(Lt, Nat)
  BY NatLessThanWellFounded, Zenon DEF OpToRel
<1> HIDE DEF Lt
<1>2. PICK x \in S : \A y \in S : ~ (<<y, x>> \in Lt)
  BY <1>1, WFMin
<1>3. ASSUME NEW y \in S
      PROVE  x <= y
  <2>1. ~ (<<y, x>> \in Lt)
    BY <1>2
  <2> QED BY <2>1 DEF Lt
<1> QED BY <1>3

LEMMA MinNat ==
  ASSUME NEW S \in SUBSET Nat, S # {}
  PROVE  Min(S) \in S /\ \A y \in S : Min(S) <= y
BY LeastExists, Zenon DEF Min

LEMMA MinIs ==
  ASSUME NEW S \in SUBSET Nat, NEW m \in S, \A y \in S : m <= y
  PROVE  Min(S) = m
<1> DEFINE x == Min(S)
<1>1. x \in S /\ x <= m /\ m <= x
  BY MinNat
<1> HIDE DEF x
<1>2. x \in Nat /\ m \in Nat
  BY <1>1
<1>3. x = m
  BY <1>1, <1>2
<1> QED BY <1>3 DEF x

-----------------------------------------------------------------------------
(* One hop, as the branches of the query and as a walk take it. *)
Hop(E, direction, m, n) ==
    \E e \in E : \/ direction # "in" /\ e.src = m /\ e.dst = n
                 \/ direction # "out" /\ e.dst = m /\ e.src = n

LEMMA BranchHops ==
  ASSUME NEW E, NEW direction \in Directions, NEW m
  PROVE  \A n : n \in Branch(E, direction, m) <=> Hop(E, direction, m, n)
<1> DEFINE Out == UNION {IF direction \in {"out", "both"} /\ e.src = m THEN {e.dst} ELSE {} : e \in E}
           In == UNION {IF direction \in {"in", "both"} /\ e.dst = m THEN {e.src} ELSE {} : e \in E}
<1>1. Branch(E, direction, m) = Out \cup In
  BY DEF Branch
<1>2. \A n : (n \in Out) <=> (\E e \in E : direction # "in" /\ e.src = m /\ e.dst = n)
  BY DEF Directions
<1>3. \A n : (n \in In) <=> (\E e \in E : direction # "out" /\ e.dst = m /\ e.src = n)
  BY DEF Directions
<1> HIDE DEF Out, In
<1>4. ASSUME NEW n
      PROVE  (n \in Branch(E, direction, m)) <=> Hop(E, direction, m, n)
  <2>1. (n \in Branch(E, direction, m)) <=> (n \in Out) \/ (n \in In)
    BY <1>1
  <2> QED BY <1>2, <1>3, <2>1 DEF Hop
<1> QED BY <1>4

LEMMA WalkDef ==
  ASSUME NEW E, NEW direction, NEW a, NEW b, NEW d, NEW w
  PROVE  w \in Walks(E, direction, a, b, d) <=>
            /\ w \in [0..d -> Nodes] /\ w[0] = a /\ w[d] = b
            /\ \A i \in 1..d : Hop(E, direction, w[i - 1], w[i])
BY DEF Walks, Hop

LEMMA EmptyWalk ==
  ASSUME NEW E, NEW direction, NEW a \in Nodes
  PROVE  Walks(E, direction, a, a, 0) # {}
<1> DEFINE w == [i \in 0..0 |-> a]
<1>1. w \in [0..0 -> Nodes] /\ w[0] = a /\ 1..0 = {}
  OBVIOUS
<1> HIDE DEF w
<1>2. w \in Walks(E, direction, a, a, 0)
  BY <1>1, WalkDef
<1> QED BY <1>2

LEMMA LongerWalk ==
  ASSUME NEW E, NEW direction, NEW a, NEW b, NEW d \in Nat, Walks(E, direction, a, b, d) # {},
         NEW n \in Nodes, Hop(E, direction, b, n)
  PROVE  Walks(E, direction, a, n, d + 1) # {}
<1>1. PICK w : w \in Walks(E, direction, a, b, d)
  OBVIOUS
<1>2. w \in [0..d -> Nodes] /\ w[0] = a /\ w[d] = b /\ \A i \in 1..d : Hop(E, direction, w[i - 1], w[i])
  BY <1>1, WalkDef
<1> DEFINE x == [i \in 0..(d + 1) |-> IF i <= d THEN w[i] ELSE n]
<1>3. x \in [0..(d + 1) -> Nodes] /\ x[0] = a /\ x[d] = b /\ x[d + 1] = n
  <2>1. \A i \in 0..(d + 1) : i <= d => i \in 0..d
    OBVIOUS
  <2>2. \A i \in 0..(d + 1) : (IF i <= d THEN w[i] ELSE n) \in Nodes
    BY <1>2, <2>1
  <2>3. 0 \in 0..(d + 1) /\ d \in 0..(d + 1) /\ d + 1 \in 0..(d + 1) /\ 0 <= d /\ ~(d + 1 <= d)
    OBVIOUS
  <2> QED BY <1>2, <2>2, <2>3
<1>4. ASSUME NEW i \in 1..(d + 1)
      PROVE  Hop(E, direction, x[i - 1], x[i])
  <2>1. CASE i <= d
    <3>1. x[i - 1] = w[i - 1] /\ x[i] = w[i] /\ i \in 1..d
      BY <2>1
    <3> QED BY <1>2, <3>1
  <2>2. CASE i = d + 1
    <3>1. x[i - 1] = b /\ x[i] = n
      BY <1>2, <2>2
    <3> QED BY <3>1
  <2> QED BY <2>1, <2>2
<1> DEFINE k == d + 1
<1>5. x \in [0..k -> Nodes] /\ x[0] = a /\ x[k] = n
  BY <1>3
<1>6. \A i \in 1..k : Hop(E, direction, x[i - 1], x[i])
  BY <1>4
<1>7. Walks(E, direction, a, n, k) # {}
  <2> HIDE DEF x, k
  <2> QED BY <1>5, <1>6, WalkDef
<1> QED BY <1>7

(* The beginning of a walk is a walk. *)
LEMMA WalkPrefix ==
  ASSUME NEW E, NEW direction, NEW a, NEW b, NEW d \in Nat,
         NEW w \in Walks(E, direction, a, b, d), NEW i \in 0..d
  PROVE  Walks(E, direction, a, w[i], i) # {}
<1>1. w \in [0..d -> Nodes] /\ w[0] = a /\ \A k \in 1..d : Hop(E, direction, w[k - 1], w[k])
  BY WalkDef
<1> DEFINE x == [k \in 0..i |-> w[k]]
<1>2. x \in [0..i -> Nodes] /\ x[0] = a /\ x[i] = w[i]
  BY <1>1
<1>3. ASSUME NEW k \in 1..i
      PROVE  Hop(E, direction, x[k - 1], x[k])
  <2>1. x[k - 1] = w[k - 1] /\ x[k] = w[k] /\ k \in 1..d
    OBVIOUS
  <2> QED BY <1>1, <2>1
<1> HIDE DEF x
<1>4. x \in Walks(E, direction, a, w[i], i)
  BY <1>2, <1>3, WalkDef
<1> QED BY <1>4

-----------------------------------------------------------------------------
Used == {e \in edges : Counts(e, call.relations)}

NoCall == [seeds |-> {}, depth |-> 0, direction |-> "both", relations |-> {}]

(* The worklist. *)
Worklist ==
    /\ \A r \in reach : \E s \in call.seeds \cap Nodes :
          Walks(Used, call.direction, s, r.id, r.depth) # {}
    /\ pc # "idle" => SeedRows(call.seeds) \subseteq reach
    /\ \A r \in reach \ queue : Expand(r) \subseteq reach
    /\ pc = "done" => queue = {}

TInv == TypeOK /\ Worklist

LEMMA CallTyped ==
  ASSUME TypeOK
  PROVE  /\ call.depth \in Nat /\ call.direction \in Directions /\ call.seeds \subseteq Ids
         /\ Used \subseteq Pool
<1>1. NoCall.depth \in Nat /\ NoCall.direction \in Directions /\ NoCall.seeds \subseteq Ids
  BY DEF NoCall, Directions
<1>2. \A c \in Call : c.depth \in Nat /\ c.direction \in Directions /\ c.seeds \subseteq Ids
  BY TraverseAssumption DEF Call
<1>3. call \in Call \/ call = NoCall
  BY DEF TypeOK, NoCall
<1> QED BY <1>1, <1>2, <1>3 DEF TypeOK, Used

LEMMA ExpandIs ==
  ASSUME TypeOK, NEW row \in reach
  PROVE  /\ row.depth < call.depth =>
               \A n : Hop(Used, call.direction, row.id, n) =>
                   [id |-> n, depth |-> row.depth + 1] \in Expand(row)
         /\ \A r \in Expand(row) : /\ r \in Row /\ r.id \in Nodes
                                   /\ r.depth = row.depth + 1 /\ r.depth <= call.depth
                                   /\ Hop(Used, call.direction, row.id, r.id)
<1> DEFINE B == Branch(Used, call.direction, row.id)
<1>0. call.depth \in Nat /\ call.direction \in Directions /\ Used \subseteq Pool /\ row.depth \in Nat
  BY CallTyped DEF TypeOK, Row
<1>1. \A n : n \in B <=> Hop(Used, call.direction, row.id, n)
  BY <1>0, BranchHops
<1>2. \A n \in B : n \in Nodes
  BY <1>0, <1>1, TraverseAssumption DEF Hop
<1>3. Expand(row) = IF row.depth < call.depth
                    THEN {[id |-> n, depth |-> row.depth + 1] : n \in B} ELSE {}
  BY DEF Expand, Used
<1> HIDE DEF B
<1>4. ASSUME row.depth < call.depth, NEW n, Hop(Used, call.direction, row.id, n)
      PROVE  [id |-> n, depth |-> row.depth + 1] \in Expand(row)
  BY <1>1, <1>3, <1>4
<1>5. ASSUME NEW r \in Expand(row)
      PROVE  /\ r \in Row /\ r.id \in Nodes
             /\ r.depth = row.depth + 1 /\ r.depth <= call.depth
             /\ Hop(Used, call.direction, row.id, r.id)
  <2>1. row.depth < call.depth
    BY <1>3
  <2>2. PICK n \in B : r = [id |-> n, depth |-> row.depth + 1]
    BY <1>3, <2>1
  <2> QED BY <1>0, <1>1, <1>2, <2>1, <2>2, TraverseAssumption DEF Row
<1> QED BY <1>4, <1>5

LEMMA InitTInv == Init => TInv
<1> SUFFICES ASSUME Init PROVE TInv
  OBVIOUS
<1>1. TypeOK
  BY DEF Init, TypeOK
<1> QED BY <1>1 DEF Init, TInv, Worklist

LEMMA TraverseStep ==
  ASSUME TInv, NEW c \in Call, Traverse(c)
  PROVE  TInv'
<1> DEFINE S == SeedRows(c.seeds)
<1>1. /\ pc' = "reach" /\ call' = c /\ queue' = S /\ reach' = S /\ edges' = edges
  BY DEF Traverse
<1>2. c.depth \in Nat /\ c.seeds \subseteq Ids
  BY TraverseAssumption DEF Call
<1>3. \A r \in S : r \in Row /\ r.depth = 0 /\ r.id \in c.seeds \cap Nodes
  BY <1>2, TraverseAssumption DEF SeedRows, Row
<1> HIDE DEF S
<1>4. TypeOK'
  BY <1>1, <1>2, <1>3 DEF TInv, TypeOK
<1>5. \A r \in S : Walks(Used', c.direction, r.id, r.id, 0) # {}
  BY <1>3, EmptyWalk
<1> QED BY <1>1, <1>3, <1>4, <1>5 DEF TInv, Worklist, S

LEMMA ExtractStep ==
  ASSUME TInv, NEW row \in queue, Extract(row)
  PROVE  TInv'
<1>1. /\ pc = "reach" /\ pc' = "reach" /\ call' = call /\ edges' = edges
      /\ queue' = (queue \ {row}) \cup (Expand(row) \ reach)
      /\ reach' = reach \cup Expand(row)
  BY DEF Extract
<1>2. TypeOK /\ Worklist /\ row \in reach /\ Used' = Used /\ row.depth \in Nat
  BY <1>1 DEF TInv, TypeOK, Used, Row
<1>3. \A r \in Expand(row) : /\ r \in Row /\ r.id \in Nodes
                             /\ r.depth = row.depth + 1 /\ r.depth <= call.depth
                             /\ Hop(Used, call.direction, row.id, r.id)
  BY <1>2, ExpandIs
<1>4. TypeOK'
  BY <1>1, <1>2, <1>3 DEF TypeOK
<1>5. ASSUME NEW r \in Expand(row)
      PROVE  \E s \in call.seeds \cap Nodes : Walks(Used, call.direction, s, r.id, r.depth) # {}
  <2>1. PICK s \in call.seeds \cap Nodes : Walks(Used, call.direction, s, row.id, row.depth) # {}
    BY <1>2 DEF Worklist
  <2>2. Walks(Used, call.direction, s, r.id, row.depth + 1) # {}
    BY <1>2, <1>3, <2>1, LongerWalk
  <2> QED BY <1>3, <2>2
<1>6. \A r : Expand(r)' = Expand(r)
  BY <1>1 DEF Expand
<1>7. \A r \in reach' \ queue' : r = row \/ r \in reach \ queue
  BY <1>1
<1>8. \A r \in reach' \ queue' : Expand(r)' \subseteq reach'
  BY <1>1, <1>2, <1>6, <1>7 DEF Worklist
<1>9. SeedRows(call.seeds)' \subseteq reach'
  BY <1>1, <1>2 DEF Worklist, SeedRows
<1> QED BY <1>1, <1>2, <1>4, <1>5, <1>8, <1>9 DEF TInv, Worklist

LEMMA NextTInv == TInv /\ [Next]_vars => TInv'
<1> SUFFICES ASSUME TInv, [Next]_vars PROVE TInv'
  OBVIOUS
<1>1. ASSUME UNCHANGED <<edges, call, queue, reach>>, 
             pc' = pc \/ (pc = "reach" /\ pc' = "done" /\ queue = {})
      PROVE  TInv'
  <2>1. TypeOK'
    BY <1>1 DEF TInv, TypeOK, Call
  <2>2. Used' = Used /\ \A r : Expand(r)' = Expand(r)
    BY <1>1 DEF Used, Expand
  <2> QED BY <1>1, <2>1, <2>2 DEF TInv, Worklist, SeedRows
<1>2. CASE Return
  BY <1>1, <1>2 DEF Return
<1>3. CASE UNCHANGED vars
  BY <1>1, <1>3 DEF vars
<1> QED BY <1>2, <1>3, TraverseStep, ExtractStep DEF Next

LEMMA SpecTInv == Spec => []TInv
BY InitTInv, NextTInv, PTL DEF Spec

(* The variables of a query keep their types, whatever the graph, the seeds *)
(* and the bound.                                                           *)
THEOREM TypeCorrect == Spec => []TypeOK
BY SpecTInv, PTL DEF TInv

-----------------------------------------------------------------------------
Lengths(n) == {d \in 0..call.depth : \E s \in call.seeds \cap Nodes :
                                         Walks(Used, call.direction, s, n, d) # {}}

RowDepths(n) == {r.depth : r \in {t \in reach : t.id = n}}

(* The empty queue leaves no walk without its row: a walk that has rows up  *)
(* to a vertex has one for the next vertex, for that row was extracted.     *)
LEMMA WalksHaveRows ==
  ASSUME TInv, pc = "done", NEW s \in call.seeds \cap Nodes, NEW n, NEW d \in 0..call.depth,
         Walks(Used, call.direction, s, n, d) # {}
  PROVE  [id |-> n, depth |-> d] \in reach
<1>1. TypeOK /\ Worklist /\ queue = {}
  BY DEF TInv, Worklist
<1>2. call.depth \in Nat /\ d \in Nat /\ d <= call.depth
  BY <1>1, CallTyped
<1>3. PICK w : w \in Walks(Used, call.direction, s, n, d)
  OBVIOUS
<1>4. w[0] = s /\ w[d] = n /\ \A i \in 1..d : Hop(Used, call.direction, w[i - 1], w[i])
  BY <1>3, WalkDef
<1> DEFINE Bad == {i \in 0..d : [id |-> w[i], depth |-> i] \notin reach}
<1>5. CASE Bad = {}
  BY <1>2, <1>4, <1>5
<1>6. CASE Bad # {}
  <2>1. Bad \in SUBSET Nat
    OBVIOUS
  <2>2. PICK i \in Bad : \A j \in Bad : i <= j
    <3> HIDE DEF Bad
    <3> QED BY <1>6, <2>1, LeastExists
  <2>3. i \in 0..d /\ [id |-> w[i], depth |-> i] \notin reach
    BY <2>2
  <2>4. i # 0
    <3>1. [id |-> s, depth |-> 0] \in SeedRows(call.seeds)
      BY DEF SeedRows
    <3> QED BY <1>1, <1>4, <2>3, <3>1 DEF Worklist
  <2> DEFINE j == i - 1
  <2>5. j \in 0..d /\ j < i /\ j < call.depth /\ i \in 1..d /\ j + 1 = i
    BY <1>2, <2>3, <2>4
  <2>6. j \notin Bad
    BY <2>2, <2>5
  <2> DEFINE row == [id |-> w[j], depth |-> j]
  <2>7. row \in reach /\ row.id = w[j] /\ row.depth = j
    BY <2>5, <2>6
  <2>8. Hop(Used, call.direction, row.id, w[i])
    BY <1>4, <2>5, <2>7
  <2>9. [id |-> w[i], depth |-> row.depth + 1] \in Expand(row)
    <3> HIDE DEF row, j
    <3> QED BY <1>1, <2>5, <2>7, <2>8, ExpandIs
  <2>10. Expand(row) \subseteq reach
    <3> HIDE DEF row
    <3> QED BY <1>1, <2>7 DEF Worklist
  <2> QED BY <2>3, <2>5, <2>7, <2>9, <2>10
<1> QED BY <1>5, <1>6

LEMMA RowsAreWalks ==
  ASSUME TInv, pc = "done"
  PROVE  /\ \A n : RowDepths(n) = Lengths(n)
         /\ {r.id : r \in reach} = {n \in Nodes : Lengths(n) # {}}
<1>1. TypeOK /\ Worklist
  BY DEF TInv
<1>2. call.depth \in Nat
  BY <1>1, CallTyped
<1>3. ASSUME NEW r \in reach
      PROVE  r.depth \in Lengths(r.id) /\ r.id \in Nodes
  <2>1. PICK s \in call.seeds \cap Nodes : Walks(Used, call.direction, s, r.id, r.depth) # {}
    BY <1>1 DEF Worklist
  <2>2. r.depth \in 0..call.depth
    BY <1>1, <1>2 DEF TypeOK, Row
  <2>3. PICK w : w \in Walks(Used, call.direction, s, r.id, r.depth)
    BY <2>1
  <2>4. w \in [0..r.depth -> Nodes] /\ w[r.depth] = r.id
    BY <2>3, WalkDef
  <2>5. r.depth \in 0..r.depth
    BY <2>2
  <2> QED BY <2>1, <2>2, <2>4, <2>5 DEF Lengths
<1>4. ASSUME NEW n, NEW d \in Lengths(n)
      PROVE  [id |-> n, depth |-> d] \in reach
  BY WalksHaveRows DEF Lengths
<1>5. ASSUME NEW n
      PROVE  RowDepths(n) = Lengths(n)
  <2>1. ASSUME NEW d \in RowDepths(n) PROVE d \in Lengths(n)
    BY <1>3 DEF RowDepths
  <2>2. ASSUME NEW d \in Lengths(n) PROVE d \in RowDepths(n)
    <3> DEFINE row == [id |-> n, depth |-> d]
    <3>1. row \in reach /\ row.id = n /\ row.depth = d
      BY <1>4
    <3> HIDE DEF row
    <3> QED BY <3>1 DEF RowDepths
  <2> QED BY <2>1, <2>2
<1>6. {r.id : r \in reach} = {n \in Nodes : Lengths(n) # {}}
  <2>1. ASSUME NEW r \in reach PROVE r.id \in Nodes /\ Lengths(r.id) # {}
    BY <1>3
  <2>2. ASSUME NEW n \in Nodes, Lengths(n) # {} PROVE \E r \in reach : r.id = n
    <3>1. PICK d : d \in Lengths(n)
      BY <2>2
    <3> DEFINE row == [id |-> n, depth |-> d]
    <3>2. row \in reach /\ row.id = n
      BY <1>4, <3>1
    <3> HIDE DEF row
    <3> QED BY <3>2
  <2> QED BY <2>1, <2>2
<1> QED BY <1>5, <1>6

LEMMA ResultIs ==
  ASSUME TInv, pc = "done"
  PROVE  /\ Result = {[id |-> n, depth |-> Min(Lengths(n))] : n \in {m \in Nodes : Lengths(m) # {}}}
         /\ Reached = {n \in Nodes : Lengths(n) # {}}
<1>1. Result = {[id |-> n, depth |-> Min(RowDepths(n))] : n \in {r.id : r \in reach}}
  BY DEF Result, RowDepths
<1> DEFINE N == {n \in Nodes : Lengths(n) # {}}
<1>2. {r.id : r \in reach} = N /\ \A n : RowDepths(n) = Lengths(n)
  BY RowsAreWalks
<1>3. Result = {[id |-> n, depth |-> Min(Lengths(n))] : n \in N}
  <2> HIDE DEF N
  <2> QED BY <1>1, <1>2
<1>4. Reached = N
  <2> HIDE DEF N
  <2>1. ASSUME NEW n \in N PROVE n \in Reached
    <3> DEFINE row == [id |-> n, depth |-> Min(Lengths(n))]
    <3>1. row \in Result /\ row.id = n
      BY <1>3
    <3> HIDE DEF row
    <3> QED BY <3>1 DEF Reached
  <2>2. ASSUME NEW r \in Result PROVE r.id \in N
    BY <1>3
  <2> QED BY <2>1, <2>2 DEF Reached
<1> QED BY <1>3, <1>4

(* "BFS reachability": whatever the graph, the seeds, the bound, the direction *)
(* and the order in which rows are extracted, traverse() returns exactly the   *)
(* nodes that walks of at most max_depth edges reach, each once, with the      *)
(* length of a shortest walk.                                                  *)
THEOREM ResultIsTheReachable == Spec => []ReachedByWalks
<1>1. TInv => ReachedByWalks
  <2> SUFFICES ASSUME TInv, pc = "done" PROVE ReachedByWalks
    BY DEF ReachedByWalks
  <2> QED BY ResultIs DEF ReachedByWalks, Lengths, Used
<1> QED BY <1>1, SpecTInv, PTL

-----------------------------------------------------------------------------
PathLengths(E, direction, a, b) == {d \in 0..Cardinality(Nodes) : Walks(E, direction, a, b, d) # {}}

LEMMA NodesAreFinite == Cardinality(Nodes) \in Nat
BY TraverseAssumption, FS_Subset, FS_CardinalityType

(* What Shortest() finds, with its number of hops. *)
LEMMA ShortestIs ==
  ASSUME NEW E, NEW direction, NEW a, NEW b
  PROVE  LET L == PathLengths(E, direction, a, b)
             p == Shortest(E, direction, a, b)
         IN  /\ L = {} => p = NoPath
             /\ L # {} => p # NoPath /\ Cardinality(DOMAIN p) - 1 = Min(L)
<1> DEFINE L == PathLengths(E, direction, a, b)
           p == Shortest(E, direction, a, b)
<1>1. p = IF L = {} THEN NoPath ELSE CHOOSE w \in Walks(E, direction, a, b, Min(L)) : TRUE
  BY DEF Shortest, PathLengths
<1>2. ASSUME L # {}
      PROVE  p # NoPath /\ Cardinality(DOMAIN p) - 1 = Min(L)
  <2> DEFINE m == Min(L)
  <2>1. L \in SUBSET Nat
    BY NodesAreFinite DEF PathLengths
  <2>2. m \in L
    <3> HIDE DEF L
    <3> QED BY <1>2, <2>1, MinNat
  <2>3. m \in 0..Cardinality(Nodes) /\ Walks(E, direction, a, b, m) # {}
    <3> HIDE DEF m
    <3> QED BY <2>2 DEF PathLengths
  <2>4. p \in Walks(E, direction, a, b, m)
    <3> HIDE DEF L
    <3> QED BY <1>1, <1>2, <2>3
  <2> HIDE DEF m
  <2>5. p \in [0..m -> Nodes]
    <3> HIDE DEF p
    <3> QED BY <2>4, WalkDef
  <2>6. p # NoPath /\ DOMAIN p = 0..m
    <3> HIDE DEF p
    <3> QED BY <2>3, <2>5, TraverseAssumption
  <2>7. m \in Nat
    BY <2>3, NodesAreFinite
  <2>8. Cardinality(0..m) = m - 0 + 1
    BY <2>7, FS_Interval
  <2>9. Cardinality(DOMAIN p) - 1 = m
    BY <2>6, <2>7, <2>8
  <2> QED BY <2>6, <2>9 DEF m
<1> QED BY <1>1, <1>2

(* The walks within the bound stay within the nodes reached, and so within *)
(* the induced subgraph; that subgraph has no other walks.                 *)
LEMMA InducedWalks ==
  ASSUME TInv, pc = "done", call.relations = {}, NEW a, call.seeds = {a}, NEW b, NEW d \in Nat
  PROVE  /\ Walks(Induced, call.direction, a, b, d) \subseteq Walks(edges, call.direction, a, b, d)
         /\ d <= call.depth =>
                /\ Walks(edges, call.direction, a, b, d) \subseteq Walks(Induced, call.direction, a, b, d)
                /\ Walks(edges, call.direction, a, b, d) # {} => b \in Reached
<1>1. Used = edges
  BY DEF Used, Counts
<1>2. call.depth \in Nat /\ Reached = {n \in Nodes : Lengths(n) # {}}
  BY ResultIs, CallTyped DEF TInv
<1>3. ASSUME NEW w \in Walks(Induced, call.direction, a, b, d)
      PROVE  w \in Walks(edges, call.direction, a, b, d)
  <2>1. \A m, n : Hop(Induced, call.direction, m, n) => Hop(edges, call.direction, m, n)
    BY DEF Hop, Induced
  <2> QED BY <1>3, <2>1, WalkDef
<1>4. ASSUME d <= call.depth, NEW w \in Walks(edges, call.direction, a, b, d)
      PROVE  w \in Walks(Induced, call.direction, a, b, d) /\ b \in Reached
  <2>1. /\ w \in [0..d -> Nodes] /\ w[0] = a /\ w[d] = b
        /\ \A i \in 1..d : Hop(edges, call.direction, w[i - 1], w[i])
    BY <1>4, WalkDef
  <2>2. \A i \in 0..d : w[i] \in Nodes
    BY <2>1
  <2>3. a \in call.seeds \cap Nodes
    BY <2>1, <2>2
  <2>4. ASSUME NEW i \in 0..d
        PROVE  w[i] \in Reached
    <3>1. Walks(Used, call.direction, a, w[i], i) # {}
      BY <1>1, <1>4, WalkPrefix
    <3>2. i \in 0..call.depth
      BY <1>2, <1>4
    <3>3. i \in Lengths(w[i])
      BY <2>3, <3>1, <3>2 DEF Lengths
    <3> QED BY <1>2, <2>2, <3>3
  <2>5. ASSUME NEW i \in 1..d
        PROVE  Hop(Induced, call.direction, w[i - 1], w[i])
    <3>1. i \in 0..d /\ i - 1 \in 0..d
      OBVIOUS
    <3>2. w[i] \in Reached /\ w[i - 1] \in Reached
      BY <2>4, <3>1
    <3> QED BY <2>1, <3>2 DEF Hop, Induced
  <2>6. w \in Walks(Induced, call.direction, a, b, d)
    BY <2>1, <2>5, WalkDef
  <2>7. d \in 0..d
    OBVIOUS
  <2> QED BY <2>1, <2>4, <2>6, <2>7
<1> QED BY <1>3, <1>4

LEMMA SearchIsExact ==
  ASSUME TInv, pc = "done", call.relations = {}, NEW a, call.seeds = {a}, NEW b
  PROVE  LET best == Shortest(edges, call.direction, a, b)
             path == IF b \notin Reached THEN NoPath ELSE Shortest(Induced, call.direction, a, b)
             hops(p) == Cardinality(DOMAIN p) - 1
         IN  IF best = NoPath THEN path = NoPath
             ELSE IF hops(best) > call.depth THEN path = NoPath
             ELSE path # NoPath /\ hops(path) = hops(best)
<1> DEFINE L == PathLengths(edges, call.direction, a, b)
           LI == PathLengths(Induced, call.direction, a, b)
           best == Shortest(edges, call.direction, a, b)
           found == Shortest(Induced, call.direction, a, b)
           hops(p) == Cardinality(DOMAIN p) - 1
<1>1. /\ L = {} => best = NoPath
      /\ L # {} => best # NoPath /\ hops(best) = Min(L)
      /\ LI = {} => found = NoPath
      /\ LI # {} => found # NoPath /\ hops(found) = Min(LI)
  BY ShortestIs
<1>2. call.depth \in Nat /\ Reached = {n \in Nodes : Lengths(n) # {}} /\ Used = edges
  BY ResultIs, CallTyped DEF TInv, Used, Counts
<1>3. L \in SUBSET Nat /\ LI \subseteq L
  BY InducedWalks, NodesAreFinite DEF PathLengths
<1>4. b \in Reached => \E d \in 0..call.depth : Walks(edges, call.direction, a, b, d) # {}
  BY <1>2 DEF Lengths
<1> DEFINE m == Min(L)
<1>5. ASSUME L # {}
      PROVE  m \in L /\ m \in Nat /\ m <= Cardinality(Nodes) /\ \A d \in L : m <= d
  <2>1. m \in L /\ \A d \in L : m <= d
    <3> HIDE DEF L
    <3> QED BY <1>3, <1>5, MinNat
  <2>2. \A d \in L : d \in Nat /\ d <= Cardinality(Nodes)
    BY NodesAreFinite DEF PathLengths
  <2> QED BY <2>1, <2>2
<1>6. ASSUME L # {}, m > call.depth
      PROVE  b \notin Reached
  <2> SUFFICES ASSUME b \in Reached PROVE FALSE
    OBVIOUS
  <2>1. PICK d \in 0..call.depth : Walks(edges, call.direction, a, b, d) # {}
    BY <1>4
  <2> HIDE DEF m
  <2>2. d \in 0..Cardinality(Nodes) /\ d < m
    BY <1>2, <1>5, <1>6, <2>1, NodesAreFinite
  <2>3. d \in L
    BY <2>1, <2>2 DEF PathLengths
  <2> QED BY <1>2, <1>5, <1>6, <2>2, <2>3
<1>7. ASSUME L # {}, m <= call.depth
      PROVE  b \in Reached /\ m \in LI /\ Min(LI) = m
  <2>1. Walks(edges, call.direction, a, b, m) # {} /\ m \in 0..Cardinality(Nodes)
    <3> HIDE DEF m
    <3> QED BY <1>5, <1>7 DEF PathLengths
  <2>2. Walks(Induced, call.direction, a, b, m) # {} /\ b \in Reached
    <3> HIDE DEF m
    <3> QED BY <1>5, <1>7, <2>1, InducedWalks
  <2>3. m \in LI
    <3> HIDE DEF m
    <3> QED BY <2>1, <2>2 DEF PathLengths
  <2>4. LI \in SUBSET Nat /\ \A d \in LI : m <= d
    <3> HIDE DEF L, LI, m
    <3> QED BY <1>3, <1>5, <1>7
  <2>5. Min(LI) = m
    <3> HIDE DEF LI, m
    <3> QED BY <2>3, <2>4, MinIs
  <2> QED BY <2>2, <2>3, <2>5
<1> HIDE DEF L, LI, best, found, hops
<1>8. CASE L = {}
  BY <1>1, <1>3, <1>8 DEF best, found
<1>9. CASE L # {} /\ m > call.depth
  <2>1. b \notin Reached /\ best # NoPath /\ hops(best) > call.depth
    BY <1>1, <1>6, <1>9
  <2> QED BY <2>1 DEF best, hops
<1>10. CASE L # {} /\ m <= call.depth
  <2>1. /\ b \in Reached /\ best # NoPath /\ ~(hops(best) > call.depth)
        /\ found # NoPath /\ hops(found) = hops(best)
    <3> HIDE DEF m
    <3> QED BY <1>1, <1>2, <1>5, <1>7, <1>10 DEF m
  <2> QED BY <2>1 DEF best, found, hops
<1>11. m > call.depth \/ m <= call.depth \/ L = {}
  <2> HIDE DEF m
  <2> QED BY <1>2, <1>5
<1> QED BY <1>8, <1>9, <1>10, <1>11

(* shortest_path() searches only the subgraph that its bounded traverse()    *)
(* returned, and loses nothing by it: for any graph it finds a path exactly  *)
(* if the whole graph has one of at most max_depth hops, and a shortest one. *)
THEOREM PathSearchIsExact == Spec => []BoundedSearchIsExact
<1>1. TInv => BoundedSearchIsExact
  <2> SUFFICES ASSUME TInv, pc = "done", call.relations = {}, NEW a \in Ids, NEW b \in Ids, call.seeds = {a}
               PROVE  LET path == ShortestPath(a, b)
                          best == IF a = b THEN IF a \in Nodes THEN [i \in {0} |-> a] ELSE NoPath
                                  ELSE Shortest(edges, call.direction, a, b)
                          hops(p) == Cardinality(DOMAIN p) - 1
                      IN  IF best = NoPath THEN path = NoPath
                          ELSE IF a # b /\ hops(best) > call.depth THEN path = NoPath
                          ELSE path # NoPath /\ hops(path) = hops(best)
    BY DEF BoundedSearchIsExact
  <2>1. CASE a = b
    BY <2>1 DEF ShortestPath
  <2>2. CASE a # b
    <3>1. ShortestPath(a, b) = IF b \notin Reached THEN NoPath ELSE Shortest(Induced, call.direction, a, b)
      BY <2>2 DEF ShortestPath, SearchDirection
    <3> QED BY <2>2, <3>1, SearchIsExact
  <2> QED BY <2>1, <2>2
<1> QED BY <1>1, SpecTInv, PTL

=============================================================================
