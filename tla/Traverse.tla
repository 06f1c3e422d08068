------------------------------ MODULE Traverse ------------------------------
(***************************************************************************)
(* Reachability in the graph: traverse() of query.py, row by row as SQLite *)
(* evaluates its recursive query, and shortest_path() of graph.py, which   *)
(* searches the edges induced by what traverse() returns.  A row is        *)
(* extracted from the queue in no particular order; UNION lets a row into  *)
(* the queue once.                                                         *)
(***************************************************************************)
EXTENDS Integers, FiniteSets, FiniteSetsExt

CONSTANTS
    Ids,            \* what a caller may pass as a node id
    Nodes,          \* those that are nodes
    Relations,
    Pool,           \* the rows that edges may have: [src, dst, relation]
    Seedings,       \* values of seed_ids
    Depths,         \* values of max_depth
    NoPath

ASSUME TraverseAssumption ==
    /\ IsFiniteSet(Ids) /\ Nodes \subseteq Ids
    /\ Pool \subseteq [src : Nodes, dst : Nodes, relation : Relations]
    /\ Seedings \subseteq SUBSET Ids /\ Depths \subseteq Nat
    /\ \A d \in 0..Cardinality(Nodes) : NoPath \notin [0..d -> Nodes]

Directions == {"out", "in", "both"}

VARIABLES
    edges,      \* the table
    pc,         \* "idle", "reach" while the query runs, "done"
    call,       \* the arguments of traverse()
    queue,      \* rows of reach(id, depth) still to be extracted
    reach       \* rows that were ever in the queue

vars == <<edges, pc, call, queue, reach>>

Call == [seeds : Seedings, depth : Depths, direction : Directions, relations : SUBSET Relations]

Init ==
    /\ edges \in SUBSET Pool
    /\ pc = "idle"
    /\ call = [seeds |-> {}, depth |-> 0, direction |-> "both", relations |-> {}]
    /\ queue = {} /\ reach = {}

-----------------------------------------------------------------------------
(* rel_clause: without relations every edge counts. *)
Counts(e, relations) == relations = {} \/ e.relation \in relations

Forward(E, direction, n) ==    \* mutant of Branch: one of the two branches
    IF direction = "in" THEN {e.src : e \in {f \in E : f.dst = n}} ELSE {e.dst : e \in {f \in E : f.src = n}}

(* The branches of the recursive part: along the edges, against them. *)
Branch(E, direction, n) ==
    (UNION {IF direction \in {"out", "both"} /\ e.src = n THEN {e.dst} ELSE {} : e \in E})
    \cup (UNION {IF direction \in {"in", "both"} /\ e.dst = n THEN {e.src} ELSE {} : e \in E})

ExpandAlways(row) ==    \* mutant of Expand: one hop too many
    IF row.depth <= call.depth
    THEN {[id |-> n, depth |-> row.depth + 1] :
             n \in Branch({e \in edges : Counts(e, call.relations)}, call.direction, row.id)}
    ELSE {}

(* WHERE r.depth < :max_depth, and the relations. *)
Expand(row) ==
    IF row.depth < call.depth
    THEN {[id |-> n, depth |-> row.depth + 1] :
             n \in Branch({e \in edges : Counts(e, call.relations)}, call.direction, row.id)}
    ELSE {}

(* Only ids that are nodes are seeds. *)
SeedRows(seeds) == {[id |-> n, depth |-> 0] : n \in seeds \cap Nodes}

Traverse(c) ==
    /\ pc = "idle" /\ c.seeds # {}
    /\ pc' = "reach"
    /\ call' = c
    /\ queue' = SeedRows(c.seeds) /\ reach' = SeedRows(c.seeds)
    /\ UNCHANGED edges

ExtractAgain(row) ==    \* mutant of Extract: the rows of a node seen before return
    /\ pc = "reach" /\ row \in queue
    /\ queue' = (queue \ {row}) \cup (Expand(row) \ reach)
                 \cup {r \in reach : r # row /\ r.id \in {x.id : x \in Expand(row)}}
    /\ reach' = reach \cup Expand(row)
    /\ UNCHANGED <<edges, pc, call>>

Extract(row) ==
    /\ pc = "reach" /\ row \in queue
    /\ queue' = (queue \ {row}) \cup (Expand(row) \ reach)
    /\ reach' = reach \cup Expand(row)
    /\ UNCHANGED <<edges, pc, call>>

Return ==
    /\ pc = "reach" /\ queue = {}
    /\ pc' = "done"
    /\ UNCHANGED <<edges, call, queue, reach>>

Next ==
    \/ \E c \in Call : Traverse(c)
    \/ \E row \in queue : Extract(row)
    \/ Return

Spec == Init /\ [][Next]_vars /\ WF_vars(\E row \in queue : Extract(row)) /\ WF_vars(Return)

-----------------------------------------------------------------------------
(* SELECT id, MIN(depth) ... GROUP BY id *)
Result == {[id |-> n, depth |-> Min({r.depth : r \in {t \in reach : t.id = n}})] : n \in {r.id : r \in reach}}

Reached == {r.id : r \in Result}

(* subgraph_edges_by_id: the edges with both ends among the nodes. *)
Induced == {e \in edges : e.src \in Reached /\ e.dst \in Reached}

(* The walks of d edges from a to b by the edges E, in one direction. *)
Walks(E, direction, a, b, d) ==
    LET Joined(m, n) == \E e \in E :
            \/ direction # "in" /\ e.src = m /\ e.dst = n
            \/ direction # "out" /\ e.dst = m /\ e.src = n
    IN  {w \in [0..d -> Nodes] : w[0] = a /\ w[d] = b /\ \A i \in 1..d : Joined(w[i - 1], w[i])}

AlongEdges(direction) == "out"    \* mutant of SearchDirection

(* The graph nx.shortest_path searches: undirected, reversed or as it is. *)
SearchDirection(direction) == direction

Shortest(E, direction, a, b) ==
    LET lengths == {d \in 0..Cardinality(Nodes) : Walks(E, direction, a, b, d) # {}}
    IN  IF lengths = {} THEN NoPath ELSE CHOOSE w \in Walks(E, direction, a, b, Min(lengths)) : TRUE

(* shortest_path() after its traverse() from a, with every relation. *)
ShortestPath(a, b) ==
    IF a = b THEN IF a \in Nodes THEN [i \in {0} |-> a] ELSE NoPath
    ELSE IF b \notin Reached THEN NoPath
    ELSE Shortest(Induced, SearchDirection(call.direction), a, b)

-----------------------------------------------------------------------------
Row == [id : Ids, depth : Nat]

(* The types; the queue only has rows that were let in, none of them deeper *)
(* than max_depth.                                                         *)
TypeOK ==
    /\ edges \subseteq Pool
    /\ pc \in {"idle", "reach", "done"}
    /\ call \in Call \cup {[seeds |-> {}, depth |-> 0, direction |-> "both", relations |-> {}]}
    /\ reach \subseteq Row /\ queue \subseteq reach
    /\ \A r \in reach : r.depth <= call.depth

(***************************************************************************)
(* "BFS reachability ... up to max_depth hops" (query.py:45): whatever the *)
(* order of extraction, with cycles, parallel edges and seeds that are no  *)
(* nodes, each node that a walk reaches is returned once with the length   *)
(* of a shortest one, and no other node is.                                *)
(***************************************************************************)
ReachedByWalks ==
    pc = "done" =>
        LET E == {e \in edges : Counts(e, call.relations)}
            lengths(n) == {d \in 0..call.depth : \E s \in call.seeds \cap Nodes : Walks(E, call.direction, s, n, d) # {}}
        IN  Result = {[id |-> n, depth |-> Min(lengths(n))] : n \in {m \in Nodes : lengths(m) # {}}}

(***************************************************************************)
(* shortest_path() (graph.py:200-227): searching only the bounded subgraph *)
(* loses nothing: it finds a path exactly if one of at most max_depth hops *)
(* exists in the whole graph, and a shortest one.                          *)
(***************************************************************************)
BoundedSearchIsExact ==
    pc = "done" /\ call.relations = {} =>
        \A a, b \in Ids : call.seeds = {a} =>
            LET path == ShortestPath(a, b)
                best == IF a = b THEN IF a \in Nodes THEN [i \in {0} |-> a] ELSE NoPath
                        ELSE Shortest(edges, call.direction, a, b)
                hops(p) == Cardinality(DOMAIN p) - 1
            IN  IF best = NoPath THEN path = NoPath
                ELSE IF a # b /\ hops(best) > call.depth THEN path = NoPath
                ELSE path # NoPath /\ hops(path) = hops(best)

(* The recursive query ends, in a cycle too: max_depth bounds the rows. *)
QueryReturns == pc = "reach" ~> pc = "done"
=============================================================================
