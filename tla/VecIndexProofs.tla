--------------------------- MODULE VecIndexProofs ---------------------------
(***************************************************************************)
(* The derived index, for any nodes, embedders and dimensions: a step of a *)
(* session with the extension keeps a table that has the vectors of its    *)
(* dimension, and a rebuild restores one from any state.                   *)
(***************************************************************************)
EXTENDS VecIndex, WellFoundedInduction, FiniteSetTheorems, TLAPS

-----------------------------------------------------------------------------
StoreOK(v) == v \in Store /\ v.dirty \cup {i \in Ids : v.emb[i] # NoVec} \subseteq Live(v)

(* The ids that refresh() still has to embed are those of nodes, since only *)
(* index() deletes; and the table is gone when rebuild_index() refills it.  *)
VInv ==
    /\ TypeOK
    /\ session = Closed => pc = "idle"
    /\ todo \subseteq Live(view)
    /\ pc \notin {"refresh", "reembed"} => todo = {}
    /\ pc = "refill" => view.table = NoTable

(* What an operation makes of a store, without the words of EXCEPT. *)
LEMMA StoreIs ==
  ASSUME NEW v
  PROVE  StoreOK(v) <=>
            /\ v = [node |-> v.node, dirty |-> v.dirty, emb |-> v.emb,
                    table |-> v.table, vecDim |-> v.vecDim, model |-> v.model]
            /\ v.node \in [Ids -> Node \cup {NoNode}] /\ v.dirty \subseteq Ids
            /\ v.emb \in [Ids -> Vector \cup {NoVec}]
            /\ v.table = [dim |-> v.table.dim, row |-> v.table.row]
            /\ v.table.dim \in Nat \cup {NoDim} /\ v.table.row \in [Ids -> Vector \cup {NoVec}]
            /\ v.vecDim \in Nat \cup {NoDim} /\ v.model \in Models \cup {NoModel}
            /\ \A i \in Ids : i \in v.dirty \/ v.emb[i] # NoVec => v.node[i] # NoNode
BY DEF StoreOK, Store, Live

LEMMA EmptyOK == StoreOK(EmptyStore) /\ NoRows \in [Ids -> Vector \cup {NoVec}]
BY DEF StoreOK, EmptyStore, NoRows, NoTable, Store, Live

LEMMA EnsureTableIs ==
  ASSUME NEW v, StoreOK(v), NEW d \in Nat
  PROVE  LET w == EnsureTable(v, d) IN
         /\ StoreOK(w)
         /\ w.node = v.node /\ w.dirty = v.dirty /\ w.emb = v.emb /\ w.model = v.model
         /\ w.table = IF v.table.dim = NoDim THEN [dim |-> d, row |-> NoRows] ELSE v.table
         /\ w.vecDim = d
<1> DEFINE t == IF v.table.dim = NoDim THEN [dim |-> d, row |-> NoRows] ELSE v.table
           w == EnsureTable(v, d)
<1>1. t = [dim |-> t.dim, row |-> t.row] /\ t.dim \in Nat /\ t.row \in [Ids -> Vector \cup {NoVec}]
  BY EmptyOK, StoreIs
<1> HIDE DEF t
<1>2. w = [node |-> v.node, dirty |-> v.dirty, emb |-> v.emb, table |-> t, vecDim |-> d, model |-> v.model]
  <2>1. w = [v EXCEPT !.table = t, !.vecDim = d]
    BY Zenon DEF EnsureTable, t
  <2> HIDE DEF w
  <2> QED BY <2>1 DEF StoreOK, Store
<1> HIDE DEF w
<1>3. /\ w.node = v.node /\ w.dirty = v.dirty /\ w.emb = v.emb /\ w.model = v.model
      /\ w.table = t /\ w.vecDim = d
  BY <1>2
<1>4. StoreOK(w)
  BY <1>1, <1>2, <1>3, StoreIs
<1> QED BY <1>3, <1>4 DEF t, w

LEMMA WriteRowIs ==
  ASSUME NEW v, StoreOK(v), NEW i \in Ids, NEW x \in Vector
  PROVE  LET w == WriteRow(v, i, x) IN
         /\ StoreOK(w)
         /\ w.node = v.node /\ w.dirty = v.dirty /\ w.emb = v.emb /\ w.model = v.model
         /\ w.table.dim = v.table.dim
         /\ \A j \in Ids : w.table.row[j] = IF j # i THEN v.table.row[j]
                                            ELSE IF v.table.dim = Dim(x) THEN x ELSE NoVec
         /\ w.vecDim = v.vecDim
<1> DEFINE y == IF v.table.dim = Dim(x) THEN x ELSE NoVec
           r == [v.table.row EXCEPT ![i] = y]
           w == WriteRow(v, i, x)
<1>1. y \in Vector \cup {NoVec}
  OBVIOUS
<1> HIDE DEF y
<1>2. /\ r \in [Ids -> Vector \cup {NoVec}]
      /\ \A j \in Ids : r[j] = IF j # i THEN v.table.row[j] ELSE y
  BY <1>1, StoreIs
<1>3. w = [node |-> v.node, dirty |-> v.dirty, emb |-> v.emb,
           table |-> [dim |-> v.table.dim, row |-> r], vecDim |-> v.vecDim, model |-> v.model]
  BY DEF StoreOK, Store, WriteRow, y
<1> HIDE DEF w, r
<1>5. /\ w.node = v.node /\ w.dirty = v.dirty /\ w.emb = v.emb /\ w.model = v.model
      /\ w.table = [dim |-> v.table.dim, row |-> r]
      /\ w.table.dim = v.table.dim /\ w.table.row = r /\ w.vecDim = v.vecDim
  BY <1>3
<1>6. StoreOK(w)
  BY <1>2, <1>3, <1>5, StoreIs
<1> QED BY <1>2, <1>5, <1>6 DEF w, y

LEMMA DimNat == \A x \in Vector : Dim(x) \in Nat
BY VecIndexAssumption DEF Dim, Vector

(* What set_embedding and its hook leave, for a vector of a node. *)
LEMMA SetEmbeddingIs ==
  ASSUME NEW v, StoreOK(v), NEW i \in Live(v), NEW x \in Vector
  PROVE  LET w == SetEmbedding(v, i, x) IN
         /\ StoreOK(w)
         /\ w.node = v.node /\ w.dirty = v.dirty \ {i}
         /\ \A j \in Ids : w.emb[j] = IF j = i THEN x ELSE v.emb[j]
         /\ session.kind # "vec" \/ Skipped(x) => w.table = v.table /\ w.vecDim = v.vecDim
         /\ session.kind = "vec" /\ ~Skipped(x) =>
               /\ w.table.dim = IF v.table.dim = NoDim THEN Dim(x) ELSE v.table.dim
               /\ \A j \in Ids : w.table.row[j] =
                     IF j = i THEN IF w.table.dim = Dim(x) THEN x ELSE NoVec
                     ELSE IF v.table.dim = NoDim THEN NoVec ELSE v.table.row[j]
               /\ w.vecDim = Dim(x) \/ (w.vecDim = v.vecDim /\ v.table.dim = Dim(x))
<1>0. i \in Ids /\ v.node[i] # NoNode /\ Dim(x) \in Nat /\ x # NoVec
  BY DimNat, NothingAssumption DEF Live
<1> DEFINE u == [v EXCEPT !.emb[i] = x, !.dirty = v.dirty \ {i}]
<1>1. u = [node |-> v.node, dirty |-> v.dirty \ {i}, emb |-> [v.emb EXCEPT ![i] = x],
           table |-> v.table, vecDim |-> v.vecDim, model |-> v.model]
  <2> DEFINE a == [v EXCEPT !.emb[i] = x]
  <2>1. u = [a EXCEPT !.dirty = v.dirty \ {i}]
    OBVIOUS
  <2>2. a = [node |-> v.node, dirty |-> v.dirty, emb |-> [v.emb EXCEPT ![i] = x],
             table |-> v.table, vecDim |-> v.vecDim, model |-> v.model]
    BY DEF StoreOK, Store
  <2> HIDE DEF u, a
  <2> QED BY <2>1, <2>2
<1>2. SetEmbedding(v, i, x) = IF session.kind = "vec" THEN Upsert(u, i, x) ELSE u
  BY Zenon DEF SetEmbedding
<1> HIDE DEF u
<1>3. /\ u.node = v.node /\ u.dirty = v.dirty \ {i} /\ u.emb = [v.emb EXCEPT ![i] = x]
      /\ u.table = v.table /\ u.vecDim = v.vecDim /\ u.model = v.model
  BY <1>1
<1>9. \A j \in Ids : u.emb[j] = IF j = i THEN x ELSE v.emb[j]
  BY <1>0, <1>3, StoreIs
<1>4. StoreOK(u)
  <2>1. /\ v.emb \in [Ids -> Vector \cup {NoVec}] /\ v.dirty \subseteq Ids
        /\ \A j \in Ids : j \in v.dirty \/ v.emb[j] # NoVec => v.node[j] # NoNode
    BY StoreIs
  <2>2. /\ u.emb \in [Ids -> Vector \cup {NoVec}] /\ u.dirty \subseteq Ids
        /\ \A j \in Ids : j \in u.dirty \/ u.emb[j] # NoVec => u.node[j] # NoNode
    BY <1>0, <1>3, <2>1
  <2>3. u = [node |-> u.node, dirty |-> u.dirty, emb |-> u.emb,
             table |-> u.table, vecDim |-> u.vecDim, model |-> u.model]
    BY <1>1
  <2>4. /\ u.node \in [Ids -> Node \cup {NoNode}]
        /\ u.table = [dim |-> u.table.dim, row |-> u.table.row]
        /\ u.table.dim \in Nat \cup {NoDim} /\ u.table.row \in [Ids -> Vector \cup {NoVec}]
        /\ u.vecDim \in Nat \cup {NoDim} /\ u.model \in Models \cup {NoModel}
    BY <1>3, StoreIs
  <2> QED BY <2>2, <2>3, <2>4, StoreIs
<1> DEFINE e == EnsureTable(u, Dim(x))
           w == SetEmbedding(v, i, x)
<1>5. /\ StoreOK(e) /\ e.node = u.node /\ e.dirty = u.dirty /\ e.emb = u.emb
      /\ e.table = IF u.table.dim = NoDim THEN [dim |-> Dim(x), row |-> NoRows] ELSE u.table
      /\ e.vecDim = Dim(x)
  BY <1>0, <1>4, EnsureTableIs
<1>6. CASE session.kind # "vec" \/ Skipped(x)
  <2>1. w = u
    BY <1>2, <1>6 DEF Upsert
  <2> HIDE DEF w
  <2> QED BY <1>3, <1>4, <1>6, <1>9, <2>1 DEF w
<1> HIDE DEF e, w
<1>7. CASE session.kind = "vec" /\ ~Skipped(x) /\ dim # NoDim /\ u.table.dim = Dim(x)
  <2>1. w = WriteRow(u, i, x)
    BY <1>2, <1>7 DEF Upsert, w
  <2>2. /\ StoreOK(w) /\ w.node = u.node /\ w.dirty = u.dirty /\ w.emb = u.emb
        /\ w.table.dim = u.table.dim /\ w.vecDim = u.vecDim
        /\ \A j \in Ids : w.table.row[j] = IF j # i THEN u.table.row[j]
                                           ELSE IF u.table.dim = Dim(x) THEN x ELSE NoVec
    BY <1>0, <1>4, <2>1, WriteRowIs
  <2>3. u.table.dim # NoDim
    BY <1>0, <1>7, VecIndexAssumption
  <2> QED BY <1>3, <1>7, <1>9, <2>2, <2>3 DEF w
<1>8. CASE session.kind = "vec" /\ ~Skipped(x) /\ ~(dim # NoDim /\ u.table.dim = Dim(x))
  <2>1. w = WriteRow(e, i, x)
    BY <1>2, <1>8 DEF Upsert, w, e
  <2>2. /\ StoreOK(w) /\ w.node = e.node /\ w.dirty = e.dirty /\ w.emb = e.emb
        /\ w.table.dim = e.table.dim /\ w.vecDim = e.vecDim
        /\ \A j \in Ids : w.table.row[j] = IF j # i THEN e.table.row[j]
                                           ELSE IF e.table.dim = Dim(x) THEN x ELSE NoVec
    BY <1>0, <1>5, <2>1, WriteRowIs
  <2>3. /\ e.table.dim = IF u.table.dim = NoDim THEN Dim(x) ELSE u.table.dim
        /\ \A j \in Ids : e.table.row[j] = IF u.table.dim = NoDim THEN NoVec ELSE u.table.row[j]
    BY <1>5 DEF NoRows
  <2> QED BY <1>3, <1>5, <1>8, <1>9, <2>2, <2>3 DEF w
<1> QED BY <1>6, <1>7, <1>8 DEF w

LEMMA SetEmbeddingOK ==
  ASSUME NEW v, StoreOK(v), NEW i \in Live(v), NEW x \in Vector, NEW w, w = SetEmbedding(v, i, x)
  PROVE  StoreOK(w) /\ w.node = v.node
BY SetEmbeddingIs

LEMMA DeleteNodeIs ==
  ASSUME NEW v, StoreOK(v), NEW i \in Ids
  PROVE  LET w == DeleteNode(v, i) IN
         /\ StoreOK(w)
         /\ \A j \in Ids : w.emb[j] = IF j = i THEN NoVec ELSE v.emb[j]
         /\ w.table.dim = v.table.dim /\ w.vecDim = v.vecDim
         /\ \A j \in Ids : w.table.row[j] = IF j = i /\ session.kind = "vec" THEN NoVec
                                            ELSE v.table.row[j]
<1> DEFINE u == [v EXCEPT !.node[i] = NoNode, !.dirty = v.dirty \ {i}, !.emb[i] = NoVec]
           w == DeleteNode(v, i)
           r == IF session.kind = "vec" THEN [v.table.row EXCEPT ![i] = NoVec] ELSE v.table.row
<1>1. u = [node |-> [v.node EXCEPT ![i] = NoNode], dirty |-> v.dirty \ {i},
           emb |-> [v.emb EXCEPT ![i] = NoVec],
           table |-> v.table, vecDim |-> v.vecDim, model |-> v.model]
  <2> DEFINE a == [v EXCEPT !.node[i] = NoNode]
             b == [a EXCEPT !.dirty = v.dirty \ {i}]
  <2>1. u = [b EXCEPT !.emb[i] = NoVec]
    OBVIOUS
  <2>2. a = [node |-> [v.node EXCEPT ![i] = NoNode], dirty |-> v.dirty, emb |-> v.emb,
             table |-> v.table, vecDim |-> v.vecDim, model |-> v.model]
    BY DEF StoreOK, Store
  <2> HIDE DEF u, a
  <2>3. b = [node |-> [v.node EXCEPT ![i] = NoNode], dirty |-> v.dirty \ {i}, emb |-> v.emb,
             table |-> v.table, vecDim |-> v.vecDim, model |-> v.model]
    <3> DEFINE n == [v.node EXCEPT ![i] = NoNode]
    <3> HIDE DEF n
    <3>1. a = [node |-> n, dirty |-> v.dirty, emb |-> v.emb,
               table |-> v.table, vecDim |-> v.vecDim, model |-> v.model]
      BY <2>2 DEF n
    <3>2. b = [node |-> n, dirty |-> v.dirty \ {i}, emb |-> v.emb,
               table |-> v.table, vecDim |-> v.vecDim, model |-> v.model]
      BY <3>1
    <3> QED BY <3>2 DEF n
  <2> HIDE DEF b
  <2>4. b \in Store
    <3>1. /\ [v.node EXCEPT ![i] = NoNode] \in [Ids -> Node \cup {NoNode}]
          /\ v.dirty \ {i} \in SUBSET Ids
      BY StoreIs
    <3>2. /\ v.emb \in [Ids -> Vector \cup {NoVec}] /\ v.vecDim \in Nat \cup {NoDim}
          /\ v.table \in [dim : Nat \cup {NoDim}, row : [Ids -> Vector \cup {NoVec}]]
          /\ v.model \in Models \cup {NoModel}
      BY DEF StoreOK, Store
    <3> QED BY <2>3, <3>1, <3>2 DEF Store
  <2>5. /\ b.node = [v.node EXCEPT ![i] = NoNode] /\ b.dirty = v.dirty \ {i} /\ b.emb = v.emb
        /\ b.table = v.table /\ b.vecDim = v.vecDim /\ b.model = v.model
    BY <2>3
  <2>6. u = [node |-> b.node, dirty |-> b.dirty, emb |-> [b.emb EXCEPT ![i] = NoVec],
             table |-> b.table, vecDim |-> b.vecDim, model |-> b.model]
    BY <2>1, <2>4 DEF Store
  <2> QED BY <2>5, <2>6
<1>2. w = IF session.kind = "vec" THEN [u EXCEPT !.table.row[i] = NoVec] ELSE u
  BY Zenon DEF DeleteNode, Remove
<1>3. /\ v.node \in [Ids -> Node \cup {NoNode}] /\ v.dirty \subseteq Ids
      /\ v.emb \in [Ids -> Vector \cup {NoVec}]
      /\ v.table = [dim |-> v.table.dim, row |-> v.table.row]
      /\ v.table.dim \in Nat \cup {NoDim} /\ v.table.row \in [Ids -> Vector \cup {NoVec}]
      /\ v.vecDim \in Nat \cup {NoDim} /\ v.model \in Models \cup {NoModel}
      /\ \A j \in Ids : j \in v.dirty \/ v.emb[j] # NoVec => v.node[j] # NoNode
  BY StoreIs
<1> HIDE DEF u
<1>4. w = [node |-> [v.node EXCEPT ![i] = NoNode], dirty |-> v.dirty \ {i},
           emb |-> [v.emb EXCEPT ![i] = NoVec],
           table |-> [dim |-> v.table.dim, row |-> r], vecDim |-> v.vecDim, model |-> v.model]
  <2>1. CASE session.kind = "vec"
    <3>1. w = [u EXCEPT !.table.row[i] = NoVec] /\ r = [v.table.row EXCEPT ![i] = NoVec]
      BY <1>2, <2>1
    <3> HIDE DEF w, r
    <3> QED BY <1>1, <1>3, <3>1
  <2>2. CASE session.kind # "vec"
    <3>1. w = u /\ r = v.table.row
      BY <1>2, <2>2
    <3> HIDE DEF w, r
    <3> QED BY <1>1, <1>3, <3>1
  <2> QED BY <2>1, <2>2
<1>5. /\ r \in [Ids -> Vector \cup {NoVec}]
      /\ \A j \in Ids : r[j] = IF j = i /\ session.kind = "vec" THEN NoVec ELSE v.table.row[j]
  BY <1>3
<1> HIDE DEF w, r
<1>6. /\ w.node = [v.node EXCEPT ![i] = NoNode] /\ w.dirty = v.dirty \ {i}
      /\ w.emb = [v.emb EXCEPT ![i] = NoVec] /\ w.table = [dim |-> v.table.dim, row |-> r]
      /\ w.table.dim = v.table.dim /\ w.table.row = r
      /\ w.vecDim = v.vecDim /\ w.model = v.model
  BY <1>4
<1>7. /\ w.node \in [Ids -> Node \cup {NoNode}] /\ w.dirty \subseteq Ids
      /\ w.emb \in [Ids -> Vector \cup {NoVec}]
      /\ \A j \in Ids : j \in w.dirty \/ w.emb[j] # NoVec => w.node[j] # NoNode
  BY <1>3, <1>6
<1>8. StoreOK(w)
  BY <1>3, <1>4, <1>5, <1>6, <1>7, StoreIs
<1>9. \A j \in Ids : w.emb[j] = IF j = i THEN NoVec ELSE v.emb[j]
  BY <1>3, <1>6
<1> QED BY <1>5, <1>6, <1>8, <1>9 DEF w

LEMMA PutNodeIs ==
  ASSUME NEW v, StoreOK(v), NEW i \in Ids, NEW n \in Node
  PROVE  LET w == PutNode(v, i, n) IN
         /\ StoreOK(w) /\ w.emb = v.emb /\ w.table = v.table /\ w.vecDim = v.vecDim
         /\ Live(v) \subseteq Live(w)
<1> DEFINE w == PutNode(v, i, n)
<1>1. w = [node |-> [v.node EXCEPT ![i] = n], dirty |-> v.dirty \cup {i}, emb |-> v.emb,
           table |-> v.table, vecDim |-> v.vecDim, model |-> v.model]
  <2> DEFINE a == [v EXCEPT !.node[i] = n]
  <2>1. w = [a EXCEPT !.dirty = v.dirty \cup {i}]
    BY DEF PutNode
  <2>2. a = [node |-> [v.node EXCEPT ![i] = n], dirty |-> v.dirty, emb |-> v.emb,
             table |-> v.table, vecDim |-> v.vecDim, model |-> v.model]
    BY DEF StoreOK, Store
  <2> HIDE DEF w, a
  <2> QED BY <2>1, <2>2
<1> HIDE DEF w
<1>2. /\ w.node = [v.node EXCEPT ![i] = n] /\ w.dirty = v.dirty \cup {i} /\ w.emb = v.emb
      /\ w.table = v.table /\ w.vecDim = v.vecDim /\ w.model = v.model
  BY <1>1
<1>3. /\ w.node \in [Ids -> Node \cup {NoNode}] /\ w.dirty \subseteq Ids
      /\ \A j \in Ids : j \in w.dirty \/ w.emb[j] # NoVec => w.node[j] # NoNode
      /\ Live(v) \subseteq Live(w)
  BY <1>2, StoreIs, NothingAssumption DEF Live
<1>4. StoreOK(w)
  <2>1. /\ w.emb \in [Ids -> Vector \cup {NoVec}]
        /\ w.table = [dim |-> w.table.dim, row |-> w.table.row]
        /\ w.table.dim \in Nat \cup {NoDim} /\ w.table.row \in [Ids -> Vector \cup {NoVec}]
        /\ w.vecDim \in Nat \cup {NoDim} /\ w.model \in Models \cup {NoModel}
    BY <1>2, StoreIs
  <2> QED BY <1>1, <1>2, <1>3, <2>1, StoreIs
<1> QED BY <1>2, <1>3, <1>4 DEF w

LEMMA SetModelIs ==
  ASSUME NEW v, StoreOK(v), NEW m \in Models
  PROVE  LET w == [v EXCEPT !.model = m] IN
         StoreOK(w) /\ w.node = v.node /\ w.emb = v.emb /\ w.table = v.table /\ w.vecDim = v.vecDim
<1> DEFINE w == [v EXCEPT !.model = m]
<1>1. w = [node |-> v.node, dirty |-> v.dirty, emb |-> v.emb,
           table |-> v.table, vecDim |-> v.vecDim, model |-> m]
  BY DEF StoreOK, Store
<1> HIDE DEF w
<1>2. /\ w.node = v.node /\ w.dirty = v.dirty /\ w.emb = v.emb
      /\ w.table = v.table /\ w.vecDim = v.vecDim /\ w.model = m
  BY <1>1
<1>3. StoreOK(w)
  BY <1>1, <1>2, StoreIs
<1> QED BY <1>2, <1>3 DEF w

(* UPDATE nodes SET dirty = 1 *)
LEMMA AllDirtyIs ==
  ASSUME NEW v, StoreOK(v)
  PROVE  LET w == [v EXCEPT !.dirty = Live(v)] IN
         /\ StoreOK(w) /\ w.node = v.node /\ w.emb = v.emb /\ w.table = v.table /\ w.vecDim = v.vecDim
         /\ w.dirty = Live(v)
<1> DEFINE w == [v EXCEPT !.dirty = Live(v)]
<1>1. w = [node |-> v.node, dirty |-> Live(v), emb |-> v.emb,
           table |-> v.table, vecDim |-> v.vecDim, model |-> v.model]
  BY DEF StoreOK, Store
<1> HIDE DEF w
<1>2. /\ w.node = v.node /\ w.dirty = Live(v) /\ w.emb = v.emb
      /\ w.table = v.table /\ w.vecDim = v.vecDim /\ w.model = v.model
  BY <1>1
<1>3. w.dirty \subseteq Ids /\ \A i \in w.dirty : v.node[i] # NoNode
  BY <1>2 DEF Live
<1>4. StoreOK(w)
  BY <1>1, <1>2, <1>3, StoreIs
<1> QED BY <1>2, <1>4 DEF w

(* A table and its entry in meta, replaced as a rebuild does. *)
LEMMA SetTableRecord ==
  ASSUME NEW v, StoreOK(v), NEW t, NEW k
  PROVE  [v EXCEPT !.table = t, !.vecDim = k] =
            [node |-> v.node, dirty |-> v.dirty, emb |-> v.emb, table |-> t, vecDim |-> k, model |-> v.model]
<1> DEFINE a == [v EXCEPT !.table = t]
<1>1. [v EXCEPT !.table = t, !.vecDim = k] = [a EXCEPT !.vecDim = k]
  OBVIOUS
<1>2. a = [node |-> v.node, dirty |-> v.dirty, emb |-> v.emb,
           table |-> t, vecDim |-> v.vecDim, model |-> v.model]
  BY DEF StoreOK, Store
<1> HIDE DEF a
<1>3. [a EXCEPT !.vecDim = k] =
          [node |-> v.node, dirty |-> v.dirty, emb |-> v.emb, table |-> t, vecDim |-> k, model |-> v.model]
  BY <1>2
<1> QED BY <1>1, <1>3

LEMMA SetTableIs ==
  ASSUME NEW v, StoreOK(v), NEW d \in Nat \cup {NoDim}, NEW k \in Nat \cup {NoDim},
         NEW r \in [Ids -> Vector \cup {NoVec}],
         NEW t, t = [dim |-> d, row |-> r],
         NEW w, w = [node |-> v.node, dirty |-> v.dirty, emb |-> v.emb,
                     table |-> t, vecDim |-> k, model |-> v.model]
  PROVE  /\ StoreOK(w) /\ w.node = v.node /\ w.emb = v.emb /\ w.table = t /\ w.vecDim = k
         /\ w.table.dim = d /\ w.table.row = r
<1>1. t.dim = d /\ t.row = r
  OBVIOUS
<1>2. /\ w.node = v.node /\ w.dirty = v.dirty /\ w.emb = v.emb
      /\ w.table = t /\ w.vecDim = k /\ w.model = v.model
  OBVIOUS
<1>3. w = [node |-> w.node, dirty |-> w.dirty, emb |-> w.emb,
           table |-> w.table, vecDim |-> w.vecDim, model |-> w.model]
  BY <1>2
<1>4. w.table = [dim |-> w.table.dim, row |-> w.table.row]
  BY <1>1, <1>2
<1>5. StoreOK(w)
  BY <1>1, <1>2, <1>3, <1>4, StoreIs
<1> QED BY <1>1, <1>2, <1>5

(* Every store that an interrupt leaves is one, whatever was cut. *)
LEMMA RecordOK ==
  ASSUME NEW v, StoreOK(v),
         NEW n \in [Ids -> Node \cup {NoNode}], NEW D \in SUBSET Ids,
         NEW e \in [Ids -> Vector \cup {NoVec}],
         NEW d \in Nat \cup {NoDim}, NEW r \in [Ids -> Vector \cup {NoVec}],
         NEW k \in Nat \cup {NoDim},
         \A i \in Ids : i \in D \/ e[i] # NoVec => n[i] # NoNode,
         NEW w, w = [node |-> n, dirty |-> D, emb |-> e, table |-> [dim |-> d, row |-> r],
                     vecDim |-> k, model |-> v.model]
  PROVE  StoreOK(w)
<1>1. /\ w.node = n /\ w.dirty = D /\ w.emb = e /\ w.table = [dim |-> d, row |-> r]
      /\ w.table.dim = d /\ w.table.row = r /\ w.vecDim = k /\ w.model = v.model
  OBVIOUS
<1>2. w = [node |-> w.node, dirty |-> w.dirty, emb |-> w.emb,
           table |-> w.table, vecDim |-> w.vecDim, model |-> w.model]
  BY <1>1
<1>3. v.model \in Models \cup {NoModel}
  BY StoreIs
<1> QED BY <1>1, <1>2, <1>3, StoreIs

LEMMA ReapedOK ==
  ASSUME NEW v, StoreOK(v), NEW S \in SUBSET Ids
  PROVE  StoreOK(Reaped(v, S))
<1> DEFINE n == [i \in Ids |-> IF i \in S THEN NoNode ELSE v.node[i]]
           D == v.dirty \ S
           e == [i \in Ids |-> IF i \in S THEN NoVec ELSE v.emb[i]]
           a == [v EXCEPT !.node = n]
           b == [a EXCEPT !.dirty = D]
           w == Reaped(v, S)
<1>1. /\ v.node \in [Ids -> Node \cup {NoNode}] /\ v.dirty \subseteq Ids
      /\ v.emb \in [Ids -> Vector \cup {NoVec}] /\ v.table = [dim |-> v.table.dim, row |-> v.table.row]
      /\ v.table.dim \in Nat \cup {NoDim} /\ v.table.row \in [Ids -> Vector \cup {NoVec}]
      /\ v.vecDim \in Nat \cup {NoDim}
      /\ \A i \in Ids : i \in v.dirty \/ v.emb[i] # NoVec => v.node[i] # NoNode
  BY StoreIs
<1>2. /\ n \in [Ids -> Node \cup {NoNode}] /\ D \in SUBSET Ids /\ e \in [Ids -> Vector \cup {NoVec}]
      /\ \A i \in Ids : i \in D \/ e[i] # NoVec => n[i] # NoNode
  BY <1>1
<1>3. w = [b EXCEPT !.emb = e]
  BY Zenon DEF Reaped
<1> HIDE DEF n, D, e, w
<1>4. a = [node |-> n, dirty |-> v.dirty, emb |-> v.emb,
           table |-> v.table, vecDim |-> v.vecDim, model |-> v.model]
  BY DEF StoreOK, Store
<1> HIDE DEF a
<1>5. b = [node |-> n, dirty |-> D, emb |-> v.emb,
           table |-> v.table, vecDim |-> v.vecDim, model |-> v.model]
  BY <1>4
<1> HIDE DEF b
<1>6. w = [node |-> n, dirty |-> D, emb |-> e,
           table |-> v.table, vecDim |-> v.vecDim, model |-> v.model]
  BY <1>3, <1>5
<1>7. StoreOK(w)
  <2> DEFINE d == v.table.dim
             r == v.table.row
  <2>1. v.table = [dim |-> d, row |-> r] /\ d \in Nat \cup {NoDim} /\ r \in [Ids -> Vector \cup {NoVec}]
    BY <1>1
  <2> HIDE DEF d, r
  <2>2. w = [node |-> n, dirty |-> D, emb |-> e,
             table |-> [dim |-> d, row |-> r], vecDim |-> v.vecDim, model |-> v.model]
    BY <1>6, <2>1
  <2> QED BY <1>1, <1>2, <2>1, <2>2, RecordOK
<1> QED BY <1>7 DEF w

LEMMA RemoveOK ==
  ASSUME NEW v, StoreOK(v), NEW i \in Ids
  PROVE  StoreOK(Remove(v, i))
<1> DEFINE r == [v.table.row EXCEPT ![i] = NoVec]
           u == [v EXCEPT !.table.row[i] = NoVec]
<1>1. r \in [Ids -> Vector \cup {NoVec}]
  BY StoreIs
<1>2. u = [node |-> v.node, dirty |-> v.dirty, emb |-> v.emb,
           table |-> [dim |-> v.table.dim, row |-> r], vecDim |-> v.vecDim, model |-> v.model]
  BY DEF StoreOK, Store
<1>3. Remove(v, i) \in {u, v}
  BY DEF Remove
<1> HIDE DEF u, r
<1>4. /\ v.node \in [Ids -> Node \cup {NoNode}] /\ v.dirty \in SUBSET Ids
      /\ v.emb \in [Ids -> Vector \cup {NoVec}] /\ v.table.dim \in Nat \cup {NoDim}
      /\ v.vecDim \in Nat \cup {NoDim}
      /\ \A j \in Ids : j \in v.dirty \/ v.emb[j] # NoVec => v.node[j] # NoNode
  BY StoreIs
<1>5. StoreOK(u)
  BY <1>1, <1>2, <1>4, RecordOK
<1> QED BY <1>3, <1>5

LEMMA SetVecDimOK ==
  ASSUME NEW v, StoreOK(v), NEW k \in Nat \cup {NoDim}
  PROVE  StoreOK([v EXCEPT !.vecDim = k])
<1> DEFINE w == [v EXCEPT !.vecDim = k]
<1>1. w = [node |-> v.node, dirty |-> v.dirty, emb |-> v.emb,
           table |-> v.table, vecDim |-> k, model |-> v.model]
  BY DEF StoreOK, Store
<1> HIDE DEF w
<1>2. v.table.dim \in Nat \cup {NoDim} /\ v.table.row \in [Ids -> Vector \cup {NoVec}]
      /\ v.table = [dim |-> v.table.dim, row |-> v.table.row]
  BY StoreIs
<1>3. StoreOK(w)
  BY <1>1, <1>2, SetTableIs
<1> QED BY <1>3 DEF w

LEMMA SetTableOK ==
  ASSUME NEW v, StoreOK(v), NEW d \in Nat \cup {NoDim}, NEW r \in [Ids -> Vector \cup {NoVec}],
         NEW t, t = [dim |-> d, row |-> r], NEW k \in Nat \cup {NoDim}
  PROVE  StoreOK([v EXCEPT !.table = t]) /\ StoreOK([v EXCEPT !.table = t, !.vecDim = k])
<1> DEFINE a == [v EXCEPT !.table = t]
           b == [v EXCEPT !.table = t, !.vecDim = k]
<1>1. a = [node |-> v.node, dirty |-> v.dirty, emb |-> v.emb,
           table |-> t, vecDim |-> v.vecDim, model |-> v.model]
  BY DEF StoreOK, Store
<1>2. b = [node |-> v.node, dirty |-> v.dirty, emb |-> v.emb, table |-> t, vecDim |-> k, model |-> v.model]
  BY SetTableRecord
<1>3. v.vecDim \in Nat \cup {NoDim}
  BY StoreIs
<1> HIDE DEF a, b
<1>4. StoreOK(a)
  BY <1>1, <1>3, SetTableIs
<1>5. StoreOK(b)
  BY <1>2, SetTableIs
<1> QED BY <1>4, <1>5 DEF a, b

(* The statements of set_embedding before its hook, the mark cleared or not. *)
LEMMA BlobOK ==
  ASSUME NEW v, StoreOK(v), NEW i \in Live(v), NEW x \in Vector
  PROVE  LET u == [v EXCEPT !.emb[i] = x, !.dirty = v.dirty \ {i}] IN
         StoreOK(u) /\ StoreOK([u EXCEPT !.dirty = v.dirty])
<1> DEFINE e == [v.emb EXCEPT ![i] = x]
           D == v.dirty \ {i}
           a == [v EXCEPT !.emb[i] = x]
           u == [a EXCEPT !.dirty = D]
           s == [u EXCEPT !.dirty = v.dirty]
<1>1. /\ v.node \in [Ids -> Node \cup {NoNode}] /\ v.dirty \in SUBSET Ids
      /\ v.emb \in [Ids -> Vector \cup {NoVec}] /\ v.table = [dim |-> v.table.dim, row |-> v.table.row]
      /\ v.table.dim \in Nat \cup {NoDim} /\ v.table.row \in [Ids -> Vector \cup {NoVec}]
      /\ v.vecDim \in Nat \cup {NoDim} /\ i \in Ids /\ v.node[i] # NoNode
      /\ \A j \in Ids : j \in v.dirty \/ v.emb[j] # NoVec => v.node[j] # NoNode
  BY StoreIs DEF Live
<1>2. /\ e \in [Ids -> Vector \cup {NoVec}] /\ D \in SUBSET Ids
      /\ \A j \in Ids : j \in v.dirty \cup D \/ e[j] # NoVec => v.node[j] # NoNode
  BY <1>1
<1>3. a = [node |-> v.node, dirty |-> v.dirty, emb |-> e,
           table |-> v.table, vecDim |-> v.vecDim, model |-> v.model]
  BY DEF StoreOK, Store
<1> HIDE DEF a, e, D
<1>4. u = [node |-> v.node, dirty |-> D, emb |-> e,
           table |-> v.table, vecDim |-> v.vecDim, model |-> v.model]
  BY <1>3
<1>8. u = [v EXCEPT !.emb[i] = x, !.dirty = v.dirty \ {i}]
  BY Zenon DEF a, D
<1> HIDE DEF u
<1>5. s = [node |-> v.node, dirty |-> v.dirty, emb |-> e,
           table |-> v.table, vecDim |-> v.vecDim, model |-> v.model]
  BY <1>4
<1> HIDE DEF s
<1> DEFINE t == v.table
           d == v.table.dim
           r == v.table.row
<1>6. t = [dim |-> d, row |-> r] /\ d \in Nat \cup {NoDim} /\ r \in [Ids -> Vector \cup {NoVec}]
  BY <1>1
<1> HIDE DEF t, d, r
<1>7. StoreOK(u) /\ StoreOK(s)
  <2>1. /\ u = [node |-> v.node, dirty |-> D, emb |-> e,
                table |-> [dim |-> d, row |-> r], vecDim |-> v.vecDim, model |-> v.model]
        /\ s = [node |-> v.node, dirty |-> v.dirty, emb |-> e,
                table |-> [dim |-> d, row |-> r], vecDim |-> v.vecDim, model |-> v.model]
    BY <1>4, <1>5, <1>6 DEF t
  <2> HIDE DEF t
  <2>2. /\ v.node \in [Ids -> Node \cup {NoNode}] /\ v.dirty \in SUBSET Ids
        /\ v.vecDim \in Nat \cup {NoDim}
    BY <1>1
  <2>3. e \in [Ids -> Vector \cup {NoVec}] /\ D \in SUBSET Ids
    BY <1>2
  <2>4. \A j \in Ids : j \in D \/ e[j] # NoVec => v.node[j] # NoNode
    BY <1>2
  <2>5. \A j \in Ids : j \in v.dirty \/ e[j] # NoVec => v.node[j] # NoNode
    BY <1>2
  <2>6. StoreOK(u)
    BY <1>6, <2>1, <2>2, <2>3, <2>4, RecordOK
  <2>7. StoreOK(s)
    BY <1>6, <2>1, <2>2, <2>3, <2>5, RecordOK
  <2> QED BY <2>6, <2>7
<1> QED BY <1>7, <1>8 DEF s

LEMMA LeastExists ==
  ASSUME NEW S \in SUBSET Nat, S # {}
  PROVE  \E x \in S : \A y \in S : x <= y
<1> DEFINE Lt == {ss \in Nat \X Nat : ss[1] < ss[2]}
<1>1. IsWellFoundedOn(Lt, Nat)
  BY NatLessThanWellFounded, Zenon DEF OpToRel
<1> HIDE DEF Lt
<1>2. PICK x \in S : \A y \in S : ~ (<<y, x>> \in Lt)
  BY <1>1, WFMin
<1>3. ASSUME NEW y \in S
      PROVE  x <= y
  <2>1. ~ (<<y, x>> \in Lt)
    BY <1>2
  <2> QED BY <2>1 DEF Lt
<1> QED BY <1>3

(* Of the dimensions in use one is the most frequent and smallest, so the  *)
(* prevailing one is in use.                                               *)
LEMMA PrevailingIs ==
  ASSUME NEW v, StoreOK(v)
  PROVE  \/ Prevailing(v) = NoDim /\ v.emb = NoRows
         \/ \E i \in Ids : v.emb[i] # NoVec /\ Dim(v.emb[i]) = Prevailing(v)
<1> DEFINE Of(d) == {i \in Ids : v.emb[i] # NoVec /\ Dim(v.emb[i]) = d}
           count(d) == Cardinality(Of(d))
           Dims == {Dim(v.emb[i]) : i \in {j \in Ids : v.emb[j] # NoVec}}
           Best(d) == \A e \in Dims : count(e) < count(d) \/ (count(e) = count(d) /\ d <= e)
<1>1. Prevailing(v) = IF Dims = {} THEN NoDim ELSE CHOOSE d \in Dims : Best(d)
  BY Zenon DEF Prevailing
<1>2. CASE Dims = {}
  <2>1. \A i \in Ids : v.emb[i] = NoVec
    BY <1>2
  <2>2. v.emb = NoRows
    BY <2>1, StoreIs DEF NoRows
  <2> QED BY <1>1, <1>2, <2>2
<1>3. CASE Dims # {}
  <2> DEFINE N == Cardinality(Ids)
  <2>1. N \in Nat /\ \A d : count(d) \in Nat /\ count(d) <= N
    <3>1. N \in Nat
      BY VecIndexAssumption, FS_CardinalityType
    <3>2. ASSUME NEW d PROVE count(d) \in Nat /\ count(d) <= N
      <4>1. Of(d) \subseteq Ids
        OBVIOUS
      <4> HIDE DEF Of
      <4>2. IsFiniteSet(Of(d)) /\ count(d) <= N
        BY <4>1, VecIndexAssumption, FS_Subset
      <4> QED BY <4>2, FS_CardinalityType
    <3> QED BY <3>1, <3>2
  <2>2. Dims \in SUBSET Nat
    BY DimNat, StoreIs
  <2> HIDE DEF N, count, Dims
  <2> DEFINE K == {N - count(d) : d \in Dims}
  <2>3. K \in SUBSET Nat /\ K # {}
    BY <1>3, <2>1
  <2>4. PICK k \in K : \A j \in K : k <= j
    <3> HIDE DEF K
    <3> QED BY <2>3, LeastExists
  <2> DEFINE D == {d \in Dims : N - count(d) = k}
  <2>5. D \in SUBSET Nat /\ D # {}
    BY <2>2, <2>4
  <2>6. PICK d \in D : \A e \in D : d <= e
    <3> HIDE DEF D
    <3> QED BY <2>5, LeastExists
  <2>7. Best(d)
    <3> SUFFICES ASSUME NEW e \in Dims
                 PROVE  count(e) < count(d) \/ (count(e) = count(d) /\ d <= e)
      OBVIOUS
    <3>1. N - count(d) = k /\ N - count(d) <= N - count(e)
      BY <2>4, <2>6
    <3>2. count(e) <= count(d)
      BY <2>1, <3>1
    <3>3. count(e) = count(d) => d <= e
      BY <2>6, <3>1
    <3> QED BY <2>1, <3>2, <3>3
  <2>8. Prevailing(v) \in Dims
    <3>1. d \in Dims
      BY <2>6
    <3> HIDE DEF Best
    <3> QED BY <1>1, <1>3, <2>7, <3>1
  <2> QED BY <2>8 DEF Dims
<1> QED BY <1>2, <1>3

(* What rebuild_index() puts in place of the table that is gone. *)
LEMMA RefillIs ==
  ASSUME NEW v, StoreOK(v), v.table = NoTable
  PROVE  LET w == Refill(v, Prevailing(v))
             d == Prevailing(v) IN
         /\ StoreOK(w) /\ d \in Nat \cup {NoDim}
         /\ w.node = v.node /\ w.emb = v.emb /\ w.table.dim = d
         /\ \A i \in Ids : w.table.row[i] = IF v.emb[i] # NoVec /\ Dim(v.emb[i]) = d THEN v.emb[i] ELSE NoVec
         /\ \/ d = NoDim /\ v.emb = NoRows
            \/ \E i \in Ids : v.emb[i] # NoVec /\ Dim(v.emb[i]) = d
<1> DEFINE d == Prevailing(v)
           w == Refill(v, d)
<1>1. \/ d = NoDim /\ v.emb = NoRows
      \/ \E i \in Ids : v.emb[i] # NoVec /\ Dim(v.emb[i]) = d
  BY PrevailingIs
<1>2. v.emb \in [Ids -> Vector \cup {NoVec}] /\ v.table = NoTable
  BY StoreIs
<1> HIDE DEF d
<1>3. d \in Nat \cup {NoDim}
  BY <1>1, <1>2, DimNat
<1>4. CASE d = NoDim
  <2>1. w = v
    BY <1>4 DEF Refill
  <2>2. v.emb = NoRows
    BY <1>1, <1>2, <1>4, DimNat, VecIndexAssumption
  <2> HIDE DEF w
  <2>3. \A i \in Ids : v.table.row[i] = NoVec /\ v.emb[i] = NoVec
    BY <1>2, <2>2 DEF NoTable, NoRows
  <2>4. v.table.dim = NoDim
    BY <1>2 DEF NoTable
  <2> QED BY <1>1, <1>3, <1>4, <2>1, <2>3, <2>4 DEF d, w
<1>5. CASE d # NoDim
  <2> DEFINE r == [i \in Ids |-> IF v.emb[i] # NoVec /\ Dim(v.emb[i]) = d THEN v.emb[i] ELSE NoVec]
  <2> DEFINE t == [dim |-> d, row |-> r]
  <2>1. w = [v EXCEPT !.table = t, !.vecDim = d]
    BY <1>5 DEF Refill, Filled
  <2>2. r \in [Ids -> Vector \cup {NoVec}]
    BY <1>2
  <2>3. \A i \in Ids : r[i] = IF v.emb[i] # NoVec /\ Dim(v.emb[i]) = d THEN v.emb[i] ELSE NoVec
    OBVIOUS
  <2>4. t = [dim |-> d, row |-> r]
    OBVIOUS
  <2> HIDE DEF w, r, t
  <2>5. w = [node |-> v.node, dirty |-> v.dirty, emb |-> v.emb, table |-> t, vecDim |-> d, model |-> v.model]
    BY <2>1, SetTableRecord
  <2>6. StoreOK(w) /\ w.node = v.node /\ w.emb = v.emb /\ w.table.dim = d /\ w.table.row = r
    BY <1>3, <2>2, <2>4, <2>5, SetTableIs
  <2> QED BY <1>1, <1>3, <2>3, <2>6 DEF d, w
<1> QED BY <1>4, <1>5

-----------------------------------------------------------------------------
Typed ==
    /\ StoreOK(db) /\ StoreOK(view)
    /\ txn \in BOOLEAN /\ (~txn => view = db)
    /\ session \in [kind : Kinds, model : Models] \cup {Closed}
    /\ dim \in Nat \cup {NoDim}
    /\ pc \in {"idle", "index", "refresh", "reembed", "rebuild", "refill"}
    /\ todo \subseteq Ids
    /\ warned \in BOOLEAN

LEMMA TypesAre == TypeOK <=> Typed
BY DEF TypeOK, Typed, StoreOK

LEMMA SessionIs ==
  ASSUME VInv
  PROVE  /\ session # Closed => session.model \in Models /\ session.kind \in {"vec", "plain"}
         /\ session.kind = "vec" => session # Closed
         /\ session = Closed => session.kind = "closed"
<1>1. session = Closed \/ session \in [kind : Kinds, model : Models]
  BY DEF VInv, TypeOK
<1>2. Closed.kind = "closed"
  BY DEF Closed
<1>3. session \in [kind : Kinds, model : Models] =>
          session.model \in Models /\ session.kind \in {"vec", "plain"}
  BY VecIndexAssumption
<1> QED BY <1>1, <1>2, <1>3

LEMMA InitVInv == Init => VInv
<1> SUFFICES ASSUME Init PROVE VInv
  OBVIOUS
<1>1. Typed
  BY EmptyOK DEF Init, Typed
<1> QED BY <1>1, TypesAre DEF Init, VInv

(* The store that open() commits. *)
LEMMA OpenIs ==
  ASSUME VInv, NEW kind \in Kinds, NEW m \in Models, Open(kind, m)
  PROVE  LET d == IF kind = "vec" THEN db.vecDim ELSE NoDim IN
         /\ d \in Nat \cup {NoDim} /\ dim' = d
         /\ StoreOK(view') /\ db' = view' /\ txn' = FALSE
         /\ view'.node = db.node /\ view'.emb = db.emb
         /\ d = NoDim => view'.table = db.table /\ view'.vecDim = db.vecDim
         /\ d # NoDim => /\ view'.table = IF db.table.dim = NoDim THEN [dim |-> d, row |-> NoRows]
                                           ELSE db.table
                         /\ view'.vecDim = d
<1> DEFINE d == IF kind = "vec" THEN db.vecDim ELSE NoDim
           u == IF d = NoDim THEN db ELSE EnsureTable(db, d)
<1>1. StoreOK(db) /\ d \in Nat \cup {NoDim}
  BY StoreIs, TypesAre DEF VInv, Typed
<1>2. dim' = d /\ view' = [u EXCEPT !.model = m] /\ db' = view' /\ txn' = FALSE
  BY DEF Open, Commit
<1> HIDE DEF d
<1>3. /\ StoreOK(u) /\ u.node = db.node /\ u.emb = db.emb
      /\ d = NoDim => u.table = db.table /\ u.vecDim = db.vecDim
      /\ d # NoDim => /\ u.table = IF db.table.dim = NoDim THEN [dim |-> d, row |-> NoRows] ELSE db.table
                      /\ u.vecDim = d
  BY <1>1, EnsureTableIs
<1> HIDE DEF u
<1>4. /\ StoreOK(view') /\ view'.node = u.node /\ view'.emb = u.emb
      /\ view'.table = u.table /\ view'.vecDim = u.vecDim
  BY <1>2, <1>3, SetModelIs
<1> QED BY <1>1, <1>2, <1>3, <1>4 DEF d

LEMMA OpenVInv ==
  ASSUME VInv, NEW kind \in Kinds, NEW m \in Models, Open(kind, m)
  PROVE  VInv'
<1>1. /\ session = Closed /\ session' = [kind |-> kind, model |-> m] /\ warned' \in BOOLEAN
      /\ pc' = pc /\ todo' = todo /\ pc = "idle" /\ todo = {}
  BY DEF Open, VInv
<1>2. Typed'
  BY <1>1, OpenIs, TypesAre DEF VInv, Typed
<1>3. TypeOK'
  BY <1>2 DEF Typed, TypeOK, StoreOK
<1>4. session' # Closed
  BY <1>1, VecIndexAssumption DEF Closed
<1> QED BY <1>1, <1>3, <1>4 DEF VInv

(* The steps that end a call or the session and write nothing new. *)
LEMMA QuietVInv ==
  ASSUME VInv, \/ Close \/ Query \/ StartIndex \/ CommitIndex \/ RollbackIndex
               \/ CommitRefresh \/ StartRebuild \/ \E i \in Ids : LeaveDirty(i)
               \/ UNCHANGED vars
  PROVE  VInv'
<1>1. /\ db' \in {db, view} /\ view' \in {db, view}
      /\ txn' \in BOOLEAN /\ (~txn' => view' = db')
      /\ session' \in {session, Closed} /\ (session' = Closed => pc' = "idle")
      /\ dim' \in {dim, NoDim}
      /\ pc' \in {"idle", "index", "refresh", "reembed", "rebuild", "refill"}
      /\ todo' \subseteq todo /\ (pc' \notin {"refresh", "reembed"} => todo' = {})
      /\ warned' \in {warned, FALSE}
      /\ view' = view \/ todo' = {}
      /\ pc' = "refill" => pc = "refill" /\ view' = view
  BY SessionIs DEF VInv, TypeOK, Close, Query, StartIndex, CommitIndex, RollbackIndex, CommitRefresh,
     StartRebuild, LeaveDirty, Commit, vars
<1>2. Typed
  BY TypesAre DEF VInv
<1>3. TypeOK'
  BY <1>1, <1>2 DEF Typed, TypeOK, StoreOK
<1>4. todo' \subseteq Live(view')
  BY <1>1 DEF VInv
<1> QED BY <1>1, <1>3, <1>4 DEF VInv, Live

(* A step that writes to the open transaction. *)
LEMMA WriteVInv ==
  ASSUME VInv, NEW v, StoreOK(v), Write(v), db' = db \/ (~txn /\ StoreOK(db')),
         session' = session, session # Closed,
         dim' \in Nat \cup {NoDim}, warned' = warned,
         pc' \in {"idle", "index", "refresh", "reembed", "rebuild", "refill"},
         todo' \subseteq Live(v), pc' \notin {"refresh", "reembed"} => todo' = {},
         pc' = "refill" => v.table = NoTable
  PROVE  VInv'
<1>1. Typed
  BY TypesAre DEF VInv
<1>2. StoreOK(db') /\ StoreOK(view') /\ view' = v /\ txn' = TRUE
  BY <1>1 DEF Typed, Write
<1>3. todo' \subseteq Ids
  BY DEF Live
<1>4. TypeOK'
  BY <1>1, <1>2, <1>3 DEF Typed, TypeOK, StoreOK
<1> QED BY <1>2, <1>4 DEF VInv, Live

LEMMA IndexVInv ==
  ASSUME VInv, \/ \E i \in Ids : Delete(i) \/ \E t \in Texts : Change(i, t)
               \/ \E n \in Node : Insert(n)
  PROVE  VInv'
<1>1. StoreOK(view) /\ session # Closed /\ todo = {}
  BY TypesAre DEF VInv, Typed, Delete, Change, Insert
<1>2. CASE \E i \in Ids : Delete(i)
  <2>1. PICK i \in Ids : Delete(i)
    BY <1>2
  <2>2. StoreOK(DeleteNode(view, i))
    BY <1>1, DeleteNodeIs
  <2> QED BY <1>1, <2>1, <2>2, WriteVInv, TypesAre DEF Delete, VInv, Typed
<1>3. CASE \E i \in Ids, t \in Texts : Change(i, t)
  <2>1. PICK i \in Ids, t \in Texts : Change(i, t)
    BY <1>3
  <2> DEFINE n == [view.node[i] EXCEPT !.text = t]
  <2>2. n \in Node
    BY <1>1, <2>1, StoreIs DEF Change, Live, Node
  <2> HIDE DEF n
  <2>3. StoreOK(PutNode(view, i, n))
    BY <1>1, <2>2, PutNodeIs
  <2> QED BY <1>1, <2>1, <2>3, WriteVInv, TypesAre DEF Change, VInv, Typed, n
<1>4. CASE \E n \in Node : Insert(n)
  <2>1. PICK n \in Node : Insert(n)
    BY <1>4
  <2> DEFINE i == NextId(view)
  <2>2. i \in Ids /\ Write(PutNode(view, i, n)) /\ UNCHANGED <<db, session, dim, pc, todo, warned>>
        /\ pc = "index"
    BY <2>1 DEF Insert
  <2> HIDE DEF i
  <2>3. StoreOK(PutNode(view, i, n))
    BY <1>1, <2>2, PutNodeIs
  <2> QED BY <1>1, <2>2, <2>3, WriteVInv, TypesAre DEF VInv, Typed
<1> QED BY <1>2, <1>3, <1>4

LEMMA StartRefreshVInv ==
  ASSUME VInv, NEW full \in BOOLEAN, StartRefresh(full)
  PROVE  VInv'
<1>1. /\ StoreOK(view) /\ session # Closed /\ session' = session /\ db' = db /\ dim' = dim
      /\ warned' = warned /\ pc' \in {"refresh", "reembed"} /\ todo' = view'.dirty
  BY TypesAre DEF VInv, Typed, StartRefresh
<1>2. CASE full
  <2> DEFINE v == [view EXCEPT !.dirty = Live(view)]
  <2>1. Write(v) /\ StoreOK(v) /\ v.dirty = Live(view) /\ Live(v) = Live(view)
    BY <1>1, <1>2, AllDirtyIs DEF StartRefresh, Live
  <2> HIDE DEF v
  <2>2. todo' = v.dirty
    BY <1>1, <2>1 DEF Write
  <2> QED BY <1>1, <2>1, <2>2, WriteVInv, TypesAre DEF VInv, Typed
<1>3. CASE ~full
  <2>1. view' = view /\ txn' = txn
    BY <1>3 DEF StartRefresh
  <2>2. view.dirty \subseteq Live(view) /\ view.dirty \subseteq Ids
    BY <1>1 DEF StoreOK, Live
  <2>3. TypeOK'
    BY <1>1, <2>1, <2>2, TypesAre DEF VInv, TypeOK
  <2> QED BY <1>1, <2>1, <2>2, <2>3 DEF VInv, Live
<1> QED BY <1>2, <1>3

(* The vector that refresh() gives to a node. *)
LEMMA EmbedIs ==
  ASSUME VInv, NEW i \in Ids, Embed(i)
  PROVE  LET x == [of |-> view.node[i], model |-> session.model] IN
         /\ x \in Vector /\ Dim(x) = DimOf[session.model] /\ Dim(x) \in Nat /\ i \in Live(view)
         /\ StoreOK(view) /\ session # Closed
<1>1. i \in Live(view) /\ session # Closed /\ StoreOK(view)
  BY TypesAre DEF VInv, Typed, Embed
<1>2. view.node[i] \in Node /\ session.model \in Models
  BY <1>1, StoreIs, SessionIs DEF Live
<1> QED BY <1>1, <1>2, DimNat DEF Vector, Dim

LEMMA EmbedVInv ==
  ASSUME VInv, NEW i \in Ids, Embed(i)
  PROVE  VInv'
<1> DEFINE x == [of |-> view.node[i], model |-> session.model]
           v == SetEmbedding(view, i, x)
<1>1. x \in Vector /\ Dim(x) \in Nat /\ i \in Live(view) /\ StoreOK(view) /\ session # Closed
  BY EmbedIs
<1>2. /\ Write(v) /\ dim' \in {Dim(x), dim} /\ todo' = todo \ {i}
      /\ UNCHANGED <<db, session, pc, warned>> /\ pc \in {"refresh", "reembed"}
  BY DEF Embed
<1> HIDE DEF x
<1>3. v = SetEmbedding(view, i, x)
  OBVIOUS
<1> HIDE DEF v
<1>5. StoreOK(v) /\ v.node = view.node
  BY <1>1, <1>3, SetEmbeddingOK
<1>4. todo' \subseteq Live(v)
  BY <1>2, <1>5 DEF VInv, Live
<1> QED BY <1>1, <1>2, <1>4, <1>5, WriteVInv, TypesAre DEF VInv, Typed

LEMMA RebuildVInv ==
  ASSUME VInv, DropTable \/ RefillTable
  PROVE  VInv'
<1>1. StoreOK(view) /\ session # Closed /\ todo = {}
  BY TypesAre DEF VInv, Typed, DropTable, RefillTable
<1>2. CASE DropTable
  <2> DEFINE gone == [view EXCEPT !.table = NoTable]
             v == [view EXCEPT !.table = NoTable, !.vecDim = NoDim]
  <2>1. /\ pc' = "refill" /\ db' = IF txn THEN db ELSE gone
        /\ Write(v) /\ dim' = NoDim /\ UNCHANGED <<session, todo, warned>>
    BY <1>2 DEF DropTable
  <2>2. /\ v = [node |-> view.node, dirty |-> view.dirty, emb |-> view.emb,
                table |-> NoTable, vecDim |-> NoDim, model |-> view.model]
        /\ NoTable = [dim |-> NoDim, row |-> NoRows]
    BY <1>1, SetTableRecord DEF NoTable
  <2>5. gone = [node |-> view.node, dirty |-> view.dirty, emb |-> view.emb,
                table |-> NoTable, vecDim |-> view.vecDim, model |-> view.model]
    BY <1>1 DEF StoreOK, Store
  <2>3. StoreOK(v) /\ v.table = NoTable /\ StoreOK(gone)
    <3> HIDE DEF v, gone
    <3>1. view.vecDim \in Nat \cup {NoDim} /\ NoDim \in Nat \cup {NoDim}
          /\ NoRows \in [Ids -> Vector \cup {NoVec}]
      BY <1>1, StoreIs, EmptyOK
    <3>2. StoreOK(v) /\ v.table = NoTable
      <4>1. /\ v.node = view.node /\ v.dirty = view.dirty /\ v.emb = view.emb
            /\ v.table = NoTable /\ v.vecDim = NoDim /\ v.model = view.model
            /\ NoTable.dim = NoDim /\ NoTable.row = NoRows
        BY <2>2
      <4> QED BY <1>1, <2>2, <3>1, <4>1, StoreIs
    <3>3. StoreOK(gone)
      <4>1. /\ gone.node = view.node /\ gone.dirty = view.dirty /\ gone.emb = view.emb
            /\ gone.table = NoTable /\ gone.vecDim = view.vecDim /\ gone.model = view.model
            /\ NoTable.dim = NoDim /\ NoTable.row = NoRows
        BY <2>2, <2>5
      <4> QED BY <1>1, <2>2, <2>5, <3>1, <4>1, StoreIs
    <3> QED BY <3>2, <3>3
  <2> HIDE DEF v, gone
  <2>4. db' = db \/ (~txn /\ StoreOK(db'))
    BY <2>1, <2>3, TypesAre DEF VInv, Typed
  <2> QED BY <1>1, <2>1, <2>3, <2>4, WriteVInv
<1>3. CASE RefillTable
  <2> DEFINE d == Prevailing(view)
             v == Refill(view, d)
  <2>1. /\ pc = "refill" /\ pc' = "idle" /\ Write(v) /\ dim' = d
        /\ UNCHANGED <<db, session, todo, warned>>
    BY <1>3 DEF RefillTable
  <2>2. StoreOK(v) /\ d \in Nat \cup {NoDim}
    BY <1>1, <2>1, RefillIs DEF VInv
  <2> HIDE DEF v, d
  <2> QED BY <1>1, <2>1, <2>2, WriteVInv
<1> QED BY <1>2, <1>3

(* What an interrupt leaves is a store, wherever the call was cut. *)
LEMMA CutUpsertOK ==
  ASSUME NEW v, StoreOK(v), NEW i \in Ids, NEW x \in Vector, CutUpsert(v, i, x)
  PROVE  StoreOK(view') /\ txn' = TRUE /\ dim' \in {dim, Dim(x)}
<1> DEFINE made == EnsureTable(v, Dim(x))
<1>1. /\ view' \in {Remove(v, i), [made EXCEPT !.vecDim = v.vecDim], made, Remove(made, i)}
      /\ txn' = TRUE /\ dim' \in {dim, Dim(x)}
  BY DEF CutUpsert, Write
<1>2. v.vecDim \in Nat \cup {NoDim} /\ Dim(x) \in Nat
  BY StoreIs, DimNat
<1>3. StoreOK(made)
  BY <1>2, EnsureTableIs
<1> HIDE DEF made
<1>4. StoreOK([made EXCEPT !.vecDim = v.vecDim])
  BY <1>2, <1>3, SetVecDimOK
<1>5. StoreOK(Remove(v, i)) /\ StoreOK(Remove(made, i))
  BY <1>3, RemoveOK
<1> QED BY <1>1, <1>3, <1>4, <1>5

LEMMA CutEmbedOK ==
  ASSUME VInv, CutEmbed
  PROVE  /\ StoreOK(view') /\ txn' = TRUE /\ db' = db
         /\ dim' = dim \/ (session # Closed /\ dim' = DimOf[session.model])
<1>1. StoreOK(view) /\ session # Closed /\ session.model \in Models
  BY TypesAre, SessionIs DEF VInv, Typed, CutEmbed
<1>2. PICK i \in todo :
         LET x == [of |-> view.node[i], model |-> session.model]
             v == [view EXCEPT !.emb[i] = x, !.dirty = view.dirty \ {i}]
         IN  \/ Write([v EXCEPT !.dirty = view.dirty]) /\ dim' = dim
             \/ Write(v) /\ dim' = dim
             \/ session.kind = "vec" /\ CutUpsert(v, i, x)
  BY DEF CutEmbed
<1> DEFINE x == [of |-> view.node[i], model |-> session.model]
           v == [view EXCEPT !.emb[i] = x, !.dirty = view.dirty \ {i}]
<1>3. i \in Live(view) /\ i \in Ids
  BY DEF VInv, Live
<1>4. view.node[i] \in Node
  BY <1>1, <1>3, StoreIs DEF Live
<1>5. x \in Vector /\ Dim(x) = DimOf[session.model]
  BY <1>1, <1>4 DEF Vector, Dim
<1>6. \/ Write([v EXCEPT !.dirty = view.dirty]) /\ dim' = dim
      \/ Write(v) /\ dim' = dim
      \/ session.kind = "vec" /\ CutUpsert(v, i, x)
  BY <1>2
<1> HIDE DEF x
<1>7. StoreOK(v) /\ StoreOK([v EXCEPT !.dirty = view.dirty])
  BY <1>1, <1>3, <1>5, BlobOK
<1> HIDE DEF v
<1>8. db' = db
  BY DEF CutEmbed
<1>9. CASE CutUpsert(v, i, x)
  BY <1>1, <1>3, <1>5, <1>7, <1>8, <1>9, CutUpsertOK
<1> QED BY <1>1, <1>6, <1>7, <1>8, <1>9 DEF Write

LEMMA CutRefillOK ==
  ASSUME VInv, CutRefill
  PROVE  StoreOK(view') /\ txn' = TRUE /\ db' = db /\ dim' \in Nat \cup {NoDim}
<1> DEFINE d == Prevailing(view)
           Row(n) == [i \in Ids |-> IF i <= n THEN Filled(view, d).row[i] ELSE NoVec]
           Part(n) == [dim |-> d, row |-> Row(n)]
<1>1. StoreOK(view) /\ dim \in Nat \cup {NoDim}
  BY TypesAre DEF VInv, Typed
<1>2. \/ \E n \in {0} \cup Ids : view' = [view EXCEPT !.table = Part(n)] /\ dim' = dim
      \/ \E n \in {0} \cup Ids :
            view' = [view EXCEPT !.table = Part(n), !.vecDim = d] /\ dim' \in {dim, d}
  BY DEF CutRefill, Write
<1>3. txn' = TRUE /\ db' = db
  BY DEF CutRefill, Write
<1>4. d \in Nat \cup {NoDim}
  <2>1. view.emb \in [Ids -> Vector \cup {NoVec}]
    BY <1>1, StoreIs
  <2> QED BY <1>1, <2>1, PrevailingIs, DimNat
<1> HIDE DEF d
<1>5. ASSUME NEW n \in {0} \cup Ids
      PROVE  StoreOK([view EXCEPT !.table = Part(n)]) /\ StoreOK([view EXCEPT !.table = Part(n), !.vecDim = d])
  <2>1. view.emb \in [Ids -> Vector \cup {NoVec}]
    BY <1>1, StoreIs
  <2>2. Row(n) \in [Ids -> Vector \cup {NoVec}]
    BY <2>1 DEF Filled
  <2> DEFINE r == Row(n)
             t == Part(n)
  <2>3. t = [dim |-> d, row |-> r]
    OBVIOUS
  <2> HIDE DEF r, t
  <2>4. StoreOK([view EXCEPT !.table = t]) /\ StoreOK([view EXCEPT !.table = t, !.vecDim = d])
    BY <1>1, <1>4, <2>2, <2>3, SetTableOK DEF r
  <2> QED BY <2>4 DEF t
<1> HIDE DEF Part
<1> QED BY <1>1, <1>2, <1>3, <1>4, <1>5

LEMMA InterruptIs ==
  ASSUME VInv, Interrupt
  PROVE  /\ StoreOK(db') /\ StoreOK(view')
         /\ txn' \in BOOLEAN /\ (~txn' => view' = db')
         /\ dim' \in Nat \cup {NoDim}
<1>1. Typed /\ StoreOK(view) /\ StoreOK(db) /\ txn \in BOOLEAN /\ dim \in Nat \cup {NoDim}
  BY TypesAre DEF VInv, Typed
<1>2. CASE UNCHANGED <<db, view, txn, dim>>
  BY <1>1, <1>2 DEF Typed
<1>3. CASE CutDelete
  <2>1. PICK S \in SUBSET Live(view) : Write(Reaped(view, S))
    BY <1>3 DEF CutDelete
  <2>2. StoreOK(Reaped(view, S))
    BY <1>1, ReapedOK DEF Live
  <2> QED BY <1>1, <1>3, <2>1, <2>2 DEF CutDelete, Write
<1>4. CASE CutEmbed
  <2>1. session # Closed => DimOf[session.model] \in Nat
    BY SessionIs, VecIndexAssumption
  <2> QED BY <1>1, <1>4, <2>1, CutEmbedOK
<1>5. CASE CutDrop
  <2> DEFINE w == [view EXCEPT !.table = NoTable]
  <2>1. view' = w /\ db' = (IF txn THEN db ELSE view') /\ txn' = txn /\ dim' \in {dim, NoDim}
    BY <1>5 DEF CutDrop
  <2>2. NoTable = [dim |-> NoDim, row |-> NoRows] /\ NoRows \in [Ids -> Vector \cup {NoVec}]
    BY EmptyOK DEF NoTable
  <2>3. StoreOK(w)
    <3> DEFINE t == NoTable
    <3>1. t = [dim |-> NoDim, row |-> NoRows]
      BY <2>2
    <3> HIDE DEF t
    <3>2. StoreOK([view EXCEPT !.table = t])
      BY <1>1, <2>2, <3>1, SetTableOK
    <3> QED BY <3>2 DEF t
  <2> HIDE DEF w
  <2> QED BY <1>1, <2>1, <2>3
<1>6. CASE CutRefill
  BY <1>1, <1>6, CutRefillOK
<1> QED BY <1>2, <1>3, <1>4, <1>5, <1>6 DEF Interrupt

LEMMA InterruptVInv ==
  ASSUME VInv, Interrupt
  PROVE  VInv'
<1>1. /\ session' = session /\ warned' = warned /\ pc' = "idle" /\ todo' = {}
      /\ session # Closed /\ Typed
  BY TypesAre DEF VInv, Interrupt
<1>2. TypeOK'
  BY <1>1, InterruptIs DEF Typed, TypeOK, StoreOK
<1> QED BY <1>1, <1>2 DEF VInv

LEMMA NextVInv == VInv /\ [Next]_vars => VInv'
<1> SUFFICES ASSUME VInv, [Next]_vars PROVE VInv'
  OBVIOUS
<1> QED BY OpenVInv, QuietVInv, IndexVInv, StartRefreshVInv, EmbedVInv, RebuildVInv, InterruptVInv
       DEF Next

LEMMA SpecVInv == Spec => []VInv
BY InitVInv, NextVInv, PTL DEF Spec

(* Through sessions of any kind the types hold, and only nodes have        *)
(* embeddings and dirty marks.                                             *)
THEOREM TypeCorrect == Spec => []TypeOK
BY SpecVInv, PTL DEF VInv

-----------------------------------------------------------------------------
(* rebuild_index is the backstop against any drift: whatever sessions and  *)
(* crashes left, when it returns the index has the embeddings of the       *)
(* prevailing dimension and nothing else, and is empty only if there are   *)
(* none.  For any nodes, any embedders and any number of dimensions.       *)
THEOREM RebuildAlwaysRepairs == Spec => RebuildRepairs
<1>1. VInv /\ [Next]_vars =>
         [RefillTable =>
          Indexed(view, dim)' = Exact(view, dim)' /\ (Exact(view, dim)' = {} => view'.emb = NoRows)]_vars
  <2> SUFFICES ASSUME VInv, RefillTable
               PROVE  Indexed(view, dim)' = Exact(view, dim)' /\ (Exact(view, dim)' = {} => view'.emb = NoRows)
    OBVIOUS
  <2> DEFINE d == Prevailing(view)
             v == Refill(view, d)
  <2>2. view' = v /\ dim' = d
    BY DEF RefillTable, Write
  <2>3. StoreOK(view) /\ view.table = NoTable
    BY TypesAre DEF VInv, Typed, RefillTable
  <2>4. /\ StoreOK(v) /\ v.emb = view.emb
        /\ \A i \in Ids : v.table.row[i] = IF view.emb[i] # NoVec /\ Dim(view.emb[i]) = d
                                          THEN view.emb[i] ELSE NoVec
        /\ \/ d = NoDim /\ view.emb = NoRows
           \/ \E i \in Ids : view.emb[i] # NoVec /\ Dim(view.emb[i]) = d
    BY <2>3, RefillIs
  <2> HIDE DEF v, d
  <2>5. \A i \in Ids : v.emb[i] # NoVec => i \in Live(v)
    BY <2>4, StoreIs DEF Live
  <2>6. {i \in Live(v) : v.table.row[i] # NoVec} = {i \in Ids : v.emb[i] # NoVec /\ Dim(v.emb[i]) = d}
    BY <2>4, <2>5 DEF Live
  <2> DEFINE Found == {<<i, v.table.row[i]>> : i \in {j \in Live(v) : v.table.row[j] # NoVec}}
  <2>7. Found = Exact(v, d)
    <3> DEFINE S == {i \in Ids : v.emb[i] # NoVec /\ Dim(v.emb[i]) = d}
    <3>1. Found = {<<i, v.table.row[i]>> : i \in S}
      BY <2>6
    <3>2. Exact(v, d) = {<<i, v.emb[i]>> : i \in S}
      BY DEF Exact
    <3>3. \A i \in S : v.table.row[i] = v.emb[i]
      BY <2>4
    <3> HIDE DEF S, Found
    <3> QED BY <3>1, <3>2, <3>3
  <2>8. Exact(v, d) = {} => v.emb = NoRows
    <3>1. CASE d = NoDim /\ view.emb = NoRows
      BY <2>4, <3>1
    <3>2. CASE \E i \in Ids : view.emb[i] # NoVec /\ Dim(view.emb[i]) = d
      BY <2>4, <3>2 DEF Exact
    <3> QED BY <2>4, <3>1, <3>2
  <2>9. Indexed(view, dim)' = Found
    BY <2>2 DEF Indexed, Live
  <2>10. Exact(view, dim)' = Exact(v, d)
    BY <2>2 DEF Exact
  <2> QED BY <2>2, <2>7, <2>8, <2>9, <2>10
<1> QED BY <1>1, SpecVInv, PTL DEF Spec, RebuildRepairs

-----------------------------------------------------------------------------
(* The index of a store has the vectors of its dimension, and there is one *)
(* as soon as there is a vector.                                           *)
Good(v) == InSync(v) /\ Complete(v)

LEMMA GoodIs ==
  ASSUME NEW v, StoreOK(v)
  PROVE  Good(v) <=>
            /\ \A i \in Ids : v.table.row[i] =
                  IF v.emb[i] # NoVec /\ Dim(v.emb[i]) = v.table.dim THEN v.emb[i] ELSE NoVec
            /\ v.table.dim = NoDim => \A i \in Ids : v.emb[i] = NoVec
BY StoreIs DEF Good, InSync, Complete, NoRows

LEMMA EmbedGood ==
  ASSUME NEW v, StoreOK(v), Good(v), NEW i \in Live(v), NEW x \in Vector,
         session.kind = "vec", dim = NoDim \/ dim = Dim(x)
  PROVE  Good(SetEmbedding(v, i, x))
<1> DEFINE w == SetEmbedding(v, i, x)
<1>1. i \in Ids /\ Dim(x) \in Nat /\ x # NoVec /\ ~Skipped(x) /\ NoDim \notin Nat
  BY DimNat, NothingAssumption, VecIndexAssumption DEF Live, Skipped
<1>2. /\ StoreOK(w)
      /\ \A j \in Ids : w.emb[j] = IF j = i THEN x ELSE v.emb[j]
      /\ w.table.dim = IF v.table.dim = NoDim THEN Dim(x) ELSE v.table.dim
      /\ \A j \in Ids : w.table.row[j] =
            IF j = i THEN IF w.table.dim = Dim(x) THEN x ELSE NoVec
            ELSE IF v.table.dim = NoDim THEN NoVec ELSE v.table.row[j]
  BY <1>1, SetEmbeddingIs
<1> HIDE DEF w
<1>3. /\ \A j \in Ids : v.table.row[j] =
            IF v.emb[j] # NoVec /\ Dim(v.emb[j]) = v.table.dim THEN v.emb[j] ELSE NoVec
      /\ v.table.dim = NoDim => \A j \in Ids : v.emb[j] = NoVec
  BY GoodIs
<1>4. w.table.dim # NoDim
  BY <1>1, <1>2
<1>5. ASSUME NEW j \in Ids
      PROVE  w.table.row[j] = IF w.emb[j] # NoVec /\ Dim(w.emb[j]) = w.table.dim THEN w.emb[j] ELSE NoVec
  BY <1>1, <1>2, <1>3
<1>6. Good(w)
  BY <1>2, <1>4, <1>5, GoodIs
<1> QED BY <1>6 DEF w

LEMMA DeleteGood ==
  ASSUME NEW v, StoreOK(v), Good(v), NEW i \in Ids, session.kind = "vec"
  PROVE  Good(DeleteNode(v, i))
<1> DEFINE w == DeleteNode(v, i)
<1>1. /\ StoreOK(w) /\ w.table.dim = v.table.dim
      /\ \A j \in Ids : w.emb[j] = IF j = i THEN NoVec ELSE v.emb[j]
      /\ \A j \in Ids : w.table.row[j] = IF j = i THEN NoVec ELSE v.table.row[j]
  BY DeleteNodeIs
<1> HIDE DEF w
<1>2. Good(w)
  BY <1>1, GoodIs
<1> QED BY <1>2 DEF w

(* Good() speaks of the embeddings and the table. *)
LEMMA SameGood ==
  ASSUME NEW v, NEW w, Good(v), w.emb = v.emb, w.table = v.table
  PROVE  Good(w)
BY DEF Good, InSync, Complete

LEMMA RefillGood ==
  ASSUME NEW v, StoreOK(v), v.table = NoTable
  PROVE  Good(Refill(v, Prevailing(v)))
<1> DEFINE d == Prevailing(v)
           w == Refill(v, d)
<1>1. /\ StoreOK(w) /\ w.emb = v.emb /\ w.table.dim = d
      /\ \A i \in Ids : w.table.row[i] = IF v.emb[i] # NoVec /\ Dim(v.emb[i]) = d THEN v.emb[i] ELSE NoVec
      /\ \/ d = NoDim /\ v.emb = NoRows
         \/ \E i \in Ids : v.emb[i] # NoVec /\ Dim(v.emb[i]) = d
  BY RefillIs
<1> HIDE DEF w, d
<1>2. d = NoDim => v.emb = NoRows
  <2>1. v.emb \in [Ids -> Vector \cup {NoVec}]
    BY StoreIs
  <2> QED BY <1>1, <2>1, DimNat, VecIndexAssumption
<1>3. d = NoDim => \A i \in Ids : v.emb[i] = NoVec
  BY <1>2 DEF NoRows
<1>4. Good(w)
  BY <1>1, <1>3, GoodIs
<1> QED BY <1>4 DEF w, d

LEMMA OpenGood ==
  ASSUME VInv, Good(db), NEW kind \in Kinds, NEW m \in Models, Open(kind, m)
  PROVE  Good(db') /\ Good(view')
<1> DEFINE d == IF kind = "vec" THEN db.vecDim ELSE NoDim
<1>1. StoreOK(db)
  BY TypesAre DEF VInv, Typed
<1>2. /\ StoreOK(view') /\ db' = view' /\ view'.emb = db.emb
      /\ d = NoDim => view'.table = db.table
      /\ d # NoDim => view'.table = IF db.table.dim = NoDim THEN [dim |-> d, row |-> NoRows] ELSE db.table
  BY OpenIs
<1> HIDE DEF d
<1>3. CASE view'.table = db.table
  BY <1>2, <1>3, SameGood
<1>4. CASE d # NoDim /\ db.table.dim = NoDim
  <2>1. view'.table.dim = d /\ \A i \in Ids : view'.table.row[i] = NoVec
    BY <1>2, <1>4 DEF NoRows
  <2>2. \A i \in Ids : db.emb[i] = NoVec
    BY <1>1, <1>4, GoodIs
  <2>3. Good(view')
    BY <1>2, <1>4, <2>1, <2>2, GoodIs
  <2> QED BY <1>2, <2>3
<1> QED BY <1>2, <1>3, <1>4

(* An interrupt that tears no hook, and comes before no rebuild, cuts       *)
(* nothing: what rebuild_index() has to fill in a table is in it already.   *)
LEMMA InterruptCutsNothing ==
  ASSUME VInv, Interrupt, ~TearsHook, pc # "rebuild", Good(view)
  PROVE  /\ db' = db /\ view' = view /\ session' = session /\ session # Closed
         /\ dim' \in {dim, DimOf[session.model]}
<1>1. session' = session /\ session # Closed
  BY DEF Interrupt, VInv
<1>2. pc \in {"index", "refresh", "reembed"} => view' = view
  BY DEF TearsHook
<1>3. ~CutDrop
  BY DEF CutDrop
<1>4. ~CutRefill
  <2> SUFFICES ASSUME CutRefill PROVE FALSE
    OBVIOUS
  <2>1. view.table = NoTable /\ StoreOK(view) /\ Prevailing(view) # NoDim
    BY TypesAre DEF CutRefill, VInv, Typed
  <2>2. \A i \in Ids : view.emb[i] = NoVec
    BY <2>1, GoodIs DEF NoTable
  <2> QED BY <2>1, <2>2, PrevailingIs
<1>5. CASE CutDelete
  BY <1>1, <1>2, <1>5 DEF CutDelete
<1>6. CASE CutEmbed
  BY <1>1, <1>2, <1>6, CutEmbedOK DEF CutEmbed
<1> QED BY <1>1, <1>3, <1>4, <1>5, <1>6 DEF Interrupt

(* A session with the extension, and an embedder that the index fits. *)
LEMMA StepGood ==
  ASSUME VInv, [Next]_vars, session.kind # "plain",
         pc # "rebuild" \/ session' = Closed, ~TearsHook,
         dim = NoDim \/ session = Closed \/ dim = DimOf[session.model],
         Good(db), Good(view)
  PROVE  Good(db') /\ Good(view')
<1>1. StoreOK(db) /\ StoreOK(view) /\ (pc # "idle" => session.kind = "vec")
  BY TypesAre, SessionIs DEF VInv, Typed
<1>2. CASE \E kind \in Kinds, m \in Models : Open(kind, m)
  BY <1>2, OpenGood
<1>3. CASE \/ Close \/ Query \/ StartIndex \/ CommitIndex \/ RollbackIndex \/ CommitRefresh
           \/ StartRebuild \/ (\E i \in Ids : LeaveDirty(i)) \/ UNCHANGED vars
  <2>1. db' \in {db, view} /\ view' \in {db, view}
    BY <1>3 DEF Close, Query, StartIndex, CommitIndex, RollbackIndex, CommitRefresh,
                StartRebuild, LeaveDirty, Commit, vars
  <2> QED BY <2>1
<1>4. CASE \E i \in Ids : Delete(i)
  <2>1. PICK i \in Ids : Delete(i)
    BY <1>4
  <2>2. view' = DeleteNode(view, i) /\ db' = db /\ session.kind = "vec"
    BY <1>1, <2>1 DEF Delete, Write
  <2>3. Good(DeleteNode(view, i))
    BY <1>1, <2>2, DeleteGood
  <2> QED BY <2>2, <2>3
<1>5. CASE (\E i \in Ids, t \in Texts : Change(i, t)) \/ (\E n \in Node : Insert(n))
  <2>1. PICK i \in Ids, n \in Node : view' = PutNode(view, i, n) /\ db' = db
    <3>1. ASSUME NEW i \in Ids, NEW t \in Texts, Change(i, t)
          PROVE  \E n \in Node : view' = PutNode(view, i, n) /\ db' = db
      <4> DEFINE n == [view.node[i] EXCEPT !.text = t]
      <4>3. view.node[i] \in Node
        BY <1>1, <3>1, StoreIs DEF Change, Live
      <4>1. n \in Node
        BY <4>3 DEF Node
      <4>2. view' = PutNode(view, i, n) /\ db' = db
        BY <3>1 DEF Change, Write
      <4> HIDE DEF n
      <4> QED BY <4>1, <4>2
    <3>2. ASSUME NEW n \in Node, Insert(n)
          PROVE  \E i \in Ids : view' = PutNode(view, i, n) /\ db' = db
      <4> DEFINE i == NextId(view)
      <4>1. i \in Ids /\ view' = PutNode(view, i, n) /\ db' = db
        BY <3>2 DEF Insert, Write
      <4> HIDE DEF i
      <4> QED BY <4>1
    <3> QED BY <1>5, <3>1, <3>2
  <2>2. PutNode(view, i, n).emb = view.emb /\ PutNode(view, i, n).table = view.table
    BY <1>1, PutNodeIs
  <2>3. Good(view')
    BY <2>1, <2>2, SameGood
  <2> QED BY <2>1, <2>3
<1>6. CASE \E full \in BOOLEAN : StartRefresh(full)
  <2>1. db' = db /\ (view' = view \/ view' = [view EXCEPT !.dirty = Live(view)])
    BY <1>6 DEF StartRefresh, Write
  <2> DEFINE w == [view EXCEPT !.dirty = Live(view)]
  <2>2. w.emb = view.emb /\ w.table = view.table
    BY <1>1, AllDirtyIs
  <2> HIDE DEF w
  <2>3. Good(w)
    BY <2>2, SameGood
  <2> QED BY <2>1, <2>3 DEF w
<1>7. CASE \E i \in Ids : Embed(i)
  <2>1. PICK i \in Ids : Embed(i)
    BY <1>7
  <2> DEFINE x == [of |-> view.node[i], model |-> session.model]
  <2>2. x \in Vector /\ Dim(x) = DimOf[session.model] /\ i \in Live(view) /\ session # Closed
    BY <2>1, EmbedIs
  <2>3. view' = SetEmbedding(view, i, x) /\ db' = db /\ session.kind = "vec"
    BY <1>1, <2>1 DEF Embed, Write
  <2> HIDE DEF x
  <2>4. Good(SetEmbedding(view, i, x))
    BY <1>1, <2>2, <2>3, EmbedGood
  <2> QED BY <2>3, <2>4
<1>8. CASE RefillTable
  <2>1. view' = Refill(view, Prevailing(view)) /\ db' = db /\ view.table = NoTable
    BY <1>8 DEF RefillTable, Write, VInv
  <2> QED BY <1>1, <2>1, RefillGood
<1>9. ~DropTable
  BY DEF DropTable, VInv
<1>10. CASE Interrupt
  <2>1. pc # "rebuild"
    BY <1>10 DEF Interrupt, VInv
  <2> QED BY <1>10, <2>1, InterruptCutsNothing
<1> QED BY <1>2, <1>3, <1>4, <1>5, <1>6, <1>7, <1>8, <1>9, <1>10 DEF Next

(* set_embedding, index_remove and the cascade of the foreign keys keep the *)
(* index in sync, through batches that fail half way, rollbacks over the    *)
(* lazy CREATE, crashes and ids that are used again, for any store; a       *)
(* rebuild that has begun, an embedder of another dimension, and an         *)
(* interrupt between a write and the end of its hook apart.                 *)
THEOREM SyncIsKept == Spec => StaysInSync
<1>1. VInv /\ [Next]_vars =>
         [/\ session.kind # "plain" /\ session'.kind # "plain"
          /\ pc # "rebuild" \/ session' = Closed
          /\ ~TearsHook
          /\ dim = NoDim \/ session = Closed \/ dim = DimOf[session.model]
          /\ InStep
          => InStep']_vars
  BY StepGood DEF InStep, Good, InSync, Complete
<1> QED BY <1>1, SpecVInv, PTL DEF Spec, StaysInSync

-----------------------------------------------------------------------------
(* The ordinary store: every session has the extension, the embedders have *)
(* one dimension, and nobody asks for a rebuild.                           *)
Ordinary ==
    /\ Kinds = {"vec"} /\ ~Rebuilds
    /\ \A m, n \in Models : DimOf[m] = DimOf[n]

Fit(v) == v.vecDim = v.table.dim /\ (v.table.dim # NoDim => \A m \in Models : DimOf[m] = v.table.dim)

(* The attribute of the session knows of the table whenever there is one.  *)
OInv ==
    /\ VInv
    /\ pc \in {"idle", "index", "refresh"}
    /\ Good(db) /\ Good(view)
    /\ Fit(db) /\ Fit(view)
    /\ dim # NoDim => \A m \in Models : DimOf[m] = dim
    /\ session # Closed /\ dim = NoDim => db.table.dim = NoDim /\ view.table.dim = NoDim

LEMMA InitOInv == Init => OInv
<1> SUFFICES ASSUME Init PROVE OInv
  OBVIOUS
<1>1. VInv
  BY InitVInv
<1>2. EmptyStore.emb = NoRows /\ EmptyStore.table = NoTable /\ EmptyStore.vecDim = NoDim
  BY DEF EmptyStore
<1>3. NoTable.dim = NoDim /\ NoTable.row = NoRows
  BY DEF NoTable
<1>4. Good(EmptyStore)
  BY <1>2, <1>3 DEF Good, InSync, Complete, NoRows
<1>5. Fit(EmptyStore)
  BY <1>2, <1>3 DEF Fit
<1> QED BY <1>1, <1>2, <1>3, <1>4, <1>5 DEF Init, OInv

LEMMA OrdinaryGood ==
  ASSUME Ordinary, OInv, [Next]_vars, ~TearsHook
  PROVE  VInv' /\ pc' \in {"idle", "index", "refresh"} /\ Good(db') /\ Good(view')
<1>1. VInv'
  BY NextVInv DEF OInv
<1>2. pc' \in {"idle", "index", "refresh"}
  BY DEF Ordinary, OInv, Next, Open, Close, Query, StartIndex, Delete, Embed, LeaveDirty, Insert, Change,
         CommitIndex, RollbackIndex, StartRefresh, CommitRefresh, Interrupt, StartRebuild, DropTable,
         RefillTable, vars
<1>3. session.kind # "plain"
  <2>1. session = Closed \/ session \in [kind : Kinds, model : Models]
    BY DEF OInv, VInv, TypeOK
  <2> QED BY <2>1, SessionIs DEF Ordinary, OInv
<1>4. dim = NoDim \/ session = Closed \/ dim = DimOf[session.model]
  BY SessionIs DEF OInv
<1>5. pc # "rebuild"
  BY DEF OInv
<1> QED BY <1>1, <1>2, <1>3, <1>4, <1>5, StepGood DEF OInv

LEMMA OrdinaryFit ==
  ASSUME Ordinary, OInv, [Next]_vars, ~TearsHook
  PROVE  /\ Fit(db') /\ Fit(view')
         /\ dim' # NoDim => \A m \in Models : DimOf[m] = dim'
         /\ session' # Closed /\ dim' = NoDim => db'.table.dim = NoDim /\ view'.table.dim = NoDim
<1>1. StoreOK(db) /\ StoreOK(view) /\ (pc # "idle" => session # Closed)
  BY TypesAre DEF OInv, VInv, Typed
<1>2. CASE \E kind \in Kinds, m \in Models : Open(kind, m)
  <2>1. PICK kind \in Kinds, m \in Models : Open(kind, m)
    BY <1>2
  <2>2. /\ dim' = db.vecDim /\ db' = view'
        /\ db.vecDim = NoDim => view'.table = db.table /\ view'.vecDim = db.vecDim
        /\ db.vecDim # NoDim => /\ view'.table = IF db.table.dim = NoDim THEN [dim |-> db.vecDim, row |-> NoRows]
                                                 ELSE db.table
                                /\ view'.vecDim = db.vecDim
    <3>1. kind = "vec"
      BY DEF Ordinary
    <3> QED BY <2>1, <3>1, OpenIs DEF OInv
  <2>3. db.vecDim = db.table.dim /\ (db.table.dim # NoDim => \A k \in Models : DimOf[k] = db.table.dim)
    BY DEF OInv, Fit
  <2>4. view'.table = db.table /\ view'.vecDim = db.vecDim
    BY <2>2, <2>3
  <2> QED BY <2>2, <2>3, <2>4 DEF Fit
<1>3. CASE \/ Close \/ Query \/ StartIndex \/ CommitIndex \/ RollbackIndex \/ CommitRefresh
           \/ StartRebuild \/ (\E i \in Ids : LeaveDirty(i)) \/ UNCHANGED vars
  <2>1. /\ db' \in {db, view} /\ view' \in {db, view}
        /\ \/ session' = session /\ dim' = dim
           \/ session' = Closed /\ dim' = NoDim
    BY <1>3 DEF Close, Query, StartIndex, CommitIndex, RollbackIndex, CommitRefresh,
                StartRebuild, LeaveDirty, Commit, vars
  <2> QED BY <2>1 DEF OInv
<1>4. ASSUME view'.table.dim = view.table.dim, view'.vecDim = view.vecDim, db' = db, dim' = dim, session' = session
      PROVE  /\ Fit(db') /\ Fit(view')
             /\ dim' # NoDim => \A m \in Models : DimOf[m] = dim'
             /\ session' # Closed /\ dim' = NoDim => db'.table.dim = NoDim /\ view'.table.dim = NoDim
  BY <1>4 DEF OInv, Fit
<1>5. CASE \E i \in Ids : Delete(i)
  <2>1. PICK i \in Ids : Delete(i)
    BY <1>5
  <2>2. view' = DeleteNode(view, i) /\ UNCHANGED <<db, dim, session>>
    BY <2>1 DEF Delete, Write
  <2>3. DeleteNode(view, i).table.dim = view.table.dim /\ DeleteNode(view, i).vecDim = view.vecDim
    BY <1>1, DeleteNodeIs
  <2> QED BY <1>4, <2>2, <2>3
<1>6. CASE (\E i \in Ids, t \in Texts : Change(i, t)) \/ (\E n \in Node : Insert(n))
  <2>1. PICK i \in Ids, n \in Node : view' = PutNode(view, i, n) /\ UNCHANGED <<db, dim, session>>
    <3>1. ASSUME NEW i \in Ids, NEW t \in Texts, Change(i, t)
          PROVE  \E n \in Node : view' = PutNode(view, i, n) /\ UNCHANGED <<db, dim, session>>
      <4> DEFINE n == [view.node[i] EXCEPT !.text = t]
      <4>1. view.node[i] \in Node
        BY <1>1, <3>1, StoreIs DEF Change, Live
      <4>2. n \in Node
        BY <4>1 DEF Node
      <4>3. view' = PutNode(view, i, n) /\ UNCHANGED <<db, dim, session>>
        BY <3>1 DEF Change, Write
      <4> HIDE DEF n
      <4> QED BY <4>2, <4>3
    <3>2. ASSUME NEW n \in Node, Insert(n)
          PROVE  \E i \in Ids : view' = PutNode(view, i, n) /\ UNCHANGED <<db, dim, session>>
      <4> DEFINE i == NextId(view)
      <4>1. i \in Ids /\ view' = PutNode(view, i, n) /\ UNCHANGED <<db, dim, session>>
        BY <3>2 DEF Insert, Write
      <4> HIDE DEF i
      <4> QED BY <4>1
    <3> QED BY <1>6, <3>1, <3>2
  <2>2. PutNode(view, i, n).table = view.table /\ PutNode(view, i, n).vecDim = view.vecDim
    BY <1>1, PutNodeIs
  <2> QED BY <1>4, <2>1, <2>2
<1>7. CASE \E full \in BOOLEAN : StartRefresh(full)
  <2>1. view' = view /\ UNCHANGED <<db, dim, session>>
    BY <1>7 DEF StartRefresh, Ordinary
  <2> QED BY <1>4, <2>1
<1>8. CASE \E i \in Ids : Embed(i)
  <2>1. PICK i \in Ids : Embed(i)
    BY <1>8
  <2> DEFINE x == [of |-> view.node[i], model |-> session.model]
             w == SetEmbedding(view, i, x)
  <2>2. /\ x \in Vector /\ Dim(x) = DimOf[session.model] /\ Dim(x) \in Nat /\ i \in Live(view)
        /\ session # Closed /\ session.model \in Models
    BY <2>1, EmbedIs, SessionIs DEF OInv
  <2>3. session.kind = "vec"
    <3>1. session \in [kind : Kinds, model : Models]
      BY <2>2 DEF OInv, VInv, TypeOK
    <3> QED BY <3>1 DEF Ordinary
  <2>4. \A m \in Models : DimOf[m] = Dim(x)
    BY <2>2 DEF Ordinary
  <2>5. dim = NoDim \/ dim = Dim(x)
    BY <2>2 DEF OInv
  <2>6. ~Skipped(x)
    BY <2>5 DEF Skipped
  <2>7. view' = w /\ db' = db /\ session' = session /\ dim' = Dim(x)
    BY <2>1, <2>3, <2>6 DEF Embed, Write
  <2> HIDE DEF x
  <2>8. /\ w.table.dim = IF view.table.dim = NoDim THEN Dim(x) ELSE view.table.dim
        /\ w.vecDim = Dim(x) \/ (w.vecDim = view.vecDim /\ view.table.dim = Dim(x))
    BY <1>1, <2>2, <2>3, <2>6, SetEmbeddingIs
  <2> HIDE DEF w
  <2>9. Dim(x) # NoDim
    BY <2>2, VecIndexAssumption
  <2>10. view.vecDim = view.table.dim /\ (view.table.dim # NoDim => \A m \in Models : DimOf[m] = view.table.dim)
    BY DEF OInv, Fit
  <2>11. w.table.dim = Dim(x) /\ w.vecDim = Dim(x)
    BY <2>2, <2>4, <2>8, <2>10
  <2>12. Fit(w) /\ Fit(db)
    BY <2>4, <2>11 DEF Fit, OInv
  <2> QED BY <2>4, <2>7, <2>9, <2>12
<1>9. ~DropTable /\ ~RefillTable
  BY DEF DropTable, RefillTable, OInv
<1>10. CASE Interrupt
  <2>1. /\ db' = db /\ view' = view /\ session' = session /\ session # Closed
        /\ dim' \in {dim, DimOf[session.model]}
    BY <1>10, InterruptCutsNothing DEF OInv
  <2>2. session.model \in Models /\ DimOf[session.model] # NoDim
    BY <2>1, SessionIs, VecIndexAssumption DEF OInv
  <2>3. \A m \in Models : DimOf[m] = DimOf[session.model]
    BY <2>2 DEF Ordinary
  <2> QED BY <2>1, <2>2, <2>3 DEF OInv
<1> QED BY <1>2, <1>3, <1>5, <1>6, <1>7, <1>8, <1>9, <1>10 DEF Next

(***************************************************************************)
(* "results match BruteForceVectorIndex exactly" (vector.py:82), where it  *)
(* is true: in an ordinary store every session searches the very vectors   *)
(* of the authoritative table, in the middle of index() and refresh() too, *)
(* through rollbacks over the lazy CREATE, the end of the process          *)
(* anywhere, and ids that are used again, as long as no interrupt comes    *)
(* between a write and the end of its hook (TearsHook).  That, a rebuild   *)
(* nobody commits, a session without the extension and a change of         *)
(* dimension are all that can break it.                                    *)
(***************************************************************************)
THEOREM OrdinaryIndexIsExact ==
    Ordinary /\ Spec /\ [][~TearsHook]_vars => []MatchesBruteForce
<1> SUFFICES ASSUME Ordinary PROVE Spec /\ [][~TearsHook]_vars => []MatchesBruteForce
  OBVIOUS
<1>1. OInv /\ [Next]_vars /\ [~TearsHook]_vars => OInv'
  <2>1. vars' = vars => ~TearsHook
    BY DEF TearsHook, vars
  <2> QED BY <2>1, OrdinaryGood, OrdinaryFit DEF OInv
<1>2. OInv => MatchesBruteForce
  <2> SUFFICES ASSUME OInv, session.kind = "vec"
               PROVE  Indexed(view, DimOf[session.model]) = Exact(view, DimOf[session.model])
    BY DEF MatchesBruteForce
  <2> DEFINE d == DimOf[session.model]
  <2>1. /\ StoreOK(view) /\ session # Closed /\ session.model \in Models /\ d \in Nat
        /\ NoDim \notin Nat
    BY TypesAre, SessionIs, VecIndexAssumption DEF OInv, VInv, Typed
  <2>2. /\ \A i \in Ids : view.table.row[i] =
              IF view.emb[i] # NoVec /\ Dim(view.emb[i]) = view.table.dim THEN view.emb[i] ELSE NoVec
        /\ view.table.dim = NoDim => \A i \in Ids : view.emb[i] = NoVec
        /\ \A i \in Ids : view.emb[i] # NoVec => i \in Live(view)
    BY <2>1, GoodIs, StoreIs DEF OInv, Live
  <2> HIDE DEF d
  <2>3. view.table.dim = NoDim \/ view.table.dim = d
    BY <2>1 DEF OInv, Fit, d
  <2>4. dim = d \/ view.table.dim = NoDim
    BY <2>1 DEF OInv, d
  <2> DEFINE S == {i \in Ids : view.emb[i] # NoVec /\ Dim(view.emb[i]) = d}
             R == {i \in Live(view) : view.table.row[i] # NoVec}
  <2>5. R = S /\ \A i \in S : view.table.row[i] = view.emb[i]
    BY <2>2, <2>3 DEF Live
  <2>6. view.table.dim = NoDim => S = {}
    BY <2>2
  <2>7. Exact(view, d) = {<<i, view.emb[i]>> : i \in S}
    BY DEF Exact
  <2>8. Indexed(view, d) = IF dim # d THEN {} ELSE {<<i, view.table.row[i]>> : i \in R}
    BY DEF Indexed
  <2> HIDE DEF S, R
  <2>9. Indexed(view, d) = Exact(view, d)
    BY <2>4, <2>5, <2>6, <2>7, <2>8
  <2> QED BY <2>9 DEF d
<1> QED BY <1>1, <1>2, InitOInv, PTL DEF Spec

=============================================================================
