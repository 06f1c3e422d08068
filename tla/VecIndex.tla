------------------------------ MODULE VecIndex ------------------------------
(***************************************************************************)
(* The derived index vec_items (vector.py, SqliteVecIndex) beside the      *)
(* embeddings it is derived from, through the sessions of MemoryDB         *)
(* (api.py) that open one store one after another: each with an embedder   *)
(* of its own, and with the sqlite-vec extension or without it.            *)
(*                                                                         *)
(* db is what is durable and view what the connection sees, as in Indexer. *)
(* CREATE and DROP are part of the open transaction if there is one, and   *)
(* durable at once if there is none.  SQLite gives a new node the greatest *)
(* id in use plus one, so ids are used again.                              *)
(***************************************************************************)
EXTENDS Integers, FiniteSets, FiniteSetsExt

CONSTANTS
    Ids,        \* 1..n, the ids of nodes
    Uids, Texts,
    Models,     \* embedders, told apart by model id and dimension
    DimOf,      \* the length of an embedder's vectors
    Kinds,      \* "vec": the extension loads; "plain": brute force
    Rebuilds,   \* TRUE: refresh_embeddings(full=True), rebuild_vector_index()
    Crashes,    \* TRUE: a call may be interrupted, or the process end in it
    NoNode, NoVec, NoDim, NoModel

ASSUME VecIndexAssumption ==
    /\ IsFiniteSet(Ids) /\ Ids = 1..Cardinality(Ids)
    /\ DimOf \in [Models -> Nat]
    /\ Kinds \subseteq {"vec", "plain"} /\ Rebuilds \in BOOLEAN /\ Crashes \in BOOLEAN
    /\ NoDim \notin Nat /\ NoModel \notin Models

Node   == [uid : Uids, text : Texts]
Vector == [of : Node, model : Models]

ASSUME NothingAssumption == NoNode \notin Node /\ NoVec \notin Vector

Dim(x) == DimOf[x.model]

VARIABLES
    db, view,   \* the store as committed, and as the connection sees it
    txn,        \* a transaction is open
    session,    \* the extension and the embedder of the open MemoryDB
    dim,        \* SqliteVecIndex.dim
    pc,         \* the call in progress
    todo,       \* refresh(): the dirty ids not embedded yet
    warned      \* open() warned of a change of embedder

vars == <<db, view, txn, session, dim, pc, todo, warned>>

(* A table of dimension NoDim does not exist; vecDim and model are the     *)
(* entries vec0_dim and embed_model of meta.                               *)
NoRows  == [i \in Ids |-> NoVec]
NoTable == [dim |-> NoDim, row |-> NoRows]

EmptyStore == [ node |-> [i \in Ids |-> NoNode], dirty |-> {}, emb |-> NoRows,
                table |-> NoTable, vecDim |-> NoDim, model |-> NoModel ]

Closed == [kind |-> "closed", model |-> NoModel]

Init ==
    /\ db = EmptyStore /\ view = EmptyStore
    /\ txn = FALSE
    /\ session = Closed
    /\ dim = NoDim
    /\ pc = "idle"
    /\ todo = {}
    /\ warned = FALSE

-----------------------------------------------------------------------------
(***************************************************************************)
(* What is written to a store v.                                           *)
(***************************************************************************)
Live(v) == {i \in Ids : v.node[i] # NoNode}

(* _ensure_table: CREATE ... IF NOT EXISTS, and the dimension in meta.     *)
EnsureTable(v, d) ==
    [v EXCEPT !.table  = IF v.table.dim = NoDim THEN [dim |-> d, row |-> NoRows] ELSE v.table,
              !.vecDim = d]

(* _write: DELETE, then an INSERT that fails on a table of another         *)
(* dimension.                                                              *)
WriteRow(v, i, x) ==
    [v EXCEPT !.table.row[i] = IF v.table.dim = Dim(x) THEN x ELSE NoVec]

Skipped(x) == dim # NoDim /\ Dim(x) # dim

UpsertOnce(v, i, x) ==    \* mutant of Upsert: no second try
    IF Skipped(x) THEN v
    ELSE LET w == IF dim = NoDim THEN EnsureTable(v, Dim(x)) ELSE v
         IN  IF w.table.dim = NoDim THEN w ELSE WriteRow(w, i, x)

(* upsert: what a table that is not there, or of another dimension, makes  *)
(* of the first write is caught, and the table ensured.                    *)
Upsert(v, i, x) ==
    IF Skipped(x) THEN v
    ELSE IF dim # NoDim /\ v.table.dim = Dim(x) THEN WriteRow(v, i, x)
    ELSE WriteRow(EnsureTable(v, Dim(x)), i, x)

(* set_embedding with its hook. *)
SetEmbedding(v, i, x) ==
    LET w == [v EXCEPT !.emb[i] = x, !.dirty = v.dirty \ {i}]
    IN  IF session.kind = "vec" THEN Upsert(w, i, x) ELSE w

(* index_remove: nothing is removed without the extension. *)
Remove(v, i) ==
    IF session.kind = "vec" THEN [v EXCEPT !.table.row[i] = NoVec] ELSE v

DeleteNodeOnly(v, i) ==    \* mutant of DeleteNode: no cascade
    Remove([v EXCEPT !.node[i] = NoNode, !.dirty = v.dirty \ {i}], i)

(* DELETE FROM nodes takes the embedding; then the hook. *)
DeleteNode(v, i) ==
    Remove([v EXCEPT !.node[i] = NoNode, !.dirty = v.dirty \ {i}, !.emb[i] = NoVec], i)

PutNode(v, i, n) == [v EXCEPT !.node[i] = n, !.dirty = v.dirty \cup {i}]

NextId(v) == Max({0} \cup Live(v)) + 1

(* The dimension of most embeddings, the smaller of equals; NoDim without any. *)
Prevailing(v) ==
    LET count(d) == Cardinality({i \in Ids : v.emb[i] # NoVec /\ Dim(v.emb[i]) = d})
        Dims     == {Dim(v.emb[i]) : i \in {j \in Ids : v.emb[j] # NoVec}}
    IN  IF Dims = {} THEN NoDim
        ELSE CHOOSE d \in Dims :
                \A e \in Dims : count(e) < count(d) \/ (count(e) = count(d) /\ d <= e)

Filled(v, d) ==
    [dim |-> d, row |-> [i \in Ids |-> IF v.emb[i] # NoVec /\ Dim(v.emb[i]) = d
                                       THEN v.emb[i] ELSE NoVec]]

-----------------------------------------------------------------------------
Write(v) == view' = v /\ txn' = TRUE

Commit(v) == db' = v /\ view' = v /\ txn' = FALSE

(* MemoryDB.open: SqliteVecIndex.__init__ makes sure of the table of the   *)
(* dimension in meta, _check_embedder_compat records the embedder.         *)
Open(kind, m) ==
    /\ session = Closed
    /\ session' = [kind |-> kind, model |-> m]
    /\ dim' = IF kind = "vec" THEN db.vecDim ELSE NoDim
    /\ warned' = (db.model \notin {NoModel, m})
    /\ Commit([(IF dim' = NoDim THEN db ELSE EnsureTable(db, dim')) EXCEPT !.model = m])
    /\ UNCHANGED <<pc, todo>>

(* Store.close, or the end of the process: what was not committed is lost. *)
Close ==
    /\ session # Closed /\ (pc = "idle" \/ Crashes)
    /\ session' = Closed
    /\ view' = db /\ txn' = FALSE
    /\ dim' = NoDim /\ pc' = "idle" /\ todo' = {} /\ warned' = FALSE
    /\ UNCHANGED db

(* explain(): its temporary table leaves a transaction open. *)
Query ==
    /\ session # Closed /\ pc = "idle"
    /\ txn' = TRUE
    /\ UNCHANGED <<db, view, session, dim, pc, todo, warned>>

(***************************************************************************)
(* index(): deletes, inserts and changes of a neighbourhood, committed or  *)
(* rolled back together.                                                   *)
(***************************************************************************)
StartIndex ==
    /\ session # Closed /\ pc = "idle"
    /\ pc' = "index"
    /\ UNCHANGED <<db, view, txn, session, dim, todo, warned>>

Delete(i) ==
    /\ pc = "index" /\ i \in Live(view)
    /\ Write(DeleteNode(view, i))
    /\ UNCHANGED <<db, session, dim, pc, todo, warned>>

Insert(n) ==
    /\ pc = "index" /\ NextId(view) \in Ids
    /\ \A i \in Live(view) : view.node[i].uid # n.uid
    /\ Write(PutNode(view, NextId(view), n))
    /\ UNCHANGED <<db, session, dim, pc, todo, warned>>

Change(i, t) ==
    /\ pc = "index" /\ i \in Live(view)
    /\ Write(PutNode(view, i, [view.node[i] EXCEPT !.text = t]))
    /\ UNCHANGED <<db, session, dim, pc, todo, warned>>

CommitIndex ==
    /\ pc = "index"
    /\ pc' = "idle"
    /\ Commit(view)
    /\ UNCHANGED <<session, dim, todo, warned>>

RollbackIndex ==
    /\ pc = "index"
    /\ pc' = "idle"
    /\ view' = db /\ txn' = FALSE
    /\ UNCHANGED <<db, session, dim, todo, warned>>

(***************************************************************************)
(* refresh_embeddings(): node by node; a node whose batch fails is left    *)
(* dirty.                                                                  *)
(***************************************************************************)
StartRefresh(full) ==
    /\ session # Closed /\ pc = "idle"
    /\ full => Rebuilds
    /\ pc' = IF full /\ session.kind = "vec" THEN "reembed" ELSE "refresh"
    /\ IF full THEN Write([view EXCEPT !.dirty = Live(view)]) ELSE UNCHANGED <<view, txn>>
    /\ todo' = view'.dirty
    /\ UNCHANGED <<db, session, dim, warned>>

Embed(i) ==
    /\ pc \in {"refresh", "reembed"} /\ i \in todo
    /\ LET x == [of |-> view.node[i], model |-> session.model] IN
          /\ Write(SetEmbedding(view, i, x))
          /\ dim' = IF session.kind = "vec" /\ ~Skipped(x) THEN Dim(x) ELSE dim
    /\ todo' = todo \ {i}
    /\ UNCHANGED <<db, session, pc, warned>>

LeaveDirty(i) ==
    /\ pc \in {"refresh", "reembed"} /\ i \in todo
    /\ todo' = todo \ {i}
    /\ UNCHANGED <<db, view, txn, session, dim, pc, warned>>

CommitRefresh ==
    /\ pc \in {"refresh", "reembed"} /\ todo = {}
    /\ pc' = IF pc = "reembed" THEN "rebuild" ELSE "idle"
    /\ Commit(view)
    /\ UNCHANGED <<session, dim, todo, warned>>

(***************************************************************************)
(* rebuild_index(): DROP, then everything else.  Nobody commits it.        *)
(***************************************************************************)
StartRebuild ==
    /\ Rebuilds /\ session.kind = "vec" /\ pc = "idle"
    /\ pc' = "rebuild"
    /\ UNCHANGED <<db, view, txn, session, dim, todo, warned>>

DropTable ==
    /\ pc = "rebuild"
    /\ pc' = "refill"
    /\ db' = IF txn THEN db ELSE [view EXCEPT !.table = NoTable]
    /\ Write([view EXCEPT !.table = NoTable, !.vecDim = NoDim])
    /\ dim' = NoDim
    /\ UNCHANGED <<session, todo, warned>>

RefillOver(v, d) == [v EXCEPT !.table.dim = d, !.vecDim = d]    \* mutant: no rows

Refill(v, d) == IF d = NoDim THEN v ELSE [v EXCEPT !.table = Filled(v, d), !.vecDim = d]

RefillTable ==
    /\ pc = "refill"
    /\ pc' = "idle"
    /\ Write(Refill(view, Prevailing(view)))
    /\ dim' = Prevailing(view)
    /\ UNCHANGED <<db, session, todo, warned>>

-----------------------------------------------------------------------------
(***************************************************************************)
(* KeyboardInterrupt ends a call between any two statements.  What they    *)
(* wrote stays in the open transaction.                                    *)
(***************************************************************************)

(* _delete_file: nodes are gone, and index_remove has not come to these. *)
Reaped(v, S) ==
    [v EXCEPT !.node  = [i \in Ids |-> IF i \in S THEN NoNode ELSE v.node[i]],
              !.dirty = v.dirty \ S,
              !.emb   = [i \in Ids |-> IF i \in S THEN NoVec ELSE v.emb[i]]]

CutDelete ==
    /\ pc = "index"
    /\ \E S \in SUBSET Live(view) : Write(Reaped(view, S))
    /\ UNCHANGED <<db, dim>>

(* upsert: the table is made, entered in meta, and known to the session;   *)
(* or the row is deleted, and the new one not inserted.                    *)
CutUpsert(v, i, x) ==
    LET made  == EnsureTable(v, Dim(x))
        found == dim # NoDim /\ v.table.dim # NoDim    \* the first DELETE succeeds
    IN  /\ ~Skipped(x)
        /\ \/ found /\ Write(Remove(v, i)) /\ dim' = dim
           \/ ~found /\ Write([made EXCEPT !.vecDim = v.vecDim]) /\ dim' = dim
           \/ ~found /\ Write(made) /\ dim' \in {dim, Dim(x)}
           \/ (~found \/ v.table.dim # Dim(x)) /\ Write(Remove(made, i)) /\ dim' = Dim(x)

(* set_embedding: the vector is written, or the mark cleared as well, or   *)
(* the hook has begun.                                                     *)
CutEmbed ==
    /\ pc \in {"refresh", "reembed"}
    /\ \E i \in todo :
          LET x == [of |-> view.node[i], model |-> session.model]
              v == [view EXCEPT !.emb[i] = x, !.dirty = view.dirty \ {i}]
          IN  \/ Write([v EXCEPT !.dirty = view.dirty]) /\ dim' = dim
              \/ Write(v) /\ dim' = dim
              \/ session.kind = "vec" /\ CutUpsert(v, i, x)
    /\ UNCHANGED db

(* rebuild_index: the table is dropped, and meta does not say so yet. *)
CutDrop ==
    /\ pc = "rebuild"
    /\ view' = [view EXCEPT !.table = NoTable]
    /\ db' = IF txn THEN db ELSE view'
    /\ txn' = txn
    /\ dim' \in {dim, NoDim}

(* rebuild_index: the table is made anew, or some rows are in it. *)
CutRefill ==
    /\ pc = "refill" /\ Prevailing(view) # NoDim
    /\ LET d == Prevailing(view)
           Part(n) == [dim |-> d, row |-> [i \in Ids |-> IF i <= n THEN Filled(view, d).row[i] ELSE NoVec]]
       IN  \/ Write([view EXCEPT !.table = Part(0)]) /\ dim' = dim
           \/ Write([view EXCEPT !.table = Part(0), !.vecDim = d]) /\ dim' = dim
           \/ \E n \in {0} \cup Ids : Write([view EXCEPT !.table = Part(n), !.vecDim = d]) /\ dim' = d
    /\ UNCHANGED db

Interrupt ==
    /\ Crashes /\ pc # "idle"
    /\ pc' = "idle" /\ todo' = {}
    /\ UNCHANGED <<db, view, txn, dim>> \/ CutDelete \/ CutEmbed \/ CutDrop \/ CutRefill
    /\ UNCHANGED <<session, warned>>

(* It comes between a write to nodes or embeddings and the end of its hook. *)
TearsHook == pc \in {"index", "refresh", "reembed"} /\ Interrupt /\ view' # view

Next ==
    \/ \E kind \in Kinds, m \in Models : Open(kind, m)
    \/ Close
    \/ Query
    \/ StartIndex
    \/ \E i \in Ids : Delete(i) \/ Embed(i) \/ LeaveDirty(i)
    \/ \E n \in Node : Insert(n)
    \/ \E i \in Ids, t \in Texts : Change(i, t)
    \/ CommitIndex \/ RollbackIndex
    \/ \E full \in BOOLEAN : StartRefresh(full)
    \/ CommitRefresh \/ Interrupt
    \/ StartRebuild \/ DropTable \/ RefillTable

Spec == Init /\ [][Next]_vars

-----------------------------------------------------------------------------
Store == [ node   : [Ids -> Node \cup {NoNode}], dirty : SUBSET Ids,
           emb    : [Ids -> Vector \cup {NoVec}],
           table  : [dim : Nat \cup {NoDim}, row : [Ids -> Vector \cup {NoVec}]],
           vecDim : Nat \cup {NoDim}, model : Models \cup {NoModel} ]

(* The types; a transaction is open whenever the view is not the database, *)
(* and only nodes have embeddings and dirty marks.                         *)
TypeOK ==
    /\ db \in Store /\ view \in Store
    /\ txn \in BOOLEAN /\ (~txn => view = db)
    /\ session \in [kind : Kinds, model : Models] \cup {Closed}
    /\ dim \in Nat \cup {NoDim}
    /\ pc \in {"idle", "index", "refresh", "reembed", "rebuild", "refill"}
    /\ todo \subseteq Ids
    /\ warned \in BOOLEAN
    /\ \A v \in {db, view} : v.dirty \cup {i \in Ids : v.emb[i] # NoVec} \subseteq Live(v)

(* The vectors a search of the session's embedder can see: those of its    *)
(* dimension in embeddings; or, by the index, those joined to a node.      *)
Exact(v, d) == {<<i, v.emb[i]>> : i \in {j \in Ids : v.emb[j] # NoVec /\ Dim(v.emb[j]) = d}}

Indexed(v, d) ==
    IF dim # d THEN {} ELSE {<<i, v.table.row[i]>> : i \in {j \in Live(v) : v.table.row[j] # NoVec}}

(***************************************************************************)
(* "results match BruteForceVectorIndex exactly" (vector.py:82): between   *)
(* the steps of a rebuild apart, a session with the extension searches the *)
(* very vectors of the authoritative table, after any rollback, reuse of   *)
(* an id and crash.                                                        *)
(***************************************************************************)
MatchesBruteForce ==
    session.kind = "vec" /\ pc # "refill" =>
        LET d == DimOf[session.model] IN Indexed(view, d) = Exact(view, d)

(***************************************************************************)
(* rebuild_index is the backstop against any drift (vector.py:206-210):    *)
(* when it returns, the index has the embeddings of the prevailing         *)
(* dimension and nothing else, whatever sessions without the extension,    *)
(* other embedders and lost commits have left.                             *)
(***************************************************************************)
RebuildRepairs ==
    [][RefillTable =>
          Indexed(view, dim)' = Exact(view, dim)' /\ (Exact(view, dim)' = {} => view'.emb = NoRows)]_vars

(***************************************************************************)
(* set_embedding, index_remove and the cascade of the foreign keys keep    *)
(* the index in sync (store.py:53-58, :155-162).  A table that has the     *)
(* vectors of its dimension and no other, in the database and in the open  *)
(* transaction, keeps them through whatever a session with the extension   *)
(* does: batches that fail half way, rollbacks over the lazy CREATE,       *)
(* crashes, ids that are used again.  What may break it is a rebuild that  *)
(* has begun, an embedder of another dimension, and an interrupt between a *)
(* write and the end of its hook.                                          *)
(***************************************************************************)
InSync(v) ==
    \A i \in Ids :
        v.table.row[i] = IF v.emb[i] # NoVec /\ Dim(v.emb[i]) = v.table.dim THEN v.emb[i] ELSE NoVec

Complete(v) == v.table.dim = NoDim => v.emb = NoRows

InStep == \A v \in {db, view} : InSync(v) /\ Complete(v)

StaysInSync ==
    [][/\ session.kind # "plain" /\ session'.kind # "plain"
       /\ pc # "rebuild" \/ session' = Closed
       /\ ~TearsHook
       /\ dim = NoDim \/ session = Closed \/ dim = DimOf[session.model]
       /\ InStep
       => InStep']_vars

(* "A deleted node's stale vec_items row is inert" (vector.py:90): no node *)
(* is scored by the vector of another one.                                 *)
StaleRowsAreInert ==
    session.kind = "vec" =>
        \A i \in Live(view) : view.table.row[i] # NoVec =>
            view.table.row[i].of.uid = view.node[i].uid

(* "re-ensure and retry once so the index self-heals" (vector.py:144-145): *)
(* a vector of the index's dimension is in the index once it is embedded.  *)
SelfHeals ==
    [][\A i \in Ids : Embed(i) /\ session.kind = "vec" /\ dim \in {NoDim, DimOf[session.model]} =>
          view'.table.row[i] = view'.emb[i]]_vars

(* _check_embedder_compat "warns if it changed since the store was last    *)
(* written" (api.py:106): without a warning, the stored embeddings are     *)
(* those of the session's embedder.                                        *)
UnwarnedIsCurrent ==
    session # Closed /\ ~warned =>
        \A i \in Ids : view.emb[i] # NoVec => view.emb[i].model = session.model
=============================================================================
