# A TLA+ model of memorydb

memorydb keeps a graph of a repository's symbols in one SQLite file: it indexes
source files into nodes and edges, embeds each node together with its
neighbourhood, and answers queries with packed context. This directory models
the parts whose correctness depends on the order of events, checks them with TLC
and proves some of their properties with TLAPS. Paths below are relative to the
repository's `src/memorydb/`.

## The system

| Component | State it keeps | Operations | Talks to |
|---|---|---|---|
| Graph store (`store.py`, `schema.sql`) | tables `nodes` (with `embed_dirty`), `edges`, `embeddings`, `pending_edges`, `meta`; one connection with an implicit transaction | `upsert_node`, `upsert_edge`, `set_embedding`, `set_meta`, `commit`, `close` | everybody; calls the vector index on `set_embedding` and `index_remove` |
| Schema migrations (`migrations.py`) | `PRAGMA user_version` and the schema itself | `migrate` | run by `Store.__init__`, against other processes' `migrate` on the same file |
| Indexer (`indexer.py`) | nothing of its own; the hash on each file node is its memory | `index(root, force)` | the working tree, the extractors, the store, then the embedding pipeline |
| Extractors (`adapters/code`) | nothing | `extract(path, data)` | called by the indexer |
| Embedding pipeline (`embedding_pipeline.py`) | nothing of its own; `embed_dirty` is its queue | `refresh`, `reembed_all` | store, embedder |
| Vector index (`vector.py`) | `vec_items`, derived from `embeddings`, and a cached `dim` | `upsert`, `remove`, `search`, `rebuild_index` | called back by the store inside its transactions |
| Query-embedding cache (`query_cache.py`) | a bounded map with a model and a dimension tag | `reconcile`, `get`, `put`, `dump`, `load` | shared by planners |
| Intent classifier, planner (`planner.py`) | a bounded cache of intents | `analyze`, `retrieve`, `explain`, `locate` | LLM client, store, vector index, ranker |
| Graph queries (`query.py`) | a temporary table on the connection | `traverse`, `subgraph_edges`, `node_neighborhood` | store |
| Ranker, graph view (`ranker.py`, `graph.py`) | cached scores | `rank`, `pagerank`, `communities` | store |
| Context builder (`context.py`) | nothing | `build` | planner's result, token counter |
| Facade (`api.py`), CLI, evaluation | an open flag, `meta` entries | `open`, `index`, `refresh_embeddings`, `explain`, `close` | all of the above |

What makes each correct, and what is hard about it:

* **Indexer and store.** A file whose hash is stored is skipped, so the hash
  must never be durable before everything the file contributes; an edge from an
  unchanged file dies with its callee and must come back; nothing of an old
  version of a file may survive. Hard because the state is built by long
  sequences of edits, incremental runs, failures and crashes, and because the
  candidates for re-resolution are chosen by name.
* **Embedding pipeline.** A node that is not dirty has the embedding of its
  present neighbourhood. Hard because neighbourhoods change from the far end,
  and because a batch can fail half way without a rollback.
* **Migrations.** The version never runs ahead of the schema, and a store that
  opened has the schema of its build, with several processes and builds at once.
  Hard because of what SQLite does with deferred transactions: a lock that is
  waited for, a lock that is refused at once, a snapshot that has gone stale.
* **Vector index.** Derived from `embeddings`; must survive rollbacks, node-id
  reuse, a change of dimension and a crash between its steps.
* **Query cache, intent cache.** Bounded; never an answer of another model, never
  an eviction of what was just stored.
* **Python resolver.** An edge that is wrong is worse than none. Hard because the
  resolver's maps are flat and first or last wins by the traversal, where Python
  has scopes, and because definitions of one name need distinct uids.
* **Queries, context.** Bounded reachability; never more tokens than the budget.

`PROJECT.json` lists every component, and every hazard at the line where it bites.

## The modules

    GraphStore            the tables, and the writes made to them, as operators
      Indexer             index() and refresh() as a state machine over a store
        IndexerRefines    the refinement mapping to IndexSpec
        MCIndexer         small repositories; MCIndexerRefines joins the two
        IndexerProofs     embeddings (I), the graph (II), the refinement (III)
    IndexSpec             what index() promises to a reader of the store
    Migrations            migrate() in several processes
      MCMigrations, MigrationsProofs
    VecIndex              the derived index through the sessions of MemoryDB
      MCVecIndex, VecIndexProofs
    QueryCache            planners that share caches, processes that share a dump
      MCQueryCache, QueryCacheProofs
    Planner               intents, their cache, the guard; LOCATE and FILTER
      MCPlanner, PlannerProofs
    Traverse              the recursive query and shortest_path()
      MCTraverse, TraverseProofs
    PyResolver            the precise resolver for Python, and Python's scopes
      MCPyResolver, PyResolverProofs
    ContextPacking        ContextBuilder.build()
      MCContextPacking, ContextPackingProofs

### GraphStore

A value of the store is one record. `sha` is the hash on the file nodes, with
the content standing for its hash; `nodes` the symbol nodes; `edge[s][d]` the
confidence of the row of `edges`, 0 for none; `row[s][n]` the row of
`pending_edges` with that key; `dirty` the nodes with `embed_dirty = 1`;
`emb[u]` what the stored embedding was computed from. `DeleteFiles`,
`UpsertNodes`, `UpsertEdges` and `SetEmbeddings` are the writes, each with
everything the code does in the same breath: the cascade of the foreign keys,
the dirty marks, the maximum of the confidences.

Abstractions. A uid `path::name` is the pair of the two. The content of a file
is the record of what the extractors return for it: the names it defines, edges
inside the file (`inner`), edges with a computed target (`precise`) and
references by name (`coarse`). There is one relation. Qualified names collapse
to simple ones. Weights, sources and bodies are left out, and so are the file
nodes' own embeddings. Confidences are percentages.

### Indexer

| Variable | Code |
|---|---|
| `disk` | the working tree |
| `db` | the committed database |
| `view` | what the connection sees; differs from `db` while a transaction is open |
| `phase` | where `index()` or `refresh()` is |
| `force`, `existing`, `toRead`, `changed`, `affected` | the locals of `index()` |
| `todo` | the ids `refresh()` has not come to |

| Action | Code |
|---|---|
| `Discover` | `_discover`, `_existing_files` |
| `DeleteGone` | the loop over vanished files |
| `ReadFile`, `ReadError` | one iteration of the hash loop each |
| `Pass1`, `Pass2`, `Resolve` | the two passes and `_resolve_pending` |
| `Commit`, `Fail`, `Crash` | the three ways the transaction ends |
| `Interrupt` | a KeyboardInterrupt between any two statements of a run or refresh: the call ends and the transaction stays open |
| `StartRefresh`, `EmbedBatch`, `EmbedDone` | `refresh` and `reembed_all` |
| `Edit` | somebody saves or removes a file, at any time |

A phase without a choice is one step, since all of it happens in one transaction
of one connection and no iteration of its loops reads what another one wrote
(the names and end points that PASS 1 creates are read by PASS 2 only). What can tell
the statements of a phase apart is a KeyboardInterrupt, which no handler rolls back:
`Interrupt` leaves what any number of them have written. The loops may visit the
files in any order, so that is a set of files done, and one file in the middle of
its statements: `Deleting` the four statements of `_delete_file`, `CutPass1` some of
the symbols, `CutPass2` some of the edges and then some of the rows, `CutResolve`
some of the claims, `CutRefresh` some of the embeddings. The two statements of
`upsert_edge` are told apart only when `TornEdges` is TRUE. Reading the files is a step
for each, because the tree may change in between. A batch of embeddings is a
nondeterministic subset `B` of what is left, of which any subset `W` may have been
written when it failed.

What is said about it:

* `TokenNeverAhead`: what the stored hash of a file promises is durable.
* `PendingResolved`: every pending row that can be resolved is.
* `EdgesClaimed`: every edge goes back to a reference in the present text of
  its caller, at no more than its confidence.
* `UnambiguousEdgeSurvives`: an edge to an imported target survives any edit of
  the target's file that keeps the target.
* `ForcedRunRebuilds`: a forced run builds what a first run would have built, whatever
  interrupts left. An interrupt between the last two statements of `_delete_file`
  (indexer.py:265-266) leaves rows of `pending_edges` for a file that is gone, which no
  forced run removes; they have no caller, and `_delete_file` takes them when there is
  a file of that path again. So the rows are compared for the paths that have a file
  node, everything else in full.
* `EmbeddingsCurrent`: clean nodes have current embeddings, in both copies. It holds
  with an interrupt between any two statements but the INSERT of an edge
  (store.py:132) and the UPDATE that marks its ends (store.py:145): what one leaves there
  is clean and stale, as `IndexerTornEdge.cfg` shows. The other properties do not mind:
  `IndexerTorn.cfg`, run by hand on `MCIndexer`, has `TornEdges` and passes.

### IndexSpec and IndexerRefines

`IndexSpec` is `index()` for a reader who knows nothing of transactions: `Begin`
lists the tree, `Look` sees one file at a time while the tree changes, and
`Finish` records all of it in one step, or `Abort` nothing. `IndexerRefines` maps
`indexed` to the committed hashes, `symbols` to the committed nodes, and `found`
to what the run has kept so far (`Found`: the bytes read, the files skipped as
unchanged, those that could not be read with their old record). The passes, the
resolution and the refreshes are stuttering. `ImplementsIndexSpec` is checked by
`indexer_edit` and proved in part III of `IndexerProofs`. It is false of a process
that goes on after a KeyboardInterrupt, which is what `indexer_interrupt` shows.

### Migrations

| Variable | Code |
|---|---|
| `version`, `applied` | `user_version` and the migrations whose objects exist |
| `writer` | SQLite's write lock |
| `pc`, `at` | where each opener is, and the number of its migration |
| `snapshot`, `seen` | its read snapshot, and its cached schema |

`ReadVersion` is the one look at the version; `Begin` the loop;
`ApplyReading`/`ApplyWriting` the first statement of a migration, which reads
(`PRAGMA table_xinfo`, or `IF NOT EXISTS` on an object the cached schema has) or
writes; `BusyTimeout` the busy handler giving up; `SetVersion`/`LockedAtOnce` the
first write after a read, and its refusal; `Commit`; `ApplyFails` any other
exception; `Close` the death of the process or the end of the connection, after
which it may open again. `CanWrite` states when SQLite grants the lock: it is not
code of this repository, and was observed on the sqlite3 of CPython.

### VecIndex

The store again, seen from the other side: what matters here are node ids, which
SQLite uses again, and `vec_items` beside `embeddings`. `db` and `view` are as in
`Indexer`; each holds the nodes, the dirty marks, the embeddings, the table with
its dimension, and the entries `vec0_dim` and `embed_model` of `meta`. `session`
is the open `MemoryDB` (with the extension or without, and its embedder), `dim`
the attribute the index caches, `txn` whether a transaction is open.

| Action | Code |
|---|---|
| `Open`, `Close` | `MemoryDB.open` with `SqliteVecIndex.__init__` and `_check_embedder_compat`; `Store.close` or the end of the process |
| `StartIndex`, `Delete`, `Insert`, `Change`, `CommitIndex`, `RollbackIndex` | what an `index()` may do to the nodes |
| `StartRefresh`, `Embed`, `LeaveDirty`, `CommitRefresh` | `refresh`, `reembed_all` and `set_embedding` with its hook |
| `StartRebuild`, `DropTable`, `RefillTable` | `rebuild_index`, also after `refresh_embeddings(full=True)` |
| `Interrupt` | a KeyboardInterrupt in any of these calls, between any two statements: `CutDelete` (nodes gone, `index_remove` not done), `CutEmbed` and `CutUpsert`, `CutDrop`, `CutRefill` |
| `Query` | `explain()`, for the transaction that its temporary table opens |

A vector is the text it was computed from and the model, its length the model's.
`Upsert` is the code's first try and its retry in one, since both are in one call, and
only an interrupt gets between them (`CutUpsert`);
`DropTable` and `RefillTable` are two, because a DROP outside a transaction is
durable at once and a process may end in between.

* `StaysInSync`: a table that has the vectors of its dimension, in the database
  and in the transaction, keeps them through whatever a session with the
  extension does. Its exceptions are a rebuild under way, an embedder of another
  dimension than the cached one, and `TearsHook`: an interrupt between a write to
  `nodes` or `embeddings` and the end of its hook (indexer.py:261-264,
  store.py:149-160), which leaves a stale or a missing row for a later commit.
  `VecTorn.cfg` shows the last; a rebuild repairs it.
* `RebuildRepairs`: whatever was wrong before, the index is exact after a rebuild.

### QueryCache

Caches are records with the model and dimension tags, a map and the order of its
keys. A planner's `_embed_query` is two steps, `Ask` and `Embedded`, with the call
of the embedder in between, when another process may dump; `dump()` is three, up to the
rename. The planners of one cache take turns (`MayRun`): nothing in the code locks a
cache, no line says that threads may share one, and a planner reads its store through
a connection that sqlite3 binds to the thread that made it. `Interrupt` is a
KeyboardInterrupt between two statements of `reconcile()`, `put()` or `load()` in a
process that goes on (`CutReconcile`, `CutPut`, `CutLoad`). `Restart` ends the process of a
cache, `Damage` is the disk. `IdentityAssumption`: two embedders of one name have one
length, or both advertise theirs.

* `ServedIsOwn`: no planner is ever served another embedder's vector.
* `Bounded`: a `put()` or `load()` that returns has not taken the cache beyond its bound.
  After an interrupt between the store and the pop (query_cache.py:89-91) there is one
  entry too many, and since `put()` pops once only the next `load()` or clearing
  gets rid of it: so the property is about each call, and not about every state.
* `FreshIsKept`: what was just stored is there when `put()` returns, also in such a cache.
* `FileIsWhole`: nobody finds a half-written dump.

### Planner

A query is a model value with its words; a client may answer anything, valid or
not, confident or not, or fail. One classifier with its bounded cache serves
planners that have stores of their own; stores are indexed between queries.
`Retrieve` is one call of `retrieve()`: the verdict from the cache or the client,
cached before the guard, the guard of `analyze()` on the store `symbol_exists`
looks at, the guard of `retrieve()` on its own, then LOCATE or FILTER. A node is a
number in the order of the uids, so the rows of FILTER are a set and `ORDER BY uid
LIMIT l` takes the `Lowest`; the sorted candidates of `_candidates` are an order on
their places (`Before`), of which `locate()` takes the first that names a node.

* `LocatesWhatTheModelNamed`: a cached verdict follows the symbol as it comes and
  goes in the store.
* `VerbsAreLastResort`: how a LOCATE without a symbol is grounded.
* `CapIsNeverSilent`: FILTER is exact or says that it was cut.

### Traverse

SQLite's evaluation of the recursive query: rows wait in a queue, are extracted
in any order, and UNION lets a row in once. `ReachedByWalks` compares the result
with walks over the edges; `BoundedSearchIsExact` compares `shortest_path()`, which
searches the subgraph that a bounded traverse induces, with the whole graph.

### PyResolver

A module is a set of numbered statements: imports, definitions, blocks, bindings
and calls, each with the set of those it is in (none for one of the module). The three passes over it are
`CollectImports` (with the breadth-first order of `ast.walk`, which decides who is
first in `setdefault`), `CollectDefs` (uids with their ordinals, stubs passed over
for implementations) and `WalkEdges` (shadowing as `symtable` tells it, then the
module's definitions, the imports, the star); `Unparsable` is the empty extraction
of a text with a syntax error. A dotted name, a path and a qualified name are
sequences of parts, and an edge carries the number of its use, so that it can be
compared with `Means`: what the name may stand for by Python's own lookup, through
its scope, the functions around it and the module, by whichever of the statements
there that bind it.

* `StraightIsNeverWrong`: when the name is bound where the use is or in the module,
  no edge goes to anything the name cannot mean, whatever overloads, siblings of
  one name, conditional definitions and rebindings there are.
* `CertainIsFound`: such a use that can mean one thing only has its edge, to the
  implementation if there are overloads.

`Straight` excludes what the resolver does not look at: a name of a function between
the use and the module, an import elsewhere, a local that shadows a receiver, and
relative imports in an `__init__.py`. `NeverWrong`, the claim of the module's
docstring without that condition, does not hold (see below). `SelfOf` is what the
proof asked for beyond the run: the code resolves `self.f` by the innermost class
around the use, through functions too, without asking whose `self` it is. So the
`self` of a static method (a name of the module), of a nested function with a
parameter of that name, one that is bound anew or imported, and the `self` in one of
two classes of one qualified name, whose methods `class_methods` keeps under one key,
are left aside; the 23 statements of the run have none of these.

### ContextPacking

`build()` one iteration of a loop at a time. A text is its length, `Count` any
token counter, confidences are hundredths, and the fallback score is in integers.
The sorted lists of the code are sets with an order (`Precedes`, `EdgeOrder`), of
which an iteration takes the first: uids are unique, and so are the edges of a pair
by relation, so the orders are total and the sort has one result. `MaxLength` is any
length that no card or line exceeds; it only says for which texts the counter must be
defined. `CounterAssumption` is that a text
has a token at least, on which the test `used == 0` for the first card relies.
The code skips a card that does not fit and goes on with smaller ones
(context.py:173-175); the packing spec in `docs/` describes a loop that stops. The
module follows the code; `StopsAtFirstMisfit` is what the spec says, and
`ContextPrefix.cfg` shows where they differ.

* `UsedWithinBudget`, `NothingLostUncounted`: nothing is overspent, or lost
  without being counted, whichever way the loop ended.
* `PackingIsMaximal`: a card left out does not fit beside those taken (of the code's loop,
  not of the spec's).
* `RelationsJoinIncluded`: the lines join cards that are there, best first.
* `LocateWithinBudget`: for LOCATE, the text itself fits, separators included.

## The runs

| Run | Question | Bounds |
|---|---|---|
| `indexer_edit` | Is the graph right after any sequence of edits, runs, failures and crashes, and is `index()` atomic? | 3 files, 2 names: `a.py` in two versions and `a/__init__.py`, both defining `f`, and a caller with two texts (by import, by name) |
| `indexer_embed` | Are clean embeddings current, and does a forced run repair what interrupts left? | 2 files, embedder on, interrupts between any two statements but those of `upsert_edge` |
| `migrations_mixed` | Three processes, builds of two ages | builds of 2 and of 3 migrations; the third begins with a read |
| `query_cache` | Are bound, freshness and ownership kept when two planners of different models take turns over one cache, calls are interrupted, and another process uses the same file? | 3 planners, of which one advertises a wrong length, 2 caches, 2 keys, at most 1 entry |
| `vec_index` | Does the index follow the embeddings, and does a rebuild repair it? | 2 node ids, 2 uids, 2 embedders of different dimension, sessions with and without the extension, crashes, interrupts from states in order (`CutFromOrder`) |
| `planner` | Are LOCATE and FILTER exact over stores that change under a cached verdict? | 2 planners, one with a model; 2 queries, a cache of 1, 9 answers of the client |
| `traverse` | Is the recursive query exact, in cycles and at depth 0? | 3 nodes, any subset of 6 edges, depths 0 to 3, all directions and relations |
| `py_resolver` | Is an edge ever wrong, or a certain one missing, when names are bound where they are used or in the module? | every closed subset of 23 statements, 1,920 modules, as `p/q/a.py` and as `p/q/__init__.py`: five forms of import, an overload with its conditional implementation, a class that inherits and calls its own method, two functions of one name, a nested one, a local and a local import |
| `context_packing` | Is the budget kept and every loss counted? | every budget from 0 to 60, 90 and a negative one; up to 4 cards, a cap of 3 cards; up to 6 references |
| `indexer_two_targets` | expected violation, see below | 3 files, a caller of two functions of one name |
| `indexer_interrupt` | expected violation | 2 files, interrupts on |
| `migrations_locked` | expected violation | 2 openers, the 6 migrations of the code |

The bounds are sets, not counters: no run limits the number of edits, runs,
crashes, opens, queries or dumps, and all of them are finite-state, because a store is a
function of finitely many contents and a cache of finitely many keys. The one exception
is `CutFromOrder`, an action constraint of `vec_index`: a call is interrupted in the
middle when the index is in step and nothing is uncommitted, or a rebuild when the
committed table has no wrong row. What the interrupt leaves then goes through every
other step, but a second one does not come on top of it; the proofs have no such bound.
That run also uses the symmetry of the uids, which are only compared with one another.

* Two callees of one name are what ambiguity needs; a third would add no case to
  `RowTarget`, which only asks whether a name is unique. Two versions of a callee
  that define the same name make the cascade and the rebuild happen; a version
  that drops the name is the removal of its file.
* Three openers show every pairwise race and the older build that lowers the
  version between the steps of two newer ones.
* Two ids are enough for one to be freed and used again while the other stays;
  two dimensions for every branch of `Upsert`.
* One entry in the cache makes every put an eviction, and an interrupted one leaves a
  second entry; two lengths make planners of one cache clear each other's entries, and
  the wrong advertised length makes `put()` and `reconcile()` disagree.
* Cycles of two and three nodes, a self-loop and a pair of parallel relations are
  within three nodes; the depth 3 is one more than any shortest path needs.
* The statements of `py_resolver` bind one name in every way there is, so that each
  rule of precedence meets each other one; two definitions of a name are what the
  ordinals, the stubs and the merged scopes need.
* The budgets of `context_packing` walk through every rounding of the safety
  margin and the reserve up to where all that is left out is left out by the cap.

`CHECK_DEADLOCK FALSE`: each of these systems may stop, wherever nobody edits, indexes,
opens or asks.

Each property of a passing run has a mutant of the code next to the definition
it mutates, marked as such, which the run must refute.

### Disagreements found

* `indexer_two_targets`: a caller of `a.f()` and `b.f()` has two precise edges but,
  by the key of `pending_edges`, one row; editing `a.py` loses the first edge
  although `indexer.py:140-143` says that the row rebuilds it.
* `indexer_interrupt`: `except Exception` lets KeyboardInterrupt by, and the open
  transaction is committed by the next run, which skips the files by their
  uncommitted hashes (`indexer.py:86-88` says this can never be).
* `migrations_locked`: a migration that begins with a read is refused the lock at
  once; `store.py:21-23` says that a second writer waits.

More configurations show other disagreements; each is run by hand with
`tlc -config <file> <module>` and ends with the trace of a violation.

| Configuration | Module | Property | What it shows |
|---|---|---|---|
| `MigrationsVersion.cfg` | `MCMigrations` | `VersionNeverDecreases` | A second opener that read the version early applies everything again and sets the version back on its way; `schema-migrations.md:100` says it skips. |
| `IndexerTornEdge.cfg` | `MCIndexer` | `EmbeddingsCurrent` | A KeyboardInterrupt between the INSERT of an edge and the UPDATE that marks its ends leaves clean nodes with the embedding of another neighbourhood, and the next run commits them; `store.py:144` says that both ends' neighbourhoods changed and are to be re-embedded. |
| `VecLost.cfg` | `MCVecIndex` | `MatchesBruteForce` | Nobody commits `rebuild_index`, and its DROP may be durable when its rows are not: a store closed normally after `refresh_embeddings(full=True)` finds nothing when it is opened again; `vector.py:82` says the results match the brute force. |
| `VecReuse.cfg` | `MCVecIndex` | `StaleRowsAreInert` | A session without the extension leaves the row of a deleted node, whose id the next node gets; `vector.py:90` calls the row inert. |
| `VecTorn.cfg` | `MCVecIndex` | `MatchesBruteForce` | A KeyboardInterrupt between a write and its hook leaves `vec_items` without a vector, or with one of a node that is gone, in a transaction that a later call commits, with the extension always there, one dimension and no rebuild (`vector.py:82` again). |
| `VecHeal.cfg` | `MCVecIndex` | `SelfHeals` | After a rollback over a change of dimension the retry of `upsert` meets the old table, and the vector is dropped; `vector.py:144` says the index heals itself. |
| `VecWarn.cfg` | `MCVecIndex` | `UnwarnedIsCurrent` | The second open after a change of embedder warns no more, with nothing re-embedded (`api.py:106`). |
| `QueryCacheLoad.cfg` | `MCQueryCache` | `LiveEntriesKept` | A load into a full cache evicts the live entries; `query_cache.py:133` says they are kept. |
| `QueryCacheWrongDim.cfg` | `MCQueryCache` | `RealLengthIsAuthoritative` | An embedder that advertises a wrong length has its cache cleared on every query; `query_cache.py:85` says the real length counts. |
| `PyResolverReceiver.cfg` | `MCPyResolver` | `NeverWrong` | A parameter that has the name of an imported module is taken for the module: `import x` and `def g(x): x.f()` give an edge to `x.py::f`; `python_resolver.py:10-14` says that shadowed names are skipped and an edge is never wrong. |
| `PlannerVerbs.cfg` | `MCPlanner` | `VerbsAreDropped` | A verb that names a symbol is grounded when nothing else is; `planner.py:351` says verbs are dropped, `planner.py:44` that they come last. |
| `ContextPrefix.cfg` | `MCContextPacking` | `StopsAtFirstMisfit` | A smaller card is taken after a better one that did not fit (`context.py:173-175`); `docs/specs/completed/context-builder-packing.md:71-72` says "stop and count the rest as dropped". |
| `ContextText.cfg` | `MCContextPacking` | `TextWithinBudget` | The heading of the relationships and the blank lines are in the text but not in `used_tokens`; a review in `docs/` reports a sweep without a case. |
| `ContextTokenizer.cfg` | `MCContextPacking` | `UsedWithinBudget` | With a counter that gives more than a token per four characters, the cut card overruns the budget (`context.py:48`). |

## Fairness

`Indexer`, `VecIndex`, `QueryCache`, `Planner`, `PyResolver` and `ContextPacking` have none: their
properties are safety, and nobody has to edit, index, open or ask; the passes of the resolver are three in
a row.

`Migrations` assumes weak fairness of `Step(p)`, the steps of an opener that is
running: a process that has not died executes its next statement. Opening,
closing and failing are not fair. Under this, `EveryOpenSettles`: an opener that
connected returns or raises, unless it goes away, because the busy timeout ends
every wait and the loop is bounded.

`Traverse` assumes weak fairness of extracting some row and of returning: SQLite
goes on with a statement it has begun. Which row comes next is not fair. Under
this, `QueryReturns`: the query ends also in a cycle, because the depth is part of a row
and bounded.

## Proofs

`MigrationsProofs` proves, for any set of openers, any assignment of builds to
them and any number of migrations, from `MigrationsAssumption` alone:
`TypeCorrect`, `VersionIsCovered` and `OpenStoreHasSchema`.

`VersionCovered` is not inductive. `Commit` sets the version to a number its
opener chose when it entered the loop, perhaps long ago, and the version may have
moved in both directions since. The invariant `IInv` adds `Behind` (an opener in
the loop has behind it every migration up to the one it is at, which stays true
because objects are never dropped), `WriterInTxn` (the holder of the lock is
inside a transaction, and a committer holds it) and `NoLostUpdate` (the holder's
snapshot is fresh). There is one lemma per action or family of actions; the
theorems combine them with PTL.

Part I of `IndexerProofs` proves `TypeCorrect` and, under `~TornEdges`,
`CleanEmbeddingsAreCurrent` (the invariant `EmbeddingsCurrent`) for any files, names and
contents, any editor, and interrupts between any two statements but those of one
`upsert_edge`, from the assumptions on the constants in `GraphStore` and
`Indexer`. The argument does not depend on the phase of `index()`: `Sound`, which
is `CleanIsCurrent` with the type of the store and the foreign keys of `edges`
(`Linked`), is preserved by each write on its own (`DeleteFilesSound`,
`UpsertEdgesSound`, ...), so whatever the transaction has written so far, and
whatever a commit, a rollback or an interrupt makes of it, is sound. `Linked` is
needed because a dangling edge would make PASS 1 give a clean node a new
neighbour. What an interrupt leaves is put together of the same writes over fewer files,
symbols, claims or rows (`InterruptSound`); only a half done `upsert_edge` is not sound,
and keeps no more than the types and `Linked` (`Shaped`). PASS 1 itself is sound only as a whole: upserting the symbols of a file
that was not emptied first would change the hash under the ones that stay clean,
so `UpsertSomeSound` asks for what `DeleteFilesSound` leaves. The type of what
`_persist_pending` writes rests on two lemmas, that a bounded set of numbers has
a greatest element (`MaxOfBounded`) and that one of a caller's targets is the last
(`LastOfIn`). The run `indexer_embed` shows the same invariant on two files.

Part II proves the other properties of the indexer, again for any files, names,
contents and editors.

* `EdgesComeFromText` (`EdgesClaimed`) needs no hypothesis: it holds with every interrupt,
  torn edges included. `Backed` says that every edge, and every row of a path that has a
  hash, goes back to a reference in the present text of its caller, and that every node is
  one of the hashed text; each statement keeps it, provided the kept bytes are the hashed
  ones while edges are written (`HashedNow`). `Claimed` is what the next theorems need
  besides: the nodes are all there (`Whole`), and no rows are left of a path without a file.
* `TokenIsNeverAhead` and `PendingIsResolved` hold without interrupts; the first is
  false with them, as `indexer_interrupt` shows. Neither is inductive, since a
  transaction passes through states where both are false: `DInv` says what a run owes
  at each phase (`OwedFile`, `OwedRow`) and that everything else is as promised. The
  step that matters is `ResolvePendingGood`: a row that the run does not look at has
  the same target as before, because no name it could be resolved by came or went.
* `ForcedRunIsFirstRun` (`ForcedRunRebuilds`) needs no hypothesis either: when every hash
  of the view is that of a file this run has read, the view has, table by table, what the
  same step makes of an empty store (`Rebuilding`), but for the rows of paths that have no
  file (`SameIndex`). That such rows change nothing is `SameIndexPassTwo` and
  `SameIndexResolve`, which rest on `Within`: no caller of theirs exists.
* `PreciseEdgesSurvive` (`UnambiguousEdgeSurvives`) has two hypotheses: no interrupts,
  and `PreciseOutranks`, that a precise reference has more confidence than a coarse one
  of the same caller and name. The code's confidences have it for every reference but a
  star import's (0.5 against 0.6), whose edge may be a guess by name that owes
  nothing to the row. `SInv` adds that a precise edge has the pending row that leads
  back to it (`EdgeHasRow`), which is what a run resolves again after the cascade.

Part III proves `IndexIsAtomic`: without interrupts, `Spec` implements
`IndexSpec`. The initial states map to initial states (`InitRefines`), and under two
invariants every step maps to a step or a stutter (`NextRefines`): `IInv` of
part I, and `RInv`, which says that the symbols of either copy of the
store are those of its hashes at every step (`Whole`), and that what the
transaction holds of a file the run has still to read is what was last committed
(`InStep`). `RInv` is where interrupts are excluded: after one, the transaction
holds what no run that is under way has read.

`VecIndexProofs` proves, for any ids, embedders and dimensions, from
`VecIndexAssumption`: `TypeCorrect`; `RebuildAlwaysRepairs` (`RebuildRepairs`), which
rests on what the prevailing dimension is (`PrevailingIs`) and on what a refill leaves
(`RefillIs`); and `SyncIsKept` (`StaysInSync`), by a lemma for each write (`EmbedGood`,
`DeleteGood`, `OpenGood`, ...). `VInv` adds that the ids a refresh has still to embed
are those of nodes, without which it could write a vector for a node that is gone, and
that the table is gone when it is about to be refilled. The types are kept by every
interrupt (`InterruptVInv`); of the index, `StaysInSync` leaves out the interrupts of
`TearsHook`, and the others change nothing (`InterruptCutsNothing`).
`OrdinaryIndexIsExact` says
where the claim of `vector.py:82`, which `VecLost.cfg` refutes in general, is true:
when every session has the extension, all embedders have one dimension and nobody asks
for a rebuild (`Ordinary`), and as long as no interrupt falls between a write and the end
of its hook (`[][~TearsHook]_vars`), every session searches the very vectors of
`embeddings`, in the middle of `index()` and `refresh()` too. `VecTorn.cfg` shows that the last
hypothesis is needed. Its invariant `OInv` says that `vec0_dim` and the cached `dim` agree with
the table, through rollbacks over its creation.

`QueryCacheProofs` proves, for any planners that take turns, caches, models, lengths, keys
and bounds, with interrupts, from the three assumptions of `QueryCache`, five properties.
`ServedVectorsAreOwn` (`ServedIsOwn`) follows from `IInv`: the vectors in every cache,
every dump under way and the file are of the model and length they are tagged with
(`Coherent`), also in what an interrupt leaves (`CutPutCoherent`, `CutLoadCoherent`, ...);
a planner in a call has its cache to itself (`Alone`), and while it waits for its embedder
the cache has its model's tag and not the key it asked for (`Waiting`). On top of it, `TInv`
(the order of a cache lists exactly its keys, each once; only a whole temporary is
renamed) gives `TypeCorrect`, `CacheIsBounded`, `DumpIsAtomic` and `FreshVectorIsKept`.
`CacheIsBounded` (`Bounded`) is about each `put()` and `load()` that returns, from a cache
within its bound; the last needs that what was put is last in the order and eviction
takes from the front.

`PlannerProofs` proves, for any stores, vocabularies, queries, answers and bounds of
the cache, from `PlannerAssumption`: `TypeCorrect`, `VerdictIsNeverStale`,
`VerbsComeLast` and `FilterTellsItsCap`. What a step has to know of earlier ones is
`CacheInv`: a cached verdict is `Parse` of the client's last answer to that query,
before any guard, and a query is cached once. The rest is about the operators: the
order of the candidates is strict and total, so that the best of them exists
(`BestExists`), and `LIMIT` of one more than `k` rows tells whether it cut
(`LowestHas`, `LimitIsEnough`).

`TraverseProofs` proves, for any graph, seeds and bound, from `TraverseAssumption`:
`TypeCorrect`, `ResultIsTheReachable` and `PathSearchIsExact`. The invariant
`Worklist` is that of any worklist: a row stands for a walk of its depth, the seeds
have rows, and what an extracted row leads to has one. When the queue is empty, a
walk whose end has no row would have a first node without one (`WalksHaveRows`).
A shortest path of the whole graph lies in the induced subgraph, because each of
its nodes is reached within the bound (`InducedWalks`).

`ContextPackingProofs` proves, for any results, budgets, cap and counter, from
`ContextAssumption` and `CounterAssumption`: `TypeCorrect`, `NothingIsLost`,
`PackingStaysMaximal` and `RelationsAreTheBest`. `IInv` has four parts. `Counted`: what
is packed, what is dropped and what is left add up to the items, in each loop.
`Greedy`: while the loop of the cards runs, `used` is the cost of what is packed, a
card passed over did not fit, and its room only shrinks; the first card is the best
of all. `Joined`: the lines so far are within the reserve and every edge that is left
comes after them. That the loops have a first element at all is `LeastExists`, about
any total and transitive relation on a finite set. Two theorems have a hypothesis on
the counter. `BudgetIsKept` (`UsedWithinBudget`) needs that no text has more than a
token per four characters (`NoDenser`), since the cut is made by characters:
`ContextTokenizer.cfg` shows that the claim of `context.py:48` is false of denser
counters. `LocateFits` (`LocateWithinBudget`) is about `HeuristicCounter` itself
(`IsHeuristic`); its invariant `Margin` is that the header has four tokens at least and a
reference five, so that the tenth of the budget that is held back pays for the newlines.

`PyResolverProofs` proves, for any text, path and set of names, from `TextAssumption`
(the statements nest, and the modules are finite and contain what their statements are
in): `TypeCorrect`, `StraightEdgesAreRight` (`StraightIsNeverWrong`) and
`CertainEdgesAreFound` (`CertainIsFound`). The invariant `IInv` says what each pass left
behind: `ImportsKnown`, that an alias has a symbol or a module exactly if statements of
the text offer one, and then one that such a statement offers; `DefsKnown`, that a name has the uid of the
effective of its definitions; `EdgesKnown`, that the edges are those of the resolved
uses. That the passes have a first, last or least to choose is again an order on a
finite set: breadth first is total (`LeastExists`), numbers have a maximum and minimum
(`MaxIs`, `MinIs`). Uids differ because of two definitions of one qualified name the
later has strictly more before it (`UidsDiffer`). The rest relates the flat maps to
the scopes: a straight name that is not shadowed is one of the module
(`NameIsGlobal`), so that whatever `module_defs`, the imports or the star say of it is
something a binder of the module makes of it (`NameIsRight`); the methods under the
key of the use are those of the class of its `self` (`SelfIsOwn`); and an
implementation is preferred to its overloads wherever there is one (`StubsComeLast`).

The proofs lean on a few assumptions that say what the code does anyway: that an
edge inside a file ends at a definition of the file (`adapters/code/__init__.py:251-254`,
in `ContentsAssumption`), that the value for no path is no path (`TraverseAssumption`),
and the types of the vocabulary (`PlannerAssumption`).

Only model-checked:

* `EveryOpenSettles` and `QueryReturns`: liveness under fairness, out of the prover's
  reach.

## Not modelled

* The hybrid ranker, PageRank, communities and the evaluation harness are
  floating-point arithmetic, as are cosines and the choice of the seeds of
  `explain()`.
* The walk of the tree-sitter extractor over syntax trees is a pure function of the
  text. `Indexer` takes what it returns as given, in all the forms that matter to
  the store. Of the Python resolver, lambdas, comprehensions, `global` and `nonlocal`,
  the cap on nesting, and signatures, bodies and docstrings are left out.
* Two connections with an open read snapshot: `subgraph_edges` (query.py:123) writes a
  temporary table and leaves its transaction open; a second process that writes
  the same store meanwhile is outside the documented use.
* Ports, embedders, entry points, the command line and the plain reads and
  delegations of the store and the facade decide nothing that depends on order.

## Plan

`Connection`: the implicit transactions of `subgraph_edges` and `set_meta` against a
second process.
