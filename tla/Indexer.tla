------------------------------ MODULE Indexer ------------------------------
(***************************************************************************)
(* Indexer.index (indexer.py) over the store of GraphStore, with           *)
(* the working tree changing under it, and the embedding refresh that      *)
(* follows it (embedding_pipeline.py, MemoryDB.refresh_embeddings).        *)
(*                                                                         *)
(* One process, one connection.  db is what is durable, view what the      *)
(* connection sees: they differ exactly while a transaction is open.  A    *)
(* commit copies view to db, a rollback or the death of the process db to  *)
(* view.                                                                   *)
(*                                                                         *)
(* A phase of index() that makes no choice is one step.  Its loops visit   *)
(* files in the order of os.walk, but no iteration reads what another one  *)
(* wrote, apart from the symbols all of PASS 1 inserts, so a phase is a    *)
(* function of the store.  Reading the files is a step per file: the tree  *)
(* may change between two reads.  A KeyboardInterrupt is what can tell the *)
(* statements of a phase apart, since it ends the call and not the         *)
(* transaction: Interrupt leaves what any number of them have written.     *)
(***************************************************************************)
EXTENDS GraphStore

CONSTANTS
    Versions,      \* [Files -> SUBSET Contents]: what an editor may save
    Flaky,         \* files a stat or a read may fail on (OSError)
    HasEmbedder,   \* FALSE: Indexer(store, extractors) without an embedder
    Interrupts,    \* TRUE: KeyboardInterrupt, which `except Exception` lets by
    TornEdges      \* TRUE: also between the two statements of upsert_edge

ASSUME IndexerAssumption ==
    /\ Versions \in [Files -> SUBSET Contents]
    /\ Flaky \subseteq Files
    /\ HasEmbedder \in BOOLEAN
    /\ Interrupts \in BOOLEAN
    /\ TornEdges \in BOOLEAN
    /\ TornEdges => Interrupts

VARIABLES
    disk,       \* the working tree
    db,         \* the store as of the last commit
    view,       \* the store as the connection sees it
    phase,      \* where index() or refresh() is
    force,      \* the argument of index()
    existing,   \* _existing_files(): the hashes found before the transaction
    toRead,     \* discovered files whose bytes were not read yet
    changed,    \* the bytes kept for the files to re-index
    affected,   \* affected_names
    todo        \* refresh(): the ids of the dirty nodes not embedded yet

locals == <<force, existing, toRead, changed, affected, todo>>
vars   == <<disk, db, view, phase, force, existing, toRead, changed, affected, todo>>

Phases == {"idle", "delete", "read", "pass2", "resolve", "commit", "embed"}
InTry  == {"delete", "read", "pass2", "resolve", "commit"}

Nothing == [f \in Files |-> NoContent]
Tree    == [Files -> Contents \cup {NoContent}]

(* Locals die with the call that owns them. *)
ForgetLocals ==
    /\ force' = FALSE
    /\ existing' = Nothing
    /\ toRead' = {}
    /\ changed' = Nothing
    /\ affected' = {}

Init ==
    /\ disk \in {t \in Tree : \A f \in Files : t[f] \in Versions[f] \cup {NoContent}}
    /\ db = EmptyStore
    /\ view = EmptyStore
    /\ phase = "idle"
    /\ force = FALSE
    /\ existing = Nothing
    /\ toRead = {}
    /\ changed = Nothing
    /\ affected = {}
    /\ todo = {}

-----------------------------------------------------------------------------
(***************************************************************************)
(* Resolution of targets, pending rows and the edges of a file.            *)
(***************************************************************************)
InitUid(d) == <<InitForm[d[1]], d[2]>>

(* _safe_edge: the uid as computed, then its package form, then nothing. *)
Target(nodes, d) ==
    CASE d \in nodes -> d
      [] d \notin nodes /\ InitUid(d) \in nodes -> InitUid(d)
      [] OTHER -> NoUid

(* The claims that materialise: both end points exist. *)
Materialised(nodes, claims) ==
    {[src |-> c.src, dst |-> Target(nodes, c.dst), conf |-> c.conf] :
        c \in {x \in claims : x.src \in nodes /\ Target(nodes, x.dst) # NoUid}}

(* merged.edges of the file f with content c. *)
DirectEdges(f, c) ==
    {[src |-> <<f, e.src>>, dst |-> <<f, e.dst>>, conf |-> e.conf] : e \in c.inner}
    \cup {[src |-> <<f, p.src>>, dst |-> p.dst, conf |-> p.conf] : p \in c.precise}

(* The precise edges of s that PASS 2 writes to pending_edges under the     *)
(* name n: cross-file, and materialised.                                    *)
Persisted(nodes, c, s, n) ==
    {p \in c.precise : /\ <<s[1], p.src>> = s /\ s \in nodes
                       /\ p.dst[1] # s[1] /\ p.dst[2] = n
                       /\ Target(nodes, p.dst) # NoUid}

CoarseFor(c, s, n) == {q \in c.coarse : q.src = s[2] /\ q.name = n}

LastOf(P) == CHOOSE p \in P : \A q \in P : q.at <= p.at

PersistRowByName(v, c, s, n) ==    \* mutant: pending_edges without dst_uid
    LET Q == CoarseFor(c, s, n)
    IN  [ conf |-> Max({v.row[s][n].conf} \cup {q.conf : q \in Q}), dst |-> NoUid ]

(* _persist_pending, over everything the file emits under one primary key:  *)
(* the greatest confidence, and the last target given.                      *)
PersistRow(v, c, s, n) ==
    LET P == Persisted(v.nodes, c, s, n)
        Q == CoarseFor(c, s, n)
    IN  [ conf |-> Max({v.row[s][n].conf} \cup {p.conf : p \in P} \cup {q.conf : q \in Q}),
          dst  |-> IF P = {} THEN v.row[s][n].dst ELSE LastOf(P).dst ]

PersistPending(v, ch) ==
    [v EXCEPT !.row = [s \in Uids |-> [n \in Names |->
        IF ch[s[1]] = NoContent THEN v.row[s][n] ELSE PersistRow(v, ch[s[1]], s, n)]]]

(* _resolve_name, and the target _resolve_pending derives from a row. *)
ByName(nodes, n) == {u \in nodes : u[2] = n}

RowTarget(v, s, n) ==
    LET r == v.row[s][n] IN
    CASE r.dst # NoUid -> r.dst
      [] r.dst = NoUid /\ \E u \in v.nodes : ByName(v.nodes, n) = {u} ->
            CHOOSE u \in v.nodes : ByName(v.nodes, n) = {u}
      [] OTHER -> NoUid

(* The rows _resolve_pending looks at: emitted by a re-indexed file, or for *)
(* a name that came or went in this run.                                    *)
Candidates(v, ch, names) ==
    {k \in Uids \X Names : /\ v.row[k[1]][k[2]].conf > 0
                           /\ ch[k[1][1]] # NoContent \/ k[2] \in names
                           /\ RowTarget(v, k[1], k[2]) # NoUid}

PendingClaims(v, ch, names) ==
    {[src |-> k[1], dst |-> RowTarget(v, k[1], k[2]), conf |-> v.row[k[1]][k[2]].conf] :
        k \in Candidates(v, ch, names)}

AllDirect(ch) == UNION {DirectEdges(f, ch[f]) : f \in {g \in Files : ch[g] # NoContent}}

PassTwo(v, ch) ==
    PersistPending(UpsertEdges(v, Materialised(v.nodes, AllDirect(ch))), ch)

ResolvePending(v, ch, names) ==
    UpsertEdges(v, Materialised(v.nodes, PendingClaims(v, ch, names)))

-----------------------------------------------------------------------------
(***************************************************************************)
(* The environment: somebody saves or removes a file.                      *)
(***************************************************************************)
Edit(f) ==
    /\ \E c \in (Versions[f] \cup {NoContent}) \ {disk[f]} : disk' = [disk EXCEPT ![f] = c]
    /\ UNCHANGED <<db, view, phase, locals>>

(***************************************************************************)
(* index(): _discover and _existing_files.  A file whose size or first     *)
(* bytes cannot be read is not listed.                                     *)
(***************************************************************************)
Discover ==
    /\ phase = "idle"
    /\ phase' = "delete"
    /\ force' \in BOOLEAN
    /\ \E hidden \in SUBSET Flaky : toRead' = {f \in Files : disk[f] # NoContent} \ hidden
    /\ existing' = view.sha
    /\ UNCHANGED <<disk, db, view, changed, affected, todo>>

Unnoticed(gone) == {}    \* mutant of Dropped

Dropped(gone) == NamesOf(view, gone)

(* The loop over set(existing) - set(disk). *)
DeleteGone ==
    /\ phase = "delete"
    /\ phase' = "read"
    /\ LET gone == {f \in Files : existing[f] # NoContent} \ toRead IN
          /\ affected' = Dropped(gone)
          /\ view' = DeleteFiles(view, gone)
    /\ UNCHANGED <<disk, db, force, existing, toRead, changed, todo>>

(* The diff loop, one file: read the bytes, skip the file if its hash is    *)
(* the stored one, keep the bytes otherwise.                                *)
ReadFile(f) ==
    /\ phase = "read" /\ f \in toRead /\ disk[f] # NoContent
    /\ changed' = IF ~force /\ existing[f] = disk[f] THEN changed
                  ELSE [changed EXCEPT ![f] = disk[f]]
    /\ toRead' = toRead \ {f}
    /\ UNCHANGED <<disk, db, view, phase, force, existing, affected, todo>>

(* The file is gone or unreadable by now: `except OSError: continue`. *)
ReadError(f) ==
    /\ phase = "read" /\ f \in toRead
    /\ disk[f] = NoContent \/ f \in Flaky
    /\ toRead' = toRead \ {f}
    /\ UNCHANGED <<disk, db, view, phase, force, existing, changed, affected, todo>>

Changed == {f \in Files : changed[f] # NoContent}

UpsertOnly(ch) == UpsertNodes(view, ch)    \* mutant of Reindexed

Reindexed(ch) == UpsertNodes(DeleteFiles(view, Changed), ch)

Pass1 ==
    /\ phase = "read" /\ toRead = {}
    /\ phase' = "pass2"
    /\ affected' = affected \cup NamesOf(view, Changed)
                            \cup UNION {changed[f].defs : f \in Changed}
    /\ view' = Reindexed(changed)
    /\ UNCHANGED <<disk, db, force, existing, toRead, changed, todo>>

Pass2 ==
    /\ phase = "pass2"
    /\ phase' = "resolve"
    /\ view' = PassTwo(view, changed)
    /\ UNCHANGED <<disk, db, locals>>

Resolve ==
    /\ phase = "resolve"
    /\ phase' = "commit"
    /\ view' = ResolvePending(view, changed, affected)
    /\ UNCHANGED <<disk, db, locals>>

(* The single commit; with an embedder, refresh() starts from the dirty ids. *)
Commit ==
    /\ phase = "commit"
    /\ db' = view
    /\ IF HasEmbedder THEN phase' = "embed" /\ todo' = view.dirty
                      ELSE phase' = "idle"  /\ UNCHANGED todo
    /\ ForgetLocals
    /\ UNCHANGED <<disk, view>>

FailWithoutRollback ==    \* mutant
    /\ phase \in InTry
    /\ phase' = "idle"
    /\ ForgetLocals
    /\ UNCHANGED <<disk, db, view, todo>>

(* An exception inside the try block: rollback, then re-raise. *)
Fail ==
    /\ phase \in InTry
    /\ phase' = "idle"
    /\ view' = db
    /\ ForgetLocals
    /\ UNCHANGED <<disk, db, todo>>

(* The process dies, or closes its connection, whatever it was doing; the   *)
(* next one opens the file that was left.                                   *)
Crash ==
    /\ phase # "idle" \/ view # db
    /\ phase' = "idle"
    /\ view' = db
    /\ todo' = {}
    /\ ForgetLocals
    /\ UNCHANGED <<disk, db>>

(***************************************************************************)
(* KeyboardInterrupt.  It is no Exception: the call ends, between any two  *)
(* of its statements, and the transaction stays open, to be committed by   *)
(* the next run or refresh of the connection.                              *)
(***************************************************************************)
Only(ch, F) == [f \in Files |-> IF f \in F THEN ch[f] ELSE NoContent]

(* Before, between and after the statements of _delete_file(f): the far     *)
(* ends are marked, the symbols go, the file node goes, the rows go.        *)
Deleting(v, f) ==
    LET w == DeleteFiles(v, {f})
    IN  { v,
          [v EXCEPT !.dirty = v.dirty \cup FarEnds(v, SymbolsOf(v, {f}))],
          [w EXCEPT !.sha = v.sha, !.row = v.row],
          [w EXCEPT !.row = v.row],
          w }

(* The loop over the files of F that are gone, in the middle of f. *)
CutDeletions(F) ==
    \E D \in SUBSET F : \E f \in F \ D : view' \in Deleting(DeleteFiles(view, D), f)

(* PASS 1 in the middle of f: deleting it, or with some of its symbols. *)
CutPass1 ==
    \E D \in SUBSET Changed : \E f \in Changed \ D :
        LET v == UpsertNodes(DeleteFiles(view, D), Only(changed, D)) IN
        \/ view' \in Deleting(v, f)
        \/ \E S \in SUBSET NodesIn(Only(changed, {f})) :
              view' = UpsertSome(DeleteFiles(v, {f}), Only(changed, {f}), S)

(* An edge as upsert_edge leaves it, and, of one just inserted, before its  *)
(* second statement marks the ends.                                         *)
Upserting(v, c) ==
    {UpsertEdges(v, {c})}
    \cup (IF TornEdges THEN {[UpsertEdges(v, {c}) EXCEPT !.dirty = v.dirty]} ELSE {})

(* What PASS 2 has done of a file: some of its edges, or all of them and    *)
(* some of its references by name.                                          *)
Parts(c) ==
    {[inner |-> I, precise |-> P, coarse |-> {}] : I \in SUBSET c.inner, P \in SUBSET c.precise}
    \cup {[inner |-> c.inner, precise |-> c.precise, coarse |-> Q] : Q \in SUBSET c.coarse}

(* PASS 2 in the middle of f, perhaps at an edge whose row is not there yet.*)
CutPass2 ==
    \E D \in SUBSET Changed : \E f \in Changed \ D : \E part \in Parts(changed[f]) :
        LET v == PassTwo(view, [Only(changed, D) EXCEPT ![f] = part]) IN
        \/ view' = v
        \/ \E c \in Materialised(view.nodes, DirectEdges(f, changed[f])) : view' \in Upserting(v, c)

(* _resolve_pending in the middle of a claim. *)
CutResolve ==
    LET claims == Materialised(view.nodes, PendingClaims(view, changed, affected))
    IN  \E C \in SUBSET claims : \E c \in claims : view' \in Upserting(UpsertEdges(view, C), c)

(* set_embedding of some nodes, the last of them without its second         *)
(* statement, which clears the mark.                                        *)
CutRefresh ==
    \E W \in SUBSET (todo \cap view.nodes) : \E u \in (todo \cap view.nodes) \ W :
        LET v == SetEmbeddings(view, W)
        IN  view' = [v EXCEPT !.emb = SetEmbeddings(v, {u}).emb]

Interrupt ==
    /\ Interrupts
    /\ phase # "idle"
    /\ phase' = "idle"
    /\ \/ UNCHANGED view
       \/ phase = "delete" /\ CutDeletions({f \in Files : existing[f] # NoContent} \ toRead)
       \/ phase = "read" /\ toRead = {} /\ CutPass1
       \/ phase = "pass2" /\ CutPass2
       \/ phase = "resolve" /\ CutResolve
       \/ phase = "embed" /\ CutRefresh
    /\ todo' = {}
    /\ ForgetLocals
    /\ UNCHANGED <<disk, db>>

-----------------------------------------------------------------------------
(***************************************************************************)
(* refresh_embeddings(): refresh(), or reembed_all() which first marks     *)
(* every node dirty.                                                       *)
(***************************************************************************)
StartRefresh(full) ==
    /\ HasEmbedder
    /\ phase = "idle"
    /\ phase' = "embed"
    /\ view' = IF full THEN [view EXCEPT !.dirty = view.nodes] ELSE view
    /\ todo' = view'.dirty
    /\ UNCHANGED <<disk, db, force, existing, toRead, changed, affected>>

(* A batch: the nodes it embeds, W, are all of it, none of it, or, when     *)
(* set_embedding failed half way twice, some of it.                         *)
EmbedBatch(B, W) ==
    /\ phase = "embed"
    /\ B # {} /\ B \subseteq todo /\ W \subseteq B
    /\ view' = SetEmbeddings(view, W \cap view.nodes)
    /\ todo' = todo \ B
    /\ UNCHANGED <<disk, db, phase, force, existing, toRead, changed, affected>>

EmbedDone ==
    /\ phase = "embed" /\ todo = {}
    /\ phase' = "idle"
    /\ db' = view
    /\ UNCHANGED <<disk, view, locals>>

Next ==
    \/ \E f \in Files : Edit(f) \/ ReadFile(f) \/ ReadError(f)
    \/ Discover
    \/ DeleteGone
    \/ Pass1
    \/ Pass2
    \/ Resolve
    \/ Commit
    \/ Fail
    \/ Crash
    \/ Interrupt
    \/ \E full \in BOOLEAN : StartRefresh(full)
    \/ \E B \in SUBSET todo : \E W \in SUBSET B : EmbedBatch(B, W)
    \/ EmbedDone

Spec == Init /\ [][Next]_vars

-----------------------------------------------------------------------------
(* Both copies of the store, and the locals of index(), have their types. *)
TypeOK ==
    /\ disk \in Tree
    /\ db \in Store
    /\ view \in Store
    /\ phase \in Phases
    /\ force \in BOOLEAN
    /\ existing \in Tree
    /\ toRead \in SUBSET Files
    /\ changed \in Tree
    /\ affected \in SUBSET Names
    /\ todo \in SUBSET Uids

(***************************************************************************)
(* The sha256 on a file node is the token that lets later runs skip the    *)
(* file.  It is never durable ahead of what it gates (indexer.py:85-88):   *)
(* the symbols of the file are exactly those of the hashed content, its    *)
(* in-file edges are there, and so is every reference it left to           *)
(* resolution by name; a path without a token has left nothing behind.     *)
(***************************************************************************)
TokenCovers(v, f) ==
    IF v.sha[f] = NoContent
    THEN /\ SymbolsOf(v, {f}) = {}
         /\ \A m \in Names : v.row[<<f, m>>] = [n \in Names |-> NoRow]
    ELSE /\ NamesOf(v, {f}) = v.sha[f].defs
         /\ \A e \in v.sha[f].inner :
                {e.src, e.dst} \subseteq v.sha[f].defs =>
                    v.edge[<<f, e.src>>][<<f, e.dst>>] >= e.conf
         /\ \A q \in v.sha[f].coarse : v.row[<<f, q.src>>][q.name].conf >= q.conf

TokenNeverAhead == \A f \in Files : TokenCovers(db, f)

(***************************************************************************)
(* Every durable pending row that can be resolved is resolved: when its    *)
(* caller exists and its exact target exists (or, for a row without one,   *)
(* its name has become unique) the edge is there, with at least the row's  *)
(* confidence.  A row is looked at only in a run that re-indexes its file  *)
(* or sees its name come or go, so this is what the choice of candidates   *)
(* (affected_names, R3L-1) has to get right.                               *)
(***************************************************************************)
PendingResolved ==
    \A s \in db.nodes, n \in Names :
        LET t == RowTarget(db, s, n) IN
        (/\ db.row[s][n].conf > 0
         /\ t # NoUid
         /\ Target(db.nodes, t) # NoUid)
            => db.edge[s][Target(db.nodes, t)] >= db.row[s][n].conf

(* No symbol of c refers to two precise targets of the same simple name. *)
OneTargetPerName(c) ==
    \A p, q \in c.precise : p.src = q.src /\ p.dst[2] = q.dst[2] => p.dst = q.dst

(***************************************************************************)
(* An edge comes from a reference in the current text of its caller, and   *)
(* never with more confidence than the reference has: nothing survives     *)
(* from an older version of the file, and no row lends its confidence to   *)
(* another target.                                                         *)
(***************************************************************************)
Claims(c, s, d, k) ==
    \/ \E e \in c.inner : <<s[1], e.src>> = s /\ <<s[1], e.dst>> = d /\ e.conf >= k
    \/ \E p \in c.precise : <<s[1], p.src>> = s /\ d \in {p.dst, InitUid(p.dst)} /\ p.conf >= k
    \/ \E q \in CoarseFor(c, s, d[2]) : q.conf >= k

EdgesClaimed ==
    \A s, d \in Uids :
        db.edge[s][d] > 0 =>
            /\ {s, d} \subseteq db.nodes
            /\ db.sha[s[1]] # NoContent
            /\ OneTargetPerName(db.sha[s[1]]) => Claims(db.sha[s[1]], s, d, db.edge[s][d])

(***************************************************************************)
(* An embedding whose node is not dirty was computed from the node's       *)
(* present neighbourhood (TD-006), whatever has been indexed, deleted or   *)
(* resolved since, in the durable store and in an open transaction alike.  *)
(***************************************************************************)
CleanIsCurrent(v) == \A u \in v.nodes \ v.dirty : v.emb[u] = Serialize(v, u)

EmbeddingsCurrent == CleanIsCurrent(db) /\ CleanIsCurrent(view)

(***************************************************************************)
(* A precise cross-file edge survives whatever happens to the callee's     *)
(* file as long as the callee is still defined and the caller's text is    *)
(* the same, at no less than its own confidence (MR-3,                     *)
(* indexer.py:140-145).  KeepsEdge is the claim for one reference of one   *)
(* caller.                                                                 *)
(***************************************************************************)
KeepsEdge(s, p) ==
    LET was == Target(db.nodes, p.dst)
        is  == Target(db'.nodes, p.dst)
    IN  (/\ s \in db.nodes /\ was # NoUid /\ is # NoUid
         /\ db.edge[s][was] >= p.conf)
            => db'.edge[s][is] >= p.conf

PreciseOf(s) == {p \in db.sha[s[1]].precise : p.src = s[2] /\ p.dst[1] # s[1]}

PreciseEdgeSurvives ==
    [][\A s \in db.nodes :
          db'.sha[s[1]] = db.sha[s[1]] => \A p \in PreciseOf(s) : KeepsEdge(s, p)]_db

(* The same, for callers whose precise targets have different names. *)
UnambiguousEdgeSurvives ==
    [][\A s \in db.nodes :
          db'.sha[s[1]] = db.sha[s[1]] /\ OneTargetPerName(db.sha[s[1]])
              => \A p \in PreciseOf(s) : KeepsEdge(s, p)]_db

(***************************************************************************)
(* index(force=True) is the recovery path: when it read every file, the    *)
(* graph it is about to commit is the one a first run over the same files  *)
(* would have built in an empty store, and every node is to be embedded    *)
(* again, so that nothing of the old store shows through, whatever         *)
(* interrupts left in it.  The rows of pending_edges are compared for the  *)
(* paths that have a file node: an interrupt between the last two          *)
(* statements of _delete_file leaves those of a file that is gone, which   *)
(* have no caller, and go when there is a file of that path again.         *)
(***************************************************************************)
FirstRun(ch) ==
    LET names == UNION {ch[f].defs : f \in {g \in Files : ch[g] # NoContent}}
    IN  ResolvePending(PassTwo(UpsertNodes(EmptyStore, ch), ch), ch, names)

SameIndex(v, w) ==
    /\ v.sha = w.sha /\ v.nodes = w.nodes /\ v.edge = w.edge
    /\ \A s \in Uids : v.sha[s[1]] # NoContent => v.row[s] = w.row[s]

ForcedRunRebuilds ==
    phase = "commit" /\ force /\ view.sha = changed =>
        SameIndex(view, FirstRun(changed)) /\ view.nodes \subseteq view.dirty

=============================================================================
