----------------------------- MODULE GraphStore -----------------------------
(***************************************************************************)
(* The graph half of the SQLite store (store.py, schema.sql): what one     *)
(* connection sees of the tables nodes, edges, embeddings and              *)
(* pending_edges, and the writes the indexer and the embedding pipeline    *)
(* make to it.  A value of the store is one record; a transaction is a     *)
(* second such record that replaces the first when it commits (Indexer).   *)
(*                                                                         *)
(* Data abstraction.  A symbol's uid "relpath::name" is the pair           *)
(* <<relpath, name>>; a file's bytes and what the extractors return for    *)
(* them are one record, a member of Contents; a confidence is a percentage *)
(* and 0 stands for "no row"; there is one relation.                       *)
(***************************************************************************)
EXTENDS Integers, FiniteSetsExt

CONSTANTS
    Files,       \* repo-relative paths the indexer may find
    Names,       \* simple symbol names
    Contents,    \* what a file may hold, as the extractors see it
    NoContent,   \* the file is not on disk / has no file node
    NoUid,       \* SQL NULL in pending_edges.dst_uid; "no such target"
    NoEmb,       \* the node has no row in embeddings
    InitForm     \* pkg.py |-> pkg/__init__.py, or a value outside Files

Uids == Files \X Names
Conf == 0..100
Position == 0..100   \* source order of the precise edges of one file

(***************************************************************************)
(* What _extract_all returns for a content c:                              *)
(*   defs     the names of the symbols the file defines                    *)
(*   inner    edges to one of its own symbols, whose uid the extractor knows*)
(*   precise  edges whose target uid the resolver computed from an import, *)
(*            at their position in the source                              *)
(*   coarse   (caller, callee name) pairs left for resolution by name      *)
(***************************************************************************)
InnerEdge   == [src : Names, dst : Names, conf : Conf \ {0}]
PreciseEdge == [at : Position, src : Names, dst : Uids, conf : Conf \ {0}]
CoarseEdge  == [src : Names, name : Names, conf : Conf \ {0}]

ASSUME ContentsAssumption ==
    /\ NoContent \notin Contents
    /\ \A c \in Contents :
          /\ c.defs    \subseteq Names
          /\ c.inner   \subseteq InnerEdge
          /\ c.precise \subseteq PreciseEdge
          /\ c.coarse  \subseteq CoarseEdge
          /\ \A e \in c.inner : e.dst \in c.defs

ASSUME NoUidAssumption == NoUid \notin Uids

ASSUME InitFormAssumption == DOMAIN InitForm = Files

(***************************************************************************)
(* The tables.  sha: the sha256 on the file node, as the content it is the *)
(* hash of; edge[s][d]: the confidence of the row (s, d) of edges;         *)
(* row[s][n]: the row of pending_edges with the primary key (s, n); dirty: *)
(* the nodes with embed_dirty = 1; emb[u]: the text the stored embedding   *)
(* of u was computed from.                                                 *)
(***************************************************************************)
Row   == [conf : Conf, dst : Uids \cup {NoUid}]
NoRow == [conf |-> 0, dst |-> NoUid]

Text == [own : Contents \cup {NoContent}, calls : SUBSET Names, called_by : SUBSET Names]

Store == [ sha   : [Files -> Contents \cup {NoContent}],
           nodes : SUBSET Uids,
           edge  : [Uids -> [Uids -> Conf]],
           row   : [Uids -> [Names -> Row]],
           dirty : SUBSET Uids,
           emb   : [Uids -> Text \cup {NoEmb}] ]

EmptyStore == [ sha   |-> [f \in Files |-> NoContent],
                nodes |-> {},
                edge  |-> [s \in Uids |-> [d \in Uids |-> 0]],
                row   |-> [s \in Uids |-> [n \in Names |-> NoRow]],
                dirty |-> {},
                emb   |-> [u \in Uids |-> NoEmb] ]

SymbolsOf(v, F) == {u \in v.nodes : u[1] \in F}
NamesOf(v, F)   == {u[2] : u \in SymbolsOf(v, F)}

-----------------------------------------------------------------------------
NoFarEnds(v, gone) == {}    \* mutant

(***************************************************************************)
(* _delete_file for every file of F: the far end of each edge of a reaped  *)
(* symbol turns dirty, then the symbols go, the foreign keys take their    *)
(* edges and embeddings, and the pending rows the file emitted go too.     *)
(***************************************************************************)
FarEnds(v, gone) ==
    {m \in v.nodes : \E u \in gone : v.edge[u][m] > 0 \/ v.edge[m][u] > 0}

AllRows(v, F) == v.row    \* mutant of RowsOfOthers

RowsOfOthers(v, F) == [s \in Uids |-> IF s[1] \in F THEN [n \in Names |-> NoRow] ELSE v.row[s]]

DeleteFiles(v, F) ==
    LET gone == SymbolsOf(v, F) IN
    [ sha   |-> [f \in Files |-> IF f \in F THEN NoContent ELSE v.sha[f]],
      nodes |-> v.nodes \ gone,
      edge  |-> [s \in Uids |-> [d \in Uids |->
                   IF s \in gone \/ d \in gone THEN 0 ELSE v.edge[s][d]]],
      row   |-> RowsOfOthers(v, F),
      dirty |-> (v.dirty \cup FarEnds(v, gone)) \ gone,
      emb   |-> [u \in Uids |-> IF u \in gone THEN NoEmb ELSE v.emb[u]] ]

(***************************************************************************)
(* upsert_node for the file node of every file that ch maps to a content,  *)
(* and for some or all of their symbols: embed_dirty is 1 in the row.      *)
(***************************************************************************)
NodesIn(ch) == {u \in Uids : ch[u[1]] # NoContent /\ u[2] \in ch[u[1]].defs}

UpsertSome(v, ch, S) ==
    [v EXCEPT !.sha   = [f \in Files |-> IF ch[f] # NoContent THEN ch[f] ELSE v.sha[f]],
              !.nodes = v.nodes \cup S,
              !.dirty = v.dirty \cup S]

UpsertNodes(v, ch) == UpsertSome(v, ch, NodesIn(ch))

(***************************************************************************)
(* upsert_edge for a set of claims whose end points exist: a confidence is *)
(* never lowered, and both end points turn dirty.                          *)
(***************************************************************************)
Claim == [src : Uids, dst : Uids, conf : Conf \ {0}]

Confidences(claims, s, d) == {c.conf : c \in {x \in claims : x.src = s /\ x.dst = d}}

Added(v, claims, s, d) == v.edge[s][d] + Max({0} \cup Confidences(claims, s, d))    \* mutant

Higher(v, claims, s, d) == Max({v.edge[s][d]} \cup Confidences(claims, s, d))

UpsertEdges(v, claims) ==
    [v EXCEPT !.edge  = [s \in Uids |-> [d \in Uids |-> Higher(v, claims, s, d)]],
              !.dirty = v.dirty \cup {c.src : c \in claims} \cup {c.dst : c \in claims}]

-----------------------------------------------------------------------------
(***************************************************************************)
(* The text DefaultSerializer makes of a node: its own attributes and the  *)
(* names of its neighbours, per direction.  A symbol's own attributes are  *)
(* a function of its file's content.                                       *)
(***************************************************************************)
Serialize(v, u) ==
    [ own       |-> v.sha[u[1]],
      calls     |-> {d[2] : d \in {x \in v.nodes : v.edge[u][x] > 0}},
      called_by |-> {s[2] : s \in {x \in v.nodes : v.edge[x][u] > 0}} ]

(***************************************************************************)
(* set_embedding for every node of W.                                      *)
(***************************************************************************)
SetEmbeddings(v, W) ==
    [v EXCEPT !.emb   = [u \in Uids |-> IF u \in W THEN Serialize(v, u) ELSE v.emb[u]],
              !.dirty = v.dirty \ W]

=============================================================================
