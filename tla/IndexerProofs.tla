--------------------------- MODULE IndexerProofs ---------------------------
(***************************************************************************)
(* The indexer, for any tree, any contents, any editor and any run.  Three *)
(* parts: the embeddings, the graph, and index() as one step.              *)
(***************************************************************************)
EXTENDS IndexerRefines, WellFoundedInduction, TLAPS

-----------------------------------------------------------------------------
(***************************************************************************)
(* I. TD-006: an embedding that is not marked dirty is the one its node    *)
(* would get now.                                                          *)
(*                                                                         *)
(* CleanIsCurrent is preserved by each write of GraphStore on its own, so  *)
(* the phase of index() does not matter, nor where in it an interrupt      *)
(* falls, except between the two statements of upsert_edge (TornEdges):    *)
(* Shaped is what holds even then.  It needs two things besides:           *)
(* that an edge has both its ends (Linked, the foreign keys of edges), or  *)
(* else PASS 1 could bring a neighbour to life beside a clean node; and    *)
(* that PASS 1 writes symbols only of files it has just emptied, or else   *)
(* the hash would change under a clean node.                               *)
(***************************************************************************)

-----------------------------------------------------------------------------
(* A non-empty set of small numbers has a greatest element. *)
LEMMA GreatestExists ==
  ASSUME NEW B \in Nat, NEW S \in SUBSET (0..B), S # {}
  PROVE  \E x \in S : \A y \in S : x >= y
<1> DEFINE Lt == {ss \in Nat \X Nat : ss[1] < ss[2]}
           T  == {B - x : x \in S}
<1>1. IsWellFoundedOn(Lt, Nat)
  BY NatLessThanWellFounded, Zenon DEF OpToRel
<1>0. \A x \in S : x \in Nat /\ B - x \in Nat
  OBVIOUS
<1>2. T \subseteq Nat /\ T # {}
  BY <1>0
<1> HIDE DEF Lt
<1>3. PICK least \in T : \A y \in T : ~ (<<y, least>> \in Lt)
  BY <1>1, <1>2, WFMin
<1>4. PICK x \in S : least = B - x
  OBVIOUS
<1>5. ASSUME NEW y \in S
      PROVE  ~ (B - y < B - x)
  <2>1. ~ (<<B - y, B - x>> \in Lt)
    BY <1>3, <1>4
  <2> QED BY <2>1, <1>0 DEF Lt
<1> QED BY <1>0, <1>5

LEMMA MaxOfBounded ==
  ASSUME NEW B \in Nat, NEW S \in SUBSET (0..B), S # {}
  PROVE  Max(S) \in S /\ \A y \in S : Max(S) >= y
BY GreatestExists, Zenon DEF Max

LEMMA MaxConf ==
  ASSUME NEW S \in SUBSET Conf, S # {}
  PROVE  Max(S) \in S /\ Max(S) \in Conf /\ \A y \in S : Max(S) >= y
BY MaxOfBounded DEF Conf

LEMMA LastOfIn ==
  ASSUME NEW P, P # {}, \A p \in P : p.at \in Position
  PROVE  LastOf(P) \in P
<1> DEFINE S == {p.at : p \in P}
<1>0. S \in SUBSET (0..100) /\ S # {} /\ 100 \in Nat
  BY DEF Position
<1> HIDE DEF S
<1>1. PICK x \in S : \A y \in S : x >= y
  BY <1>0, GreatestExists
<1> USE DEF S
<1>2. \E p \in P : \A q \in P : q.at <= p.at
  BY <1>1 DEF Position
<1> QED BY <1>2, Zenon DEF LastOf

-----------------------------------------------------------------------------
(* The writes of GraphStore keep the type of the store. *)
LEMMA DeleteFilesType ==
  ASSUME NEW v \in Store, NEW F \in SUBSET Files
  PROVE  DeleteFiles(v, F) \in Store
<1>1. RowsOfOthers(v, F) \in [Uids -> [Names -> Row]]
  BY DEF Store, RowsOfOthers, Row, NoRow, Conf
<1>2. FarEnds(v, SymbolsOf(v, F)) \subseteq Uids
  BY DEF FarEnds, Store
<1>3. \A s, d \in Uids : v.edge[s][d] \in Conf /\ 0 \in Conf
  BY DEF Store, Conf
<1> QED BY <1>1, <1>2, <1>3 DEF DeleteFiles, Store

LEMMA UpsertSomeType ==
  ASSUME NEW v \in Store, NEW ch \in Tree, NEW S \in SUBSET NodesIn(ch)
  PROVE  UpsertSome(v, ch, S) \in Store
<1>1. S \subseteq Uids
  BY DEF NodesIn
<1>2. [f \in Files |-> IF ch[f] # NoContent THEN ch[f] ELSE v.sha[f]] \in Tree
  BY DEF Tree, Store
<1> QED BY <1>1, <1>2 DEF UpsertSome, Store, Tree

LEMMA HigherFacts ==
  ASSUME NEW v \in Store, NEW claims \in SUBSET Claim, NEW s \in Uids, NEW d \in Uids
  PROVE  /\ Higher(v, claims, s, d) \in Conf
         /\ (\A c \in claims : ~(c.src = s /\ c.dst = d)) => Higher(v, claims, s, d) = v.edge[s][d]
<1> DEFINE S == {v.edge[s][d]} \cup Confidences(claims, s, d)
<1>0. v.edge[s][d] \in Conf /\ Confidences(claims, s, d) \subseteq Conf
  BY DEF Store, Confidences, Claim
<1>1. S \subseteq Conf /\ S # {}
  BY <1>0
<1>2. Max(S) \in S /\ Max(S) \in Conf
  BY <1>1, MaxConf
<1>3. (\A c \in claims : ~(c.src = s /\ c.dst = d)) => Confidences(claims, s, d) = {}
  BY DEF Confidences
<1> QED BY <1>2, <1>3 DEF Higher

LEMMA UpsertEdgesType ==
  ASSUME NEW v \in Store, NEW claims \in SUBSET Claim
  PROVE  UpsertEdges(v, claims) \in Store
<1>1. [s \in Uids |-> [d \in Uids |-> Higher(v, claims, s, d)]] \in [Uids -> [Uids -> Conf]]
  BY HigherFacts
<1>2. {c.src : c \in claims} \subseteq Uids /\ {c.dst : c \in claims} \subseteq Uids
  BY DEF Claim
<1> QED BY <1>1, <1>2 DEF UpsertEdges, Store

LEMMA SerializeType ==
  ASSUME NEW v \in Store, NEW u \in Uids
  PROVE  Serialize(v, u) \in Text
BY DEF Serialize, Text, Store, Uids

LEMMA SetEmbeddingsType ==
  ASSUME NEW v \in Store, NEW W
  PROVE  SetEmbeddings(v, W) \in Store
<1>1. [u \in Uids |-> IF u \in W THEN Serialize(v, u) ELSE v.emb[u]]
          \in [Uids -> Text \cup {NoEmb}]
  BY SerializeType DEF Store
<1> QED BY <1>1 DEF SetEmbeddings, Store

-----------------------------------------------------------------------------
(* What PASS 2 and _resolve_pending claim is well formed, and both ends of  *)
(* what they materialise exist.                                             *)
LEMMA TargetExists ==
  ASSUME NEW nodes \in SUBSET Uids, NEW d, Target(nodes, d) # NoUid
  PROVE  Target(nodes, d) \in nodes
BY NoUidAssumption DEF Target

LEMMA MaterialisedFacts ==
  ASSUME NEW nodes \in SUBSET Uids, NEW claims \in SUBSET Claim
  PROVE  /\ Materialised(nodes, claims) \subseteq Claim
         /\ \A c \in Materialised(nodes, claims) : c.src \in nodes /\ c.dst \in nodes
<1>1. ASSUME NEW c \in Materialised(nodes, claims)
      PROVE  c \in Claim /\ c.src \in nodes /\ c.dst \in nodes
  <2>1. PICK x \in claims : /\ x.src \in nodes /\ Target(nodes, x.dst) # NoUid
                            /\ c = [src |-> x.src, dst |-> Target(nodes, x.dst), conf |-> x.conf]
    BY DEF Materialised
  <2>2. Target(nodes, x.dst) \in nodes
    BY <2>1, TargetExists
  <2> QED BY <2>1, <2>2 DEF Claim
<1> QED BY <1>1

(* What PASS 2 has done so far is no more than what the texts ask for. *)
IsPart(p, c) == p.inner \subseteq c.inner /\ p.precise \subseteq c.precise /\ p.coarse \subseteq c.coarse

ArePartsOf(part, ch) ==
    \A f \in Files : part[f] # NoContent => ch[f] # NoContent /\ IsPart(part[f], ch[f])

LEMMA PartOfItself ==
  ASSUME NEW ch
  PROVE  ArePartsOf(ch, ch)
BY DEF ArePartsOf, IsPart

LEMMA AllDirectOfPart ==
  ASSUME NEW ch, NEW part, ArePartsOf(part, ch)
  PROVE  AllDirect(part) \subseteq AllDirect(ch)
<1>1. ASSUME NEW f \in Files, part[f] # NoContent
      PROVE  DirectEdges(f, part[f]) \subseteq DirectEdges(f, ch[f])
  BY <1>1 DEF ArePartsOf, IsPart, DirectEdges
<1> QED BY <1>1 DEF AllDirect, ArePartsOf

LEMMA AllDirectType ==
  ASSUME NEW ch \in Tree
  PROVE  AllDirect(ch) \in SUBSET Claim
<1>1. ASSUME NEW f \in Files, ch[f] # NoContent
      PROVE  DirectEdges(f, ch[f]) \subseteq Claim
  <2>1. ch[f] \in Contents
    BY <1>1 DEF Tree
  <2>2. ch[f].inner \subseteq InnerEdge /\ ch[f].precise \subseteq PreciseEdge
    BY <2>1, ContentsAssumption
  <2>3. \A n \in Names : <<f, n>> \in Uids
    BY DEF Uids
  <2> QED BY <2>2, <2>3 DEF DirectEdges, InnerEdge, PreciseEdge, Claim
<1> QED BY <1>1 DEF AllDirect

LEMMA RowTargetType ==
  ASSUME NEW v \in Store, NEW s \in Uids, NEW n \in Names, RowTarget(v, s, n) # NoUid
  PROVE  RowTarget(v, s, n) \in Uids
<1>1. v.row[s][n] \in Row /\ v.nodes \subseteq Uids
  BY DEF Store
<1>2. CASE v.row[s][n].dst # NoUid
  BY <1>1, <1>2 DEF RowTarget, Row
<1>3. CASE v.row[s][n].dst = NoUid
  <2>1. \E u \in v.nodes : ByName(v.nodes, n) = {u}
    BY <1>3 DEF RowTarget
  <2>2. RowTarget(v, s, n) = CHOOSE u \in v.nodes : ByName(v.nodes, n) = {u}
    BY <1>3, <2>1 DEF RowTarget
  <2>3. RowTarget(v, s, n) \in v.nodes
    BY <2>1, <2>2
  <2> QED BY <1>1, <2>3
<1> QED BY <1>2, <1>3

LEMMA PendingClaimsType ==
  ASSUME NEW v \in Store, NEW ch, NEW names
  PROVE  PendingClaims(v, ch, names) \in SUBSET Claim
<1>1. ASSUME NEW s \in Uids, NEW n \in Names, <<s, n>> \in Candidates(v, ch, names)
      PROVE  [src |-> s, dst |-> RowTarget(v, s, n), conf |-> v.row[s][n].conf] \in Claim
  <2>1. v.row[s][n].conf \in Conf /\ v.row[s][n].conf # 0
    BY <1>1 DEF Candidates, Store, Row, Conf
  <2>2. RowTarget(v, s, n) \in Uids
    BY <1>1, RowTargetType DEF Candidates
  <2> QED BY <2>1, <2>2 DEF Claim
<1>2. \A k \in Candidates(v, ch, names) : \E s \in Uids, n \in Names : k = <<s, n>>
  BY DEF Candidates
<1> QED BY <1>1, <1>2 DEF PendingClaims

LEMMA PersistRowType ==
  ASSUME NEW v \in Store, NEW whole \in Contents, NEW c, IsPart(c, whole),
         NEW s \in Uids, NEW n \in Names
  PROVE  PersistRow(v, c, s, n) \in Row
<1> DEFINE P == Persisted(v.nodes, c, s, n)
           Q == CoarseFor(c, s, n)
           S == {v.row[s][n].conf} \cup {p.conf : p \in P} \cup {q.conf : q \in Q}
<1>1. v.row[s][n] \in Row
  BY DEF Store
<1>2. P \subseteq PreciseEdge /\ Q \subseteq CoarseEdge
  BY ContentsAssumption DEF Persisted, CoarseFor, IsPart
<1>3. /\ {p.conf : p \in P} \subseteq Conf
      /\ {q.conf : q \in Q} \subseteq Conf
      /\ v.row[s][n].conf \in Conf
  BY <1>1, <1>2 DEF PreciseEdge, CoarseEdge, Row
<1>4. S \subseteq Conf /\ S # {}
  BY <1>3
<1>5. Max(S) \in Conf
  BY <1>4, MaxConf
<1>6. P # {} => LastOf(P) \in P
  BY <1>2, LastOfIn DEF PreciseEdge
<1>7. P # {} => LastOf(P).dst \in Uids
  BY <1>2, <1>6 DEF PreciseEdge
<1> HIDE DEF S, P, Q
<1>8. [conf |-> Max(S), dst |-> IF P = {} THEN v.row[s][n].dst ELSE LastOf(P).dst] \in Row
  BY <1>1, <1>5, <1>7 DEF Row
<1> QED BY <1>8 DEF PersistRow, P, Q, S

LEMMA PersistPendingFacts ==
  ASSUME NEW v \in Store, NEW whole \in Tree, NEW ch, ArePartsOf(ch, whole)
  PROVE  /\ PersistPending(v, ch) \in Store
         /\ \E r : PersistPending(v, ch) = [v EXCEPT !.row = r]
<1>1. ASSUME NEW s \in Uids, NEW n \in Names
      PROVE  (IF ch[s[1]] = NoContent THEN v.row[s][n] ELSE PersistRow(v, ch[s[1]], s, n)) \in Row
  <2>1. ch[s[1]] # NoContent => whole[s[1]] \in Contents /\ IsPart(ch[s[1]], whole[s[1]])
    BY DEF Tree, Uids, ArePartsOf
  <2> QED BY <2>1, PersistRowType DEF Store
<1>2. [s \in Uids |-> [n \in Names |->
          IF ch[s[1]] = NoContent THEN v.row[s][n] ELSE PersistRow(v, ch[s[1]], s, n)]]
              \in [Uids -> [Names -> Row]]
  BY <1>1
<1> QED BY <1>2 DEF PersistPending, Store

-----------------------------------------------------------------------------
(* What each write does to the tables, field by field. *)
LEMMA UpsertEdgesKeeps ==
  ASSUME NEW v \in Store, NEW claims
  PROVE  LET w == UpsertEdges(v, claims)
         IN  /\ w.sha = v.sha /\ w.nodes = v.nodes /\ w.row = v.row /\ w.emb = v.emb
             /\ w.dirty = v.dirty \cup {c.src : c \in claims} \cup {c.dst : c \in claims}
             /\ \A s, d \in Uids : w.edge[s][d] = Higher(v, claims, s, d)
BY DEF UpsertEdges, Store

LEMMA PersistPendingKeeps ==
  ASSUME NEW v \in Store, NEW ch
  PROVE  LET w == PersistPending(v, ch)
         IN  /\ w.sha = v.sha /\ w.nodes = v.nodes /\ w.edge = v.edge
             /\ w.dirty = v.dirty /\ w.emb = v.emb
             /\ \A s \in Uids, n \in Names :
                   w.row[s][n] = IF ch[s[1]] = NoContent THEN v.row[s][n] ELSE PersistRow(v, ch[s[1]], s, n)
BY DEF PersistPending, Store

LEMMA UpsertSomeKeeps ==
  ASSUME NEW v \in Store, NEW ch, NEW S
  PROVE  LET w == UpsertSome(v, ch, S)
         IN  /\ \A f \in Files : w.sha[f] = IF ch[f] # NoContent THEN ch[f] ELSE v.sha[f]
             /\ w.nodes = v.nodes \cup S /\ w.dirty = v.dirty \cup S
             /\ w.edge = v.edge /\ w.row = v.row /\ w.emb = v.emb
BY DEF UpsertSome, Store

LEMMA UpsertNodesKeeps ==
  ASSUME NEW v \in Store, NEW ch
  PROVE  LET w == UpsertNodes(v, ch)
         IN  /\ \A f \in Files : w.sha[f] = IF ch[f] # NoContent THEN ch[f] ELSE v.sha[f]
             /\ w.nodes = v.nodes \cup NodesIn(ch) /\ w.edge = v.edge /\ w.row = v.row
             /\ w.dirty = v.dirty \cup NodesIn(ch)
BY UpsertSomeKeeps DEF UpsertNodes

LEMMA DeleteFilesKeeps ==
  ASSUME NEW v \in Store, NEW F \in SUBSET Files
  PROVE  LET w == DeleteFiles(v, F)
         IN  /\ \A f \in Files : w.sha[f] = IF f \in F THEN NoContent ELSE v.sha[f]
             /\ w.nodes = {u \in v.nodes : u[1] \notin F}
             /\ \A s \in Uids : w.row[s] = IF s[1] \in F THEN [n \in Names |-> NoRow] ELSE v.row[s]
             /\ \A s, d \in Uids : w.edge[s][d] =
                   IF s \in SymbolsOf(v, F) \/ d \in SymbolsOf(v, F) THEN 0 ELSE v.edge[s][d]
             /\ SymbolsOf(w, F) = {}
<1>1. \A u \in v.nodes : u \in SymbolsOf(v, F) <=> u[1] \in F
  BY DEF SymbolsOf
<1>2. SymbolsOf(DeleteFiles(v, F), F) = {}
  BY <1>1 DEF DeleteFiles, SymbolsOf
<1> QED BY <1>1, <1>2 DEF DeleteFiles, RowsOfOthers

-----------------------------------------------------------------------------
(* The foreign keys: an edge has both its ends. *)
Linked(v) == \A s, d \in Uids : v.edge[s][d] > 0 => s \in v.nodes /\ d \in v.nodes

(* What holds of a store whatever is interrupted, and what holds of it as   *)
(* long as no interrupt tears an edge from its marks.                       *)
Shaped(v) == v \in Store /\ Linked(v)

Sound(v) == v \in Store /\ Linked(v) /\ CleanIsCurrent(v)

LEMMA SoundIsShaped ==
  ASSUME NEW v
  PROVE  Sound(v) <=> Shaped(v) /\ CleanIsCurrent(v)
BY DEF Sound, Shaped

(* The text of a node depends on its hash and on its neighbours, no more.   *)
LEMMA SameText ==
  ASSUME NEW v, NEW w, NEW u,
         v.sha[u[1]] = w.sha[u[1]],
         \A x : x \in v.nodes /\ v.edge[u][x] > 0 <=> x \in w.nodes /\ w.edge[u][x] > 0,
         \A x : x \in v.nodes /\ v.edge[x][u] > 0 <=> x \in w.nodes /\ w.edge[x][u] > 0
  PROVE  Serialize(v, u) = Serialize(w, u)
<1>1. /\ {x \in v.nodes : v.edge[u][x] > 0} = {x \in w.nodes : w.edge[u][x] > 0}
      /\ {x \in v.nodes : v.edge[x][u] > 0} = {x \in w.nodes : w.edge[x][u] > 0}
  OBVIOUS
<1> QED BY <1>1 DEF Serialize

LEMMA EmptyStoreSound == Sound(EmptyStore)
<1>1. EmptyStore \in Store
  BY DEF EmptyStore, Store, Row, NoRow, Conf
<1>2. Linked(EmptyStore) /\ CleanIsCurrent(EmptyStore)
  BY DEF EmptyStore, Linked, CleanIsCurrent
<1> QED BY <1>1, <1>2 DEF Sound

(* The more is dirty, the less is claimed. *)
LEMMA DirtierSound ==
  ASSUME NEW v, NEW X \in SUBSET Uids, v \in Store => v.dirty \subseteq X \/ v.nodes \subseteq X
  PROVE  LET w == [v EXCEPT !.dirty = X]
         IN  (Shaped(v) => Shaped(w)) /\ (Sound(v) => Sound(w))
<1> DEFINE w == [v EXCEPT !.dirty = X]
<1>1. ASSUME v \in Store
      PROVE  /\ w \in Store /\ w.nodes = v.nodes /\ w.dirty = X /\ w.sha = v.sha
             /\ w.edge = v.edge /\ w.emb = v.emb
  BY <1>1 DEF Store
<1> HIDE DEF w
<1>2. ASSUME v \in Store
      PROVE  \A u : Serialize(w, u) = Serialize(v, u)
  BY <1>1, <1>2, SameText
<1> QED BY <1>1, <1>2 DEF Shaped, Sound, Linked, CleanIsCurrent, w

(* Pending rows are no part of anybody's text. *)
LEMMA OtherRowsSound ==
  ASSUME NEW v, NEW R, [v EXCEPT !.row = R] \in Store
  PROVE  LET w == [v EXCEPT !.row = R]
         IN  (Shaped(v) => Shaped(w)) /\ (Sound(v) => Sound(w))
<1> DEFINE w == [v EXCEPT !.row = R]
<1>1. ASSUME v \in Store
      PROVE  /\ w.nodes = v.nodes /\ w.dirty = v.dirty /\ w.sha = v.sha
             /\ w.edge = v.edge /\ w.emb = v.emb
  BY <1>1 DEF Store
<1>2. w \in Store
  OBVIOUS
<1> HIDE DEF w
<1>3. ASSUME v \in Store
      PROVE  \A u : Serialize(w, u) = Serialize(v, u)
  BY <1>1, <1>3, SameText
<1> QED BY <1>1, <1>2, <1>3 DEF Shaped, Sound, Linked, CleanIsCurrent, w

(* The hash of a file without symbols is no part of anybody's text either. *)
LEMMA OtherHashesSound ==
  ASSUME NEW v, NEW H \in Tree, \A f \in Files : H[f] # v.sha[f] => SymbolsOf(v, {f}) = {}
  PROVE  LET w == [v EXCEPT !.sha = H]
         IN  (Shaped(v) => Shaped(w)) /\ (Sound(v) => Sound(w))
<1> DEFINE w == [v EXCEPT !.sha = H]
<1>1. ASSUME v \in Store
      PROVE  /\ w \in Store /\ w.nodes = v.nodes /\ w.dirty = v.dirty /\ w.sha = H
             /\ w.edge = v.edge /\ w.emb = v.emb
  BY <1>1 DEF Store, Tree
<1> HIDE DEF w
<1>2. ASSUME v \in Store, NEW u \in v.nodes
      PROVE  Serialize(w, u) = Serialize(v, u)
  <2>1. u[1] \in Files /\ H[u[1]] = v.sha[u[1]]
    BY <1>2 DEF Store, Uids, SymbolsOf
  <2> QED BY <1>1, <1>2, <2>1, SameText
<1> QED BY <1>1, <1>2 DEF Shaped, Sound, Linked, CleanIsCurrent, w

-----------------------------------------------------------------------------
LEMMA DeleteFilesShaped ==
  ASSUME NEW v, Shaped(v), NEW F \in SUBSET Files
  PROVE  Shaped(DeleteFiles(v, F)) /\ SymbolsOf(DeleteFiles(v, F), F) = {}
<1> DEFINE w == DeleteFiles(v, F)
<1>1. v \in Store /\ w \in Store
  BY DeleteFilesType DEF Shaped
<1>2. /\ w.nodes = {u \in v.nodes : u[1] \notin F} /\ SymbolsOf(w, F) = {}
      /\ \A s, d \in Uids : w.edge[s][d] =
            IF s \in SymbolsOf(v, F) \/ d \in SymbolsOf(v, F) THEN 0 ELSE v.edge[s][d]
  BY <1>1, DeleteFilesKeeps
<1> HIDE DEF w
<1>3. Linked(w)
  BY <1>1, <1>2 DEF Shaped, Linked, SymbolsOf
<1> QED BY <1>1, <1>2, <1>3 DEF Shaped, w

(* Reaping files marks every node that loses a neighbour. *)
LEMMA DeleteFilesSound ==
  ASSUME NEW v, Sound(v), NEW F \in SUBSET Files
  PROVE  Sound(DeleteFiles(v, F)) /\ SymbolsOf(DeleteFiles(v, F), F) = {}
<1> DEFINE gone == SymbolsOf(v, F)
           w    == DeleteFiles(v, F)
<1>1. v \in Store /\ Linked(v) /\ CleanIsCurrent(v)
  BY DEF Sound
<1>2. w \in Store
  BY <1>1, DeleteFilesType
<1>3. /\ w.nodes = v.nodes \ gone
      /\ w.dirty = (v.dirty \cup FarEnds(v, gone)) \ gone
      /\ \A f \in Files : w.sha[f] = IF f \in F THEN NoContent ELSE v.sha[f]
      /\ \A s, d \in Uids : w.edge[s][d] = IF s \in gone \/ d \in gone THEN 0 ELSE v.edge[s][d]
      /\ \A u \in Uids : w.emb[u] = IF u \in gone THEN NoEmb ELSE v.emb[u]
  BY DEF DeleteFiles
<1>4. v.nodes \subseteq Uids /\ w.nodes \subseteq Uids
  BY <1>1, <1>2 DEF Store
<1> HIDE DEF w
<1>5. Linked(w)
  BY <1>1, <1>3 DEF Linked
<1>6. ASSUME NEW u \in w.nodes \ w.dirty
      PROVE  w.emb[u] = Serialize(w, u)
  <2>1. u \in Uids /\ u \in v.nodes \ v.dirty /\ u \notin gone /\ u \notin FarEnds(v, gone)
    BY <1>3, <1>4
  <2>2. u[1] \in Files /\ u[1] \notin F
    BY <2>1 DEF SymbolsOf, Uids
  <2>3. w.sha[u[1]] = v.sha[u[1]] /\ w.emb[u] = v.emb[u]
    BY <1>3, <2>1, <2>2
  <2>4. \A x \in gone : ~(v.edge[u][x] > 0) /\ ~(v.edge[x][u] > 0)
    BY <2>1 DEF FarEnds
  <2>5. \A x : x \in w.nodes /\ w.edge[u][x] > 0 <=> x \in v.nodes /\ v.edge[u][x] > 0
    BY <1>3, <1>4, <2>1, <2>4
  <2>6. \A x : x \in w.nodes /\ w.edge[x][u] > 0 <=> x \in v.nodes /\ v.edge[x][u] > 0
    BY <1>3, <1>4, <2>1, <2>4
  <2>7. Serialize(w, u) = Serialize(v, u)
    BY <2>3, <2>5, <2>6, SameText
  <2> QED BY <1>1, <2>1, <2>3, <2>7 DEF CleanIsCurrent
<1>7. SymbolsOf(w, F) = {}
  BY <1>3 DEF SymbolsOf
<1> QED BY <1>2, <1>5, <1>6, <1>7 DEF Sound, CleanIsCurrent, w

(* New symbols have no edges yet, and are dirty. *)
LEMMA UpsertSomeSound ==
  ASSUME NEW v, NEW ch \in Tree, NEW S \in SUBSET NodesIn(ch),
         SymbolsOf(v, {f \in Files : ch[f] # NoContent}) = {}
  PROVE  LET w == UpsertSome(v, ch, S)
         IN  (Shaped(v) => Shaped(w)) /\ (Sound(v) => Sound(w))
<1> DEFINE w == UpsertSome(v, ch, S)
<1> SUFFICES ASSUME Shaped(v)
             PROVE  Shaped(w) /\ (CleanIsCurrent(v) => CleanIsCurrent(w))
  BY SoundIsShaped
<1>1. v \in Store /\ Linked(v)
  BY DEF Shaped
<1>2. w \in Store
  BY <1>1, UpsertSomeType
<1>3. /\ w.nodes = v.nodes \cup S
      /\ w.dirty = v.dirty \cup S
      /\ \A f \in Files : w.sha[f] = IF ch[f] # NoContent THEN ch[f] ELSE v.sha[f]
      /\ w.edge = v.edge
      /\ w.emb = v.emb
  BY <1>1, UpsertSomeKeeps
<1>4. v.nodes \subseteq Uids /\ w.nodes \subseteq Uids
  BY <1>1, <1>2 DEF Store
<1> HIDE DEF w
<1>5. Linked(w)
  BY <1>1, <1>3 DEF Linked
<1>6. ASSUME CleanIsCurrent(v), NEW u \in w.nodes \ w.dirty
      PROVE  w.emb[u] = Serialize(w, u)
  <2>1. u \in Uids /\ u \in v.nodes \ v.dirty
    BY <1>3, <1>4, <1>6
  <2>2. u[1] \in Files /\ ch[u[1]] = NoContent
    BY <2>1 DEF SymbolsOf, Uids
  <2>3. w.sha[u[1]] = v.sha[u[1]]
    BY <1>3, <2>2
  <2>4. \A x : x \in w.nodes /\ w.edge[u][x] > 0 <=> x \in v.nodes /\ v.edge[u][x] > 0
    BY <1>1, <1>3, <1>4, <2>1 DEF Linked
  <2>5. \A x : x \in w.nodes /\ w.edge[x][u] > 0 <=> x \in v.nodes /\ v.edge[x][u] > 0
    BY <1>1, <1>3, <1>4, <2>1 DEF Linked
  <2>6. Serialize(w, u) = Serialize(v, u)
    BY <2>3, <2>4, <2>5, SameText
  <2> QED BY <1>6, <1>3, <2>1, <2>6 DEF CleanIsCurrent
<1> QED BY <1>2, <1>5, <1>6 DEF Shaped, CleanIsCurrent, w

LEMMA UpsertNodesSound ==
  ASSUME NEW v, NEW ch \in Tree, SymbolsOf(v, {f \in Files : ch[f] # NoContent}) = {}
  PROVE  LET w == UpsertNodes(v, ch)
         IN  (Shaped(v) => Shaped(w)) /\ (Sound(v) => Sound(w))
BY UpsertSomeSound DEF UpsertNodes

LEMMA UpsertEdgesShaped ==
  ASSUME NEW v, Shaped(v), NEW claims \in SUBSET Claim,
         \A c \in claims : c.src \in v.nodes /\ c.dst \in v.nodes
  PROVE  Shaped(UpsertEdges(v, claims)) /\ UpsertEdges(v, claims).nodes = v.nodes
<1> DEFINE w == UpsertEdges(v, claims)
<1>1. v \in Store /\ Linked(v) /\ w \in Store
  BY UpsertEdgesType DEF Shaped
<1>2. w.nodes = v.nodes /\ \A s, d \in Uids : w.edge[s][d] = Higher(v, claims, s, d)
  BY <1>1, UpsertEdgesKeeps
<1> HIDE DEF w
<1>3. ASSUME NEW s \in Uids, NEW d \in Uids, s \notin v.nodes \/ d \notin v.nodes
      PROVE  w.edge[s][d] = v.edge[s][d]
  BY <1>1, <1>2, <1>3, HigherFacts
<1> QED BY <1>1, <1>2, <1>3 DEF Shaped, Linked, w

(* Both ends of every edge written turn dirty. *)
LEMMA UpsertEdgesSound ==
  ASSUME NEW v, Sound(v), NEW claims \in SUBSET Claim,
         \A c \in claims : c.src \in v.nodes /\ c.dst \in v.nodes
  PROVE  Sound(UpsertEdges(v, claims)) /\ UpsertEdges(v, claims).nodes = v.nodes
<1> DEFINE w == UpsertEdges(v, claims)
<1>1. v \in Store /\ Linked(v) /\ CleanIsCurrent(v)
  BY DEF Sound
<1>2. w \in Store
  BY <1>1, UpsertEdgesType
<1>3. /\ w.nodes = v.nodes
      /\ w.dirty = v.dirty \cup {c.src : c \in claims} \cup {c.dst : c \in claims}
      /\ w.sha = v.sha
      /\ \A s, d \in Uids : w.edge[s][d] = Higher(v, claims, s, d)
      /\ w.emb = v.emb
  BY <1>1 DEF UpsertEdges, Store
<1>4. v.nodes \subseteq Uids
  BY <1>1 DEF Store
<1> HIDE DEF w
<1>5. ASSUME NEW s \in Uids, NEW d \in Uids, s \notin v.nodes \/ d \notin v.nodes
      PROVE  w.edge[s][d] = v.edge[s][d]
  BY <1>1, <1>3, <1>5, HigherFacts
<1>6. Linked(w)
  BY <1>1, <1>3, <1>5 DEF Linked
<1>7. ASSUME NEW u \in w.nodes \ w.dirty
      PROVE  w.emb[u] = Serialize(w, u)
  <2>1. u \in Uids /\ u \in v.nodes \ v.dirty
    BY <1>3, <1>4
  <2>2. \A c \in claims : c.src # u /\ c.dst # u
    BY <1>3
  <2>3. \A x \in Uids : w.edge[u][x] = v.edge[u][x] /\ w.edge[x][u] = v.edge[x][u]
    BY <1>1, <1>3, <2>1, <2>2, HigherFacts
  <2>4. Serialize(w, u) = Serialize(v, u)
    BY <1>3, <1>4, <2>3, SameText
  <2> QED BY <1>1, <1>3, <2>1, <2>4 DEF CleanIsCurrent
<1> QED BY <1>2, <1>3, <1>6, <1>7 DEF Sound, CleanIsCurrent, w

LEMMA PersistPendingSound ==
  ASSUME NEW v, NEW whole \in Tree, NEW ch, ArePartsOf(ch, whole)
  PROVE  LET w == PersistPending(v, ch)
         IN  (Shaped(v) => Shaped(w)) /\ (Sound(v) => Sound(w))
<1> SUFFICES ASSUME v \in Store
             PROVE  LET w == PersistPending(v, ch)
                    IN  (Shaped(v) => Shaped(w)) /\ (Sound(v) => Sound(w))
  BY DEF Shaped, Sound
<1>1. PersistPending(v, ch) \in Store
  BY PersistPendingFacts
<1>2. PICK r : PersistPending(v, ch) = [v EXCEPT !.row = r]
  BY PersistPendingFacts
<1> QED BY <1>1, <1>2, OtherRowsSound

(* A node is cleaned with the text it has at that moment. *)
LEMMA SetEmbeddingsShaped ==
  ASSUME NEW v, Shaped(v), NEW W
  PROVE  Shaped(SetEmbeddings(v, W))
<1>1. v \in Store /\ SetEmbeddings(v, W) \in Store
  BY SetEmbeddingsType DEF Shaped
<1>2. SetEmbeddings(v, W).nodes = v.nodes /\ SetEmbeddings(v, W).edge = v.edge
  BY <1>1 DEF SetEmbeddings, Store
<1> QED BY <1>1, <1>2 DEF Shaped, Linked

LEMMA SetEmbeddingsSound ==
  ASSUME NEW v, Sound(v), NEW W
  PROVE  Sound(SetEmbeddings(v, W))
<1> DEFINE w == SetEmbeddings(v, W)
<1>1. v \in Store /\ Linked(v) /\ CleanIsCurrent(v) /\ w \in Store
  BY SetEmbeddingsType DEF Sound
<1>2. /\ w.nodes = v.nodes /\ w.dirty = v.dirty \ W /\ w.sha = v.sha
      /\ w.edge = v.edge
      /\ \A u \in Uids : w.emb[u] = IF u \in W THEN Serialize(v, u) ELSE v.emb[u]
  BY <1>1 DEF SetEmbeddings, Store
<1> HIDE DEF w
<1>3. \A u : Serialize(w, u) = Serialize(v, u)
  BY <1>2, SameText
<1>4. Linked(w) /\ CleanIsCurrent(w)
  BY <1>1, <1>2, <1>3 DEF Linked, CleanIsCurrent, Store
<1> QED BY <1>1, <1>4 DEF Sound, w

(* Its first statement alone leaves the node dirty. *)
LEMMA HalfEmbeddedSound ==
  ASSUME NEW v, NEW u
  PROVE  LET w == [v EXCEPT !.emb = SetEmbeddings(v, {u}).emb]
         IN  (Shaped(v) => Shaped(w)) /\ (Sound(v) => Sound(w))
<1> DEFINE w == [v EXCEPT !.emb = SetEmbeddings(v, {u}).emb]
<1>1. ASSUME v \in Store
      PROVE  /\ w \in Store /\ w.nodes = v.nodes /\ w.dirty = v.dirty /\ w.sha = v.sha
             /\ w.edge = v.edge
             /\ \A x \in Uids : w.emb[x] = IF x \in {u} THEN Serialize(v, x) ELSE v.emb[x]
  <2>1. SetEmbeddings(v, {u}) \in Store
    BY <1>1, SetEmbeddingsType
  <2>2. SetEmbeddings(v, {u}).emb = [x \in Uids |-> IF x \in {u} THEN Serialize(v, x) ELSE v.emb[x]]
    BY <1>1 DEF SetEmbeddings, Store
  <2> QED BY <1>1, <2>1, <2>2 DEF Store
<1> HIDE DEF w
<1>2. ASSUME v \in Store
      PROVE  \A x : Serialize(w, x) = Serialize(v, x)
  BY <1>1, <1>2, SameText
<1> QED BY <1>1, <1>2 DEF Shaped, Sound, Linked, CleanIsCurrent, Store, w

-----------------------------------------------------------------------------
(* The phases of index() on the store. *)
LEMMA ReindexSound ==
  ASSUME NEW v, NEW ch \in Tree
  PROVE  LET w == UpsertNodes(DeleteFiles(v, {f \in Files : ch[f] # NoContent}), ch)
         IN  (Shaped(v) => Shaped(w)) /\ (Sound(v) => Sound(w))
<1> DEFINE F == {f \in Files : ch[f] # NoContent}
<1>1. Shaped(v) => Shaped(DeleteFiles(v, F)) /\ SymbolsOf(DeleteFiles(v, F), F) = {}
  BY DeleteFilesShaped
<1>2. Sound(v) => Sound(DeleteFiles(v, F)) /\ Shaped(v)
  BY DeleteFilesSound, SoundIsShaped
<1> QED BY <1>1, <1>2, UpsertNodesSound

LEMMA ClaimsSound ==
  ASSUME NEW v, NEW claims \in SUBSET Claim
  PROVE  LET w == UpsertEdges(v, Materialised(v.nodes, claims))
         IN  (Shaped(v) => Shaped(w)) /\ (Sound(v) => Sound(w))
<1>1. Shaped(v) => v.nodes \in SUBSET Uids
  BY DEF Shaped, Store
<1>2. Sound(v) => Shaped(v)
  BY SoundIsShaped
<1> QED BY <1>1, <1>2, MaterialisedFacts, UpsertEdgesShaped, UpsertEdgesSound

LEMMA PassTwoSound ==
  ASSUME NEW v, NEW ch \in Tree, NEW part, ArePartsOf(part, ch)
  PROVE  LET w == PassTwo(v, part)
         IN  (Shaped(v) => Shaped(w)) /\ (Sound(v) => Sound(w))
<1>1. AllDirect(part) \in SUBSET Claim
  BY AllDirectType, AllDirectOfPart
<1> QED BY <1>1, ClaimsSound, PersistPendingSound DEF PassTwo

LEMMA ResolvePendingSound ==
  ASSUME NEW v, NEW ch, NEW names
  PROVE  LET w == ResolvePending(v, ch, names)
         IN  (Shaped(v) => Shaped(w)) /\ (Sound(v) => Sound(w))
<1>1. Shaped(v) => PendingClaims(v, ch, names) \in SUBSET Claim
  BY PendingClaimsType DEF Shaped
<1>2. Sound(v) => Shaped(v)
  BY SoundIsShaped
<1> QED BY <1>1, <1>2, ClaimsSound DEF ResolvePending

(* reembed_all() *)
LEMMA AllDirtySound ==
  ASSUME NEW v
  PROVE  LET w == [v EXCEPT !.dirty = v.nodes]
         IN  (Shaped(v) => Shaped(w)) /\ (Sound(v) => Sound(w))
<1>1. v \in Store => v.nodes \in SUBSET Uids
  BY DEF Store
<1> QED BY <1>1, DirtierSound DEF Shaped, Sound

-----------------------------------------------------------------------------
(* The symbols of a store are those of the contents its hashes stand for.   *)
Whole(v) == v.nodes = NodesIn(v.sha)

LEMMA DeleteFilesWhole ==
  ASSUME NEW v \in Store, Whole(v), NEW F \in SUBSET Files
  PROVE  /\ Whole(DeleteFiles(v, F))
         /\ \A f \in Files : DeleteFiles(v, F).sha[f] = IF f \in F THEN NoContent ELSE v.sha[f]
<1> DEFINE w == DeleteFiles(v, F)
<1>1. w.sha = [f \in Files |-> IF f \in F THEN NoContent ELSE v.sha[f]]
  BY DEF DeleteFiles
<1>2. w.nodes = v.nodes \ SymbolsOf(v, F)
  BY DEF DeleteFiles
<1>3. \A u \in Uids : u \in w.nodes <=> u \in v.nodes /\ u[1] \notin F
  BY <1>2 DEF SymbolsOf
<1>4. v.nodes \subseteq Uids /\ w.nodes \subseteq Uids
  BY <1>2 DEF Store
<1>5. \A u \in Uids : u \in NodesIn(w.sha) <=> u \in NodesIn(v.sha) /\ u[1] \notin F
  BY <1>1 DEF NodesIn, Uids
<1>6. w.nodes = NodesIn(w.sha)
  <2>1. NodesIn(w.sha) \subseteq Uids
    BY DEF NodesIn
  <2> QED BY <1>3, <1>4, <1>5, <2>1 DEF Whole
<1> QED BY <1>1, <1>6 DEF Whole

LEMMA ReindexWhole ==
  ASSUME NEW v \in Store, Whole(v), NEW ch \in Tree
  PROVE  LET w == UpsertNodes(DeleteFiles(v, {f \in Files : ch[f] # NoContent}), ch)
         IN  /\ Whole(w)
             /\ \A f \in Files : w.sha[f] = IF ch[f] # NoContent THEN ch[f] ELSE v.sha[f]
<1> DEFINE F == {f \in Files : ch[f] # NoContent}
           d == DeleteFiles(v, F)
           w == UpsertNodes(d, ch)
<1>1. /\ d.nodes = NodesIn(d.sha)
      /\ \A f \in Files : d.sha[f] = IF f \in F THEN NoContent ELSE v.sha[f]
  BY DeleteFilesWhole DEF Whole
<1>0. d \in Store
  BY DeleteFilesType
<1>2. /\ w.sha = [f \in Files |-> IF ch[f] # NoContent THEN ch[f] ELSE d.sha[f]]
      /\ w.nodes = d.nodes \cup NodesIn(ch)
  BY <1>0 DEF UpsertNodes, UpsertSome, Store
<1> HIDE DEF w, d
<1>3. \A f \in Files : w.sha[f] = IF ch[f] # NoContent THEN ch[f] ELSE v.sha[f]
  BY <1>1, <1>2
<1>4. \A u \in Uids : u \in NodesIn(w.sha) <=> u \in NodesIn(d.sha) \/ u \in NodesIn(ch)
  BY <1>1, <1>2 DEF NodesIn, Uids
<1>5. NodesIn(w.sha) \subseteq Uids /\ NodesIn(d.sha) \subseteq Uids /\ NodesIn(ch) \subseteq Uids
  BY DEF NodesIn
<1>6. w.nodes = NodesIn(w.sha)
  BY <1>1, <1>2, <1>4, <1>5
<1> QED BY <1>3, <1>6 DEF Whole, w, d

(* The writes of PASS 2, of the resolution and of a refresh leave the files *)
(* and symbols alone.                                                       *)
LEMMA LaterWritesKeep ==
  ASSUME NEW v \in Store, NEW ch, NEW names, NEW W
  PROVE  /\ PassTwo(v, ch).sha = v.sha /\ PassTwo(v, ch).nodes = v.nodes
         /\ ResolvePending(v, ch, names).sha = v.sha
         /\ ResolvePending(v, ch, names).nodes = v.nodes
         /\ SetEmbeddings(v, W).sha = v.sha /\ SetEmbeddings(v, W).nodes = v.nodes
BY DEF PassTwo, PersistPending, ResolvePending, UpsertEdges, SetEmbeddings, Store

-----------------------------------------------------------------------------
LocalsTyped ==
    /\ disk \in Tree
    /\ phase \in Phases
    /\ force \in BOOLEAN
    /\ existing \in Tree
    /\ toRead \in SUBSET Files
    /\ changed \in Tree
    /\ affected \in SUBSET Names
    /\ todo \in SUBSET Uids

IInv == LocalsTyped /\ Shaped(db) /\ Shaped(view)

LEMMA NothingTyped == Nothing \in Tree
BY DEF Nothing, Tree

LEMMA InitIInv == Init => IInv
<1> SUFFICES ASSUME Init PROVE IInv
  OBVIOUS
<1>1. Shaped(db) /\ Shaped(view)
  BY EmptyStoreSound, SoundIsShaped DEF Init
<1>2. LocalsTyped
  BY NothingTyped DEF Init, LocalsTyped, Phases
<1> QED BY <1>1, <1>2 DEF IInv

(* Names of symbols that went, or of a content, are names. *)
LEMMA NamesTyped ==
  ASSUME IInv
  PROVE  /\ \A F : NamesOf(view, F) \subseteq Names
         /\ UNION {changed[f].defs : f \in Changed} \subseteq Names
<1>1. view.nodes \subseteq Files \X Names
  BY DEF IInv, Shaped, Store, Uids
<1>2. \A f \in Changed : changed[f] \in Contents
  BY DEF IInv, LocalsTyped, Tree, Changed
<1>3. \A f \in Changed : changed[f].defs \subseteq Names
  BY <1>2, ContentsAssumption
<1> QED BY <1>1, <1>3 DEF NamesOf, SymbolsOf

-----------------------------------------------------------------------------
(* A KeyboardInterrupt: wherever it falls the store keeps its shape, and,   *)
(* outside upsert_edge, its embeddings.                                     *)
LEMMA OnlyTree ==
  ASSUME NEW ch \in Tree, NEW D \in SUBSET {f \in Files : ch[f] # NoContent}
  PROVE  /\ Only(ch, D) \in Tree
         /\ {f \in Files : Only(ch, D)[f] # NoContent} = D
         /\ \A f \in Files : Only(ch, D)[f] = IF f \in D THEN ch[f] ELSE NoContent
BY DEF Only, Tree

LEMMA DeletingSound ==
  ASSUME NEW v, NEW f \in Files, NEW w \in Deleting(v, f)
  PROVE  (Shaped(v) => Shaped(w)) /\ (Sound(v) => Sound(w))
<1> DEFINE d == DeleteFiles(v, {f})
           far == v.dirty \cup FarEnds(v, SymbolsOf(v, {f}))
<1> SUFFICES ASSUME v \in Store
             PROVE  (Shaped(v) => Shaped(w)) /\ (Sound(v) => Sound(w))
  BY DEF Shaped, Sound
<1>1. (Shaped(v) => Shaped(d)) /\ (Sound(v) => Sound(d)) /\ SymbolsOf(d, {f}) = {} /\ d \in Store
  BY DeleteFilesShaped, DeleteFilesSound, DeleteFilesKeeps, DeleteFilesType
<1>9. \A g \in Files : d.sha[g] = IF g \in {f} THEN NoContent ELSE v.sha[g]
  BY DeleteFilesKeeps
<1> HIDE DEF d
<1>2. /\ \A g \in Files : d.sha[g] = IF g \in {f} THEN NoContent ELSE v.sha[g]
      /\ v.sha \in Tree /\ v.row \in [Uids -> [Names -> Row]]
  BY <1>9 DEF Store, Tree
<1>3. CASE w = [v EXCEPT !.dirty = far]
  <2>1. far \in SUBSET Uids /\ v.dirty \subseteq far
    BY DEF Store, FarEnds
  <2> QED BY <1>3, <2>1, DirtierSound
<1>4. CASE w = [d EXCEPT !.row = v.row]
  <2>1. [d EXCEPT !.row = v.row] \in Store
    BY <1>1, <1>2 DEF Store
  <2> QED BY <1>1, <1>4, <2>1, OtherRowsSound
<1>5. CASE w = [d EXCEPT !.sha = v.sha, !.row = v.row]
  <2> DEFINE e == [d EXCEPT !.sha = v.sha]
  <2>1. \A g \in Files : v.sha[g] # d.sha[g] => SymbolsOf(d, {g}) = {}
    BY <1>1, <1>2
  <2>2. (Shaped(v) => Shaped(e)) /\ (Sound(v) => Sound(e))
    BY <1>1, <1>2, <2>1, OtherHashesSound
  <2>3. w = [e EXCEPT !.row = v.row] /\ w \in Store
    BY <1>1, <1>2, <1>5 DEF Store, Tree
  <2> HIDE DEF e
  <2> QED BY <2>2, <2>3, OtherRowsSound
<1>6. w = v \/ w = d \/ w = [v EXCEPT !.dirty = far] \/ w = [d EXCEPT !.row = v.row]
      \/ w = [d EXCEPT !.sha = v.sha, !.row = v.row]
  BY DEF Deleting, d
<1> QED BY <1>1, <1>3, <1>4, <1>5, <1>6

LEMMA UpsertingSound ==
  ASSUME NEW v, NEW c \in Claim, c.src \in v.nodes, c.dst \in v.nodes, NEW w \in Upserting(v, c)
  PROVE  (Shaped(v) => Shaped(w)) /\ (~TornEdges /\ Sound(v) => Sound(w))
<1> DEFINE e == UpsertEdges(v, {c})
<1>1. (Shaped(v) => Shaped(e)) /\ (Sound(v) => Sound(e))
  BY UpsertEdgesShaped, UpsertEdgesSound
<1>2. ASSUME v \in Store, e \in Store
      PROVE  LET x == [e EXCEPT !.dirty = v.dirty] IN Shaped(e) => Shaped(x)
  BY <1>2 DEF Shaped, Linked, Store
<1>3. w = e \/ (TornEdges /\ w = [e EXCEPT !.dirty = v.dirty])
  BY DEF Upserting
<1> HIDE DEF e
<1> QED BY <1>1, <1>2, <1>3 DEF Shaped

LEMMA CutPass1Sound ==
  ASSUME changed \in Tree, CutPass1
  PROVE  (Shaped(view) => Shaped(view')) /\ (Sound(view) => Sound(view'))
<1>0. PICK D \in SUBSET Changed : \E f \in Changed \ D :
          LET v == UpsertNodes(DeleteFiles(view, D), Only(changed, D)) IN
          \/ view' \in Deleting(v, f)
          \/ \E S \in SUBSET NodesIn(Only(changed, {f})) :
                view' = UpsertSome(DeleteFiles(v, {f}), Only(changed, {f}), S)
  BY DEF CutPass1
<1>1. PICK f \in Changed \ D :
          LET v == UpsertNodes(DeleteFiles(view, D), Only(changed, D)) IN
          \/ view' \in Deleting(v, f)
          \/ \E S \in SUBSET NodesIn(Only(changed, {f})) :
                view' = UpsertSome(DeleteFiles(v, {f}), Only(changed, {f}), S)
  BY <1>0
<1> DEFINE v == UpsertNodes(DeleteFiles(view, D), Only(changed, D))
<1>2. Changed \subseteq Files /\ Changed = {g \in Files : changed[g] # NoContent}
  BY DEF Changed
<1>3. (Shaped(view) => Shaped(v)) /\ (Sound(view) => Sound(v))
  BY <1>2, OnlyTree, ReindexSound
<1> HIDE DEF v
<1>4. CASE view' \in Deleting(v, f)
  BY <1>2, <1>3, <1>4, DeletingSound
<1>5. ASSUME NEW S \in SUBSET NodesIn(Only(changed, {f})),
             view' = UpsertSome(DeleteFiles(v, {f}), Only(changed, {f}), S)
      PROVE  (Shaped(v) => Shaped(view')) /\ (Sound(v) => Sound(view'))
  <2>1. /\ Only(changed, {f}) \in Tree
        /\ {g \in Files : Only(changed, {f})[g] # NoContent} = {f}
    BY <1>2, OnlyTree
  <2>2. Shaped(v) => Shaped(DeleteFiles(v, {f})) /\ SymbolsOf(DeleteFiles(v, {f}), {f}) = {}
    BY <1>2, DeleteFilesShaped
  <2>3. Sound(v) => Sound(DeleteFiles(v, {f})) /\ Shaped(v)
    BY <1>2, DeleteFilesSound, SoundIsShaped
  <2> QED BY <1>5, <2>1, <2>2, <2>3, UpsertSomeSound
<1> QED BY <1>1, <1>3, <1>4, <1>5 DEF v

(* What has been read of the parts of a file, by PASS 2. *)
LEMMA CutIsPart ==
  ASSUME changed \in Tree, NEW D \in SUBSET Changed, NEW f \in Changed, NEW part \in Parts(changed[f])
  PROVE  ArePartsOf([Only(changed, D) EXCEPT ![f] = part], changed)
<1>1. f \in Files /\ changed[f] # NoContent /\ changed[f] \in Contents
  BY DEF Changed, Tree
<1>2. IsPart(part, changed[f])
  BY DEF Parts, IsPart
<1>3. \A g \in Files : Only(changed, D)[g] = IF g \in D THEN changed[g] ELSE NoContent
  BY OnlyTree DEF Changed
<1>4. \A g \in Files : [Only(changed, D) EXCEPT ![f] = part][g] = IF g = f THEN part ELSE Only(changed, D)[g]
  BY DEF Only
<1> HIDE DEF Only
<1> QED BY <1>1, <1>2, <1>3, <1>4 DEF ArePartsOf, IsPart

LEMMA CutPass2Sound ==
  ASSUME changed \in Tree, CutPass2
  PROVE  (Shaped(view) => Shaped(view')) /\ (~TornEdges /\ Sound(view) => Sound(view'))
<1>0. PICK D \in SUBSET Changed : \E f \in Changed \ D : \E part \in Parts(changed[f]) :
          LET v == PassTwo(view, [Only(changed, D) EXCEPT ![f] = part]) IN
          \/ view' = v
          \/ \E c \in Materialised(view.nodes, DirectEdges(f, changed[f])) : view' \in Upserting(v, c)
  BY DEF CutPass2
<1>9. PICK f \in Changed \ D : \E part \in Parts(changed[f]) :
          LET v == PassTwo(view, [Only(changed, D) EXCEPT ![f] = part]) IN
          \/ view' = v
          \/ \E c \in Materialised(view.nodes, DirectEdges(f, changed[f])) : view' \in Upserting(v, c)
  BY <1>0
<1>1. PICK part \in Parts(changed[f]) :
          LET v == PassTwo(view, [Only(changed, D) EXCEPT ![f] = part]) IN
          \/ view' = v
          \/ \E c \in Materialised(view.nodes, DirectEdges(f, changed[f])) : view' \in Upserting(v, c)
  BY <1>9
<1> DEFINE tree == [Only(changed, D) EXCEPT ![f] = part]
           v == PassTwo(view, tree)
<1>2. ArePartsOf(tree, changed)
  BY CutIsPart
<1> HIDE DEF tree
<1>3. (Shaped(view) => Shaped(v)) /\ (Sound(view) => Sound(v))
  BY <1>2, PassTwoSound
<1>4. view \in Store => v.nodes = view.nodes
  BY LaterWritesKeep
<1> HIDE DEF v
<1>5. ASSUME view \in Store, NEW c \in Materialised(view.nodes, DirectEdges(f, changed[f]))
      PROVE  c \in Claim /\ c.src \in view.nodes /\ c.dst \in view.nodes
  <2>1. DirectEdges(f, changed[f]) \subseteq AllDirect(changed)
    BY DEF AllDirect, Changed
  <2>2. DirectEdges(f, changed[f]) \in SUBSET Claim
    BY <2>1, AllDirectType
  <2>3. view.nodes \in SUBSET Uids
    BY <1>5 DEF Store
  <2> QED BY <1>5, <2>2, <2>3, MaterialisedFacts
<1>6. view' = v \/ \E c \in Materialised(view.nodes, DirectEdges(f, changed[f])) : view' \in Upserting(v, c)
  BY <1>1 DEF v, tree
<1>7. ASSUME view \in Store, NEW c \in Materialised(view.nodes, DirectEdges(f, changed[f])),
             view' \in Upserting(v, c)
      PROVE  (Shaped(v) => Shaped(view')) /\ (~TornEdges /\ Sound(v) => Sound(view'))
  BY <1>4, <1>5, <1>7, UpsertingSound
<1> QED BY <1>3, <1>6, <1>7 DEF Shaped, Sound

LEMMA CutResolveSound ==
  ASSUME CutResolve
  PROVE  (Shaped(view) => Shaped(view')) /\ (~TornEdges /\ Sound(view) => Sound(view'))
<1> DEFINE claims == Materialised(view.nodes, PendingClaims(view, changed, affected))
<1> SUFFICES ASSUME Shaped(view)
             PROVE  Shaped(view') /\ (~TornEdges /\ Sound(view) => Sound(view'))
  BY DEF Shaped, Sound
<1>1. PICK C \in SUBSET claims, c \in claims : view' \in Upserting(UpsertEdges(view, C), c)
  BY DEF CutResolve
<1>2. PendingClaims(view, changed, affected) \in SUBSET Claim /\ view.nodes \in SUBSET Uids
  BY PendingClaimsType DEF Shaped, Store
<1>3. claims \subseteq Claim /\ \A x \in claims : x.src \in view.nodes /\ x.dst \in view.nodes
  BY <1>2, MaterialisedFacts
<1> HIDE DEF claims
<1>4. /\ Shaped(UpsertEdges(view, C)) /\ UpsertEdges(view, C).nodes = view.nodes
      /\ Sound(view) => Sound(UpsertEdges(view, C))
  BY <1>3, UpsertEdgesShaped, UpsertEdgesSound
<1> QED BY <1>1, <1>3, <1>4, UpsertingSound

LEMMA InterruptSound ==
  ASSUME LocalsTyped, Interrupt
  PROVE  (Shaped(view) => Shaped(view')) /\ (~TornEdges /\ Sound(view) => Sound(view'))
<1>0. changed \in Tree /\ toRead \subseteq Files
  BY DEF LocalsTyped
<1>1. CASE UNCHANGED view
  BY <1>1
<1>2. ASSUME NEW F \in SUBSET Files, CutDeletions(F)
      PROVE  (Shaped(view) => Shaped(view')) /\ (Sound(view) => Sound(view'))
  <2>0. PICK D \in SUBSET F : \E f \in F \ D : view' \in Deleting(DeleteFiles(view, D), f)
    BY <1>2 DEF CutDeletions
  <2>1. PICK f \in F \ D : view' \in Deleting(DeleteFiles(view, D), f)
    BY <2>0
  <2> QED BY <2>1, DeleteFilesShaped, DeleteFilesSound, DeletingSound
<1>3. CASE CutPass1
  BY <1>0, <1>3, CutPass1Sound
<1>4. CASE CutPass2
  BY <1>0, <1>4, CutPass2Sound
<1>5. CASE CutResolve
  BY <1>5, CutResolveSound
<1>6. CASE CutRefresh
  <2>1. PICK W, u : view' = [SetEmbeddings(view, W) EXCEPT !.emb = SetEmbeddings(SetEmbeddings(view, W), {u}).emb]
    BY <1>6 DEF CutRefresh
  <2> QED BY <2>1, SetEmbeddingsShaped, SetEmbeddingsSound, HalfEmbeddedSound
<1> QED BY <1>1, <1>2, <1>3, <1>4, <1>5, <1>6 DEF Interrupt

-----------------------------------------------------------------------------
LEMMA StepKeepsStores ==
  ASSUME LocalsTyped, Next
  PROVE  /\ Shaped(db) /\ Shaped(view) => Shaped(db') /\ Shaped(view')
         /\ ~TornEdges /\ Sound(db) /\ Sound(view) => Sound(db') /\ Sound(view')
<1> DEFINE Preserved == /\ Shaped(db) /\ Shaped(view) => Shaped(db') /\ Shaped(view')
                        /\ ~TornEdges /\ Sound(db) /\ Sound(view) => Sound(db') /\ Sound(view')
<1>0. changed \in Tree
  BY DEF LocalsTyped
<1>1. ASSUME UNCHANGED <<db, view>>
      PROVE  Preserved
  BY <1>1
<1>2. ASSUME NEW f \in Files, Edit(f) \/ ReadFile(f) \/ ReadError(f)
      PROVE  UNCHANGED <<db, view>>
  BY <1>2 DEF Edit, ReadFile, ReadError
<1>3. CASE Discover
  BY <1>1, <1>3 DEF Discover
<1>4. CASE DeleteGone
  <2>1. PICK gone \in SUBSET Files : view' = DeleteFiles(view, gone)
    BY <1>4 DEF DeleteGone
  <2> QED BY <1>4, <2>1, DeleteFilesShaped, DeleteFilesSound DEF DeleteGone
<1>5. CASE Pass1
  BY <1>0, <1>5, ReindexSound DEF Pass1, Reindexed, Changed
<1>6. CASE Pass2
  BY <1>0, <1>6, PassTwoSound, PartOfItself DEF Pass2
<1>7. CASE Resolve
  BY <1>7, ResolvePendingSound DEF Resolve
<1>8. CASE Commit \/ EmbedDone
  BY <1>8 DEF Commit, EmbedDone
<1>9. CASE Fail \/ Crash
  BY <1>9 DEF Fail, Crash
<1>10. CASE Interrupt
  <2>1. db' = db
    BY <1>10 DEF Interrupt
  <2> QED BY <1>10, <2>1, InterruptSound
<1>11. ASSUME NEW full \in BOOLEAN, StartRefresh(full)
       PROVE  Preserved
  BY <1>11, AllDirtySound DEF StartRefresh
<1>12. ASSUME NEW B, NEW W, EmbedBatch(B, W)
       PROVE  Preserved
  BY <1>12, SetEmbeddingsShaped, SetEmbeddingsSound DEF EmbedBatch
<1> QED BY <1>1, <1>2, <1>3, <1>4, <1>5, <1>6, <1>7, <1>8, <1>9, <1>10, <1>11, <1>12 DEF Next

LEMMA StepKeepsLocals ==
  ASSUME IInv, Next
  PROVE  LocalsTyped'
<1>0. LocalsTyped /\ view \in Store
  BY DEF IInv, Shaped
<1>1. ASSUME ForgetLocals, disk' = disk, phase' \in Phases, todo' \in SUBSET Uids
      PROVE  LocalsTyped'
  BY <1>0, <1>1, NothingTyped DEF LocalsTyped, ForgetLocals
<1>2. ASSUME NEW f \in Files, Edit(f)
      PROVE  LocalsTyped'
  <2>1. Versions[f] \subseteq Contents
    BY IndexerAssumption
  <2>2. disk' \in Tree
    BY <1>0, <1>2, <2>1 DEF Edit, LocalsTyped, Tree
  <2> QED BY <1>0, <1>2, <2>2 DEF Edit, LocalsTyped, locals
<1>3. ASSUME NEW f \in Files, ReadFile(f)
      PROVE  LocalsTyped'
  <2>1. changed' \in Tree
    BY <1>0, <1>3 DEF ReadFile, LocalsTyped, Tree
  <2> QED BY <1>0, <1>3, <2>1 DEF ReadFile, LocalsTyped
<1>4. ASSUME NEW f \in Files, ReadError(f)
      PROVE  LocalsTyped'
  BY <1>0, <1>4 DEF ReadError, LocalsTyped
<1>5. CASE Discover
  <2>1. existing' \in Tree
    BY <1>0, <1>5 DEF Discover, Store, Tree
  <2> QED BY <1>0, <1>5, <2>1 DEF Discover, LocalsTyped, Phases
<1>6. CASE DeleteGone
  <2>1. affected' \subseteq Names
    BY <1>6, NamesTyped DEF DeleteGone, Dropped
  <2> QED BY <1>0, <1>6, <2>1 DEF DeleteGone, LocalsTyped, Phases
<1>7. CASE Pass1
  <2>1. affected' \subseteq Names
    BY <1>0, <1>7, NamesTyped DEF Pass1, LocalsTyped
  <2> QED BY <1>0, <1>7, <2>1 DEF Pass1, LocalsTyped, Phases
<1>8. CASE Pass2 \/ Resolve
  BY <1>0, <1>8 DEF Pass2, Resolve, LocalsTyped, Phases, locals
<1>9. CASE Commit
  <2>1. todo' \in SUBSET Uids
    BY <1>0, <1>9 DEF Commit, LocalsTyped, Store
  <2> QED BY <1>1, <1>9, <2>1 DEF Commit, Phases
<1>10. CASE Fail \/ Crash \/ Interrupt
  BY <1>0, <1>1, <1>10 DEF Fail, Crash, Interrupt, Phases, LocalsTyped
<1>11. ASSUME NEW full \in BOOLEAN, StartRefresh(full)
       PROVE  LocalsTyped'
  <2>1. view'.dirty \in SUBSET Uids
    BY <1>0, <1>11 DEF StartRefresh, Store
  <2> QED BY <1>0, <1>11, <2>1 DEF StartRefresh, LocalsTyped, Phases
<1>12. ASSUME NEW B, NEW W, EmbedBatch(B, W)
       PROVE  LocalsTyped'
  BY <1>0, <1>12 DEF EmbedBatch, LocalsTyped
<1>13. CASE EmbedDone
  BY <1>0, <1>13 DEF EmbedDone, LocalsTyped, Phases, locals
<1> QED BY <1>2, <1>3, <1>4, <1>5, <1>6, <1>7, <1>8, <1>9, <1>10, <1>11, <1>12, <1>13 DEF Next

LEMMA NextIInv == IInv /\ [Next]_vars => IInv'
<1>1. ASSUME IInv, Next
      PROVE  IInv'
  BY <1>1, StepKeepsStores, StepKeepsLocals DEF IInv
<1>2. ASSUME IInv, UNCHANGED vars
      PROVE  IInv'
  BY <1>2 DEF IInv, LocalsTyped, vars
<1> QED BY <1>1, <1>2

LEMMA SpecIInv == Spec => []IInv
BY InitIInv, NextIInv, PTL DEF Spec

-----------------------------------------------------------------------------
(* Whatever is edited, indexed, interrupted or embedded, both copies of the *)
(* store and the locals of index() keep their types.                        *)
THEOREM TypeCorrect == Spec => []TypeOK
<1>1. IInv => TypeOK
  BY DEF IInv, LocalsTyped, Shaped, TypeOK
<1> QED BY <1>1, SpecIInv, PTL

EInv == ~TornEdges /\ IInv /\ Sound(db) /\ Sound(view)

LEMMA NextEInv == EInv /\ [Next]_vars => EInv'
<1> SUFFICES ASSUME EInv, [Next]_vars PROVE EInv'
  OBVIOUS
<1>1. IInv'
  BY NextIInv DEF EInv
<1>2. CASE Next
  BY <1>1, <1>2, StepKeepsStores DEF EInv, IInv
<1>3. CASE UNCHANGED vars
  BY <1>1, <1>3 DEF EInv, vars
<1> QED BY <1>2, <1>3

LEMMA SpecEInv == ~TornEdges /\ Spec => []EInv
<1>0. Init => db = EmptyStore /\ view = EmptyStore
  BY DEF Init
<1>1. ~TornEdges /\ Init => EInv
  BY <1>0, InitIInv, EmptyStoreSound DEF EInv
<1> QED BY <1>1, NextEInv, PTL DEF Spec

(* No embedding that is taken for current (embed_dirty = 0) is stale, in    *)
(* any transaction and after any failure, crash or interrupt (store.py:4-6, *)
(* TD-006), unless an interrupt parts the two statements of upsert_edge.    *)
THEOREM CleanEmbeddingsAreCurrent == ~TornEdges /\ Spec => []EmbeddingsCurrent
<1>1. EInv => EmbeddingsCurrent
  BY DEF EInv, Sound, EmbeddingsCurrent
<1> QED BY <1>1, SpecEInv, PTL

-----------------------------------------------------------------------------
(***************************************************************************)
(* II. What the graph is worth: every edge is claimed by the text of its   *)
(* caller, the hash of a file is never durable ahead of what it promises,  *)
(* every pending row that can be resolved is, a run that reads everything  *)
(* leaves nothing of the old graph, and a precise edge survives whatever   *)
(* happens to its callee.                                                  *)
(*                                                                         *)
(* Backed is preserved by every statement on its own, like Shaped above,   *)
(* so it holds in every phase and wherever an interrupt falls; Claimed     *)
(* adds what takes whole phases, and holds without interrupts.  The others *)
(* follow index() phase by phase: what has still to be made good is what   *)
(* the re-indexed files emit, and the rows under a name that came or went  *)
(* (DInv); a precise edge has a row that leads back to it (SInv).          *)
(***************************************************************************)

-----------------------------------------------------------------------------
(* upsert_edge keeps the greatest of the confidences, and makes none up. *)
LEMMA HigherBounds ==
  ASSUME NEW v \in Store, NEW claims \in SUBSET Claim, NEW s \in Uids, NEW d \in Uids
  PROVE  /\ Higher(v, claims, s, d) >= v.edge[s][d]
         /\ \A c \in claims : c.src = s /\ c.dst = d => Higher(v, claims, s, d) >= c.conf
         /\ \/ Higher(v, claims, s, d) = v.edge[s][d]
            \/ \E c \in claims : c.src = s /\ c.dst = d /\ c.conf = Higher(v, claims, s, d)
<1> DEFINE K == Confidences(claims, s, d)
           S == {v.edge[s][d]} \cup K
<1>1. v.edge[s][d] \in Conf /\ K \subseteq Conf
  BY DEF Store, Confidences, Claim
<1>2. Max(S) \in S /\ \A y \in S : Max(S) >= y
  <2> HIDE DEF K
  <2>1. S \subseteq Conf /\ S # {}
    BY <1>1
  <2> QED BY <2>1, MaxConf
<1>3. \A c \in claims : c.src = s /\ c.dst = d => c.conf \in K
  BY DEF Confidences
<1>4. \A k \in K : \E c \in claims : c.src = s /\ c.dst = d /\ c.conf = k
  BY DEF Confidences
<1>5. Higher(v, claims, s, d) = Max(S)
  BY DEF Higher
<1> HIDE DEF K
<1> QED BY <1>2, <1>3, <1>4, <1>5

(* The content a file is hashed as, and a symbol as a pair. *)
LEMMA HashedContent ==
  ASSUME NEW v \in Store, NEW s \in Uids, v.sha[s[1]] # NoContent
  PROVE  v.sha[s[1]] \in Contents
BY DEF Store, Uids

LEMMA UidPair ==
  ASSUME NEW s \in Uids
  PROVE  s[1] \in Files /\ s[2] \in Names /\ s = <<s[1], s[2]>>
BY DEF Uids

LEMMA TargetForm ==
  ASSUME NEW nodes, NEW d, Target(nodes, d) # NoUid
  PROVE  Target(nodes, d) \in {d, InitUid(d)} /\ Target(nodes, d)[2] \in {d[2], InitUid(d)[2]}
         /\ Target(nodes, d) \in nodes /\ InitUid(d)[2] = d[2]
BY DEF Target, InitUid

-----------------------------------------------------------------------------
(* A pending row is under the name of its target, belongs to a file that is *)
(* there, and has its confidence from one reference in the text: to that    *)
(* very target, or by name.                                                 *)
RowClaim(c, s, n, r) ==
    \/ \E p \in c.precise : p.src = s[2] /\ p.dst = r.dst /\ p.conf >= r.conf
    \/ \E q \in CoarseFor(c, s, n) : q.conf >= r.conf

RowIsBacked(v, s, n, r) ==
    /\ r.dst # NoUid => r.dst[2] = n
    /\ v.sha[s[1]] # NoContent /\ r.conf > 0 /\ OneTargetPerName(v.sha[s[1]])
           => RowClaim(v.sha[s[1]], s, n, r)

RowsBacked(v) == \A s \in Uids, n \in Names : RowIsBacked(v, s, n, v.row[s][n])

EdgeIsClaimed(v, s, d, k) == OneTargetPerName(v.sha[s[1]]) => Claims(v.sha[s[1]], s, d, k)

EdgesAreClaimed(v) == \A s, d \in Uids : v.edge[s][d] > 0 => EdgeIsClaimed(v, s, d, v.edge[s][d])

(* Every symbol is one of the text its file is hashed as. *)
Within(v) == v.nodes \subseteq NodesIn(v.sha)

(* What survives every interrupt ... *)
Backed(v) == Shaped(v) /\ Within(v) /\ RowsBacked(v) /\ EdgesAreClaimed(v)

(* ... and what holds without them: the symbols are all there, and a path   *)
(* without a file has no rows.                                              *)
NoStrays(v) == \A s \in Uids, n \in Names : v.sha[s[1]] = NoContent => v.row[s][n] = NoRow

RowsClaimed(v) ==
    \A s \in Uids, n \in Names :
        LET r == v.row[s][n] IN
        /\ r.dst # NoUid => r.dst[2] = n
        /\ v.sha[s[1]] = NoContent => r = NoRow
        /\ r.conf > 0 /\ OneTargetPerName(v.sha[s[1]]) => RowClaim(v.sha[s[1]], s, n, r)

Claimed(v) == Sound(v) /\ Whole(v) /\ RowsClaimed(v) /\ EdgesAreClaimed(v)

LEMMA ClaimedIsBacked ==
  ASSUME NEW v
  PROVE  Claimed(v) <=> Backed(v) /\ Sound(v) /\ Whole(v) /\ NoStrays(v)
<1>1. RowsClaimed(v) <=> RowsBacked(v) /\ NoStrays(v)
  BY DEF RowsClaimed, RowsBacked, RowIsBacked, NoStrays, NoRow
<1>2. Whole(v) => Within(v)
  BY DEF Whole, Within
<1>3. Sound(v) => Shaped(v)
  BY SoundIsShaped
<1> QED BY <1>1, <1>2, <1>3 DEF Claimed, Backed

(* It is a matter of the graph alone. *)
SameGraph(v, w) ==
    v.sha = w.sha /\ v.nodes = w.nodes /\ v.edge = w.edge /\ v.row = w.row

LEMMA GraphOnly ==
  ASSUME NEW v, NEW w, SameGraph(v, w)
  PROVE  /\ Claimed(v) /\ Sound(w) => Claimed(w)
         /\ Backed(v) /\ Shaped(w) => Backed(w)
<1>1. Claimed(v) /\ Sound(w) => Claimed(w)
  BY DEF SameGraph, Claimed, Whole, RowsClaimed, EdgesAreClaimed, EdgeIsClaimed
<1>2. Backed(v) /\ Shaped(w) => Backed(w)
  BY DEF SameGraph, Backed, Within, RowsBacked, RowIsBacked, EdgesAreClaimed, EdgeIsClaimed
<1> QED BY <1>1, <1>2

LEMMA EmptyStoreClaimed == Claimed(EmptyStore)
<1>1. Whole(EmptyStore)
  BY DEF Whole, EmptyStore, NodesIn, Uids
<1>2. RowsClaimed(EmptyStore)
  BY DEF RowsClaimed, EmptyStore, NoRow
<1>3. EdgesAreClaimed(EmptyStore)
  BY DEF EdgesAreClaimed, EmptyStore
<1> QED BY <1>1, <1>2, <1>3, EmptyStoreSound DEF Claimed

LEMMA DeleteFilesBacked ==
  ASSUME NEW v, Backed(v), NEW F \in SUBSET Files
  PROVE  Backed(DeleteFiles(v, F))
<1> DEFINE w == DeleteFiles(v, F)
<1>1. v \in Store /\ Shaped(w) /\ v.nodes \subseteq NodesIn(v.sha)
  BY DeleteFilesShaped DEF Backed, Shaped, Within
<1>2. /\ \A f \in Files : w.sha[f] = IF f \in F THEN NoContent ELSE v.sha[f]
      /\ w.nodes = {u \in v.nodes : u[1] \notin F}
      /\ \A s \in Uids : w.row[s] = IF s[1] \in F THEN [n \in Names |-> NoRow] ELSE v.row[s]
      /\ \A s, d \in Uids : w.edge[s][d] =
            IF s \in SymbolsOf(v, F) \/ d \in SymbolsOf(v, F) THEN 0 ELSE v.edge[s][d]
  BY <1>1, DeleteFilesKeeps
<1> HIDE DEF w
<1>3. ASSUME NEW s \in Uids, NEW n \in Names
      PROVE  RowIsBacked(w, s, n, w.row[s][n])
  <2>1. CASE s[1] \in F
    BY <1>2, <2>1 DEF NoRow, RowIsBacked
  <2>2. CASE s[1] \notin F
    BY <1>2, <2>2, UidPair DEF Backed, RowsBacked, RowIsBacked
  <2> QED BY <2>1, <2>2
<1>4. ASSUME NEW s \in Uids, NEW d \in Uids, w.edge[s][d] > 0
      PROVE  EdgeIsClaimed(w, s, d, w.edge[s][d])
  <2>1. s \notin SymbolsOf(v, F) /\ w.edge[s][d] = v.edge[s][d]
    BY <1>2, <1>4
  <2>2. s \in v.nodes
    BY <1>4, <2>1 DEF Backed, Shaped, Linked
  <2>3. s[1] \notin F
    BY <2>1, <2>2 DEF SymbolsOf
  <2> QED BY <1>2, <1>4, <2>1, <2>3, UidPair DEF Backed, EdgesAreClaimed, EdgeIsClaimed
<1>5. Within(w)
  <2>1. ASSUME NEW u \in w.nodes
        PROVE  u \in NodesIn(w.sha)
    BY <1>1, <1>2, <2>1 DEF NodesIn, Uids
  <2> QED BY <2>1 DEF Within
<1> QED BY <1>1, <1>3, <1>4, <1>5 DEF Backed, RowsBacked, EdgesAreClaimed, w

LEMMA DeleteFilesNoStrays ==
  ASSUME NEW v \in Store, NoStrays(v), NEW F \in SUBSET Files
  PROVE  NoStrays(DeleteFiles(v, F))
<1> DEFINE w == DeleteFiles(v, F)
<1>1. /\ \A f \in Files : w.sha[f] = IF f \in F THEN NoContent ELSE v.sha[f]
      /\ \A s \in Uids : w.row[s] = IF s[1] \in F THEN [n \in Names |-> NoRow] ELSE v.row[s]
  BY DeleteFilesKeeps
<1> HIDE DEF w
<1> QED BY <1>1, UidPair DEF NoStrays, w

LEMMA DeleteFilesClaimed ==
  ASSUME NEW v, Claimed(v), NEW F \in SUBSET Files
  PROVE  Claimed(DeleteFiles(v, F))
<1>1. v \in Store /\ Backed(v) /\ Sound(v) /\ Whole(v) /\ NoStrays(v)
  BY ClaimedIsBacked DEF Claimed, Sound
<1> QED BY <1>1, ClaimedIsBacked, DeleteFilesBacked, DeleteFilesSound, DeleteFilesWhole, DeleteFilesNoStrays

(* New symbols of emptied files: no row and no edge of theirs is there yet. *)
LEMMA UpsertSomeBacked ==
  ASSUME NEW v, Backed(v), NEW ch \in Tree, NEW S \in SUBSET NodesIn(ch),
         SymbolsOf(v, {f \in Files : ch[f] # NoContent}) = {},
         \A s \in Uids : ch[s[1]] # NoContent => v.row[s] = [n \in Names |-> NoRow]
  PROVE  Backed(UpsertSome(v, ch, S))
<1> DEFINE w == UpsertSome(v, ch, S)
<1>1. v \in Store /\ Shaped(w) /\ v.nodes \subseteq NodesIn(v.sha)
  BY UpsertSomeSound DEF Backed, Shaped, Within
<1>2. /\ \A f \in Files : w.sha[f] = IF ch[f] # NoContent THEN ch[f] ELSE v.sha[f]
      /\ w.nodes = v.nodes \cup S /\ w.edge = v.edge /\ w.row = v.row
  BY <1>1, UpsertSomeKeeps
<1> HIDE DEF w
<1>3. ASSUME NEW u \in v.nodes
      PROVE  u \in Uids /\ u[1] \in Files /\ ch[u[1]] = NoContent
  BY <1>1, <1>3 DEF Store, Uids, SymbolsOf
<1>4. Within(w)
  <2>1. ASSUME NEW u \in v.nodes
        PROVE  u \in NodesIn(w.sha)
    BY <1>1, <1>2, <1>3, <2>1 DEF NodesIn
  <2>2. ASSUME NEW u \in S
        PROVE  u \in NodesIn(w.sha)
    BY <1>2, <2>2, UidPair DEF NodesIn
  <2> QED BY <1>2, <2>1, <2>2 DEF Within
<1>5. ASSUME NEW s \in Uids, NEW n \in Names
      PROVE  RowIsBacked(w, s, n, w.row[s][n])
  <2>1. CASE ch[s[1]] # NoContent
    BY <1>2, <2>1 DEF NoRow, RowIsBacked
  <2>2. CASE ch[s[1]] = NoContent
    BY <1>2, <2>2, UidPair DEF Backed, RowsBacked, RowIsBacked
  <2> QED BY <2>1, <2>2
<1>6. ASSUME NEW s \in Uids, NEW d \in Uids, w.edge[s][d] > 0
      PROVE  EdgeIsClaimed(w, s, d, w.edge[s][d])
  <2>1. s \in v.nodes /\ w.edge[s][d] = v.edge[s][d]
    BY <1>2, <1>6 DEF Backed, Shaped, Linked
  <2> QED BY <1>2, <1>3, <1>6, <2>1 DEF Backed, EdgesAreClaimed, EdgeIsClaimed
<1> QED BY <1>1, <1>4, <1>5, <1>6 DEF Backed, RowsBacked, EdgesAreClaimed, w

LEMMA EmptiedFiles ==
  ASSUME NEW v \in Store, NEW F \in SUBSET Files
  PROVE  /\ SymbolsOf(DeleteFiles(v, F), F) = {}
         /\ \A s \in Uids : s[1] \in F => DeleteFiles(v, F).row[s] = [n \in Names |-> NoRow]
BY DeleteFilesKeeps

LEMMA ReindexBacked ==
  ASSUME NEW v, Backed(v), NEW ch \in Tree
  PROVE  Backed(UpsertNodes(DeleteFiles(v, {f \in Files : ch[f] # NoContent}), ch))
<1> DEFINE F == {f \in Files : ch[f] # NoContent}
           e == DeleteFiles(v, F)
<1>1. Backed(e) /\ v \in Store
  BY DeleteFilesBacked DEF Backed, Shaped
<1>2. SymbolsOf(e, F) = {} /\ \A s \in Uids : s[1] \in F => e.row[s] = [n \in Names |-> NoRow]
  BY <1>1, EmptiedFiles
<1>3. \A s \in Uids : ch[s[1]] # NoContent => s[1] \in F
  BY UidPair
<1> HIDE DEF e
<1> QED BY <1>1, <1>2, <1>3, UpsertSomeBacked DEF UpsertNodes, e

LEMMA ReindexClaimed ==
  ASSUME NEW v, Claimed(v), NEW ch \in Tree
  PROVE  Claimed(UpsertNodes(DeleteFiles(v, {f \in Files : ch[f] # NoContent}), ch))
<1> DEFINE F == {f \in Files : ch[f] # NoContent}
           e == DeleteFiles(v, F)
           w == UpsertNodes(e, ch)
<1>1. v \in Store /\ e \in Store /\ Backed(v) /\ Sound(v) /\ Whole(v) /\ NoStrays(v)
  BY ClaimedIsBacked, DeleteFilesType DEF Claimed, Sound
<1>2. Backed(w) /\ Sound(w) /\ Whole(w) /\ NoStrays(e)
  BY <1>1, ReindexBacked, ReindexSound, ReindexWhole, DeleteFilesNoStrays
<1>3. /\ \A f \in Files : w.sha[f] = IF ch[f] # NoContent THEN ch[f] ELSE e.sha[f]
      /\ w.row = e.row
  <2> HIDE DEF e
  <2> QED BY <1>1, UpsertNodesKeeps
<1> HIDE DEF w, e
<1>4. NoStrays(w)
  BY <1>2, <1>3, UidPair DEF NoStrays
<1> QED BY <1>2, <1>4, ClaimedIsBacked DEF w, e

-----------------------------------------------------------------------------
(* The text that is being indexed is the text the files are hashed as, and  *)
(* its symbols are all there.                                               *)
Hashed(v, ch) ==
    /\ \A f \in Files : ch[f] # NoContent => v.sha[f] = ch[f]
    /\ NodesIn(ch) \subseteq v.nodes

LEMMA EdgesBacked ==
  ASSUME NEW v, Backed(v), NEW claims \in SUBSET Claim,
         \A c \in claims : c.src \in v.nodes /\ c.dst \in v.nodes /\ EdgeIsClaimed(v, c.src, c.dst, c.conf)
  PROVE  Backed(UpsertEdges(v, claims))
<1> DEFINE w == UpsertEdges(v, claims)
<1>1. v \in Store /\ Shaped(w)
  BY UpsertEdgesShaped DEF Backed, Shaped
<1>2. /\ w.sha = v.sha /\ w.nodes = v.nodes /\ w.row = v.row
      /\ \A s, d \in Uids : w.edge[s][d] = Higher(v, claims, s, d)
  BY <1>1, UpsertEdgesKeeps
<1> HIDE DEF w
<1>3. ASSUME NEW s \in Uids, NEW d \in Uids, w.edge[s][d] > 0
      PROVE  EdgeIsClaimed(v, s, d, w.edge[s][d])
  <2>1. CASE w.edge[s][d] = v.edge[s][d]
    BY <1>3, <2>1 DEF Backed, EdgesAreClaimed
  <2>2. CASE \E c \in claims : c.src = s /\ c.dst = d /\ c.conf = w.edge[s][d]
    BY <2>2
  <2> QED BY <1>1, <1>2, <2>1, <2>2, HigherBounds
<1>4. EdgesAreClaimed(w)
  BY <1>2, <1>3 DEF EdgesAreClaimed, EdgeIsClaimed
<1>5. Within(w) /\ RowsBacked(w)
  BY <1>2 DEF Backed, Within, RowsBacked, RowIsBacked
<1> QED BY <1>1, <1>4, <1>5 DEF Backed, w

LEMMA ClaimsBacked ==
  ASSUME NEW v, Backed(v), NEW claims \in SUBSET Claim,
         \A c \in claims :
            c.src \in v.nodes /\ Target(v.nodes, c.dst) # NoUid
                => EdgeIsClaimed(v, c.src, Target(v.nodes, c.dst), c.conf)
  PROVE  /\ \A c \in Materialised(v.nodes, claims) : EdgeIsClaimed(v, c.src, c.dst, c.conf)
         /\ Backed(UpsertEdges(v, Materialised(v.nodes, claims)))
<1> DEFINE M == Materialised(v.nodes, claims)
<1>1. v.nodes \in SUBSET Uids
  BY DEF Backed, Shaped, Store
<1>2. M \in SUBSET Claim /\ \A c \in M : c.src \in v.nodes /\ c.dst \in v.nodes
  BY <1>1, MaterialisedFacts
<1>3. \A c \in M : EdgeIsClaimed(v, c.src, c.dst, c.conf)
  BY DEF Materialised
<1> HIDE DEF M
<1>4. Backed(UpsertEdges(v, M))
  BY <1>2, <1>3, EdgesBacked
<1> QED BY <1>3, <1>4 DEF M

(* An edge the extractors return, in place. *)
LEMMA DirectJustified ==
  ASSUME NEW v, Backed(v), NEW ch \in Tree, Hashed(v, ch),
         NEW c \in AllDirect(ch), c.src \in v.nodes, Target(v.nodes, c.dst) # NoUid
  PROVE  EdgeIsClaimed(v, c.src, Target(v.nodes, c.dst), c.conf)
<1>1. PICK f \in Files : ch[f] # NoContent /\ c \in DirectEdges(f, ch[f])
  BY DEF AllDirect
<1>2. ch[f] \in Contents /\ v.sha[f] = ch[f] /\ NodesIn(ch) \subseteq v.nodes
  BY <1>1 DEF Tree, Hashed
<1>3. CASE \E e \in ch[f].inner : c = [src |-> <<f, e.src>>, dst |-> <<f, e.dst>>, conf |-> e.conf]
  <2>1. PICK e \in ch[f].inner : c = [src |-> <<f, e.src>>, dst |-> <<f, e.dst>>, conf |-> e.conf]
    BY <1>3
  <2>2. e \in InnerEdge /\ e.dst \in ch[f].defs
    BY <1>2, ContentsAssumption
  <2>3. <<f, e.dst>> \in NodesIn(ch)
    BY <1>1, <1>2, <2>2 DEF NodesIn, Uids, InnerEdge
  <2>4. Target(v.nodes, c.dst) = <<f, e.dst>>
    BY <1>2, <2>1, <2>3 DEF Target
  <2>5. e.conf >= c.conf
    BY <2>1, <2>2 DEF InnerEdge, Conf
  <2>6. c.src = <<f, e.src>>
    BY <2>1
  <2> QED BY <1>2, <2>4, <2>5, <2>6 DEF EdgeIsClaimed, Claims
<1>4. CASE \E p \in ch[f].precise : c = [src |-> <<f, p.src>>, dst |-> p.dst, conf |-> p.conf]
  <2>1. PICK p \in ch[f].precise : c = [src |-> <<f, p.src>>, dst |-> p.dst, conf |-> p.conf]
    BY <1>4
  <2>2. p \in PreciseEdge
    BY <1>2, ContentsAssumption
  <2>3. Target(v.nodes, c.dst) \in {p.dst, InitUid(p.dst)}
    BY <2>1, TargetForm
  <2>4. p.conf >= c.conf /\ c.src = <<f, p.src>>
    BY <2>1, <2>2 DEF PreciseEdge, Conf
  <2> QED BY <1>2, <2>3, <2>4 DEF EdgeIsClaimed, Claims
<1> QED BY <1>1, <1>3, <1>4 DEF DirectEdges

(* The edge a pending row resolves to. *)
LEMMA PendingJustified ==
  ASSUME NEW v, Backed(v), NEW s \in Uids, NEW n \in Names, v.row[s][n].conf > 0, s \in v.nodes,
         RowTarget(v, s, n) # NoUid, Target(v.nodes, RowTarget(v, s, n)) # NoUid
  PROVE  EdgeIsClaimed(v, s, Target(v.nodes, RowTarget(v, s, n)), v.row[s][n].conf)
<1> DEFINE c == v.sha[s[1]]
           r == v.row[s][n]
           t == RowTarget(v, s, n)
           d == Target(v.nodes, t)
<1> SUFFICES ASSUME OneTargetPerName(c) PROVE Claims(c, s, d, r.conf)
  BY DEF EdgeIsClaimed
<1>1. v \in Store /\ s = <<s[1], s[2]>> /\ s[1] \in Files
  BY UidPair DEF Backed, Shaped
<1>2. c # NoContent
  BY DEF Backed, Within, NodesIn
<1>6. RowClaim(c, s, n, r) /\ (r.dst # NoUid => r.dst[2] = n)
  BY <1>2 DEF Backed, RowsBacked, RowIsBacked
<1>3. c \in Contents
  BY <1>1, <1>2, HashedContent
<1>4. CASE r.dst # NoUid
  <2>1. t = r.dst
    BY <1>4 DEF RowTarget
  <2>2. d \in {t, InitUid(t)} /\ d[2] = n
    BY <1>6, <1>4, <2>1, TargetForm
  <2> HIDE DEF c, r, d, t
  <2> QED BY <1>1, <1>6, <2>1, <2>2 DEF RowClaim, Claims
<1>5. CASE r.dst = NoUid
  <2>1. \E u \in v.nodes : ByName(v.nodes, n) = {u}
    BY <1>5 DEF RowTarget
  <2>2. t = CHOOSE u \in v.nodes : ByName(v.nodes, n) = {u}
    BY <1>5, <2>1 DEF RowTarget
  <2>3. t \in v.nodes /\ ByName(v.nodes, n) = {t}
    BY <2>1, <2>2
  <2>4. t[2] = n /\ d = t
    BY <2>3 DEF ByName, Target
  <2>5. \A p \in c.precise : p.dst # r.dst
    BY <1>3, <1>5, ContentsAssumption, NoUidAssumption DEF PreciseEdge
  <2> HIDE DEF c, r, d, t
  <2> QED BY <1>6, <2>4, <2>5 DEF RowClaim, Claims
<1> QED BY <1>4, <1>5

(* Writing the rows of a text: what the greatest confidence is of, the last *)
(* target is of too, when a name has one target.                            *)
LEMMA PersistRowBacked ==
  ASSUME NEW v, Backed(v), NEW s \in Uids, NEW n \in Names,
         v.sha[s[1]] # NoContent, NEW part, IsPart(part, v.sha[s[1]])
  PROVE  RowIsBacked(v, s, n, PersistRow(v, part, s, n))
<1> DEFINE c == v.sha[s[1]]
           o == v.row[s][n]
           P == Persisted(v.nodes, part, s, n)
           Q == CoarseFor(part, s, n)
           S == {o.conf} \cup {p.conf : p \in P} \cup {q.conf : q \in Q}
           r == PersistRow(v, part, s, n)
<1>1. v \in Store /\ s = <<s[1], s[2]>> /\ s[1] \in Files /\ c \in Contents /\ o \in Row
  BY UidPair, HashedContent DEF Backed, Shaped, Store
<1>2. /\ o.dst # NoUid => o.dst[2] = n
      /\ o.conf > 0 /\ OneTargetPerName(c) => RowClaim(c, s, n, o)
  BY DEF Backed, RowsBacked, RowIsBacked
<1>3. c.precise \subseteq PreciseEdge /\ P \subseteq c.precise /\ Q \subseteq CoarseEdge
      /\ Q \subseteq CoarseFor(c, s, n)
  BY <1>1, ContentsAssumption DEF Persisted, CoarseFor, IsPart
<1>4. r.conf = Max(S) /\ r.dst = IF P = {} THEN o.dst ELSE LastOf(P).dst
  BY DEF PersistRow
<1>5. \A p \in P : p.src = s[2] /\ p.dst[2] = n /\ p.conf \in Conf
  BY <1>1, <1>3 DEF Persisted, PreciseEdge
<1>6. P # {} => LastOf(P) \in P
  BY <1>3, LastOfIn DEF PreciseEdge
<1>7. S \subseteq Conf /\ S # {}
  BY <1>1, <1>3, <1>5 DEF Row, CoarseEdge
<1> HIDE DEF c, o, P, Q, r
<1>8. r.conf \in S /\ r.conf \in Conf
  BY <1>4, <1>7, MaxConf
<1>9. r.dst # NoUid => r.dst[2] = n
  BY <1>2, <1>4, <1>5, <1>6
<1>10. ASSUME r.conf > 0, OneTargetPerName(c)
       PROVE  RowClaim(c, s, n, r)
  <2>1. \A p, q \in c.precise : p.src = q.src /\ p.dst[2] = q.dst[2] => p.dst = q.dst
    BY <1>10 DEF OneTargetPerName
  <2>2. CASE r.conf = o.conf
    <3>1. RowClaim(c, s, n, o)
      BY <1>2, <1>10, <2>2
    <3>2. ASSUME NEW p \in c.precise, p.src = s[2], p.dst = o.dst, p.conf >= o.conf
          PROVE  p.dst = r.dst
      <4>1. o.dst[2] = n
        BY <1>2, <1>3, <3>2, NoUidAssumption DEF PreciseEdge
      <4> QED BY <1>3, <1>4, <1>5, <1>6, <2>1, <3>2, <4>1
    <3> QED BY <2>2, <3>1, <3>2 DEF RowClaim
  <2>3. CASE \E p \in P : r.conf = p.conf
    <3>1. PICK p \in P : r.conf = p.conf
      BY <2>3
    <3>2. p.dst = r.dst /\ p.src = s[2] /\ p \in c.precise
      BY <1>3, <1>4, <1>5, <1>6, <2>1
    <3>3. p.conf >= r.conf
      BY <1>8, <3>1 DEF Conf
    <3> QED BY <3>2, <3>3 DEF RowClaim
  <2>4. CASE \E q \in Q : r.conf = q.conf
    BY <1>3, <1>8, <2>4 DEF RowClaim, Conf
  <2> QED BY <1>8, <2>2, <2>3, <2>4
<1> QED BY <1>9, <1>10 DEF RowIsBacked, c, r

LEMMA PersistBacked ==
  ASSUME NEW v, Backed(v), NEW ch \in Tree, Hashed(v, ch), NEW part, ArePartsOf(part, ch)
  PROVE  Backed(PersistPending(v, part))
<1> DEFINE w == PersistPending(v, part)
<1>1. Shaped(w) /\ v \in Store
  BY PersistPendingSound DEF Backed, Shaped
<1>2. /\ w.sha = v.sha /\ w.nodes = v.nodes /\ w.edge = v.edge
      /\ \A s \in Uids, n \in Names :
            w.row[s][n] = IF part[s[1]] = NoContent THEN v.row[s][n] ELSE PersistRow(v, part[s[1]], s, n)
  BY <1>1, PersistPendingKeeps
<1> HIDE DEF w
<1>3. ASSUME NEW s \in Uids, NEW n \in Names
      PROVE  RowIsBacked(w, s, n, w.row[s][n])
  <2>1. CASE part[s[1]] = NoContent
    BY <1>2, <2>1 DEF Backed, RowsBacked, RowIsBacked
  <2>2. CASE part[s[1]] # NoContent
    <3>1. v.sha[s[1]] = ch[s[1]] /\ ch[s[1]] # NoContent /\ IsPart(part[s[1]], v.sha[s[1]])
      BY <2>2, UidPair DEF Hashed, ArePartsOf
    <3>2. RowIsBacked(v, s, n, w.row[s][n])
      BY <1>2, <2>2, <3>1, PersistRowBacked
    <3> QED BY <1>2, <3>2 DEF RowIsBacked
  <2> QED BY <2>1, <2>2
<1> QED BY <1>1, <1>2, <1>3 DEF Backed, Within, RowsBacked, EdgesAreClaimed, EdgeIsClaimed, w

LEMMA PassTwoBacked ==
  ASSUME NEW v, Backed(v), NEW ch \in Tree, Hashed(v, ch), NEW part, ArePartsOf(part, ch)
  PROVE  Backed(PassTwo(v, part)) /\ Hashed(PassTwo(v, part), ch)
<1> DEFINE w == UpsertEdges(v, Materialised(v.nodes, AllDirect(part)))
<1>1. AllDirect(part) \subseteq AllDirect(ch) /\ AllDirect(ch) \in SUBSET Claim
  BY AllDirectType, AllDirectOfPart
<1>2. Backed(w)
  BY <1>1, ClaimsBacked, DirectJustified
<1>3. /\ w.sha = v.sha /\ PassTwo(v, part).sha = v.sha
      /\ w.nodes = v.nodes /\ PassTwo(v, part).nodes = v.nodes
  BY UpsertEdgesKeeps, LaterWritesKeep DEF Backed, Shaped
<1> HIDE DEF w
<1>4. Backed(PersistPending(w, part))
  BY <1>2, <1>3, PersistBacked DEF Hashed
<1> QED BY <1>3, <1>4 DEF PassTwo, Hashed, w

LEMMA PassTwoClaimed ==
  ASSUME NEW v, Claimed(v), NEW ch \in Tree, Hashed(v, ch)
  PROVE  Claimed(PassTwo(v, ch)) /\ Hashed(PassTwo(v, ch), ch)
<1> DEFINE e == UpsertEdges(v, Materialised(v.nodes, AllDirect(ch)))
           w == PassTwo(v, ch)
<1>1. v \in Store /\ Backed(v) /\ Sound(v) /\ Whole(v) /\ NoStrays(v)
  BY ClaimedIsBacked DEF Claimed, Sound
<1>2. Backed(w) /\ Hashed(w, ch) /\ Sound(w) /\ w.sha = v.sha /\ w.nodes = v.nodes
  BY <1>1, PartOfItself, PassTwoBacked, PassTwoSound, LaterWritesKeep
<1>3. e.row = v.row /\ e \in Store
  <2>1. AllDirect(ch) \in SUBSET Claim /\ v.nodes \in SUBSET Uids
    BY <1>1, AllDirectType DEF Store
  <2> QED BY <1>1, <2>1, MaterialisedFacts, UpsertEdgesType, UpsertEdgesKeeps
<1>4. \A s \in Uids, n \in Names : ch[s[1]] = NoContent => w.row[s][n] = v.row[s][n]
  <2> HIDE DEF e
  <2> QED BY <1>3, PersistPendingKeeps DEF PassTwo, e
<1> HIDE DEF w
<1>5. NoStrays(w) /\ Whole(w)
  BY <1>1, <1>2, <1>4, UidPair DEF NoStrays, Whole, Hashed
<1> QED BY <1>2, <1>5, ClaimedIsBacked DEF w

(* What _resolve_pending adds, or any part of it. *)
LEMMA PendingClaimsBacked ==
  ASSUME NEW v, Backed(v), NEW ch, NEW names,
         NEW C \in SUBSET Materialised(v.nodes, PendingClaims(v, ch, names))
  PROVE  /\ C \in SUBSET Claim
         /\ \A c \in C : c.src \in v.nodes /\ c.dst \in v.nodes /\ EdgeIsClaimed(v, c.src, c.dst, c.conf)
         /\ Backed(UpsertEdges(v, C))
<1>1. PendingClaims(v, ch, names) \in SUBSET Claim /\ v.nodes \in SUBSET Uids
  BY PendingClaimsType DEF Backed, Shaped, Store
<1>2. ASSUME NEW c \in PendingClaims(v, ch, names),
             c.src \in v.nodes, Target(v.nodes, c.dst) # NoUid
      PROVE  EdgeIsClaimed(v, c.src, Target(v.nodes, c.dst), c.conf)
  <2>1. PICK k \in Candidates(v, ch, names) :
            c = [src |-> k[1], dst |-> RowTarget(v, k[1], k[2]), conf |-> v.row[k[1]][k[2]].conf]
    BY DEF PendingClaims
  <2>2. k[1] \in Uids /\ k[2] \in Names /\ v.row[k[1]][k[2]].conf > 0 /\ RowTarget(v, k[1], k[2]) # NoUid
    BY DEF Candidates
  <2> QED BY <1>2, <2>1, <2>2, PendingJustified
<1>3. \A c \in Materialised(v.nodes, PendingClaims(v, ch, names)) :
          c \in Claim /\ c.src \in v.nodes /\ c.dst \in v.nodes /\ EdgeIsClaimed(v, c.src, c.dst, c.conf)
  BY <1>1, <1>2, ClaimsBacked, MaterialisedFacts
<1> QED BY <1>3, EdgesBacked

LEMMA ResolvePendingClaimed ==
  ASSUME NEW v, NEW ch, NEW names
  PROVE  /\ Backed(v) => Backed(ResolvePending(v, ch, names))
         /\ Claimed(v) => Claimed(ResolvePending(v, ch, names))
<1> DEFINE M == Materialised(v.nodes, PendingClaims(v, ch, names))
           w == UpsertEdges(v, M)
<1>1. Backed(v) => Backed(w)
  BY PendingClaimsBacked
<1>2. ASSUME Claimed(v)
      PROVE  Claimed(w)
  <2>1. v \in Store /\ Backed(v) /\ Sound(v) /\ Whole(v) /\ NoStrays(v)
    BY <1>2, ClaimedIsBacked DEF Claimed, Sound
  <2>2. Sound(w)
    BY <2>1, ResolvePendingSound DEF ResolvePending
  <2>3. w.sha = v.sha /\ w.nodes = v.nodes /\ w.row = v.row
    BY <2>1, UpsertEdgesKeeps
  <2> HIDE DEF w
  <2>4. Whole(w) /\ NoStrays(w)
    BY <2>1, <2>3 DEF Whole, NoStrays
  <2> QED BY <1>1, <2>1, <2>2, <2>4, ClaimedIsBacked
<1> QED BY <1>1, <1>2 DEF ResolvePending

LEMMA SetEmbeddingsClaimed ==
  ASSUME NEW v, NEW W
  PROVE  /\ Claimed(v) => Claimed(SetEmbeddings(v, W)) /\ Claimed([v EXCEPT !.dirty = v.nodes])
         /\ Backed(v) => Backed(SetEmbeddings(v, W)) /\ Backed([v EXCEPT !.dirty = v.nodes])
<1>1. v \in Store =>
          SameGraph(v, SetEmbeddings(v, W)) /\ SameGraph(v, [v EXCEPT !.dirty = v.nodes])
  BY DEF SameGraph, SetEmbeddings, Store
<1>2. /\ Sound(v) => Sound(SetEmbeddings(v, W)) /\ Sound([v EXCEPT !.dirty = v.nodes])
      /\ Shaped(v) => Shaped(SetEmbeddings(v, W)) /\ Shaped([v EXCEPT !.dirty = v.nodes])
  BY SetEmbeddingsSound, SetEmbeddingsShaped, AllDirtySound
<1>3. (Claimed(v) => Sound(v)) /\ (Backed(v) => Shaped(v)) /\ (Shaped(v) => v \in Store) /\ (Sound(v) => v \in Store)
  BY DEF Claimed, Backed, Shaped, Sound
<1> QED BY <1>1, <1>2, <1>3, GraphOnly

-----------------------------------------------------------------------------
(* A KeyboardInterrupt, wherever it falls. *)
LEMMA DeletingBacked ==
  ASSUME NEW v, Backed(v), NEW f \in Files, NEW w \in Deleting(v, f)
  PROVE  Backed(w)
<1> DEFINE d == DeleteFiles(v, {f})
<1>1. v \in Store /\ Backed(d) /\ Shaped(w) /\ d \in Store /\ d.nodes \subseteq v.nodes
  BY DeleteFilesBacked, DeletingSound, DeleteFilesKeeps, DeleteFilesType DEF Backed, Shaped
<1>2. /\ \A g \in Files : d.sha[g] = IF g \in {f} THEN NoContent ELSE v.sha[g]
      /\ \A s \in Uids : d.row[s] = IF s[1] \in {f} THEN [n \in Names |-> NoRow] ELSE v.row[s]
  BY <1>1, DeleteFilesKeeps
<1>3. \A s, x \in Uids : d.edge[s][x] > 0 => d.edge[s][x] = v.edge[s][x]
  BY <1>1, DeleteFilesKeeps
<1>4. Backed(v) /\ Within(v) /\ RowsBacked(v) /\ EdgesAreClaimed(v) /\ Within(d) /\ EdgesAreClaimed(d)
  BY <1>1 DEF Backed
<1>5. w = v \/ w = d \/ w = [v EXCEPT !.dirty = v.dirty \cup FarEnds(v, SymbolsOf(v, {f}))]
      \/ w = [d EXCEPT !.row = v.row] \/ w = [d EXCEPT !.sha = v.sha, !.row = v.row]
  BY DEF Deleting
<1> HIDE DEF d
<1>6. CASE w = [v EXCEPT !.dirty = v.dirty \cup FarEnds(v, SymbolsOf(v, {f}))]
  <2>1. SameGraph(v, w)
    BY <1>1, <1>6 DEF SameGraph, Store
  <2> QED BY <1>1, <1>4, <2>1, GraphOnly
<1>7. CASE w = [d EXCEPT !.row = v.row]
  <2>1. w.sha = d.sha /\ w.nodes = d.nodes /\ w.edge = d.edge /\ w.row = v.row
    BY <1>1, <1>7 DEF Store
  <2>2. ASSUME NEW s \in Uids, NEW n \in Names
        PROVE  RowIsBacked(w, s, n, w.row[s][n])
    BY <1>2, <1>4, <2>1, UidPair DEF RowsBacked, RowIsBacked
  <2> QED BY <1>1, <1>4, <2>1, <2>2 DEF Backed, Within, RowsBacked, EdgesAreClaimed, EdgeIsClaimed
<1>8. CASE w = [d EXCEPT !.sha = v.sha, !.row = v.row]
  <2>1. w.sha = v.sha /\ w.nodes = d.nodes /\ w.edge = d.edge /\ w.row = v.row
    BY <1>1, <1>8 DEF Store
  <2>2. Within(w) /\ RowsBacked(w)
    BY <1>1, <1>4, <2>1 DEF Within, RowsBacked, RowIsBacked
  <2>3. EdgesAreClaimed(w)
    BY <1>3, <1>4, <2>1 DEF EdgesAreClaimed, EdgeIsClaimed
  <2> QED BY <1>1, <2>2, <2>3 DEF Backed
<1> QED BY <1>1, <1>4, <1>5, <1>6, <1>7, <1>8

LEMMA UpsertingBacked ==
  ASSUME NEW v, Backed(v), NEW c \in Claim, c.src \in v.nodes, c.dst \in v.nodes,
         EdgeIsClaimed(v, c.src, c.dst, c.conf), NEW w \in Upserting(v, c)
  PROVE  Backed(w)
<1> DEFINE e == UpsertEdges(v, {c})
<1>1. Backed(e) /\ Shaped(w)
  BY EdgesBacked, UpsertingSound DEF Backed
<1>2. w = e \/ w = [e EXCEPT !.dirty = v.dirty]
  BY DEF Upserting
<1> HIDE DEF e
<1>3. SameGraph(e, w)
  BY <1>1, <1>2 DEF SameGraph, Backed, Shaped, Store
<1> QED BY <1>1, <1>3, GraphOnly

LEMMA CutPass1Backed ==
  ASSUME changed \in Tree, Backed(view), CutPass1
  PROVE  Backed(view')
<1>1. PICK D \in SUBSET Changed : \E f \in Changed \ D :
          LET v == UpsertNodes(DeleteFiles(view, D), Only(changed, D)) IN
          \/ view' \in Deleting(v, f)
          \/ \E S \in SUBSET NodesIn(Only(changed, {f})) :
                view' = UpsertSome(DeleteFiles(v, {f}), Only(changed, {f}), S)
  BY DEF CutPass1
<1>2. PICK f \in Changed \ D :
          LET v == UpsertNodes(DeleteFiles(view, D), Only(changed, D)) IN
          \/ view' \in Deleting(v, f)
          \/ \E S \in SUBSET NodesIn(Only(changed, {f})) :
                view' = UpsertSome(DeleteFiles(v, {f}), Only(changed, {f}), S)
  BY <1>1
<1> DEFINE v == UpsertNodes(DeleteFiles(view, D), Only(changed, D))
           e == DeleteFiles(v, {f})
<1>3. Changed = {g \in Files : changed[g] # NoContent} /\ f \in Files
  BY DEF Changed
<1>4. Backed(v)
  BY <1>3, OnlyTree, ReindexBacked
<1> HIDE DEF v
<1>5. Backed(e) /\ v \in Store
  BY <1>3, <1>4, DeleteFilesBacked DEF Backed, Shaped
<1>6. /\ SymbolsOf(e, {f}) = {}
      /\ \A s \in Uids : s[1] \in {f} => e.row[s] = [n \in Names |-> NoRow]
  BY <1>3, <1>5, EmptiedFiles
<1>7. /\ Only(changed, {f}) \in Tree
      /\ {g \in Files : Only(changed, {f})[g] # NoContent} = {f}
      /\ \A s \in Uids : Only(changed, {f})[s[1]] # NoContent => s[1] \in {f}
  BY <1>3, OnlyTree, UidPair
<1> HIDE DEF e
<1>8. \A S \in SUBSET NodesIn(Only(changed, {f})) : Backed(UpsertSome(e, Only(changed, {f}), S))
  BY <1>5, <1>6, <1>7, UpsertSomeBacked
<1> QED BY <1>2, <1>3, <1>4, <1>8, DeletingBacked DEF v, e

LEMMA CutPass2Backed ==
  ASSUME changed \in Tree, Backed(view), Hashed(view, changed), CutPass2
  PROVE  Backed(view')
<1>1. PICK D \in SUBSET Changed : \E f \in Changed \ D : \E part \in Parts(changed[f]) :
          LET v == PassTwo(view, [Only(changed, D) EXCEPT ![f] = part]) IN
          \/ view' = v
          \/ \E c \in Materialised(view.nodes, DirectEdges(f, changed[f])) : view' \in Upserting(v, c)
  BY DEF CutPass2
<1>2. PICK f \in Changed \ D : \E part \in Parts(changed[f]) :
          LET v == PassTwo(view, [Only(changed, D) EXCEPT ![f] = part]) IN
          \/ view' = v
          \/ \E c \in Materialised(view.nodes, DirectEdges(f, changed[f])) : view' \in Upserting(v, c)
  BY <1>1
<1>3. PICK part \in Parts(changed[f]) :
          LET v == PassTwo(view, [Only(changed, D) EXCEPT ![f] = part]) IN
          \/ view' = v
          \/ \E c \in Materialised(view.nodes, DirectEdges(f, changed[f])) : view' \in Upserting(v, c)
  BY <1>2
<1> DEFINE tree == [Only(changed, D) EXCEPT ![f] = part]
           v == PassTwo(view, tree)
<1>4. ArePartsOf(tree, changed)
  BY CutIsPart
<1> HIDE DEF tree
<1>5. Backed(v)
  BY <1>4, PassTwoBacked
<1>6. view.nodes \in SUBSET Uids /\ v.nodes = view.nodes /\ v.sha = view.sha
  BY LaterWritesKeep DEF Backed, Shaped, Store
<1> HIDE DEF v
<1>7. ASSUME NEW c \in Materialised(view.nodes, DirectEdges(f, changed[f]))
      PROVE  c \in Claim /\ c.src \in view.nodes /\ c.dst \in view.nodes
             /\ EdgeIsClaimed(v, c.src, c.dst, c.conf)
  <2>1. DirectEdges(f, changed[f]) \subseteq AllDirect(changed) /\ AllDirect(changed) \in SUBSET Claim
    BY AllDirectType DEF AllDirect, Changed
  <2>2. DirectEdges(f, changed[f]) \in SUBSET Claim
    BY <2>1
  <2>3. EdgeIsClaimed(view, c.src, c.dst, c.conf)
    BY <1>7, <2>1, <2>2, ClaimsBacked, DirectJustified
  <2>4. EdgeIsClaimed(v, c.src, c.dst, c.conf)
    BY <1>6, <2>3 DEF EdgeIsClaimed
  <2> QED BY <1>6, <1>7, <2>2, <2>4, MaterialisedFacts
<1>8. view' = v \/ \E c \in Materialised(view.nodes, DirectEdges(f, changed[f])) : view' \in Upserting(v, c)
  BY <1>3 DEF v, tree
<1> QED BY <1>5, <1>6, <1>7, <1>8, UpsertingBacked

LEMMA CutResolveBacked ==
  ASSUME Backed(view), CutResolve
  PROVE  Backed(view')
<1> DEFINE claims == Materialised(view.nodes, PendingClaims(view, changed, affected))
<1>1. PICK C \in SUBSET claims, c \in claims : view' \in Upserting(UpsertEdges(view, C), c)
  BY DEF CutResolve
<1>2. Backed(UpsertEdges(view, C))
  BY PendingClaimsBacked
<1>3. c \in Claim /\ c.src \in view.nodes /\ c.dst \in view.nodes /\ EdgeIsClaimed(view, c.src, c.dst, c.conf)
  <2>1. {c} \in SUBSET claims
    OBVIOUS
  <2>2. /\ {c} \in SUBSET Claim
        /\ \A x \in {c} : x.src \in view.nodes /\ x.dst \in view.nodes /\ EdgeIsClaimed(view, x.src, x.dst, x.conf)
    BY <2>1, PendingClaimsBacked
  <2> QED BY <2>2
<1>4. UpsertEdges(view, C).sha = view.sha /\ UpsertEdges(view, C).nodes = view.nodes
  BY UpsertEdgesKeeps DEF Backed, Shaped
<1>5. EdgeIsClaimed(UpsertEdges(view, C), c.src, c.dst, c.conf)
  BY <1>3, <1>4 DEF EdgeIsClaimed
<1> QED BY <1>1, <1>2, <1>3, <1>4, <1>5, UpsertingBacked

LEMMA CutRefreshBacked ==
  ASSUME Backed(view), CutRefresh
  PROVE  Backed(view')
<1>1. PICK W, u : view' = [SetEmbeddings(view, W) EXCEPT !.emb = SetEmbeddings(SetEmbeddings(view, W), {u}).emb]
  BY DEF CutRefresh
<1> DEFINE v == SetEmbeddings(view, W)
<1>2. Backed(v) /\ Shaped(v) /\ v \in Store
  BY SetEmbeddingsClaimed DEF Backed, Shaped
<1> HIDE DEF v
<1>3. Shaped(view') /\ SameGraph(v, view')
  BY <1>1, <1>2, HalfEmbeddedSound DEF SameGraph, Store, v
<1> QED BY <1>2, <1>3, GraphOnly

-----------------------------------------------------------------------------
(* In the phases that write edges and rows, the kept bytes are the hashed. *)
HashedNow == phase \in {"pass2", "resolve", "commit"} => Hashed(view, changed)

LEMMA InterruptBacked ==
  ASSUME LocalsTyped, Backed(view), HashedNow, Interrupt
  PROVE  Backed(view')
<1>0. changed \in Tree /\ toRead \subseteq Files
  BY DEF LocalsTyped
<1>1. ASSUME NEW F \in SUBSET Files, CutDeletions(F)
      PROVE  Backed(view')
  <2>1. PICK D \in SUBSET F : \E f \in F \ D : view' \in Deleting(DeleteFiles(view, D), f)
    BY <1>1 DEF CutDeletions
  <2>2. PICK f \in F \ D : view' \in Deleting(DeleteFiles(view, D), f)
    BY <2>1
  <2> QED BY <2>2, DeleteFilesBacked, DeletingBacked
<1>2. phase = "pass2" /\ CutPass2 => Backed(view')
  BY <1>0, CutPass2Backed DEF HashedNow
<1> QED BY <1>0, <1>1, <1>2, CutPass1Backed, CutResolveBacked, CutRefreshBacked DEF Interrupt

LEMMA ReindexHashed ==
  ASSUME NEW v \in Store, NEW ch \in Tree
  PROVE  Hashed(UpsertNodes(DeleteFiles(v, {f \in Files : ch[f] # NoContent}), ch), ch)
<1> DEFINE e == DeleteFiles(v, {f \in Files : ch[f] # NoContent})
           w == UpsertNodes(e, ch)
<1>1. e \in Store
  BY DeleteFilesType
<1> HIDE DEF e
<1>2. /\ \A f \in Files : w.sha[f] = IF ch[f] # NoContent THEN ch[f] ELSE e.sha[f]
      /\ w.nodes = e.nodes \cup NodesIn(ch)
  BY <1>1, UpsertNodesKeeps
<1> HIDE DEF w
<1> QED BY <1>2 DEF Hashed, w, e

BInv == LocalsTyped /\ Backed(db) /\ Backed(view) /\ HashedNow

LEMMA InitBInv == Init => BInv
<1>0. Init => db = EmptyStore /\ view = EmptyStore /\ phase = "idle"
  BY DEF Init
<1>1. Backed(EmptyStore)
  BY EmptyStoreClaimed, ClaimedIsBacked
<1> QED BY <1>0, <1>1, InitIInv DEF BInv, IInv, HashedNow

LEMMA StepKeepsHashed ==
  ASSUME LocalsTyped, view \in Store, HashedNow, Next
  PROVE  HashedNow'
<1>0. changed \in Tree
  BY DEF LocalsTyped
<1>1. ASSUME phase' \notin {"pass2", "resolve", "commit"} \/ UNCHANGED <<view, phase, changed>>
      PROVE  HashedNow'
  BY <1>1 DEF HashedNow
<1>2. ASSUME NEW f \in Files, Edit(f) \/ ReadFile(f) \/ ReadError(f)
      PROVE  HashedNow'
  BY <1>1, <1>2 DEF Edit, ReadFile, ReadError, locals
<1>3. CASE Discover \/ DeleteGone \/ Commit \/ Fail \/ Crash \/ Interrupt \/ EmbedDone
  BY <1>1, <1>3 DEF Discover, DeleteGone, Commit, Fail, Crash, Interrupt, EmbedDone
<1>4. CASE Pass1
  BY <1>0, <1>4, ReindexHashed DEF Pass1, Reindexed, Changed, HashedNow
<1>5. CASE Pass2
  <2>1. PassTwo(view, changed).sha = view.sha /\ PassTwo(view, changed).nodes = view.nodes
    BY LaterWritesKeep
  <2> QED BY <1>5, <2>1 DEF Pass2, HashedNow, Hashed, locals
<1>6. CASE Resolve
  <2>1. ResolvePending(view, changed, affected).sha = view.sha
        /\ ResolvePending(view, changed, affected).nodes = view.nodes
    BY LaterWritesKeep
  <2> QED BY <1>6, <2>1 DEF Resolve, HashedNow, Hashed, locals
<1>7. ASSUME NEW full \in BOOLEAN, StartRefresh(full)
      PROVE  HashedNow'
  BY <1>1, <1>7 DEF StartRefresh
<1>8. ASSUME NEW B, NEW W, EmbedBatch(B, W)
      PROVE  HashedNow'
  BY <1>1, <1>8 DEF EmbedBatch
<1> QED BY <1>2, <1>3, <1>4, <1>5, <1>6, <1>7, <1>8 DEF Next

LEMMA NextBInv == BInv /\ [Next]_vars => BInv'
<1> SUFFICES ASSUME BInv, [Next]_vars PROVE BInv'
  OBVIOUS
<1>0. IInv /\ IInv' /\ LocalsTyped /\ Backed(db) /\ Backed(view) /\ HashedNow /\ changed \in Tree
      /\ view \in Store
  BY NextIInv DEF BInv, IInv, Backed, Shaped, LocalsTyped
<1>1. CASE UNCHANGED vars
  BY <1>0, <1>1 DEF vars, BInv, HashedNow, LocalsTyped
<1> SUFFICES ASSUME Next PROVE Backed(db') /\ Backed(view')
  BY <1>0, <1>1, StepKeepsHashed DEF BInv, IInv
<1>2. ASSUME UNCHANGED <<db, view>>
      PROVE  Backed(db') /\ Backed(view')
  BY <1>0, <1>2
<1>3. ASSUME NEW f \in Files, Edit(f) \/ ReadFile(f) \/ ReadError(f)
      PROVE  Backed(db') /\ Backed(view')
  BY <1>2, <1>3 DEF Edit, ReadFile, ReadError
<1>4. CASE Discover
  BY <1>2, <1>4 DEF Discover
<1>5. CASE DeleteGone
  <2>1. PICK gone \in SUBSET Files : view' = DeleteFiles(view, gone)
    BY <1>5 DEF DeleteGone
  <2> QED BY <1>0, <1>5, <2>1, DeleteFilesBacked DEF DeleteGone
<1>6. CASE Pass1
  BY <1>0, <1>6, ReindexBacked DEF Pass1, Reindexed, Changed
<1>7. CASE Pass2
  BY <1>0, <1>7, PassTwoBacked, PartOfItself DEF Pass2, HashedNow
<1>8. CASE Resolve
  BY <1>0, <1>8, ResolvePendingClaimed DEF Resolve
<1>9. CASE Commit \/ EmbedDone \/ Fail \/ Crash
  BY <1>0, <1>9 DEF Commit, EmbedDone, Fail, Crash
<1>10. CASE Interrupt
  <2>1. db' = db
    BY <1>10 DEF Interrupt
  <2> QED BY <1>0, <1>10, <2>1, InterruptBacked
<1>11. ASSUME NEW full \in BOOLEAN, StartRefresh(full)
       PROVE  Backed(db') /\ Backed(view')
  BY <1>0, <1>11, SetEmbeddingsClaimed DEF StartRefresh
<1>12. ASSUME NEW B, NEW W, EmbedBatch(B, W)
       PROVE  Backed(db') /\ Backed(view')
  BY <1>0, <1>12, SetEmbeddingsClaimed DEF EmbedBatch
<1> QED BY <1>3, <1>4, <1>5, <1>6, <1>7, <1>8, <1>9, <1>10, <1>11, <1>12 DEF Next

LEMMA SpecBInv == Spec => []BInv
BY InitBInv, NextBInv, PTL DEF Spec

(* An edge comes from a reference in the present text of its caller, with   *)
(* no more confidence than the reference has (indexer.py, _persist_pending  *)
(* and _resolve_pending): for any repository, after any failure, crash or   *)
(* interrupt, between whichever statements it falls.                        *)
THEOREM EdgesComeFromText == Spec => []EdgesClaimed
<1>1. ASSUME BInv PROVE EdgesClaimed
  <2>1. Linked(db) /\ db.nodes \subseteq NodesIn(db.sha) /\ EdgesAreClaimed(db)
    BY <1>1 DEF BInv, Backed, Shaped, Within
  <2>2. ASSUME NEW s \in Uids, NEW d \in Uids, db.edge[s][d] > 0
        PROVE  s \in db.nodes /\ d \in db.nodes /\ db.sha[s[1]] # NoContent
    BY <2>1, <2>2 DEF Linked, NodesIn
  <2> QED BY <2>1, <2>2 DEF EdgesAreClaimed, EdgeIsClaimed, EdgesClaimed
<1> QED BY <1>1, SpecBInv, PTL

-----------------------------------------------------------------------------
(* Without interrupts the store is claimed in full. *)
GInv == ~Interrupts /\ LocalsTyped /\ Claimed(db) /\ Claimed(view) /\ HashedNow

LEMMA InitGInv == ~Interrupts /\ Init => GInv
<1>0. Init => db = EmptyStore /\ view = EmptyStore /\ phase = "idle"
  BY DEF Init
<1> QED BY <1>0, EmptyStoreClaimed, InitIInv DEF GInv, IInv, HashedNow

LEMMA NextGInv == GInv /\ [Next]_vars => GInv'
<1> SUFFICES ASSUME GInv, [Next]_vars PROVE GInv'
  OBVIOUS
<1>0. /\ IInv /\ IInv' /\ LocalsTyped /\ Claimed(db) /\ Claimed(view) /\ HashedNow /\ changed \in Tree
      /\ view \in Store /\ ~Interrupts
  BY NextIInv, SoundIsShaped DEF GInv, IInv, Claimed, LocalsTyped, Shaped
<1>1. CASE UNCHANGED vars
  BY <1>0, <1>1 DEF vars, GInv, HashedNow, LocalsTyped
<1> SUFFICES ASSUME Next PROVE Claimed(db') /\ Claimed(view')
  BY <1>0, <1>1, StepKeepsHashed DEF GInv, IInv
<1>2. ASSUME UNCHANGED <<db, view>>
      PROVE  Claimed(db') /\ Claimed(view')
  BY <1>0, <1>2
<1>3. ASSUME NEW f \in Files, Edit(f) \/ ReadFile(f) \/ ReadError(f)
      PROVE  Claimed(db') /\ Claimed(view')
  BY <1>2, <1>3 DEF Edit, ReadFile, ReadError
<1>4. CASE Discover
  BY <1>2, <1>4 DEF Discover
<1>5. CASE DeleteGone
  <2>1. PICK gone \in SUBSET Files : view' = DeleteFiles(view, gone)
    BY <1>5 DEF DeleteGone
  <2> QED BY <1>0, <1>5, <2>1, DeleteFilesClaimed DEF DeleteGone
<1>6. CASE Pass1
  BY <1>0, <1>6, ReindexClaimed DEF Pass1, Reindexed, Changed
<1>7. CASE Pass2
  BY <1>0, <1>7, PassTwoClaimed DEF Pass2, HashedNow
<1>8. CASE Resolve
  BY <1>0, <1>8, ResolvePendingClaimed DEF Resolve
<1>9. CASE Commit \/ EmbedDone \/ Fail \/ Crash
  BY <1>0, <1>9 DEF Commit, EmbedDone, Fail, Crash
<1>10. CASE Interrupt
  BY <1>0, <1>10 DEF Interrupt
<1>11. ASSUME NEW full \in BOOLEAN, StartRefresh(full)
       PROVE  Claimed(db') /\ Claimed(view')
  BY <1>0, <1>11, SetEmbeddingsClaimed DEF StartRefresh
<1>12. ASSUME NEW B, NEW W, EmbedBatch(B, W)
       PROVE  Claimed(db') /\ Claimed(view')
  BY <1>0, <1>12, SetEmbeddingsClaimed DEF EmbedBatch
<1> QED BY <1>3, <1>4, <1>5, <1>6, <1>7, <1>8, <1>9, <1>10, <1>11, <1>12 DEF Next

-----------------------------------------------------------------------------
(***************************************************************************)
(* What a run has still to make good, without interrupts.  Between PASS 1  *)
(* and PASS 2 the files it re-indexes have a hash and none of what it      *)
(* promises; until the resolution, the rows of those files and the rows    *)
(* under a name that came or went may be unresolved.                       *)
(***************************************************************************)
Kept(v, f) ==
    v.sha[f] # NoContent =>
        /\ \A e \in v.sha[f].inner :
              {e.src, e.dst} \subseteq v.sha[f].defs => v.edge[<<f, e.src>>][<<f, e.dst>>] >= e.conf
        /\ \A q \in v.sha[f].coarse : v.row[<<f, q.src>>][q.name].conf >= q.conf

ResolvedAt(v, s, n) ==
    LET t == RowTarget(v, s, n) IN
    (s \in v.nodes /\ v.row[s][n].conf > 0 /\ t # NoUid /\ Target(v.nodes, t) # NoUid)
        => v.edge[s][Target(v.nodes, t)] >= v.row[s][n].conf

Good(v) == /\ \A f \in Files : Kept(v, f)
           /\ \A s \in Uids, n \in Names : ResolvedAt(v, s, n)

OwedFile(f)   == phase = "pass2" /\ changed[f] # NoContent
OwedRow(s, n) == phase \in {"read", "pass2", "resolve"} /\ (changed[s[1]] # NoContent \/ n \in affected)

DInv == /\ ~Interrupts
        /\ GInv
        /\ Good(db)
        /\ \A f \in Files : OwedFile(f) \/ Kept(view, f)
        /\ \A s \in Uids, n \in Names : OwedRow(s, n) \/ ResolvedAt(view, s, n)

LEMMA GraphOnlyGood ==
  ASSUME NEW v, NEW w, SameGraph(v, w)
  PROVE  /\ \A f : Kept(v, f) => Kept(w, f)
         /\ \A s, n : ResolvedAt(v, s, n) => ResolvedAt(w, s, n)
<1>1. \A s, n : RowTarget(v, s, n) = RowTarget(w, s, n)
  BY DEF SameGraph, RowTarget
<1> QED BY <1>1 DEF SameGraph, Kept, ResolvedAt

(* A symbol of a file with a hash is a uid, and so is the target of a row.  *)
LEMMA ContentUids ==
  ASSUME NEW c \in Contents, NEW f \in Files
  PROVE  /\ \A e \in c.inner : /\ e.conf \in Conf /\ e.conf > 0 /\ e.dst \in c.defs
                               /\ <<f, e.src>> \in Uids /\ <<f, e.dst>> \in Uids
         /\ \A q \in c.coarse : /\ q.conf \in Conf
                                /\ <<f, q.src>> \in Uids /\ q.name \in Names
BY ContentsAssumption DEF InnerEdge, CoarseEdge, Uids, Conf

(* An edge or a row added takes nothing away. *)
LEMMA UpsertKeepsGood ==
  ASSUME NEW v \in Store, NEW claims \in SUBSET Claim
  PROVE  LET w == UpsertEdges(v, claims)
         IN  /\ \A f \in Files : Kept(v, f) => Kept(w, f)
             /\ \A s \in Uids, n \in Names : ResolvedAt(v, s, n) => ResolvedAt(w, s, n)
<1> DEFINE w == UpsertEdges(v, claims)
<1>1. /\ w.sha = v.sha /\ w.nodes = v.nodes /\ w.row = v.row
      /\ \A s, d \in Uids : w.edge[s][d] = Higher(v, claims, s, d)
  BY UpsertEdgesKeeps
<1>2. \A s, d \in Uids : w.edge[s][d] >= v.edge[s][d] /\ w.edge[s][d] \in Conf /\ v.edge[s][d] \in Conf
  <2> TAKE s, d \in Uids
  <2>1. w.edge[s][d] = Higher(v, claims, s, d) /\ v.edge[s][d] \in Conf
    BY <1>1 DEF Store
  <2>2. Higher(v, claims, s, d) >= v.edge[s][d] /\ Higher(v, claims, s, d) \in Conf
    BY HigherBounds, HigherFacts
  <2> HIDE DEF w
  <2> QED BY <2>1, <2>2
<1> HIDE DEF w
<1>3. ASSUME NEW f \in Files, Kept(v, f), v.sha[f] # NoContent
      PROVE  Kept(w, f)
  <2>1. v.sha[f] \in Contents
    BY <1>3 DEF Store
  <2>2. ASSUME NEW e \in v.sha[f].inner, {e.src, e.dst} \subseteq v.sha[f].defs
        PROVE  w.edge[<<f, e.src>>][<<f, e.dst>>] >= e.conf
    <3>1. <<f, e.src>> \in Uids /\ <<f, e.dst>> \in Uids /\ e.conf \in Conf
      BY <2>1, ContentUids
    <3>2. v.edge[<<f, e.src>>][<<f, e.dst>>] >= e.conf
      BY <1>3, <2>2 DEF Kept
    <3> DEFINE x == w.edge[<<f, e.src>>][<<f, e.dst>>]
               y == v.edge[<<f, e.src>>][<<f, e.dst>>]
    <3>3. x >= y /\ x \in Conf /\ y \in Conf /\ y >= e.conf
      BY <1>2, <3>1, <3>2
    <3> HIDE DEF x, y
    <3>4. x >= e.conf
      BY <3>1, <3>3 DEF Conf
    <3> QED BY <3>4 DEF x
  <2> QED BY <1>1, <1>3, <2>2 DEF Kept
<1>4. ASSUME NEW f \in Files, v.sha[f] = NoContent
      PROVE  Kept(w, f)
  BY <1>1, <1>4 DEF Kept
<1>5. ASSUME NEW s \in Uids, NEW n \in Names, ResolvedAt(v, s, n)
      PROVE  ResolvedAt(w, s, n)
  <2>1. RowTarget(w, s, n) = RowTarget(v, s, n)
    BY <1>1 DEF RowTarget
  <2>2. Target(v.nodes, RowTarget(v, s, n)) # NoUid => Target(v.nodes, RowTarget(v, s, n)) \in Uids
    BY TargetExists DEF Store
  <2> DEFINE k == v.row[s][n].conf
             d == Target(v.nodes, RowTarget(v, s, n))
  <2>3. k \in Conf
    BY DEF Store, Row
  <2>4. ASSUME d \in Uids, v.edge[s][d] >= k
        PROVE  w.edge[s][d] >= k
    <3> DEFINE x == w.edge[s][d]
               y == v.edge[s][d]
    <3>1. x >= y /\ x \in Conf /\ y \in Conf /\ y >= k
      BY <1>2, <2>4
    <3> HIDE DEF x, y, k
    <3>2. x >= k
      BY <2>3, <3>1 DEF Conf
    <3> QED BY <3>2 DEF x
  <2> QED BY <1>1, <1>5, <2>1, <2>2, <2>4 DEF ResolvedAt
<1> QED BY <1>3, <1>4, <1>5 DEF w

(* Rows under n depend on the symbols of that name only. *)
LEMMA SameNamed ==
  ASSUME NEW v \in Store, NEW w \in Store, NEW s \in Uids, NEW n \in Names,
         w.row[s][n] = v.row[s][n],
         v.row[s][n].dst # NoUid => v.row[s][n].dst[2] = n,
         \A u \in Uids : u[2] = n => (u \in v.nodes <=> u \in w.nodes)
  PROVE  /\ RowTarget(w, s, n) = RowTarget(v, s, n)
         /\ RowTarget(v, s, n) # NoUid =>
               /\ RowTarget(v, s, n)[2] = n
               /\ Target(w.nodes, RowTarget(v, s, n)) = Target(v.nodes, RowTarget(v, s, n))
<1> DEFINE r == v.row[s][n]
<1>1. v.nodes \subseteq Uids /\ w.nodes \subseteq Uids
  BY DEF Store
<1>2. ByName(v.nodes, n) = ByName(w.nodes, n)
  BY <1>1 DEF ByName
<1>3. ASSUME NEW t, t[2] = n
      PROVE  Target(w.nodes, t) = Target(v.nodes, t)
  <2>1. t \in v.nodes <=> t \in w.nodes
    BY <1>1, <1>3
  <2>2. InitUid(t)[2] = n
    BY <1>3 DEF InitUid
  <2>3. InitUid(t) \in v.nodes <=> InitUid(t) \in w.nodes
    BY <1>1, <2>2
  <2> QED BY <2>1, <2>3 DEF Target
<1>4. CASE r.dst # NoUid
  <2>1. RowTarget(w, s, n) = r.dst /\ RowTarget(v, s, n) = r.dst
    BY <1>4 DEF RowTarget
  <2> QED BY <1>3, <1>4, <2>1
<1>5. CASE r.dst = NoUid
  <2>1. \A u : u \in v.nodes /\ ByName(v.nodes, n) = {u} <=> u \in w.nodes /\ ByName(w.nodes, n) = {u}
    BY <1>2 DEF ByName
  <2>2. CASE \E u \in v.nodes : ByName(v.nodes, n) = {u}
    <3>1. PICK u \in v.nodes : ByName(v.nodes, n) = {u}
      BY <2>2
    <3>2. u \in w.nodes /\ ByName(w.nodes, n) = {u} /\ u[2] = n
      BY <2>1, <3>1 DEF ByName
    <3>3. RowTarget(v, s, n) = CHOOSE x \in v.nodes : ByName(v.nodes, n) = {x}
      BY <1>5, <2>2 DEF RowTarget
    <3>4. RowTarget(w, s, n) = CHOOSE x \in w.nodes : ByName(w.nodes, n) = {x}
      BY <1>5, <3>2 DEF RowTarget
    <3>5. RowTarget(v, s, n) = u
      BY <3>1, <3>3
    <3>6. RowTarget(w, s, n) = u
      BY <3>2, <3>4
    <3> QED BY <1>3, <3>2, <3>5, <3>6
  <2>3. CASE ~\E u \in v.nodes : ByName(v.nodes, n) = {u}
    <3>1. RowTarget(v, s, n) = NoUid
      BY <1>5, <2>3 DEF RowTarget
    <3>2. RowTarget(w, s, n) = NoUid
      BY <1>5, <2>1, <2>3 DEF RowTarget
    <3> QED BY <3>1, <3>2
  <2> QED BY <2>2, <2>3
<1> QED BY <1>4, <1>5

(* Reaping files leaves the others what they had, and the rows under names  *)
(* that did not go.                                                         *)
LEMMA DeleteFilesGood ==
  ASSUME NEW v, Claimed(v), NEW F \in SUBSET Files
  PROVE  LET w == DeleteFiles(v, F)
         IN  /\ \A f \in Files : Kept(v, f) => Kept(w, f)
             /\ \A s \in Uids, n \in Names :
                   n \notin NamesOf(v, F) /\ ResolvedAt(v, s, n) => ResolvedAt(w, s, n)
<1> DEFINE w == DeleteFiles(v, F)
<1>1. v \in Store /\ w \in Store
  BY DeleteFilesType DEF Claimed, Sound
<1>2. /\ \A f \in Files : w.sha[f] = IF f \in F THEN NoContent ELSE v.sha[f]
      /\ w.nodes = {u \in v.nodes : u[1] \notin F}
      /\ \A s \in Uids : w.row[s] = IF s[1] \in F THEN [n \in Names |-> NoRow] ELSE v.row[s]
      /\ \A s, d \in Uids : w.edge[s][d] =
            IF s \in SymbolsOf(v, F) \/ d \in SymbolsOf(v, F) THEN 0 ELSE v.edge[s][d]
  BY <1>1, DeleteFilesKeeps
<1> HIDE DEF w
<1>3. \A u \in v.nodes : /\ u \in SymbolsOf(v, F) <=> u[1] \in F
                         /\ u \in SymbolsOf(v, F) => u[2] \in NamesOf(v, F)
  BY DEF SymbolsOf, NamesOf
<1>4. ASSUME NEW f \in Files, Kept(v, f), f \notin F, v.sha[f] # NoContent
      PROVE  Kept(w, f)
  <2>1. w.sha[f] = v.sha[f] /\ v.sha[f] \in Contents
    BY <1>1, <1>2, <1>4 DEF Store
  <2>2. ASSUME NEW e \in v.sha[f].inner
        PROVE  w.edge[<<f, e.src>>][<<f, e.dst>>] = v.edge[<<f, e.src>>][<<f, e.dst>>]
    <3>1. <<f, e.src>> \in Uids /\ <<f, e.dst>> \in Uids
      BY <2>1, ContentUids
    <3>2. <<f, e.src>> \notin SymbolsOf(v, F) /\ <<f, e.dst>> \notin SymbolsOf(v, F)
      BY <1>4 DEF SymbolsOf
    <3> QED BY <1>2, <3>1, <3>2
  <2>3. ASSUME NEW q \in v.sha[f].coarse
        PROVE  w.row[<<f, q.src>>] = v.row[<<f, q.src>>]
    <3>1. <<f, q.src>> \in Uids /\ <<f, q.src>>[1] = f
      BY <2>1, ContentUids
    <3> QED BY <1>2, <1>4, <3>1
  <2> QED BY <1>4, <2>1, <2>2, <2>3 DEF Kept
<1>5. ASSUME NEW f \in Files, f \in F \/ v.sha[f] = NoContent
      PROVE  Kept(w, f)
  BY <1>2, <1>5 DEF Kept
<1>6. ASSUME NEW s \in Uids, NEW n \in Names, n \notin NamesOf(v, F), ResolvedAt(v, s, n), s \in w.nodes
      PROVE  ResolvedAt(w, s, n)
  <2>1. s \in v.nodes /\ s[1] \notin F /\ w.row[s][n] = v.row[s][n]
    BY <1>2, <1>6
  <2>2. \A u \in Uids : u[2] = n => (u \in v.nodes <=> u \in w.nodes)
    BY <1>2, <1>3, <1>6
  <2>3. v.row[s][n].dst # NoUid => v.row[s][n].dst[2] = n
    BY DEF Claimed, RowsClaimed
  <2> DEFINE t == RowTarget(v, s, n)
             d == Target(v.nodes, t)
  <2>4. RowTarget(w, s, n) = t /\ (t # NoUid => t[2] = n /\ Target(w.nodes, t) = d)
    BY <1>1, <2>1, <2>2, <2>3, SameNamed
  <2>5. ASSUME t # NoUid, d # NoUid
        PROVE  w.edge[s][d] = v.edge[s][d]
    <3>1. d \in v.nodes /\ d \in Uids
      BY <1>1, <2>5, TargetExists DEF Store
    <3>2. d[2] = n
      BY <2>4, <2>5, TargetForm
    <3>3. d \notin SymbolsOf(v, F) /\ s \notin SymbolsOf(v, F)
      BY <1>3, <1>6, <2>1, <3>1, <3>2
    <3> QED BY <1>2, <3>1, <3>3
  <2> HIDE DEF t, d
  <2>6. (s \in v.nodes /\ v.row[s][n].conf > 0 /\ t # NoUid /\ d # NoUid) => v.edge[s][d] >= v.row[s][n].conf
    BY <1>6 DEF ResolvedAt, t, d
  <2>7. (s \in w.nodes /\ w.row[s][n].conf > 0 /\ t # NoUid /\ d # NoUid) => w.edge[s][d] >= w.row[s][n].conf
    BY <2>1, <2>5, <2>6
  <2> QED BY <2>4, <2>7 DEF ResolvedAt
<1>7. ASSUME NEW s \in Uids, NEW n \in Names, s \notin w.nodes
      PROVE  ResolvedAt(w, s, n)
  BY <1>7 DEF ResolvedAt
<1> QED BY <1>4, <1>5, <1>6, <1>7 DEF w

(* So does inserting the symbols of other files, under other names. *)
LEMMA UpsertNodesGood ==
  ASSUME NEW v, Claimed(v), NEW ch \in Tree
  PROVE  LET w == UpsertNodes(v, ch)
         IN  /\ \A f \in Files : ch[f] = NoContent /\ Kept(v, f) => Kept(w, f)
             /\ \A s \in Uids, n \in Names :
                   (/\ ch[s[1]] = NoContent
                    /\ \A f \in Files : ch[f] # NoContent => n \notin ch[f].defs
                    /\ ResolvedAt(v, s, n))
                      => ResolvedAt(w, s, n)
<1> DEFINE w == UpsertNodes(v, ch)
<1>1. v \in Store /\ w \in Store
  BY UpsertSomeType DEF Claimed, Sound, UpsertNodes
<1>2. /\ \A f \in Files : w.sha[f] = IF ch[f] # NoContent THEN ch[f] ELSE v.sha[f]
      /\ w.nodes = v.nodes \cup NodesIn(ch) /\ w.edge = v.edge /\ w.row = v.row
  BY <1>1, UpsertNodesKeeps
<1> HIDE DEF w
<1>3. ASSUME NEW f \in Files, ch[f] = NoContent, Kept(v, f)
      PROVE  Kept(w, f)
  BY <1>2, <1>3 DEF Kept
<1>4. ASSUME NEW s \in Uids, NEW n \in Names, ch[s[1]] = NoContent, ResolvedAt(v, s, n),
             \A f \in Files : ch[f] # NoContent => n \notin ch[f].defs
      PROVE  ResolvedAt(w, s, n)
  <2>1. s \in w.nodes => s \in v.nodes
    BY <1>2, <1>4 DEF NodesIn
  <2>2. \A u \in Uids : u[2] = n => (u \in v.nodes <=> u \in w.nodes)
    BY <1>2, <1>4 DEF NodesIn, Uids
  <2>3. v.row[s][n].dst # NoUid => v.row[s][n].dst[2] = n
    BY DEF Claimed, RowsClaimed
  <2> DEFINE t == RowTarget(v, s, n)
             d == Target(v.nodes, t)
  <2>4. RowTarget(w, s, n) = t /\ (t # NoUid => Target(w.nodes, t) = d)
    <3>1. w.row[s][n] = v.row[s][n]
      BY <1>2
    <3> QED BY <1>1, <2>2, <2>3, <3>1, SameNamed
  <2> HIDE DEF t, d
  <2>5. (s \in v.nodes /\ v.row[s][n].conf > 0 /\ t # NoUid /\ d # NoUid) => v.edge[s][d] >= v.row[s][n].conf
    BY <1>4 DEF ResolvedAt, t, d
  <2> QED BY <1>2, <2>1, <2>4, <2>5 DEF ResolvedAt
<1>5. \A s \in Uids, n \in Names :
         ch[s[1]] = NoContent /\ (\A f \in Files : ch[f] # NoContent => n \notin ch[f].defs) /\ ResolvedAt(v, s, n)
             => ResolvedAt(w, s, n)
  BY <1>4, Zenon
<1> QED BY <1>3, <1>5 DEF w

LEMMA ReindexGood ==
  ASSUME NEW v, Claimed(v), NEW ch \in Tree
  PROVE  LET F == {f \in Files : ch[f] # NoContent}
             w == UpsertNodes(DeleteFiles(v, F), ch)
         IN  /\ \A f \in Files : f \notin F /\ Kept(v, f) => Kept(w, f)
             /\ \A s \in Uids, n \in Names :
                   (/\ s[1] \notin F
                    /\ n \notin NamesOf(v, F) \cup UNION {ch[f].defs : f \in F}
                    /\ ResolvedAt(v, s, n))
                      => ResolvedAt(w, s, n)
<1> DEFINE F == {f \in Files : ch[f] # NoContent}
           e == DeleteFiles(v, F)
           w == UpsertNodes(e, ch)
<1>1. Claimed(e)
  BY DeleteFilesClaimed
<1>2. /\ \A f \in Files : Kept(v, f) => Kept(e, f)
      /\ \A s \in Uids, n \in Names : n \notin NamesOf(v, F) /\ ResolvedAt(v, s, n) => ResolvedAt(e, s, n)
  BY DeleteFilesGood
<1>3. \A s \in Uids : s[1] \notin F => ch[s[1]] = NoContent
  BY UidPair
<1> HIDE DEF e
<1>4. /\ \A f \in Files : ch[f] = NoContent /\ Kept(e, f) => Kept(w, f)
      /\ \A s \in Uids, n \in Names :
            (/\ ch[s[1]] = NoContent
             /\ \A f \in Files : ch[f] # NoContent => n \notin ch[f].defs
             /\ ResolvedAt(e, s, n))
               => ResolvedAt(w, s, n)
  BY <1>1, UpsertNodesGood
<1>5. ASSUME NEW f \in Files, f \notin F, Kept(v, f)
      PROVE  Kept(w, f)
  <2> HIDE DEF w
  <2> QED BY <1>2, <1>4, <1>5
<1>6. ASSUME NEW s \in Uids, NEW n \in Names, s[1] \notin F, ResolvedAt(v, s, n),
             n \notin NamesOf(v, F) \cup UNION {ch[f].defs : f \in F}
      PROVE  ResolvedAt(w, s, n)
  <2>1. ch[s[1]] = NoContent /\ ResolvedAt(e, s, n)
    BY <1>2, <1>3, <1>6
  <2>2. \A f \in Files : ch[f] # NoContent => n \notin ch[f].defs
    BY <1>6
  <2> HIDE DEF w, F
  <2> QED BY <1>4, <2>1, <2>2
<1> HIDE DEF w, F
<1>7. \A s \in Uids, n \in Names :
         s[1] \notin F /\ n \notin NamesOf(v, F) \cup UNION {ch[f].defs : f \in F} /\ ResolvedAt(v, s, n)
             => ResolvedAt(w, s, n)
  BY <1>6, Zenon
<1> QED BY <1>5, <1>7, Zenon DEF w, e, F

(* PASS 2 makes good what the re-indexed files promise. *)
LEMMA PassTwoGood ==
  ASSUME NEW v, Claimed(v), NEW ch \in Tree, Hashed(v, ch)
  PROVE  LET w == PassTwo(v, ch)
         IN  /\ \A f \in Files : ch[f] # NoContent \/ Kept(v, f) => Kept(w, f)
             /\ \A s \in Uids, n \in Names :
                   ch[s[1]] = NoContent /\ ResolvedAt(v, s, n) => ResolvedAt(w, s, n)
<1> DEFINE A == AllDirect(ch)
           M == Materialised(v.nodes, A)
           u == UpsertEdges(v, M)
           w == PersistPending(u, ch)
<1>1. v \in Store /\ v.nodes \in SUBSET Uids /\ Whole(v)
  BY DEF Claimed, Sound, Store
<1>2. M \in SUBSET Claim
  BY <1>1, AllDirectType, MaterialisedFacts
<1>3. /\ \A f \in Files : Kept(v, f) => Kept(u, f)
      /\ \A s \in Uids, n \in Names : ResolvedAt(v, s, n) => ResolvedAt(u, s, n)
  <2> HIDE DEF M
  <2> QED BY <1>1, <1>2, UpsertKeepsGood
<1>4. /\ u \in Store /\ u.sha = v.sha /\ u.nodes = v.nodes /\ u.row = v.row
      /\ \A s, d \in Uids : u.edge[s][d] = Higher(v, M, s, d)
  <2> HIDE DEF M
  <2> QED BY <1>1, <1>2, UpsertEdgesKeeps, UpsertEdgesType
<1> HIDE DEF u
<1>5. /\ w.sha = v.sha /\ w.nodes = v.nodes /\ w.edge = u.edge
      /\ \A s \in Uids, n \in Names :
            w.row[s][n] = IF ch[s[1]] = NoContent THEN v.row[s][n] ELSE PersistRow(u, ch[s[1]], s, n)
  BY <1>4, PersistPendingKeeps
<1> HIDE DEF w
<1>6. ASSUME NEW f \in Files, ch[f] # NoContent
      PROVE  Kept(w, f)
  <2>1. w.sha[f] = ch[f] /\ v.sha[f] = ch[f] /\ ch[f] \in Contents
    BY <1>5, <1>6 DEF Hashed, Tree
  <2>2. ASSUME NEW e \in ch[f].inner, {e.src, e.dst} \subseteq ch[f].defs
        PROVE  w.edge[<<f, e.src>>][<<f, e.dst>>] >= e.conf
    <3> DEFINE s == <<f, e.src>>
               d == <<f, e.dst>>
               c == [src |-> s, dst |-> d, conf |-> e.conf]
    <3>1. s \in Uids /\ d \in Uids
      BY <2>1, ContentUids
    <3>2. s \in v.nodes /\ d \in v.nodes
      BY <1>1, <1>6, <2>1, <2>2, <3>1 DEF Whole, NodesIn
    <3>3. c \in A
      <4>1. c \in DirectEdges(f, ch[f])
        BY DEF DirectEdges
      <4> HIDE DEF c
      <4> QED BY <1>6, <4>1 DEF AllDirect
    <3>4. Target(v.nodes, d) = d /\ d # NoUid
      BY <3>1, <3>2, NoUidAssumption DEF Target
    <3>5. c \in M
      <4> HIDE DEF A
      <4>1. c.src = s /\ c.dst = d /\ c.conf = e.conf
        OBVIOUS
      <4> HIDE DEF s, d
      <4> QED BY <3>2, <3>3, <3>4, <4>1 DEF Materialised
    <3> HIDE DEF M
    <3>6. \A x \in M : x.src = s /\ x.dst = d => Higher(v, M, s, d) >= x.conf
      BY <1>1, <1>2, <3>1, HigherBounds
    <3>7. c.src = s /\ c.dst = d /\ c.conf = e.conf
      OBVIOUS
    <3> HIDE DEF s, d, c
    <3>8. w.edge[s][d] >= e.conf
      BY <1>4, <1>5, <3>1, <3>5, <3>6, <3>7
    <3> QED BY <3>8 DEF s, d
  <2>3. ASSUME NEW q \in ch[f].coarse
        PROVE  w.row[<<f, q.src>>][q.name].conf >= q.conf
    <3> DEFINE s == <<f, q.src>>
               n == q.name
               P == Persisted(u.nodes, ch[f], s, n)
               Q == CoarseFor(ch[f], s, n)
               S == {u.row[s][n].conf} \cup {p.conf : p \in P} \cup {x.conf : x \in Q}
    <3>1. s \in Uids /\ n \in Names /\ s[1] = f
      BY <2>1, ContentUids
    <3>2. q \in Q
      BY DEF CoarseFor
    <3>3. ch[f].precise \subseteq PreciseEdge /\ ch[f].coarse \subseteq CoarseEdge
      BY <2>1, ContentsAssumption
    <3>4. \A p \in P : p.conf \in Conf
      BY <3>3 DEF Persisted, PreciseEdge
    <3>5. \A x \in Q : x.conf \in Conf
      BY <3>3 DEF CoarseFor, CoarseEdge
    <3>6. u.row[s][n].conf \in Conf
      BY <1>4, <3>1 DEF Store, Row
    <3>7. PersistRow(u, ch[f], s, n).conf = Max(S)
      BY DEF PersistRow
    <3> HIDE DEF P, Q, s, n
    <3>8. S \subseteq Conf /\ S # {} /\ q.conf \in S
      BY <3>2, <3>4, <3>5, <3>6
    <3>9. Max(S) >= q.conf
      BY <3>8, MaxConf
    <3>10. w.row[s][n].conf >= q.conf
      BY <1>5, <1>6, <3>1, <3>7, <3>9
    <3> QED BY <3>10 DEF s, n
  <2> QED BY <2>1, <2>2, <2>3 DEF Kept
<1>7. ASSUME NEW f \in Files, ch[f] = NoContent, Kept(u, f), v.sha[f] # NoContent
      PROVE  Kept(w, f)
  <2>1. v.sha[f] \in Contents
    BY <1>1, <1>7 DEF Store
  <2>2. \A q \in v.sha[f].coarse : w.row[<<f, q.src>>][q.name] = u.row[<<f, q.src>>][q.name]
    BY <1>4, <1>5, <1>7, <2>1, ContentUids
  <2> QED BY <1>4, <1>5, <1>7, <2>2 DEF Kept
<1>8. ASSUME NEW f \in Files, v.sha[f] = NoContent
      PROVE  Kept(w, f)
  BY <1>5, <1>8 DEF Kept
<1>9. ASSUME NEW s \in Uids, NEW n \in Names, ch[s[1]] = NoContent, ResolvedAt(u, s, n)
      PROVE  ResolvedAt(w, s, n)
  <2>1. w.row[s][n] = u.row[s][n] /\ w.nodes = u.nodes /\ w.edge = u.edge
    BY <1>4, <1>5, <1>9
  <2>2. RowTarget(w, s, n) = RowTarget(u, s, n)
    BY <2>1 DEF RowTarget
  <2> QED BY <1>9, <2>1, <2>2 DEF ResolvedAt
<1> QED BY <1>3, <1>6, <1>7, <1>8, <1>9 DEF PassTwo, w, u, M, A

(* The resolution makes good every row it looks at. *)
LEMMA ResolvePendingGood ==
  ASSUME NEW v, Claimed(v), NEW ch, NEW names
  PROVE  LET w == ResolvePending(v, ch, names)
         IN  /\ \A f \in Files : Kept(v, f) => Kept(w, f)
             /\ \A s \in Uids, n \in Names :
                   ch[s[1]] # NoContent \/ n \in names \/ ResolvedAt(v, s, n) => ResolvedAt(w, s, n)
<1> DEFINE A == PendingClaims(v, ch, names)
           M == Materialised(v.nodes, A)
           w == UpsertEdges(v, M)
<1>1. v \in Store /\ v.nodes \in SUBSET Uids
  BY DEF Claimed, Sound, Store
<1>2. M \in SUBSET Claim
  BY <1>1, PendingClaimsType, MaterialisedFacts
<1> HIDE DEF M
<1>3. /\ \A f \in Files : Kept(v, f) => Kept(w, f)
      /\ \A s \in Uids, n \in Names : ResolvedAt(v, s, n) => ResolvedAt(w, s, n)
  BY <1>1, <1>2, UpsertKeepsGood
<1>4. /\ w.nodes = v.nodes /\ w.row = v.row
      /\ \A s, d \in Uids : w.edge[s][d] = Higher(v, M, s, d)
  BY <1>1, <1>2, UpsertEdgesKeeps
<1> HIDE DEF w
<1>5. ASSUME NEW s \in Uids, NEW n \in Names, ch[s[1]] # NoContent \/ n \in names
      PROVE  ResolvedAt(w, s, n)
  <2> DEFINE t == RowTarget(v, s, n)
             d == Target(v.nodes, t)
             k == v.row[s][n].conf
             x == [src |-> s, dst |-> t, conf |-> k]
             c == [src |-> s, dst |-> d, conf |-> k]
  <2>1. RowTarget(w, s, n) = t /\ Target(w.nodes, t) = d
    BY <1>4 DEF RowTarget
  <2> SUFFICES ASSUME s \in v.nodes, k > 0, t # NoUid, d # NoUid
               PROVE  w.edge[s][d] >= k
    BY <1>4, <2>1 DEF ResolvedAt
  <2>2. <<s, n>> \in Candidates(v, ch, names)
    BY <1>5 DEF Candidates
  <2>3. x \in A
    BY <2>2 DEF PendingClaims
  <2>4. d \in Uids
    BY <1>1, TargetExists
  <2> HIDE DEF A, t
  <2>5. c \in M
    <3>1. x.src = s /\ x.dst = t /\ x.conf = k
      OBVIOUS
    <3> HIDE DEF x
    <3> QED BY <2>3, <3>1 DEF Materialised, M
  <2>6. c.src = s /\ c.dst = d /\ c.conf = k
    OBVIOUS
  <2>7. \A y \in M : y.src = s /\ y.dst = d => Higher(v, M, s, d) >= y.conf
    BY <1>1, <1>2, <2>4, HigherBounds
  <2> HIDE DEF c, d, k
  <2> QED BY <1>4, <2>4, <2>5, <2>6, <2>7
<1> QED BY <1>3, <1>5 DEF ResolvePending, w, M, A

-----------------------------------------------------------------------------
LEMMA InitDInv == ~Interrupts /\ Init => DInv
<1> SUFFICES ASSUME ~Interrupts, Init PROVE DInv
  OBVIOUS
<1>1. GInv /\ db = EmptyStore /\ view = EmptyStore
  BY InitGInv DEF Init
<1>2. /\ \A f \in Files : Kept(EmptyStore, f)
      /\ \A s \in Uids, n \in Names : ResolvedAt(EmptyStore, s, n)
  BY DEF Kept, ResolvedAt, EmptyStore
<1> QED BY <1>1, <1>2 DEF DInv, Good

LEMMA NextDInv == DInv /\ [Next]_vars => DInv'
<1> SUFFICES ASSUME DInv, [Next]_vars PROVE DInv'
  OBVIOUS
<1>0. /\ ~Interrupts /\ GInv /\ GInv' /\ Good(db) /\ Claimed(db) /\ Claimed(view) /\ HashedNow
      /\ changed \in Tree /\ phase \in Phases
      /\ \A f \in Files : OwedFile(f) \/ Kept(view, f)
      /\ \A s \in Uids, n \in Names : OwedRow(s, n) \/ ResolvedAt(view, s, n)
  BY NextGInv DEF DInv, GInv, LocalsTyped
<1>1. ASSUME phase \notin {"read", "pass2", "resolve"}
      PROVE  Good(view)
  BY <1>0, <1>1 DEF Good, OwedFile, OwedRow
<1>2. ASSUME Good(db'), Good(view')
      PROVE  DInv'
  BY <1>0, <1>2 DEF DInv, Good
<1>3. ASSUME UNCHANGED <<db, view, phase, affected>>,
             \A f \in Files : changed[f] # NoContent => changed'[f] # NoContent
      PROVE  DInv'
  <2>1. \A f \in Files : OwedFile(f) => OwedFile(f)'
    BY <1>3 DEF OwedFile
  <2>2. \A s \in Uids, n \in Names : OwedRow(s, n) => OwedRow(s, n)'
    BY <1>3, UidPair DEF OwedRow
  <2> QED BY <1>0, <1>3, <2>1, <2>2 DEF DInv
<1>4. ASSUME NEW f \in Files, Edit(f) \/ ReadError(f)
      PROVE  DInv'
  BY <1>3, <1>4 DEF Edit, ReadError, locals
<1>5. ASSUME NEW f \in Files, ReadFile(f)
      PROVE  DInv'
  <2>1. \A g \in Files : changed[g] # NoContent => changed'[g] # NoContent
    BY <1>0, <1>5 DEF ReadFile, Tree
  <2> QED BY <1>3, <1>5, <2>1 DEF ReadFile
<1>6. CASE Discover
  BY <1>0, <1>1, <1>2, <1>6 DEF Discover
<1>7. CASE DeleteGone
  <2>1. PICK gone \in SUBSET Files : view' = DeleteFiles(view, gone) /\ affected' = NamesOf(view, gone)
    BY <1>7 DEF DeleteGone, Dropped
  <2>2. phase = "delete" /\ phase' = "read" /\ db' = db /\ Good(view)
    BY <1>1, <1>7 DEF DeleteGone
  <2>3. /\ \A f \in Files : Kept(view', f)
        /\ \A s \in Uids, n \in Names : n \in affected' \/ ResolvedAt(view', s, n)
    BY <1>0, <2>1, <2>2, DeleteFilesGood DEF Good
  <2> QED BY <1>0, <2>2, <2>3 DEF DInv, OwedRow
<1>8. CASE Pass1
  <2> DEFINE new == UNION {changed[f].defs : f \in Changed}
  <2>1. /\ view' = UpsertNodes(DeleteFiles(view, Changed), changed)
        /\ affected' = affected \cup NamesOf(view, Changed) \cup new
        /\ phase = "read" /\ phase' = "pass2" /\ db' = db /\ changed' = changed
    BY <1>8 DEF Pass1, Reindexed
  <2>2. ASSUME NEW f \in Files
        PROVE  OwedFile(f)' \/ Kept(view', f)
    <3>1. Kept(view, f)
      BY <1>0, <2>1 DEF OwedFile
    <3> QED BY <1>0, <2>1, <3>1, ReindexGood DEF OwedFile, Changed
  <2>3. ASSUME NEW s \in Uids, NEW n \in Names
        PROVE  OwedRow(s, n)' \/ ResolvedAt(view', s, n)
    <3>1. CASE changed[s[1]] # NoContent \/ n \in affected'
      BY <2>1, <3>1 DEF OwedRow
    <3>2. CASE changed[s[1]] = NoContent /\ n \notin affected'
      <4>1. ResolvedAt(view, s, n)
        BY <1>0, <2>1, <3>2 DEF OwedRow
      <4>2. s[1] \notin Changed /\ n \notin NamesOf(view, Changed) \cup new
        BY <2>1, <3>2 DEF Changed
      <4> QED BY <1>0, <2>1, <4>1, <4>2, ReindexGood DEF Changed
    <3> QED BY <3>1, <3>2
  <2> QED BY <1>0, <2>1, <2>2, <2>3 DEF DInv
<1>9. CASE Pass2
  <2>1. view' = PassTwo(view, changed) /\ phase = "pass2" /\ phase' = "resolve" /\ db' = db
        /\ changed' = changed /\ affected' = affected
    BY <1>9 DEF Pass2, locals
  <2>2. Hashed(view, changed)
    BY <1>0, <2>1 DEF HashedNow
  <2>3. \A f \in Files : Kept(view', f)
    BY <1>0, <2>1, <2>2, PassTwoGood DEF OwedFile
  <2>4. \A s \in Uids, n \in Names : OwedRow(s, n)' \/ ResolvedAt(view', s, n)
    BY <1>0, <2>1, <2>2, PassTwoGood DEF OwedRow
  <2> QED BY <1>0, <2>1, <2>3, <2>4 DEF DInv
<1>10. CASE Resolve
  <2>1. view' = ResolvePending(view, changed, affected) /\ phase = "resolve" /\ db' = db
    BY <1>10 DEF Resolve
  <2>2. \A f \in Files : Kept(view', f)
    BY <1>0, <2>1, ResolvePendingGood DEF OwedFile
  <2>3. \A s \in Uids, n \in Names : ResolvedAt(view', s, n)
    BY <1>0, <2>1, ResolvePendingGood DEF OwedRow
  <2> QED BY <1>0, <1>2, <2>1, <2>2, <2>3 DEF Good
<1>11. CASE Commit \/ EmbedDone
  BY <1>1, <1>2, <1>11 DEF Commit, EmbedDone
<1>12. CASE Fail \/ Crash \/ Interrupt
  BY <1>0, <1>2, <1>12 DEF Fail, Crash, Interrupt
<1>13. ASSUME phase \in {"idle", "embed"}, db' = db, SameGraph(view, view')
       PROVE  DInv'
  BY <1>0, <1>1, <1>2, <1>13, GraphOnlyGood DEF Good
<1>14. ASSUME NEW full \in BOOLEAN, StartRefresh(full)
       PROVE  DInv'
  <2>1. SameGraph(view, view')
    BY <1>0, <1>14 DEF StartRefresh, SameGraph, Claimed, Sound, Store
  <2> QED BY <1>13, <1>14, <2>1 DEF StartRefresh
<1>15. ASSUME NEW B, NEW W, EmbedBatch(B, W)
       PROVE  DInv'
  <2>1. SameGraph(view, view')
    BY <1>0, <1>15 DEF EmbedBatch, SetEmbeddings, SameGraph, Claimed, Sound, Store
  <2> QED BY <1>13, <1>15, <2>1 DEF EmbedBatch
<1>16. CASE UNCHANGED vars
  BY <1>3, <1>16 DEF vars
<1> QED BY <1>4, <1>5, <1>6, <1>7, <1>8, <1>9, <1>10, <1>11, <1>12, <1>14, <1>15, <1>16 DEF Next

LEMMA SpecDInv == ~Interrupts /\ Spec => []DInv
BY InitDInv, NextDInv, PTL DEF Spec

(* The hash of a file is never durable ahead of its symbols, of its in-file *)
(* edges and of what it left to resolution by name, and a path without one  *)
(* has left nothing behind (indexer.py:85-88): for any repository, whatever *)
(* fails, crashes or is edited meanwhile, as long as nobody interrupts.     *)
THEOREM TokenIsNeverAhead == ~Interrupts /\ Spec => []TokenNeverAhead
<1>1. ASSUME DInv, NEW f \in Files PROVE TokenCovers(db, f)
  <2>1. db \in Store /\ db.nodes = NodesIn(db.sha) /\ RowsClaimed(db) /\ Kept(db, f)
    BY <1>1 DEF DInv, Good, GInv, Claimed, Whole, Sound
  <2>2. CASE db.sha[f] = NoContent
    <3>1. SymbolsOf(db, {f}) = {}
      BY <2>1, <2>2 DEF SymbolsOf, NodesIn
    <3>2. ASSUME NEW m \in Names
          PROVE  db.row[<<f, m>>] = [n \in Names |-> NoRow]
      <4>1. <<f, m>> \in Uids /\ <<f, m>>[1] = f
        BY DEF Uids
      <4>2. db.row[<<f, m>>] \in [Names -> Row]
        BY <2>1, <4>1 DEF Store
      <4>3. \A n \in Names : db.row[<<f, m>>][n] = NoRow
        BY <2>1, <2>2, <4>1 DEF RowsClaimed
      <4> QED BY <4>2, <4>3
    <3> QED BY <2>2, <3>1, <3>2 DEF TokenCovers
  <2>3. CASE db.sha[f] # NoContent
    <3>1. db.sha[f].defs \subseteq Names
      BY <2>1, <2>3, ContentsAssumption DEF Store
    <3>2. \A m \in Names : m \in NamesOf(db, {f}) <=> <<f, m>> \in db.nodes
      BY <2>1 DEF NamesOf, SymbolsOf, NodesIn, Uids
    <3>3. NamesOf(db, {f}) \subseteq Names
      BY <2>1 DEF NamesOf, SymbolsOf, NodesIn, Uids
    <3>4. \A m \in Names : <<f, m>> \in db.nodes <=> m \in db.sha[f].defs
      BY <2>1, <2>3 DEF NodesIn, Uids
    <3>5. NamesOf(db, {f}) = db.sha[f].defs
      BY <3>1, <3>2, <3>3, <3>4
    <3> QED BY <2>1, <2>3, <3>5 DEF TokenCovers, Kept
  <2> QED BY <2>2, <2>3
<1>2. DInv => TokenNeverAhead
  BY <1>1 DEF TokenNeverAhead
<1> QED BY <1>2, SpecDInv, PTL

(* Every durable pending row that can be resolved is (R3L-1: rows are       *)
(* looked at again only for a re-indexed file and for the names that came   *)
(* or went), for any repository and any history of runs without interrupts. *)
THEOREM PendingIsResolved == ~Interrupts /\ Spec => []PendingResolved
<1>1. ASSUME DInv PROVE PendingResolved
  <2>1. db.nodes \subseteq Uids
    BY <1>1 DEF DInv, GInv, Claimed, Sound, Store
  <2>2. \A s \in Uids, n \in Names : ResolvedAt(db, s, n)
    BY <1>1 DEF DInv, Good
  <2> QED BY <2>1, <2>2 DEF ResolvedAt, PendingResolved
<1> QED BY <1>1, SpecDInv, PTL

-----------------------------------------------------------------------------
(***************************************************************************)
(* A run that hashed everything it leaves hashed starts PASS 2 from an     *)
(* empty graph, and does to it what a first run does.  What an interrupt   *)
(* may have left, rows of a file that is gone, has no caller to do         *)
(* anything with.                                                          *)
(***************************************************************************)
LEMMA SameIndexUpsert ==
  ASSUME NEW v \in Store, NEW w \in Store, SameIndex(v, w), NEW claims
  PROVE  SameIndex(UpsertEdges(v, claims), UpsertEdges(w, claims))
<1>1. \A s, d : Higher(v, claims, s, d) = Higher(w, claims, s, d)
  BY DEF Higher, SameIndex
<1> QED BY <1>1 DEF SameIndex, UpsertEdges, Store

LEMMA SameIndexPassTwo ==
  ASSUME NEW v \in Store, NEW w \in Store, SameIndex(v, w), NEW ch \in Tree, v.sha = ch
  PROVE  SameIndex(PassTwo(v, ch), PassTwo(w, ch))
<1> DEFINE M == Materialised(v.nodes, AllDirect(ch))
           x == UpsertEdges(v, M)
           y == UpsertEdges(w, M)
           a == PersistPending(x, ch)
           b == PersistPending(y, ch)
<1>1. SameIndex(x, y)
  BY SameIndexUpsert
<1>2. M \in SUBSET Claim
  BY AllDirectType, MaterialisedFacts DEF Store
<1>3. x \in Store /\ y \in Store /\ x.sha = ch
  BY <1>2, UpsertEdgesType, UpsertEdgesKeeps
<1>4. PassTwo(v, ch) = a /\ PassTwo(w, ch) = b
  BY DEF PassTwo, SameIndex
<1> HIDE DEF x, y
<1>5. a \in Store /\ b \in Store
  BY <1>3, PartOfItself, PersistPendingFacts
<1>6. /\ a.sha = x.sha /\ a.nodes = x.nodes /\ a.edge = x.edge
      /\ b.sha = y.sha /\ b.nodes = y.nodes /\ b.edge = y.edge
      /\ \A s \in Uids, n \in Names : ch[s[1]] # NoContent =>
            /\ a.row[s][n] = PersistRow(x, ch[s[1]], s, n)
            /\ b.row[s][n] = PersistRow(y, ch[s[1]], s, n)
  BY <1>3, PersistPendingKeeps
<1> HIDE DEF a, b
<1>7. ASSUME NEW s \in Uids, ch[s[1]] # NoContent
      PROVE  a.row[s] = b.row[s]
  <2>1. x.row[s] = y.row[s] /\ x.nodes = y.nodes
    BY <1>1, <1>3, <1>7 DEF SameIndex
  <2>2. \A c, n : PersistRow(x, c, s, n) = PersistRow(y, c, s, n)
    BY <2>1 DEF PersistRow
  <2>3. \A n \in Names : a.row[s][n] = b.row[s][n]
    BY <1>6, <1>7, <2>2
  <2>4. a.row[s] \in [Names -> Row] /\ b.row[s] \in [Names -> Row]
    BY <1>5 DEF Store
  <2> QED BY <2>3, <2>4
<1>8. SameIndex(a, b)
  <2>1. a.sha = ch /\ a.sha = b.sha /\ a.nodes = b.nodes /\ a.edge = b.edge
    BY <1>1, <1>3, <1>6 DEF SameIndex
  <2> QED BY <1>7, <2>1 DEF SameIndex
<1> QED BY <1>4, <1>8

(* Every row of a caller is then a row of a re-indexed file, whatever names *)
(* are given.                                                               *)
LEMMA SomeOfTheClaims ==
  ASSUME NEW v \in Store, NEW w \in Store, SameIndex(v, w), Within(v), NEW N1, NEW N2
  PROVE  Materialised(v.nodes, PendingClaims(v, v.sha, N1))
            \subseteq Materialised(w.nodes, PendingClaims(w, v.sha, N2))
<1>1. ASSUME NEW k \in Candidates(v, v.sha, N1), k[1] \in v.nodes
      PROVE  /\ k \in Candidates(w, v.sha, N2)
             /\ RowTarget(w, k[1], k[2]) = RowTarget(v, k[1], k[2])
             /\ w.row[k[1]][k[2]] = v.row[k[1]][k[2]]
  <2>1. k \in Uids \X Names /\ v.row[k[1]][k[2]].conf > 0 /\ RowTarget(v, k[1], k[2]) # NoUid
    BY DEF Candidates
  <2>2. v.sha[k[1][1]] # NoContent
    BY <1>1 DEF Within, NodesIn
  <2>3. w.row[k[1]] = v.row[k[1]] /\ w.nodes = v.nodes
    BY <2>1, <2>2 DEF SameIndex
  <2>4. RowTarget(w, k[1], k[2]) = RowTarget(v, k[1], k[2])
    BY <2>3 DEF RowTarget
  <2> QED BY <2>1, <2>2, <2>3, <2>4 DEF Candidates
<1>2. ASSUME NEW c \in Materialised(v.nodes, PendingClaims(v, v.sha, N1))
      PROVE  c \in Materialised(w.nodes, PendingClaims(w, v.sha, N2))
  <2>1. PICK x \in PendingClaims(v, v.sha, N1) :
            /\ x.src \in v.nodes /\ Target(v.nodes, x.dst) # NoUid
            /\ c = [src |-> x.src, dst |-> Target(v.nodes, x.dst), conf |-> x.conf]
    BY DEF Materialised
  <2>2. PICK k \in Candidates(v, v.sha, N1) :
            x = [src |-> k[1], dst |-> RowTarget(v, k[1], k[2]), conf |-> v.row[k[1]][k[2]].conf]
    BY DEF PendingClaims
  <2>3. x \in PendingClaims(w, v.sha, N2)
    BY <1>1, <2>1, <2>2 DEF PendingClaims
  <2>4. w.nodes = v.nodes
    BY DEF SameIndex
  <2> QED BY <2>1, <2>3, <2>4 DEF Materialised
<1> QED BY <1>2

LEMMA SameIndexResolve ==
  ASSUME NEW v \in Store, NEW w \in Store, SameIndex(v, w), Within(v), NEW N1, NEW N2
  PROVE  SameIndex(ResolvePending(v, v.sha, N1), ResolvePending(w, v.sha, N2))
<1>1. w.sha = v.sha /\ SameIndex(w, v) /\ Within(w)
  BY DEF SameIndex, Within
<1>2. Materialised(v.nodes, PendingClaims(v, v.sha, N1)) = Materialised(w.nodes, PendingClaims(w, v.sha, N2))
  <2>1. Materialised(w.nodes, PendingClaims(w, w.sha, N2))
            \subseteq Materialised(v.nodes, PendingClaims(v, w.sha, N1))
    BY <1>1, SomeOfTheClaims
  <2>2. Materialised(v.nodes, PendingClaims(v, v.sha, N1))
            \subseteq Materialised(w.nodes, PendingClaims(w, v.sha, N2))
    BY SomeOfTheClaims
  <2> QED BY <1>1, <2>1, <2>2
<1> QED BY <1>2, SameIndexUpsert DEF ResolvePending

Fresh(ch) == UpsertNodes(EmptyStore, ch)

LEMMA ReindexFromNothing ==
  ASSUME NEW v, Backed(v), NEW ch \in Tree,
         UpsertNodes(DeleteFiles(v, {f \in Files : ch[f] # NoContent}), ch).sha = ch
  PROVE  LET w == UpsertNodes(DeleteFiles(v, {f \in Files : ch[f] # NoContent}), ch)
         IN  SameIndex(w, Fresh(ch)) /\ w.nodes \subseteq w.dirty
<1> DEFINE F == {f \in Files : ch[f] # NoContent}
           e == DeleteFiles(v, F)
           w == UpsertNodes(e, ch)
           u == UpsertNodes(EmptyStore, ch)
<1>1. Backed(e) /\ EmptyStore \in Store /\ v \in Store
  BY DeleteFilesBacked, EmptyStoreSound DEF Sound, Backed, Shaped
<1>2. e \in Store /\ e.nodes \subseteq NodesIn(e.sha) /\ Linked(e)
  BY <1>1 DEF Backed, Shaped, Within
<1>3. /\ \A f \in Files : f \in F => e.sha[f] = NoContent
      /\ \A s \in Uids : s[1] \in F => e.row[s] = [n \in Names |-> NoRow]
  BY <1>1, DeleteFilesKeeps
<1>4. w.sha = ch
  OBVIOUS
<1> HIDE DEF e
<1>5. /\ \A f \in Files : w.sha[f] = IF ch[f] # NoContent THEN ch[f] ELSE e.sha[f]
      /\ w.nodes = e.nodes \cup NodesIn(ch) /\ w.edge = e.edge /\ w.row = e.row
      /\ w.dirty = e.dirty \cup NodesIn(ch)
  BY <1>2, UpsertNodesKeeps
<1>6. u.sha = ch /\ u.nodes = NodesIn(ch) /\ u.edge = EmptyStore.edge /\ u.row = EmptyStore.row
  <2>1. EmptyStore.nodes = {} /\ \A f \in Files : EmptyStore.sha[f] = NoContent
    BY DEF EmptyStore
  <2>2. /\ \A f \in Files : u.sha[f] = IF ch[f] # NoContent THEN ch[f] ELSE EmptyStore.sha[f]
        /\ u.nodes = EmptyStore.nodes \cup NodesIn(ch)
        /\ u.edge = EmptyStore.edge /\ u.row = EmptyStore.row
    BY <1>1, UpsertNodesKeeps
  <2>3. u \in Store
    BY <1>1, UpsertSomeType DEF UpsertNodes
  <2> HIDE DEF u
  <2>4. \A f \in Files : u.sha[f] = ch[f]
    BY <2>1, <2>2
  <2>5. u.sha = ch
    BY <2>3, <2>4 DEF Store, Tree
  <2> QED BY <2>1, <2>2, <2>5
<1> HIDE DEF w, u
<1>7. \A f \in Files : e.sha[f] = NoContent
  BY <1>3, <1>4, <1>5
<1>8. e.nodes = {}
  BY <1>2, <1>7 DEF NodesIn, Uids
<1>9. e.edge = EmptyStore.edge
  <2>1. \A s, d \in Uids : e.edge[s][d] \in Conf /\ ~(e.edge[s][d] > 0)
    BY <1>2, <1>8 DEF Linked, Store
  <2>2. \A s, d \in Uids : e.edge[s][d] = 0
    BY <2>1 DEF Conf
  <2> QED BY <1>2, <2>2 DEF Store, EmptyStore
<1>10. \A s \in Uids : ch[s[1]] # NoContent => w.row[s] = u.row[s]
  BY <1>3, <1>5, <1>6, UidPair DEF EmptyStore
<1> QED BY <1>4, <1>5, <1>6, <1>8, <1>9, <1>10 DEF SameIndex, Fresh, w, u, e

Rebuilding ==
    view.sha = changed =>
        /\ phase \in {"pass2", "resolve", "commit"} => view.nodes \subseteq view.dirty
        /\ phase = "pass2"   => SameIndex(view, Fresh(changed))
        /\ phase = "resolve" => SameIndex(view, PassTwo(Fresh(changed), changed))
        /\ phase = "commit"  => SameIndex(view, FirstRun(changed))

LEMMA FreshTyped ==
  ASSUME NEW ch \in Tree
  PROVE  Fresh(ch) \in Store /\ PassTwo(Fresh(ch), ch) \in Store
<1>1. Sound(EmptyStore)
  BY EmptyStoreSound
<1>2. SymbolsOf(EmptyStore, {f \in Files : ch[f] # NoContent}) = {}
  BY DEF SymbolsOf, EmptyStore
<1>3. Sound(Fresh(ch))
  BY <1>1, <1>2, UpsertNodesSound DEF Fresh
<1> QED BY <1>3, PartOfItself, PassTwoSound DEF Sound

(* The marks only grow in PASS 2 and in the resolution. *)
LEMMA LaterWritesMark ==
  ASSUME NEW v \in Store, NEW ch \in Tree, NEW names
  PROVE  v.dirty \subseteq PassTwo(v, ch).dirty /\ v.dirty \subseteq ResolvePending(v, ch, names).dirty
<1> DEFINE e == UpsertEdges(v, Materialised(v.nodes, AllDirect(ch)))
<1>1. e \in Store /\ v.dirty \subseteq e.dirty
  <2>1. AllDirect(ch) \in SUBSET Claim /\ v.nodes \in SUBSET Uids
    BY AllDirectType DEF Store
  <2> QED BY <2>1, MaterialisedFacts, UpsertEdgesType, UpsertEdgesKeeps
<1> HIDE DEF e
<1>2. PersistPending(e, ch).dirty = e.dirty
  BY <1>1, PersistPendingKeeps
<1>3. v.dirty \subseteq ResolvePending(v, ch, names).dirty
  BY UpsertEdgesKeeps DEF ResolvePending
<1> QED BY <1>1, <1>2, <1>3 DEF PassTwo, e

LEMMA NextRebuilding == BInv /\ Rebuilding /\ [Next]_vars => Rebuilding'
<1> SUFFICES ASSUME BInv, Rebuilding, [Next]_vars PROVE Rebuilding'
  OBVIOUS
<1>0. Backed(view) /\ Within(view) /\ view \in Store /\ changed \in Tree
  BY DEF BInv, Backed, Shaped, LocalsTyped
<1>1. ASSUME phase' \notin {"pass2", "resolve", "commit"} \/ UNCHANGED <<view, phase, changed>>
      PROVE  Rebuilding'
  BY <1>1 DEF Rebuilding
<1>2. ASSUME NEW f \in Files, Edit(f) \/ ReadFile(f) \/ ReadError(f)
      PROVE  Rebuilding'
  BY <1>1, <1>2 DEF Edit, ReadFile, ReadError, locals
<1>3. CASE Discover \/ DeleteGone \/ Commit \/ EmbedDone \/ Fail \/ Crash \/ Interrupt
  BY <1>1, <1>3 DEF Discover, DeleteGone, Commit, EmbedDone, Fail, Crash, Interrupt
<1>4. CASE Pass1
  <2>1. view' = UpsertNodes(DeleteFiles(view, {f \in Files : changed[f] # NoContent}), changed)
        /\ changed' = changed /\ phase' = "pass2"
    BY <1>4 DEF Pass1, Reindexed, Changed
  <2>2. view'.sha = changed => SameIndex(view', Fresh(changed)) /\ view'.nodes \subseteq view'.dirty
    BY <1>0, <2>1, ReindexFromNothing
  <2> QED BY <2>1, <2>2 DEF Rebuilding
<1>5. CASE Pass2
  <2>1. view' = PassTwo(view, changed) /\ view'.sha = view.sha /\ view'.nodes = view.nodes
        /\ changed' = changed /\ phase = "pass2" /\ phase' = "resolve"
    BY <1>0, <1>5, LaterWritesKeep DEF Pass2, locals
  <2>2. view.sha = changed => SameIndex(view', PassTwo(Fresh(changed), changed))
    BY <1>0, <2>1, FreshTyped, SameIndexPassTwo DEF Rebuilding
  <2>3. view.sha = changed => view'.nodes \subseteq view'.dirty
    BY <1>0, <2>1, LaterWritesMark DEF Rebuilding
  <2> QED BY <2>1, <2>2, <2>3 DEF Rebuilding
<1>6. CASE Resolve
  <2> DEFINE names == UNION {changed[f].defs : f \in {g \in Files : changed[g] # NoContent}}
  <2>1. view' = ResolvePending(view, changed, affected) /\ view'.sha = view.sha /\ view'.nodes = view.nodes
        /\ changed' = changed /\ phase = "resolve" /\ phase' = "commit"
    BY <1>0, <1>6, LaterWritesKeep DEF Resolve, locals
  <2>2. ASSUME view.sha = changed
        PROVE  SameIndex(view', FirstRun(changed))
    <3>1. SameIndex(view, PassTwo(Fresh(changed), changed))
      BY <2>1, <2>2 DEF Rebuilding
    <3> HIDE DEF names
    <3>2. SameIndex(view', ResolvePending(PassTwo(Fresh(changed), changed), changed, names))
      BY <1>0, <2>1, <2>2, <3>1, FreshTyped, SameIndexResolve
    <3> QED BY <3>2 DEF FirstRun, Fresh, names
  <2>3. view.sha = changed => view'.nodes \subseteq view'.dirty
    BY <1>0, <2>1, LaterWritesMark DEF Rebuilding
  <2> QED BY <2>1, <2>2, <2>3 DEF Rebuilding
<1>7. ASSUME NEW full \in BOOLEAN, StartRefresh(full)
      PROVE  Rebuilding'
  BY <1>1, <1>7 DEF StartRefresh
<1>8. ASSUME NEW B, NEW W, EmbedBatch(B, W)
      PROVE  Rebuilding'
  BY <1>1, <1>8 DEF EmbedBatch
<1>9. CASE UNCHANGED vars
  BY <1>1, <1>9 DEF vars
<1> QED BY <1>2, <1>3, <1>4, <1>5, <1>6, <1>7, <1>8, <1>9 DEF Next

(* index(force=True), when it read every file, commits the graph of a first *)
(* run over the same files, with every node to be embedded again, whatever  *)
(* the store held and wherever the runs before it ended (indexer.py, index: *)
(* the recovery path).                                                      *)
THEOREM ForcedRunIsFirstRun == Spec => []ForcedRunRebuilds
<1>1. Init => Rebuilding
  BY DEF Init, Rebuilding
<1>2. Rebuilding => ForcedRunRebuilds
  BY DEF Rebuilding, ForcedRunRebuilds
<1> QED BY <1>1, <1>2, SpecBInv, NextRebuilding, PTL DEF Spec

-----------------------------------------------------------------------------
(***************************************************************************)
(* A precise cross-file edge survives the edits of its callee because the  *)
(* row of pending_edges it was written with outlives it.  So an edge as    *)
(* strong as a precise reference must come from that reference: it must    *)
(* not have been guessed by name, before the reference could be resolved.  *)
(* PreciseOutranks excludes that; it is true of every reference but a star *)
(* import's, which at 0.5 is below the coarse 0.6 (python_resolver.py:28-33,*)
(* adapters/code/__init__.py:256).                                         *)
(***************************************************************************)
PreciseOutranks ==
    \A c \in Contents : \A p \in c.precise, q \in c.coarse :
        p.src = q.src /\ p.dst[2] = q.name => p.conf > q.conf

CrossPrecise(c, s) == {p \in c.precise : p.src = s[2] /\ p.dst[1] # s[1]}

RowCarries(v, s, p) == v.row[s][p.dst[2]].conf >= p.conf /\ v.row[s][p.dst[2]].dst = p.dst

EdgeHasRow(v) ==
    \A s, d \in Uids :
        v.sha[s[1]] # NoContent /\ OneTargetPerName(v.sha[s[1]]) =>
            \A p \in CrossPrecise(v.sha[s[1]], s) :
                d \in {p.dst, InitUid(p.dst)} /\ v.edge[s][d] >= p.conf => RowCarries(v, s, p)

(* After PASS 2: what the re-indexed files refer to and is there has a row. *)
Written(v, ch) ==
    \A s \in Uids :
        s \in v.nodes /\ ch[s[1]] # NoContent /\ OneTargetPerName(ch[s[1]]) =>
            \A p \in CrossPrecise(ch[s[1]], s) :
                Target(v.nodes, p.dst) # NoUid => RowCarries(v, s, p)

(* Rows of the files a run leaves alone are the durable ones. *)
RowsCarriedOver ==
    \A s \in Uids :
        view.sha[s[1]] # NoContent /\ (phase = "read" \/ changed[s[1]] = NoContent)
            => view.row[s] = db.row[s]

SInv == /\ DInv
        /\ PreciseOutranks
        /\ EdgeHasRow(db)
        /\ EdgeHasRow(view)
        /\ phase \in {"idle", "delete", "embed"} => SameGraph(view, db)
        /\ phase \in {"read", "pass2", "resolve", "commit"} => RowsCarriedOver
        /\ phase \in {"resolve", "commit"} => Written(view, changed)

LEMMA ConfOrder == \A x, y, z \in Conf : x >= y /\ y >= z => x >= z
BY DEF Conf

LEMMA CrossPreciseTyped ==
  ASSUME NEW c \in Contents, NEW s \in Uids, NEW p \in CrossPrecise(c, s)
  PROVE  /\ p \in c.precise /\ p \in PreciseEdge /\ p.src = s[2] /\ p.dst[1] # s[1]
         /\ p.dst \in Uids /\ p.dst[2] \in Names /\ p.conf \in Conf /\ p.conf > 0
BY ContentsAssumption DEF CrossPrecise, PreciseEdge, Uids, Conf

LEMMA GraphOnlyEdgeHasRow ==
  ASSUME NEW v, NEW w, SameGraph(v, w), EdgeHasRow(v)
  PROVE  EdgeHasRow(w)
BY DEF SameGraph, EdgeHasRow, RowCarries

LEMMA DeleteFilesEdgeHasRow ==
  ASSUME NEW v, Claimed(v), EdgeHasRow(v), NEW F \in SUBSET Files
  PROVE  EdgeHasRow(DeleteFiles(v, F))
<1> DEFINE w == DeleteFiles(v, F)
<1>1. v \in Store
  BY DEF Claimed, Sound
<1>2. /\ \A f \in Files : w.sha[f] = IF f \in F THEN NoContent ELSE v.sha[f]
      /\ \A s \in Uids : w.row[s] = IF s[1] \in F THEN [n \in Names |-> NoRow] ELSE v.row[s]
      /\ \A s, d \in Uids : w.edge[s][d] =
            IF s \in SymbolsOf(v, F) \/ d \in SymbolsOf(v, F) THEN 0 ELSE v.edge[s][d]
  BY <1>1, DeleteFilesKeeps
<1> HIDE DEF w
<1>3. ASSUME NEW s \in Uids, NEW d \in Uids, w.sha[s[1]] # NoContent, OneTargetPerName(w.sha[s[1]]),
             NEW p \in CrossPrecise(w.sha[s[1]], s), d \in {p.dst, InitUid(p.dst)}, w.edge[s][d] >= p.conf
      PROVE  RowCarries(w, s, p)
  <2>1. s[1] \in Files /\ s[1] \notin F /\ w.sha[s[1]] = v.sha[s[1]] /\ w.row[s] = v.row[s]
    BY <1>2, <1>3, UidPair
  <2>2. v.sha[s[1]] \in Contents
    BY <1>1, <1>3, <2>1, HashedContent
  <2>3. p.conf \in Conf /\ p.conf > 0
    BY <1>3, <2>1, <2>2, CrossPreciseTyped
  <2>4. w.edge[s][d] = v.edge[s][d]
    BY <1>2, <1>3, <2>3 DEF Conf
  <2>5. RowCarries(v, s, p)
    BY <1>3, <2>1, <2>4 DEF EdgeHasRow
  <2> QED BY <2>1, <2>5 DEF RowCarries
<1> QED BY <1>3 DEF EdgeHasRow, w

LEMMA ReindexEdgeHasRow ==
  ASSUME NEW v, Claimed(v), EdgeHasRow(v), NEW ch \in Tree
  PROVE  EdgeHasRow(UpsertNodes(DeleteFiles(v, {f \in Files : ch[f] # NoContent}), ch))
<1> DEFINE F == {f \in Files : ch[f] # NoContent}
           e == DeleteFiles(v, F)
           w == UpsertNodes(e, ch)
<1>1. Claimed(e) /\ EdgeHasRow(e) /\ e \in Store /\ v \in Store
  BY DeleteFilesClaimed, DeleteFilesEdgeHasRow DEF Claimed, Sound
<1>2. e.nodes = {u \in v.nodes : u[1] \notin F}
  BY <1>1, DeleteFilesKeeps
<1> HIDE DEF e
<1>3. /\ \A f \in Files : w.sha[f] = IF ch[f] # NoContent THEN ch[f] ELSE e.sha[f]
      /\ w.edge = e.edge /\ w.row = e.row
  BY <1>1, UpsertNodesKeeps
<1> HIDE DEF w
<1>4. ASSUME NEW s \in Uids, NEW d \in Uids, w.sha[s[1]] # NoContent, OneTargetPerName(w.sha[s[1]]),
             NEW p \in CrossPrecise(w.sha[s[1]], s), d \in {p.dst, InitUid(p.dst)}, w.edge[s][d] >= p.conf
      PROVE  RowCarries(w, s, p)
  <2>0. s[1] \in Files
    BY UidPair
  <2>1. w.sha[s[1]] \in Contents
    BY <1>1, <1>3, <1>4, <2>0 DEF Store, Tree
  <2>2. p.conf \in Conf /\ p.conf > 0
    BY <1>4, <2>1, CrossPreciseTyped
  <2>3. e.edge[s][d] \in Conf /\ e.edge[s][d] > 0
    BY <1>1, <1>3, <1>4, <2>2 DEF Store, Conf
  <2>4. ch[s[1]] = NoContent
    BY <1>1, <1>2, <2>0, <2>3 DEF Claimed, Sound, Linked
  <2>5. w.sha[s[1]] = e.sha[s[1]]
    BY <1>3, <2>0, <2>4
  <2>6. RowCarries(e, s, p)
    BY <1>1, <1>3, <1>4, <2>5 DEF EdgeHasRow
  <2> QED BY <1>3, <2>6 DEF RowCarries
<1> QED BY <1>4 DEF EdgeHasRow, w, e

(* The row of one caller and name after PASS 2. *)
LEMMA PersistRowCarries ==
  ASSUME NEW v \in Store, NEW c \in Contents, OneTargetPerName(c), NEW s \in Uids,
         NEW p \in CrossPrecise(c, s),
         \/ v.row[s][p.dst[2]].conf >= p.conf /\ v.row[s][p.dst[2]].dst = p.dst
         \/ s \in v.nodes /\ Target(v.nodes, p.dst) # NoUid
  PROVE  PersistRow(v, c, s, p.dst[2]).conf >= p.conf /\ PersistRow(v, c, s, p.dst[2]).dst = p.dst
<1> DEFINE n == p.dst[2]
           o == v.row[s][n]
           P == Persisted(v.nodes, c, s, n)
           Q == CoarseFor(c, s, n)
           S == {o.conf} \cup {x.conf : x \in P} \cup {q.conf : q \in Q}
           r == PersistRow(v, c, s, n)
<1>1. /\ p \in c.precise /\ p.src = s[2] /\ p.dst[1] # s[1] /\ n \in Names /\ p.conf \in Conf
      /\ c.precise \subseteq PreciseEdge /\ c.coarse \subseteq CoarseEdge /\ s = <<s[1], s[2]>>
  BY CrossPreciseTyped, ContentsAssumption, UidPair
<1>2. P \subseteq c.precise /\ Q \subseteq CoarseEdge /\ o \in Row
  BY <1>1 DEF Persisted, CoarseFor, Store
<1>3. r.conf = Max(S) /\ r.dst = IF P = {} THEN o.dst ELSE LastOf(P).dst
  BY DEF PersistRow
<1>4. \A x \in P : x.src = s[2] /\ x.dst[2] = n
  BY <1>1 DEF Persisted
<1>5. \A x \in P : x.dst = p.dst
  BY <1>1, <1>2, <1>4 DEF OneTargetPerName
<1>6. P # {} => LastOf(P) \in P
  BY <1>1, <1>2, LastOfIn DEF PreciseEdge
<1>7. S \subseteq Conf /\ S # {}
  BY <1>1, <1>2 DEF Row, CoarseEdge, PreciseEdge
<1>8. Max(S) \in Conf /\ \A y \in S : Max(S) >= y
  <2> HIDE DEF S
  <2> QED BY <1>7, MaxConf
<1>9. CASE o.conf >= p.conf /\ o.dst = p.dst
  <2>1. r.dst = p.dst
    BY <1>3, <1>5, <1>6, <1>9
  <2>2. o.conf \in Conf /\ Max(S) >= o.conf
    BY <1>2, <1>8 DEF Row
  <2>3. Max(S) >= p.conf
    BY <1>1, <1>8, <1>9, <2>2, ConfOrder, Zenon
  <2> QED BY <1>3, <2>1, <2>3
<1>10. CASE s \in v.nodes /\ Target(v.nodes, p.dst) # NoUid
  <2>1. p \in P
    BY <1>1, <1>10 DEF Persisted
  <2>2. r.dst = p.dst
    BY <1>3, <1>5, <1>6, <2>1
  <2>3. p.conf \in S
    BY <2>1
  <2> QED BY <1>3, <1>8, <2>2, <2>3
<1> QED BY <1>9, <1>10

LEMMA PassTwoEdgeHasRow ==
  ASSUME NEW v, Claimed(v), EdgeHasRow(v), NEW ch \in Tree, Hashed(v, ch)
  PROVE  /\ EdgeHasRow(PassTwo(v, ch))
         /\ Written(PassTwo(v, ch), ch)
         /\ \A s \in Uids : ch[s[1]] = NoContent => PassTwo(v, ch).row[s] = v.row[s]
<1> DEFINE A == AllDirect(ch)
           M == Materialised(v.nodes, A)
           u == UpsertEdges(v, M)
           w == PersistPending(u, ch)
<1>1. v \in Store /\ v.nodes \in SUBSET Uids /\ Whole(v) /\ NoUid \notin v.nodes
  BY NoUidAssumption DEF Claimed, Sound, Store
<1>2. M \in SUBSET Claim
  BY <1>1, AllDirectType, MaterialisedFacts
<1>3. /\ u \in Store /\ u.sha = v.sha /\ u.nodes = v.nodes /\ u.row = v.row
      /\ \A s, d \in Uids : u.edge[s][d] = Higher(v, M, s, d)
  <2> HIDE DEF M
  <2> QED BY <1>1, <1>2, UpsertEdgesKeeps, UpsertEdgesType
<1> HIDE DEF u
<1>4. /\ w.sha = v.sha /\ w.nodes = v.nodes /\ w.edge = u.edge
      /\ \A s \in Uids, n \in Names :
            w.row[s][n] = IF ch[s[1]] = NoContent THEN v.row[s][n] ELSE PersistRow(u, ch[s[1]], s, n)
      /\ w \in Store
  BY <1>3, PartOfItself, PersistPendingKeeps, PersistPendingFacts
<1> HIDE DEF w
<1>5. ASSUME NEW s \in Uids, ch[s[1]] = NoContent
      PROVE  w.row[s] = v.row[s]
  <2>1. \A n \in Names : w.row[s][n] = v.row[s][n]
    BY <1>4, <1>5
  <2>2. w.row[s] \in [Names -> Row] /\ v.row[s] \in [Names -> Row]
    BY <1>1, <1>4 DEF Store
  <2> QED BY <2>1, <2>2
<1>6. ASSUME NEW s \in Uids, ch[s[1]] # NoContent
      PROVE  ch[s[1]] \in Contents /\ v.sha[s[1]] = ch[s[1]]
  BY <1>6, UidPair DEF Tree, Hashed
<1>7. ASSUME NEW s \in Uids, ch[s[1]] # NoContent, OneTargetPerName(ch[s[1]]),
             NEW p \in CrossPrecise(ch[s[1]], s),
             RowCarries(v, s, p) \/ (s \in v.nodes /\ Target(v.nodes, p.dst) # NoUid)
      PROVE  RowCarries(w, s, p)
  <2>1. ch[s[1]] \in Contents /\ p.dst[2] \in Names
    BY <1>6, <1>7, CrossPreciseTyped
  <2>2. w.row[s][p.dst[2]] = PersistRow(u, ch[s[1]], s, p.dst[2])
    BY <1>4, <1>7, <2>1
  <2>3. \/ u.row[s][p.dst[2]].conf >= p.conf /\ u.row[s][p.dst[2]].dst = p.dst
        \/ s \in u.nodes /\ Target(u.nodes, p.dst) # NoUid
    BY <1>3, <1>7 DEF RowCarries
  <2> QED BY <1>3, <1>7, <2>1, <2>2, <2>3, PersistRowCarries DEF RowCarries
<1>8. Written(w, ch)
  BY <1>4, <1>7 DEF Written
<1>9. ASSUME NEW c \in M
      PROVE  ch[c.src[1]] # NoContent /\ c.src \in v.nodes /\ c.dst \in v.nodes
  <2>1. PICK x \in A : c.src = x.src /\ c.src \in v.nodes
    BY DEF Materialised
  <2>2. PICK f \in Files : ch[f] # NoContent /\ x \in DirectEdges(f, ch[f])
    BY DEF AllDirect
  <2>3. x.src[1] = f
    BY <2>2 DEF DirectEdges
  <2> QED BY <1>1, <2>1, <2>2, <2>3, AllDirectType, MaterialisedFacts
<1>10. ASSUME NEW s \in Uids, NEW d \in Uids, w.sha[s[1]] # NoContent, OneTargetPerName(w.sha[s[1]]),
              NEW p \in CrossPrecise(w.sha[s[1]], s), d \in {p.dst, InitUid(p.dst)}, w.edge[s][d] >= p.conf
       PROVE  RowCarries(w, s, p)
  <2>1. w.edge[s][d] = Higher(v, M, s, d)
    BY <1>3, <1>4
  <2>2. w.edge[s][d] = v.edge[s][d] \/ \E c \in M : c.src = s /\ c.dst = d
    <3> HIDE DEF M
    <3> QED BY <1>1, <1>2, <2>1, HigherBounds
  <2>3. CASE w.edge[s][d] = v.edge[s][d]
    <3>1. RowCarries(v, s, p)
      BY <1>4, <1>10, <2>3 DEF EdgeHasRow
    <3>2. CASE ch[s[1]] = NoContent
      BY <1>5, <3>1, <3>2 DEF RowCarries
    <3>3. CASE ch[s[1]] # NoContent
      BY <1>4, <1>6, <1>7, <1>10, <3>1, <3>3
    <3> QED BY <3>2, <3>3
  <2>4. CASE \E c \in M : c.src = s /\ c.dst = d
    <3>1. ch[s[1]] # NoContent /\ s \in v.nodes /\ d \in v.nodes
      BY <1>9, <2>4
    <3>2. Target(v.nodes, p.dst) # NoUid
      BY <1>1, <1>10, <3>1 DEF Target
    <3> QED BY <1>4, <1>6, <1>7, <1>10, <3>1, <3>2
  <2> QED BY <2>2, <2>3, <2>4
<1>11. EdgeHasRow(w)
  BY <1>10 DEF EdgeHasRow
<1> QED BY <1>5, <1>8, <1>11 DEF PassTwo, w, u, M, A

LEMMA ResolveEdgeHasRow ==
  ASSUME NEW v, Claimed(v), EdgeHasRow(v), PreciseOutranks, NEW ch, NEW names
  PROVE  EdgeHasRow(ResolvePending(v, ch, names)) /\ ResolvePending(v, ch, names).row = v.row
<1> DEFINE A == PendingClaims(v, ch, names)
           M == Materialised(v.nodes, A)
           w == UpsertEdges(v, M)
<1>1. v \in Store /\ v.nodes \in SUBSET Uids
  BY DEF Claimed, Sound, Store
<1>2. M \in SUBSET Claim
  BY <1>1, PendingClaimsType, MaterialisedFacts
<1>3. ASSUME NEW c \in M
      PROVE  \E n \in Names : LET t == RowTarget(v, c.src, n) IN
                /\ t # NoUid /\ c.dst = Target(v.nodes, t) /\ c.dst # NoUid
                /\ c.conf = v.row[c.src][n].conf
  <2>1. PICK x \in A : Target(v.nodes, x.dst) # NoUid /\ c.src = x.src
                       /\ c.dst = Target(v.nodes, x.dst) /\ c.conf = x.conf
    BY DEF Materialised
  <2>2. PICK k \in Candidates(v, ch, names) :
            x = [src |-> k[1], dst |-> RowTarget(v, k[1], k[2]), conf |-> v.row[k[1]][k[2]].conf]
    BY DEF PendingClaims
  <2>3. k[2] \in Names /\ RowTarget(v, k[1], k[2]) # NoUid
    BY DEF Candidates
  <2> QED BY <2>1, <2>2, <2>3
<1> HIDE DEF M
<1>4. /\ w.sha = v.sha /\ w.nodes = v.nodes /\ w.row = v.row
      /\ \A s, d \in Uids : w.edge[s][d] = Higher(v, M, s, d)
  BY <1>1, <1>2, UpsertEdgesKeeps
<1> HIDE DEF w
<1>5. ASSUME NEW s \in Uids, NEW d \in Uids, v.sha[s[1]] # NoContent, OneTargetPerName(v.sha[s[1]]),
             NEW p \in CrossPrecise(v.sha[s[1]], s), d \in {p.dst, InitUid(p.dst)}, w.edge[s][d] >= p.conf
      PROVE  RowCarries(v, s, p)
  <2> DEFINE c == v.sha[s[1]]
  <2>1. c \in Contents
    BY <1>1, <1>5, HashedContent
  <2>2. /\ p \in c.precise /\ p.src = s[2] /\ p.dst \in Uids /\ p.conf \in Conf /\ p.conf > 0
        /\ c.precise \subseteq PreciseEdge /\ c.coarse \subseteq CoarseEdge
    BY <1>5, <2>1, CrossPreciseTyped, ContentsAssumption
  <2>3. CASE w.edge[s][d] = v.edge[s][d]
    BY <1>5, <2>3 DEF EdgeHasRow
  <2>4. CASE \E x \in M : x.src = s /\ x.dst = d /\ x.conf = w.edge[s][d]
    <3>1. PICK x \in M : x.src = s /\ x.dst = d /\ x.conf = w.edge[s][d]
      BY <2>4
    <3>2. PICK n \in Names : /\ RowTarget(v, s, n) # NoUid /\ d = Target(v.nodes, RowTarget(v, s, n))
                             /\ d # NoUid /\ w.edge[s][d] = v.row[s][n].conf
      BY <1>3, <3>1
    <3> DEFINE r == v.row[s][n]
               t == RowTarget(v, s, n)
    <3>3. r.conf \in Conf /\ r.conf >= p.conf /\ r.conf > 0
      <4>1. r.conf \in Conf
        BY <1>1 DEF Store, Row
      <4>2. r.conf >= p.conf
        BY <1>5, <3>2
      <4> HIDE DEF r
      <4> QED BY <2>2, <4>1, <4>2 DEF Conf
    <3>4. RowClaim(c, s, n, r) /\ (r.dst # NoUid => r.dst[2] = n)
      BY <1>5, <3>3 DEF Claimed, RowsClaimed
    <3>5. t[2] = n
      BY <1>1, <3>4, SameNamed, <3>2
    <3>6. d[2] = n /\ d[2] = p.dst[2]
      <4>1. d[2] \in {t[2], InitUid(t)[2]} /\ InitUid(t)[2] = t[2]
        BY <3>2, TargetForm
      <4>2. InitUid(p.dst)[2] = p.dst[2]
        BY DEF InitUid
      <4> QED BY <1>5, <3>5, <4>1, <4>2
    <3>7. ASSUME NEW q \in CoarseFor(c, s, n)
          PROVE  p.conf > q.conf /\ q.conf \in Conf
      <4>1. q \in c.coarse /\ q.src = p.src /\ q.name = p.dst[2]
        BY <2>2, <3>6 DEF CoarseFor
      <4> QED BY <2>1, <2>2, <4>1 DEF PreciseOutranks, CoarseEdge
    <3>8. PICK y \in c.precise : y.src = s[2] /\ y.dst = r.dst
      <4> HIDE DEF r
      <4>1. ASSUME NEW q \in CoarseFor(c, s, n), q.conf >= r.conf
            PROVE  FALSE
        <5>1. q.conf >= p.conf
          BY <2>2, <3>3, <3>7, <4>1, ConfOrder
        <5>2. p.conf > q.conf /\ q.conf \in Conf /\ p.conf \in Conf
          BY <2>2, <3>7
        <5> QED BY <5>1, <5>2 DEF Conf
      <4> QED BY <3>4, <4>1 DEF RowClaim
    <3>9. r.dst # NoUid
      BY <2>2, <3>8, NoUidAssumption DEF PreciseEdge
    <3>10. r.dst = p.dst
      BY <1>5, <2>2, <3>4, <3>6, <3>8, <3>9 DEF OneTargetPerName
    <3> QED BY <3>3, <3>6, <3>10 DEF RowCarries
  <2> QED BY <1>1, <1>2, <1>4, <2>3, <2>4, HigherBounds
<1>6. EdgeHasRow(w)
  BY <1>4, <1>5 DEF EdgeHasRow, RowCarries
<1> QED BY <1>4, <1>6 DEF ResolvePending, w, M, A

-----------------------------------------------------------------------------
LEMMA InitSInv == PreciseOutranks /\ ~Interrupts /\ Init => SInv
<1> SUFFICES ASSUME PreciseOutranks, ~Interrupts, Init PROVE SInv
  OBVIOUS
<1>1. DInv /\ db = EmptyStore /\ view = EmptyStore /\ phase = "idle"
  BY InitDInv DEF Init
<1>2. EdgeHasRow(EmptyStore)
  BY DEF EdgeHasRow, EmptyStore, Uids
<1> QED BY <1>1, <1>2 DEF SInv, SameGraph

LEMMA NextSInv == SInv /\ [Next]_vars => SInv'
<1> SUFFICES ASSUME SInv, [Next]_vars PROVE SInv'
  OBVIOUS
<1>0. /\ DInv' /\ PreciseOutranks /\ ~Interrupts /\ EdgeHasRow(db) /\ EdgeHasRow(view)
      /\ Claimed(view) /\ Claimed(db) /\ view \in Store /\ db \in Store
      /\ HashedNow /\ changed \in Tree /\ phase \in Phases
      /\ phase \in {"idle", "delete", "embed"} => SameGraph(view, db)
      /\ phase \in {"read", "pass2", "resolve", "commit"} => RowsCarriedOver
      /\ phase \in {"resolve", "commit"} => Written(view, changed)
  BY NextDInv DEF SInv, DInv, GInv, Claimed, Sound, LocalsTyped
<1>1. ASSUME EdgeHasRow(db'), EdgeHasRow(view'), SameGraph(view', db'), phase' \in {"idle", "delete", "embed"}
      PROVE  SInv'
  BY <1>0, <1>1 DEF SInv, PreciseOutranks
<1>2. ASSUME UNCHANGED <<db, view, phase>>, UNCHANGED changed \/ phase = "read"
      PROVE  SInv'
  BY <1>0, <1>2 DEF SInv, PreciseOutranks, RowsCarriedOver
<1>3. ASSUME NEW f \in Files, Edit(f) \/ ReadFile(f) \/ ReadError(f)
      PROVE  SInv'
  BY <1>2, <1>3 DEF Edit, ReadFile, ReadError, locals
<1>4. CASE Discover
  BY <1>0, <1>1, <1>4 DEF Discover
<1>5. CASE DeleteGone
  <2>1. PICK gone \in SUBSET Files : view' = DeleteFiles(view, gone)
    BY <1>5 DEF DeleteGone
  <2>2. phase = "delete" /\ phase' = "read" /\ db' = db /\ SameGraph(view, db)
    BY <1>0, <1>5 DEF DeleteGone
  <2>3. EdgeHasRow(view')
    BY <1>0, <2>1, DeleteFilesEdgeHasRow
  <2>4. ASSUME NEW s \in Uids, view'.sha[s[1]] # NoContent
        PROVE  view'.row[s] = db.row[s]
    <3>1. s[1] \in Files
      BY UidPair
    <3>2. s[1] \notin gone
      BY <1>0, <2>1, <2>4, <3>1, DeleteFilesKeeps
    <3> QED BY <1>0, <2>1, <2>2, <3>2, DeleteFilesKeeps DEF SameGraph
  <2> QED BY <1>0, <2>2, <2>3, <2>4 DEF SInv, PreciseOutranks, RowsCarriedOver
<1>6. CASE Pass1
  <2> DEFINE F == {f \in Files : changed[f] # NoContent}
             e == DeleteFiles(view, F)
  <2>1. /\ view' = UpsertNodes(e, changed) /\ db' = db
        /\ phase = "read" /\ phase' = "pass2" /\ changed' = changed
    BY <1>6 DEF Pass1, Reindexed, Changed
  <2>2. EdgeHasRow(view')
    BY <1>0, <2>1, ReindexEdgeHasRow
  <2>3. e \in Store
    BY <1>0, DeleteFilesType
  <2>4. ASSUME NEW s \in Uids, view'.sha[s[1]] # NoContent, changed[s[1]] = NoContent
        PROVE  view'.row[s] = db.row[s]
    <3>1. s[1] \in Files /\ s[1] \notin F
      BY <2>4, UidPair
    <3>2. view'.sha[s[1]] = view.sha[s[1]]
      BY <1>0, <2>1, <2>4, <3>1, ReindexWhole DEF Claimed
    <3>3. e.row[s] = view.row[s]
      BY <1>0, <3>1, DeleteFilesKeeps
    <3>4. view'.row = e.row
      <4> HIDE DEF e
      <4> QED BY <2>1, <2>3, UpsertNodesKeeps
    <3> QED BY <1>0, <2>1, <2>4, <3>2, <3>3, <3>4 DEF RowsCarriedOver
  <2> QED BY <1>0, <2>1, <2>2, <2>4 DEF SInv, PreciseOutranks, RowsCarriedOver
<1>7. CASE Pass2
  <2>1. /\ view' = PassTwo(view, changed) /\ view'.sha = view.sha /\ db' = db
        /\ phase = "pass2" /\ phase' = "resolve" /\ changed' = changed
    BY <1>0, <1>7, LaterWritesKeep DEF Pass2, locals
  <2>2. Hashed(view, changed)
    BY <1>0, <2>1 DEF HashedNow
  <2>3. /\ EdgeHasRow(view') /\ Written(view', changed)
        /\ \A s \in Uids : changed[s[1]] = NoContent => view'.row[s] = view.row[s]
    BY <1>0, <2>1, <2>2, PassTwoEdgeHasRow
  <2>4. RowsCarriedOver'
    BY <1>0, <2>1, <2>3 DEF RowsCarriedOver
  <2> QED BY <1>0, <2>1, <2>3, <2>4 DEF SInv, PreciseOutranks
<1>8. CASE Resolve
  <2>1. /\ view' = ResolvePending(view, changed, affected) /\ db' = db
        /\ view'.sha = view.sha /\ view'.nodes = view.nodes
        /\ phase = "resolve" /\ phase' = "commit" /\ changed' = changed
    BY <1>0, <1>8, LaterWritesKeep DEF Resolve, locals
  <2>2. EdgeHasRow(view') /\ view'.row = view.row
    BY <1>0, <2>1, ResolveEdgeHasRow
  <2>3. RowsCarriedOver' /\ Written(view', changed')
    BY <1>0, <2>1, <2>2 DEF RowsCarriedOver, Written, RowCarries
  <2> QED BY <1>0, <2>1, <2>2, <2>3 DEF SInv, PreciseOutranks
<1>9. CASE Commit \/ EmbedDone
  BY <1>0, <1>1, <1>9 DEF Commit, EmbedDone, SameGraph
<1>10. CASE Fail \/ Crash \/ Interrupt
  BY <1>0, <1>1, <1>10 DEF Fail, Crash, Interrupt, SameGraph
<1>11. ASSUME phase \in {"idle", "embed"}, phase' = "embed", db' = db, SameGraph(view, view')
       PROVE  SInv'
  BY <1>0, <1>1, <1>11, GraphOnlyEdgeHasRow DEF SameGraph
<1>12. ASSUME NEW full \in BOOLEAN, StartRefresh(full)
       PROVE  SInv'
  <2>1. SameGraph(view, view')
    BY <1>0, <1>12 DEF StartRefresh, SameGraph, Store
  <2> QED BY <1>11, <1>12, <2>1 DEF StartRefresh
<1>13. ASSUME NEW B, NEW W, EmbedBatch(B, W)
       PROVE  SInv'
  <2>1. SameGraph(view, view')
    BY <1>0, <1>13 DEF EmbedBatch, SetEmbeddings, SameGraph, Store
  <2> QED BY <1>11, <1>13, <2>1 DEF EmbedBatch
<1>14. CASE UNCHANGED vars
  BY <1>2, <1>14 DEF vars
<1> QED BY <1>3, <1>4, <1>5, <1>6, <1>7, <1>8, <1>9, <1>10, <1>12, <1>13, <1>14 DEF Next

LEMMA SpecSInv == PreciseOutranks /\ ~Interrupts /\ Spec => []SInv
BY InitSInv, NextSInv, PTL DEF Spec

(* The durable graph changes with a commit only, and what a commit brings   *)
(* keeps the edges of the references whose text it keeps.                   *)
LEMMA CommitKeepsEdges ==
  ASSUME SInv, phase = "commit",
         NEW s \in db.nodes, view.sha[s[1]] = db.sha[s[1]], OneTargetPerName(db.sha[s[1]]),
         NEW p \in PreciseOf(s),
         Target(db.nodes, p.dst) # NoUid, Target(view.nodes, p.dst) # NoUid,
         db.edge[s][Target(db.nodes, p.dst)] >= p.conf
  PROVE  view.edge[s][Target(view.nodes, p.dst)] >= p.conf
<1> DEFINE c == db.sha[s[1]]
           n == p.dst[2]
           is == Target(view.nodes, p.dst)
           was == Target(db.nodes, p.dst)
<1>0. /\ Claimed(db) /\ Claimed(view) /\ db \in Store /\ view \in Store /\ changed \in Tree
      /\ EdgeHasRow(db) /\ RowsCarriedOver /\ Written(view, changed) /\ Hashed(view, changed)
      /\ \A x \in Uids, m \in Names : ResolvedAt(view, x, m)
  BY DEF SInv, DInv, GInv, Claimed, Sound, LocalsTyped, HashedNow, OwedRow
<1>1. s \in Uids /\ s[1] \in Files /\ db.nodes = NodesIn(db.sha) /\ view.nodes = NodesIn(view.sha)
  BY <1>0, UidPair DEF Store, Claimed, Whole
<1>2. c # NoContent /\ s \in view.nodes
  BY <1>1 DEF NodesIn
<1>3. c \in Contents /\ p \in CrossPrecise(c, s)
  BY <1>0, <1>1, <1>2, HashedContent DEF PreciseOf, CrossPrecise
<1>4. p.dst \in Uids /\ n \in Names /\ p.conf \in Conf /\ p.conf > 0
  BY <1>1, <1>3, CrossPreciseTyped
<1>5. was \in {p.dst, InitUid(p.dst)} /\ was \in Uids /\ is \in Uids
  BY <1>0, TargetForm, TargetExists DEF Store
<1>6. RowCarries(db, s, p)
  BY <1>0, <1>1, <1>2, <1>3, <1>5 DEF EdgeHasRow
<1>7. RowCarries(view, s, p)
  <2>1. CASE changed[s[1]] = NoContent
    BY <1>0, <1>1, <1>2, <1>6, <2>1 DEF RowsCarriedOver, RowCarries
  <2>2. CASE changed[s[1]] # NoContent
    <3>1. changed[s[1]] = c
      BY <1>0, <1>1, <2>2 DEF Hashed
    <3> QED BY <1>0, <1>1, <1>2, <1>3, <2>2, <3>1 DEF Written
  <2> QED BY <2>1, <2>2
<1>8. RowTarget(view, s, n) = p.dst
  BY <1>4, <1>7, NoUidAssumption DEF RowTarget, RowCarries
<1>9. view.row[s][n].conf \in Conf /\ view.edge[s][is] \in Conf
  BY <1>0, <1>1, <1>4, <1>5 DEF Store, Row
<1>10. view.row[s][n].conf >= p.conf /\ view.row[s][n].conf > 0
  <2> DEFINE k == view.row[s][n].conf
  <2>1. k >= p.conf /\ k \in Conf
    BY <1>7, <1>9 DEF RowCarries
  <2> HIDE DEF k
  <2>2. k > 0
    BY <1>4, <2>1 DEF Conf
  <2> QED BY <2>1, <2>2 DEF k
<1>11. view.edge[s][is] >= view.row[s][n].conf
  <2>1. p.dst # NoUid
    BY <1>4, NoUidAssumption
  <2> QED BY <1>0, <1>1, <1>2, <1>4, <1>8, <1>10, <2>1 DEF ResolvedAt
<1> QED BY <1>4, <1>9, <1>10, <1>11, ConfOrder

(* A precise cross-file edge survives whatever happens to its callee's      *)
(* file, as long as the callee is defined and the caller's text is the same *)
(* (MR-3, indexer.py:140-145), for callers whose precise targets have       *)
(* different names.                                                         *)
THEOREM PreciseEdgesSurvive ==
  PreciseOutranks /\ ~Interrupts /\ Spec => UnambiguousEdgeSurvives
<1> DEFINE Survives ==
      \A s \in db.nodes :
          db'.sha[s[1]] = db.sha[s[1]] /\ OneTargetPerName(db.sha[s[1]])
              => \A p \in PreciseOf(s) : KeepsEdge(s, p)
<1>1. ASSUME SInv, [Next]_vars, db' # db
      PROVE  Survives
  <2>1. /\ phase = "commit" \/ phase = "embed"
        /\ db' = view
    BY <1>1 DEF Next, vars, Edit, Discover, DeleteGone, ReadFile, ReadError, Pass1, Pass2, Resolve,
       Commit, Fail, Crash, Interrupt, StartRefresh, EmbedBatch, EmbedDone
  <2>2. CASE phase = "commit"
    BY <1>1, <2>1, <2>2, CommitKeepsEdges DEF KeepsEdge
  <2>3. CASE phase = "embed"
    <3>1. SameGraph(db', db)
      BY <1>1, <2>1, <2>3 DEF SInv
    <3> QED BY <3>1 DEF SameGraph, KeepsEdge
  <2> QED BY <2>1, <2>2, <2>3
<1>2. SInv /\ [Next]_vars => [Survives]_db
  BY <1>1
<1> QED BY <1>2, SpecSInv, PTL DEF Spec, UnambiguousEdgeSurvives

-----------------------------------------------------------------------------
(***************************************************************************)
(* III. Indexer implements IndexSpec, in a process that no                 *)
(* KeyboardInterrupt hits.  Two facts carry the proof: the symbols of      *)
(* either copy of the store are those of its hashes at every step (Whole), *)
(* and what the transaction holds of a file that the run has still to read *)
(* is what was last committed (InStep).                                    *)
(***************************************************************************)

InStep ==
    /\ phase \in {"idle", "embed"} => view.sha = db.sha /\ changed = Nothing
    /\ phase \in InTry => existing = db.sha
    /\ phase = "delete" => view.sha = db.sha /\ changed = Nothing
    /\ phase = "read" => \A f \in toRead : view.sha[f] = db.sha[f] /\ changed[f] = NoContent
    /\ phase \in {"pass2", "resolve", "commit"} =>
          /\ toRead = {}
          /\ \A f \in Files : changed[f] # NoContent => view.sha[f] = changed[f]

RInv == ~Interrupts /\ Whole(db) /\ Whole(view) /\ InStep

-----------------------------------------------------------------------------
(* The abstract reading of a tree agrees with the indexer's. *)
LEMMA SymbolsInTree ==
  ASSUME NEW t \in Tree
  PROVE  Abstract!SymbolsIn(t) = NodesIn(t)
<1>1. \A f \in Files : t[f] # NoContent => t[f].defs \subseteq Names
  BY ContentsAssumption DEF Tree
<1>2. ASSUME NEW u, u \in Abstract!SymbolsIn(t)
      PROVE  u \in NodesIn(t)
  <2>1. PICK f \in Files : t[f] # NoContent /\ u \in {<<f, n>> : n \in t[f].defs}
    BY <1>2 DEF Abstract!SymbolsIn
  <2>2. PICK n \in t[f].defs : u = <<f, n>>
    BY <2>1
  <2> QED BY <1>1, <2>1, <2>2 DEF NodesIn, Uids
<1>3. ASSUME NEW u, u \in NodesIn(t)
      PROVE  u \in Abstract!SymbolsIn(t)
  <2>1. PICK f \in Files, n \in Names : u = <<f, n>>
    BY <1>3 DEF NodesIn, Uids
  <2>2. t[f] # NoContent /\ n \in t[f].defs
    BY <1>3, <2>1 DEF NodesIn
  <2>3. u \in {<<f, m>> : m \in t[f].defs}
    BY <2>1, <2>2
  <2> QED BY <2>2, <2>3 DEF Abstract!SymbolsIn
<1> QED BY <1>2, <1>3

-----------------------------------------------------------------------------
LEMMA InitRInv == ~Interrupts /\ Init => RInv
<1> SUFFICES ASSUME ~Interrupts, Init PROVE RInv
  OBVIOUS
<1>1. EmptyStore.sha = Nothing /\ EmptyStore.nodes = {}
  BY DEF EmptyStore, Nothing
<1>2. NodesIn(Nothing) = {}
  BY DEF NodesIn, Nothing, Uids
<1> QED BY <1>1, <1>2 DEF Init, RInv, Whole, InStep, InTry

LEMMA NextRInv ==
  ASSUME IInv, RInv, Next
  PROVE  RInv'
<1>0. /\ db \in Store /\ view \in Store /\ existing \in Tree /\ changed \in Tree
      /\ toRead \in SUBSET Files /\ phase \in Phases
  BY DEF IInv, Shaped, LocalsTyped
<1>00. db.sha \in Tree /\ view.sha \in Tree
  BY <1>0 DEF Store, Tree
<1>1. CASE \E f \in Files : Edit(f)
  BY <1>1 DEF Edit, RInv, InStep, locals
<1>2. ASSUME NEW f \in Files, ReadFile(f)
      PROVE  RInv'
  <2>1. \A g \in toRead' : changed'[g] = NoContent /\ g \in toRead
    BY <1>0, <1>2 DEF ReadFile, RInv, InStep, Tree
  <2> QED BY <1>2, <2>1 DEF ReadFile, RInv, InStep, InTry
<1>3. ASSUME NEW f \in Files, ReadError(f)
      PROVE  RInv'
  BY <1>3 DEF ReadError, RInv, InStep, InTry
<1>4. CASE Discover
  BY <1>4 DEF Discover, RInv, InStep, InTry
<1>5. CASE DeleteGone
  <2> DEFINE gone == {f \in Files : existing[f] # NoContent} \ toRead
  <2>1. /\ Whole(DeleteFiles(view, gone))
        /\ \A f \in Files : DeleteFiles(view, gone).sha[f] = IF f \in gone THEN NoContent ELSE view.sha[f]
    BY <1>0, DeleteFilesWhole DEF RInv
  <2>2. view' = DeleteFiles(view, gone)
    BY <1>5 DEF DeleteGone
  <2> HIDE DEF gone
  <2>3. \A f \in toRead : f \notin gone /\ f \in Files
    BY <1>0 DEF gone
  <2>4. \A f \in toRead : view'.sha[f] = db.sha[f] /\ changed[f] = NoContent
    BY <1>5, <2>1, <2>2, <2>3 DEF DeleteGone, RInv, InStep, Nothing
  <2> QED BY <1>5, <2>1, <2>2, <2>4 DEF DeleteGone, RInv, InStep, InTry
<1>6. CASE Pass1
  <2>1. view' = UpsertNodes(DeleteFiles(view, {f \in Files : changed[f] # NoContent}), changed)
    BY <1>6 DEF Pass1, Reindexed, Changed
  <2>2. /\ Whole(view)'
        /\ \A f \in Files : view'.sha[f] = IF changed[f] # NoContent THEN changed[f] ELSE view.sha[f]
    BY <1>0, <2>1, ReindexWhole DEF RInv, Whole
  <2> QED BY <1>6, <2>2 DEF Pass1, RInv, InStep, InTry
<1>7. CASE Pass2
  <2>1. view'.sha = view.sha /\ view'.nodes = view.nodes
    BY <1>0, <1>7, LaterWritesKeep DEF Pass2
  <2> QED BY <1>7, <2>1 DEF Pass2, RInv, Whole, InStep, InTry, locals
<1>8. CASE Resolve
  <2>1. view'.sha = view.sha /\ view'.nodes = view.nodes
    BY <1>0, <1>8, LaterWritesKeep DEF Resolve
  <2> QED BY <1>8, <2>1 DEF Resolve, RInv, Whole, InStep, InTry, locals
<1>9. CASE Commit
  BY <1>9 DEF Commit, ForgetLocals, RInv, Whole, InStep, InTry
<1>10. CASE Fail
  BY <1>10 DEF Fail, ForgetLocals, RInv, Whole, InStep, InTry
<1>11. CASE Crash
  BY <1>11 DEF Crash, ForgetLocals, RInv, Whole, InStep, InTry
<1>12. CASE Interrupt
  BY <1>12 DEF Interrupt, RInv
<1>13. ASSUME NEW full \in BOOLEAN, StartRefresh(full)
       PROVE  RInv'
  <2>1. view'.sha = view.sha /\ view'.nodes = view.nodes
    BY <1>0, <1>13 DEF StartRefresh, Store
  <2> QED BY <1>13, <2>1 DEF StartRefresh, RInv, Whole, InStep, InTry
<1>14. ASSUME NEW B, NEW W, EmbedBatch(B, W)
       PROVE  RInv'
  <2>1. view'.sha = view.sha /\ view'.nodes = view.nodes
    BY <1>0, <1>14, LaterWritesKeep DEF EmbedBatch
  <2> QED BY <1>14, <2>1 DEF EmbedBatch, RInv, Whole, InStep, InTry
<1>15. CASE EmbedDone
  BY <1>15 DEF EmbedDone, RInv, Whole, InStep, InTry, locals
<1> QED BY <1>1, <1>2, <1>3, <1>4, <1>5, <1>6, <1>7, <1>8, <1>9, <1>10, <1>11, <1>12, <1>13, <1>14, <1>15 DEF Next

LEMMA StutterRInv == RInv /\ UNCHANGED vars => RInv'
BY DEF RInv, Whole, InStep, vars

LEMMA SpecRInv == ~Interrupts /\ Spec => []RInv
<1>1. ~Interrupts /\ Init => RInv
  BY InitRInv
<1>2. IInv /\ RInv /\ [Next]_vars => RInv'
  BY NextRInv, StutterRInv
<1> QED BY <1>1, <1>2, SpecIInv, PTL DEF Spec

-----------------------------------------------------------------------------
LEMMA InitRefines == Init => Abstract!Init
<1> SUFFICES ASSUME Init PROVE Abstract!Init
  OBVIOUS
<1>1. Found = NoRun
  BY DEF Init, Found
<1>2. db.sha = [f \in Files |-> NoContent] /\ db.nodes = {}
  BY DEF Init, EmptyStore
<1>3. disk \in Abstract!Tree
  BY DEF Init, Tree, Abstract!Tree
<1> QED BY <1>1, <1>2, <1>3 DEF Abstract!Init

(* A run is under way exactly inside the try block. *)
LEMMA FoundInTry ==
  ASSUME IInv
  PROVE  (phase \in InTry => Found # NoRun) /\ (phase \notin InTry => Found = NoRun)
<1>0. /\ view \in Store /\ changed \in Tree /\ phase \in Phases
  BY DEF IInv, Shaped, LocalsTyped
<1>1. view.sha \in Tree
  BY <1>0 DEF Store, Tree
<1>2. CASE phase = "delete"
  <2>1. Found = [f \in Files |-> IF f \in toRead THEN Unread ELSE NoContent]
    BY <1>2 DEF Found
  <2> QED BY <1>2, <2>1, NoRunAssumption DEF InTry
<1>3. CASE phase \in InTry \ {"delete"}
  <2>1. Found = [f \in Files |-> IF f \in toRead THEN Unread
                                  ELSE IF changed[f] # NoContent THEN changed[f]
                                  ELSE view.sha[f]]
    BY <1>3 DEF Found, InTry
  <2>2. Found \in [Files -> Contents \cup {NoContent, Unread}]
    BY <1>0, <1>1, <2>1 DEF Tree
  <2> QED BY <1>3, <2>2, NoRunAssumption
<1>4. CASE phase \notin InTry
  BY <1>0, <1>4 DEF Found, InTry, Phases
<1> QED BY <1>2, <1>3, <1>4

(* What the run saw, once the deleted files are out of the way. *)
LEMMA FoundAfterDelete ==
  ASSUME phase \in InTry \ {"delete"}
  PROVE  Found = [f \in Files |-> IF f \in toRead THEN Unread
                                  ELSE IF changed[f] # NoContent THEN changed[f]
                                  ELSE view.sha[f]]
BY DEF Found, InTry

(* Steps that a reader of the store does not see. *)
Hidden == UNCHANGED Abstract!vars

LEMMA HiddenIf ==
  ASSUME disk' = disk, db'.sha = db.sha, db'.nodes = db.nodes, Found' = Found
  PROVE  Hidden
BY DEF Hidden, Abstract!vars

LEMMA DeleteGoneHidden ==
  ASSUME IInv, RInv, DeleteGone
  PROVE  Hidden
<1>0. db \in Store /\ view \in Store /\ existing \in Tree /\ toRead \in SUBSET Files
  BY DEF IInv, Shaped, LocalsTyped
<1> DEFINE gone == {f \in Files : existing[f] # NoContent} \ toRead
<1>1. \A f \in Files : view'.sha[f] = IF f \in gone THEN NoContent ELSE view.sha[f]
  BY <1>0, DeleteFilesWhole DEF RInv, DeleteGone
<1>2. existing = view.sha /\ changed = Nothing
  BY DEF DeleteGone, RInv, InStep, InTry
<1>3. \A f \in Files \ toRead : view'.sha[f] = NoContent
  BY <1>1, <1>2
<1>4. Found = [f \in Files |-> IF f \in toRead THEN Unread ELSE NoContent]
  BY DEF DeleteGone, Found
<1>5. Found' = [f \in Files |-> IF f \in toRead THEN Unread
                                ELSE IF changed[f] # NoContent THEN changed[f]
                                ELSE view'.sha[f]]
  BY DEF DeleteGone, Found
<1>6. Found' = Found
  BY <1>2, <1>3, <1>4, <1>5 DEF Nothing
<1> QED BY <1>6, HiddenIf DEF DeleteGone

LEMMA PassesHidden ==
  ASSUME IInv, RInv, Pass1 \/ Pass2 \/ Resolve
  PROVE  Hidden
<1>0. view \in Store /\ changed \in Tree
  BY DEF IInv, Shaped, LocalsTyped
<1>1. /\ phase \in InTry \ {"delete"} /\ phase' \in InTry \ {"delete"}
      /\ UNCHANGED <<disk, db, toRead, changed>>
  BY DEF Pass1, Pass2, Resolve, InTry, locals
<1>2. \A f \in Files : changed[f] = NoContent => view'.sha[f] = view.sha[f]
  <2>1. CASE Pass1
    <3>1. view' = UpsertNodes(DeleteFiles(view, {f \in Files : changed[f] # NoContent}), changed)
      BY <2>1 DEF Pass1, Reindexed, Changed
    <3> QED BY <1>0, <3>1, ReindexWhole DEF RInv
  <2>2. CASE Pass2 \/ Resolve
    BY <1>0, <2>2, LaterWritesKeep DEF Pass2, Resolve
  <2> QED BY <2>1, <2>2
<1>3. Found = [f \in Files |-> IF f \in toRead THEN Unread
                              ELSE IF changed[f] # NoContent THEN changed[f]
                              ELSE view.sha[f]]
  BY <1>1, FoundAfterDelete
<1>4. Found' = [f \in Files |-> IF f \in toRead THEN Unread
                               ELSE IF changed[f] # NoContent THEN changed[f]
                               ELSE view'.sha[f]]
  BY <1>1 DEF Found, InTry
<1>5. Found' = Found
  BY <1>2, <1>3, <1>4
<1> QED BY <1>1, <1>5, HiddenIf

LEMMA DiscoverBegins ==
  ASSUME IInv, RInv, Discover
  PROVE  Abstract!Next
<1>1. Found = NoRun
  BY FoundInTry DEF Discover, InTry
<1>2. PICK hidden \in SUBSET Flaky : toRead' = {f \in Files : disk[f] # NoContent} \ hidden
  BY DEF Discover
<1>3. Found' = [f \in Files |-> IF f \in toRead' THEN Unread ELSE NoContent]
  BY DEF Discover, Found
<1>4. \A f \in Files : ~Abstract!Unreadable(f) => f \in toRead'
  BY <1>2 DEF Abstract!Unreadable
<1>5. \A f \in toRead' : disk[f] # NoContent
  BY <1>2
<1>6. Abstract!Begin(toRead')
  BY <1>1, <1>3, <1>4, <1>5 DEF Abstract!Begin, Discover
<1> QED BY <1>2, <1>6 DEF Abstract!Next

LEMMA ReadLooks ==
  ASSUME IInv, RInv, NEW f \in Files, ReadFile(f) \/ ReadError(f)
  PROVE  Abstract!Next
<1>0. /\ changed \in Tree /\ f \in toRead /\ phase = "read" /\ phase' = "read"
      /\ toRead' = toRead \ {f} /\ UNCHANGED <<disk, db, view>>
      /\ existing = db.sha
  BY DEF ReadFile, ReadError, IInv, LocalsTyped, RInv, InStep, InTry
<1>1. view.sha[f] = db.sha[f] /\ changed[f] = NoContent
  BY <1>0 DEF RInv, InStep
<1>2. Found # NoRun /\ Found[f] = Unread
  BY <1>0, FoundInTry, FoundAfterDelete DEF InTry
<1>3. Found = [g \in Files |-> IF g \in toRead THEN Unread
                               ELSE IF changed[g] # NoContent THEN changed[g] ELSE view.sha[g]]
  BY <1>0, FoundAfterDelete DEF InTry
<1>4. Found' = [g \in Files |-> IF g \in toRead \ {f} THEN Unread
                                ELSE IF changed'[g] # NoContent THEN changed'[g] ELSE view.sha[g]]
  BY <1>0 DEF Found
<1>5. \A g \in Files \ {f} : changed'[g] = changed[g]
  BY <1>0 DEF ReadFile, ReadError, Tree
<1>6. \A x : x = Found'[f] => Found' = [Found EXCEPT ![f] = x]
  BY <1>3, <1>4, <1>5
<1>7. CASE ReadFile(f)
  <2>1. Found'[f] = disk[f] /\ disk[f] # NoContent
    BY <1>0, <1>1, <1>4, <1>7 DEF ReadFile, Tree
  <2> QED BY <1>0, <1>2, <1>6, <2>1 DEF Abstract!Next, Abstract!Look
<1>8. CASE ReadError(f)
  <2>1. Found'[f] = db.sha[f]
    BY <1>0, <1>1, <1>4, <1>8 DEF ReadError
  <2>2. Abstract!Unreadable(f)
    BY <1>8 DEF ReadError, Abstract!Unreadable
  <2> QED BY <1>0, <1>2, <1>6, <2>1, <2>2 DEF Abstract!Next, Abstract!Look
<1> QED BY <1>7, <1>8

LEMMA CommitFinishes ==
  ASSUME IInv, RInv, Commit
  PROVE  Abstract!Next
<1>0. view \in Store /\ view.sha \in Tree
  BY DEF IInv, Shaped, Store, Tree
<1>1. phase \in InTry /\ phase = "commit" /\ toRead = {}
  BY DEF Commit, InTry, RInv, InStep
<1>2. Found = view.sha
  <2>1. Found = [f \in Files |-> IF f \in toRead THEN Unread
                                ELSE IF changed[f] # NoContent THEN changed[f] ELSE view.sha[f]]
    BY <1>1, FoundAfterDelete
  <2>2. \A f \in Files : changed[f] # NoContent => view.sha[f] = changed[f]
    BY <1>1 DEF RInv, InStep
  <2>3. \A f \in Files : Found[f] = view.sha[f]
    BY <1>1, <2>1, <2>2
  <2> QED BY <1>0, <2>1, <2>3 DEF Tree
<1>3. \A f \in Files : Found[f] # Unread
  BY <1>0, <1>2, UnreadAssumption DEF Tree
<1>4. db'.nodes = Abstract!SymbolsIn(Found)
  BY <1>0, <1>2, SymbolsInTree DEF Commit, RInv, Whole
<1>5. Found' = NoRun
  BY DEF Commit, Found
<1>6. Found # NoRun
  BY <1>1, FoundInTry
<1> QED BY <1>2, <1>3, <1>4, <1>5, <1>6 DEF Commit, Abstract!Next, Abstract!Finish

LEMMA FailAborts ==
  ASSUME IInv, Fail \/ Crash
  PROVE  Abstract!Next \/ Hidden
<1>1. Found' = NoRun /\ disk' = disk /\ db' = db
  BY DEF Fail, Crash, Found
<1>2. CASE phase \in InTry
  BY <1>1, <1>2, FoundInTry DEF Abstract!Next, Abstract!Abort
<1>3. CASE phase \notin InTry
  BY <1>1, <1>3, FoundInTry, HiddenIf
<1> QED BY <1>2, <1>3

LEMMA RefreshHidden ==
  ASSUME IInv, RInv, Interrupt \/ (\E full \in BOOLEAN : StartRefresh(full))
                     \/ (\E B, W : EmbedBatch(B, W)) \/ EmbedDone
  PROVE  Hidden
<1>0. view \in Store
  BY DEF IInv, Shaped
<1>1. ~Interrupt
  BY DEF RInv, Interrupt
<1>2. phase \in {"idle", "embed"} /\ phase' \in {"idle", "embed"} /\ disk' = disk
  BY <1>1 DEF StartRefresh, EmbedBatch, EmbedDone
<1>3. Found' = Found
  BY <1>2 DEF Found
<1>4. db'.sha = db.sha /\ db'.nodes = db.nodes
  <2>1. view.nodes = db.nodes /\ view.sha = db.sha
    BY <1>2 DEF RInv, Whole, InStep
  <2> QED BY <1>1, <2>1 DEF StartRefresh, EmbedBatch, EmbedDone
<1> QED BY <1>2, <1>3, <1>4, HiddenIf

LEMMA EditEdits ==
  ASSUME NEW f \in Files, Edit(f)
  PROVE  Abstract!Next
<1>1. PICK c \in Contents \cup {NoContent} : disk' = [disk EXCEPT ![f] = c]
  BY IndexerAssumption DEF Edit
<1>2. Found' = Found /\ db' = db
  BY DEF Edit, Found, locals
<1> QED BY <1>1, <1>2 DEF Abstract!Next, Abstract!Edit

LEMMA NextRefines ==
  ASSUME IInv, RInv, [Next]_vars
  PROVE  [Abstract!Next]_(Abstract!vars)
<1>1. CASE UNCHANGED vars
  <2>1. Found' = Found /\ disk' = disk /\ db' = db
    BY <1>1 DEF vars, Found
  <2> QED BY <2>1, HiddenIf DEF Hidden
<1>2. CASE Next
  BY <1>2, EditEdits, DiscoverBegins, DeleteGoneHidden, ReadLooks, PassesHidden, CommitFinishes,
     FailAborts, RefreshHidden DEF Next, Hidden
<1> QED BY <1>1, <1>2

-----------------------------------------------------------------------------
(* To the readers of the store an index() is atomic: no interleaving of    *)
(* edits, failures, crashes and refreshes shows them a part of a run, or a *)
(* content that the run did not read (indexer.py:85-88).                   *)
THEOREM IndexIsAtomic == ~Interrupts /\ Spec => ImplementsIndexSpec
BY InitRefines, NextRefines, SpecIInv, SpecRInv, PTL DEF Spec, ImplementsIndexSpec, Abstract!Spec
=============================================================================
