----------------------------- MODULE QueryCache -----------------------------
(***************************************************************************)
(* The query-embedding cache (query_cache.py) as planners use it           *)
(* (planner.py, RetrievalPlanner._embed_query) and as it is dumped to and  *)
(* loaded from one file that several processes share.                      *)
(*                                                                         *)
(* A cache is a dict, which keeps its keys in the order of insertion: vec  *)
(* is what it maps its keys to, order the keys it has.  A vector is known  *)
(* by the model that computed it and by its length; the rounding of its    *)
(* components to 32 bits in a dump is not told apart.                      *)
(*                                                                         *)
(* The planners that share a cache take turns in one thread: nothing in    *)
(* the code locks a cache, and a store's connection is bound to the thread *)
(* that made it.  Another cache is another process, on the same file.      *)
(***************************************************************************)
EXTENDS Integers, Sequences

CONSTANTS
    Planners, Caches, Keys, Models, Lengths,
    CacheOf,       \* the cache a planner was given, or made for itself
    Model,         \* the identity its embedder reports: `model`, or its class
    Length,        \* the length of the vectors its embedder really returns
    Advertised,    \* the embedder's attribute `dim`, or NoDim
    MaxEntries,    \* max_entries; 0 is falsy: no bound
    Interrupts,    \* TRUE: a caller may survive a KeyboardInterrupt
    NoDim, NoVec, NoKey, NoFile

ASSUME PlannersAssumption ==
    /\ CacheOf \in [Planners -> Caches] /\ Model \in [Planners -> Models]
    /\ Length \in [Planners -> Lengths] /\ Advertised \in [Planners -> Lengths \cup {NoDim}]
    /\ MaxEntries \in Nat /\ Interrupts \in BOOLEAN
    /\ NoDim \notin Lengths

Vector == [model : Models, len : Lengths]

ASSUME NoVecAssumption == NoVec \notin Vector

(* Two embedders with one identity compute the same vectors, or both tell  *)
(* the length of theirs.                                                   *)
Truthful(p) == Advertised[p] = Length[p]

ASSUME IdentityAssumption ==
    \A p, q \in Planners :
        Model[p] = Model[q] => Length[p] = Length[q] \/ (Truthful(p) /\ Truthful(q))

VARIABLES
    cache,     \* the caches, each in a process of its own
    pc,        \* what each planner is doing
    asked,     \* the query a planner is embedding
    served,    \* the vector the last call of _embed_query returned
    tmp,       \* the temporary file a planner is dumping its cache to
    file       \* the dump at the shared path

vars == <<cache, pc, asked, served, tmp, file>>

Own(p) == [model |-> Model[p], len |-> Length[p]]

Empty(model, dim) ==
    [model |-> model, dim |-> dim, vec |-> [k \in Keys |-> NoVec], order |-> <<>>]

Init ==
    /\ cache \in [Caches -> {Empty(m, NoDim) : m \in Models}]
    /\ pc = [p \in Planners |-> "idle"]
    /\ asked = [p \in Planners |-> NoKey]
    /\ served = [p \in Planners |-> NoVec]
    /\ tmp = [p \in Planners |-> NoFile]
    /\ file = NoFile

-----------------------------------------------------------------------------
(***************************************************************************)
(* The operations on one cache, as functions of its value.                 *)
(***************************************************************************)
Clear(c) == Empty(c.model, c.dim)

Tagged(c, model, dim) ==
    [model |-> model, dim |-> dim, vec |-> c.vec, order |-> c.order]

Known(dim, otherwise) == IF dim = NoDim THEN otherwise ELSE dim

ReconcileTagOnly(c, model, dim) ==    \* mutant: re-tags, and keeps the entries
    Tagged(c, model, Known(dim, c.dim))

(* The cache was tagged for another model, or for a known other length. *)
Foreign(c, model, dim) ==
    c.model # model \/ (dim # NoDim /\ c.dim # NoDim /\ c.dim # dim)

Reconcile(c, model, dim) ==
    IF Foreign(c, model, dim) THEN Empty(model, Known(dim, c.dim))
    ELSE Tagged(c, model, Known(dim, c.dim))

(* c without its first n keys. *)
DropFirst(c, n) ==
    [ model |-> c.model, dim |-> c.dim,
      vec   |-> [k \in Keys |-> IF \E i \in 1..n : c.order[i] = k THEN NoVec ELSE c.vec[k]],
      order |-> SubSeq(c.order, n + 1, Len(c.order)) ]

(* How many entries a cache holds too many. *)
Excess(c) ==
    IF MaxEntries = 0 \/ Len(c.order) <= MaxEntries THEN 0 ELSE Len(c.order) - MaxEntries

EvictNewest(c) ==    \* mutant
    IF Excess(c) = 0 THEN c
    ELSE [ model |-> c.model, dim |-> c.dim, order |-> SubSeq(c.order, 1, Len(c.order) - 1),
           vec   |-> [c.vec EXCEPT ![c.order[Len(c.order)]] = NoVec] ]

(* put() pops the oldest key, once, *)
EvictOne(c) == DropFirst(c, IF Excess(c) = 0 THEN 0 ELSE 1)

(* and load() until the bound holds. *)
Evict(c) == DropFirst(c, Excess(c))

(* self._map[k] = v: a key that is there keeps its place. *)
Store(c, k, v) ==
    [ model |-> c.model, dim |-> v.len, vec |-> [c.vec EXCEPT ![k] = v],
      order |-> IF c.vec[k] = NoVec THEN Append(c.order, k) ELSE c.order ]

(* The entries that a vector of this length leaves: all, or none. *)
Fitting(c, v) == IF c.dim # NoDim /\ c.dim # v.len THEN Clear(c) ELSE c

Put(c, k, v) ==
    EvictOne(Store(Fitting(c, v), k, v))

MergeAtEnd(c, f) ==    \* mutant: a key that is there is listed again
    [ model |-> c.model, dim |-> Known(c.dim, f.dim),
      vec   |-> [k \in Keys |-> IF f.vec[k] # NoVec THEN f.vec[k] ELSE c.vec[k]],
      order |-> c.order \o f.order ]

(* s lists the numbers of S, each once, from the least. *)
Lists(s, S) ==
    /\ {s[n] : n \in DOMAIN s} = S
    /\ \A i, j \in DOMAIN s : i < j => s[i] < s[j]

(* The keys of f that c does not have, in their order in f. *)
NewKeys(c, f) ==
    LET new == {i \in DOMAIN f.order : c.vec[f.order[i]] = NoVec}
        at  == CHOOSE s \in UNION {[1..n -> new] : n \in 0..Len(f.order)} : Lists(s, new)
    IN  [n \in DOMAIN at |-> f.order[at[n]]]

(* The records of an accepted dump f over those of c: dict.update. *)
Merge(c, f) ==
    [ model |-> c.model, dim |-> Known(c.dim, f.dim),
      vec   |-> [k \in Keys |-> IF f.vec[k] # NoVec THEN f.vec[k] ELSE c.vec[k]],
      order |-> c.order \o NewKeys(c, f) ]

Accepts(c, f) ==
    /\ f # NoFile
    /\ f.state = "whole"                      \* magic, size and CRC
    /\ f.of.dim # NoDim
    /\ f.of.model = c.model /\ (c.dim = NoDim \/ f.of.dim = c.dim)

LoadAll(c, f) == IF Accepts(c, f) THEN Merge(c, f.of) ELSE c    \* mutant

Load(c, f) == IF Accepts(c, f) THEN Evict(Merge(c, f.of)) ELSE c

(***************************************************************************)
(* What an interrupt between two statements of reconcile(), put() or       *)
(* load() leaves of a cache.                                               *)
(***************************************************************************)
CutReconcile(c, model, dim) ==
    IF Foreign(c, model, dim) THEN {Empty(c.model, c.dim), Empty(model, c.dim)} ELSE {}

CutPut(c, k, v) ==
    { Fitting(c, v), Tagged(Fitting(c, v), c.model, v.len), Store(Fitting(c, v), k, v) }

CutLoad(c, f) ==
    IF ~Accepts(c, f) THEN {}
    ELSE { Tagged(c, c.model, Known(c.dim, f.of.dim)) }
         \cup { DropFirst(Merge(c, f.of), n) : n \in 0..Excess(Merge(c, f.of)) }

-----------------------------------------------------------------------------
(***************************************************************************)
(* The planners.  Every one of them reconciles the cache before it does    *)
(* anything else with it, except clear_query_cache().                      *)
(***************************************************************************)
Mine(p) == cache[CacheOf[p]]

Reconciled(p) == Reconcile(Mine(p), Model[p], Advertised[p])

Set(p, value) == cache' = [cache EXCEPT ![CacheOf[p]] = value]

MayRun(p) == \A q \in Planners : CacheOf[q] = CacheOf[p] => pc[q] = "idle"

(* _embed_query, up to the embedder's answer. *)
Ask(p, k) ==
    /\ MayRun(p)
    /\ Set(p, Reconciled(p))
    /\ LET hit == Reconciled(p).vec[k] IN
       IF hit # NoVec
       THEN served' = [served EXCEPT ![p] = hit] /\ UNCHANGED <<pc, asked>>
       ELSE /\ pc' = [pc EXCEPT ![p] = "embed"]
            /\ asked' = [asked EXCEPT ![p] = k]
            /\ UNCHANGED served
    /\ UNCHANGED <<tmp, file>>

Embedded(p) ==
    /\ pc[p] = "embed"
    /\ Set(p, Put(Mine(p), asked[p], Own(p)))
    /\ served' = [served EXCEPT ![p] = Own(p)]
    /\ pc' = [pc EXCEPT ![p] = "idle"]
    /\ asked' = [asked EXCEPT ![p] = NoKey]
    /\ UNCHANGED <<tmp, file>>

(* The embedder raises, or is interrupted: _embed_query does. *)
EmbedFails(p) ==
    /\ pc[p] = "embed"
    /\ pc' = [pc EXCEPT ![p] = "idle"]
    /\ asked' = [asked EXCEPT ![p] = NoKey]
    /\ UNCHANGED <<cache, served, tmp, file>>

ClearQueryCache(p) ==
    /\ MayRun(p)
    /\ Set(p, Clear(Mine(p)))
    /\ UNCHANGED <<pc, asked, served, tmp, file>>

LoadQueryCache(p) ==
    /\ MayRun(p)
    /\ Set(p, Load(Reconciled(p), file))
    /\ UNCHANGED <<pc, asked, served, tmp, file>>

(***************************************************************************)
(* A KeyboardInterrupt inside a call, which its caller catches.  (One that *)
(* ends the process is a Restart, one inside dump() a DumpFails.)          *)
(***************************************************************************)
Interrupt(p) ==
    /\ Interrupts
    /\ \/ MayRun(p) /\ \E c \in CutReconcile(Mine(p), Model[p], Advertised[p])
                             \cup CutLoad(Reconciled(p), file) : Set(p, c)
       \/ pc[p] = "embed" /\ \E c \in CutPut(Mine(p), asked[p], Own(p)) : Set(p, c)
    /\ pc' = [pc EXCEPT ![p] = "idle"]
    /\ asked' = [asked EXCEPT ![p] = NoKey]
    /\ UNCHANGED <<served, tmp, file>>

(***************************************************************************)
(* dump(): the body is put together, written to a temporary file of its    *)
(* own in two writes, and renamed.                                         *)
(***************************************************************************)
OneTempForAll(p) == Planners    \* mutant of TempsOf: a hard-coded {path}.tmp

TempsOf(p) == {p}

WriteTemp(p, f) == tmp' = [q \in Planners |-> IF q \in TempsOf(p) THEN f ELSE tmp[q]]

DumpStart(p) ==
    /\ MayRun(p)
    /\ Set(p, Reconciled(p))
    /\ IF Reconciled(p).dim = NoDim THEN UNCHANGED <<pc, tmp>>
       ELSE /\ pc' = [pc EXCEPT ![p] = "dump"]
            /\ WriteTemp(p, [state |-> "partial", of |-> Reconciled(p)])
    /\ UNCHANGED <<asked, served, file>>

DumpWrite(p) ==
    /\ pc[p] = "dump" /\ tmp[p] # NoFile
    /\ pc' = [pc EXCEPT ![p] = "rename"]
    /\ WriteTemp(p, [state |-> "whole", of |-> tmp[p].of])
    /\ UNCHANGED <<cache, asked, served, file>>

DumpRename(p) ==
    /\ pc[p] = "rename"
    /\ pc' = [pc EXCEPT ![p] = "idle"]
    /\ file' = tmp[p]
    /\ WriteTemp(p, NoFile)
    /\ UNCHANGED <<cache, asked, served>>

(* The disk is full, or the process is interrupted: the temporary goes. *)
DumpFails(p) ==
    /\ pc[p] \in {"dump", "rename"}
    /\ pc' = [pc EXCEPT ![p] = "idle"]
    /\ WriteTemp(p, NoFile)
    /\ UNCHANGED <<cache, asked, served, file>>

(* The process of a cache ends; the next one starts with an empty cache,   *)
(* and never reads the temporary that was left.                            *)
Restart(c) ==
    /\ \E m \in Models : cache' = [cache EXCEPT ![c] = Empty(m, NoDim)]
    /\ pc' = [p \in Planners |-> IF CacheOf[p] = c THEN "idle" ELSE pc[p]]
    /\ asked' = [p \in Planners |-> IF CacheOf[p] = c THEN NoKey ELSE asked[p]]
    /\ served' = [p \in Planners |-> IF CacheOf[p] = c THEN NoVec ELSE served[p]]
    /\ tmp' = [p \in Planners |-> IF CacheOf[p] = c THEN NoFile ELSE tmp[p]]
    /\ UNCHANGED file

(* The file is disposable, and nobody vouches for it. *)
Damage ==
    /\ file # NoFile
    /\ file' \in {NoFile, [state |-> "damaged", of |-> file.of]}
    /\ UNCHANGED <<cache, pc, asked, served, tmp>>

Next ==
    \/ \E p \in Planners :
          \/ \E k \in Keys : Ask(p, k)
          \/ Embedded(p) \/ EmbedFails(p) \/ Interrupt(p)
          \/ ClearQueryCache(p) \/ LoadQueryCache(p)
          \/ DumpStart(p) \/ DumpWrite(p) \/ DumpRename(p) \/ DumpFails(p)
    \/ \E c \in Caches : Restart(c)
    \/ Damage

Spec == Init /\ [][Next]_vars

-----------------------------------------------------------------------------
(* The keys of a dict are those it maps, each once. *)
CacheType ==
    { c \in [model : Models, dim : Lengths \cup {NoDim}, vec : [Keys -> Vector \cup {NoVec}],
             order : Seq(Keys)] :
        /\ \A k \in Keys : c.vec[k] # NoVec <=> \E i \in DOMAIN c.order : c.order[i] = k
        /\ \A i, j \in DOMAIN c.order : c.order[i] = c.order[j] => i = j }

Dump == [state : {"partial", "whole", "damaged"}, of : CacheType] \cup {NoFile}

(* The variables have their types, and the order of a cache lists its keys. *)
TypeOK ==
    /\ \A c \in Caches : cache[c] \in CacheType
    /\ pc \in [Planners -> {"idle", "embed", "dump", "rename"}]
    /\ asked \in [Planners -> Keys \cup {NoKey}]
    /\ served \in [Planners -> Vector \cup {NoVec}]
    /\ tmp \in [Planners -> Dump]
    /\ file \in Dump

(***************************************************************************)
(* explain() never works with another model's vector, or one of a wrong    *)
(* length (planner.py:197-199): what _embed_query returned is what the     *)
(* planner's own embedder computes, whoever else used the cache, dumped    *)
(* over the file, damaged it, or interrupted a call half way.              *)
(***************************************************************************)
ServedIsOwn == \A p \in Planners : served[p] \in {NoVec, Own(p)}

WithinBound(c) == MaxEntries > 0 => Len(c.order) <= MaxEntries

(* A cache never grows beyond max_entries, loads included (TD-011): what   *)
(* adds entries has made room when it returns.  Only a put() that was cut  *)
(* between its store and its pop leaves one too many, and then put(),      *)
(* which pops once (query_cache.py:90-91), never comes back to the bound.  *)
Bounded ==
    [][\A p \in Planners : Embedded(p) \/ LoadQueryCache(p) =>
          (WithinBound(Mine(p)) => WithinBound(Mine(p)'))]_vars

(* What the embedder just computed is in the cache afterwards: neither the *)
(* bound nor a wrong tag keeps a fresh vector out (query_cache.py:85-91),  *)
(* nor a cache that an interrupt left with too many entries.               *)
FreshIsKept ==
    [][\A p \in Planners : Embedded(p) => cache'[CacheOf[p]].vec[asked[p]] = Own(p)]_vars

(* Nobody ever finds a half-written dump at the shared path: only the disk *)
(* damages it (query_cache.py:115-116).                                    *)
FileIsWhole == file # NoFile => file.state # "partial"

(* "Warm from a dump, MERGING into the running cache (live entries are     *)
(* kept)" (query_cache.py:133).                                            *)
LiveEntriesKept ==
    [][\A p \in Planners : LoadQueryCache(p) =>
          \A k \in Keys : Reconciled(p).vec[k] # NoVec => cache'[CacheOf[p]].vec[k] # NoVec]_vars

(* "the real embedding's length is authoritative over a stale loaded or    *)
(* advertised dim" (query_cache.py:85): a planner that asks again does not *)
(* lose what its own embedder put in.                                      *)
RealLengthIsAuthoritative ==
    [][\A p \in Planners : \A k \in Keys : Ask(p, k) =>
          \A q \in Keys : Mine(p).vec[q] = Own(p) => cache'[CacheOf[p]].vec[q] # NoVec]_vars
=============================================================================
