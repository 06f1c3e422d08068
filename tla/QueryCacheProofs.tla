-------------------------- MODULE QueryCacheProofs --------------------------
(***************************************************************************)
(* A planner is only ever served vectors of its own embedder, a cache      *)
(* keeps its bound and what was just embedded, and the shared file is      *)
(* never half written, for any number of planners, caches, models and      *)
(* queries.                                                                *)
(*                                                                         *)
(* The first invariant, IInv: the tags of a cache say what its vectors are *)
(* (Coherent), in the caches, the dumps under way and the file alike; and  *)
(* while a planner waits for its embedder it has its cache to itself       *)
(* (Alone), with its model's tag and without the query it asked (Waiting). *)
(*                                                                         *)
(* The second, TInv, on top of it: the order of a cache lists its keys,    *)
(* each once, so that of what is evicted nothing was just put in; and only *)
(* a whole temporary is renamed.                                           *)
(*                                                                         *)
(* Both hold whatever interrupts cut.                                      *)
(***************************************************************************)
EXTENDS QueryCache, WellFoundedInduction, TLAPS

(* A vector some planner's embedder of that model returned. *)
Real(v) == \E q \in Planners : v = Own(q)

IsCache(c) ==
    /\ c.model \in Models
    /\ c.dim \in Lengths \cup {NoDim}
    /\ c.vec \in [Keys -> Vector \cup {NoVec}]

Fits(c, v) == Real(v) /\ v.model = c.model /\ v.len = c.dim

Coherent(c) == IsCache(c) /\ \A k \in Keys : c.vec[k] # NoVec => Fits(c, c.vec[k])

CoherentDump(f) ==
    \/ f = NoFile
    \/ Coherent(f.of)

PCs == {"idle", "embed", "dump", "rename"}

(* What a planner asked its embedder for is not in its cache.              *)
Waiting ==
    \A p \in Planners : pc[p] = "embed" =>
        /\ Mine(p).model = Model[p] /\ asked[p] \in Keys
        /\ Mine(p).vec[asked[p]] = NoVec

(* A planner that is in a call has its cache to itself.                    *)
Alone ==
    \A p, q \in Planners :
        p # q /\ CacheOf[p] = CacheOf[q] => pc[p] = "idle" \/ pc[q] = "idle"

Types ==
    /\ cache = [c \in Caches |-> cache[c]]
    /\ pc \in [Planners -> PCs]
    /\ asked \in [Planners -> Keys \cup {NoKey}]
    /\ served \in [Planners -> Vector \cup {NoVec}]
    /\ tmp = [p \in Planners |-> tmp[p]]

IInv ==
    /\ Types
    /\ \A c \in Caches : Coherent(cache[c])
    /\ Waiting
    /\ Alone
    /\ ServedIsOwn
    /\ \A p \in Planners : CoherentDump(tmp[p])
    /\ CoherentDump(file)

LEMMA OwnIsVector == \A p \in Planners : Own(p) \in Vector /\ Real(Own(p))
  BY PlannersAssumption DEF Own, Vector, Real

(* Every operation on a cache keeps its tags true. *)
LEMMA EmptyAnyCoherent ==
  ASSUME NEW m \in Models, NEW d \in Lengths \cup {NoDim}  PROVE Coherent(Empty(m, d))
  BY DEF Coherent, IsCache, Empty

(* A cache that holds a vector knows its dimension. *)
LEMMA FitsKnowsDim ==
  ASSUME NEW c, NEW v, Fits(c, v)  PROVE c.dim \in Lengths /\ c.dim # NoDim
  BY PlannersAssumption DEF Fits, Real, Own

LEMMA ReconcileCoherent ==
  ASSUME NEW c, Coherent(c), NEW m \in Models, NEW d \in Lengths \cup {NoDim}
  PROVE  /\ Coherent(Reconcile(c, m, d))
         /\ Reconcile(c, m, d).model = m
         /\ d # NoDim => Reconcile(c, m, d).dim = d
<1> DEFINE other == Foreign(c, m, d)
           r == Reconcile(c, m, d)
<1>1. Known(d, c.dim) \in Lengths \cup {NoDim} /\ (d # NoDim => Known(d, c.dim) = d)
  BY DEF Known, Coherent, IsCache
<1>2. CASE other
  BY <1>1, <1>2, EmptyAnyCoherent DEF Reconcile, Empty
<1>3. CASE ~other
  <2>1. r.model = m /\ r.dim = Known(d, c.dim) /\ r.vec = c.vec
    BY <1>3 DEF Reconcile, Tagged
  <2>2. IsCache(r)
    BY <1>1, <2>1 DEF IsCache, Coherent
  <2>3. ASSUME NEW k \in Keys, r.vec[k] # NoVec  PROVE Fits(r, r.vec[k])
    <3>1. Fits(c, c.vec[k])
      BY <2>1, <2>3 DEF Coherent
    <3> QED BY <1>3, <2>1, <3>1, FitsKnowsDim DEF Fits, Known, Foreign
  <2> QED BY <1>1, <2>1, <2>2, <2>3 DEF Coherent
<1> QED BY <1>2, <1>3

LEMMA DropFirstCoherent ==
  ASSUME NEW c, Coherent(c), NEW n
  PROVE  Coherent(DropFirst(c, n)) /\ DropFirst(c, n).model = c.model
  BY DEF Coherent, IsCache, DropFirst, Fits

(* What stays in a cache when a vector of p comes is of p's length.        *)
LEMMA FittingCoherent ==
  ASSUME NEW c, Coherent(c), NEW p \in Planners
  PROVE  /\ Coherent(Fitting(c, Own(p))) /\ Fitting(c, Own(p)).model = c.model
         /\ \A q \in Keys : Fitting(c, Own(p)).vec[q] # NoVec
                => Fitting(c, Own(p)) = c /\ c.dim = Length[p]
<1>1. CASE c.dim # NoDim /\ c.dim # Own(p).len
  <2>1. Fitting(c, Own(p)) = Empty(c.model, c.dim)
    BY <1>1 DEF Fitting, Clear
  <2> QED BY <2>1, EmptyAnyCoherent DEF Coherent, IsCache, Empty
<1>2. CASE ~(c.dim # NoDim /\ c.dim # Own(p).len)
  BY <1>2, FitsKnowsDim DEF Fitting, Coherent, Own
<1> QED BY <1>1, <1>2

LEMMA CutPutCoherent ==
  ASSUME NEW c, Coherent(c), NEW k \in Keys, NEW p \in Planners, c.model = Model[p],
         NEW x \in CutPut(c, k, Own(p))
  PROVE  Coherent(x) /\ x.model = c.model
<1> DEFINE v == Own(p)
           b == Fitting(c, v)
           s == Store(b, k, v)
           d == Tagged(b, c.model, v.len)
<1>1. v \in Vector /\ Real(v) /\ v.model = Model[p] /\ v.len = Length[p] /\ v.len \in Lengths
  BY OwnIsVector, PlannersAssumption DEF Own
<1>2. /\ Coherent(b) /\ b.model = c.model
      /\ \A q \in Keys : b.vec[q] # NoVec => Fits(b, b.vec[q]) /\ b.dim = v.len
  BY <1>1, FittingCoherent DEF Coherent
<1>3. x = b \/ x = d \/ x = s
  BY DEF CutPut
<1>4. CASE x = d
  <2>1. /\ d.model = c.model /\ d.dim = v.len /\ d.vec = b.vec
    BY DEF Tagged
  <2>2. IsCache(d)
    BY <1>1, <1>2, <2>1 DEF Coherent, IsCache
  <2>3. \A q \in Keys : d.vec[q] # NoVec => Fits(d, d.vec[q])
    BY <1>2, <2>1 DEF Fits
  <2> QED BY <1>4, <2>1, <2>2, <2>3 DEF Coherent
<1>5. CASE x = s
  <2>1. s.model = c.model /\ s.dim = v.len
        /\ s.vec \in [Keys -> Vector \cup {NoVec}]
        /\ \A q \in Keys : s.vec[q] = IF q = k THEN v ELSE b.vec[q]
    <3>1. b.vec \in [Keys -> Vector \cup {NoVec}]
      BY <1>2 DEF Coherent, IsCache
    <3> HIDE DEF b, v
    <3> QED BY <1>1, <1>2, <3>1 DEF Store
  <2>2. IsCache(s)
    BY <1>1, <2>1 DEF IsCache, Coherent
  <2> HIDE DEF s, b, v
  <2>3. ASSUME NEW q \in Keys, s.vec[q] # NoVec  PROVE Fits(s, s.vec[q])
    <3>1. CASE q = k
      BY <3>1, <1>1, <2>1 DEF Fits
    <3>2. CASE q # k
      BY <3>2, <1>2, <2>1, <2>3 DEF Fits
    <3> QED BY <3>1, <3>2
  <2> QED BY <1>5, <2>1, <2>2, <2>3 DEF Coherent
<1>6. CASE x = b
  BY <1>2, <1>6
<1> QED BY <1>3, <1>4, <1>5, <1>6

LEMMA PutCoherent ==
  ASSUME NEW c, Coherent(c), NEW k \in Keys, NEW p \in Planners, c.model = Model[p]
  PROVE  Coherent(Put(c, k, Own(p))) /\ Put(c, k, Own(p)).model = c.model
<1> DEFINE s == Store(Fitting(c, Own(p)), k, Own(p))
<1>1. s \in CutPut(c, k, Own(p))
  BY DEF CutPut
<1>2. \E n : Put(c, k, Own(p)) = DropFirst(s, n)
  BY DEF Put, EvictOne
<1> HIDE DEF s
<1>3. Coherent(s) /\ s.model = c.model
  BY <1>1, CutPutCoherent
<1> QED BY <1>2, <1>3, DropFirstCoherent

(* An interrupted reconcile() has emptied the cache before it re-tags it.  *)
LEMMA CutReconcileCoherent ==
  ASSUME NEW c, Coherent(c), NEW m \in Models, NEW d, NEW x \in CutReconcile(c, m, d)
  PROVE  Coherent(x)
  BY EmptyAnyCoherent DEF CutReconcile, Coherent, IsCache

(* The records of an accepted dump fit the cache they are merged into.     *)
LEMMA MergeCoherent ==
  ASSUME NEW c, Coherent(c), NEW f, CoherentDump(f), Accepts(c, f)
  PROVE  Coherent(Merge(c, f.of)) /\ Merge(c, f.of).model = c.model
<1> DEFINE g == f.of
           m == Merge(c, g)
<1>1. Coherent(g) /\ g.model = c.model /\ g.dim # NoDim
      /\ (c.dim = NoDim \/ g.dim = c.dim)
  BY DEF Accepts, CoherentDump
<1>2. m.model = c.model /\ m.dim = g.dim
      /\ m.vec = [k \in Keys |-> IF g.vec[k] # NoVec THEN g.vec[k] ELSE c.vec[k]]
  BY <1>1 DEF Merge, Known
<1>3. IsCache(m)
  BY <1>1, <1>2 DEF IsCache, Coherent
<1>4. ASSUME NEW k \in Keys, m.vec[k] # NoVec  PROVE Fits(m, m.vec[k])
  <2>1. CASE g.vec[k] # NoVec
    BY <2>1, <1>1, <1>2 DEF Coherent, Fits
  <2>2. CASE g.vec[k] = NoVec
    <3>1. Fits(c, c.vec[k])
      BY <2>2, <1>2, <1>4 DEF Coherent
    <3> QED BY <2>2, <3>1, <1>1, <1>2, FitsKnowsDim DEF Fits
  <2> QED BY <2>1, <2>2
<1> HIDE DEF m
<1>5. Coherent(m)
  BY <1>3, <1>4 DEF Coherent
<1> QED BY <1>2, <1>5 DEF m

LEMMA LoadCoherent ==
  ASSUME NEW c, Coherent(c), NEW f, CoherentDump(f)
  PROVE  Coherent(Load(c, f)) /\ Load(c, f).model = c.model
<1>1. CASE ~Accepts(c, f)
  BY <1>1 DEF Load
<1>2. CASE Accepts(c, f)
  BY <1>2, MergeCoherent, DropFirstCoherent DEF Load, Evict
<1> QED BY <1>1, <1>2

LEMMA CutLoadCoherent ==
  ASSUME NEW c, Coherent(c), NEW f, CoherentDump(f), NEW x \in CutLoad(c, f)
  PROVE  Coherent(x)
<1> DEFINE d == Tagged(c, c.model, Known(c.dim, f.of.dim))
<1>1. Accepts(c, f)
  BY DEF CutLoad
<1>2. CASE x = d
  <2>1. Coherent(f.of) /\ f.of.dim # NoDim
    BY <1>1 DEF Accepts, CoherentDump
  <2>2. /\ d.model = c.model /\ d.vec = c.vec
        /\ d.dim = IF c.dim = NoDim THEN f.of.dim ELSE c.dim
    BY DEF Tagged, Known
  <2>3. IsCache(d)
    BY <2>1, <2>2 DEF Coherent, IsCache
  <2>4. ASSUME NEW k \in Keys, d.vec[k] # NoVec  PROVE Fits(d, d.vec[k])
    <3>1. Fits(c, c.vec[k])
      BY <2>2, <2>4 DEF Coherent
    <3> QED BY <2>2, <3>1, FitsKnowsDim DEF Fits
  <2> QED BY <1>2, <2>3, <2>4 DEF Coherent
<1>3. CASE \E n : x = DropFirst(Merge(c, f.of), n)
  BY <1>1, <1>3, MergeCoherent, DropFirstCoherent
<1> QED BY <1>1, <1>2, <1>3 DEF CutLoad

(* A vector found in a reconciled cache is the asking embedder's own. *)
LEMMA HitIsOwn ==
  ASSUME NEW p \in Planners, NEW c, Coherent(c), c.model = Model[p],
         Advertised[p] # NoDim => c.dim = Advertised[p],
         NEW k \in Keys, c.vec[k] # NoVec
  PROVE  c.vec[k] = Own(p)
<1>1. PICK q \in Planners : c.vec[k] = Own(q)
  BY DEF Coherent, Fits, Real
<1>2. Model[q] = Model[p] /\ Length[q] = c.dim
  BY <1>1 DEF Coherent, Fits, Own
<1>3. Length[q] = Length[p]
  <2>1. CASE Truthful(p)
    BY <2>1, <1>2, PlannersAssumption DEF Truthful
  <2>2. CASE ~Truthful(p)
    BY <2>2, <1>2, IdentityAssumption
  <2> QED BY <2>1, <2>2
<1> QED BY <1>1, <1>2, <1>3 DEF Own

-----------------------------------------------------------------------------
LEMMA InitIInv == Init => IInv
<1> SUFFICES ASSUME Init PROVE IInv
  OBVIOUS
<1>1. \A c \in Caches : Coherent(cache[c])
  BY EmptyAnyCoherent DEF Init
<1>2. Types
  <2>1. DOMAIN cache = Caches /\ cache = [c \in Caches |-> cache[c]]
    BY DEF Init
  <2> QED BY <2>1 DEF Init, Types, PCs
<1>3. Waiting /\ Alone /\ ServedIsOwn
  BY DEF Init, Waiting, Alone, ServedIsOwn
<1>4. (\A p \in Planners : CoherentDump(tmp[p])) /\ CoherentDump(file)
  BY DEF Init, CoherentDump
<1> QED BY <1>1, <1>2, <1>3, <1>4 DEF IInv

LEMMA ReconciledCoherent ==
  ASSUME IInv, NEW p \in Planners
  PROVE  /\ Coherent(Reconciled(p)) /\ Reconciled(p).model = Model[p]
         /\ Advertised[p] # NoDim => Reconciled(p).dim = Advertised[p]
  BY ReconcileCoherent, PlannersAssumption DEF IInv, Reconciled, Mine

(* A call that gives the cache of p a coherent value keeps the caches      *)
(* coherent and those who wait: they have caches of their own.             *)
LEMMA SetPreserves ==
  ASSUME IInv, NEW p \in Planners, NEW v, Coherent(v), Set(p, v),
         \/ MayRun(p) \/ pc[p] = "embed",
         \A q \in Planners \ {p} : pc'[q] = pc[q] /\ asked'[q] = asked[q],
         pc'[p] = "embed" => /\ v.model = Model[p] /\ asked'[p] \in Keys
                             /\ v.vec[asked'[p]] = NoVec
  PROVE  /\ cache' = [c \in Caches |-> cache'[c]]
         /\ \A c \in Caches : Coherent(cache'[c])
         /\ Waiting'
<1>1. \A c \in Caches : cache'[c] = IF c = CacheOf[p] THEN v ELSE cache[c]
  BY DEF IInv, Types, Set
<1>2. cache' = [c \in Caches |-> cache'[c]]
  BY DEF IInv, Types, Set
<1>3. \A c \in Caches : Coherent(cache'[c])
  BY <1>1 DEF IInv
<1>4. ASSUME NEW q \in Planners, pc'[q] = "embed"
      PROVE  /\ cache'[CacheOf[q]].model = Model[q] /\ asked'[q] \in Keys
             /\ cache'[CacheOf[q]].vec[asked'[q]] = NoVec
  <2>1. CASE q = p
    BY <2>1, <1>1, <1>4, PlannersAssumption
  <2>2. CASE q # p /\ CacheOf[q] # CacheOf[p]
    BY <2>2, <1>1, <1>4, PlannersAssumption DEF IInv, Waiting, Mine
  <2>3. CASE q # p /\ CacheOf[q] = CacheOf[p]
    BY <2>3, <1>4 DEF MayRun, IInv, Alone
  <2> QED BY <2>1, <2>2, <2>3
<1> QED BY <1>2, <1>3, <1>4 DEF Waiting, Mine

(* The first step of a call: nobody else on this cache is in one.          *)
LEMMA MayRunAlone ==
  ASSUME IInv, NEW p \in Planners, MayRun(p), NEW s \in PCs, pc' = [pc EXCEPT ![p] = s]
  PROVE  Alone' /\ pc' \in [Planners -> PCs]
  BY DEF IInv, Types, Alone, MayRun, PCs

LEMMA CallEnds ==
  ASSUME IInv, NEW p \in Planners, pc[p] # "idle", NEW s \in PCs, pc' = [pc EXCEPT ![p] = s]
  PROVE  Alone' /\ pc' \in [Planners -> PCs]
  BY DEF IInv, Types, Alone, PCs

LEMMA AskPreserves ==
  ASSUME IInv, NEW p \in Planners, NEW k \in Keys, Ask(p, k)
  PROVE  IInv'
<1> DEFINE r == Reconciled(p)
<1>1. Coherent(r) /\ r.model = Model[p] /\ (Advertised[p] # NoDim => r.dim = Advertised[p])
  BY ReconciledCoherent
<1>2. MayRun(p) /\ Set(p, r) /\ tmp' = tmp /\ file' = file
  BY DEF Ask
<1> HIDE DEF r
<1>3. CASE r.vec[k] # NoVec
  <2>1. served' = [served EXCEPT ![p] = Own(p)] /\ pc' = pc /\ asked' = asked
    BY <1>1, <1>3, HitIsOwn DEF Ask, r
  <2>2. pc[p] = "idle"
    BY <1>2 DEF MayRun
  <2>3. /\ cache' = [c \in Caches |-> cache'[c]]
        /\ \A c \in Caches : Coherent(cache'[c]) /\ Waiting'
    BY <1>1, <1>2, <2>1, <2>2, SetPreserves
  <2>4. Types' /\ ServedIsOwn'
    BY <1>2, <2>1, <2>3, OwnIsVector DEF IInv, Types, ServedIsOwn
  <2>5. Waiting' /\ Alone'
    BY <1>1, <1>2, <2>1, <2>2, SetPreserves DEF IInv, Alone
  <2> QED BY <1>2, <2>3, <2>4, <2>5 DEF IInv
<1>4. CASE r.vec[k] = NoVec
  <2>1. /\ pc' = [pc EXCEPT ![p] = "embed"] /\ asked' = [asked EXCEPT ![p] = k]
        /\ served' = served
    BY <1>4 DEF Ask, r
  <2>2. /\ cache' = [c \in Caches |-> cache'[c]]
        /\ \A c \in Caches : Coherent(cache'[c])
        /\ Waiting'
    <3>1. asked'[p] = k /\ \A q \in Planners \ {p} : pc'[q] = pc[q] /\ asked'[q] = asked[q]
      BY <2>1 DEF IInv, Types
    <3> QED BY <1>1, <1>2, <1>4, <3>1, SetPreserves
  <2>3. Alone' /\ pc' \in [Planners -> PCs]
    BY <1>2, <2>1, MayRunAlone DEF PCs
  <2>4. Types' /\ ServedIsOwn'
    BY <1>2, <2>1, <2>2, <2>3 DEF IInv, Types, ServedIsOwn
  <2> QED BY <1>2, <2>2, <2>3, <2>4 DEF IInv
<1> QED BY <1>3, <1>4

LEMMA EmbeddedPreserves ==
  ASSUME IInv, NEW p \in Planners, Embedded(p)
  PROVE  IInv'
<1> DEFINE v == Put(Mine(p), asked[p], Own(p))
<1>1. pc[p] = "embed" /\ asked[p] \in Keys /\ Mine(p).model = Model[p] /\ Coherent(Mine(p))
  BY PlannersAssumption DEF Embedded, IInv, Waiting, Mine
<1>2. Coherent(v) /\ v.model = Model[p]
  BY <1>1, PutCoherent
<1>3. /\ Set(p, v) /\ served' = [served EXCEPT ![p] = Own(p)]
      /\ pc' = [pc EXCEPT ![p] = "idle"] /\ asked' = [asked EXCEPT ![p] = NoKey]
      /\ tmp' = tmp /\ file' = file
  BY DEF Embedded
<1> HIDE DEF v
<1>4. /\ cache' = [c \in Caches |-> cache'[c]]
      /\ \A c \in Caches : Coherent(cache'[c])
      /\ Waiting'
  BY <1>1, <1>2, <1>3, SetPreserves DEF IInv, Types
<1>5. Alone' /\ pc' \in [Planners -> PCs]
  BY <1>1, <1>3, CallEnds DEF PCs
<1>6. Types' /\ ServedIsOwn'
  BY <1>3, <1>4, <1>5, OwnIsVector DEF IInv, Types, ServedIsOwn
<1> QED BY <1>3, <1>4, <1>5, <1>6 DEF IInv

LEMMA EmbedFailsPreserves ==
  ASSUME IInv, NEW p \in Planners, EmbedFails(p)
  PROVE  IInv'
<1>1. Alone' /\ pc' \in [Planners -> PCs]
  BY CallEnds DEF EmbedFails, PCs
<1>2. Types' /\ Waiting' /\ ServedIsOwn'
  BY <1>1 DEF EmbedFails, IInv, Types, Waiting, Mine, ServedIsOwn
<1> QED BY <1>1, <1>2 DEF EmbedFails, IInv

(* What an interrupt leaves of a cache is coherent too, and nobody is      *)
(* served anything.                                                        *)
LEMMA InterruptPreserves ==
  ASSUME IInv, NEW p \in Planners, Interrupt(p)
  PROVE  IInv'
<1>1. PICK v : Coherent(v) /\ Set(p, v) /\ (MayRun(p) \/ pc[p] = "embed")
  <2>1. CASE MayRun(p) /\ \E c \in CutReconcile(Mine(p), Model[p], Advertised[p])
                                   \cup CutLoad(Reconciled(p), file) : Set(p, c)
    <3>1. PICK c \in CutReconcile(Mine(p), Model[p], Advertised[p])
                       \cup CutLoad(Reconciled(p), file) : Set(p, c)
      BY <2>1
    <3>2. Coherent(Mine(p)) /\ Model[p] \in Models
      BY PlannersAssumption DEF IInv, Mine
    <3>3. Coherent(Reconciled(p)) /\ CoherentDump(file)
      BY ReconciledCoherent DEF IInv
    <3>4. Coherent(c)
      BY <3>2, <3>3, CutReconcileCoherent, CutLoadCoherent
    <3> QED BY <2>1, <3>1, <3>4
  <2>2. CASE pc[p] = "embed" /\ \E c \in CutPut(Mine(p), asked[p], Own(p)) : Set(p, c)
    <3>1. asked[p] \in Keys /\ Mine(p).model = Model[p] /\ Coherent(Mine(p))
      BY <2>2, PlannersAssumption DEF IInv, Waiting, Mine
    <3> QED BY <2>2, <3>1, CutPutCoherent
  <2> QED BY <2>1, <2>2 DEF Interrupt
<1>2. /\ pc' = [pc EXCEPT ![p] = "idle"] /\ asked' = [asked EXCEPT ![p] = NoKey]
      /\ UNCHANGED <<served, tmp, file>>
  BY DEF Interrupt
<1>3. /\ cache' = [c \in Caches |-> cache'[c]]
      /\ \A c \in Caches : Coherent(cache'[c])
      /\ Waiting'
  BY <1>1, <1>2, SetPreserves DEF IInv, Types
<1>4. Alone' /\ pc' \in [Planners -> PCs]
  BY <1>1, <1>2, MayRunAlone, CallEnds DEF PCs
<1>5. Types' /\ ServedIsOwn'
  BY <1>2, <1>3, <1>4 DEF IInv, Types, ServedIsOwn
<1> QED BY <1>2, <1>3, <1>4, <1>5 DEF IInv

(* clear_query_cache() does not reconcile: the tag stays what it was.      *)
LEMMA ClearPreserves ==
  ASSUME IInv, NEW p \in Planners, ClearQueryCache(p)
  PROVE  IInv'
<1>1. Coherent(Clear(Mine(p)))
  BY EmptyAnyCoherent, PlannersAssumption DEF IInv, Mine, Coherent, IsCache, Clear, Empty
<1>2. MayRun(p) /\ Set(p, Clear(Mine(p))) /\ UNCHANGED <<pc, asked, served, tmp, file>>
  BY DEF ClearQueryCache
<1>3. /\ cache' = [c \in Caches |-> cache'[c]]
      /\ \A c \in Caches : Coherent(cache'[c])
      /\ Waiting'
  BY <1>1, <1>2, SetPreserves DEF MayRun, ClearQueryCache
<1>4. Types' /\ Alone' /\ ServedIsOwn'
  BY <1>2, <1>3 DEF IInv, Types, Alone, ServedIsOwn
<1> QED BY <1>2, <1>3, <1>4 DEF IInv

LEMMA LoadPreserves ==
  ASSUME IInv, NEW p \in Planners, LoadQueryCache(p)
  PROVE  IInv'
<1> DEFINE v == Load(Reconciled(p), file)
<1>1. Coherent(v) /\ v.model = Model[p]
  BY ReconciledCoherent, LoadCoherent DEF IInv
<1>2. MayRun(p) /\ Set(p, v) /\ UNCHANGED <<pc, asked, served, tmp, file>>
  BY DEF LoadQueryCache
<1> HIDE DEF v
<1>3. /\ cache' = [c \in Caches |-> cache'[c]]
      /\ \A c \in Caches : Coherent(cache'[c])
      /\ Waiting'
  BY <1>1, <1>2, SetPreserves DEF MayRun
<1>4. Types' /\ Alone' /\ ServedIsOwn'
  BY <1>2, <1>3 DEF IInv, Types, Alone, ServedIsOwn
<1> QED BY <1>2, <1>3, <1>4 DEF IInv

-----------------------------------------------------------------------------
(* A dump only ever holds what a coherent cache held.                      *)
LEMMA TempPreserves ==
  ASSUME IInv, NEW p \in Planners, NEW f, CoherentDump(f), WriteTemp(p, f)
  PROVE  /\ tmp' = [q \in Planners |-> tmp'[q]]
         /\ \A q \in Planners : CoherentDump(tmp'[q])
  BY DEF WriteTemp, TempsOf, IInv

LEMMA DumpStartPreserves ==
  ASSUME IInv, NEW p \in Planners, DumpStart(p)
  PROVE  IInv'
<1> DEFINE r == Reconciled(p)
<1>1. Coherent(r) /\ r.model = Model[p]
  BY ReconciledCoherent
<1>2. MayRun(p) /\ Set(p, r) /\ UNCHANGED <<asked, served, file>>
  BY DEF DumpStart
<1>3. \/ pc' = pc /\ tmp' = tmp
      \/ pc' = [pc EXCEPT ![p] = "dump"] /\ WriteTemp(p, [state |-> "partial", of |-> r])
  BY DEF DumpStart
<1>4. CoherentDump([state |-> "partial", of |-> r])
  BY <1>1 DEF CoherentDump
<1> HIDE DEF r
<1>5. /\ cache' = [c \in Caches |-> cache'[c]]
      /\ \A c \in Caches : Coherent(cache'[c])
      /\ Waiting'
  BY <1>1, <1>2, <1>3, SetPreserves DEF MayRun, IInv, Types
<1>6. Alone' /\ pc' \in [Planners -> PCs]
  BY <1>2, <1>3, MayRunAlone DEF PCs, IInv, Types, Alone
<1>7. /\ tmp' = [q \in Planners |-> tmp'[q]]
      /\ \A q \in Planners : CoherentDump(tmp'[q])
  BY <1>3, <1>4, TempPreserves DEF IInv, Types
<1> QED BY <1>2, <1>5, <1>6, <1>7 DEF IInv, Types, ServedIsOwn

LEMMA DumpEndsPreserves ==
  ASSUME IInv, NEW p \in Planners, DumpWrite(p) \/ DumpRename(p) \/ DumpFails(p)
  PROVE  IInv'
<1>1. /\ UNCHANGED <<cache, asked, served>> /\ pc[p] \in {"dump", "rename"}
      /\ \E s \in {"idle", "rename"} : pc' = [pc EXCEPT ![p] = s]
      /\ \E f : CoherentDump(f) /\ WriteTemp(p, f)
      /\ file' = file \/ file' = tmp[p]
  <2>1. CASE DumpWrite(p)
    <3>1. CoherentDump([state |-> "whole", of |-> tmp[p].of])
      BY <2>1 DEF DumpWrite, IInv, CoherentDump
    <3> QED BY <2>1, <3>1 DEF DumpWrite
  <2>2. CASE DumpRename(p) \/ DumpFails(p)
    BY <2>2 DEF DumpRename, DumpFails, CoherentDump
  <2> QED BY <2>1, <2>2
<1>2. Alone' /\ pc' \in [Planners -> PCs]
  BY <1>1, CallEnds DEF PCs
<1>3. /\ tmp' = [q \in Planners |-> tmp'[q]]
      /\ \A q \in Planners : CoherentDump(tmp'[q])
  BY <1>1, TempPreserves
<1>4. Waiting'
  BY <1>1 DEF IInv, Types, Waiting, Mine
<1>5. CoherentDump(file')
  BY <1>1 DEF IInv
<1> QED BY <1>1, <1>2, <1>3, <1>4, <1>5 DEF IInv, Types, ServedIsOwn

LEMMA RestartPreserves ==
  ASSUME IInv, NEW c \in Caches, Restart(c)
  PROVE  IInv'
<1>1. PICK m \in Models : cache' = [cache EXCEPT ![c] = Empty(m, NoDim)]
  BY DEF Restart
<1>2. cache' = [d \in Caches |-> cache'[d]]
      /\ \A d \in Caches : cache'[d] = IF d = c THEN Empty(m, NoDim) ELSE cache[d]
  BY <1>1 DEF IInv, Types
<1>3. \A d \in Caches : Coherent(cache'[d])
  BY <1>2, EmptyAnyCoherent DEF IInv
<1>4. /\ \A p \in Planners : \/ pc'[p] = "idle"
                             \/ pc'[p] = pc[p] /\ asked'[p] = asked[p] /\ CacheOf[p] # c
      /\ pc' \in [Planners -> PCs] /\ asked' \in [Planners -> Keys \cup {NoKey}]
      /\ served' \in [Planners -> Vector \cup {NoVec}]
      /\ tmp' = [p \in Planners |-> tmp'[p]]
  BY DEF Restart, IInv, Types, PCs
<1>5. Waiting' /\ Alone'
  BY <1>2, <1>4, PlannersAssumption DEF IInv, Waiting, Alone, Mine
<1>6. ServedIsOwn'
  BY DEF Restart, IInv, ServedIsOwn
<1>7. (\A p \in Planners : CoherentDump(tmp'[p])) /\ file' = file
  BY DEF Restart, IInv, CoherentDump
<1> QED BY <1>2, <1>3, <1>4, <1>5, <1>6, <1>7 DEF IInv, Types

LEMMA DamagePreserves == ASSUME IInv, Damage PROVE IInv'
<1>1. UNCHANGED <<cache, pc, asked, served, tmp>> /\ CoherentDump(file')
  BY DEF Damage, IInv, CoherentDump
<1> QED BY <1>1 DEF IInv, Types, Waiting, Mine, Alone, ServedIsOwn

LEMMA NextPreserves == IInv /\ [Next]_vars => IInv'
<1> SUFFICES ASSUME IInv, [Next]_vars PROVE IInv'
  OBVIOUS
<1>1. CASE UNCHANGED vars
  BY <1>1 DEF vars, IInv, Types, Waiting, Mine, Alone, ServedIsOwn
<1>2. CASE Next
  BY <1>2, AskPreserves, EmbeddedPreserves, EmbedFailsPreserves, ClearPreserves, LoadPreserves,
     InterruptPreserves, DumpStartPreserves, DumpEndsPreserves, RestartPreserves, DamagePreserves DEF Next
<1> QED BY <1>1, <1>2

(***************************************************************************)
(* Whatever planners, models and dimensions share a cache, and whatever    *)
(* was loaded, dumped, cleared or damaged, _embed_query returns the vector *)
(* of the planner's own embedder (planner.py:210-217, TD-011).             *)
(***************************************************************************)
THEOREM ServedVectorsAreOwn == Spec => []ServedIsOwn
<1>1. IInv => ServedIsOwn
  BY DEF IInv
<1> QED BY <1>1, InitIInv, NextPreserves, PTL DEF Spec
-----------------------------------------------------------------------------
(***************************************************************************)
(* The dict of a cache: its order lists its keys, each once, through every *)
(* operation, and the operations that add to it keep the bound.            *)
(***************************************************************************)

(* What CacheType says, conjunct by conjunct. *)
HasCacheType(c) ==
    /\ c = [model |-> c.model, dim |-> c.dim, vec |-> c.vec, order |-> c.order]
    /\ c.model \in Models /\ c.dim \in Lengths \cup {NoDim}
    /\ c.vec \in [Keys -> Vector \cup {NoVec}] /\ c.order \in Seq(Keys)
    /\ \A k \in Keys : c.vec[k] # NoVec <=> \E i \in 1..Len(c.order) : c.order[i] = k
    /\ \A i, j \in 1..Len(c.order) : c.order[i] = c.order[j] => i = j

LEMMA CacheTypeIs ==
  /\ \A c \in CacheType : HasCacheType(c)
  /\ \A c : HasCacheType(c) => c \in CacheType
<1>1. ASSUME NEW c \in CacheType  PROVE HasCacheType(c)
  BY DEF CacheType, HasCacheType
<1>2. ASSUME NEW c, HasCacheType(c)  PROVE c \in CacheType
  <2>1. c \in [model : Models, dim : Lengths \cup {NoDim}, vec : [Keys -> Vector \cup {NoVec}],
               order : Seq(Keys)]
    BY <1>2 DEF HasCacheType
  <2>2. DOMAIN c.order = 1..Len(c.order)
    BY <1>2 DEF HasCacheType
  <2> QED BY <1>2, <2>1, <2>2 DEF CacheType, HasCacheType
<1> QED BY <1>1, <1>2

LEMMA LeastExists ==
  ASSUME NEW S \in SUBSET Nat, S # {}
  PROVE  \E x \in S : \A y \in S : x <= y
<1> DEFINE Lt == {ss \in Nat \X Nat : ss[1] < ss[2]}
<1>1. IsWellFoundedOn(Lt, Nat)
  BY NatLessThanWellFounded, Zenon DEF OpToRel
<1> HIDE DEF Lt
<1>2. PICK x \in S : \A y \in S : ~ (<<y, x>> \in Lt)
  BY <1>1, WFMin
<1>3. ASSUME NEW y \in S  PROVE x <= y
  <2>1. ~ (<<y, x>> \in Lt)
    BY <1>2
  <2> QED BY <2>1 DEF Lt
<1> QED BY <1>3

(* A set of numbers up to m can be listed: one that could not, with the    *)
(* least m, could without m.                                               *)
Listable(m) == \A S \in SUBSET (1..m) : \E n \in 0..m : \E s \in [1..n -> S] : Lists(s, S)

LEMMA ListExists ==
  ASSUME NEW m \in Nat, NEW S \in SUBSET (1..m)
  PROVE  \E n \in 0..m : \E s \in [1..n -> S] : Lists(s, S)
<1> DEFINE Bad == {k \in Nat : ~Listable(k)}
<1>1. Bad = {}
  <2> SUFFICES ASSUME Bad # {} PROVE FALSE
    OBVIOUS
  <2>1. PICK k \in Bad : \A l \in Bad : k <= l
    <3>1. Bad \in SUBSET Nat
      OBVIOUS
    <3> HIDE DEF Bad
    <3> QED BY <3>1, LeastExists
  <2>2. PICK T \in SUBSET (1..k) : ~ \E n \in 0..k : \E s \in [1..n -> T] : Lists(s, T)
    BY DEF Listable
  <2>. k \in Nat /\ \A l \in Nat : l < k => Listable(l)
    BY <2>1
  <2> HIDE DEF Bad
  <2>3. CASE k = 0
    <3>1. T = {} /\ 0 \in 0..k
      BY <2>3
    <3>2. [i \in 1..0 |-> i] \in [1..0 -> T] /\ Lists([i \in 1..0 |-> i], T)
      BY <3>1 DEF Lists
    <3> QED BY <2>2, <3>1, <3>2
  <2>4. CASE k # 0
    <3> DEFINE R == T \ {k}
    <3>1. k - 1 \in Nat /\ k - 1 < k /\ R \in SUBSET (1..(k - 1))
      BY <2>4
    <3>2. PICK n \in 0..(k - 1) : \E s \in [1..n -> R] : Lists(s, R)
      BY <3>1 DEF Listable
    <3>3. PICK s \in [1..n -> R] : Lists(s, R)
      BY <3>2
    <3>4. CASE k \notin T
      <4>1. R = T
        BY <3>4
      <4>2. n \in 0..k
        BY <3>1
      <4> QED BY <2>2, <3>3, <4>1, <4>2
    <3>5. CASE k \in T
      <4> DEFINE t == [i \in 1..(n + 1) |-> IF i = n + 1 THEN k ELSE s[i]]
      <4>1. n + 1 \in 0..k /\ n \in Nat
        BY <3>1
      <4>2. \A i \in 1..n : s[i] \in R /\ t[i] = s[i] /\ s[i] < k /\ s[i] \in Nat
        <5> SUFFICES ASSUME NEW i \in 1..n PROVE s[i] \in R /\ t[i] = s[i] /\ s[i] < k /\ s[i] \in Nat
          OBVIOUS
        <5>1. s[i] \in R /\ i \in 1..(n + 1) /\ i # n + 1
          BY <4>1
        <5>2. s[i] \in 1..(k - 1)
          BY <3>1, <5>1
        <5> QED BY <5>1, <5>2
      <4>3. t[n + 1] = k /\ t \in [1..(n + 1) -> T]
        BY <3>5, <4>1
      <4>4. {t[i] : i \in DOMAIN t} = T
        <5>1. \A x \in T : \E i \in 1..(n + 1) : t[i] = x
          <6> SUFFICES ASSUME NEW x \in T PROVE \E i \in 1..(n + 1) : t[i] = x
            OBVIOUS
          <6>1. CASE x = k
            BY <6>1, <4>1, <4>3
          <6>2. CASE x # k
            <7>1. x \in {s[i] : i \in DOMAIN s}
              BY <6>2, <3>3 DEF Lists
            <7>2. PICK i \in 1..n : s[i] = x
              BY <7>1
            <7> QED BY <4>1, <4>2, <7>2
          <6> QED BY <6>1, <6>2
        <5>2. DOMAIN t = 1..(n + 1) /\ \A i \in 1..(n + 1) : t[i] \in T
          BY <4>3
        <5> HIDE DEF t
        <5> QED BY <5>1, <5>2
      <4>5. ASSUME NEW i \in 1..(n + 1), NEW j \in 1..(n + 1), i < j  PROVE t[i] < t[j]
        <5>1. i \in 1..n
          BY <4>1, <4>5
        <5>2. CASE j = n + 1
          BY <5>1, <5>2, <4>2, <4>3
        <5>3. CASE j # n + 1
          BY <5>1, <5>3, <4>1, <4>2, <4>5, <3>3 DEF Lists
        <5> QED BY <5>2, <5>3
      <4>6. Lists(t, T)
        <5>1. DOMAIN t = 1..(n + 1)
          OBVIOUS
        <5> HIDE DEF t
        <5> QED BY <4>4, <4>5, <5>1 DEF Lists
      <4> QED BY <2>2, <4>1, <4>3, <4>6
    <3> QED BY <3>4, <3>5
  <2> QED BY <2>3, <2>4
<1> QED BY <1>1 DEF Listable

LEMMA EmptyHasType ==
  ASSUME NEW m \in Models, NEW d \in Lengths \cup {NoDim}
  PROVE  HasCacheType(Empty(m, d)) /\ Len(Empty(m, d).order) = 0
  BY DEF HasCacheType, Empty

LEMMA ReconcileHasType ==
  ASSUME NEW c, HasCacheType(c), NEW m \in Models, NEW d \in Lengths \cup {NoDim}
  PROVE  /\ HasCacheType(Reconcile(c, m, d))
         /\ WithinBound(c) => WithinBound(Reconcile(c, m, d))
<1>1. Known(d, c.dim) \in Lengths \cup {NoDim}
  BY DEF Known, HasCacheType
<1>2. HasCacheType(Empty(m, Known(d, c.dim))) /\ WithinBound(Empty(m, Known(d, c.dim)))
  BY <1>1, EmptyHasType, PlannersAssumption DEF WithinBound
<1>3. HasCacheType(Tagged(c, m, Known(d, c.dim))) /\ Tagged(c, m, Known(d, c.dim)).order = c.order
  BY <1>1 DEF HasCacheType, Tagged
<1> QED BY <1>2, <1>3 DEF Reconcile, WithinBound

(* What is not among the first keys is kept.                               *)
LEMMA DropFirstHasType ==
  ASSUME NEW c, HasCacheType(c), NEW e \in 0..Len(c.order)
  PROVE  /\ HasCacheType(DropFirst(c, e)) /\ Len(DropFirst(c, e).order) = Len(c.order) - e
         /\ \A i \in 1..Len(c.order) : e < i =>
                DropFirst(c, e).vec[c.order[i]] = c.vec[c.order[i]]
<1> DEFINE n == Len(c.order)
           m == n - e
           rest == SubSeq(c.order, e + 1, n)
           Gone(k) == \E i \in 1..e : c.order[i] = k
           w == DropFirst(c, e)
<1>1. n \in Nat /\ e \in Nat /\ e <= n /\ m \in Nat /\ e + m = n
      /\ c.order \in Seq(Keys) /\ \A i \in 1..n : c.order[i] \in Keys
  BY DEF HasCacheType
<1>2. rest \in Seq(Keys) /\ Len(rest) = m /\ \A i \in 1..m : rest[i] = c.order[e + i]
  BY <1>1
<1>3. w = [model |-> w.model, dim |-> w.dim, vec |-> w.vec, order |-> w.order]
      /\ w.order = rest /\ w.model = c.model /\ w.dim = c.dim
      /\ w.vec = [k \in Keys |-> IF Gone(k) THEN NoVec ELSE c.vec[k]]
  BY DEF DropFirst
<1>4. c.vec \in [Keys -> Vector \cup {NoVec}]
  BY DEF HasCacheType
<1>5. \A i \in 1..n : Gone(c.order[i]) <=> i <= e
  <2> SUFFICES ASSUME NEW i \in 1..n PROVE Gone(c.order[i]) <=> i <= e
    OBVIOUS
  <2>1. i <= e => Gone(c.order[i])
    BY <1>1
  <2>2. ASSUME Gone(c.order[i])  PROVE i <= e
    <3>1. PICK j \in 1..e : c.order[j] = c.order[i]
      BY <2>2
    <3>2. j \in 1..n
      BY <1>1, <3>1
    <3>3. i = j
      BY <3>1, <3>2 DEF HasCacheType
    <3> QED BY <3>1, <3>3
  <2> QED BY <2>1, <2>2
<1> HIDE DEF rest, w, Gone, n, m
<1>6. w.vec \in [Keys -> Vector \cup {NoVec}]
      /\ \A k \in Keys : w.vec[k] = IF Gone(k) THEN NoVec ELSE c.vec[k]
  BY <1>3, <1>4
<1>7. ASSUME NEW k \in Keys
      PROVE  w.vec[k] # NoVec <=> \E i \in 1..m : rest[i] = k
  <2>1. ASSUME w.vec[k] # NoVec  PROVE \E i \in 1..m : rest[i] = k
    <3>1. ~Gone(k) /\ c.vec[k] # NoVec
      BY <1>6, <2>1
    <3>2. PICK i \in 1..n : c.order[i] = k
      BY <3>1 DEF HasCacheType, n
    <3>3. ~(i <= e)
      BY <1>5, <3>1, <3>2
    <3>4. i - e \in 1..m /\ e + (i - e) = i
      BY <1>1, <3>3
    <3> QED BY <1>2, <3>2, <3>4
  <2>2. ASSUME NEW i \in 1..m, rest[i] = k  PROVE w.vec[k] # NoVec
    <3>1. e + i \in 1..n /\ ~(e + i <= e) /\ c.order[e + i] = k
      BY <1>1, <1>2, <2>2
    <3>2. ~Gone(k)
      BY <1>5, <3>1
    <3>3. c.vec[k] # NoVec
      BY <3>1 DEF HasCacheType, n
    <3> QED BY <1>6, <3>2, <3>3
  <2> QED BY <2>1, <2>2
<1>8. ASSUME NEW i \in 1..m, NEW j \in 1..m, rest[i] = rest[j]  PROVE i = j
  <2>1. e + i \in 1..n /\ e + j \in 1..n /\ c.order[e + i] = c.order[e + j]
    BY <1>1, <1>2, <1>8
  <2>2. e + i = e + j
    BY <2>1 DEF HasCacheType, n
  <2> QED BY <1>1, <2>2
<1>9. HasCacheType(w) /\ Len(w.order) = n - e
  <2>1. w.model \in Models /\ w.dim \in Lengths \cup {NoDim}
    BY <1>3 DEF HasCacheType
  <2>2. Len(w.order) = m /\ w.order \in Seq(Keys) /\ m = n - e
    BY <1>2, <1>3 DEF m
  <2> QED BY <1>3, <1>6, <1>7, <1>8, <2>1, <2>2 DEF HasCacheType
<1>10. ASSUME NEW i \in 1..n, e < i  PROVE w.vec[c.order[i]] = c.vec[c.order[i]]
  <2>1. ~Gone(c.order[i])
    BY <1>1, <1>5, <1>10
  <2> QED BY <1>1, <1>6, <2>1
<1> QED BY <1>9, <1>10 DEF w, n

(* What was put in is there, and a new key is the last to go.              *)
LEMMA StoreHasType ==
  ASSUME NEW c, HasCacheType(c), NEW k \in Keys, NEW v \in Vector
  PROVE  /\ HasCacheType(Store(c, k, v))
         /\ Store(c, k, v).vec[k] = v
         /\ Len(Store(c, k, v).order) <= Len(c.order) + 1
         /\ c.vec[k] = NoVec => /\ Len(Store(c, k, v).order) = Len(c.order) + 1
                                /\ Store(c, k, v).order[Len(c.order) + 1] = k
<1> DEFINE s == Store(c, k, v)
           n == Len(c.order)
<1>0. n \in Nat /\ c.order \in Seq(Keys) /\ v # NoVec /\ v.len \in Lengths
  BY NoVecAssumption DEF HasCacheType, Vector
<1>1. s = [model |-> s.model, dim |-> s.dim, vec |-> s.vec, order |-> s.order]
      /\ s.model = c.model /\ s.dim = v.len
      /\ s.vec \in [Keys -> Vector \cup {NoVec}]
      /\ \A q \in Keys : s.vec[q] = IF q = k THEN v ELSE c.vec[q]
  BY DEF Store, HasCacheType
<1>2. CASE c.vec[k] = NoVec
  <2>1. s.order = Append(c.order, k)
    BY <1>2 DEF Store
  <2> HIDE DEF s
  <2>2. s.order \in Seq(Keys) /\ Len(s.order) = n + 1 /\ s.order[n + 1] = k
        /\ \A i \in 1..n : s.order[i] = c.order[i]
    BY <1>0, <2>1
  <2>3. \A i \in 1..n : c.order[i] # k
    BY <1>2 DEF HasCacheType
  <2>4. ASSUME NEW q \in Keys
        PROVE  s.vec[q] # NoVec <=> \E i \in 1..(n + 1) : s.order[i] = q
    <3>1. CASE q = k
      BY <3>1, <1>0, <1>1, <2>2
    <3>2. CASE q # k
      <4>1. s.vec[q] # NoVec <=> \E i \in 1..n : c.order[i] = q
        BY <3>2, <1>1 DEF HasCacheType
      <4>2. \A i \in 1..(n + 1) : i \in 1..n \/ i = n + 1
        BY <1>0
      <4>3. \A i \in 1..n : i \in 1..(n + 1)
        BY <1>0
      <4> QED BY <3>2, <2>2, <4>1, <4>2, <4>3
    <3> QED BY <3>1, <3>2
  <2>5. ASSUME NEW i \in 1..(n + 1), NEW j \in 1..(n + 1), s.order[i] = s.order[j]  PROVE i = j
    <3>1. (i \in 1..n \/ i = n + 1) /\ (j \in 1..n \/ j = n + 1)
      BY <1>0
    <3> QED BY <2>2, <2>3, <2>5, <3>1 DEF HasCacheType
  <2>6. HasCacheType(s)
    BY <1>0, <1>1, <2>2, <2>4, <2>5 DEF HasCacheType
  <2>7. s.vec[k] = v /\ Len(s.order) <= n + 1
    BY <1>0, <1>1, <2>2
  <2> QED BY <2>2, <2>6, <2>7 DEF s
<1>3. CASE c.vec[k] # NoVec
  <2>1. s.order = c.order
    BY <1>3 DEF Store
  <2> HIDE DEF s
  <2>2. HasCacheType(s)
    BY <1>0, <1>1, <1>3, <2>1 DEF HasCacheType
  <2>3. s.vec[k] = v /\ Len(s.order) <= n + 1
    BY <1>0, <1>1, <2>1
  <2> QED BY <1>3, <2>2, <2>3 DEF s
<1> QED BY <1>2, <1>3

LEMMA FittingHasType ==
  ASSUME NEW c, HasCacheType(c), NEW v \in Vector
  PROVE  /\ HasCacheType(Fitting(c, v)) /\ Len(Fitting(c, v).order) <= Len(c.order)
         /\ \A k \in Keys : c.vec[k] = NoVec => Fitting(c, v).vec[k] = NoVec
<1>1. HasCacheType(Clear(c)) /\ Len(Clear(c).order) = 0
      /\ \A k \in Keys : Clear(c).vec[k] = NoVec
  BY EmptyHasType DEF Clear, HasCacheType, Empty
<1>2. Len(c.order) \in Nat
  BY DEF HasCacheType
<1> QED BY <1>1, <1>2 DEF Fitting

LEMMA TaggedHasType ==
  ASSUME NEW c, HasCacheType(c), NEW m \in Models, NEW d \in Lengths \cup {NoDim}
  PROVE  HasCacheType(Tagged(c, m, d))
  BY DEF HasCacheType, Tagged

LEMMA CutPutHasType ==
  ASSUME NEW c, HasCacheType(c), NEW k \in Keys, NEW v \in Vector, NEW x \in CutPut(c, k, v)
  PROVE  HasCacheType(x)
<1>1. v.len \in Lengths \cup {NoDim} /\ c.model \in Models
  BY DEF Vector, HasCacheType
<1> QED BY <1>1, FittingHasType, TaggedHasType, StoreHasType DEF CutPut

(* put() keeps what was not there before, and the bound if it held.        *)
LEMMA PutHasType ==
  ASSUME NEW c, HasCacheType(c), NEW k \in Keys, NEW v \in Vector
  PROVE  /\ HasCacheType(Put(c, k, v))
         /\ c.vec[k] = NoVec => Put(c, k, v).vec[k] = v
         /\ WithinBound(c) => WithinBound(Put(c, k, v))
<1> DEFINE b == Fitting(c, v)
           s == Store(b, k, v)
           n == Len(s.order)
           e == IF Excess(s) = 0 THEN 0 ELSE 1
<1>1. /\ HasCacheType(b) /\ Len(b.order) <= Len(c.order)
      /\ c.vec[k] = NoVec => b.vec[k] = NoVec
  BY FittingHasType
<1> HIDE DEF b
<1>2. /\ HasCacheType(s) /\ s.vec[k] = v /\ n <= Len(b.order) + 1
      /\ b.vec[k] = NoVec => n = Len(b.order) + 1 /\ s.order[n] = k
  BY <1>1, StoreHasType
<1>3. Put(c, k, v) = DropFirst(s, e)
  BY DEF Put, EvictOne, b
<1> HIDE DEF s
<1>4. n \in Nat /\ Len(b.order) \in Nat /\ Len(c.order) \in Nat /\ MaxEntries \in Nat
  BY <1>1, <1>2, PlannersAssumption DEF HasCacheType
<1>5. e \in 0..n /\ e \in {0, 1} /\ (e = 1 => MaxEntries # 0 /\ n > MaxEntries)
      /\ (e = 0 => MaxEntries = 0 \/ n <= MaxEntries)
  <2>1. Excess(s) = IF MaxEntries = 0 \/ n <= MaxEntries THEN 0 ELSE n - MaxEntries
    BY DEF Excess
  <2>2. CASE MaxEntries = 0 \/ n <= MaxEntries
    <3>1. e = 0
      BY <2>1, <2>2
    <3> QED BY <1>4, <2>2, <3>1
  <2>3. CASE ~(MaxEntries = 0 \/ n <= MaxEntries)
    <3>1. Excess(s) # 0 /\ n > MaxEntries /\ n > 0
      BY <1>4, <2>1, <2>3
    <3>2. e = 1
      BY <3>1
    <3> QED BY <1>4, <2>3, <3>1, <3>2
  <2> QED BY <2>2, <2>3
<1> HIDE DEF e
<1>6. /\ HasCacheType(DropFirst(s, e)) /\ Len(DropFirst(s, e).order) = n - e
      /\ \A i \in 1..n : e < i => DropFirst(s, e).vec[s.order[i]] = s.vec[s.order[i]]
  BY <1>2, <1>5, DropFirstHasType
<1>7. ASSUME c.vec[k] = NoVec  PROVE DropFirst(s, e).vec[k] = v
  <2>1. n = Len(b.order) + 1 /\ s.order[n] = k
    BY <1>1, <1>2, <1>7
  <2>2. n > 0 /\ n \in 1..n
    BY <1>4, <2>1
  <2>3. e < n
    <3>1. CASE e = 1
      BY <1>4, <1>5, <3>1
    <3>2. CASE e # 1
      BY <1>4, <1>5, <2>2, <3>2
    <3> QED BY <3>1, <3>2
  <2> QED BY <1>2, <1>6, <2>1, <2>2, <2>3
<1>8. ASSUME WithinBound(c)  PROVE WithinBound(DropFirst(s, e))
  BY <1>1, <1>2, <1>4, <1>5, <1>6, <1>8 DEF WithinBound
<1> QED BY <1>3, <1>6, <1>7, <1>8

LEMMA NewKeysAre ==
  ASSUME NEW c, HasCacheType(c), NEW f, HasCacheType(f)
  PROVE  /\ NewKeys(c, f) \in Seq(Keys)
         /\ \A k \in Keys : (\E i \in 1..Len(NewKeys(c, f)) : NewKeys(c, f)[i] = k)
                                <=> c.vec[k] = NoVec /\ f.vec[k] # NoVec
         /\ \A i, j \in 1..Len(NewKeys(c, f)) : NewKeys(c, f)[i] = NewKeys(c, f)[j] => i = j
<1> DEFINE m == Len(f.order)
           new == {i \in DOMAIN f.order : c.vec[f.order[i]] = NoVec}
           P(s) == s \in UNION {[1..n -> new] : n \in 0..m} /\ Lists(s, new)
           at == CHOOSE s \in UNION {[1..n -> new] : n \in 0..m} : Lists(s, new)
           t == [n \in DOMAIN at |-> f.order[at[n]]]
<1>1. m \in Nat /\ DOMAIN f.order = 1..m /\ \A i \in 1..m : f.order[i] \in Keys
  BY DEF HasCacheType
<1>2. new \in SUBSET (1..m) /\ \A i \in 1..m : i \in new <=> c.vec[f.order[i]] = NoVec
  BY <1>1
<1>3. NewKeys(c, f) = t
  BY DEF NewKeys
<1> HIDE DEF new, m
<1>4. \E s \in UNION {[1..n -> new] : n \in 0..m} : Lists(s, new)
  BY <1>1, <1>2, ListExists
<1>5. at \in UNION {[1..n -> new] : n \in 0..m} /\ Lists(at, new)
  BY <1>4
<1> HIDE DEF at
<1>6. PICK n \in 0..m : at \in [1..n -> new]
  BY <1>5
<1>7. n \in Nat /\ \A i \in 1..n : at[i] \in new /\ at[i] \in 1..m
  <2>1. new \in SUBSET (1..m) /\ \A i \in 1..n : at[i] \in new
    BY <1>2, <1>6
  <2>2. n \in Nat
    BY <1>1
  <2> QED BY <2>1, <2>2
<1>8. t \in Seq(Keys) /\ Len(t) = n /\ \A i \in 1..n : t[i] = f.order[at[i]]
  <2>1. t = [i \in 1..n |-> f.order[at[i]]] /\ \A i \in 1..n : f.order[at[i]] \in Keys
    BY <1>1, <1>6, <1>7
  <2> HIDE DEF t
  <2>2. t \in [1..n -> Keys]
    BY <2>1
  <2> QED BY <2>1, <2>2, <1>7
<1> HIDE DEF t
<1>9. ASSUME NEW k \in Keys
      PROVE  (\E i \in 1..n : t[i] = k) <=> c.vec[k] = NoVec /\ f.vec[k] # NoVec
  <2>1. ASSUME NEW i \in 1..n, t[i] = k  PROVE c.vec[k] = NoVec /\ f.vec[k] # NoVec
    <3>1. c.vec[f.order[at[i]]] = NoVec /\ f.order[at[i]] = k
      BY <1>2, <1>7, <1>8, <2>1
    <3>2. f.vec[k] # NoVec
      BY <1>7, <3>1 DEF HasCacheType, m
    <3> QED BY <3>1, <3>2
  <2>2. ASSUME c.vec[k] = NoVec, f.vec[k] # NoVec  PROVE \E i \in 1..n : t[i] = k
    <3>1. PICK j \in 1..m : f.order[j] = k
      BY <2>2 DEF HasCacheType, m
    <3>2. j \in new
      BY <1>2, <2>2, <3>1
    <3>3. j \in {at[i] : i \in DOMAIN at}
      BY <3>2, <1>5 DEF Lists
    <3>4. PICK i \in 1..n : at[i] = j
      BY <3>3, <1>6
    <3> QED BY <1>8, <3>1, <3>4
  <2> QED BY <2>1, <2>2
<1>10. ASSUME NEW i \in 1..n, NEW j \in 1..n, t[i] = t[j]  PROVE i = j
  <2>1. at[i] = at[j]
    <3>1. \A x, y \in 1..m : f.order[x] = f.order[y] => x = y
      BY DEF HasCacheType, m
    <3>2. f.order[at[i]] = f.order[at[j]]
      BY <1>8, <1>10
    <3> QED BY <1>7, <3>1, <3>2
  <2>2. ~(i < j) /\ ~(j < i)
    <3>1. \A x, y \in 1..n : x < y => at[x] < at[y]
      BY <1>5, <1>6 DEF Lists
    <3>2. at[i] \in Nat /\ at[j] \in Nat
      BY <1>7, <1>1
    <3> QED BY <2>1, <3>1, <3>2
  <2> QED BY <2>2, <1>7
<1> QED BY <1>3, <1>8, <1>9, <1>10

LEMMA MergeHasType ==
  ASSUME NEW c, HasCacheType(c), NEW f, HasCacheType(f)
  PROVE  HasCacheType(Merge(c, f))
<1> DEFINE r == Merge(c, f)
           t == NewKeys(c, f)
           l == Len(c.order)
           n == Len(t)
<1>1. /\ t \in Seq(Keys)
      /\ \A k \in Keys : (\E i \in 1..n : t[i] = k) <=> c.vec[k] = NoVec /\ f.vec[k] # NoVec
      /\ \A i, j \in 1..n : t[i] = t[j] => i = j
  BY NewKeysAre
<1>2. r = [model |-> c.model, dim |-> Known(c.dim, f.dim),
           vec |-> [k \in Keys |-> IF f.vec[k] # NoVec THEN f.vec[k] ELSE c.vec[k]],
           order |-> c.order \o t]
  BY DEF Merge
<1> HIDE DEF t, r
<1>3. c.order \in Seq(Keys) /\ l \in Nat /\ n \in Nat
  BY <1>1 DEF HasCacheType
<1>4. /\ r.order = c.order \o t /\ r.order \in Seq(Keys) /\ Len(r.order) = l + n
      /\ \A i \in 1..l : r.order[i] = c.order[i]
      /\ \A i \in 1..n : r.order[l + i] = t[i]
  BY <1>1, <1>2, <1>3
<1>5. \A i \in 1..(l + n) : i \in 1..l \/ (i - l \in 1..n /\ l + (i - l) = i)
  BY <1>3
<1>6. (\A i \in 1..l : i \in 1..(l + n)) /\ (\A i \in 1..n : l + i \in 1..(l + n))
  BY <1>3
<1>7. r.model \in Models /\ r.dim \in Lengths \cup {NoDim}
      /\ r = [model |-> r.model, dim |-> r.dim, vec |-> r.vec, order |-> r.order]
  BY <1>2 DEF HasCacheType, Known
<1>8. /\ r.vec \in [Keys -> Vector \cup {NoVec}]
      /\ \A k \in Keys : r.vec[k] = IF f.vec[k] # NoVec THEN f.vec[k] ELSE c.vec[k]
  BY <1>2 DEF HasCacheType
<1>9. ASSUME NEW k \in Keys
      PROVE  r.vec[k] # NoVec <=> \E i \in 1..(l + n) : r.order[i] = k
  <2>1. r.vec[k] # NoVec <=> c.vec[k] # NoVec \/ (c.vec[k] = NoVec /\ f.vec[k] # NoVec)
    BY <1>8
  <2>2. (c.vec[k] # NoVec) <=> \E i \in 1..l : c.order[i] = k
    BY DEF HasCacheType
  <2>3. (\E i \in 1..(l + n) : r.order[i] = k)
           <=> (\E i \in 1..l : c.order[i] = k) \/ (\E i \in 1..n : t[i] = k)
    <3>1. ASSUME NEW i \in 1..(l + n), r.order[i] = k
          PROVE  (\E x \in 1..l : c.order[x] = k) \/ (\E x \in 1..n : t[x] = k)
      <4>1. CASE i \in 1..l
        BY <3>1, <4>1, <1>4
      <4>2. CASE i - l \in 1..n /\ l + (i - l) = i
        <5>1. r.order[l + (i - l)] = t[i - l]
          BY <4>2, <1>4
        <5> QED BY <3>1, <4>2, <5>1
      <4> QED BY <4>1, <4>2, <1>5
    <3>2. ASSUME NEW i \in 1..l, c.order[i] = k  PROVE \E x \in 1..(l + n) : r.order[x] = k
      BY <3>2, <1>4, <1>6
    <3>3. ASSUME NEW i \in 1..n, t[i] = k  PROVE \E x \in 1..(l + n) : r.order[x] = k
      BY <3>3, <1>4, <1>6
    <3> QED BY <3>1, <3>2, <3>3
  <2> QED BY <1>1, <2>1, <2>2, <2>3
<1>10. ASSUME NEW i \in 1..(l + n), NEW j \in 1..(l + n), r.order[i] = r.order[j]  PROVE i = j
  <2>1. \A x \in 1..l, y \in 1..n : c.order[x] # t[y]
    <3> SUFFICES ASSUME NEW x \in 1..l, NEW y \in 1..n, c.order[x] = t[y] PROVE FALSE
      OBVIOUS
    <3>1. c.order[x] \in Keys /\ c.vec[c.order[x]] # NoVec
      BY <1>3 DEF HasCacheType
    <3>2. c.vec[t[y]] = NoVec
      BY <1>1, <3>1
    <3> QED BY <3>1, <3>2
  <2>2. CASE i \in 1..l /\ j \in 1..l
    BY <2>2, <1>4, <1>10 DEF HasCacheType
  <2>3. CASE i \in 1..l /\ j \notin 1..l
    BY <2>1, <2>3, <1>4, <1>5, <1>10
  <2>4. CASE i \notin 1..l /\ j \in 1..l
    BY <2>1, <2>4, <1>4, <1>5, <1>10
  <2>5. CASE i \notin 1..l /\ j \notin 1..l
    <3>1. r.order[i] = t[i - l] /\ r.order[j] = t[j - l] /\ i - l \in 1..n /\ j - l \in 1..n
      BY <2>5, <1>4, <1>5
    <3>2. i - l = j - l
      <4>1. t[i - l] = t[j - l]
        BY <3>1, <1>10
      <4> QED BY <3>1, <4>1, <1>1
    <3> QED BY <3>2, <1>3
  <2> QED BY <2>2, <2>3, <2>4, <2>5
<1>11. HasCacheType(r)
  BY <1>4, <1>7, <1>8, <1>9, <1>10 DEF HasCacheType
<1> QED BY <1>11 DEF r

LEMMA ExcessIs ==
  ASSUME NEW c, HasCacheType(c)
  PROVE  /\ Excess(c) \in 0..Len(c.order)
         /\ MaxEntries > 0 => Len(c.order) - Excess(c) <= MaxEntries
<1>1. Len(c.order) \in Nat /\ MaxEntries \in Nat
  BY PlannersAssumption DEF HasCacheType
<1> QED BY <1>1 DEF Excess

LEMMA LoadHasType ==
  ASSUME NEW c, HasCacheType(c), NEW f \in Dump
  PROVE  /\ HasCacheType(Load(c, f))
         /\ WithinBound(c) => WithinBound(Load(c, f))
<1>1. CASE ~Accepts(c, f)
  BY <1>1 DEF Load
<1>2. CASE Accepts(c, f)
  <2> DEFINE m == Merge(c, f.of)
  <2>1. HasCacheType(f.of)
    BY <1>2, CacheTypeIs DEF Accepts, Dump
  <2>2. HasCacheType(m)
    BY <2>1, MergeHasType
  <2>3. Load(c, f) = DropFirst(m, Excess(m))
    BY <1>2 DEF Load, Evict
  <2> HIDE DEF m
  <2>4. HasCacheType(DropFirst(m, Excess(m)))
        /\ Len(DropFirst(m, Excess(m)).order) = Len(m.order) - Excess(m)
    BY <2>2, ExcessIs, DropFirstHasType
  <2>5. WithinBound(DropFirst(m, Excess(m)))
    BY <2>2, <2>4, ExcessIs DEF WithinBound
  <2> QED BY <2>3, <2>4, <2>5
<1> QED BY <1>1, <1>2

LEMMA CutLoadHasType ==
  ASSUME NEW c, HasCacheType(c), NEW f \in Dump, NEW x \in CutLoad(c, f)
  PROVE  HasCacheType(x)
<1> DEFINE m == Merge(c, f.of)
<1>1. Accepts(c, f)
  BY DEF CutLoad
<1>2. HasCacheType(f.of)
  BY <1>1, CacheTypeIs DEF Accepts, Dump
<1>3. HasCacheType(m)
  BY <1>2, MergeHasType
<1>4. x = Tagged(c, c.model, Known(c.dim, f.of.dim)) \/ \E n \in 0..Excess(m) : x = DropFirst(m, n)
  BY <1>1 DEF CutLoad
<1> HIDE DEF m
<1>5. CASE x = Tagged(c, c.model, Known(c.dim, f.of.dim))
  <2>1. Known(c.dim, f.of.dim) \in Lengths \cup {NoDim} /\ c.model \in Models
    BY <1>2 DEF Known, HasCacheType
  <2> QED BY <1>5, <2>1, TaggedHasType
<1>6. ASSUME NEW n \in 0..Excess(m), x = DropFirst(m, n)  PROVE HasCacheType(x)
  <2>1. n \in 0..Len(m.order)
    <3>1. Excess(m) \in 0..Len(m.order) /\ Len(m.order) \in Nat
      BY <1>3, ExcessIs DEF HasCacheType
    <3> QED BY <3>1
  <2> QED BY <1>3, <1>6, <2>1, DropFirstHasType
<1> QED BY <1>4, <1>5, <1>6

-----------------------------------------------------------------------------
(***************************************************************************)
(* The second invariant, on top of the first: every cache lists its keys,  *)
(* every dump was written of such a cache, and a planner renames a file    *)
(* only when both of its writes are in it.                                 *)
(***************************************************************************)
DictInv == \A c \in Caches : HasCacheType(cache[c])

DumpInv == (\A p \in Planners : tmp[p] \in Dump) /\ file \in Dump

(* The temporary of a planner that has made both writes is whole.          *)
WholeTemp == \A p \in Planners : pc[p] = "rename" => tmp[p] = NoFile \/ tmp[p].state = "whole"

TInv == DictInv /\ DumpInv /\ WholeTemp /\ FileIsWhole

LEMMA InitTInv == Init => TInv
<1> SUFFICES ASSUME Init PROVE TInv
  OBVIOUS
<1>1. DictInv
  <2>1. \A c \in Caches : \E m \in Models : cache[c] = Empty(m, NoDim)
    BY DEF Init
  <2> QED BY <2>1, EmptyHasType, PlannersAssumption DEF DictInv
<1>2. DumpInv /\ WholeTemp /\ FileIsWhole
  BY DEF Init, DumpInv, WholeTemp, FileIsWhole, Dump
<1> QED BY <1>1, <1>2 DEF TInv

(* What a call that is not cut short makes of its cache: v has the type,   *)
(* and the bound if the cache had it.                                      *)
Keeps(v, c) == HasCacheType(v) /\ (WithinBound(c) => WithinBound(v))

(* No cache goes beyond the bound. *)
Held == \A c \in Caches : WithinBound(cache[c]) => WithinBound(cache'[c])

LEMMA MineHasType ==
  ASSUME TInv, NEW p \in Planners
  PROVE  HasCacheType(Mine(p)) /\ Keeps(Reconciled(p), Mine(p))
  BY ReconcileHasType, PlannersAssumption DEF TInv, DictInv, Mine, Reconciled, Keeps

LEMMA SetKeepsDicts ==
  ASSUME IInv, TInv, NEW p \in Planners, NEW v, HasCacheType(v), Set(p, v)
  PROVE  DictInv' /\ ((WithinBound(Mine(p)) => WithinBound(v)) => Held)
<1>1. \A c \in Caches : cache'[c] = IF c = CacheOf[p] THEN v ELSE cache[c]
  BY DEF Set, IInv, Types
<1> QED BY <1>1, PlannersAssumption DEF TInv, DictInv, Held, Mine

LEMMA DictInvStays == ASSUME TInv, UNCHANGED cache PROVE DictInv'
  BY DEF TInv, DictInv

(* The vector that a planner waits for goes into its cache, and stays.     *)
LEMMA EmbeddedIsKept ==
  ASSUME IInv, TInv, NEW p \in Planners, Embedded(p)
  PROVE  DictInv' /\ Held /\ cache'[CacheOf[p]].vec[asked[p]] = Own(p)
<1> DEFINE v == Put(Mine(p), asked[p], Own(p))
<1>1. asked[p] \in Keys /\ Own(p) \in Vector /\ Mine(p).vec[asked[p]] = NoVec
  BY OwnIsVector DEF Embedded, IInv, Waiting
<1>2. Keeps(v, Mine(p)) /\ v.vec[asked[p]] = Own(p)
  BY <1>1, MineHasType, PutHasType DEF Keeps
<1>3. Set(p, v)
  BY DEF Embedded
<1> HIDE DEF v
<1>4. cache'[CacheOf[p]] = v
  BY <1>3, PlannersAssumption DEF Set, IInv, Types
<1> QED BY <1>2, <1>3, <1>4, SetKeepsDicts DEF Keeps

LEMMA InterruptKeepsDicts ==
  ASSUME IInv, TInv, NEW p \in Planners, Interrupt(p)
  PROVE  DictInv'
<1>2. ASSUME NEW c, HasCacheType(c), Set(p, c)  PROVE DictInv'
  BY <1>2, SetKeepsDicts
<1>3. CASE \E c \in CutReconcile(Mine(p), Model[p], Advertised[p]) : Set(p, c)
  <2>1. Mine(p).model \in Models /\ Mine(p).dim \in Lengths \cup {NoDim} /\ Model[p] \in Models
    BY MineHasType, PlannersAssumption DEF HasCacheType
  <2>2. \A c \in CutReconcile(Mine(p), Model[p], Advertised[p]) : HasCacheType(c)
    BY <2>1, EmptyHasType DEF CutReconcile
  <2> QED BY <1>2, <1>3, <2>2
<1>4. CASE \E c \in CutLoad(Reconciled(p), file) : Set(p, c)
  <2>1. \A c \in CutLoad(Reconciled(p), file) : HasCacheType(c)
    BY MineHasType, CutLoadHasType DEF Keeps, TInv, DumpInv
  <2> QED BY <1>2, <1>4, <2>1
<1>5. CASE pc[p] = "embed" /\ \E c \in CutPut(Mine(p), asked[p], Own(p)) : Set(p, c)
  <2>1. asked[p] \in Keys /\ Own(p) \in Vector
    BY <1>5, OwnIsVector DEF IInv, Waiting
  <2>2. \A c \in CutPut(Mine(p), asked[p], Own(p)) : HasCacheType(c)
    BY <2>1, MineHasType, CutPutHasType
  <2> QED BY <1>2, <1>5, <2>2
<1> QED BY <1>3, <1>4, <1>5 DEF Interrupt

LEMMA LoadHolds ==
  ASSUME IInv, TInv, NEW p \in Planners, LoadQueryCache(p)
  PROVE  DictInv' /\ Held
<1>1. Keeps(Load(Reconciled(p), file), Mine(p))
  BY MineHasType, LoadHasType DEF TInv, DumpInv, Keeps
<1> QED BY <1>1, SetKeepsDicts DEF LoadQueryCache, Keeps

LEMMA NextKeepsDicts == ASSUME IInv, TInv, Next PROVE DictInv'
<1> DEFINE Goal == DictInv'
<1>1. ASSUME NEW p \in Planners, NEW k \in Keys, Ask(p, k)  PROVE Goal
  BY <1>1, MineHasType, SetKeepsDicts DEF Ask, Keeps
<1>2. ASSUME NEW p \in Planners, Embedded(p)  PROVE Goal
  BY <1>2, EmbeddedIsKept
<1>3. ASSUME NEW p \in Planners, ClearQueryCache(p)  PROVE Goal
  <2>1. Keeps(Clear(Mine(p)), Mine(p))
    BY MineHasType, EmptyHasType, PlannersAssumption DEF Clear, HasCacheType, WithinBound, Keeps
  <2> QED BY <1>3, <2>1, SetKeepsDicts DEF ClearQueryCache, Keeps
<1>4. ASSUME NEW p \in Planners, LoadQueryCache(p)  PROVE Goal
  BY <1>4, LoadHolds
<1>5. ASSUME NEW p \in Planners, DumpStart(p)  PROVE Goal
  BY <1>5, MineHasType, SetKeepsDicts DEF DumpStart, Keeps
<1>6. ASSUME NEW p \in Planners, EmbedFails(p) \/ DumpWrite(p) \/ DumpRename(p) \/ DumpFails(p)
      PROVE  Goal
  BY <1>6, DictInvStays DEF EmbedFails, DumpWrite, DumpRename, DumpFails
<1>7. ASSUME NEW c \in Caches, Restart(c)  PROVE Goal
  <2>1. PICK m \in Models : cache' = [cache EXCEPT ![c] = Empty(m, NoDim)]
    BY <1>7 DEF Restart
  <2>2. HasCacheType(Empty(m, NoDim))
    BY EmptyHasType, PlannersAssumption
  <2>3. \A d \in Caches : cache'[d] = IF d = c THEN Empty(m, NoDim) ELSE cache[d]
    BY <2>1 DEF IInv, Types
  <2> QED BY <2>2, <2>3 DEF TInv, DictInv
<1>8. ASSUME Damage  PROVE Goal
  BY <1>8, DictInvStays DEF Damage
<1> QED BY <1>1, <1>2, <1>3, <1>4, <1>5, <1>6, <1>7, <1>8, InterruptKeepsDicts DEF Next

(* What a planner writes is a dump of a cache; what it renames is whole.   *)
LEMMA NextKeepsDumps == ASSUME IInv, TInv, Next PROVE DumpInv' /\ WholeTemp' /\ FileIsWhole'
<1> DEFINE Goal == DumpInv' /\ WholeTemp' /\ FileIsWhole'
<1>0. /\ \A p \in Planners : \A f : WriteTemp(p, f) =>
            \A q \in Planners : tmp'[q] = IF q = p THEN f ELSE tmp[q]
      /\ \A p \in Planners : \A s : pc' = [pc EXCEPT ![p] = s] =>
            \A q \in Planners : pc'[q] = IF q = p THEN s ELSE pc[q]
  BY DEF WriteTemp, TempsOf, IInv, Types
<1>1. ASSUME NEW p \in Planners, UNCHANGED <<tmp, file>>,
             \A q \in Planners \ {p} : pc'[q] = pc[q], pc'[p] # "rename" \/ pc'[p] = pc[p]
      PROVE  Goal
  BY <1>1 DEF TInv, DumpInv, WholeTemp, FileIsWhole
<1>2. ASSUME NEW p \in Planners, NEW k \in Keys, Ask(p, k)  PROVE Goal
  <2>1. UNCHANGED <<tmp, file>> /\ (pc' = pc \/ pc' = [pc EXCEPT ![p] = "embed"])
    BY <1>2 DEF Ask
  <2> QED BY <1>0, <1>1, <2>1
<1>3. ASSUME NEW p \in Planners, Embedded(p) \/ EmbedFails(p)  PROVE Goal
  <2>1. UNCHANGED <<tmp, file>> /\ pc' = [pc EXCEPT ![p] = "idle"]
    BY <1>3 DEF Embedded, EmbedFails
  <2> QED BY <1>0, <1>1, <2>1
<1>10. ASSUME NEW p \in Planners, Interrupt(p)  PROVE Goal
  <2>1. UNCHANGED <<tmp, file>> /\ pc' = [pc EXCEPT ![p] = "idle"]
    BY <1>10 DEF Interrupt
  <2> QED BY <1>0, <1>1, <2>1
<1>4. ASSUME NEW p \in Planners, ClearQueryCache(p) \/ LoadQueryCache(p)  PROVE Goal
  BY <1>1, <1>4 DEF ClearQueryCache, LoadQueryCache
<1>5. ASSUME NEW p \in Planners, DumpStart(p)  PROVE Goal
  <2> DEFINE f == [state |-> "partial", of |-> Reconciled(p)]
  <2>1. f \in Dump
    BY MineHasType, CacheTypeIs DEF Dump, Keeps
  <2>2. file' = file /\ (\/ UNCHANGED <<pc, tmp>>
                         \/ pc' = [pc EXCEPT ![p] = "dump"] /\ WriteTemp(p, f))
    BY <1>5 DEF DumpStart
  <2> HIDE DEF f
  <2>3. CASE UNCHANGED <<pc, tmp>>
    BY <1>1, <2>2, <2>3
  <2>4. CASE pc' = [pc EXCEPT ![p] = "dump"] /\ WriteTemp(p, f)
    <3>1. \A q \in Planners : tmp'[q] = IF q = p THEN f ELSE tmp[q]
      BY <1>0, <2>4
    <3>2. \A q \in Planners : pc'[q] = IF q = p THEN "dump" ELSE pc[q]
      BY <2>4 DEF IInv, Types
    <3> QED BY <2>1, <2>2, <3>1, <3>2 DEF TInv, DumpInv, WholeTemp, FileIsWhole
  <2> QED BY <2>2, <2>3, <2>4
<1>6. ASSUME NEW p \in Planners, DumpWrite(p)  PROVE Goal
  <2> DEFINE f == [state |-> "whole", of |-> tmp[p].of]
  <2>1. tmp[p] \in Dump /\ tmp[p] # NoFile
    BY <1>6 DEF DumpWrite, TInv, DumpInv
  <2>2. f \in Dump /\ f.state = "whole"
    BY <2>1 DEF Dump
  <2>3. file' = file /\ pc' = [pc EXCEPT ![p] = "rename"] /\ WriteTemp(p, f)
    BY <1>6 DEF DumpWrite
  <2> HIDE DEF f
  <2> QED BY <1>0, <2>2, <2>3 DEF TInv, DumpInv, WholeTemp, FileIsWhole
<1>7. ASSUME NEW p \in Planners, DumpRename(p) \/ DumpFails(p)  PROVE Goal
  <2>1. /\ pc' = [pc EXCEPT ![p] = "idle"] /\ WriteTemp(p, NoFile)
        /\ file' = file \/ (pc[p] = "rename" /\ file' = tmp[p])
    BY <1>7 DEF DumpRename, DumpFails
  <2>2. NoFile \in Dump
    BY DEF Dump
  <2>3. DumpInv' /\ WholeTemp'
    BY <1>0, <2>1, <2>2 DEF TInv, DumpInv, WholeTemp
  <2>4. FileIsWhole'
    BY <2>1 DEF TInv, WholeTemp, FileIsWhole
  <2> QED BY <2>3, <2>4
<1>8. ASSUME NEW c \in Caches, Restart(c)  PROVE Goal
  <2>1. /\ \A p \in Planners : tmp'[p] = NoFile \/ (tmp'[p] = tmp[p] /\ pc'[p] = pc[p])
        /\ file' = file
    BY <1>8 DEF Restart
  <2> QED BY <2>1 DEF TInv, DumpInv, WholeTemp, FileIsWhole, Dump
<1>9. ASSUME Damage  PROVE Goal
  <2>1. UNCHANGED <<pc, tmp>> /\ file \in Dump /\ file # NoFile
        /\ file' \in {NoFile, [state |-> "damaged", of |-> file.of]}
    BY <1>9 DEF Damage, TInv, DumpInv
  <2>2. file' \in Dump /\ (file' # NoFile => file'.state = "damaged")
    BY <2>1 DEF Dump
  <2> QED BY <2>1, <2>2 DEF TInv, DumpInv, WholeTemp, FileIsWhole
<1> QED BY <1>2, <1>3, <1>4, <1>5, <1>6, <1>7, <1>8, <1>9, <1>10 DEF Next

LEMMA NextKeepsTInv == IInv /\ TInv /\ [Next]_vars => TInv'
<1> SUFFICES ASSUME IInv, TInv, [Next]_vars PROVE TInv'
  OBVIOUS
<1>1. CASE UNCHANGED vars
  BY <1>1 DEF vars, TInv, DictInv, DumpInv, WholeTemp, FileIsWhole
<1>2. CASE Next
  BY <1>2, NextKeepsDicts, NextKeepsDumps DEF TInv
<1> QED BY <1>1, <1>2

LEMMA AlwaysTInv == Spec => []TInv
  BY InitIInv, NextPreserves, InitTInv, NextKeepsTInv, PTL DEF Spec

(* The variables have their types; in particular the order of a cache      *)
(* lists exactly the keys its dict maps, each once, whatever was evicted,  *)
(* merged, cleared or re-tagged (query_cache.py:59-91 and 167-176).        *)
THEOREM TypeCorrect == Spec => []TypeOK
<1>1. IInv /\ TInv => TypeOK
  <2> SUFFICES ASSUME IInv, TInv PROVE TypeOK
    OBVIOUS
  <2>1. \A c \in Caches : cache[c] \in CacheType
    BY CacheTypeIs DEF TInv, DictInv
  <2>2. tmp \in [Planners -> Dump] /\ file \in Dump
    BY DEF TInv, DumpInv, IInv, Types
  <2> QED BY <2>1, <2>2 DEF TypeOK, IInv, Types, PCs
<1> QED BY <1>1, InitIInv, NextPreserves, AlwaysTInv, PTL DEF Spec

(* Neither a put nor a load takes a cache beyond max_entries               *)
(* (query_cache.py:87-91 and 174-175), whatever the bound.                 *)
THEOREM CacheIsBounded == Spec => Bounded
<1>1. ASSUME IInv, TInv, NEW p \in Planners, Embedded(p) \/ LoadQueryCache(p)
      PROVE  WithinBound(Mine(p)) => WithinBound(Mine(p)')
  <2>1. Held
    BY <1>1, EmbeddedIsKept, LoadHolds
  <2> QED BY <2>1, PlannersAssumption DEF Held, Mine
<1>2. IInv /\ TInv /\ [Next]_vars
         => [\A p \in Planners : Embedded(p) \/ LoadQueryCache(p) =>
                (WithinBound(Mine(p)) => WithinBound(Mine(p)'))]_vars
  BY <1>1
<1> QED BY <1>2, InitIInv, NextPreserves, AlwaysTInv, PTL DEF Spec, Bounded

(* Nobody finds a half-written dump at the shared path: a planner renames  *)
(* its own temporary, after both writes (query_cache.py:115-123), however  *)
(* many dump at once and whoever of them dies.                             *)
THEOREM DumpIsAtomic == Spec => []FileIsWhole
<1>1. TInv => FileIsWhole
  BY DEF TInv
<1> QED BY <1>1, AlwaysTInv, PTL

(* put() keeps the vector it was given (query_cache.py:75-91), even if the *)
(* cache is full, or fuller than that, or was of another dimension.        *)
THEOREM FreshVectorIsKept == Spec => FreshIsKept
<1>1. IInv /\ TInv /\ [Next]_vars
         => [\A p \in Planners : Embedded(p) => cache'[CacheOf[p]].vec[asked[p]] = Own(p)]_vars
  BY EmbeddedIsKept
<1> QED BY <1>1, InitIInv, NextPreserves, AlwaysTInv, PTL DEF Spec, FreshIsKept
=============================================================================
