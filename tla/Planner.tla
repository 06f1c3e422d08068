------------------------------ MODULE Planner ------------------------------
(***************************************************************************)
(* Routing by intent (planner.py, filters.py): the LLM's verdict and its   *)
(* cache, the regex fallback, the guard against symbols that do not exist, *)
(* the grounding of LOCATE and the rows of FILTER.  One classifier serves  *)
(* several planners, each with a store of its own that is indexed between  *)
(* the queries.  What EXPLAIN returns is the subject of VecIndex, Traverse *)
(* and ContextPacking.                                                     *)
(*                                                                         *)
(* A node is its uid, and uids are numbers in their order.  A word is what *)
(* _IDENT finds in a query, or what a model may name.                      *)
(***************************************************************************)
EXTENDS Integers, FiniteSets, Sequences

CONSTANTS
    Planners, Queries, Words,
    Plain,          \* the planners with a DefaultIntentClassifier
    Guard,          \* symbol_exists looks at this planner's store; or NoWord
    Nodes,          \* uids
    Files,          \* those of file nodes
    NamedBy,        \* [Words -> SUBSET Nodes]: name = :t OR uid = :t
    Attrs,          \* [Nodes -> [type, lang, file, mtime]]; file may be NoNode
    Tokens,         \* [Queries -> Seq(Words)]
    BareTail,       \* [Words -> Words]: the last component
    Stopwords, Verbs, Shaped,    \* kinds of words
    WordLen,        \* [Words -> Nat]
    LocateQueries,  \* those that match _LOCATE
    Replies,        \* what the client may answer
    Values,         \* of filters; "" is the empty one
    Scalars,        \* those that are no list or dictionary
    Epoch,          \* [Values -> Int]: _to_epoch, NoEpoch for None
    Glob,           \* [Values -> SUBSET Nodes]: the files a pattern matches
    MaxCache,       \* 0 for no bound
    Ks,             \* values of k
    Failure, NoWord, NoNode, NoEpoch

ASSUME PlannerAssumption ==
    /\ IsFiniteSet(Nodes) /\ Nodes \subseteq Nat /\ Files \subseteq Nodes
    /\ NamedBy \in [Words -> SUBSET Nodes] /\ WordLen \in [Words -> Nat]
    /\ Tokens \in [Queries -> Seq(Words)] /\ BareTail \in [Words -> Words]
    /\ Guard \in Planners \cup {NoWord} /\ Plain \subseteq Planners
    /\ MaxCache \in Nat /\ Ks \subseteq Int
    /\ NoWord \notin Words \cup Planners /\ NoNode \notin Nodes /\ Failure \in Replies

VARIABLES
    store,      \* [Planners -> SUBSET Nodes]
    cache,      \* LLMIntentClassifier.cache, oldest first
    said,       \* the client's last answer to each query
    answer      \* what retrieve() has returned, until a store changes

vars == <<store, cache, said, answer>>

NoAnswer == [intent |-> "none"]

Init ==
    /\ store = [p \in Planners |-> {}]
    /\ cache = <<>>
    /\ said = [q \in Queries |-> Failure]
    /\ answer = NoAnswer

-----------------------------------------------------------------------------
(***************************************************************************)
(* LLMIntentClassifier.  A filter is a function from keys to values.       *)
(***************************************************************************)
Intents == {"LOCATE", "EXPLAIN", "FILTER"}

Classify(q) == IF q \in LocateQueries THEN "LOCATE" ELSE "EXPLAIN"

Valid(r) == r # Failure /\ r.intent \in Intents /\ r.confidence \in 0..100

(* _parse: what does not validate falls back, low confidence explains. *)
Parse(q, r) ==
    IF Valid(r)
    THEN [intent |-> IF r.confidence < 50 THEN "EXPLAIN" ELSE r.intent,
          symbol |-> r.symbol, filters |-> r.filters]
    ELSE [intent |-> Classify(q), symbol |-> NoWord, filters |-> <<>>]

IsCached(q) == \E i \in DOMAIN cache : cache[i].query = q

VerdictOf(q) == cache[CHOOSE i \in DOMAIN cache : cache[i].query = q].verdict

RememberAll(q, v) == Append(cache, [query |-> q, verdict |-> v])    \* mutant of Remember

(* A new verdict goes to the end; when it is one too many the first goes. *)
Remember(q, v) ==
    LET all == Append(cache, [query |-> q, verdict |-> v])
    IN  IF MaxCache # 0 /\ Len(all) > MaxCache THEN Tail(all) ELSE all

SymbolExists(p, w) == (NamedBy[w] \cap store[p]) \ Files # {}

Downgraded(v) == [v EXCEPT !.intent = "EXPLAIN"]

(* The guard of analyze(), on a copy; an exception in it changes nothing. *)
Guarded(v, raises) ==
    IF v.intent = "LOCATE" /\ v.symbol # NoWord /\ Guard # NoWord /\ ~raises
       /\ ~SymbolExists(Guard, v.symbol)
    THEN Downgraded(v) ELSE v

-----------------------------------------------------------------------------
(***************************************************************************)
(* locate().                                                               *)
(***************************************************************************)
(* The words of a query, every token before its tail. *)
Offered(q) ==
    [i \in 1..(2 * Len(Tokens[q])) |->
        LET t == Tokens[q][(i + 1) \div 2] IN IF i % 2 = 1 THEN t ELSE BareTail[t]]

(* Identifier-shaped, then plain, then verbs. *)
Class(w) == IF w \in Shaped THEN 1 ELSE IF w \in Verbs THEN 3 ELSE 2

ByLength(s, i, j) ==    \* mutant of Before: the verbs are not demoted
    LET c(w) == IF w \in Shaped THEN 1 ELSE 2
    IN  \/ c(s[i]) < c(s[j])
        \/ c(s[i]) = c(s[j]) /\ (WordLen[s[i]] > WordLen[s[j]] \/ (WordLen[s[i]] = WordLen[s[j]] /\ i < j))

(* By class, the longest first, otherwise in their order in s. *)
Before(s, i, j) ==
    \/ Class(s[i]) < Class(s[j])
    \/ /\ Class(s[i]) = Class(s[j])
       /\ \/ WordLen[s[i]] > WordLen[s[j]]
          \/ WordLen[s[i]] = WordLen[s[j]] /\ i < j

(* The places of the words that are no stopwords, each at its first. *)
Candidates(q) ==
    LET s == Offered(q)
    IN  {i \in DOMAIN s : s[i] \notin Stopwords /\ \A j \in 1..(i - 1) : s[j] # s[i]}

Names(p, w) == NamedBy[w] \cap store[p] # {}    \* a file node too

(* The best candidate that names a node. *)
Grounded(p, q) ==
    LET s    == Offered(q)
        hits == {i \in Candidates(q) : Names(p, s[i])}
    IN  IF hits = {} THEN NoWord
        ELSE s[CHOOSE i \in hits : \A j \in hits \ {i} : Before(s, i, j)]

Located(p, q, symbol) ==
    LET found == IF symbol # NoWord /\ Names(p, symbol) THEN symbol ELSE Grounded(p, q)
    IN  [ intent |-> "LOCATE", planner |-> p, query |-> q, symbol |-> found,
          matched |-> IF found = NoWord THEN {} ELSE NamedBy[found] \cap store[p] ]

-----------------------------------------------------------------------------
(***************************************************************************)
(* _filter() and build_filter_query().                                     *)
(***************************************************************************)
Allowed == {"type", "lang", "path_glob", "since"}

Usable(f) == {key \in DOMAIN f \cap Allowed :
                 /\ f[key] # "" /\ f[key] \in Scalars
                 /\ key = "since" => Epoch[f[key]] # NoEpoch}

Satisfies(p, n, key, value) ==
    CASE key = "type"      -> Attrs[n].type = value
      [] key = "lang"      -> Attrs[n].lang = value
      [] key = "path_glob" -> Attrs[n].file \in Glob[value]
      [] key = "since"     -> Attrs[n].file \in store[p] \cap Files /\ Attrs[Attrs[n].file].mtime >= Epoch[value]

(* WHERE: the symbols of the store that satisfy every predicate. *)
Where(p, f) == {n \in store[p] \ Files : \A key \in Usable(f) : Satisfies(p, n, key, f[key])}

CapOnly(k) == IF k > 0 THEN k ELSE Cardinality(Nodes)    \* mutant of Limit

(* LIMIT: one more than are shown, without a cap for k <= 0. *)
Limit(k) == IF k > 0 THEN k + 1 ELSE Cardinality(Nodes)

(* ORDER BY uid LIMIT l *)
Lowest(rows, l) == {n \in rows : Cardinality({m \in rows : m < n}) < l}

(* No query is made when no predicate is left. *)
Selected(p, f, k) == IF Usable(f) = {} THEN {} ELSE Lowest(Where(p, f), Limit(k))

Filtered(p, q, f, k) ==
    LET ids == Selected(p, f, k)
        cut == k > 0 /\ Cardinality(ids) > k
    IN  [ intent |-> "FILTER", planner |-> p, query |-> q, filters |-> f, k |-> k,
          ids |-> IF cut THEN Lowest(ids, k) ELSE ids,
          truncated |-> cut, dropped |-> DOMAIN f \ Usable(f) ]

-----------------------------------------------------------------------------
Explained(p, q) == [intent |-> "EXPLAIN", planner |-> p, query |-> q]

(* retrieve() with the verdict of analyze(): the guard again, on the store *)
(* of this planner.                                                        *)
Routed(p, q, v, k) ==
    CASE v.intent = "LOCATE"  -> IF v.symbol # NoWord /\ ~SymbolExists(p, v.symbol)
                                 THEN Explained(p, q) ELSE Located(p, q, v.symbol)
      [] v.intent = "FILTER"  -> Filtered(p, q, v.filters, k)
      [] v.intent = "EXPLAIN" -> Explained(p, q)

KeepGuarded(p, q, r, raises, k) ==    \* mutant of Consult: the guarded verdict is cached
    LET v == Guarded(IF IsCached(q) THEN VerdictOf(q) ELSE Parse(q, r), raises) IN
    /\ said' = IF IsCached(q) THEN said ELSE [said EXCEPT ![q] = r]
    /\ cache' = IF IsCached(q) THEN cache ELSE Remember(q, v)
    /\ answer' = Routed(p, q, v, k)

(* A cached verdict, or the client's, which is cached before the guard. *)
Consult(p, q, r, raises, k) ==
    LET v == IF IsCached(q) THEN VerdictOf(q) ELSE Parse(q, r) IN
    /\ said' = IF IsCached(q) THEN said ELSE [said EXCEPT ![q] = r]
    /\ cache' = IF IsCached(q) THEN cache ELSE Remember(q, v)
    /\ answer' = Routed(p, q, Guarded(v, raises), k)

Retrieve(p, q, r, raises, k) ==
    /\ p \notin Plain
    /\ Consult(p, q, r, raises, k)
    /\ UNCHANGED store

RetrievePlain(p, q) ==
    /\ p \in Plain
    /\ answer' = IF Classify(q) = "LOCATE" THEN Located(p, q, NoWord) ELSE Explained(p, q)
    /\ UNCHANGED <<store, cache, said>>

(* index(): nodes come and go. *)
Reindex(p, n) ==
    /\ store' = [store EXCEPT ![p] = IF n \in @ THEN @ \ {n} ELSE @ \cup {n}]
    /\ answer' = NoAnswer
    /\ UNCHANGED <<cache, said>>

Next ==
    \/ \E p \in Planners, q \in Queries, r \in Replies, raises \in BOOLEAN, k \in Ks :
          Retrieve(p, q, r, raises, k)
    \/ \E p \in Planners, q \in Queries : RetrievePlain(p, q)
    \/ \E p \in Planners, n \in Nodes : Reindex(p, n)

Spec == Init /\ [][Next]_vars

-----------------------------------------------------------------------------
(* The types; a query is cached once, and never more than MaxCache are. *)
TypeOK ==
    /\ store \in [Planners -> SUBSET Nodes]
    /\ \A i \in DOMAIN cache : cache[i].query \in Queries /\ cache[i].verdict.intent \in Intents
    /\ \A i, j \in DOMAIN cache : cache[i].query = cache[j].query => i = j
    /\ MaxCache # 0 => Len(cache) <= MaxCache
    /\ said \in [Queries -> Replies]
    /\ answer.intent \in Intents \cup {"none"}

Answered(p, q) == answer # NoAnswer /\ answer.planner = p /\ answer.query = q

(***************************************************************************)
(* However long ago the client said it, and whatever another planner's     *)
(* store has to say: a confident LOCATE of a symbol locates that symbol    *)
(* where it exists now, and explains where it does not (planner.py:101-107,*)
(* "a symbol indexed later stops being downgraded").  With symbol_exists,  *)
(* that is said of the planner whose store it looks at.                    *)
(***************************************************************************)
LocatesWhatTheModelNamed ==
    \A p \in {x \in Planners \ Plain : Guard \in {x, NoWord}}, q \in Queries :
        LET r == said[q] IN
        Answered(p, q) /\ Valid(r) /\ r.intent = "LOCATE" /\ r.confidence >= 50 /\ r.symbol # NoWord =>
            IF (NamedBy[r.symbol] \cap store[p]) \ Files # {}
            THEN answer.intent = "LOCATE" /\ answer.symbol = r.symbol
            ELSE answer.intent = "EXPLAIN"

(***************************************************************************)
(* "a query verb never out-ranks the real target" (planner.py:44): a LOCATE*)
(* without a symbol from the model is grounded on a verb, or on a plain    *)
(* word, only if no better word of the query, or tail of one, names a node.*)
(***************************************************************************)
VerbsAreLastResort ==
    answer.intent = "LOCATE" /\ (answer.planner \in Plain \/ ~Valid(said[answer.query])) =>
        LET toks   == Tokens[answer.query]
            words  == {toks[i] : i \in DOMAIN toks} \cup {BareTail[toks[i]] : i \in DOMAIN toks}
            naming == {w \in words \ Stopwords : NamedBy[w] \cap store[answer.planner] # {}}
        IN  /\ answer.symbol = NoWord <=> naming = {}
            /\ answer.symbol \in Verbs \ Shaped => naming \subseteq Verbs \ Shaped
            /\ naming \cap Shaped # {} => answer.symbol \in Shaped

(***************************************************************************)
(* FILTER is exact, "so the cap is never silent" (planner.py:311): without *)
(* truncated it lists every symbol that satisfies the usable predicates,   *)
(* with it the first k by uid of more than k; and a filter of which nothing*)
(* is usable lists nothing.                                                *)
(***************************************************************************)
CapIsNeverSilent ==
    answer.intent = "FILTER" =>
        LET f     == answer.filters
            ids   == answer.ids
            match == {n \in store[answer.planner] \ Files :
                         \A key \in DOMAIN f \ answer.dropped : Satisfies(answer.planner, n, key, f[key])}
        IN  IF answer.dropped = DOMAIN f THEN ids = {}
            ELSE IF answer.truncated
            THEN /\ ids \subseteq match /\ Cardinality(ids) = answer.k
                 /\ \A n \in ids, o \in match \ ids : n < o
            ELSE ids = match

(* "Stopwords (incl. the LOCATE/EXPLAIN verbs) are dropped" from the words *)
(* a query is grounded on (planner.py:351).                                *)
VerbsAreDropped ==
    answer.intent = "LOCATE" /\ (answer.planner \in Plain \/ ~Valid(said[answer.query])) =>
        answer.symbol \notin Verbs
=============================================================================
