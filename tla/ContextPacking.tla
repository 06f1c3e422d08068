--------------------------- MODULE ContextPacking ---------------------------
(***************************************************************************)
(* ContextBuilder.build() of context.py: a retrieval result packed into a  *)
(* token budget, one iteration of each loop at a time.  A card, a line or  *)
(* a reference is its length in characters, and Count is the TokenCounter; *)
(* uids and relations sort as their numbers do.  A reference of LOCATE has *)
(* its place in the list for an id.  The sorted lists the loops run over   *)
(* are sets, of which each iteration takes the first in the order.         *)
(***************************************************************************)
EXTENDS Integers, Sequences, FiniteSets, FiniteSetsExt

CONSTANTS
    Results,    \* retrieval results
    Budgets,    \* values of budget_tokens, negative ones too
    Count(_),   \* TokenCounter.count of a text of so many characters
    MaxLength,  \* no card, line or header is longer
    MaxCards

Item == [id : Nat, chars : 1..MaxLength]
Edge == [src : Nat, dst : Nat, relation : Nat, confidence : 0..100, chars : 1..MaxLength]

(* The rows of the store: nodes and edges have keys.  A line of a reference *)
(* has 19 characters beside its name, relation and file.                    *)
IsResult(r) ==
    /\ r.intent \in {"EXPLAIN", "LOCATE"}
    /\ r.items \subseteq Item /\ IsFiniteSet(r.items)
    /\ \A m, n \in r.items : m.id = n.id => m = n
    /\ r.edges \subseteq Edge /\ IsFiniteSet(r.edges)
    /\ \A e, f \in r.edges :
          e.src = f.src /\ e.dst = f.dst /\ e.relation = f.relation => e = f
    /\ r.seeds \in Seq(Nat) /\ r.ranking \in Seq(Nat)
    /\ r.depths \in [DOMAIN r.depths -> Nat]
    /\ r.symchars \in 1..(MaxLength - 15)
    /\ r.intent = "LOCATE" => \A n \in r.items : n.chars >= 19

ASSUME ContextAssumption ==
    /\ MaxCards \in Nat /\ MaxLength \in Nat /\ Budgets \subseteq Int
    /\ \A r \in Results : IsResult(r)

(* The test "used == 0" for the first card (context.py:158) relies on a    *)
(* counter that gives a text a token at least, as HeuristicCounter does.   *)
ASSUME CounterAssumption ==
    \A c \in 0..MaxLength : Count(c) \in Nat /\ (c > 0 => Count(c) > 0)

(* HeuristicCounter: a token per four characters, at least one. *)
Heuristic(c) == Max({1, (c + 3) \div 4})

VARIABLES
    pc,         \* "start", then "cards" and "relations", or "refs", then "done"
    result,
    budget,     \* clamped
    rest,       \* what the running loop has still to look at
    packed,     \* the cards or references taken: [id, chars]
    used,       \* used_tokens
    dropped,
    truncated,  \* card_truncated, until truncated is decided
    lines,      \* of the Relationships block
    spent       \* on those lines

vars == <<pc, result, budget, rest, packed, used, dropped, truncated, lines, spent>>

Init ==
    /\ pc = "start" /\ result \in Results /\ budget = 0
    /\ rest = {} /\ packed = <<>> /\ lines = <<>>
    /\ used = 0 /\ dropped = 0 /\ spent = 0 /\ truncated = FALSE

-----------------------------------------------------------------------------
(* int(budget * _SAFETY) and int(effective * _RESERVE). *)
Effective(b) == (b * 9) \div 10
Reserve(b) == (Effective(b) * 15) \div 100
CardBudget(b) == Effective(b) - Reserve(b)

(* _edge_confidence: the best edge at a node, in hundredths. *)
Confidence(n) ==
    LET at == {e \in result.edges : n.id \in {e.src, e.dst}}
    IN  Max({0} \cup {e.confidence : e \in at})

(* The seed, depth and confidence proxy, in sixty-thousandths: *)
(* 0.5 (1 - i/seeds) + 0.3/(1 + d) + 0.2 conf.                 *)
Rank(n) ==
    LET k == Len(result.seeds)
        seeded == {i \in 1..k : result.seeds[i] = n.id}
        d == IF n.id \in DOMAIN result.depths THEN result.depths[n.id] ELSE 99
    IN  (IF seeded = {} THEN 0 ELSE (30000 * (k + 1 - Max(seeded))) \div k)
        + 18000 \div (1 + d) + 120 * Confidence(n)

(* The ranker's position, all that it did not rank after all it did. *)
Position(n) ==
    LET at == {i \in DOMAIN result.ranking : result.ranking[i] = n.id}
    IN  IF at = {} THEN Len(result.ranking) + 1 ELSE Max(at)

(* What sorted() sorts by before the uid; references stay as they come. *)
SortKey(n) ==
    CASE result.intent = "LOCATE" -> 0
      [] result.intent # "LOCATE" /\ result.ranking # <<>> -> Position(n)
      [] OTHER -> -Rank(n)

Precedes(m, n) == SortKey(m) < SortKey(n) \/ (SortKey(m) = SortKey(n) /\ m.id < n.id)

First(S) == CHOOSE n \in S : \A m \in S \ {n} : Precedes(n, m)

(* The first max_cards of the nodes. *)
Ordered == {n \in result.items : Cardinality({m \in result.items : Precedes(m, n)}) < MaxCards}

HeaderChars == result.symchars + 15     \* **symbol** - used at:

-----------------------------------------------------------------------------
Finish(outcome) ==
    /\ pc' = "done" /\ rest' = {}
    /\ truncated' = outcome

Unclamped(b) == b    \* mutant of Clamped

Clamped(b) == Max({0, b})

(* build(), up to the loop of cards or of references. *)
BuildExplain(b) ==
    /\ pc = "start" /\ result.intent = "EXPLAIN" /\ result.items # {}
    /\ budget' = Clamped(b)
    /\ pc' = "cards" /\ rest' = Ordered
    /\ dropped' = Cardinality(result.items) - Cardinality(Ordered)
    /\ UNCHANGED <<result, packed, used, truncated, lines, spent>>

BuildNothing(b) ==
    /\ pc = "start" /\ result.intent = "EXPLAIN" /\ result.items = {}
    /\ budget' = Clamped(b)
    /\ Finish(FALSE)
    /\ UNCHANGED <<result, packed, used, dropped, lines, spent>>

(* The header, or when it does not fit the symbol cut to the ceiling. *)
BuildLocate(b) ==
    /\ pc = "start" /\ result.intent = "LOCATE"
    /\ budget' = Clamped(b)
    /\ LET ceiling == Effective(Clamped(b))
           plain == Min({result.symchars, 4 * ceiling})
       IN  IF Count(HeaderChars) > ceiling
           THEN /\ used' = IF plain = 0 THEN 0 ELSE Count(plain)
                /\ dropped' = Cardinality(result.items)
                /\ Finish(TRUE)
           ELSE /\ used' = Count(HeaderChars)
                /\ pc' = "refs" /\ rest' = result.items
                /\ UNCHANGED <<dropped, truncated>>
    /\ UNCHANGED <<result, packed, lines, spent>>

-----------------------------------------------------------------------------
Card == First(rest)

FirstOverflows == used = 0 /\ Count(Card.chars) > CardBudget(budget)

DropUncounted ==    \* mutant of DropAll
    /\ pc = "cards" /\ rest # {} /\ FirstOverflows /\ CardBudget(budget) <= 0
    /\ rest' = {}
    /\ UNCHANGED <<pc, result, budget, packed, used, dropped, truncated, lines, spent>>

(* The first card overflows: nothing fits, or it is cut to the budget, and *)
(* then loses a backtick that the cut left without its pair.               *)
DropAll ==
    /\ pc = "cards" /\ rest # {} /\ FirstOverflows /\ CardBudget(budget) <= 0
    /\ dropped' = dropped + Cardinality(Ordered)
    /\ rest' = {}
    /\ UNCHANGED <<pc, result, budget, packed, used, truncated, lines, spent>>

KeepFirst ==    \* mutant of CutFirst: "always emit one card", whole
    /\ pc = "cards" /\ rest # {} /\ FirstOverflows /\ CardBudget(budget) > 0
    /\ packed' = Append(packed, Card) /\ used' = used + Count(Card.chars)
    /\ truncated' = TRUE
    /\ dropped' = dropped + Cardinality(Ordered) - 1
    /\ rest' = {}
    /\ UNCHANGED <<pc, result, budget, lines, spent>>

CutFirst ==
    /\ pc = "cards" /\ rest # {} /\ FirstOverflows /\ CardBudget(budget) > 0
    /\ \E odd \in {0, 1} :
        LET cut == Min({Card.chars, 4 * CardBudget(budget)}) - odd
        IN  /\ packed' = Append(packed, [id |-> Card.id, chars |-> cut])
            /\ used' = used + Count(cut)
    /\ truncated' = TRUE
    /\ dropped' = dropped + Cardinality(Ordered) - 1
    /\ rest' = {}
    /\ UNCHANGED <<pc, result, budget, lines, spent>>

FitsBelow ==    \* mutant of Fits: a card that just fills the budget is left out
    used + Count(Card.chars) < CardBudget(budget)

Fits == used + Count(Card.chars) <= CardBudget(budget)

SkipCard ==
    /\ pc = "cards" /\ rest # {} /\ ~FirstOverflows /\ ~Fits
    /\ dropped' = dropped + 1 /\ rest' = rest \ {Card}
    /\ UNCHANGED <<pc, result, budget, packed, used, truncated, lines, spent>>

AddCard ==
    /\ pc = "cards" /\ rest # {} /\ ~FirstOverflows /\ Fits
    /\ packed' = Append(packed, Card) /\ rest' = rest \ {Card}
    /\ used' = used + Count(Card.chars)
    /\ UNCHANGED <<pc, result, budget, dropped, truncated, lines, spent>>

-----------------------------------------------------------------------------
Included == {packed[i].id : i \in DOMAIN packed}

AnyEnd(e) ==    \* mutant of Incident: one end is enough
    e.src \in Included \/ e.dst \in Included

Incident(e) == e.src \in Included /\ e.dst \in Included

EdgeOrder(e, f) ==
    \/ e.confidence > f.confidence
    \/ e.confidence = f.confidence /\ e.src < f.src
    \/ e.confidence = f.confidence /\ e.src = f.src /\ e.dst < f.dst
    \/ e.confidence = f.confidence /\ e.src = f.src /\ e.dst = f.dst /\ e.relation < f.relation

Cap == Min({Reserve(budget), Max({0, budget - used})})

(* _relationships: the edges in order, up to the first that does not fit. *)
StartRelations ==
    /\ pc = "cards" /\ rest = {}
    /\ pc' = "relations"
    /\ rest' = {e \in result.edges : Incident(e) /\ Cap > 0}
    /\ UNCHANGED <<result, budget, packed, used, dropped, truncated, lines, spent>>

Line == CHOOSE e \in rest : \A f \in rest \ {e} : EdgeOrder(e, f)

AddLine ==
    /\ pc = "relations" /\ rest # {} /\ spent + Count(Line.chars) <= Cap
    /\ lines' = Append(lines, Line) /\ rest' = rest \ {Line}
    /\ spent' = spent + Count(Line.chars)
    /\ UNCHANGED <<pc, result, budget, packed, used, dropped, truncated>>

EndExplain ==
    /\ pc = "relations"
    /\ rest # {} => spent + Count(Line.chars) > Cap
    /\ used' = used + spent
    /\ Finish(dropped > 0 \/ truncated)
    /\ UNCHANGED <<result, budget, packed, dropped, lines, spent>>

-----------------------------------------------------------------------------
FitsWhole ==    \* mutant of FitsCeiling: no safety margin
    used + Count(Card.chars) <= budget

FitsCeiling == used + Count(Card.chars) <= Effective(budget)

AddReference ==
    /\ pc = "refs" /\ rest # {} /\ FitsCeiling
    /\ packed' = Append(packed, Card) /\ rest' = rest \ {Card}
    /\ used' = used + Count(Card.chars)
    /\ UNCHANGED <<pc, result, budget, dropped, truncated, lines, spent>>

SkipReference ==
    /\ pc = "refs" /\ rest # {} /\ ~FitsCeiling
    /\ dropped' = dropped + 1 /\ rest' = rest \ {Card}
    /\ UNCHANGED <<pc, result, budget, packed, used, truncated, lines, spent>>

(* Without references a line of 15 characters says so, if it fits. *)
EndLocate ==
    /\ pc = "refs" /\ rest = {}
    /\ IF result.items = {} /\ used + Count(15) <= Effective(budget)
       THEN lines' = <<[chars |-> 15]>> /\ used' = used + Count(15)
       ELSE UNCHANGED <<lines, used>>
    /\ Finish(dropped > 0)
    /\ UNCHANGED <<result, budget, packed, dropped, spent>>

Next ==
    \/ \E b \in Budgets : BuildExplain(b) \/ BuildNothing(b) \/ BuildLocate(b)
    \/ DropAll \/ CutFirst \/ SkipCard \/ AddCard
    \/ StartRelations \/ AddLine \/ EndExplain
    \/ AddReference \/ SkipReference \/ EndLocate

Spec == Init /\ [][Next]_vars

-----------------------------------------------------------------------------
(* A sum of naturals, counted one by one: the i-th of them contributes the *)
(* pairs <<i, 1>>, <<i, 2>>, ... up to its value.                          *)
Sum(ns) == Cardinality(UNION {{i} \X (1..ns[i]) : i \in DOMAIN ns})

(* Tokens and characters of a sequence of texts. *)
Cost(s) == Sum([i \in DOMAIN s |-> Count(s[i].chars)])
Chars(s) == Sum([i \in DOMAIN s |-> s[i].chars])

Taken == {lines[i] : i \in DOMAIN lines}

(* The types; the budget that is spent was never negative. *)
TypeOK ==
    /\ pc \in {"start", "cards", "relations", "refs", "done"}
    /\ result \in Results
    /\ budget \in Nat /\ used \in Nat /\ dropped \in Nat /\ spent \in Nat
    /\ truncated \in BOOLEAN
    /\ rest \subseteq (IF pc = "relations" THEN result.edges ELSE result.items)
    /\ Included \subseteq {n.id : n \in result.items}
    /\ Len(packed) = Cardinality(Included)

(***************************************************************************)
(* "used_tokens never exceeds budget_tokens (which is itself clamped to    *)
(* >= 0)" (context.py:48-49): the cut card, the skipped ones, the          *)
(* relationships out of the reserve and the LOCATE header included.        *)
(***************************************************************************)
UsedWithinBudget == used <= budget

(***************************************************************************)
(* "truncated/dropped make any budget-level loss explicit"                 *)
(* (context.py:44-46): every node or reference of the result is packed or  *)
(* counted as dropped, however the loop ended, and truncated says so.      *)
(***************************************************************************)
NothingLostUncounted ==
    pc = "done" =>
        /\ Len(packed) + dropped = Cardinality(result.items)
        /\ dropped > 0 => truncated

(***************************************************************************)
(* The packing is greedy and skips (context.py:173-175): a node left out   *)
(* for want of room does not fit beside the cards that were taken, and a   *)
(* card is only cut when it is the best-ranked one and stands alone.       *)
(* The packing spec has a loop that stops: StopsAtFirstMisfit, below.      *)
(***************************************************************************)
PackingIsMaximal ==
    pc = "done" /\ result.intent = "EXPLAIN" /\ packed # <<>> =>
        \/ /\ \A n \in Ordered : n.id \notin Included =>
                 Cost(packed) + Count(n.chars) > CardBudget(budget)
           /\ Head(packed) = First(Ordered)
        \/ /\ Count(First(Ordered).chars) > CardBudget(budget) /\ truncated
           /\ Len(packed) = 1 /\ Head(packed).id = First(Ordered).id

(***************************************************************************)
(* "add cards while used + count(card) <= budget - reserve; stop and count *)
(* the rest as dropped" (context-builder-packing.md:71-72): no card is     *)
(* taken after one that did not fit.                                       *)
(***************************************************************************)
StopsAtFirstMisfit ==
    pc = "done" /\ result.intent = "EXPLAIN" =>
        \A m, n \in Ordered : Precedes(m, n) /\ n.id \in Included => m.id \in Included

(***************************************************************************)
(* "Relationships block among the INCLUDED nodes, highest-confidence       *)
(* first, within the reserve" (context.py:181): no line names a node       *)
(* without a card, and an edge left out is no better than one shown.       *)
(***************************************************************************)
RelationsJoinIncluded ==
    pc = "done" /\ result.intent = "EXPLAIN" =>
        /\ \A e \in Taken : {e.src, e.dst} \subseteq Included
        /\ Cost(lines) <= Reserve(budget)
        /\ \A e \in Taken, f \in result.edges \ Taken :
              {f.src, f.dst} \subseteq Included => f.confidence <= e.confidence

(* The length of ContextResult.text: cards two newlines apart and the     *)
(* Relationships heading, or lines one newline apart under the header.    *)
TextChars ==
    IF result.intent = "EXPLAIN"
    THEN Chars(packed) + Max({0, 2 * (Len(packed) - 1)})
         + (IF lines = <<>> THEN 0 ELSE 20 + Chars(lines) + Len(lines) - 1)
    ELSE HeaderChars + Chars(packed) + Chars(lines) + Len(packed) + Len(lines)

(***************************************************************************)
(* "Done = output never exceeds budget" (context-builder-packing.md:20),   *)
(* "0 cases of count(text) > budget_tokens"                                *)
(* (adversarial-review-2026-06-24-pr3.md:91): the text itself, with the    *)
(* separators and headings that used_tokens leaves out, fits the budget.   *)
(***************************************************************************)
TextWithinBudget == pc = "done" /\ packed # <<>> => Count(TextChars) <= budget

(* For LOCATE, whose header is cut to the budget and whose references are  *)
(* let in under a safety margin, the promise is kept, separators included. *)
LocateWithinBudget == result.intent = "LOCATE" => TextWithinBudget
=============================================================================
