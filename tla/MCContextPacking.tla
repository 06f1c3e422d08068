-------------------------- MODULE MCContextPacking --------------------------
(***************************************************************************)
(* Results and counters for ContextPacking.  A card of 124 characters just *)
(* fills the cards' share of a budget of 40; "fact --CALLS--> fact" is a   *)
(* line of 20.                                                             *)
(***************************************************************************)
EXTENDS ContextPacking

(* A tokenizer that gives a dense text a token per character. *)
Dense(c) == c

Link(a, b, rel, conf, chars) ==
    [src |-> a, dst |-> b, relation |-> rel, confidence |-> conf, chars |-> chars]

(* An edge to itself, chains with and without a tie, and two relations of *)
(* one pair at one confidence.                                            *)
Links == {{}, {Link(1, 1, 1, 100, 20)},
          {Link(1, 2, 1, 60, 20), Link(2, 3, 1, 100, 30), Link(1, 3, 1, 80, 20)},
          {Link(3, 1, 1, 100, 24), Link(2, 1, 1, 60, 20), Link(1, 2, 1, 100, 20)},
          {Link(1, 2, 1, 100, 24), Link(1, 2, 2, 100, 20)}}

Numbered(chars) == {[id |-> i, chars |-> chars[i]] : i \in DOMAIN chars}

(* The nodes 1..n, one or two of them seeds, the others a hop or two away. *)
Explain(chars, seeds, ranking, edges) ==
    LET Known(i) == i \in 1..Len(chars)
        at == {i \in 1..Len(chars) : \E k \in DOMAIN seeds : seeds[k] = i}
    IN  [intent |-> "EXPLAIN", items |-> Numbered(chars),
         seeds |-> SelectSeq(seeds, Known), depths |-> [i \in 1..Len(chars) |-> IF i \in at THEN 0 ELSE i],
         ranking |-> SelectSeq(ranking, Known),
         edges |-> {e \in edges : Known(e.src) /\ Known(e.dst)}, symchars |-> 1]

Explained == {Explain(cs, s, r, e) : cs \in {<<>>, <<140>>, <<60, 150, 30, 29>>, <<124, 30, 33>>},
                                     s \in {<<2, 1>>, <<3, 1>>},
                                     r \in {<<>>, <<1, 2>>, <<3, 1, 2>>}, e \in Links}

Locate(sym, chars) ==
    [intent |-> "LOCATE", items |-> Numbered(chars),
     seeds |-> <<>>, depths |-> <<>>, ranking |-> <<>>, edges |-> {}, symchars |-> sym]

Located == {Locate(s, cs) : s \in {1, 9, 30},
                            cs \in {<<>>, <<32>>, <<30, 60, 33, 32>>, <<32, 32, 32, 32, 32, 32>>}}

AllResults == Explained \cup Located

Tight == {-5, 0, 90} \cup 1..60
Few == {-5, 0, 1, 8, 20, 40, 47, 60, 90}
=============================================================================
