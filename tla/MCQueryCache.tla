---------------------------- MODULE MCQueryCache ----------------------------
(***************************************************************************)
(* Planners over QueryCache.  p and q share the cache of one process, r    *)
(* has a process of its own and the same file.                             *)
(***************************************************************************)
EXTENDS QueryCache, TLC

Shared == [x \in Planners |-> IF x = "r" THEN "c2" ELSE "c1"]

\* p and q have different models, q and r one
Strangers == [x \in Planners |-> IF x = "p" THEN "A" ELSE "B"]
Sizes     == [x \in Planners |-> IF x = "p" THEN 2 ELSE 3]
\* p does not know its length, q advertises a wrong one, r its own
Claims    == [x \in Planners |-> CASE x = "p" -> NoDim [] x = "q" -> 2 [] OTHER -> 3]

\* one model, of one length, which nobody advertises
OneModel == [x \in Planners |-> "A"]
AllTwo   == [x \in Planners |-> 2]
Unknown  == [x \in Planners |-> NoDim]
\* p advertises the wrong length
WrongDim == [x \in Planners |-> IF x = "p" THEN 3 ELSE 2]
=============================================================================
