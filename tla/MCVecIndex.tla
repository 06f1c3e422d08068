----------------------------- MODULE MCVecIndex -----------------------------
(***************************************************************************)
(* Sessions over VecIndex: embedders of one dimension or of two.           *)
(***************************************************************************)
EXTENDS VecIndex, TLC

OneDim  == [m \in Models |-> 2]
TwoDims == [m \in Models |-> IF m = "A" THEN 2 ELSE 3]

(* Uids are only compared with one another. *)
Swaps == Permutations(Uids)

(* The bound on interrupts: a call is cut when the index is in step and    *)
(* nothing is uncommitted, a rebuild when the committed table has no wrong *)
(* row.  What a cut leaves is then carried through every other step.       *)
CutFromOrder ==
    Interrupt => \/ InStep /\ view = db
                 \/ pc \in {"rebuild", "refill"} /\ InSync(db)
=============================================================================
