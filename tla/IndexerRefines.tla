--------------------------- MODULE IndexerRefines ---------------------------
(***************************************************************************)
(* Indexer implements IndexSpec: its passes, its rollbacks and its         *)
(* refreshes are the one step Finish, Abort, or nothing to a reader.       *)
(***************************************************************************)
EXTENDS Indexer

CONSTANTS Unread, NoRun

ASSUME UnreadAssumption == Unread \notin Contents \cup {NoContent}
ASSUME NoRunAssumption == NoRun \notin [Files -> Contents \cup {NoContent, Unread}]

(* What the run has seen so far.  Before the loop over the deleted files   *)
(* that is which files are listed; afterwards it is the bytes it kept, and *)
(* for the files it skips, could not read or dropped, what the transaction *)
(* holds.                                                                  *)
Found ==
    CASE phase \in {"idle", "embed"} -> NoRun
      [] phase = "delete" -> [f \in Files |-> IF f \in toRead THEN Unread ELSE NoContent]
      [] OTHER -> [f \in Files |-> IF f \in toRead THEN Unread
                                   ELSE IF changed[f] # NoContent THEN changed[f]
                                   ELSE view.sha[f]]

Abstract == INSTANCE IndexSpec
    WITH tree <- disk, indexed <- db.sha, symbols <- db.nodes, found <- Found

(***************************************************************************)
(* "runs in ONE transaction and commits exactly once" (indexer.py:85-88):  *)
(* to the readers of the store an index() that succeeds is atomic, one     *)
(* that fails or dies and a refresh change nothing, and each content it    *)
(* records is one that the run read, unless the file could not be read.    *)
(***************************************************************************)
ImplementsIndexSpec == Abstract!Spec
=============================================================================
