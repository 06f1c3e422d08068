------------------------------ MODULE IndexSpec ------------------------------
(***************************************************************************)
(* What Indexer.index promises to whoever reads the store, without a store *)
(* or a transaction: a run looks at the files one after the other, while   *)
(* they change, and then all it saw is recorded at once, or nothing is.    *)
(* The symbols a reader finds are those of the recorded contents, at every *)
(* moment.                                                                 *)
(***************************************************************************)
EXTENDS Integers

CONSTANTS
    Files,
    Contents,      \* records with the field defs, the names that are defined
    NoContent,     \* no such file
    Flaky,         \* files that may be unreadable
    Unread,        \* a file that the run has still to look at
    NoRun          \* no run is under way

VARIABLES
    tree,          \* the working tree
    indexed,       \* what the store records of each file
    symbols,       \* what the store offers to its readers
    found          \* what the run saw of each file, or NoRun

vars == <<tree, indexed, symbols, found>>

Tree == [Files -> Contents \cup {NoContent}]

SymbolsIn(t) ==
    UNION {{<<f, n>> : n \in t[f].defs} : f \in {g \in Files : t[g] # NoContent}}

Unreadable(f) == tree[f] = NoContent \/ f \in Flaky

Init ==
    /\ tree \in Tree
    /\ indexed = [f \in Files |-> NoContent]
    /\ symbols = {}
    /\ found = NoRun

(* Somebody saves or removes a file. *)
Edit(f, c) ==
    /\ tree' = [tree EXCEPT ![f] = c]
    /\ UNCHANGED <<indexed, symbols, found>>

(* A file that is not listed counts as removed. *)
Begin(listed) ==
    /\ found = NoRun
    /\ \A f \in Files : ~Unreadable(f) => f \in listed
    /\ \A f \in listed : tree[f] # NoContent
    /\ found' = [f \in Files |-> IF f \in listed THEN Unread ELSE NoContent]
    /\ UNCHANGED <<tree, indexed, symbols>>

(* A listed file that can no longer be read stays recorded as it was. *)
Look(f) ==
    /\ found # NoRun /\ found[f] = Unread
    /\ \/ /\ tree[f] # NoContent
          /\ found' = [found EXCEPT ![f] = tree[f]]
       \/ /\ Unreadable(f)
          /\ found' = [found EXCEPT ![f] = indexed[f]]
    /\ UNCHANGED <<tree, indexed, symbols>>

Finish ==
    /\ found # NoRun /\ \A f \in Files : found[f] # Unread
    /\ indexed' = found
    /\ symbols' = SymbolsIn(found)
    /\ found' = NoRun
    /\ UNCHANGED tree

Abort ==
    /\ found # NoRun
    /\ found' = NoRun
    /\ UNCHANGED <<tree, indexed, symbols>>

Next ==
    \/ \E f \in Files, c \in Contents \cup {NoContent} : Edit(f, c)
    \/ \E listed \in SUBSET Files : Begin(listed)
    \/ \E f \in Files : Look(f)
    \/ Finish
    \/ Abort

Spec == Init /\ [][Next]_vars
=============================================================================
