----------------------------- MODULE PyResolver -----------------------------
(***************************************************************************)
(* The precise resolver for Python (adapters/code/python_resolver.py): the *)
(* three passes over one module and the edges they emit, beside what the   *)
(* names mean to Python.                                                   *)
(*                                                                         *)
(* A module is a set of statements, numbered in the order of the text; a   *)
(* statement carries the set of those it is in, outermost first by their   *)
(* numbers.  A dotted name, a path and a qualified name are the sequence   *)
(* of their parts; a path has no .py, and <<>> is none.                    *)
(***************************************************************************)
EXTENDS Integers, FiniteSets, FiniteSetsExt, SequencesExt

CONSTANTS
    Text,       \* the statements there are
    Modules,    \* sets of statements, each with those they are in
    Paths,      \* of files
    Names,
    NoName

NoTarget == <<>>

Expr == [recv : Names \cup {NoName}, name : Names]    \* recv.name, or name

Statement ==
    [kind : {"def"}, in : SUBSET Nat, name : Names, params : SUBSET Names, empty : BOOLEAN]
    \cup [kind : {"class"}, in : SUBSET Nat, name : Names, empty : BOOLEAN, expr : Expr \cup {NoName}]
    \cup [kind : {"block"}, in : SUBSET Nat]
    \cup [kind : {"bind"}, in : SUBSET Nat, name : Names]
    \cup [kind : {"call"}, in : SUBSET Nat, expr : Expr]
    \cup [kind : {"import"}, in : SUBSET Nat, module : Seq(STRING) \ {<<>>}, as : Names \cup {NoName}]
    \cup [kind : {"from"}, in : SUBSET Nat, level : Nat, module : Seq(STRING),
          name : Names \cup {"*"}, as : Names \cup {NoName}]

(* The statements are a tree, and a module has what its statements are in. *)
ASSUME TextAssumption ==
    /\ DOMAIN Text \subseteq Nat \ {0}
    /\ \A i \in DOMAIN Text :
          /\ Text[i] \in Statement /\ Text[i].in \subseteq DOMAIN Text \cap 1..(i - 1)
          /\ \A j \in Text[i].in : Text[j].in = {k \in Text[i].in : k < j}
    /\ \A m \in Modules :
          m \subseteq DOMAIN Text /\ IsFiniteSet(m) /\ \A i \in m : Text[i].in \subseteq m
    /\ Paths \subseteq Seq(STRING) \ {<<>>} /\ NoName \notin Names \cup {"self", "cls"}

VARIABLES
    path,       \* of the file
    mod,        \* its text
    pc,         \* the pass that comes next
    imports,    \* name -> the symbol it was imported as
    modImports, \* name -> the module it may stand for
    star,       \* the statements `from m import *`
    uid,        \* definition -> its uid
    moduleDefs, \* name -> uid
    methods,    \* <<class, name>> -> uid
    edges

vars == <<path, mod, pc, imports, modImports, star, uid, moduleDefs, methods, edges>>

Init ==
    /\ path \in Paths /\ mod \in Modules
    /\ pc = "imports"
    /\ imports = [n \in Names |-> NoTarget] /\ modImports = [n \in Names |-> <<>>]
    /\ star = {}
    /\ uid = <<>> /\ moduleDefs = [n \in Names |-> NoTarget] /\ methods = <<>>
    /\ edges = {}

-----------------------------------------------------------------------------
(***************************************************************************)
(* Where a statement is.                                                   *)
(***************************************************************************)
IsDef(i) == Text[i].kind \in {"def", "class"}

(* The definitions around it, innermost last; blocks are no scopes. *)
Around == [i \in DOMAIN Text |-> {j \in Text[i].in : IsDef(j)}]

Scope == [i \in DOMAIN Text |-> Max({0} \cup Around[i])]

NamesOf(S) == LET order == SetToSortSeq(S, <) IN [k \in DOMAIN order |-> Text[order[k]].name]

Stack == [i \in DOMAIN Text |-> NamesOf(Around[i])]
Qual == [i \in {j \in DOMAIN Text : IsDef(j)} |-> NamesOf(Around[i] \cup {i})]

Of(kinds) == {i \in mod : Text[i].kind \in kinds}
Defs == Of({"def", "class"})

InClass(i) == Scope[i] # 0 /\ Text[Scope[i]].kind = "class"

(* classq: the innermost class, through functions too. *)
ClassQual(i) ==
    LET classes == {j \in Around[i] : Text[j].kind = "class"}
    IN  IF classes = {} THEN <<>> ELSE Qual[Max(classes)]

Symbol(p, n) == [path |-> p, qual |-> <<n>>, ord |-> 0]

-----------------------------------------------------------------------------
(***************************************************************************)
(* _collect_imports.                                                       *)
(***************************************************************************)
(* ast.walk goes breadth first. *)
Earlier(i, j) ==
    LET Depth(k) == Cardinality(Text[k].in)
    IN  Depth(i) < Depth(j) \/ (Depth(i) = Depth(j) /\ i < j)

Earliest(S) == CHOOSE i \in S : \A j \in S \ {i} : Earlier(i, j)
Latest(S) == CHOOSE i \in S : \A j \in S \ {i} : Earlier(j, i)

PackageParts ==
    LET parts == IF Last(path) = "__init__" THEN Front(path) ELSE path IN Front(parts)

(* _from_relpath with the package of the module. *)
From(i, package) ==
    LET up == Text[i].level - 1
    IN  IF Text[i].level = 0 THEN Text[i].module
        ELSE IF Text[i].level > Len(package) THEN <<>>
        ELSE SubSeq(package, 1, Len(package) - up) \o Text[i].module

Alias(i) ==
    IF Text[i].as # NoName THEN Text[i].as
    ELSE IF Text[i].kind = "import" THEN Head(Text[i].module) ELSE Text[i].name

(* What `import` binds its alias to: without `as` the top-level package. *)
Bound(i) == IF Text[i].as # NoName THEN Text[i].module ELSE <<Head(Text[i].module)>>

CollectImports ==
    LET syms   == {i \in Of({"from"}) : Text[i].name # "*" /\ From(i, PackageParts) # <<>>}
        For(S, n) == {i \in S : Alias(i) = n}
        named  == {i \in Of({"import"}) : Text[i].as # NoName}
        others == (Of({"import"}) \ named) \cup syms
        Offer(i) == IF Text[i].kind = "import" THEN Bound(i)
                    ELSE From(i, PackageParts) \o <<Text[i].name>>
    IN  /\ pc = "imports"
        /\ pc' = "defs"
        /\ imports' = [n \in Names |->
               IF For(syms, n) = {} THEN NoTarget
               ELSE LET i == Latest(For(syms, n)) IN Symbol(From(i, PackageParts), Text[i].name)]
        /\ modImports' = [n \in Names |->      \* an alias is assigned, the others setdefault
               IF For(named, n) # {} THEN Bound(Latest(For(named, n)))
               ELSE IF For(others, n) # {} THEN Offer(Earliest(For(others, n))) ELSE <<>>]
        /\ star' = {i \in Of({"from"}) : Text[i].name = "*" /\ From(i, PackageParts) # <<>>}
        /\ UNCHANGED <<path, mod, uid, moduleDefs, methods, edges>>

-----------------------------------------------------------------------------
(***************************************************************************)
(* _collect_defs.                                                          *)
(***************************************************************************)
IsStub(i) == Text[i].empty /\ \A j \in mod : i \notin Text[j].in

NoOrdinal(i) == [path |-> path, qual |-> Qual[i], ord |-> 0]    \* mutant of Uid

(* The second definition with a qualified name is #1, and so on. *)
Uid(i) ==
    [ path |-> path, qual |-> Qual[i],
      ord  |-> Cardinality({j \in Defs : j < i /\ Qual[j] = Qual[i]}) ]

FirstOne(S) == Min(S)    \* mutant of Effective: an overload is taken for the function

(* The first of the definitions of a name that is no stub, or the first. *)
Effective(S) ==
    LET real == {i \in S : ~IsStub(i)} IN Min(IF real = {} THEN S ELSE real)

CollectDefs ==
    LET Named(S, n) == {i \in S : Text[i].name = n}
        top     == {i \in Defs : Around[i] = {}}
        members == {i \in Defs : InClass(i)}
        Keyed(key) == {i \in members : <<Qual[Scope[i]], Text[i].name>> = key}
    IN  /\ pc = "defs"
        /\ pc' = "edges"
        /\ uid' = [i \in Defs |-> Uid(i)]
        /\ moduleDefs' = [n \in Names |->
               IF Named(top, n) = {} THEN NoTarget ELSE Uid(Effective(Named(top, n)))]
        /\ methods' = [key \in {<<Qual[Scope[i]], Text[i].name>> : i \in members} |->
               Uid(Effective(Keyed(key)))]
        /\ UNCHANGED <<path, mod, imports, modImports, star, edges>>

-----------------------------------------------------------------------------
(***************************************************************************)
(* _walk_edges and _resolve, with the scopes of symtable.                  *)
(***************************************************************************)
Binds(j, n) ==
    \/ Text[j].kind \in {"def", "class", "bind"} /\ Text[j].name = n
    \/ Text[j].kind \in {"import", "from"} /\ Alias(j) = n

Imported(s, n) == \E j \in Of({"import", "from"}) : Scope[j] = s /\ Alias(j) = n

(* is_parameter() or (is_local() and not is_imported()). *)
Locals(s) ==
    {n \in Names : \/ n \in Text[s].params
                   \/ ~Imported(s, n) /\ \E j \in mod : Scope[j] = s /\ Binds(j, n)}

LastSibling(stack, n) ==    \* mutant of Shadowed: the last of the scopes of one name
    LET scopes == {s \in Of({"def"}) : Qual[s] = stack} IN scopes # {} /\ n \in Locals(Max(scopes))

(* Scopes with one qualified name shadow for each other. *)
Shadowed(stack, n) == \E s \in Of({"def"}) : Qual[s] = stack /\ n \in Locals(s)

ResolveName(i, n) ==
    IF Shadowed(Stack[i], n) THEN NoTarget
    ELSE IF moduleDefs[n] # NoTarget THEN [to |-> moduleDefs[n], conf |-> 100]
    ELSE IF imports[n] # NoTarget THEN [to |-> imports[n], conf |-> 97]
    ELSE IF Cardinality(star) = 1
    THEN [to |-> Symbol(From(CHOOSE j \in star : TRUE, PackageParts), n), conf |-> 50]
    ELSE NoTarget

ResolveAttribute(i, recv, n) ==
    LET key == <<ClassQual(i), n>> IN
    IF modImports[recv] # <<>> THEN [to |-> Symbol(modImports[recv], n), conf |-> 95]
    ELSE IF recv \in {"self", "cls"} /\ key \in DOMAIN methods
    THEN [to |-> methods[key], conf |-> 92]
    ELSE NoTarget

Resolve(i, expr) ==
    IF expr.recv = NoName THEN ResolveName(i, expr.name)
    ELSE ResolveAttribute(i, expr.recv, expr.name)

(* The uses of names: the calls inside definitions, the bases of classes. *)
Uses ==
    {i \in Of({"call"}) : Scope[i] # 0} \cup {i \in Of({"class"}) : Text[i].expr # NoName}

Edge(i, resolved) ==
    [ at |-> i, src |-> uid[IF Text[i].kind = "call" THEN Scope[i] ELSE i],
      dst |-> resolved.to, conf |-> resolved.conf,
      relation |-> IF Text[i].kind = "call" THEN "CALLS" ELSE "INHERITS" ]

WalkEdges ==
    /\ pc = "edges"
    /\ pc' = "done"
    /\ LET resolved == [i \in Uses |-> Resolve(i, Text[i].expr)]
       IN  edges' = {Edge(i, resolved[i]) : i \in {j \in Uses : resolved[j] # NoTarget}}
    /\ UNCHANGED <<path, mod, imports, modImports, star, uid, moduleDefs, methods>>

(* The text does not parse: an empty extraction. *)
Unparsable ==
    /\ pc = "imports"
    /\ pc' = "failed"
    /\ UNCHANGED <<path, mod, imports, modImports, star, uid, moduleDefs, methods, edges>>

Next == CollectImports \/ CollectDefs \/ WalkEdges \/ Unparsable

Spec == Init /\ [][Next]_vars

-----------------------------------------------------------------------------
(* The types; no two definitions have one uid, and an edge leaves the      *)
(* definition its use is in and stays inside the module only to a node.    *)
TypeOK ==
    /\ path \in Paths /\ mod \subseteq DOMAIN Text
    /\ pc \in {"imports", "defs", "edges", "done", "failed"}
    /\ \A i, j \in DOMAIN uid : uid[i] = uid[j] => i = j
    /\ \A e \in edges :
          /\ e.src.qual = (IF e.relation = "CALLS" THEN Stack[e.at] ELSE Qual[e.at])
          /\ e.conf \in {92, 100} => \E i \in DOMAIN uid : uid[i] = e.dst

-----------------------------------------------------------------------------
(***************************************************************************)
(* What names mean to Python.  A name is looked up in its own scope, then  *)
(* in the functions around it, then in the module; a class around it does  *)
(* not count.                                                              *)
(***************************************************************************)
BoundIn(s, n) ==
    \/ s # 0 /\ Text[s].kind = "def" /\ n \in Text[s].params
    \/ \E j \in mod : Scope[j] = s /\ Binds(j, n)

(* -1 when nothing in the text binds it. *)
BindingScope(i, n) ==
    LET visible == {0, Scope[i]} \cup {s \in Around[i] : Text[s].kind = "def"}
    IN  Max({-1} \cup {s \in visible : BoundIn(s, n)})

Binders(s, n) == {j \in mod : Scope[j] = s /\ Binds(j, n)}

(* The directory of the file is its package, for an __init__.py too. *)
Package == Front(path)

(* What a binder makes of its name, and of an attribute of it. *)
ValueOf(j) ==
    CASE IsDef(j)                                             -> {uid[j]}
      [] Text[j].kind = "from" /\ From(j, Package) # <<>>     -> {Symbol(From(j, Package), Text[j].name)}
      [] OTHER                                                -> {}

AttributeOf(j, n) ==
    CASE Text[j].kind = "import" /\ Text[j].as # NoName        -> {Symbol(Text[j].module, n)}
      [] Text[j].kind = "import" /\ Text[j].as = NoName        -> {Symbol(<<Alias(j)>>, n)}
      [] Text[j].kind = "from" /\ From(j, Package) # <<>>     -> {Symbol(From(j, Package) \o <<Text[j].name>>, n)}
      [] OTHER                                                -> {}

Stars == {j \in Of({"from"}) : Text[j].name = "*" /\ From(j, Package) # <<>>}

Values(s, n) == UNION {ValueOf(j) : j \in Binders(s, n)}
Starred(n) == {Symbol(From(j, Package), n) : j \in Stars}
Attributes(s, recv, n) == UNION {AttributeOf(j, n) : j \in Binders(s, recv)}

OwnMethods(s, recv, n) ==
    IF s > 0 /\ recv \in {"self", "cls"} /\ Text[s].kind = "def" /\ InClass(s) /\ recv \in Text[s].params
    THEN {uid[j] : j \in {k \in Defs : Scope[k] = Scope[s] /\ Text[k].name = n}}
    ELSE {}

Looked(i) == IF Text[i].expr.recv = NoName THEN Text[i].expr.name ELSE Text[i].expr.recv

Means(i) ==
    LET n == Text[i].expr.name
        s == BindingScope(i, Looked(i))
    IN  IF Text[i].expr.recv = NoName
        THEN Values(s, n) \cup (IF s <= 0 THEN Starred(n) ELSE {})
        ELSE Attributes(s, Looked(i), n) \cup OwnMethods(s, Looked(i), n)

(***************************************************************************)
(* "an imperfect module-path guess yields a skipped edge, never a wrong    *)
(* one.  symtable is used to skip calls to a name shadowed by a local      *)
(* variable / parameter" (python_resolver.py:10-14): every edge is one of  *)
(* the things the name may mean.                                           *)
(***************************************************************************)
NeverWrong == \A e \in edges : e.dst \in Means(e.at)

(* s is a method with the parameter n, of the only class of its name, and  *)
(* nothing else there or among the imports is called n.                    *)
SelfOf(s, n) ==
    /\ s > 0 /\ InClass(s) /\ Binders(s, n) = {}
    /\ \A j \in Of({"import", "from"}) : Alias(j) # n
    /\ \A k \in Of({"class"}) : Qual[k] = Qual[Scope[s]] => k = Scope[s]

(***************************************************************************)
(* The resolver keeps one map of imports for the whole module and looks    *)
(* only at the innermost scope.  A use is straight when that is enough: it *)
(* is in a function or a base, its name is bound in its own scope or in    *)
(* the module, not by an import that is elsewhere, and a receiver is a     *)
(* module of the text or the self of the method it is in.                  *)
(***************************************************************************)
Straight(i) ==
    LET n == Looked(i)
        s == BindingScope(i, n)
    IN  /\ s \in {-1, 0, Scope[i]}
        /\ s > 0 => Text[s].kind = "def"
        /\ \A j \in Of({"import", "from"}) : Alias(j) = n => Scope[j] = 0
        /\ Last(path) = "__init__" => \A j \in Of({"from"}) : Text[j].level = 0
        /\ Text[i].expr.recv # NoName =>
              IF n \in {"self", "cls"} THEN SelfOf(s, n) ELSE s <= 0

(* Then the claim holds, among overloads, siblings of one name, locals     *)
(* that are nested defs, and modules that bind a name more than once.      *)
StraightIsNeverWrong == \A e \in edges : Straight(e.at) => e.dst \in Means(e.at)

(***************************************************************************)
(* "name bound to a local/global def in the table", "name via the import   *)
(* map", "attribute on a known module alias" (python-precise-resolver.md,  *)
(* step 5): a straight use that can mean one thing only has its edge, and  *)
(* a function is its implementation when there are overloads of it.        *)
(***************************************************************************)
Unique(i) ==
    LET n == Looked(i)
        s == BindingScope(i, n)
        B == Binders(s, n)
    IN  /\ ~Shadowed(Stack[i], n) /\ Stars = {}
        /\ IF Text[i].expr.recv \in {"self", "cls"} THEN Means(i) # {} /\ modImports[n] = <<>>
           ELSE Means(i) # {} /\ (Cardinality(B) = 1 \/ (s = 0 /\ \A j \in B : IsDef(j)))

Stubs == {uid[j] : j \in {k \in Defs : IsStub(k)}}

CertainIsFound ==
    pc = "done" => \A i \in Uses : Straight(i) /\ Unique(i) =>
        \E e \in edges :
            /\ e.at = i /\ e.dst \in Means(i)
            /\ e.dst \in Stubs => Means(i) \subseteq Stubs
=============================================================================
