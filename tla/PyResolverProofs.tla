--------------------------- MODULE PyResolverProofs ---------------------------
(***************************************************************************)
(* The resolver for any text, path and set of names: uids are unique, a    *)
(* straight use never has a wrong edge, and a certain one has its edge.    *)
(***************************************************************************)
EXTENDS PyResolver, FiniteSetTheorems, WellFoundedInduction, TLAPS

-----------------------------------------------------------------------------
(***************************************************************************)
(* Orders.  R is the set of the pairs in order.                            *)
(***************************************************************************)
TotalOn(R, S) == \A x, y \in S : x # y => <<x, y>> \in R \/ <<y, x>> \in R
TransitiveOn(R, S) == \A x, y, z \in S : <<x, y>> \in R /\ <<y, z>> \in R => <<x, z>> \in R
LeastIn(R, S, x) == x \in S /\ \A y \in S \ {x} : <<x, y>> \in R

(* A smallest set without a least element would have one: an element of it *)
(* or the least of the others.                                             *)
LEMMA LeastExists ==
  ASSUME NEW S, IsFiniteSet(S), S # {}, NEW R, TotalOn(R, S), TransitiveOn(R, S)
  PROVE  \E x : LeastIn(R, S, x)
<1> DEFINE Bad == {T \in SUBSET S : T # {} /\ \A x : ~LeastIn(R, T, x)}
<1>1. Bad = {}
  <2> SUFFICES ASSUME Bad # {} PROVE FALSE
    OBVIOUS
  <2>1. IsWellFoundedOn(StrictSubsetOrdering(S), SUBSET S)
    BY FS_StrictSubsetOrderingWellFounded, FS_FiniteSubsetsOfFinite
  <2>2. Bad \subseteq SUBSET S
    OBVIOUS
  <2>3. PICK T \in Bad : \A U \in Bad : ~ (<<U, T>> \in StrictSubsetOrdering(S))
    <3> HIDE DEF Bad
    <3> QED BY <2>1, <2>2, WFMin
  <2>4. T \subseteq S /\ T # {} /\ \A x : ~LeastIn(R, T, x)
    OBVIOUS
  <2>5. PICK x : x \in T
    BY <2>4
  <2> DEFINE U == T \ {x}
  <2>6. CASE U = {}
    BY <2>4, <2>5, <2>6 DEF LeastIn
  <2>7. CASE U # {}
    <3>1. <<U, T>> \in StrictSubsetOrdering(S)
      BY <2>4, <2>5 DEF StrictSubsetOrdering
    <3>2. PICK y : LeastIn(R, U, y)
      BY <2>3, <2>4, <2>7, <3>1
    <3>3. x \in S /\ y \in S /\ x # y /\ y \in T
      BY <2>4, <2>5, <3>2 DEF LeastIn
    <3>4. CASE <<x, y>> \in R
      <4>1. LeastIn(R, T, x)
        <5> SUFFICES ASSUME NEW z \in T \ {x} PROVE <<x, z>> \in R
          BY <2>5 DEF LeastIn
        <5>1. z = y \/ <<y, z>> \in R
          BY <3>2 DEF LeastIn
        <5> QED BY <2>4, <3>3, <3>4, <5>1 DEF TransitiveOn
      <4> QED BY <2>4, <4>1
    <3>5. CASE <<y, x>> \in R
      <4>1. LeastIn(R, T, y)
        BY <3>2, <3>3, <3>5 DEF LeastIn
      <4> QED BY <2>4, <4>1
    <3> QED BY <3>3, <3>4, <3>5 DEF TotalOn
  <2> QED BY <2>6, <2>7
<1> QED BY <1>1

LEMMA MaxIs ==
  ASSUME NEW S \in SUBSET Int, IsFiniteSet(S), S # {}
  PROVE  Max(S) \in S /\ Max(S) \in Int /\ \A y \in S : y <= Max(S)
<1> DEFINE R == {p \in Int \X Int : p[1] >= p[2]}
<1>1. TotalOn(R, S) /\ TransitiveOn(R, S)
  BY DEF TotalOn, TransitiveOn
<1>2. \A x, y \in Int : <<x, y>> \in R <=> x >= y
  OBVIOUS
<1> HIDE DEF R
<1>3. PICK x : LeastIn(R, S, x)
  BY <1>1, LeastExists
<1>4. x \in S /\ \A y \in S : x >= y
  <2>1. x \in S /\ \A y \in S \ {x} : <<x, y>> \in R
    BY <1>3 DEF LeastIn
  <2>2. ASSUME NEW y \in S PROVE x >= y
    <3>1. CASE y = x
      BY <2>1, <3>1
    <3>2. CASE y # x
      BY <1>2, <2>1, <3>2
    <3> QED BY <3>1, <3>2
  <2> QED BY <2>1, <2>2
<1>5. Max(S) \in S /\ \A y \in S : Max(S) >= y
  BY <1>4 DEF Max
<1> QED BY <1>5

LEMMA MinIs ==
  ASSUME NEW S \in SUBSET Int, IsFiniteSet(S), S # {}
  PROVE  Min(S) \in S /\ \A y \in S : Min(S) <= y
<1> DEFINE R == {p \in Int \X Int : p[1] <= p[2]}
<1>1. TotalOn(R, S) /\ TransitiveOn(R, S)
  BY DEF TotalOn, TransitiveOn
<1>2. \A x, y \in Int : <<x, y>> \in R <=> x <= y
  OBVIOUS
<1> HIDE DEF R
<1>3. PICK x : LeastIn(R, S, x)
  BY <1>1, LeastExists
<1>4. x \in S /\ \A y \in S : x <= y
  <2>1. x \in S /\ \A y \in S \ {x} : <<x, y>> \in R
    BY <1>3 DEF LeastIn
  <2>2. ASSUME NEW y \in S PROVE x <= y
    <3>1. CASE y = x
      BY <2>1, <3>1
    <3>2. CASE y # x
      BY <1>2, <2>1, <3>2
    <3> QED BY <3>1, <3>2
  <2> QED BY <2>1, <2>2
<1> QED BY <1>4 DEF Min

-----------------------------------------------------------------------------
(***************************************************************************)
(* Where a statement is.                                                   *)
(***************************************************************************)
LEMMA KindsHave ==
  ASSUME NEW i \in DOMAIN Text
  PROVE  /\ Text[i].kind \in {"def", "class", "block", "bind", "import", "from", "call"}
         /\ IsDef(i) => Text[i].name \in Names
         /\ Text[i].kind = "call" => Text[i].expr \in Expr
         /\ Text[i].kind = "class" => Text[i].expr \in Expr \cup {NoName}
         /\ Text[i].kind = "import" =>
               Text[i].module \in Seq(STRING) /\ Text[i].module # <<>> /\ Text[i].as \in Names \cup {NoName}
         /\ Text[i].kind = "from" =>
               /\ Text[i].level \in Nat /\ Text[i].module \in Seq(STRING)
               /\ Text[i].name \in Names \cup {"*"} /\ Text[i].as \in Names \cup {NoName}
BY TextAssumption DEF Statement, IsDef

LEMMA StatementsAreNested ==
  ASSUME NEW i \in DOMAIN Text
  PROVE  /\ i \in Nat /\ i > 0
         /\ IsFiniteSet(Text[i].in) /\ Cardinality(Text[i].in) \in Nat
         /\ \A j \in Text[i].in :
               j \in DOMAIN Text /\ j \in Nat /\ 0 < j /\ j < i
               /\ Text[j].in = {k \in Text[i].in : k < j}
<1>1. i \in Nat /\ i > 0
  BY TextAssumption
<1>2. IsFiniteSet(1..(i - 1))
  BY <1>1, FS_Interval
<1>3. Text[i].in \subseteq 1..(i - 1)
  BY TextAssumption
<1>4. IsFiniteSet(Text[i].in) /\ Cardinality(Text[i].in) \in Nat
  BY <1>2, <1>3, FS_Subset, FS_CardinalityType
<1> QED BY <1>1, <1>3, <1>4, TextAssumption

(* The innermost definition around i, and that its own surroundings are    *)
(* the rest of them.                                                       *)
LEMMA ScopeIs ==
  ASSUME NEW i \in DOMAIN Text
  PROVE  /\ Scope[i] \in Nat
         /\ Scope[i] = 0 <=> Around[i] = {}
         /\ Scope[i] # 0 => /\ Scope[i] \in Text[i].in /\ IsDef(Scope[i])
                            /\ Around[i] = Around[Scope[i]] \cup {Scope[i]}
                            /\ \A j \in Around[i] : j <= Scope[i]
<1> DEFINE S == {0} \cup Around[i]
<1>1. Around[i] = {j \in Text[i].in : IsDef(j)}
  BY DEF Around
<1>2. \A j \in Around[i] : j \in Nat /\ 0 < j
  BY <1>1, StatementsAreNested
<1>3. IsFiniteSet(S)
  <2>1. IsFiniteSet(Around[i])
    BY <1>1, StatementsAreNested, FS_Subset
  <2> QED BY <2>1, FS_AddElement
<1>4. Scope[i] = Max(S)
  BY DEF Scope
<1>5. Max(S) \in S /\ Max(S) \in Int /\ \A y \in S : y <= Max(S)
  <2>1. S \in SUBSET Int /\ S # {}
    BY <1>2
  <2> HIDE DEF S
  <2> QED BY <1>3, <2>1, MaxIs
<1>6. Scope[i] \in Nat /\ (Scope[i] = 0 <=> Around[i] = {}) /\ \A j \in Around[i] : j <= Scope[i]
  BY <1>2, <1>4, <1>5
<1>7. ASSUME Scope[i] # 0
      PROVE  /\ Scope[i] \in Text[i].in /\ IsDef(Scope[i])
             /\ Around[i] = Around[Scope[i]] \cup {Scope[i]}
  <2>1. Scope[i] \in Text[i].in /\ IsDef(Scope[i])
    BY <1>1, <1>4, <1>5, <1>7
  <2>2. Scope[i] \in DOMAIN Text /\ Text[Scope[i]].in = {k \in Text[i].in : k < Scope[i]}
    BY <2>1, StatementsAreNested
  <2>3. Around[Scope[i]] = {k \in Text[i].in : k < Scope[i] /\ IsDef(k)}
    BY <2>2 DEF Around
  <2>4. \A k \in Around[i] : k = Scope[i] \/ k < Scope[i]
    BY <1>2, <1>6
  <2> QED BY <1>1, <2>1, <2>3, <2>4
<1> QED BY <1>6, <1>7

LEMMA StackIs ==
  ASSUME NEW i \in DOMAIN Text, Scope[i] # 0
  PROVE  Stack[i] = Qual[Scope[i]]
<1>1. Scope[i] \in DOMAIN Text /\ IsDef(Scope[i]) /\ Around[i] = Around[Scope[i]] \cup {Scope[i]}
  BY ScopeIs, StatementsAreNested
<1> QED BY <1>1 DEF Stack, Qual

-----------------------------------------------------------------------------
(***************************************************************************)
(* The statements of a text, which is one of Modules.                      *)
(***************************************************************************)
LEMMA StatementsOfText ==
  ASSUME mod \in Modules, NEW S \in SUBSET mod
  PROVE  IsFiniteSet(S) /\ S \subseteq DOMAIN Text /\ S \subseteq Nat
<1>1. mod \subseteq DOMAIN Text /\ IsFiniteSet(mod) /\ DOMAIN Text \subseteq Nat
  BY TextAssumption
<1> QED BY <1>1, FS_Subset

LEMMA TextIsClosed ==
  ASSUME mod \in Modules, NEW i \in mod
  PROVE  i \in DOMAIN Text /\ (Scope[i] # 0 => Scope[i] \in Defs)
<1>1. i \in DOMAIN Text /\ Text[i].in \subseteq mod
  BY TextAssumption
<1> QED BY <1>1, ScopeIs DEF Defs, Of, IsDef

(* Breadth first is a total order, so that there is a first of the imports *)
(* of a name, and a last.                                                  *)
LEMMA FirstAndLast ==
  ASSUME mod \in Modules, NEW S \in SUBSET mod, S # {}
  PROVE  Earliest(S) \in S /\ Latest(S) \in S
<1> DEFINE R == {p \in mod \X mod : Earlier(p[1], p[2])}
           Q == {p \in mod \X mod : Earlier(p[2], p[1])}
           depth == [k \in mod |-> Cardinality(Text[k].in)]
<1>1. IsFiniteSet(S) /\ S \subseteq Nat /\ mod \subseteq Nat
  BY StatementsOfText
<1>2. \A k \in mod : depth[k] \in Nat
  BY StatementsOfText, StatementsAreNested
<1>3. \A i, j \in mod :
         Earlier(i, j) <=> depth[i] < depth[j] \/ (depth[i] = depth[j] /\ i < j)
  BY DEF Earlier
<1> HIDE DEF depth
<1>4. TotalOn(R, S) /\ TransitiveOn(R, S) /\ TotalOn(Q, S) /\ TransitiveOn(Q, S)
  <2>1. \A i, j \in mod : i # j => Earlier(i, j) \/ Earlier(j, i)
    BY <1>1, <1>2, <1>3
  <2>2. \A i, j, k \in mod : Earlier(i, j) /\ Earlier(j, k) => Earlier(i, k)
    BY <1>1, <1>2, <1>3
  <2>3. \A i, j \in mod : (<<i, j>> \in R <=> Earlier(i, j)) /\ (<<i, j>> \in Q <=> Earlier(j, i))
    OBVIOUS
  <2> HIDE DEF R, Q
  <2>4. TotalOn(R, S) /\ TotalOn(Q, S)
    BY <2>1, <2>3 DEF TotalOn
  <2>5. TransitiveOn(R, S) /\ TransitiveOn(Q, S)
    BY <2>2, <2>3 DEF TransitiveOn
  <2> QED BY <2>4, <2>5
<1>5. \A i, j : (<<i, j>> \in R => Earlier(i, j)) /\ (<<i, j>> \in Q => Earlier(j, i))
  OBVIOUS
<1> HIDE DEF R, Q
<1>6. PICK x : LeastIn(R, S, x)
  BY <1>1, <1>4, LeastExists
<1>7. PICK y : LeastIn(Q, S, y)
  BY <1>1, <1>4, LeastExists
<1>8. \E i \in S : \A j \in S \ {i} : Earlier(i, j)
  BY <1>5, <1>6 DEF LeastIn
<1>9. \E i \in S : \A j \in S \ {i} : Earlier(j, i)
  BY <1>5, <1>7 DEF LeastIn
<1> QED BY <1>8, <1>9 DEF Earliest, Latest

(* Effective is one of the definitions, and a stub only if all are. *)
LEMMA EffectiveIs ==
  ASSUME mod \in Modules, NEW S \in SUBSET mod, S # {}
  PROVE  Effective(S) \in S /\ (IsStub(Effective(S)) => \A i \in S : IsStub(i))
<1> DEFINE real == {i \in S : ~IsStub(i)}
           T == IF real = {} THEN S ELSE real
<1>1. Effective(S) = Min(T)
  BY DEF Effective
<1>2. T \in SUBSET Int /\ IsFiniteSet(T) /\ T # {} /\ T \subseteq S
  <2>1. T \in SUBSET mod
    OBVIOUS
  <2> QED BY <2>1, StatementsOfText
<1>3. Min(T) \in T
  <2> HIDE DEF T
  <2> QED BY <1>2, MinIs
<1> QED BY <1>1, <1>2, <1>3

(* The later of two definitions of one name has the higher ordinal. *)
LEMMA UidsDiffer ==
  ASSUME mod \in Modules, NEW i \in Defs, NEW j \in Defs, Uid(i) = Uid(j)
  PROVE  i = j
<1> DEFINE Before(k) == {d \in Defs : d < k /\ Qual[d] = Qual[k]}
<1>1. Defs \in SUBSET mod /\ Defs \subseteq Nat
  BY StatementsOfText DEF Defs, Of
<1>2. \A k \in Defs : IsFiniteSet(Before(k)) /\ Cardinality(Before(k)) \in Nat
  <2> SUFFICES ASSUME NEW k \in Defs PROVE IsFiniteSet(Before(k))
    BY FS_CardinalityType
  <2>1. Before(k) \in SUBSET mod
    BY <1>1
  <2> QED BY <2>1, StatementsOfText
<1>3. Qual[i] = Qual[j] /\ Cardinality(Before(i)) = Cardinality(Before(j))
  BY DEF Uid
<1>4. ASSUME NEW a \in Defs, NEW b \in Defs, a < b, Qual[a] = Qual[b]
      PROVE  Cardinality(Before(a)) < Cardinality(Before(b))
  <2>1. Before(a) \subseteq Before(b) /\ a \in Before(b) /\ a \notin Before(a)
    <3>1. \A d \in Defs : d < a => d < b
      BY <1>1, <1>4
    <3>2. ~(a < a)
      BY <1>1
    <3> QED BY <1>4, <3>1, <3>2
  <2>2. Before(a) # Before(b)
    BY <2>1
  <2> HIDE DEF Before
  <2>3. Cardinality(Before(a)) <= Cardinality(Before(b))
    BY <1>2, <2>1, FS_Subset
  <2>4. Cardinality(Before(b)) = Cardinality(Before(a)) => Before(b) = Before(a)
    BY <1>2, <2>1, FS_Subset
  <2> QED BY <1>2, <2>2, <2>3, <2>4
<1> HIDE DEF Before
<1>5. ~(i < j) /\ ~(j < i)
  BY <1>2, <1>3, <1>4
<1> QED BY <1>1, <1>5

-----------------------------------------------------------------------------
(***************************************************************************)
(* What the passes have left behind.                                       *)
(***************************************************************************)
Symbols == {i \in Of({"from"}) : Text[i].name # "*" /\ From(i, PackageParts) # <<>>}
StarImports == {i \in Of({"from"}) : Text[i].name = "*" /\ From(i, PackageParts) # <<>>}

TopDefs(n) == {i \in Defs : Around[i] = {} /\ Text[i].name = n}
MethodsOf(key) == {i \in Defs : InClass(i) /\ <<Qual[Scope[i]], Text[i].name>> = key}

(* Each entry of a map comes from an import of its name, and there is one  *)
(* if there is such an import.                                             *)
ImportsKnown ==
    /\ \A n \in Names : imports[n] # NoTarget =>
          \E i \in Symbols : Alias(i) = n /\ imports[n] = Symbol(From(i, PackageParts), Text[i].name)
    /\ \A n \in Names : modImports[n] # <<>> =>
          \/ \E i \in Of({"import"}) : Alias(i) = n /\ modImports[n] = Bound(i)
          \/ \E i \in Symbols : Alias(i) = n /\ modImports[n] = From(i, PackageParts) \o <<Text[i].name>>
    /\ \A n \in Names, i \in Symbols : Alias(i) = n => imports[n] # NoTarget
    /\ \A n \in Names, i \in Symbols \cup Of({"import"}) : Alias(i) = n => modImports[n] # <<>>
    /\ star = StarImports

DefsKnown ==
    /\ DOMAIN uid = Defs /\ \A i \in Defs : uid[i] = Uid(i)
    /\ \A n \in Names :
          moduleDefs[n] = IF TopDefs(n) = {} THEN NoTarget ELSE Uid(Effective(TopDefs(n)))
    /\ \A key : key \in DOMAIN methods <=> MethodsOf(key) # {}
    /\ \A key \in DOMAIN methods : methods[key] = Uid(Effective(MethodsOf(key)))

EdgesKnown ==
    edges = {Edge(i, Resolve(i, Text[i].expr)) :
                i \in {j \in Uses : Resolve(j, Text[j].expr) # NoTarget}}

IInv ==
    /\ path \in Paths /\ mod \in Modules
    /\ pc \in {"imports", "defs", "edges", "done", "failed"}
    /\ pc \in {"defs", "edges", "done"} => ImportsKnown
    /\ IF pc \in {"edges", "done"} THEN DefsKnown ELSE uid = <<>>
    /\ IF pc = "done" THEN EdgesKnown ELSE edges = {}

LEMMA SameText ==
  ASSUME path' = path, mod' = mod
  PROVE  /\ Symbols' = Symbols /\ StarImports' = StarImports /\ PackageParts' = PackageParts
         /\ \A kinds : Of(kinds)' = Of(kinds)
         /\ Defs' = Defs
BY DEF Symbols, StarImports, PackageParts, Of, Defs

LEMMA SameDefs ==
  ASSUME path' = path, mod' = mod
  PROVE  /\ \A i : Uid(i)' = Uid(i)
         /\ \A S : Effective(S)' = Effective(S)
         /\ \A n : TopDefs(n)' = TopDefs(n)
         /\ \A key : MethodsOf(key)' = MethodsOf(key)
<1>1. Defs' = Defs
  BY SameText
<1>2. \A i : Uid(i)' = Uid(i)
  BY <1>1 DEF Uid
<1>3. \A i : IsStub(i)' = IsStub(i)
  BY DEF IsStub
<1>4. \A S : Effective(S)' = Effective(S)
  BY <1>3 DEF Effective
<1> QED BY <1>1, <1>2, <1>4 DEF TopDefs, MethodsOf

LEMMA SameMaps ==
  ASSUME UNCHANGED <<path, mod, imports, modImports, star, uid, moduleDefs, methods>>
  PROVE  /\ ImportsKnown' = ImportsKnown
         /\ DefsKnown' = DefsKnown
         /\ Uses' = Uses
         /\ \A i, e : Resolve(i, e)' = Resolve(i, e)
         /\ \A i, r : Edge(i, r)' = Edge(i, r)
<1>1. ImportsKnown' = ImportsKnown
  <2>1. /\ Symbols' = Symbols /\ StarImports' = StarImports /\ PackageParts' = PackageParts
        /\ Of({"import"})' = Of({"import"})
    BY SameText
  <2>2. imports' = imports /\ modImports' = modImports /\ star' = star
    OBVIOUS
  <2> QED BY <2>1, <2>2, Zenon DEF ImportsKnown
<1>2. DefsKnown' = DefsKnown
  BY SameText, SameDefs DEF DefsKnown
<1>3. Uses' = Uses
  BY SameText DEF Uses
<1>4. \A s, n : Imported(s, n)' = Imported(s, n)
  BY SameText DEF Imported
<1>5. \A s : Locals(s)' = Locals(s)
  BY <1>4 DEF Locals
<1>6. \A stack, n : Shadowed(stack, n)' = Shadowed(stack, n)
  BY <1>5, SameText DEF Shadowed
<1>7. \A i, n : ResolveName(i, n)' = ResolveName(i, n)
  BY <1>6, SameText DEF ResolveName
<1>8. \A i, r, n : ResolveAttribute(i, r, n)' = ResolveAttribute(i, r, n)
  BY DEF ResolveAttribute
<1>9. \A i, e : Resolve(i, e)' = Resolve(i, e)
  BY <1>7, <1>8 DEF Resolve
<1>10. \A i, r : Edge(i, r)' = Edge(i, r)
  BY DEF Edge
<1> QED BY <1>1, <1>2, <1>3, <1>9, <1>10

-----------------------------------------------------------------------------
(***************************************************************************)
(* What is found is not nothing.                                           *)
(***************************************************************************)
LEMMA NotNone ==
  /\ \A p, n : Symbol(p, n) # NoTarget
  /\ \A i : Uid(i) # NoTarget
  /\ \A t, c : [to |-> t, conf |-> c] # NoTarget
<1>1. DOMAIN NoTarget = {}
  BY DEF NoTarget
<1>2. \A p, q, o : DOMAIN [path |-> p, qual |-> q, ord |-> o] # {}
  OBVIOUS
<1>3. \A t, c : DOMAIN [to |-> t, conf |-> c] # {}
  OBVIOUS
<1>4. \A p, n : DOMAIN Symbol(p, n) # {}
  BY <1>2 DEF Symbol
<1>5. \A i : DOMAIN Uid(i) # {}
  BY <1>2 DEF Uid
<1> HIDE DEF NoTarget
<1> QED BY <1>1, <1>3, <1>4, <1>5

LEMMA PackagesAre ==
  ASSUME path \in Paths
  PROVE  PackageParts \in Seq(STRING) /\ Package \in Seq(STRING)
<1>1. path \in Seq(STRING)
  BY TextAssumption
<1>2. \A s \in Seq(STRING) : Front(s) \in Seq(STRING)
  BY DEF Front
<1> QED BY <1>1, <1>2 DEF PackageParts, Package

LEMMA FromIs ==
  ASSUME NEW i \in DOMAIN Text, Text[i].kind = "from", NEW package \in Seq(STRING)
  PROVE  From(i, package) \in Seq(STRING)
<1>1. Text[i].level \in Nat /\ Text[i].module \in Seq(STRING)
  BY KindsHave
<1>2. \A s, t \in Seq(STRING) : s \o t \in Seq(STRING)
  OBVIOUS
<1>3. \A k \in Int : SubSeq(package, 1, k) \in Seq(STRING) \/ k > Len(package)
  OBVIOUS
<1>4. Text[i].level # 0 => SubSeq(package, 1, Len(package) - (Text[i].level - 1)) \in Seq(STRING)
  BY <1>1, <1>3
<1>5. \/ From(i, package) = Text[i].module
      \/ From(i, package) = <<>>
      \/ Text[i].level # 0
         /\ From(i, package) = SubSeq(package, 1, Len(package) - (Text[i].level - 1)) \o Text[i].module
  BY DEF From
<1>6. <<>> \in Seq(STRING)
  OBVIOUS
<1> QED BY <1>1, <1>2, <1>4, <1>5, <1>6

(* What an import offers to attributes. *)
LEMMA OffersAre ==
  ASSUME path \in Paths, mod \in Modules
  PROVE  /\ \A i \in Of({"import"}) : Bound(i) # <<>>
         /\ \A i \in Symbols : From(i, PackageParts) \o <<Text[i].name>> # <<>>
<1>1. ASSUME NEW i \in Of({"import"}) PROVE Bound(i) # <<>>
  <2>1. i \in DOMAIN Text /\ Text[i].kind = "import"
    BY TextAssumption DEF Of
  <2>2. Text[i].module # <<>> /\ <<Head(Text[i].module)>> # <<>>
    BY <2>1, KindsHave
  <2> QED BY <2>2 DEF Bound
<1>2. ASSUME NEW i \in Symbols PROVE From(i, PackageParts) \o <<Text[i].name>> # <<>>
  <2>1. i \in DOMAIN Text /\ Text[i].kind = "from"
    BY TextAssumption DEF Symbols, Of
  <2>2. From(i, PackageParts) \in Seq(STRING)
    BY <2>1, PackagesAre, FromIs
  <2>3. \A t \in Seq(STRING) : \A x : t \o <<x>> # <<>>
    <3> SUFFICES ASSUME NEW t \in Seq(STRING), NEW x, t \o <<x>> = <<>> PROVE FALSE
      OBVIOUS
    <3>1. Len(t \o <<x>>) = Len(t) + 1 /\ Len(t) \in Nat
      OBVIOUS
    <3> QED BY <3>1
  <2> QED BY <2>2, <2>3
<1> QED BY <1>1, <1>2

-----------------------------------------------------------------------------
(***************************************************************************)
(* Each pass.                                                              *)
(***************************************************************************)
LEMMA InitIInv == Init => IInv
BY DEF Init, IInv

LEMMA CollectImportsIInv ==
  ASSUME IInv, CollectImports
  PROVE  IInv'
<1> DEFINE For(S, n) == {i \in S : Alias(i) = n}
           named == {i \in Of({"import"}) : Text[i].as # NoName}
           others == (Of({"import"}) \ named) \cup Symbols
           Offer(i) == IF Text[i].kind = "import" THEN Bound(i)
                       ELSE From(i, PackageParts) \o <<Text[i].name>>
<1>1. path \in Paths /\ mod \in Modules /\ path' = path /\ mod' = mod
  BY DEF IInv, CollectImports
<1>2. pc = "imports" /\ pc' = "defs" /\ UNCHANGED <<uid, edges>>
  BY DEF CollectImports
<1>3. \A n \in Names : imports'[n] =
        IF For(Symbols, n) = {} THEN NoTarget
        ELSE Symbol(From(Latest(For(Symbols, n)), PackageParts), Text[Latest(For(Symbols, n))].name)
  BY DEF CollectImports, Symbols
<1>4. \A n \in Names : modImports'[n] =
        IF For(named, n) # {} THEN Bound(Latest(For(named, n)))
        ELSE IF For(others, n) # {} THEN Offer(Earliest(For(others, n))) ELSE <<>>
  BY DEF CollectImports, Symbols
<1>5. star' = StarImports
  BY DEF CollectImports, StarImports
<1>6. Symbols \subseteq mod /\ named \subseteq mod /\ others \subseteq mod
  BY DEF Symbols, Of
<1>7. ASSUME NEW n \in Names
      PROVE  /\ imports'[n] # NoTarget =>
                  \E i \in Symbols : Alias(i) = n /\ imports'[n] = Symbol(From(i, PackageParts), Text[i].name)
             /\ \A i \in Symbols : Alias(i) = n => imports'[n] # NoTarget
  <2>1. For(Symbols, n) # {} => Latest(For(Symbols, n)) \in For(Symbols, n)
    <3>1. For(Symbols, n) \in SUBSET mod
      BY <1>6
    <3> QED BY <1>1, <3>1, FirstAndLast
  <2> QED BY <1>3, <2>1, NotNone
<1>8. ASSUME NEW n \in Names
      PROVE  /\ modImports'[n] # <<>> =>
                  \/ \E i \in Of({"import"}) : Alias(i) = n /\ modImports'[n] = Bound(i)
                  \/ \E i \in Symbols : Alias(i) = n /\ modImports'[n] = From(i, PackageParts) \o <<Text[i].name>>
             /\ \A i \in Symbols \cup Of({"import"}) : Alias(i) = n => modImports'[n] # <<>>
  <2>1. CASE For(named, n) # {}
    <3>1. For(named, n) \in SUBSET mod
      BY <1>6
    <3>2. Latest(For(named, n)) \in For(named, n)
      BY <1>1, <2>1, <3>1, FirstAndLast
    <3>3. modImports'[n] = Bound(Latest(For(named, n)))
      BY <1>4, <2>1
    <3>4. Latest(For(named, n)) \in Of({"import"}) /\ Alias(Latest(For(named, n))) = n
      BY <3>2
    <3> QED BY <1>1, <3>3, <3>4, OffersAre
  <2>2. CASE For(named, n) = {} /\ For(others, n) # {}
    <3> DEFINE i == Earliest(For(others, n))
    <3>1. For(others, n) \in SUBSET mod
      BY <1>6
    <3>2. i \in For(others, n)
      BY <1>1, <2>2, <3>1, FirstAndLast
    <3>3. modImports'[n] = Offer(i)
      BY <1>4, <2>2
    <3>4. Alias(i) = n /\ (i \in Of({"import"}) \/ i \in Symbols)
      BY <3>2
    <3> HIDE DEF i
    <3>5. CASE i \in Of({"import"})
      <4>1. modImports'[n] = Bound(i)
        BY <3>3, <3>5 DEF Of
      <4> QED BY <1>1, <3>4, <3>5, <4>1, OffersAre
    <3>6. CASE i \in Symbols
      <4>1. modImports'[n] = From(i, PackageParts) \o <<Text[i].name>>
        BY <3>3, <3>6 DEF Symbols, Of
      <4> QED BY <1>1, <3>4, <3>6, <4>1, OffersAre
    <3> QED BY <3>4, <3>5, <3>6
  <2>3. CASE For(named, n) = {} /\ For(others, n) = {}
    <3>1. modImports'[n] = <<>>
      BY <1>4, <2>3
    <3>2. \A i \in Symbols \cup Of({"import"}) : Alias(i) # n
      BY <2>3
    <3> QED BY <3>1, <3>2
  <2> QED BY <2>1, <2>2, <2>3
<1> HIDE DEF For, named, others, Offer
<1>9. ImportsKnown'
  <2>1. /\ Symbols' = Symbols /\ StarImports' = StarImports /\ PackageParts' = PackageParts
        /\ Of({"import"})' = Of({"import"})
    BY <1>1, SameText
  <2> QED BY <1>5, <1>7, <1>8, <2>1, Zenon DEF ImportsKnown
<1> QED BY <1>1, <1>2, <1>9 DEF IInv

LEMMA CollectDefsIInv ==
  ASSUME IInv, CollectDefs
  PROVE  IInv'
<1>1. path \in Paths /\ mod \in Modules /\ path' = path /\ mod' = mod
  BY DEF IInv, CollectDefs
<1>2. pc = "defs" /\ pc' = "edges" /\ ImportsKnown /\ UNCHANGED <<imports, modImports, star, edges>>
  BY DEF CollectDefs, IInv
<1>3. ImportsKnown'
  <2>1. /\ Symbols' = Symbols /\ StarImports' = StarImports /\ PackageParts' = PackageParts
        /\ Of({"import"})' = Of({"import"})
    BY <1>1, SameText
  <2>2. imports' = imports /\ modImports' = modImports /\ star' = star /\ ImportsKnown
    BY <1>2
  <2> QED BY <2>1, <2>2, Zenon DEF ImportsKnown
<1>4. uid' = [i \in Defs |-> Uid(i)]
  BY DEF CollectDefs
<1>5. \A n \in Names :
        moduleDefs'[n] = IF TopDefs(n) = {} THEN NoTarget ELSE Uid(Effective(TopDefs(n)))
  <2>1. \A n : {i \in {j \in Defs : Around[j] = {}} : Text[i].name = n} = TopDefs(n)
    BY DEF TopDefs
  <2> QED BY <2>1 DEF CollectDefs
<1>6. /\ \A key : key \in DOMAIN methods' <=> MethodsOf(key) # {}
      /\ \A key \in DOMAIN methods' : methods'[key] = Uid(Effective(MethodsOf(key)))
  <2> DEFINE members == {i \in Defs : InClass(i)}
             keys == {<<Qual[Scope[i]], Text[i].name>> : i \in members}
  <2>1. methods' = [key \in keys |-> Uid(Effective({i \in members : <<Qual[Scope[i]], Text[i].name>> = key}))]
    BY DEF CollectDefs
  <2>2. \A key : {i \in members : <<Qual[Scope[i]], Text[i].name>> = key} = MethodsOf(key)
    BY DEF MethodsOf
  <2>3. \A key : key \in keys <=> MethodsOf(key) # {}
    BY DEF MethodsOf
  <2>4. DOMAIN methods' = keys
    BY <2>1
  <2>5. \A key \in keys : methods'[key] = Uid(Effective(MethodsOf(key)))
    BY <2>1, <2>2
  <2> QED BY <2>3, <2>4, <2>5
<1>7. DefsKnown'
  <2>1. /\ DOMAIN uid' = Defs /\ \A i \in Defs : uid'[i] = Uid(i)
    BY <1>4
  <2> QED BY <1>1, <1>5, <1>6, <2>1, SameText, SameDefs DEF DefsKnown
<1> QED BY <1>1, <1>2, <1>3, <1>7 DEF IInv

LEMMA WalkEdgesIInv ==
  ASSUME IInv, WalkEdges
  PROVE  IInv'
<1>1. path \in Paths /\ mod \in Modules /\ path' = path /\ mod' = mod
  BY DEF IInv, WalkEdges
<1>2. pc' = "done" /\ ImportsKnown /\ DefsKnown
  BY DEF WalkEdges, IInv
<1>3. UNCHANGED <<path, mod, imports, modImports, star, uid, moduleDefs, methods>>
  BY DEF WalkEdges
<1>4. ImportsKnown' /\ DefsKnown'
  BY <1>2, <1>3, SameMaps
<1>5. EdgesKnown'
  <2> DEFINE resolved == [i \in Uses |-> Resolve(i, Text[i].expr)]
  <2>1. edges' = {Edge(i, resolved[i]) : i \in {j \in Uses : resolved[j] # NoTarget}}
    BY DEF WalkEdges
  <2>2. edges' = {Edge(i, Resolve(i, Text[i].expr)) :
                     i \in {j \in Uses : Resolve(j, Text[j].expr) # NoTarget}}
    BY <2>1
  <2> QED BY <1>3, <2>2, SameMaps DEF EdgesKnown
<1> QED BY <1>1, <1>2, <1>4, <1>5 DEF IInv

LEMMA NextIInv ==
  ASSUME IInv, [Next]_vars
  PROVE  IInv'
<1>1. CASE CollectImports
  BY <1>1, CollectImportsIInv
<1>2. CASE CollectDefs
  BY <1>2, CollectDefsIInv
<1>3. CASE WalkEdges
  BY <1>3, WalkEdgesIInv
<1>4. CASE Unparsable
  BY <1>4 DEF Unparsable, IInv
<1>5. CASE UNCHANGED vars
  <2>1. UNCHANGED <<path, mod, pc, imports, modImports, star, uid, moduleDefs, methods, edges>>
    BY <1>5 DEF vars
  <2>2. EdgesKnown' = EdgesKnown
    BY <2>1, SameMaps DEF EdgesKnown
  <2>3. ImportsKnown' = ImportsKnown /\ DefsKnown' = DefsKnown
    BY <2>1, SameMaps
  <2> QED BY <2>1, <2>2, <2>3 DEF IInv
<1> QED BY <1>1, <1>2, <1>3, <1>4, <1>5 DEF Next

LEMMA AlwaysIInv == Spec => []IInv
<1>1. IInv /\ [Next]_vars => IInv'
  BY NextIInv
<1> QED BY InitIInv, <1>1, PTL DEF Spec

-----------------------------------------------------------------------------
(***************************************************************************)
(* What resolves, and to what.                                             *)
(***************************************************************************)
LEMMA UseIs ==
  ASSUME mod \in Modules, NEW i \in Uses
  PROVE  /\ i \in DOMAIN Text /\ i \in mod /\ Text[i].expr \in Expr
         /\ \/ Text[i].kind = "call" /\ Scope[i] # 0 /\ Scope[i] \in Defs
            \/ Text[i].kind = "class" /\ i \in Defs
<1>1. i \in mod /\ i \in DOMAIN Text
  BY TextAssumption DEF Uses, Of
<1>2. CASE Text[i].kind = "call" /\ Scope[i] # 0
  <2>1. Text[i].expr \in Expr
    BY <1>1, <1>2, KindsHave
  <2>2. Scope[i] \in Defs
    BY <1>1, <1>2, TextIsClosed
  <2> QED BY <1>1, <1>2, <2>1, <2>2
<1>3. CASE Text[i].kind = "class" /\ Text[i].expr # NoName
  <2>1. Text[i].expr \in Expr
    BY <1>1, <1>3, KindsHave
  <2>2. i \in Defs
    BY <1>1, <1>3 DEF Defs, Of
  <2> QED BY <1>1, <1>3, <2>1, <2>2
<1> QED BY <1>2, <1>3 DEF Uses, Of

ToDef(r, n) == TopDefs(n) # {} /\ r = [to |-> Uid(Effective(TopDefs(n))), conf |-> 100]
ToImport(r, n, j) ==
    Alias(j) = n /\ r = [to |-> Symbol(From(j, PackageParts), Text[j].name), conf |-> 97]
ToStar(r, n, j) == r = [to |-> Symbol(From(j, PackageParts), n), conf |-> 50]
ToModule(r, recv, n, j) == Alias(j) = recv /\ r = [to |-> Symbol(Bound(j), n), conf |-> 95]
ToSubmodule(r, recv, n, j) ==
    Alias(j) = recv /\ r = [to |-> Symbol(From(j, PackageParts) \o <<Text[j].name>>, n), conf |-> 95]
ToMethod(r, i, recv, n) ==
    /\ recv \in {"self", "cls"} /\ MethodsOf(<<ClassQual(i), n>>) # {}
    /\ r = [to |-> Uid(Effective(MethodsOf(<<ClassQual(i), n>>))), conf |-> 92]

LEMMA NameResolves ==
  ASSUME ImportsKnown, DefsKnown, NEW i, NEW n \in Names, ~Shadowed(Stack[i], n)
  PROVE  /\ ResolveName(i, n) # NoTarget =>
               \/ ToDef(ResolveName(i, n), n)
               \/ \E j \in Symbols : ToImport(ResolveName(i, n), n, j)
               \/ \E j \in StarImports : ToStar(ResolveName(i, n), n, j)
         /\ TopDefs(n) # {} => ToDef(ResolveName(i, n), n)
         /\ (\E j \in Symbols : Alias(j) = n) => ResolveName(i, n) # NoTarget
<1>1. moduleDefs[n] = IF TopDefs(n) = {} THEN NoTarget ELSE Uid(Effective(TopDefs(n)))
  BY DEF DefsKnown
<1>2. CASE TopDefs(n) # {}
  <2>1. moduleDefs[n] # NoTarget
    BY <1>1, <1>2, NotNone
  <2>2. ResolveName(i, n) = [to |-> moduleDefs[n], conf |-> 100]
    BY <2>1 DEF ResolveName
  <2> QED BY <1>1, <1>2, <2>2, NotNone DEF ToDef
<1>3. CASE TopDefs(n) = {} /\ imports[n] # NoTarget
  <2>1. ResolveName(i, n) = [to |-> imports[n], conf |-> 97]
    BY <1>1, <1>3 DEF ResolveName
  <2>2. PICK j \in Symbols : Alias(j) = n /\ imports[n] = Symbol(From(j, PackageParts), Text[j].name)
    BY <1>3 DEF ImportsKnown
  <2> QED BY <1>3, <2>1, <2>2, NotNone DEF ToImport
<1>4. CASE TopDefs(n) = {} /\ imports[n] = NoTarget
  <2>1. \A j \in Symbols : Alias(j) # n
    BY <1>4 DEF ImportsKnown
  <2>2. CASE Cardinality(star) = 1
    <3>1. star # {} /\ star = StarImports
      <4>1. Cardinality({}) = 0
        BY FS_EmptySet
      <4>2. star # {}
        BY <2>2, <4>1
      <4> QED BY <4>2 DEF ImportsKnown
    <3>2. (CHOOSE j \in star : TRUE) \in StarImports
      BY <3>1
    <3>3. ResolveName(i, n) = [to |-> Symbol(From(CHOOSE j \in star : TRUE, PackageParts), n), conf |-> 50]
      BY <1>1, <1>4, <2>2 DEF ResolveName
    <3> QED BY <1>4, <2>1, <3>2, <3>3 DEF ToStar
  <2>3. CASE Cardinality(star) # 1
    <3>1. ResolveName(i, n) = NoTarget
      BY <1>1, <1>4, <2>3 DEF ResolveName
    <3> QED BY <1>4, <2>1, <3>1
  <2> QED BY <2>2, <2>3
<1> QED BY <1>2, <1>3, <1>4

LEMMA AttributeResolves ==
  ASSUME ImportsKnown, DefsKnown, NEW i, NEW recv \in Names, NEW n \in Names
  PROVE  /\ ResolveAttribute(i, recv, n) # NoTarget =>
               \/ \E j \in Of({"import"}) : ToModule(ResolveAttribute(i, recv, n), recv, n, j)
               \/ \E j \in Symbols : ToSubmodule(ResolveAttribute(i, recv, n), recv, n, j)
               \/ ToMethod(ResolveAttribute(i, recv, n), i, recv, n)
         /\ (\E j \in Symbols \cup Of({"import"}) : Alias(j) = recv) => ResolveAttribute(i, recv, n) # NoTarget
         /\ modImports[recv] = <<>> /\ recv \in {"self", "cls"} /\ MethodsOf(<<ClassQual(i), n>>) # {} =>
               ToMethod(ResolveAttribute(i, recv, n), i, recv, n)
<1> DEFINE key == <<ClassQual(i), n>>
           r == ResolveAttribute(i, recv, n)
<1>1. key \in DOMAIN methods <=> MethodsOf(key) # {}
  BY DEF DefsKnown
<1>2. key \in DOMAIN methods => methods[key] = Uid(Effective(MethodsOf(key)))
  BY DEF DefsKnown
<1>3. CASE modImports[recv] # <<>>
  <2>1. r = [to |-> Symbol(modImports[recv], n), conf |-> 95]
    BY <1>3 DEF ResolveAttribute
  <2>2. \/ \E j \in Of({"import"}) : Alias(j) = recv /\ modImports[recv] = Bound(j)
        \/ \E j \in Symbols : Alias(j) = recv /\ modImports[recv] = From(j, PackageParts) \o <<Text[j].name>>
    BY <1>3 DEF ImportsKnown
  <2>3. \/ \E j \in Of({"import"}) : ToModule(r, recv, n, j)
        \/ \E j \in Symbols : ToSubmodule(r, recv, n, j)
    BY <2>1, <2>2 DEF ToModule, ToSubmodule
  <2>4. r # NoTarget
    BY <2>1, NotNone
  <2> QED BY <1>3, <2>3, <2>4
<1>4. CASE modImports[recv] = <<>> /\ recv \in {"self", "cls"} /\ MethodsOf(key) # {}
  <2>1. r = [to |-> methods[key], conf |-> 92]
    BY <1>1, <1>4 DEF ResolveAttribute
  <2>2. ToMethod(r, i, recv, n)
    BY <1>1, <1>2, <1>4, <2>1 DEF ToMethod
  <2>3. r # NoTarget
    BY <2>1, NotNone
  <2> QED BY <2>2, <2>3
<1>5. CASE modImports[recv] = <<>> /\ ~(recv \in {"self", "cls"} /\ MethodsOf(key) # {})
  <2>1. r = NoTarget
    BY <1>1, <1>5 DEF ResolveAttribute
  <2>2. \A j \in Symbols \cup Of({"import"}) : Alias(j) # recv
    BY <1>5 DEF ImportsKnown
  <2> QED BY <1>5, <2>1, <2>2
<1> QED BY <1>3, <1>4, <1>5

-----------------------------------------------------------------------------
(* The types.  A class or method at the end of an edge is a node.          *)
LEMMA EdgesAreTyped ==
  ASSUME IInv, pc = "done", NEW e \in edges
  PROVE  /\ e.src.qual = (IF e.relation = "CALLS" THEN Stack[e.at] ELSE Qual[e.at])
         /\ e.conf \in {92, 100} => \E i \in DOMAIN uid : uid[i] = e.dst
<1>1. mod \in Modules /\ ImportsKnown /\ DefsKnown /\ EdgesKnown
  BY DEF IInv
<1>2. PICK i \in Uses : /\ Resolve(i, Text[i].expr) # NoTarget
                        /\ e = Edge(i, Resolve(i, Text[i].expr))
  BY <1>1 DEF EdgesKnown
<1> DEFINE r == Resolve(i, Text[i].expr)
           n == Text[i].expr.name
           recv == Text[i].expr.recv
<1>3. n \in Names /\ recv \in Names \cup {NoName} /\ i \in DOMAIN Text
  BY <1>1, UseIs DEF Expr
<1>4. e.src.qual = (IF e.relation = "CALLS" THEN Stack[e.at] ELSE Qual[e.at])
  <2>1. CASE Text[i].kind = "call" /\ Scope[i] # 0 /\ Scope[i] \in Defs
    <3>1. e.src = Uid(Scope[i]) /\ e.relation = "CALLS" /\ e.at = i
      BY <1>1, <1>2, <2>1 DEF Edge, DefsKnown
    <3>2. e.src.qual = Qual[Scope[i]]
      BY <3>1 DEF Uid
    <3> QED BY <1>3, <2>1, <3>1, <3>2, StackIs
  <2>2. CASE Text[i].kind = "class" /\ i \in Defs
    <3>1. e.src = Uid(i) /\ e.relation = "INHERITS" /\ e.at = i
      BY <1>1, <1>2, <2>2 DEF Edge, DefsKnown
    <3>2. e.src.qual = Qual[i]
      BY <3>1 DEF Uid
    <3> QED BY <3>1, <3>2
  <2> QED BY <1>1, <2>1, <2>2, UseIs
<1>5. ASSUME e.conf \in {92, 100} PROVE \E d \in DOMAIN uid : uid[d] = e.dst
  <2>1. e.conf = r.conf /\ e.dst = r.to
    BY <1>2 DEF Edge
  <2>2. \/ ToDef(r, n)
        \/ ToMethod(r, i, recv, n)
    <3>1. CASE recv = NoName
      <4>1. r = ResolveName(i, n)
        BY <3>1 DEF Resolve
      <4>2. ~Shadowed(Stack[i], n)
        BY <1>2, <4>1 DEF ResolveName
      <4>3. \/ ToDef(r, n)
            \/ \E j \in Symbols : ToImport(r, n, j)
            \/ \E j \in StarImports : ToStar(r, n, j)
        BY <1>1, <1>2, <1>3, <4>1, <4>2, NameResolves
      <4>4. \A j : (ToImport(r, n, j) => r.conf = 97) /\ (ToStar(r, n, j) => r.conf = 50)
        BY DEF ToImport, ToStar
      <4> QED BY <1>5, <2>1, <4>3, <4>4
    <3>2. CASE recv # NoName
      <4>1. r = ResolveAttribute(i, recv, n)
        BY <3>2 DEF Resolve
      <4>2. \/ \E j \in Of({"import"}) : ToModule(r, recv, n, j)
            \/ \E j \in Symbols : ToSubmodule(r, recv, n, j)
            \/ ToMethod(r, i, recv, n)
        BY <1>1, <1>2, <1>3, <3>2, <4>1, AttributeResolves
      <4>3. \A j : (ToModule(r, recv, n, j) => r.conf = 95) /\ (ToSubmodule(r, recv, n, j) => r.conf = 95)
        BY DEF ToModule, ToSubmodule
      <4> QED BY <1>5, <2>1, <4>2, <4>3
    <3> QED BY <3>1, <3>2
  <2>3. ASSUME NEW S \in SUBSET Defs, S # {}
        PROVE  Effective(S) \in DOMAIN uid /\ uid[Effective(S)] = Uid(Effective(S))
    <3>1. S \in SUBSET mod
      BY DEF Defs, Of
    <3>2. Effective(S) \in Defs
      BY <1>1, <2>3, <3>1, EffectiveIs
    <3> QED BY <1>1, <3>2 DEF DefsKnown
  <2>4. CASE ToDef(r, n)
    <3>1. TopDefs(n) \in SUBSET Defs /\ TopDefs(n) # {} /\ r.to = Uid(Effective(TopDefs(n)))
      BY <2>4 DEF ToDef, TopDefs
    <3> QED BY <2>1, <2>3, <3>1
  <2>5. CASE ToMethod(r, i, recv, n)
    <3> DEFINE S == MethodsOf(<<ClassQual(i), n>>)
    <3>1. S \in SUBSET Defs /\ S # {} /\ r.to = Uid(Effective(S))
      BY <2>5 DEF ToMethod, MethodsOf
    <3> QED BY <2>1, <2>3, <3>1
  <2> QED BY <2>2, <2>4, <2>5
<1> QED BY <1>4, <1>5

LEMMA TypesHold == IInv => TypeOK
<1> SUFFICES ASSUME IInv PROVE TypeOK
  OBVIOUS
<1>1. path \in Paths /\ mod \subseteq DOMAIN Text /\ pc \in {"imports", "defs", "edges", "done", "failed"}
  BY TextAssumption DEF IInv
<1>2. \A i, j \in DOMAIN uid : uid[i] = uid[j] => i = j
  <2>1. CASE pc \in {"edges", "done"}
    BY <2>1, UidsDiffer DEF IInv, DefsKnown
  <2>2. CASE pc \notin {"edges", "done"}
    BY <2>2 DEF IInv
  <2> QED BY <2>1, <2>2
<1>3. ASSUME NEW e \in edges PROVE pc = "done"
  BY DEF IInv
<1> QED BY <1>1, <1>2, <1>3, EdgesAreTyped DEF TypeOK

(* TypeOK is invariant: uids are unique, edges leave the definition their  *)
(* use is in, and those at 0.92 and 1.0 end at definitions of the module.  *)
THEOREM TypeCorrect == Spec => []TypeOK
BY AlwaysIInv, TypesHold, PTL

-----------------------------------------------------------------------------
(***************************************************************************)
(* What the names mean.                                                    *)
(***************************************************************************)
LEMMA NameMeans ==
  ASSUME NEW i, Text[i].expr.recv = NoName, BindingScope(i, Text[i].expr.name) \in {-1, 0}
  PROVE  Means(i) = Values(BindingScope(i, Text[i].expr.name), Text[i].expr.name)
                    \cup Starred(Text[i].expr.name)
BY DEF Means, Looked

LEMMA ReceiverMeans ==
  ASSUME NEW i, Text[i].expr.recv # NoName
  PROVE  Means(i) = Attributes(BindingScope(i, Text[i].expr.recv), Text[i].expr.recv, Text[i].expr.name)
                    \cup OwnMethods(BindingScope(i, Text[i].expr.recv), Text[i].expr.recv, Text[i].expr.name)
BY DEF Means, Looked

LEMMA BindingScopeIs ==
  ASSUME NEW i \in DOMAIN Text, NEW n
  PROVE  /\ BindingScope(i, n) \in Int
         /\ BindingScope(i, n) # -1 => BoundIn(BindingScope(i, n), n)
         /\ BoundIn(0, n) => BindingScope(i, n) >= 0
<1> DEFINE visible == {0, Scope[i]} \cup {s \in Around[i] : Text[s].kind = "def"}
           S == {-1} \cup {s \in visible : BoundIn(s, n)}
<1>1. visible \subseteq Nat /\ IsFiniteSet(visible)
  <2>1. Around[i] \subseteq Nat /\ IsFiniteSet(Around[i])
    BY StatementsAreNested, FS_Subset DEF Around
  <2>2. Scope[i] \in Nat
    BY ScopeIs
  <2>3. IsFiniteSet({0}) /\ IsFiniteSet({0} \cup {Scope[i]}) /\ {0, Scope[i]} = {0} \cup {Scope[i]}
    BY FS_Singleton, FS_AddElement
  <2>4. IsFiniteSet({s \in Around[i] : Text[s].kind = "def"})
    BY <2>1, FS_Subset
  <2>5. IsFiniteSet(visible)
    BY <2>3, <2>4, FS_Union
  <2> QED BY <2>1, <2>2, <2>5
<1>2. S \in SUBSET Int /\ IsFiniteSet(S) /\ S # {}
  <2>1. IsFiniteSet({s \in visible : BoundIn(s, n)})
    BY <1>1, FS_Subset
  <2>2. IsFiniteSet({s \in visible : BoundIn(s, n)} \cup {-1})
    BY <2>1, FS_AddElement
  <2>3. S = {s \in visible : BoundIn(s, n)} \cup {-1}
    OBVIOUS
  <2> QED BY <1>1, <2>2, <2>3
<1>3. Max(S) \in S /\ Max(S) \in Int /\ \A y \in S : y <= Max(S)
  <2> HIDE DEF S
  <2> QED BY <1>2, MaxIs
<1>4. BindingScope(i, n) = Max(S)
  BY DEF BindingScope
<1>5. BoundIn(0, n) => 0 \in S
  OBVIOUS
<1> QED BY <1>3, <1>4, <1>5

(* A straight name that is no local is the module's, or no one's. *)
LEMMA NameIsGlobal ==
  ASSUME mod \in Modules, NEW i \in Uses, Straight(i), Text[i].expr.recv = NoName,
         ~Shadowed(Stack[i], Text[i].expr.name)
  PROVE  BindingScope(i, Text[i].expr.name) \in {-1, 0}
<1> DEFINE n == Text[i].expr.name
           s == BindingScope(i, n)
<1>1. i \in DOMAIN Text /\ i \in mod /\ n \in Names
  BY UseIs DEF Expr
<1>2. /\ s \in {-1, 0, Scope[i]} /\ (s > 0 => Text[s].kind = "def")
      /\ \A j \in Of({"import", "from"}) : Alias(j) = n => Scope[j] = 0
  BY DEF Straight, Looked
<1> SUFFICES ASSUME s = Scope[i], Scope[i] # 0 PROVE FALSE
  BY <1>2
<1>3. s \in Nat /\ s > 0
  BY <1>1, ScopeIs
<1>4. s \in Of({"def"}) /\ Qual[s] = Stack[i]
  <2>1. s \in Defs /\ Text[s].kind = "def"
    BY <1>1, <1>2, <1>3, TextIsClosed
  <2> QED BY <1>1, <2>1, StackIs DEF Defs, Of
<1>5. BoundIn(s, n)
  BY <1>1, <1>3, BindingScopeIs
<1>6. ~Imported(s, n)
  BY <1>2, <1>3 DEF Imported
<1>7. n \in Locals(s)
  BY <1>1, <1>5, <1>6 DEF BoundIn, Locals
<1> QED BY <1>4, <1>7 DEF Shadowed

LEMMA PackagesAgree ==
  ASSUME mod \in Modules, NEW i, Straight(i), NEW j \in Of({"from"})
  PROVE  From(j, Package) = From(j, PackageParts)
<1>1. CASE Last(path) = "__init__"
  <2>1. Text[j].level = 0
    BY <1>1 DEF Straight
  <2> QED BY <2>1 DEF From
<1>2. CASE Last(path) # "__init__"
  BY <1>2 DEF Package, PackageParts
<1> QED BY <1>1, <1>2

(* A definition or an import at the top of the module binds its name there. *)
LEMMA ModuleBinds ==
  ASSUME mod \in Modules, NEW i \in mod, NEW n, NEW j \in mod, Scope[j] = 0, Binds(j, n),
         BindingScope(i, n) \in {-1, 0}
  PROVE  BindingScope(i, n) = 0 /\ j \in Binders(0, n)
<1>1. BoundIn(0, n)
  BY DEF BoundIn
<1>2. i \in DOMAIN Text
  BY TextIsClosed
<1>3. BindingScope(i, n) >= 0
  BY <1>1, <1>2, BindingScopeIs
<1> QED BY <1>3 DEF Binders

LEMMA TopDefsAre ==
  ASSUME mod \in Modules, NEW n
  PROVE  /\ TopDefs(n) \in SUBSET mod /\ TopDefs(n) \subseteq Defs
         /\ \A j \in TopDefs(n) : Scope[j] = 0 /\ Binds(j, n) /\ IsDef(j)
         /\ \A j \in mod : Scope[j] = 0 /\ IsDef(j) /\ Binds(j, n) => j \in TopDefs(n)
<1>1. \A j \in mod : j \in DOMAIN Text
  BY TextIsClosed
<1>2. \A j \in mod : Scope[j] = 0 <=> Around[j] = {}
  BY <1>1, ScopeIs
<1> QED BY <1>2 DEF TopDefs, Defs, Of, IsDef, Binds

(* A straight name never resolves to anything else. *)
LEMMA NameIsRight ==
  ASSUME IInv, pc = "done", NEW i \in Uses, Straight(i), Text[i].expr.recv = NoName,
         ResolveName(i, Text[i].expr.name) # NoTarget
  PROVE  ResolveName(i, Text[i].expr.name).to \in Means(i)
<1> DEFINE n == Text[i].expr.name
           r == ResolveName(i, n)
           s == BindingScope(i, n)
<1>1. mod \in Modules /\ ImportsKnown /\ DefsKnown
  BY DEF IInv
<1>2. i \in mod /\ n \in Names
  BY <1>1, UseIs DEF Expr
<1>3. ~Shadowed(Stack[i], n)
  BY DEF ResolveName
<1>4. s \in {-1, 0}
  BY <1>1, <1>3, NameIsGlobal
<1>5. Means(i) = Values(s, n) \cup Starred(n)
  BY <1>4, NameMeans
<1>6. CASE ToDef(r, n)
  <2> DEFINE d == Effective(TopDefs(n))
  <2>1. d \in TopDefs(n) /\ r.to = Uid(d)
    BY <1>1, <1>6, TopDefsAre, EffectiveIs DEF ToDef
  <2>2. d \in mod /\ Scope[d] = 0 /\ Binds(d, n) /\ IsDef(d) /\ uid[d] = Uid(d)
    BY <1>1, <2>1, TopDefsAre DEF DefsKnown
  <2>3. s = 0 /\ d \in Binders(0, n)
    BY <1>1, <1>2, <1>4, <2>2, ModuleBinds
  <2>4. ValueOf(d) = {uid[d]}
    BY <2>2 DEF ValueOf, IsDef
  <2>5. r.to \in Values(s, n)
    BY <2>1, <2>2, <2>3, <2>4 DEF Values
  <2> QED BY <1>5, <2>5
<1>7. ASSUME NEW j \in Symbols, ToImport(r, n, j) PROVE r.to \in Means(i)
  <2>1. /\ j \in mod /\ j \in Of({"from"}) /\ Text[j].kind = "from" /\ From(j, PackageParts) # <<>>
        /\ Alias(j) = n /\ r.to = Symbol(From(j, PackageParts), Text[j].name)
    BY <1>7 DEF Symbols, Of, ToImport
  <2>2. Scope[j] = 0 /\ Binds(j, n)
    BY <2>1 DEF Straight, Looked, Of, Binds
  <2>3. s = 0 /\ j \in Binders(0, n)
    BY <1>1, <1>2, <1>4, <2>1, <2>2, ModuleBinds
  <2>4. From(j, Package) = From(j, PackageParts)
    BY <1>1, <2>1, PackagesAgree
  <2>5. ValueOf(j) = {Symbol(From(j, Package), Text[j].name)}
    BY <2>1, <2>4 DEF ValueOf, IsDef
  <2>6. r.to \in Values(s, n)
    BY <2>1, <2>3, <2>4, <2>5 DEF Values
  <2> QED BY <1>5, <2>6
<1>8. ASSUME NEW j \in StarImports, ToStar(r, n, j) PROVE r.to \in Means(i)
  <2>1. /\ j \in Of({"from"}) /\ Text[j].name = "*" /\ From(j, PackageParts) # <<>>
        /\ r.to = Symbol(From(j, PackageParts), n)
    BY <1>8 DEF StarImports, ToStar
  <2>2. From(j, Package) = From(j, PackageParts)
    BY <1>1, <2>1, PackagesAgree
  <2>3. j \in Stars
    BY <2>1, <2>2 DEF Stars
  <2>4. r.to = Symbol(From(j, Package), n)
    BY <2>1, <2>2
  <2>5. r.to \in Starred(n)
    BY <2>3, <2>4 DEF Starred
  <2> QED BY <1>5, <2>5
<1> QED BY <1>1, <1>2, <1>3, <1>6, <1>7, <1>8, NameResolves

(* A straight self is that of the method the use is in, and the methods    *)
(* the resolver looks among are those of its class.                        *)
LEMMA SelfIsOwn ==
  ASSUME mod \in Modules, DefsKnown, NEW i \in Uses, Straight(i),
         Text[i].expr.recv # NoName, Text[i].expr.recv \in {"self", "cls"}
  PROVE  /\ \A j \in Of({"import", "from"}) : Alias(j) # Text[i].expr.recv
         /\ Means(i) = {uid[j] : j \in MethodsOf(<<ClassQual(i), Text[i].expr.name>>)}
<1> DEFINE n == Text[i].expr.name
           recv == Text[i].expr.recv
           s == BindingScope(i, recv)
           c == Scope[s]
           key == <<ClassQual(i), n>>
<1>1. i \in DOMAIN Text /\ i \in mod
  BY UseIs
<1>2. s \in {-1, 0, Scope[i]} /\ (s > 0 => Text[s].kind = "def") /\ SelfOf(s, recv)
  BY DEF Straight, Looked
<1>3. /\ s > 0 /\ InClass(s) /\ Binders(s, recv) = {}
      /\ \A j \in Of({"import", "from"}) : Alias(j) # recv
      /\ \A k \in Of({"class"}) : Qual[k] = Qual[c] => k = c
  BY <1>2 DEF SelfOf
<1>4. s = Scope[i] /\ Scope[i] # 0 /\ s \in Defs /\ s \in DOMAIN Text /\ Text[s].kind = "def"
  BY <1>1, <1>2, <1>3, TextIsClosed DEF Defs, Of
<1>5. c # 0 /\ Text[c].kind = "class" /\ c \in Defs /\ c \in Of({"class"})
  <2>1. s \in mod
    BY <1>4 DEF Defs, Of
  <2>2. c # 0 /\ Text[c].kind = "class"
    BY <1>3 DEF InClass
  <2>3. c \in Defs
    BY <2>1, <2>2, TextIsClosed
  <2> QED BY <2>2, <2>3 DEF Defs, Of
<1>6. ClassQual(i) = Qual[c]
  <2> DEFINE classes == {j \in Around[i] : Text[j].kind = "class"}
  <2>1. Around[i] = Around[s] \cup {s}
    BY <1>1, <1>4, ScopeIs
  <2>2. classes = {j \in Around[s] : Text[j].kind = "class"}
    BY <1>4, <2>1
  <2>3. c \in Around[s] /\ \A j \in Around[s] : j <= c
    BY <1>4, <1>5, ScopeIs
  <2>4. c \in classes /\ \A j \in classes : j <= c
    BY <1>5, <2>2, <2>3
  <2>5. classes \subseteq Nat
    BY <1>1, StatementsAreNested DEF Around
  <2>6. Max(classes) = c
    <3>1. Max(classes) \in classes /\ \A j \in classes : Max(classes) >= j
      <4>1. \E x \in classes : \A j \in classes : x >= j
        BY <2>4, <2>5
      <4> HIDE DEF classes
      <4> QED BY <4>1 DEF Max
    <3> HIDE DEF classes
    <3>2. Max(classes) <= c /\ Max(classes) >= c
      BY <2>4, <3>1
    <3>3. c \in Nat /\ Max(classes) \in Nat
      BY <2>4, <2>5, <3>1
    <3> HIDE DEF c
    <3> QED BY <3>2, <3>3
  <2>7. classes # {} /\ ClassQual(i) = IF classes = {} THEN <<>> ELSE Qual[Max(classes)]
    BY <2>4 DEF ClassQual
  <2> QED BY <2>6, <2>7
<1>7. MethodsOf(key) = {k \in Defs : Scope[k] = c /\ Text[k].name = n}
  <2>1. ASSUME NEW k \in Defs, InClass(k), Qual[Scope[k]] = Qual[c] PROVE Scope[k] = c
    <3>1. k \in mod
      BY DEF Defs, Of
    <3>2. Scope[k] \in Of({"class"})
      BY <2>1, <3>1, TextIsClosed DEF InClass, Defs, Of
    <3> QED BY <1>3, <2>1, <3>2
  <2>2. ASSUME NEW k \in Defs, Scope[k] = c PROVE InClass(k)
    BY <1>5, <2>2 DEF InClass
  <2>3. \A k : <<Qual[Scope[k]], Text[k].name>> = key <=> Qual[Scope[k]] = Qual[c] /\ Text[k].name = n
    BY <1>6
  <2> QED BY <2>1, <2>2, <2>3 DEF MethodsOf
<1>8. recv \in Text[s].params
  <2>1. BoundIn(s, recv)
    BY <1>1, <1>3, BindingScopeIs
  <2> QED BY <1>3, <2>1 DEF BoundIn, Binders
<1>9. OwnMethods(s, recv, n) = {uid[j] : j \in {k \in Defs : Scope[k] = c /\ Text[k].name = n}}
  BY <1>3, <1>4, <1>8 DEF OwnMethods
<1>10. Means(i) = Attributes(s, recv, n) \cup OwnMethods(s, recv, n)
  BY ReceiverMeans
<1>11. Attributes(s, recv, n) = {}
  BY <1>3 DEF Attributes
<1>12. Means(i) = {uid[j] : j \in MethodsOf(key)}
  BY <1>7, <1>9, <1>10, <1>11
<1> QED BY <1>3, <1>12

LEMMA MethodsAre ==
  ASSUME mod \in Modules, NEW key
  PROVE  MethodsOf(key) \in SUBSET mod /\ MethodsOf(key) \subseteq Defs
BY DEF MethodsOf, Defs, Of

LEMMA ReceiverIsRight ==
  ASSUME IInv, pc = "done", NEW i \in Uses, Straight(i), Text[i].expr.recv # NoName,
         ResolveAttribute(i, Text[i].expr.recv, Text[i].expr.name) # NoTarget
  PROVE  ResolveAttribute(i, Text[i].expr.recv, Text[i].expr.name).to \in Means(i)
<1> DEFINE n == Text[i].expr.name
           recv == Text[i].expr.recv
           r == ResolveAttribute(i, recv, n)
           s == BindingScope(i, recv)
<1>1. mod \in Modules /\ ImportsKnown /\ DefsKnown
  BY DEF IInv
<1>2. i \in mod /\ n \in Names /\ recv \in Names
  BY <1>1, UseIs DEF Expr
<1>3. Attributes(s, recv, n) \subseteq Means(i)
  BY ReceiverMeans
<1>4. ASSUME NEW j \in Of({"import", "from"}), Alias(j) = recv
      PROVE  s = 0 /\ j \in Binders(0, recv)
  <2>1. recv \notin {"self", "cls"}
    BY <1>1, <1>4, SelfIsOwn
  <2>2. s \in {-1, 0, Scope[i]} /\ s <= 0 /\ Scope[j] = 0
    BY <1>4, <2>1 DEF Straight, Looked
  <2>3. Scope[i] \in Nat
    BY <1>1, <1>2, TextIsClosed, ScopeIs
  <2>4. s \in {-1, 0}
    BY <2>2, <2>3
  <2>5. j \in mod /\ Binds(j, recv)
    BY <1>4 DEF Of, Binds
  <2> QED BY <1>1, <1>2, <2>2, <2>4, <2>5, ModuleBinds
<1>5. ASSUME NEW j \in Of({"import"}), ToModule(r, recv, n, j) PROVE r.to \in Means(i)
  <2>1. /\ j \in Of({"import", "from"}) /\ Text[j].kind = "import"
        /\ Alias(j) = recv /\ r.to = Symbol(Bound(j), n)
    BY <1>5 DEF ToModule, Of
  <2>2. AttributeOf(j, n) = {Symbol(Bound(j), n)}
    <3>1. CASE Text[j].as # NoName
      BY <2>1, <3>1 DEF AttributeOf, Bound
    <3>2. CASE Text[j].as = NoName
      BY <2>1, <3>2 DEF AttributeOf, Bound, Alias
    <3> QED BY <3>1, <3>2
  <2>3. r.to \in Attributes(s, recv, n)
    BY <1>4, <2>1, <2>2 DEF Attributes
  <2> QED BY <1>3, <2>3
<1>6. ASSUME NEW j \in Symbols, ToSubmodule(r, recv, n, j) PROVE r.to \in Means(i)
  <2>1. /\ j \in Of({"from"}) /\ j \in Of({"import", "from"}) /\ Text[j].kind = "from"
        /\ From(j, PackageParts) # <<>> /\ Alias(j) = recv
        /\ r.to = Symbol(From(j, PackageParts) \o <<Text[j].name>>, n)
    BY <1>6 DEF ToSubmodule, Symbols, Of
  <2>2. From(j, Package) = From(j, PackageParts)
    BY <1>1, <2>1, PackagesAgree
  <2>3. AttributeOf(j, n) = {Symbol(From(j, Package) \o <<Text[j].name>>, n)}
    BY <2>1, <2>2 DEF AttributeOf
  <2>4. r.to \in Attributes(s, recv, n)
    BY <1>4, <2>1, <2>2, <2>3 DEF Attributes
  <2> QED BY <1>3, <2>4
<1>7. CASE ToMethod(r, i, recv, n)
  <2> DEFINE S == MethodsOf(<<ClassQual(i), n>>)
  <2>1. recv \in {"self", "cls"} /\ S # {} /\ r.to = Uid(Effective(S))
    BY <1>7 DEF ToMethod
  <2>2. Effective(S) \in S /\ Effective(S) \in Defs
    BY <1>1, <2>1, MethodsAre, EffectiveIs
  <2>3. uid[Effective(S)] = Uid(Effective(S))
    BY <1>1, <2>2 DEF DefsKnown
  <2>4. Means(i) = {uid[j] : j \in S}
    BY <1>1, <2>1, SelfIsOwn
  <2> QED BY <2>1, <2>2, <2>3, <2>4
<1> QED BY <1>1, <1>2, <1>5, <1>6, <1>7, AttributeResolves

LEMMA ResolvedIsRight ==
  ASSUME IInv, pc = "done", NEW i \in Uses, Straight(i), Resolve(i, Text[i].expr) # NoTarget
  PROVE  Resolve(i, Text[i].expr).to \in Means(i)
<1>1. CASE Text[i].expr.recv = NoName
  BY <1>1, NameIsRight DEF Resolve
<1>2. CASE Text[i].expr.recv # NoName
  BY <1>2, ReceiverIsRight DEF Resolve
<1> QED BY <1>1, <1>2

LEMMA StraightHolds == IInv => StraightIsNeverWrong
<1> SUFFICES ASSUME IInv, NEW e \in edges, Straight(e.at) PROVE e.dst \in Means(e.at)
  BY DEF StraightIsNeverWrong
<1>1. pc = "done" /\ EdgesKnown
  BY DEF IInv
<1>2. PICK i \in Uses : /\ Resolve(i, Text[i].expr) # NoTarget
                        /\ e = Edge(i, Resolve(i, Text[i].expr))
  BY <1>1 DEF EdgesKnown
<1>3. e.at = i /\ e.dst = Resolve(i, Text[i].expr).to
  BY <1>2 DEF Edge
<1> QED BY <1>1, <1>2, <1>3, ResolvedIsRight

(* An edge of a straight use is one of the things the name may mean to     *)
(* Python, for any text, path and set of names.                            *)
THEOREM StraightEdgesAreRight == Spec => []StraightIsNeverWrong
BY AlwaysIInv, StraightHolds, PTL

-----------------------------------------------------------------------------
(***************************************************************************)
(* What must be found.                                                     *)
(***************************************************************************)
(* Stubs stand for a name only if nothing else does. *)
LEMMA StubsComeLast ==
  ASSUME mod \in Modules, DefsKnown, NEW S \in SUBSET Defs, S # {}, Uid(Effective(S)) \in Stubs
  PROVE  \A j \in S : uid[j] \in Stubs
<1>1. S \in SUBSET mod
  BY DEF Defs, Of
<1>2. Effective(S) \in S /\ (IsStub(Effective(S)) => \A j \in S : IsStub(j))
  BY <1>1, EffectiveIs
<1>3. PICK k \in Defs : IsStub(k) /\ Uid(Effective(S)) = uid[k]
  BY DEF Stubs
<1>4. Uid(k) = Uid(Effective(S)) /\ Effective(S) \in Defs
  BY <1>2, <1>3 DEF DefsKnown
<1>5. k = Effective(S)
  BY <1>4, UidsDiffer
<1> QED BY <1>2, <1>3, <1>5 DEF Stubs

LEMMA OnlyOne ==
  ASSUME NEW S, IsFiniteSet(S), Cardinality(S) = 1, NEW j \in S
  PROVE  S = {j}
<1>1. \E x : S = {x}
  BY FS_Singleton
<1> QED BY <1>1

LEMMA BindersAreFinite ==
  ASSUME mod \in Modules, NEW s, NEW n
  PROVE  IsFiniteSet(Binders(s, n)) /\ Binders(s, n) \subseteq mod
         /\ \A j \in Binders(s, n) : Scope[j] = s /\ Scope[j] \in Nat /\ Binds(j, n) /\ j \in DOMAIN Text
<1>1. Binders(s, n) \in SUBSET mod
  BY DEF Binders
<1>2. \A j \in mod : j \in DOMAIN Text /\ Scope[j] \in Nat
  BY TextIsClosed, ScopeIs
<1> QED BY <1>1, <1>2, StatementsOfText DEF Binders

LEMMA OneValue ==
  ASSUME NEW j
  PROVE  /\ IsDef(j) => ValueOf(j) = {uid[j]}
         /\ ValueOf(j) # {} => \E x : ValueOf(j) = {x}
<1>1. CASE IsDef(j)
  BY <1>1 DEF ValueOf, IsDef
<1>2. CASE ~IsDef(j) /\ Text[j].kind = "from" /\ From(j, Package) # <<>>
  BY <1>2 DEF ValueOf
<1>3. CASE ~IsDef(j) /\ ~(Text[j].kind = "from" /\ From(j, Package) # <<>>)
  BY <1>3 DEF ValueOf
<1> QED BY <1>1, <1>2, <1>3

LEMMA NameIsFound ==
  ASSUME IInv, pc = "done", NEW i \in Uses, Straight(i), Unique(i), Text[i].expr.recv = NoName
  PROVE  LET r == ResolveName(i, Text[i].expr.name)
         IN  r # NoTarget /\ (r.to \in Stubs => Means(i) \subseteq Stubs)
<1> DEFINE n == Text[i].expr.name
           r == ResolveName(i, n)
           s == BindingScope(i, n)
           B == Binders(s, n)
<1>1. mod \in Modules /\ ImportsKnown /\ DefsKnown
  BY DEF IInv
<1>2. i \in mod /\ n \in Names
  BY <1>1, UseIs DEF Expr
<1>3. ~Shadowed(Stack[i], n) /\ Stars = {} /\ Means(i) # {}
  BY DEF Unique, Looked
<1>4. Cardinality(B) = 1 \/ (s = 0 /\ \A j \in B : IsDef(j))
  <2>1. NoName \notin {"self", "cls"}
    BY TextAssumption
  <2> QED BY <2>1 DEF Unique, Looked
<1>5. s \in {-1, 0}
  BY <1>1, <1>3, NameIsGlobal
<1>6. Means(i) = Values(s, n)
  <2>1. Starred(n) = {}
    BY <1>3 DEF Starred
  <2> QED BY <1>5, <2>1, NameMeans
<1>7. PICK j \in B : ValueOf(j) # {}
  BY <1>3, <1>6 DEF Values
<1>8. s = 0 /\ j \in mod /\ Scope[j] = 0 /\ Binds(j, n) /\ j \in DOMAIN Text
  BY <1>1, <1>5, <1>7, BindersAreFinite
<1>9. r # NoTarget
  <2>1. CASE IsDef(j)
    <3>1. TopDefs(n) # {}
      BY <1>1, <1>8, <2>1, TopDefsAre
    <3> QED BY <1>1, <1>2, <1>3, <3>1, NameResolves, NotNone DEF ToDef
  <2>2. CASE ~IsDef(j)
    <3>1. Text[j].kind = "from" /\ From(j, Package) # <<>>
      BY <1>7, <2>2 DEF ValueOf
    <3>2. j \in Of({"from"}) /\ Alias(j) = n
      BY <1>8, <3>1 DEF Of, Binds
    <3>3. From(j, PackageParts) # <<>> /\ Text[j].name # "*"
      BY <1>1, <1>3, <3>1, <3>2, PackagesAgree DEF Stars
    <3>4. j \in Symbols
      BY <3>2, <3>3 DEF Symbols
    <3> QED BY <1>1, <1>2, <1>3, <3>2, <3>4, NameResolves
  <2> QED BY <2>1, <2>2
<1>10. ASSUME r.to \in Stubs PROVE Means(i) \subseteq Stubs
  <2>1. CASE Cardinality(B) = 1
    <3>1. B = {j}
      BY <1>1, <1>7, <2>1, BindersAreFinite, OnlyOne
    <3>2. Means(i) = ValueOf(j)
      BY <1>6, <3>1 DEF Values
    <3>3. \E x : ValueOf(j) = {x}
      BY <1>7, OneValue
    <3>4. r.to \in Means(i)
      BY <1>9, NameIsRight
    <3> QED BY <1>10, <3>2, <3>3, <3>4
  <2>2. CASE \A k \in B : IsDef(k)
    <3>1. \A k \in B : k \in TopDefs(n)
      BY <1>1, <1>8, <2>2, BindersAreFinite, TopDefsAre
    <3>2. ToDef(r, n)
      BY <1>1, <1>2, <1>3, <1>7, <3>1, NameResolves
    <3>3. \A k \in TopDefs(n) : uid[k] \in Stubs
      <4>1. TopDefs(n) \in SUBSET Defs /\ TopDefs(n) # {} /\ Uid(Effective(TopDefs(n))) \in Stubs
        BY <1>1, <1>10, <3>2, TopDefsAre DEF ToDef
      <4> QED BY <1>1, <4>1, StubsComeLast
    <3>4. \A k \in B : ValueOf(k) = {uid[k]}
      BY <2>2, OneValue
    <3> QED BY <1>6, <3>1, <3>3, <3>4 DEF Values
  <2> QED BY <1>4, <2>1, <2>2
<1> QED BY <1>9, <1>10

LEMMA MethodIsFound ==
  ASSUME IInv, pc = "done", NEW i \in Uses, Straight(i), Unique(i),
         Text[i].expr.recv # NoName, Text[i].expr.recv \in {"self", "cls"}
  PROVE  LET r == ResolveAttribute(i, Text[i].expr.recv, Text[i].expr.name)
         IN  r # NoTarget /\ (r.to \in Stubs => Means(i) \subseteq Stubs)
<1> DEFINE n == Text[i].expr.name
           recv == Text[i].expr.recv
           r == ResolveAttribute(i, recv, n)
           S == MethodsOf(<<ClassQual(i), n>>)
<1>1. mod \in Modules /\ ImportsKnown /\ DefsKnown
  BY DEF IInv
<1>2. n \in Names /\ recv \in Names
  BY <1>1, UseIs DEF Expr
<1>3. Means(i) # {} /\ modImports[recv] = <<>>
  BY DEF Unique, Looked
<1>4. Means(i) = {uid[j] : j \in S}
  BY <1>1, SelfIsOwn
<1>5. S # {}
  BY <1>3, <1>4
<1>6. ToMethod(r, i, recv, n)
  BY <1>1, <1>2, <1>3, <1>5, AttributeResolves
<1>7. r # NoTarget
  BY <1>6, NotNone DEF ToMethod
<1>8. ASSUME r.to \in Stubs PROVE Means(i) \subseteq Stubs
  <2>1. Uid(Effective(S)) \in Stubs
    BY <1>6, <1>8 DEF ToMethod
  <2>2. S \in SUBSET Defs
    BY <1>1, MethodsAre
  <2>3. \A j \in S : uid[j] \in Stubs
    BY <1>1, <1>5, <2>1, <2>2, StubsComeLast
  <2> QED BY <1>4, <2>3
<1> QED BY <1>7, <1>8

LEMMA ModuleIsFound ==
  ASSUME IInv, pc = "done", NEW i \in Uses, Straight(i), Unique(i),
         Text[i].expr.recv # NoName, Text[i].expr.recv \notin {"self", "cls"}
  PROVE  LET r == ResolveAttribute(i, Text[i].expr.recv, Text[i].expr.name)
         IN  r # NoTarget /\ (r.to \in Stubs => Means(i) \subseteq Stubs)
<1> DEFINE n == Text[i].expr.name
           recv == Text[i].expr.recv
           r == ResolveAttribute(i, recv, n)
           s == BindingScope(i, recv)
           B == Binders(s, recv)
<1>1. mod \in Modules /\ ImportsKnown /\ DefsKnown
  BY DEF IInv
<1>2. n \in Names /\ recv \in Names
  BY <1>1, UseIs DEF Expr
<1>3. Stars = {} /\ Means(i) # {} /\ (Cardinality(B) = 1 \/ \A j \in B : IsDef(j))
  BY DEF Unique, Looked
<1>4. Means(i) = Attributes(s, recv, n)
  <2>1. s <= 0
    BY DEF Straight, Looked
  <2>2. OwnMethods(s, recv, n) = {}
    BY <2>1 DEF OwnMethods
  <2> QED BY <2>2, ReceiverMeans
<1>5. PICK j \in B : AttributeOf(j, n) # {}
  BY <1>3, <1>4 DEF Attributes
<1>6. j \in mod /\ Binds(j, recv) /\ j \in DOMAIN Text
  BY <1>1, <1>5, BindersAreFinite
<1>7. Text[j].kind = "import" \/ (Text[j].kind = "from" /\ From(j, Package) # <<>>)
  BY <1>5 DEF AttributeOf
<1>8. j \in Symbols \cup Of({"import"}) /\ Alias(j) = recv
  <2>1. Alias(j) = recv
    BY <1>6, <1>7 DEF Binds
  <2>2. CASE Text[j].kind = "import"
    BY <1>6, <2>1, <2>2 DEF Of
  <2>3. CASE Text[j].kind = "from" /\ From(j, Package) # <<>>
    <3>1. j \in Of({"from"})
      BY <1>6, <2>3 DEF Of
    <3>2. From(j, PackageParts) # <<>> /\ Text[j].name # "*"
      BY <1>1, <1>3, <2>3, <3>1, PackagesAgree DEF Stars
    <3> QED BY <2>1, <3>1, <3>2 DEF Symbols
  <2> QED BY <1>7, <2>2, <2>3
<1>9. r # NoTarget
  BY <1>1, <1>2, <1>8, AttributeResolves
<1>10. B = {j}
  <2>1. ~IsDef(j)
    BY <1>7 DEF IsDef
  <2> QED BY <1>1, <1>3, <1>5, <2>1, BindersAreFinite, OnlyOne
<1>11. Means(i) = AttributeOf(j, n)
  BY <1>4, <1>10 DEF Attributes
<1>12. \E x : AttributeOf(j, n) = {x}
  BY <1>5 DEF AttributeOf
<1>13. r.to \in Means(i)
  BY <1>9, ReceiverIsRight
<1> QED BY <1>9, <1>11, <1>12, <1>13

LEMMA UseIsFound ==
  ASSUME IInv, pc = "done", NEW i \in Uses, Straight(i), Unique(i)
  PROVE  \E e \in edges : /\ e.at = i
                          /\ e.dst \in Means(i)
                          /\ e.dst \in Stubs => Means(i) \subseteq Stubs
<1> DEFINE r == Resolve(i, Text[i].expr)
<1>1. r # NoTarget /\ (r.to \in Stubs => Means(i) \subseteq Stubs)
  <2>1. CASE Text[i].expr.recv = NoName
    BY <2>1, NameIsFound DEF Resolve
  <2>2. CASE Text[i].expr.recv # NoName
    BY <2>2, MethodIsFound, ModuleIsFound DEF Resolve
  <2> QED BY <2>1, <2>2
<1>2. r.to \in Means(i)
  BY <1>1, ResolvedIsRight
<1>3. Edge(i, r) \in edges
  BY <1>1 DEF IInv, EdgesKnown
<1>4. Edge(i, r).at = i /\ Edge(i, r).dst = r.to
  BY DEF Edge
<1> QED BY <1>1, <1>2, <1>3, <1>4

LEMMA CertainHolds == IInv => CertainIsFound
BY UseIsFound DEF CertainIsFound

(* A straight use that can mean one thing only has its edge, and the edge  *)
(* is to the implementation where there are overloads.                     *)
THEOREM CertainEdgesAreFound == Spec => []CertainIsFound
BY AlwaysIInv, CertainHolds, PTL

=============================================================================
