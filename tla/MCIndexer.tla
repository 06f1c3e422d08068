----------------------------- MODULE MCIndexer -----------------------------
(***************************************************************************)
(* Small repositories for Indexer.  a.py and another file, b.py or         *)
(* a/__init__.py, may both define f; m.py calls f from g, through imports  *)
(* (precise) or by name (coarse).                                          *)
(***************************************************************************)
EXTENDS Indexer

None == {}
EveryFile == Files

\* --- callees: one that defines f, and two that differ
DefF  == [ver |-> 1, defs |-> {"f"}, inner |-> {}, precise |-> {}, coarse |-> {}]
DefF2 == [ver |-> 2, defs |-> {"f"}, inner |-> {}, precise |-> {}, coarse |-> {}]
\* a module that defines f and g, with g calling f
DefFG == [ver |-> 1, defs |-> {"f", "g"},
          inner |-> {[src |-> "g", dst |-> "f", conf |-> 90]}, precise |-> {}, coarse |-> {}]

\* --- callers
\* from a import f;  g calls f(): both extractors see it
CallA == [ver |-> 1, defs |-> {"g"}, inner |-> {},
          precise |-> {[at |-> 1, src |-> "g", dst |-> <<"a", "f">>, conf |-> 97]},
          coarse |-> {[src |-> "g", name |-> "f", conf |-> 60]}]
\* the same, as the precise extractor alone sees it
PreciseA == [ver |-> 1, defs |-> {"g"}, inner |-> {},
             precise |-> {[at |-> 1, src |-> "g", dst |-> <<"a", "f">>, conf |-> 97]},
             coarse |-> {}]
\* g calls a bare f()
CallF == [ver |-> 1, defs |-> {"g"}, inner |-> {}, precise |-> {},
          coarse |-> {[src |-> "g", name |-> "f", conf |-> 30]}]
\* import a, b;  g calls a.f() and b.f()
CallAB == [ver |-> 1, defs |-> {"g"}, inner |-> {},
           precise |-> {[at |-> 1, src |-> "g", dst |-> <<"a", "f">>, conf |-> 95],
                        [at |-> 2, src |-> "g", dst |-> <<"b", "f">>, conf |-> 95]},
           coarse |-> {}]

NoPackages == [f \in Files |-> "no such path"]
APackage   == [f \in Files |-> IF f = "a" THEN "a/__init__" ELSE "no such path"]

EditVersions ==
    [f \in Files |-> CASE f = "a" -> {DefF, DefF2} [] f = "a/__init__" -> {DefFG} [] f = "m" -> {CallA, CallF}]
EditContents == {DefF, DefF2, DefFG, CallA, CallF}

TwoTargetsVersions ==
    [f \in Files |-> CASE f = "a" -> {DefF, DefF2} [] f = "b" -> {DefF} [] f = "m" -> {CallAB}]
TwoTargetsContents == {DefF, DefF2, CallAB}

EmbedVersions == [f \in Files |-> IF f = "a" THEN {DefF} ELSE {PreciseA}]
EmbedContents == {DefF, PreciseA}

TornVersions == [f \in Files |-> IF f = "a" THEN {DefF} ELSE {CallA, CallF}]
TornContents == {DefF, CallA, CallF}
=============================================================================
