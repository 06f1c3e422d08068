----------------------------- MODULE MCPlanner -----------------------------
(***************************************************************************)
(* Small instances of Planner.  Node 1 is the file m.py, 2 the function    *)
(* send, 3 a function of the same name, 4 one named called.                *)
(***************************************************************************)
EXTENDS Planner, TLC

MCNamedBy == [w \in Words |-> Nodes \cap
                 (CASE w = "m.py::send" -> {2} [] w = "send" -> {2, 3}
                    [] w = "called" -> {4} [] w = "m.py" -> {1} [] OTHER -> {})]
MCAttrs   == [n \in Nodes |-> [ type |-> IF n \in Files THEN "file" ELSE IF n = 3 THEN "class" ELSE "function",
                                lang |-> "py", file |-> IF n = 4 THEN NoNode ELSE 1, mtime |-> 5 ]]
MCBareTail == [w \in Words |-> CASE w = "m.py::send" -> "send" [] w = "m.py" -> "py" [] OTHER -> w]
MCWordLen  == [w \in Words |-> CASE w = "m.py::send" -> 10 [] w = "where" -> 5 [] w = "send" -> 4
                                 [] w = "called" -> 6 [] w = "m.py" -> 4 [] w = "get" -> 3 [] w = "py" -> 2]
MCTokens   == [q \in Queries |-> CASE q = "who" -> <<"where", "get", "called", "send">>
                                   [] q = "dotted" -> <<"get", "m.py::send", "m.py">>]
MCEpoch == [v \in Values |-> CASE v = "june" -> 4 [] OTHER -> NoEpoch]
MCGlob  == [v \in Values |-> IF v = "m*" THEN {1} ELSE {}]

Locate(w, c)  == [intent |-> "LOCATE", symbol |-> w, filters |-> <<>>, confidence |-> c]
FilterBy(f)   == [intent |-> "FILTER", symbol |-> NoWord, filters |-> f, confidence |-> 90]

AllReplies == {Failure, Locate("send", 90), Locate("send", 40), Locate("send", 200), Locate("m.py", 90),
               FilterBy("type" :> "function" @@ "since" :> "june"),
               FilterBy("lang" :> "py" @@ "since" :> "junk" @@ "owner" :> "py"),
               FilterBy("path_glob" :> "m*" @@ "type" :> ""), FilterBy("type" :> "list")}
NoReplies  == {Failure}
=============================================================================
