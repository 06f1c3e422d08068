---------------------------- MODULE MCPyResolver ----------------------------
(***************************************************************************)
(* Modules for PyResolver, put together of the statements of               *)
(*                                                                         *)
(*      1  import x.y                     11      def f(self):             *)
(*      2  import k as x                  12          self.f()             *)
(*      3  from m import f                13          f()                  *)
(*      4  from .m import f               14  def g(x):                    *)
(*      5  from s import *                15      def f():                 *)
(*      6  def f(): ...                   16          f()                  *)
(*      7  if ...:                        17      f(); x.f()  [18]         *)
(*      8      def f(): return            19  def g():                     *)
(*      9  class A(f):                    20      f = 1                    *)
(*     10      def f(self): ...           21      from n import f          *)
(*                                        22      f(); x.f()  [23]         *)
(***************************************************************************)
EXTENDS PyResolver

In(i, s) == [in |-> i] @@ s

Import(module, as)            == [kind |-> "import", module |-> module, as |-> as]
ImportFrom(level, module, n)  == [kind |-> "from", level |-> level, module |-> module, name |-> n, as |-> NoName]
Def(n, params, empty)         == [kind |-> "def", name |-> n, params |-> params, empty |-> empty]
Call(recv, n)                 == [kind |-> "call", expr |-> [recv |-> recv, name |-> n]]

Statements == <<
    In({}, Import(<<"x", "y">>, NoName)),
    In({}, Import(<<"k">>, "x")),
    In({}, ImportFrom(0, <<"m">>, "f")),
    In({}, ImportFrom(1, <<"m">>, "f")),
    In({}, ImportFrom(0, <<"s">>, "*")),
    In({}, Def("f", {}, TRUE)),
    In({}, [kind |-> "block"]),
    In({7}, Def("f", {}, FALSE)),
    In({}, [kind |-> "class", name |-> "A", empty |-> FALSE, expr |-> [recv |-> NoName, name |-> "f"]]),
    In({9}, Def("f", {"self"}, TRUE)),
    In({9}, Def("f", {"self"}, FALSE)),
    In({9, 11}, Call("self", "f")),
    In({9, 11}, Call(NoName, "f")),
    In({}, Def("g", {"x"}, FALSE)),
    In({14}, Def("f", {}, FALSE)),
    In({14, 15}, Call(NoName, "f")),
    In({14}, Call(NoName, "f")),
    In({14}, Call("x", "f")),
    In({}, Def("g", {}, FALSE)),
    In({19}, [kind |-> "bind", name |-> "f"]),
    In({19}, ImportFrom(0, <<"n">>, "f")),
    In({19}, Call(NoName, "f")),
    In({19}, Call("x", "f")) >>

ModuleAndPackage == {<<"p", "q", "a">>, <<"p", "q", "__init__">>}

Optional == {2, 3, 4, 5, 6, 8, 9, 14, 15, 19, 20, 21}

Closed(S) == \A i \in S : Text[i].in \subseteq S \cup {7}

(* The chosen statements, with what is always inside them. *)
Whole(S) == S \cup {i \in DOMAIN Text \ Optional : Text[i].in \subseteq S \cup {11}}

AllModules == {Whole(S) : S \in {T \in SUBSET Optional : Closed(T)}}
=============================================================================
