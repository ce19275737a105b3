-------------------------- MODULE MCModuleExpansion --------------------------
(* Instances of ModuleExpansion: crates of one and two modules, and one of four. *)
EXTENDS ModuleExpansion

Def(n, emits) == [kind |-> "def", name |-> n, emits |-> emits]
Call(n) == [kind |-> "call", name |-> n, emits |-> <<>>]
Glob(m) == [kind |-> "glob", name |-> m, emits |-> <<>>]
Opaque == [kind |-> "opaque", name |-> "-", emits |-> <<>>]
Ordinary == [kind |-> "ordinary", name |-> "-", emits |-> <<>>]

Names == {"m", "n"}

(* A macro emits an item, a definition, a call (of itself, or of the other *)
(* macro) or something that does not parse.                                *)
Emitted ==
  {<<Ordinary>>, <<Opaque>>} \cup {<<Def(n, <<Ordinary>>)>> : n \in Names}
    \cup {<<Call(n)>> : n \in Names}
Defs == {<<>>} \cup {<<Def(n, e)>> : n \in Names, e \in Emitted}
CallLists == {<<>>, <<Call("m")>>, <<Call("n")>>, <<Call("m"), Call("n")>>}
Sources(globs, calls) == {g \o d \o c : g \in globs, d \in Defs, c \in calls}
Preludes == {{}, {Def("m", <<Opaque>>)}}

(* Crates of two modules, of which a imports b and has a call, and b may   *)
(* import a.  The modules are asked for in every order, so that mirrored   *)
(* crates add nothing; a module without calls does not read another.       *)
MCModules == {"a", "b"}
MCPrograms ==
  {[source |-> [m \in MCModules |-> IF m = "a" THEN x ELSE y], prelude |-> p] :
     x \in Sources({<<Glob("b")>>}, CallLists \ {<<>>}), y \in Sources({<<>>, <<Glob("a")>>}, CallLists), p \in Preludes}

(* Crates of one module. *)
MCModuleAlone == {"a"}
MCProgramsAlone ==
  {[source |-> [m \in MCModuleAlone |-> x], prelude |-> p] : x \in Sources({<<>>}, CallLists), p \in Preludes}

(* A crate of four modules: a cycle inside a cycle. *)
MCNested ==
  LET define(n, item) == Def(n, <<item>>)
      items == [o |-> <<Glob("w"), Glob("x"), Glob("y"), Call("m")>>,
                w |-> <<Glob("o"), define("p", define("q", define("m", Ordinary))),
                        Call("p"), Call("q")>>,
                x |-> <<Glob("o"), Call("z")>>,
                y |-> <<Glob("o"), Call("z")>>]
  IN  {[source |-> items, prelude |-> {}]}
MCAll == MCPrograms \cup MCNested
=============================================================================
