---------------------------- MODULE MCResolution ----------------------------
EXTENDS NameResolution, TLC

MCModules == {"r", "b", "c", "d"}
MCParent == "b" :> "r" @@ "c" :> "r" @@ "d" :> "r"
MCModName == "b" :> "b" @@ "c" :> "c" @@ "d" :> "d"
MCNames == {"n", "k", "b", "c", "d"}
MCExports == "e" :> {[name |-> "n", ns |-> "type", symbol |-> [kind |-> "ext", name |-> "n", trait |-> "yes"]]}
MCStd == {[name |-> "k", ns |-> "value", symbol |-> [kind |-> "ext", name |-> "k", trait |-> "none"]]}

Item(n, ns, vs, trait, gen) ==
    [kind |-> "def", name |-> n, ns |-> ns, variants |-> vs, trait |-> trait, generated |-> gen]
Def(n, ns, gen) == Item(n, ns, {}, "none", gen)
Enum(n, vs) == Item(n, "type", vs, "none", FALSE)
Trait(n, certainty, gen) == Item(n, "type", {}, certainty, gen)
Use(path, bind, gen) == [kind |-> "use", path |-> path, bind |-> bind, blocked |-> FALSE, generated |-> gen]
Blocked(path, bind) == [kind |-> "use", path |-> path, bind |-> bind, blocked |-> TRUE, generated |-> FALSE]
Rel(segs) == [anchor |-> "relative", ups |-> 0, segs |-> segs]
Crate(segs) == [anchor |-> "crate", ups |-> 0, segs |-> segs]
Super(segs) == [anchor |-> "self", ups |-> 1, segs |-> segs]
Extern(x, segs) == [anchor |-> x, ups |-> 0, segs |-> segs]

MCWritten ==
    {<<"r", Use(Rel(<<"b", "n">>), "n", FALSE)>>,
     <<"r", Use(Rel(<<"d">>), "*", FALSE)>>,
     <<"r", Use(Rel(<<"n">>), "k", FALSE)>>,
     <<"b", Use(Super(<<>>), "*", FALSE)>>,
     <<"b", Use(Crate(<<"c">>), "*", FALSE)>>,
     <<"b", Use(Rel(<<"e", "n">>), "k", FALSE)>>,
     <<"b", Use(Rel(<<"n">>), "*", FALSE)>>,
     <<"c", Trait("n", "yes", FALSE)>>,
     <<"c", Use(Super(<<"d">>), "*", FALSE)>>,
     <<"c", Blocked(Super(<<"b", "n">>), "k")>>,
     <<"d", Enum("n", {"k"})>>,
     <<"d", Use(Extern("e", <<>>), "*", FALSE)>>,
     <<"d", Use(Crate(<<"b">>), "*", FALSE)>>}

MCEmitted ==
    {<<"r", Def("n", "type", TRUE)>>,
     <<"b", Use(Crate(<<"d", "n">>), "n", TRUE)>>,
     <<"b", Def("e", "type", TRUE)>>,
     <<"c", Trait("k", "maybe", TRUE)>>}

(* For NamedFirst: a cycle of imports that is named in one direction and a *)
(* glob in the other, beside two more globs.                               *)
CycleWritten ==
    {<<"r", Use(Rel(<<"b", "n">>), "n", FALSE)>>,
     <<"r", Use(Rel(<<"d">>), "*", FALSE)>>,
     <<"b", Use(Super(<<>>), "*", FALSE)>>,
     <<"b", Use(Crate(<<"c">>), "*", FALSE)>>,
     <<"c", Def("n", "type", FALSE)>>,
     <<"d", Def("n", "type", FALSE)>>,
     <<"d", Def("n", "value", FALSE)>>}

(* For ProvidersFinal: a named import of a value beside which a macro      *)
(* emits a trait.                                                          *)
ProviderWritten ==
    {<<"b", Use(Crate(<<"d", "n">>), "n", FALSE)>>,
     <<"b", Use(Crate(<<"c">>), "*", FALSE)>>,
     <<"b", Trait("k", "yes", FALSE)>>,
     <<"d", Def("n", "value", FALSE)>>}
ProviderEmitted == {<<"d", Trait("n", "yes", TRUE)>>, <<"b", Trait("n", "no", TRUE)>>}
=============================================================================
