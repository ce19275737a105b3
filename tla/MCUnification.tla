---------------------------- MODULE MCUnification ----------------------------
(* Four variables in two universes and of three domains; a parameter of the    *)
(* inner universe, as a type and as the length of an array.                    *)
EXTENDS Unification

CreatedInDef == [x |-> 1, y |-> 0, n |-> 1, f |-> 0]
InitialDomainDef == [x |-> "any", y |-> "any", n |-> "integer", f |-> "float"]
UniverseDef == [p |-> 1, array_p |-> 1]

Ref(t) == [head |-> "ref", args |-> <<t>>]
Pair(t, u) == [head |-> "pair", args |-> <<t, u>>]
ArrayP(t) == [head |-> "array_p", args |-> <<t>>]
X == Leaf("x")
Y == Leaf("y")
N == Leaf("n")
F == Leaf("f")

PoolDef == {X, Y, N, F, Leaf("p"), ArrayP(Y), Pair(X, N), Pair(Y, F), Pair(N, Y)}

Leaves == {Leaf("int"), Leaf("float"), Leaf("p")}
Level1 == Leaves \cup {Ref(t) : t \in Leaves} \cup {Pair(t, u) : t, u \in Leaves}
GroundTypes == Level1 \cup {ArrayP(t) : t \in Leaves} \cup {Ref(t) : t \in Level1}
                \cup {Pair(t, ArrayP(u)) : t \in Leaves, u \in Leaves}
RECURSIVE InnerMost(_)
InnerMost(t) == t.head \in DOMAIN UniverseDef \/ \E i \in DOMAIN t.args : InnerMost(t.args[i])
May(v) == {t \in GroundTypes : Admits(InitialDomainDef[v], t)
                                /\ (CreatedInDef[v] = 0 => ~InnerMost(t))}
MeaningsDef == {[x |-> a, y |-> b, n |-> c, f |-> d] :
                  a \in May("x"), b \in May("y"), c \in May("n"), d \in May("f")}
=============================================================================
