------------------------------- MODULE MCSolver -------------------------------
(* A body with a variable of its own universe, one of the outer universe and one *)
(* of an integer literal, and a parameter p; two marker traits, one of them with *)
(* an argument, and a trait with an associated type.                             *)
EXTENDS SolverTruth

T == Leaf("T")
U == Leaf("U")
X == Leaf("x")
Y == Leaf("y")
N == Leaf("n")
P == Leaf("p")
I32 == Leaf("int")
U32 == Leaf("uint")
Ref(t) == [head |-> "ref", args |-> <<t>>]
Wrap(t) == [head |-> "wrap", args |-> <<t>>]
A(t) == [head |-> "A", args |-> <<t>>]
B(t, u) == [head |-> "B", args |-> <<t, u>>]
I(t) == [head |-> "I", args |-> <<t>>]
Item(t) == [head |-> "item", args |-> <<t>>]

ParamsDef == {"p"}
VariablesDef == [x |-> [universe |-> 1, domain |-> "any"], y |-> [universe |-> 0, domain |-> "any"],
                 n |-> [universe |-> 1, domain |-> "integer"]]
TraitOfDef == [item |-> "I"]

Plain(head) == Clause(<<>>, head, <<>>, NoValue)
ForAll(head, body) == Clause(<<"T">>, head, body, NoValue)

\* Impls of A, of B and of I whose heads do not overlap.
ForA == {{Plain(A(I32))},
         {Plain(A(I32)), Plain(A(U32))},
         {Plain(A(I32)), ForAll(A(Ref(T)), <<A(T)>>)},
         {Plain(A(Wrap(I32))), ForAll(A(Ref(T)), <<A(Wrap(T))>>), ForAll(A(Wrap(Ref(T))), <<A(T)>>)},
         {ForAll(A(Wrap(T)), <<B(T, T), A(T)>>), Plain(A(I32))},
         {ForAll(A(Wrap(T)), <<A(Ref(T))>>), ForAll(A(Ref(T)), <<A(Wrap(T))>>), Plain(A(U32))}}
Others == {{Plain(B(I32, U32)), Plain(B(U32, U32)),
            Clause(<<"T">>, I(Ref(T)), <<A(T)>>, T), Clause(<<>>, I(I32), <<>>, U32)},
           {Plain(B(I32, I32)), Plain(B(Ref(I32), Ref(I32))),
            Clause(<<"T", "U">>, B(T, Wrap(U)), <<>>, NoValue),
            Clause(<<"T">>, I(Wrap(T)), <<B(T, I32)>>, Ref(T)), Clause(<<"T">>, I(Ref(T)), <<>>, I32)},
           {ForAll(B(Ref(T), T), <<A(T)>>), ForAll(B(T, Wrap(T)), <<>>),
            Clause(<<"T">>, I(Wrap(T)), <<A(T)>>, T)}}

Fact(fact, conditions, value) == [fact |-> fact, conditions |-> conditions, value |-> value]
Environments == {<<>>,
                 <<Fact(A(P), <<>>, NoValue), Fact(I(P), <<>>, NoValue)>>,
                 <<Fact(I(P), <<>>, NoValue), Fact(Item(P), <<>>, I32)>>,
                 <<Fact(A(Wrap(P)), <<A(P)>>, NoValue), Fact(B(P, Wrap(I32)), <<>>, NoValue)>>}

Program(impls, environment, complete, assumed) ==
    [impls |-> impls, environment |-> environment, complete |-> complete, assumed |-> assumed]
ProgramsDef ==
    {Program(a \cup o, e, TRUE, TRUE) : a \in ForA, o \in Others, e \in Environments}
        \cup {Program(o, e, known, ~known) : o \in Others, e \in Environments, known \in BOOLEAN}

\* An impl whose condition is the goal it is a candidate for, one reference further in.
CyclicProgramsDef ==
    {Program({Plain(A(Wrap(I32))), ForAll(A(Wrap(Ref(T))), <<A(Wrap(T))>>)}, <<>>, TRUE, TRUE)}

\* What a behaviour did before does not matter to what it may do.
View == <<program, graph, Len(asked)>>

RelationsDef == {<<X, Ref(Y)>>, <<X, Wrap(N)>>, <<Y, N>>, <<X, P>>}
GoalsDef == {A(X), A(Y), A(N), A(Wrap(X)), B(X, Y), B(N, X), B(Ref(N), X), B(P, X), B(X, ErrorType)}
ProjectionsDef == {<<Item(X), Y>>, <<Item(X), N>>, <<Item(Wrap(N)), X>>, <<Item(Ref(Y)), X>>}

Level0 == {I32, U32, P}
Level1 == {Ref(t) : t \in Level0} \cup {Wrap(t) : t \in Level0}
Level2 == {Ref(t) : t \in Level1} \cup {Wrap(t) : t \in Level1}
Types == Level0 \cup Level1 \cup Level2
MeaningsDef == {[x |-> t, y |-> u, n |-> v] :
                  t \in Types, u \in {w \in Level0 \cup Level1 : ~Contains(HeadsOf(w), "p")}, v \in {I32, U32}}
=============================================================================
