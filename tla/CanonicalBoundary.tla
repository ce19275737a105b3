--------------------------- MODULE CanonicalBoundary ---------------------------
(* Queries and answers, and how they cross from one inference graph to another    *)
(* (sage-ir, check/solve/canonical.rs and boundary.rs): a goal is abstracted into *)
(* a query that names its inputs by position, a query becomes the graph of a      *)
(* proof, what the proof found is extracted as an answer, and an answer is        *)
(* applied to the graph that asked.                                               *)
(*                                                                                *)
(* A goal is a type whose head is a trait or an associated type: the self type    *)
(* comes first among its arguments.  A fact of the environment has conditions,   *)
(* and a value when it tells what an associated type is.                         *)
EXTENDS InferenceGraph

CONSTANT Params            \* the rigid parameters a body may mention, by name

\* The n-th canonical parameter and the n-th variable a graph allocates by itself.
Alpha == <<"a1", "a2", "a3", "a4", "a5", "a6", "a7", "a8", "a9", "a10", "a11", "a12">>
Fresh == <<"f1", "f2", "f3", "f4", "f5", "f6", "f7", "f8", "f9", "f10", "f11", "f12">>

Place(h) == CHOOSE i \in DOMAIN Alpha : Alpha[i] = h

NoValue == Leaf("none")
NoSubst == [h \in {} |-> NoValue]

RECURSIVE Substitute(_, _)
Substitute(t, m) ==
    IF t.head \in DOMAIN m THEN m[t.head]
    ELSE [t EXCEPT !.args = [i \in DOMAIN t.args |-> Substitute(t.args[i], m)]]

RECURSIVE HeadsOf(_)
HeadsOf(t) == <<t.head>> \o FlattenSeq([i \in DOMAIN t.args |-> HeadsOf(t.args[i])])

RECURSIVE HasError(_)
HasError(t) == t = ErrorType \/ \E i \in DOMAIN t.args : HasError(t.args[i])

Distinct(names) ==
    FoldLeft(LAMBDA seen, h : IF Contains(seen, h) THEN seen ELSE Append(seen, h), <<>>, names)

-----------------------------------------------------------------------------
(* A goal becomes a query (canonical.rs)                                       *)

TermsOf(fact) == fact.conditions \o <<fact.fact, fact.value>>
MapFact(fact, f) ==
    [conditions |-> [i \in DOMAIN fact.conditions |-> f[fact.conditions[i]]],
     fact |-> f[fact.fact], value |-> f[fact.value]]

Placeholders == Params \cup ToSet(Alpha)
PlaceholderUniverse(s, h) == IF h \in DOMAIN s.universe THEN s.universe[h] ELSE 0

InputInfo(s, h) ==
    IF h \in DOMAIN s.ceiling
      THEN [role |-> "existential", universe |-> s.ceiling[h],
            domain |-> EffectiveDomain(s, Leaf(h))]
      ELSE [role |-> "rigid", universe |-> PlaceholderUniverse(s, h), domain |-> "any"]

\* The variables and parameters the terms mention, in the order they are met.
Callers(s, assumptions, asked) ==
    LET terms == FlattenSeq([i \in DOMAIN assumptions |-> TermsOf(assumptions[i])]) \o <<asked>>
    IN  SelectSeq(Distinct(FlattenSeq([i \in DOMAIN terms |-> HeadsOf(terms[i])])),
                  LAMBDA h : h \in DOMAIN s.ceiling \cup Placeholders)

\* The query in terms of its inputs; universes count from the lowest it knows.
Abstracted(q, callers, info, base) ==
    LET renamed == [h \in ToSet(callers) |->
                        Leaf(Alpha[CHOOSE i \in DOMAIN callers : callers[i] = h])]
    IN  [query |-> [q EXCEPT
            !.universe = @ - base,
            !.inputs = [i \in DOMAIN info |-> [info[i] EXCEPT !.universe = @ - base]],
            !.assumptions = [i \in DOMAIN @ |->
                MapFact(@[i], [t \in ToSet(TermsOf(@[i])) |-> Substitute(t, renamed)])],
            !.goal = Substitute(@, renamed)],
         callers |-> callers, base |-> base]
AbstractInputs(s, q, callers) ==
    LET info == [i \in DOMAIN callers |-> InputInfo(s, callers[i])]
    IN  Abstracted(q, callers, info, Min({info[i].universe : i \in DOMAIN info} \cup {q.universe}))

\* canonicalize_solver_goal: the assumptions are visited first, then the goal.
CanonicalResolved(s, q) == AbstractInputs(s, q, Callers(s, q.assumptions, q.goal))
Canonical(s, environment, complete, current, operation, goal) ==
    CanonicalResolved(s,
        [operation |-> operation, universe |-> current, inputs |-> <<>>, complete |-> complete,
         assumptions |-> [i \in DOMAIN environment |->
             MapFact(environment[i], [t \in ToSet(TermsOf(environment[i])) |-> Resolved(s, t)])],
         goal |-> Resolved(s, goal)])

Existentials(q) == {i \in DOMAIN q.inputs : q.inputs[i].role = "existential"}

-----------------------------------------------------------------------------
(* A query becomes the graph of a proof, an answer that of its caller          *)

InstantiateQuery(q) ==
    LET existential == {Alpha[i] : i \in Existentials(q)}
        rigid == {Alpha[i] : i \in DOMAIN q.inputs \ Existentials(q)}
    IN  [parent |-> <<>>, domain |-> <<>>, dependents |-> <<>>,
         initial |-> [h \in existential |-> q.inputs[Place(h)].domain],
         ceiling |-> [h \in existential |-> q.inputs[Place(h)].universe],
         universe |-> [h \in rigid |-> q.inputs[Place(h)].universe],
         work |-> <<>>, wakes |-> {}, revision |-> 0, err |-> Done]

\* alloc_var_in_domain
NextVar(s) == Fresh[1 + Cardinality(DOMAIN s.ceiling \cap ToSet(Fresh))]
AllocVar(s, u, d) ==
    [s EXCEPT !.ceiling = (NextVar(s) :> u) @@ @, !.initial = (NextVar(s) :> d) @@ @]

\* What each canonical name of an answer stands for in the graph that asked.
RECURSIVE BindResponse(_, _, _, _)
BindResponse(s, asked, bound, names) ==
    IF bound = <<>> THEN [state |-> s, names |-> names]
    ELSE BindResponse(AllocVar(s, asked.base + Head(bound).universe, Head(bound).domain),
                      asked, Tail(bound), Append(names, NextVar(s)))

\* apply_query_response: in a child, and all of it or none.
ApplyNamed(g, s, names, told, answer) ==
    [state |-> Commit(g, UnifyAll(s, [i \in DOMAIN told |->
                                 Call(names[told[i]], Substitute(answer.subst[told[i]], names))]),
                      FALSE),
     output |-> Substitute(answer.output, names)]
ApplyOpened(g, opened, asked, answer) ==
    ApplyNamed(g, opened.state,
               [h \in {Alpha[i] : i \in DOMAIN opened.names} |-> Leaf(opened.names[Place(h)])],
               SelectSeq(SubSeq(Alpha, 1, Len(asked.callers)), LAMBDA h : h \in DOMAIN answer.subst),
               answer)
Apply(g, asked, answer) ==
    ApplyOpened(g, BindResponse(Begin(g), asked, answer.bound, asked.callers), asked, answer)

-----------------------------------------------------------------------------
(* What a proof found becomes an answer (ResponseExtractor)                    *)

Answer(certainty, output, subst, bound) ==
    [certainty |-> certainty, output |-> output, subst |-> subst, bound |-> bound]
Refuted == Answer("no", NoValue, NoSubst, <<>>)

\* The inputs that stand for a class as they are: neither its domain nor its
\* universe was narrowed.
ClassInputs(q, s, h) ==
    {i \in Existentials(q) :
        /\ Find(s, Leaf(Alpha[i])) = Leaf(h)
        /\ q.inputs[i].domain = EffectiveDomain(s, Leaf(h))
        /\ q.inputs[i].universe = s.ceiling[h]}

\* A variable is an input's if it is the input's class, and the answer's own if not.
ResponseName(q, s, own, h) ==
    IF ClassInputs(q, s, h) # {} THEN Alpha[Min(ClassInputs(q, s, h))]
    ELSE Alpha[Len(q.inputs) + CHOOSE i \in DOMAIN own : own[i] = h]

Response(s, certainty, value, found, names, own) ==
    Answer(certainty, Substitute(found, names),
           [h \in {k \in DOMAIN value : Substitute(value[k], names) # Leaf(k)} |->
                Substitute(value[h], names)],
           [i \in DOMAIN own |-> [universe |-> s.ceiling[own[i]],
                                  domain |-> EffectiveDomain(s, Leaf(own[i]))]])
ResponseOver(q, s, certainty, value, found, open, own) ==
    Response(s, certainty, value, found,
             [h \in ToSet(open) |-> Leaf(ResponseName(q, s, own, h))], own)

\* The variables left in the values of the inputs and in the output, as they are met.
OpenIn(s, inputs, value, found) ==
    LET shown == [i \in DOMAIN inputs |-> value[inputs[i]]] \o <<found>>
    IN  SelectSeq(Distinct(FlattenSeq([i \in DOMAIN shown |-> HeadsOf(shown[i])])),
                  LAMBDA h : h \in DOMAIN s.ceiling)
ResponseFrom(q, s, certainty, value, found, open) ==
    ResponseOver(q, s, certainty, value, found, open,
                 SelectSeq(open, LAMBDA h : ClassInputs(q, s, h) = {}))
ResponseFor(q, s, certainty, inputs, value, found) ==
    ResponseFrom(q, s, certainty, value, found, OpenIn(s, inputs, value, found))

\* extract_query_result: the inputs that have become something else, in terms of the
\* other inputs and of variables of the answer's own.
Extract(q, s, certainty, output) ==
    LET inputs == SelectSeq(SubSeq(Alpha, 1, Len(q.inputs)), LAMBDA h : Place(h) \in Existentials(q))
    IN  IF certainty = "no" THEN Refuted
        ELSE ResponseFor(q, s, certainty, inputs, [h \in ToSet(inputs) |-> Resolved(s, Leaf(h))],
                         Resolved(s, output))
=============================================================================
