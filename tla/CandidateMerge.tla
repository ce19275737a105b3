---------------------------- MODULE CandidateMerge ----------------------------
(* The answers of all candidates of a goal become one (sage-ir,                  *)
(* check/solve/merge.rs and anti_unify.rs): a definite answer that the others    *)
(* imply, or what every candidate that may still apply agrees on, as a hint.     *)
(*                                                                               *)
(* The candidates are a set: where the code sorts them, to be independent of the *)
(* order they finish in, any order will do.                                      *)
EXTENDS CanonicalBoundary

Domain(domains, h) == IF h \in DOMAIN domains THEN domains[h] ELSE "any"
InputNames(q) == {Alpha[i] : i \in DOMAIN q.inputs}
Universes(q) == [h \in InputNames(q) |-> q.inputs[Place(h)].universe]
InputDomains(q) == [h \in InputNames(q) |-> q.inputs[Place(h)].domain]

\* copy_answer_apart: the answer with its own variables named from position `next`.
Apart(q, answer, next) ==
    LET n == Len(q.inputs)
        own(k) == {Alpha[k + i] : i \in DOMAIN answer.bound}
        renamed == [h \in own(n) |-> Leaf(Alpha[next + Place(h) - n])]
    IN  [subst |-> [h \in DOMAIN answer.subst |-> Substitute(answer.subst[h], renamed)],
         output |-> Substitute(answer.output, renamed),
         universes |-> [h \in own(next) |-> answer.bound[Place(h) - next].universe],
         domains |-> [h \in own(next) |-> answer.bound[Place(h) - next].domain]]

-----------------------------------------------------------------------------
(* Subsumption (merge.rs)                                                      *)

SatisfiesDomain(t, required, domains) ==
    \/ required = "any"
    \/ t.head \in ToSet(Alpha) /\ Intersect(Domain(domains, t.head), required) = Domain(domains, t.head)
    \/ t.head \notin ToSet(Alpha) /\ Admits(required, t)

RECURSIVE ContainsNewer(_, _, _)
ContainsNewer(t, ceiling, universes) ==
    \/ t.head \in DOMAIN universes /\ universes[t.head] > ceiling
    \/ \E i \in DOMAIN t.args : ContainsNewer(t.args[i], ceiling, universes)

NoMatch == [ok |-> FALSE, binding |-> NoSubst]

\* directional_match_ty, for pairs of types one after the other: the variables of the
\* consequent alone may be chosen.
RECURSIVE MatchTypes(_, _, _, _)
MatchTypes(m, required, known, ctx) ==
    LET r == Head(required)
        k == Head(known)
        then(z) == MatchTypes(z, Tail(required), Tail(known), ctx)
    IN  IF required = <<>> THEN m
        ELSE IF r = k \/ (r.head \in DOMAIN m.binding /\ m.binding[r.head] = k) THEN then(m)
        ELSE IF /\ r.head \in ctx.flexible \ DOMAIN m.binding
                /\ SatisfiesDomain(k, Domain(ctx.domains, r.head), ctx.domains)
                /\ ~ContainsNewer(k, ctx.universes[r.head], ctx.universes)
          THEN then([m EXCEPT !.binding = (r.head :> k) @@ @])
        ELSE IF r.head = k.head /\ Len(r.args) = Len(k.args) /\ r.head \notin ctx.flexible
          THEN MatchTypes(m, r.args \o Tail(required), k.args \o Tail(known), ctx)
        ELSE NoMatch

SubsumesApart(q, required, known) ==
    LET keys == SelectSeq(Alpha, LAMBDA h : h \in DOMAIN required.subst)
    IN  /\ DOMAIN required.subst \subseteq DOMAIN known.subst
        /\ MatchTypes([ok |-> TRUE, binding |-> NoSubst],
                      <<required.output>> \o [i \in DOMAIN keys |-> required.subst[keys[i]]],
                      <<known.output>> \o [i \in DOMAIN keys |-> known.subst[keys[i]]],
                      [flexible |-> DOMAIN required.universes,
                       universes |-> required.universes @@ known.universes @@ Universes(q),
                       domains |-> required.domains @@ known.domains @@ InputDomains(q)]).ok

\* subsumes: wherever the antecedent holds the consequent does.
Subsumes(q, consequent, antecedent) ==
    SubsumesApart(q, Apart(q, consequent, Len(q.inputs) + Len(antecedent.bound)),
                  Apart(q, antecedent, Len(q.inputs)))

\* Mutant: the more general answer is dropped, not the more special one.
DominatedBackwards(q, yes, i) ==
    \E j \in DOMAIN yes \ {i} :
        /\ Subsumes(q, yes[i], yes[j])
        /\ ~Subsumes(q, yes[j], yes[i]) \/ j < i

Dominated(q, yes, i) ==
    \E j \in DOMAIN yes \ {i} :
        /\ Subsumes(q, yes[j], yes[i])
        /\ ~Subsumes(q, yes[i], yes[j]) \/ j < i

NonDominated(q, answers) ==
    LET yes == SetToSeq(answers)
    IN  {yes[i] : i \in {j \in DOMAIN yes : ~Dominated(q, yes, j)}}

-----------------------------------------------------------------------------
(* Hints (anti_unify.rs)                                                       *)

\* merge_types: the values as far as they agree, and a variable where they do not;
\* `bare` when that is all of it and nothing is known of the variable.
RECURSIVE AntiUnify(_, _, _, _), AntiUnifyArgs(_, _, _, _, _)
AntiUnify(values, witnesses, universe, ctx) ==
    LET first == values[1]
        known == [i \in DOMAIN values |-> Domain(ctx.domains, values[i].head)]
        domain == IF \A i \in DOMAIN known : known[i] = known[1] THEN known[1] ELSE "any"
    IN  IF \A i \in DOMAIN values : values[i] = first
          THEN [value |-> first, witnesses |-> witnesses, bare |-> FALSE]
        ELSE IF /\ first.args # <<>>
                /\ \A i \in DOMAIN values : /\ values[i].head = first.head
                                            /\ Len(values[i].args) = Len(first.args)
          THEN AntiUnifyArgs([first EXCEPT !.args = <<>>], [i \in DOMAIN values |-> values[i].args],
                             witnesses, universe, ctx)
        ELSE [value |-> Leaf(Alpha[ctx.next + Len(witnesses) + 1]),
              witnesses |-> Append(witnesses, [universe |-> universe, domain |-> domain]),
              bare |-> domain = "any"]
AntiUnifyArgs(merged, rest, witnesses, universe, ctx) ==
    LET arg == AntiUnify([i \in DOMAIN rest |-> Head(rest[i])], witnesses, universe, ctx)
    IN  IF rest[1] = <<>> THEN [value |-> merged, witnesses |-> witnesses, bare |-> FALSE]
        ELSE AntiUnifyArgs([merged EXCEPT !.args = Append(@, arg.value)],
                           [i \in DOMAIN rest |-> Tail(rest[i])], arg.witnesses, universe, ctx)

EmptyMaybe == Answer("maybe", NoValue, NoSubst, <<>>)

SharedKeys(views) == {h \in DOMAIN views[1].subst : \A i \in DOMAIN views : h \in DOMAIN views[i].subst}

\* The generalization of one input, unless it tells nothing or the input could not be it.
AddHint(z, h, r, universes) ==
    IF r.bare \/ ContainsNewer(r.value, universes[h], universes)
      THEN [z EXCEPT !.witnesses = r.witnesses]
      ELSE [subst |-> (h :> r.value) @@ z.subst, witnesses |-> r.witnesses]

RECURSIVE Hints(_, _, _, _)
Hints(z, keys, views, ctx) ==
    IF keys = <<>> THEN z
    ELSE Hints(AddHint(z, Head(keys),
                       AntiUnify([i \in DOMAIN views |-> views[i].subst[Head(keys)]], z.witnesses,
                                 ctx.universes[Head(keys)], ctx),
                       ctx.universes),
               Tail(keys), views, ctx)

\* The hints, with the variables they use as the answer's own.
HintAnswer(merged, n, next) ==
    LET mentioned == UNION {ToSet(HeadsOf(merged.subst[h])) : h \in DOMAIN merged.subst}
        used == SelectSeq([i \in DOMAIN merged.witnesses |-> i],
                          LAMBDA i : Alpha[next + i] \in mentioned)
        renamed == [h \in {Alpha[next + used[i]] : i \in DOMAIN used} |->
                       Leaf(Alpha[n + CHOOSE i \in DOMAIN used : Alpha[next + used[i]] = h])]
    IN  Answer("maybe", NoValue,
               [h \in DOMAIN merged.subst |-> Substitute(merged.subst[h], renamed)],
               [i \in DOMAIN used |-> merged.witnesses[used[i]]])

MergeViews(q, views, next) ==
    HintAnswer(Hints([subst |-> NoSubst, witnesses |-> <<>>],
                     SelectSeq(Alpha, LAMBDA h : h \in SharedKeys(views)), views,
                     [universes |-> Universes(q), next |-> next,
                      domains |-> FoldLeft(LAMBDA f, v : v.domains @@ f, InputDomains(q), views)]),
               Len(q.inputs), next)

\* merge_hints: what every candidate that may apply tells; nothing, when there may
\* be candidates that are not known.
MergeHints(q, answers, unknown) ==
    LET some == SetToSeq(answers)
        offset(i) == FoldLeft(LAMBDA k, a : k + Len(a.bound), Len(q.inputs), SubSeq(some, 1, i - 1))
    IN  IF answers = {} \/ unknown THEN EmptyMaybe
        ELSE MergeViews(q, [i \in DOMAIN some |-> Apart(q, some[i], offset(i))], offset(Len(some) + 1))

-----------------------------------------------------------------------------
Unconditional(a) == a.certainty = "yes" /\ a.output = NoValue /\ DOMAIN a.subst = {}

\* Mutant: a candidate that may apply does not stand in the way of one that does.
MergeIgnoringMaybe(q, yes, maybe, incomplete) ==
    IF Cardinality(yes) = 1 /\ ~incomplete THEN CHOOSE a \in yes : TRUE
    ELSE IF yes = {} /\ maybe = {} /\ ~incomplete THEN Refuted
    ELSE MergeHints(q, yes \cup maybe, incomplete)

Merge(q, yes, maybe, incomplete) ==
    IF Cardinality(yes) = 1 /\ maybe = {} /\ ~incomplete THEN CHOOSE a \in yes : TRUE
    ELSE IF yes = {} /\ maybe = {} /\ ~incomplete THEN Refuted
    ELSE IF yes = {} /\ Cardinality(maybe) = 1 /\ ~incomplete THEN CHOOSE a \in maybe : TRUE
    ELSE MergeHints(q, yes \cup maybe, incomplete)

\* merge_candidate_results
MergeCandidates(q, answers, incomplete) ==
    IF \E a \in answers : Unconditional(a) THEN CHOOSE a \in answers : Unconditional(a)
    ELSE Merge(q, NonDominated(q, {a \in answers : a.certainty = "yes"}),
               {a \in answers : a.certainty = "maybe"}, incomplete)
=============================================================================
