-------------------------------- MODULE Solver --------------------------------
(* The trait solver as the body that asks sees it (sage-ir, check/solve/prove.rs *)
(* and clauses.rs, and the two ways of asking in check/infer_ctx.rs): a goal is   *)
(* proved or an associated type is normalized from the impls of a program and     *)
(* the assumptions of the body, and the answer is applied to the body's graph.    *)
(*                                                                                *)
(* The answer of a frame does not depend on the order in which the whiteboard     *)
(* runs the frames (module Whiteboard): here a proof is a recursive function.     *)
(* An impl has generics, a head, a body of goals, and the value of its associated *)
(* type, if it has one.  No code builds an equality goal, and only trait goals    *)
(* and their conjunctions come from where clauses: the others are left out.       *)
EXTENDS CandidateMerge

CONSTANTS Programs,        \* what a body may be compiled against: records of
                           \*   impls, environment, complete (all impls are known)
                           \*   and assumed (all assumptions are)
          Variables,       \* the body's variables: what universe and domain each has
          TraitOf,         \* the trait an associated type belongs to
          Relations,       \* pairs of types a body may require to be equal
          Goals,           \* the trait goals it may ask for
          Projections,     \* pairs of an associated type and the type it must be
          Meanings,        \* what the variables may stand for, types without variables
          MaxSteps,        \* bound: relations and asks in one behaviour
          MaxProofDepth    \* MAX_PROOF_DEPTH

VARIABLES program,         \* the program and the environment of the body
          graph,           \* the inference graph of the body
          asked            \* history: every ask and what came of it

vars == <<program, graph, asked>>

\* The universe of everything a body creates itself.
BodyUniverse == 1

-----------------------------------------------------------------------------
(* Candidates (clauses.rs)                                                     *)

Clause(generics, head, body, value) ==
    [generics |-> generics, head |-> head, body |-> body, value |-> value]

SameTrait(fact, goal) == fact.head = goal.head /\ Len(fact.args) = Len(goal.args)

EnvironmentClauses(q, goal) ==
    {Clause(<<>>, f.fact, f.conditions, NoValue) :
        f \in {g \in ToSet(q.assumptions) : g.value = NoValue /\ SameTrait(g.fact, goal)}}

SelfIsOpen(s, goal) == IsVar(s, Find(s, goal.args[1]))

\* assemble_candidates: no impl is looked for while the self type is unknown.
ImplClauses(s, goal) ==
    IF SelfIsOpen(s, goal) THEN {} ELSE {c \in program.impls : c.head.head = goal.head}

\* Mutant: with an open self type the assumptions are taken for all there is.
IncompleteSources(q, s, goal) == ~q.complete \/ ~program.complete

Incomplete(q, s, goal) == ~q.complete \/ SelfIsOpen(s, goal) \/ ~program.complete

\* instantiate_impl_signature: a variable for each generic of the impl.
RECURSIVE Prepare(_, _, _, _)
Prepare(s, universe, generics, names) ==
    IF generics = <<>> THEN [state |-> s, names |-> names]
    ELSE Prepare(AllocVar(s, universe, "any"), universe, Tail(generics),
                 (Head(generics) :> Leaf(NextVar(s))) @@ names)

\* match_candidate_head
MatchHead(s, goal, head) ==
    LET u == UnifyAll(s, Calls(goal.args, head.args))
    IN  IF Ok(u) THEN Rebuild(u, FALSE) ELSE u

-----------------------------------------------------------------------------
(* Proofs (prove.rs).  `trail` is the chain of queries being solved above.     *)

Proof(certainty, state) == [certainty |-> certainty, state |-> state]

RECURSIVE Frame(_, _, _), Conjunction(_, _, _, _, _), Round(_, _, _, _, _)

\* The part of Whiteboard::request that refutes a cycle.
Request(query, depth, trail) ==
    IF query \in trail THEN Refuted ELSE Frame(query, depth + 1, trail \cup {query})

Conclude(s, answer, applied) ==
    IF answer.certainty = "no" \/ ~Ok(applied.state) THEN Proof("no", s)
    ELSE Proof(answer.certainty, applied.state)

\* prove_atom
Applied(s, sub, answer) == Conclude(s, answer, Apply(s, sub, answer))
ProveQuery(s, sub, depth, trail) == Applied(s, sub, Request(sub.query, depth, trail))
ProveAtom(q, s, goal, depth, trail) ==
    IF depth >= MaxProofDepth THEN Proof("maybe", s)
    ELSE ProveQuery(s, Canonical(s, q.assumptions, q.complete, q.universe, "prove", goal), depth, trail)

\* Mutant: a goal that stays uncertain is done with.
AttemptForgetting(z, goal, p) ==
    [z EXCEPT !.state = p.state, !.attempted = TRUE, !.refuted = p.certainty = "no"]

\* One goal of a conjunction has been proved, refuted, or is kept.
Attempted(z, goal, p) ==
    [state |-> p.state, attempted |-> TRUE, refuted |-> p.certainty = "no",
     kept |-> IF p.certainty = "maybe"
                THEN Append(z.kept, [goal EXCEPT !.ranAt = {p.state.revision}]) ELSE z.kept]

\* A goal is proved again only when the graph has changed since.
Round(q, depth, trail, z, pending) ==
    IF pending = <<>> \/ z.refuted THEN z
    ELSE Round(q, depth, trail,
               IF Head(pending).ranAt = {z.state.revision}
                 THEN [z EXCEPT !.kept = Append(@, Head(pending))]
                 ELSE Attempted(z, Head(pending),
                                ProveAtom(q, z.state, Head(pending).atom, depth, trail)),
               Tail(pending))

\* prove_conjunction: rounds over the goals left, until one changes nothing.
AfterRound(q, s, round, depth, trail) ==
    IF round.refuted THEN Proof("no", s)
    ELSE IF round.kept = <<>> THEN Proof("yes", round.state)
    ELSE IF ~round.attempted \/ round.state.revision = s.revision THEN Proof("maybe", round.state)
    ELSE Conjunction(q, round.state, round.kept, depth, trail)
Conjunction(q, s, pending, depth, trail) ==
    AfterRound(q, s, Round(q, depth, trail,
                           [state |-> s, kept |-> <<>>, attempted |-> FALSE, refuted |-> FALSE],
                           pending), depth, trail)

\* One candidate, in a graph of its own.
ProveMatched(q, s, body, depth, trail) ==
    IF Ok(s) THEN Conjunction(q, s, body, depth, trail) ELSE Proof("no", s)
ProvePrepared(q, goal, clause, prepared, depth, trail) ==
    [proof |-> ProveMatched(q, MatchHead(prepared.state, goal, Substitute(clause.head, prepared.names)),
                            [i \in DOMAIN clause.body |->
                                [atom |-> Substitute(clause.body[i], prepared.names), ranAt |-> {}]],
                            depth, trail),
     value |-> Substitute(clause.value, prepared.names)]
ProveClause(q, goal, clause, depth, trail) ==
    ProvePrepared(q, goal, clause, Prepare(InstantiateQuery(q), q.universe, clause.generics, NoSubst),
                  depth, trail)

\* solve_trait_frame
Proven(q, p) == Extract(q, p.state, p.certainty, NoValue)
TraitFrame(q, depth, trail) ==
    LET s == InstantiateQuery(q)
    IN  MergeCandidates(q, {Proven(q, ProveClause(q, q.goal, c, depth, trail).proof) :
                               c \in EnvironmentClauses(q, q.goal) \cup ImplClauses(s, q.goal)},
                        Incomplete(q, s, q.goal))

\* solve_normalize_frame: an impl tells what the associated type is; that a trait is
\* assumed does not; an assumption about the associated type does.
ImplValue(q, r) ==
    Extract(q, r.proof.state, r.proof.certainty,
            IF r.proof.certainty = "yes" THEN r.value ELSE NoValue)
AssumedTrait(q, p) == Extract(q, p.state, IF p.certainty = "no" THEN "no" ELSE "maybe", NoValue)
AssumedValue(q, fact, s) == Extract(q, s, IF Ok(s) THEN "yes" ELSE "no", fact.value)
NormalizeFrame(q, depth, trail) ==
    LET goal == [q.goal EXCEPT !.head = TraitOf[q.goal.head]]
        s == InstantiateQuery(q)
        facts == {f \in ToSet(q.assumptions) : f.value # NoValue /\ f.fact.head = q.goal.head}
    IN  MergeCandidates(q,
            {ImplValue(q, ProveClause(q, goal, c, depth, trail)) : c \in ImplClauses(s, goal)}
            \cup {AssumedTrait(q, ProveClause(q, goal, c, depth, trail).proof) :
                      c \in EnvironmentClauses(q, goal)}
            \cup {AssumedValue(q, f, TryRequired(s, q.goal, f.fact, FALSE)) : f \in facts},
            Incomplete(q, s, goal))

\* solve_atomic_frame: what mentions an error has been reported already.
Frame(q, depth, trail) ==
    IF q.operation = "normalize" THEN NormalizeFrame(q, depth, trail)
    ELSE IF HasError(q.goal) THEN Answer("yes", NoValue, NoSubst, <<>>)
    ELSE TraitFrame(q, depth, trail)

\* solve_query
SolveQuery(q) ==
    IF q.operation = "normalize" THEN Frame(q, 1, {q})
    ELSE Proven(q, ProveAtom(q, InstantiateQuery(q), q.goal, 0, {}))

-----------------------------------------------------------------------------
(* The body                                                                    *)

Init ==
    /\ program \in Programs
    /\ graph = [parent |-> <<>>, domain |-> <<>>, dependents |-> <<>>,
                initial |-> [h \in DOMAIN Variables |-> Variables[h].domain],
                ceiling |-> [h \in DOMAIN Variables |-> Variables[h].universe],
                universe |-> [p \in Params |-> BodyUniverse],
                work |-> <<>>, wakes |-> {}, revision |-> 0, err |-> Done]
    /\ asked = <<>>

\* Only what later steps read is kept of a graph between them.
Settled(s) == [s EXCEPT !.wakes = {}, !.work = <<>>, !.err = Done, !.revision = 0]

Asked(operation, goal, expected, result) ==
    [operation |-> operation, goal |-> goal, expected |-> expected, result |-> result]

Settle(operation, goal, expected, p) ==
    /\ graph' = Settled(p.state)
    /\ asked' = Append(asked, Asked(operation, goal, expected, p.certainty))
    /\ UNCHANGED program

\* try_unify_required, when it succeeds.
Required(l, r, s) == Ok(s) /\ Settle("require", l, r, Proof("yes", s))
Require(l, r) == Required(l, r, TryRequired(graph, l, r, FALSE))

BodyQuery(operation, goal) ==
    Canonical(graph, program.environment, program.assumed, BodyUniverse, operation, goal)

\* attempt_proof_obligation: hints are applied as well as conclusions.
ProveBy(sub) == Applied(graph, sub, SolveQuery(sub.query))
AskProve(goal) == Settle("prove", goal, NoValue, ProveBy(BodyQuery("prove", goal)))

\* attempt_normalization_obligation: the answer and its relation to what is expected
\* in one transaction; a hint is dropped with it.
Normalized(answer, related) ==
    IF ~Ok(related) \/ answer.certainty = "no" THEN Proof("no", graph)
    ELSE IF answer.certainty = "yes" THEN Proof("yes", Rebuild(related, FALSE))
    ELSE Proof("maybe", graph)
RelateOutput(answer, applied, expected) ==
    IF Ok(applied.state) /\ answer.certainty = "yes"
      THEN Unify(applied.state, applied.output, expected) ELSE applied.state
NormalizeAs(answer, applied, expected) == Normalized(answer, RelateOutput(answer, applied, expected))
NormalizeBy(sub, answer, expected) == NormalizeAs(answer, Apply(graph, sub, answer), expected)
NormalizeTo(sub, expected) == NormalizeBy(sub, SolveQuery(sub.query), expected)
AskNormalize(alias, expected) ==
    Settle("normalize", alias, expected, NormalizeTo(BodyQuery("normalize", alias), expected))

Next ==
    /\ Len(asked) < MaxSteps
    /\ \/ \E r \in Relations : Require(r[1], r[2])
       \/ \E goal \in Goals : AskProve(goal)
       \/ \E p \in Projections : AskNormalize(p[1], p[2])

Spec == Init /\ [][Next]_vars
=============================================================================
