------------------------------ MODULE SolverTruth ------------------------------
(* What the answers of the solver must agree with: whether a goal without        *)
(* variables follows from the impls and the assumptions by a finite proof, for   *)
(* everything the variables of the body may still stand for.                     *)
EXTENDS Solver

-----------------------------------------------------------------------------
(* The reference                                                               *)

\* The choice for the variables of a pattern that makes it the given type: none or one.
RECURSIVE Matches(_, _, _, _)
Matches(chosen, open, pattern, t) ==
    IF pattern.head \in open
      THEN {(pattern.head :> t) @@ b :
              b \in {c \in chosen : pattern.head \in DOMAIN c => c[pattern.head] = t}}
    ELSE IF pattern.head = t.head /\ Len(pattern.args) = Len(t.args)
      THEN FoldLeftDomain(LAMBDA bs, i : Matches(bs, open, pattern.args[i], t.args[i]),
                          chosen, t.args)
    ELSE {}

Assumed == {Clause(<<>>, f.fact, f.conditions, NoValue) :
              f \in {g \in ToSet(program.environment) : g.value = NoValue}}
Known == program.complete /\ program.assumed

\* A finite proof of the goal: no goal is its own reason.
RECURSIVE Provable(_, _, _)
Provable(goal, trail, unknown) ==
    \/ unknown
    \/ HasError(goal)
    \/ /\ goal \notin trail
       /\ \E c \in program.impls \cup Assumed :
            \E b \in Matches({NoSubst}, ToSet(c.generics), c.head, goal) :
                \A i \in DOMAIN c.body :
                    Provable(Substitute(c.body[i], b), trail \cup {goal}, unknown)

Holds(goal) == Provable(goal, {}, FALSE)
MayHold(goal) == Provable(goal, {}, ~Known)

TraitGoal(alias) == [alias EXCEPT !.head = TraitOf[alias.head]]
ValuesBy(alias, holds(_)) ==
    {f.value : f \in {g \in ToSet(program.environment) : g.value # NoValue /\ g.fact = alias}}
    \cup UNION {{Substitute(c.value, b) :
                   b \in {a \in Matches({NoSubst}, ToSet(c.generics), c.head, TraitGoal(alias)) :
                             \A i \in DOMAIN c.body : holds(Substitute(c.body[i], a))}} :
                  c \in program.impls}
Is(alias, t) == t \in ValuesBy(alias, Holds)
MayBe(alias, t) ==
    \/ ~Known
    \/ t \in ValuesBy(alias, MayHold)
    \/ \E c \in Assumed : c.head = TraitGoal(alias) /\ \A i \in DOMAIN c.body : MayHold(c.body[i])

\* The variables may stand for these types, as far as the graph tells.
Allows(s, meaning) ==
    LET names == SetToSeq(DOMAIN Variables)
        chosen == FoldLeft(LAMBDA bs, h : Matches(bs, DOMAIN s.ceiling, Resolved(s, Leaf(h)), meaning[h]),
                           {NoSubst}, names)
    IN  \E b \in chosen : \A h \in DOMAIN b :
            /\ Admits(EffectiveDomain(s, Leaf(h)), b[h])
            /\ \A p \in ToSet(HeadsOf(b[h])) : PlaceholderUniverse(s, p) <= s.ceiling[h]

Latest == asked'[Len(asked')]
Requires(m) == Substitute(Latest.goal, m) = Substitute(Latest.expected, m)
Satisfies(m) ==
    CASE Latest.operation = "require" -> Requires(m)
      [] Latest.operation = "prove" -> Holds(Substitute(Latest.goal, m))
      [] Latest.operation = "normalize" -> Is(Substitute(Latest.goal, m), Substitute(Latest.expected, m))
MaySatisfy(m) ==
    CASE Latest.operation = "require" -> Requires(m)
      [] Latest.operation = "prove" -> MayHold(Substitute(Latest.goal, m))
      [] Latest.operation = "normalize" -> MayBe(Substitute(Latest.goal, m), Substitute(Latest.expected, m))

-----------------------------------------------------------------------------
(* Properties                                                                  *)

\* A hint or a conclusion the body takes over excludes no types with which the goal
\* might be satisfied: what every remaining candidate agrees on, and nothing else.
NothingLost ==
    [][graph' # graph =>
          \A m \in Meanings : Allows(graph, m) /\ MaySatisfy(m) => Allows(graph', m)]_vars

\* What is settled is settled rightly: a goal that is proved holds for all that the
\* variables may still stand for, and an associated type has the value that was
\* expected of it; a goal is refused, and an error reported, when nothing the
\* variables may stand for could satisfy it, whatever impls and assumptions are not
\* known.
VerdictsAreReal ==
    [][\A m \in Meanings :
          /\ Latest.result = "yes" /\ Allows(graph', m) => Satisfies(m)
          /\ Latest.result = "no" /\ Allows(graph, m) => ~MaySatisfy(m)]_vars
=============================================================================
