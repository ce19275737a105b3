----------------------------- MODULE Unification -----------------------------
(* Required equalities of a body over the inference graph, and the recovery of *)
(* a numeric-domain conflict (infer_ctx.rs).  One step is one required         *)
(* equality: the relation in a child transaction, congruence closure, and its  *)
(* commit; or, when domains conflict, the rollback, the error type for the     *)
(* conflicting classes and the replay of the rest of the relation.             *)
(*                                                                             *)
(* The version tree is VersionedStore's: a transaction is here the only live   *)
(* child of the root, and the state below is the root's.                       *)
EXTENDS InferenceGraph

CONSTANTS Vars,          \* the inference variables, by name
          CreatedIn,     \* Vars -> the universe a variable is created in
          InitialDomain, \* Vars -> {"any", "integer", "float"}
          Universe,      \* skeletons that mention a parameter -> its placeholder universe
          Pool,          \* the types a body relates
          RelationBound, \* how many equalities it requires
          Meanings       \* assignments of ground types to the variables, in their
                         \* domains and universes: the reference for a failure

VARIABLES parent, domain, ceiling, dependents, \* the graph of the body's root version
          woken,      \* the wakes the last step published
          required    \* history: the equalities committed so far

vars == <<parent, domain, ceiling, dependents, woken, required>>

IsInferVar(t) == t.head \in Vars

Root == [parent |-> parent, domain |-> domain, initial |-> InitialDomain,
         ceiling |-> ceiling, universe |-> Universe, dependents |-> dependents,
         work |-> <<>>, wakes |-> {}, revision |-> 0, err |-> Done]

\* affected_variables: the members of the conflicting classes, as the failed child
\* had joined them.
Affected(g, l, r) ==
    LET s == Unify(Begin(g), l, r)
        roots == {t \in {Find(s, s.err.left), Find(s, s.err.right)} : IsInferVar(t)}
    IN  {v \in Vars : Find(s, Leaf(v)) \in roots}

-----------------------------------------------------------------------------
(* Recovery of a domain conflict (infer_ctx.rs)                                *)

\* install_error_recovery
InstallError(g, t, flipped) ==
    LET s == Begin(g)
        root == Find(s, t)
    IN  IF IsInferVar(root) THEN Rebuild(Union(Wake(s, root.head), root, ErrorType), flipped) ELSE s

RecoverConflict(g, affected, flipped) ==
    FoldLeft(LAMBDA z, v : InstallError(z, Leaf(v), flipped), g, SetToSeq(affected))

\* An equality with a variable on one side, required again on its own.
Replay(g, l, r, flipped) ==
    LET s == TryRequired(g, l, r, flipped)
    IN  IF s.err.kind = "domain"
          THEN RecoverConflict(g, Affected(g, l, r), flipped) ELSE Begin(s)

\* Mutant: the relation is not required again.
ReplayNothing(g, left, right, flipped) == g

\* recover_required_relation: the parts of the relation that do not conflict.
RECURSIVE RecoverRelation(_, _, _, _)
RecoverRelation(g, left, right, flipped) ==
    LET l == Find(g, left)
        r == Find(g, right)
    IN  IF l = r \/ ErrorType \in {l, r} THEN g
        ELSE IF IsInferVar(l) \/ IsInferVar(r) THEN Replay(g, l, r, flipped)
        ELSE IF l.head # r.head \/ Len(l.args) # Len(r.args) THEN g
        ELSE FoldLeftDomain(LAMBDA z, i : RecoverRelation(z, l.args[i], r.args[i], flipped),
                            g, l.args)

\* catch, for the domain conflict of a required equality.
Recover(g, l, r, flipped) ==
    RecoverRelation(RecoverConflict(g, Affected(g, l, r), flipped), l, r, flipped)

-----------------------------------------------------------------------------
Init ==
    /\ parent = <<>>
    /\ domain = <<>>
    /\ ceiling = CreatedIn
    /\ dependents = <<>>
    /\ woken = {}
    /\ required = {}

Publish(s) ==
    /\ parent' = s.parent
    /\ domain' = s.domain
    /\ ceiling' = s.ceiling
    /\ dependents' = s.dependents
    /\ woken' = s.wakes

\* The body requires another equality.
More == Cardinality(required) < RelationBound

\* require_eq that succeeds.
Relate(l, r) ==
    /\ More
    /\ <<l, r>> \notin required
    /\ \E flipped \in BOOLEAN :
         LET s == TryRequired(Root, l, r, flipped)
         IN  Ok(s) /\ Publish(s)
    /\ required' = required \cup {<<l, r>>}

\* require_eq that fails on domains; a failure of another kind changes no type.
RelateConflicting(l, r) ==
    /\ More
    /\ Unify(Root, l, r).err.kind = "domain"
    /\ \E flipped \in BOOLEAN : Publish(Recover(Root, l, r, flipped))
    /\ UNCHANGED required

Next == \E l, r \in Pool : Relate(l, r) \/ RelateConflicting(l, r)

Spec == Init /\ [][Next]_vars

-----------------------------------------------------------------------------
(* What a body sees of a type: every variable replaced by what it stands for.  *)

RECURSIVE Resolve(_, _, _)
Resolve(s, t, depth) ==
    LET root == Find(s, t)
    IN  IF depth = 0 \/ root.args = <<>> THEN root
        ELSE [root EXCEPT !.args =
                [i \in DOMAIN root.args |-> Resolve(s, root.args[i], depth - 1)]]

RECURSIVE Heads(_, _)
Heads(s, t) ==
    LET root == Find(s, t)
    IN  {root.head} \cup UNION {Heads(s, root.args[i]) : i \in DOMAIN root.args}

\* Types nest no deeper than a variable under every constructor of the pool.
Depth == 2 * Cardinality(Vars) + 2

Poisoned(s) == \E v \in Vars : Find(s, Leaf(v)) = ErrorType

TypeOK ==
    /\ ceiling \in [Vars -> 0..Cardinality(Vars)]
    /\ \A t \in DOMAIN domain : IsInferVar(t) /\ domain[t] \in Domains
    /\ \A t \in DOMAIN parent : parent[t] # t
    /\ woken \subseteq Vars

RECURSIVE Within(_, _)
Within(t, n) == IF n = 0 THEN FALSE
                ELSE \A i \in DOMAIN Find(Root, t).args : Within(Find(Root, t).args[i], n - 1)

\* Unified: every equality that was required and accepted holds of the resolved
\* types, whatever was unified, merged or poisoned later; the class a structured type
\* is in stands for a type of its own parts; and no variable stands for a type that
\* contains it (unify.rs:235; egraph.rs:468, where rebuild moves a dependent out of
\* one class into another; unify.rs:513, occurs_in, also across several relations).
Unified ==
    /\ TypeOK
    /\ \A v \in Vars : Within(Leaf(v), Depth)
    /\ \A e \in required : Resolve(Root, e[1], Depth) = Resolve(Root, e[2], Depth)
    /\ \A t \in DOMAIN parent : ~IsInferVar(t) =>
          Resolve(Root, t, Depth) =
            [t EXCEPT !.args = [i \in DOMAIN t.args |-> Resolve(Root, t.args[i], Depth - 1)]]

\* UniverseRespected: what a variable stands for mentions, at any depth, no parameter
\* of a universe above the variable's, and no variable that still may
\* (unify.rs:560, make_accessible).
UniverseRespected ==
    \A v \in Vars : \A h \in Heads(Root, Leaf(v)) :
        /\ h \in DOMAIN Universe => Universe[h] <= ceiling[v]
        /\ h \in Vars => ceiling[h] <= ceiling[v]

\* DomainRespected: a class that is resolved satisfies the domain of each of its
\* variables, and one that is not carries exactly what they have in common
\* (unify.rs:325, compatible_domain).
DomainRespected ==
    \A v \in Vars :
        LET root == Find(Root, Leaf(v))
            members == {w \in Vars : Find(Root, Leaf(w)) = root}
        IN  IF IsInferVar(root)
              THEN EffectiveDomain(Root, root) =
                     FoldLeft(LAMBDA d, w : Intersect(d, InitialDomain[w]), "any", SetToSeq(members))
              ELSE Admits(InitialDomain[v], root)

\* LimitsRespected: no binding, merge or later change of a term breaks the universe or
\* the domain of a variable (unify.rs:325, unify.rs:560).
LimitsRespected == UniverseRespected /\ DomainRespected

\* FailuresAreReal: when a relation is refused, no choice of types for the variables
\* satisfies it and all that was required before: no solution is lost to the order
\* of the relations or to a narrower binding than they call for (infer_ctx.rs:1403,
\* types_may_unify decides on it that a candidate can never apply).
RECURSIVE Meaning(_, _)
Meaning(m, t) ==
    IF IsInferVar(t) THEN m[t.head]
    ELSE [t EXCEPT !.args = [i \in DOMAIN t.args |-> Meaning(m, t.args[i])]]
FailuresAreReal ==
    LET models == {m \in Meanings : \A e \in required : Meaning(m, e[1]) = Meaning(m, e[2])}
    IN  More /\ ~Poisoned(Root) =>
          \A l, r \in Pool :
              Ok(Unify(Root, l, r)) \/ \A m \in models : Meaning(m, l) # Meaning(m, r)

\* WakesCoverChanges: a step that resolves, merges, narrows or lowers an unresolved
\* class tells the variable that represents it, on which obligations are stalled
\* (egraph.rs:528, mark_semantic_change; obligations.rs:118, wake).
WakesCoverChanges ==
    [][\A v \in Vars : Leaf(v) \notin DOMAIN parent =>
          \/ /\ Leaf(v) \notin DOMAIN parent'
             /\ ceiling'[v] = ceiling[v]
             /\ EffectiveDomain(Root', Leaf(v)) = EffectiveDomain(Root, Leaf(v))
          \/ v \in woken']_vars

\* Two types agree as far as recovery can make them: each part is equal, or one side
\* of it is the reported error, or its failure is none of the domains' business.
RECURSIVE Restored(_, _, _)
Restored(s, left, right) ==
    LET l == Find(s, left)
        r == Find(s, right)
    IN  \/ l = r
        \/ ErrorType \in {l, r}
        \/ (IsInferVar(l) \/ IsInferVar(r)) /\ Unify(s, l, r).err.kind \in {"occurs", "universe"}
        \/ /\ ~IsInferVar(l) /\ ~IsInferVar(r)
           /\ l.head = r.head => \A i \in DOMAIN l.args : Restored(s, l.args[i], r.args[i])

\* The relation without domains, and the variables whose class has no type at all.
Unrestricted(s) == [s EXCEPT !.domain = [t \in {Leaf(v) : v \in Vars} |-> "any"]]
Contradictory(s, v) ==
    LET root == Find(s, Leaf(v))
        members == {w \in Vars : Find(s, Leaf(w)) = root}
    IN  \/ \E w \in members : ~IsInferVar(root) /\ ~Admits(InitialDomain[w], root)
        \/ \E w, u \in members : Intersect(InitialDomain[w], InitialDomain[u]) = "conflict"

\* RecoveryIsPrecise: after a domain conflict is recovered every part of the relation
\* holds that the reported error does not concern: the constraints the rollback took
\* away are all back (infer_ctx.rs:457); and only variables of a class that the
\* relation, domains aside, would have made contradictory became an error
\* (infer_ctx.rs:409, recover_domain_conflict; :455, without poisoning unrelated types).
RecoveryIsPrecise ==
    More => \A l, r \in Pool : Unify(Root, l, r).err.kind = "domain" =>
        \A flipped \in BOOLEAN :
            LET after == Recover(Root, l, r, flipped)
                free == Unify(Unrestricted(Root), l, r)
            IN  /\ Restored(after, l, r)
                /\ Ok(free) => \A v \in Vars : Find(after, Leaf(v)) = ErrorType =>
                       Find(Root, Leaf(v)) = ErrorType \/ Contradictory(free, v)

\* ConflictsAreReal: a relation is refused, and a variable made an error, only for a
\* contradiction that the program holds (unify.rs:60, infer_ctx.rs:409).
ConflictsAreReal == FailuresAreReal /\ RecoveryIsPrecise
=============================================================================
