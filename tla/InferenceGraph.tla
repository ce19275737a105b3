---------------------------- MODULE InferenceGraph ----------------------------
(* The inference e-graph and unification over it (sage-ir, check/infer/unify.rs, *)
(* skeleton.rs and egraph.rs), as functions on the state of one version: bodies  *)
(* and the proofs of the solver work on graphs of their own.                     *)
(*                                                                               *)
(* A graph is a record: parent, the union-find on the types that are not roots;  *)
(* initial and ceiling, the domain a variable was created with and the universe  *)
(* it may still name; domain, what was narrowed since; universe, for the         *)
(* skeletons that mention a parameter, the parameter's placeholder universe;     *)
(* dependents, the types a type is a child of; work, wakes and revision; and     *)
(* err, why the transaction fails, if it does.                                   *)
(*                                                                               *)
(* A type is its skeleton and its children.  The stash interns types, so equal   *)
(* types are one pointer.  No code outside the tests sets Bound::AtLeast, and a  *)
(* variable bound exactly is never a root: bounds are left out.                  *)
EXTENDS Naturals, Sequences, FiniteSets, TLC, SequencesExt

-----------------------------------------------------------------------------
(* Types (skeleton.rs): decompose and recompose are the fields of the record.  *)

Leaf(h) == [head |-> h, args |-> <<>>]
IsVar(s, t) == t.head \in DOMAIN s.ceiling
ErrorType == Leaf("error")
Integers == {"int", "uint"}

\* The state a transaction works on; err is the reason it fails, if it does.
Parent(s, t) == IF t \in DOMAIN s.parent THEN s.parent[t] ELSE t

RECURSIVE Find(_, _)
Find(s, t) == IF Parent(s, t) = t THEN t ELSE Find(s, Parent(s, t))

RECURSIVE Path(_, _)
Path(s, t) == IF Parent(s, t) = t THEN {} ELSE {t} \cup Path(s, Parent(s, t))

\* find_mut: every type on the way to the root points to it afterwards.
Compress(s, t) ==
    [s EXCEPT !.parent = [u \in Path(s, t) |-> Find(s, t)] @@ @]

Fail(s, kind, l, r) == [s EXCEPT !.err = [kind |-> kind, left |-> l, right |-> r]]
Ok(s) == s.err.kind = "none"

\* mark_semantic_change, which wakes the variable, if there is one.
Change(s) == [s EXCEPT !.revision = @ + 1]
Wake(s, v) == [Change(s) EXCEPT !.wakes = @ \cup {v}]

-----------------------------------------------------------------------------
(* Numeric domains (version.rs, InferDomain).                                  *)

Domains == {"any", "integer", "float"}

\* Mutant: the unrestricted domain is neutral on one side only.
IntersectOneWay(d, e) ==
    CASE d = "any" -> e
      [] d = e -> d
      [] OTHER -> "conflict"

Intersect(d, e) ==
    CASE d = "any" -> e
      [] e = "any" -> d
      [] d = e -> d
      [] OTHER -> "conflict"

Admits(d, t) ==
    \/ d = "any"
    \/ t.head = "error"
    \/ d = "integer" /\ t.head \in Integers
    \/ d = "float" /\ t.head = "float"

EffectiveDomain(s, root) ==
    IF root \in DOMAIN s.domain THEN s.domain[root] ELSE s.initial[root.head]

SetDomain(s, root, d) ==
    IF EffectiveDomain(s, root) = d THEN s
    ELSE Wake([s EXCEPT !.domain = (root :> d) @@ @], root.head)

DomainsAgree(s, l, r) ==
    CASE IsVar(s, l) /\ IsVar(s, r) ->
             Intersect(EffectiveDomain(s, l), EffectiveDomain(s, r)) # "conflict"
      [] IsVar(s, l) /\ ~IsVar(s, r) -> Admits(EffectiveDomain(s, l), r)
      [] IsVar(s, r) /\ ~IsVar(s, l) -> Admits(EffectiveDomain(s, r), l)
      [] OTHER -> TRUE

-----------------------------------------------------------------------------
(* The e-graph's own operations.                                               *)

\* Mutant: a lowered ceiling tells nobody.
LowerSilently(s, v, u) ==
    IF u >= s.ceiling[v] THEN s ELSE [s EXCEPT !.ceiling[v] = u]

Lower(s, v, u) ==
    IF u >= s.ceiling[v] THEN s ELSE Wake([s EXCEPT !.ceiling[v] = u], v)

\* union: a variable goes under a structured type, the left one under the right.
Union(s, l, r) ==
    LET a == Find(s, l)
        b == Find(s, r)
        below == IF IsVar(s, a) THEN a ELSE b
        above == IF IsVar(s, a) THEN b ELSE a
        linked == [s EXCEPT !.parent = (below :> above) @@ @, !.work = Append(@, below)]
    IN  IF a = b THEN s ELSE IF IsVar(s, below) THEN Wake(linked, below.head) ELSE Change(linked)

Dependents(s, t) == IF t \in DOMAIN s.dependents THEN s.dependents[t] ELSE {}

AddDependents(s, t) ==
    [s EXCEPT !.dependents = [c \in ToSet(t.args) |-> Dependents(s, c) \cup {t}] @@ @]

\* Mutant: every child becomes the representative of the first.
RecanonicalizeFirst(s, t) ==
    [t EXCEPT !.args = [i \in DOMAIN t.args |-> Find(s, t.args[1])]]

Recanonicalize(s, t) == [t EXCEPT !.args = [i \in DOMAIN t.args |-> Find(s, t.args[i])]]

\* One dependent of a merged type: it joins the class of its canonical form.
Recheck(s, t) ==
    LET form == Recanonicalize(s, t)
        class == Find(s, form)
    IN  IF form = t \/ class = Find(s, t) THEN s
        ELSE [s EXCEPT !.parent = (t :> class) @@ @, !.work = Append(@, t)]

RECURSIVE RecheckAll(_, _)
RecheckAll(s, order) ==
    IF order = <<>> THEN s ELSE RecheckAll(Recheck(s, Head(order)), Tail(order))

\* rebuild empties the worklist; the order of a type's dependents is a hash order.
RECURSIVE Rebuild(_, _)
Rebuild(s, flipped) ==
    IF s.work = <<>> THEN s
    ELSE LET some == SetToSeq(Dependents(s, Head(s.work)))
             order == IF flipped THEN Reverse(some) ELSE some
         IN  Rebuild(RecheckAll([s EXCEPT !.work = Tail(@)], order), flipped)

-----------------------------------------------------------------------------
(* unify_in_probe                                                              *)

\* occurs_in: the variable is met inside the type, through what is bound by now.
RECURSIVE OccursIn(_, _, _)
OccursIn(s, v, t) ==
    LET root == Find(s, t)
    IN  root.head = v \/ \E i \in DOMAIN root.args : OccursIn(s, v, root.args[i])

\* Mutant: the children of the type are not visited.
MakeAccessibleFlat(s, types, u) ==
    LET root == Find(s, Head(types))
    IN  IF root.head \in DOMAIN s.universe /\ s.universe[root.head] > u
          THEN Fail(s, "universe", root, root)
        ELSE IF IsVar(s, root) THEN Lower(s, root.head, u) ELSE s

\* make_accessible: the variables of the types are lowered, their parameters checked.
RECURSIVE MakeAccessible(_, _, _)
MakeAccessible(s, types, u) ==
    LET root == Find(s, Head(types))
    IN  IF types = <<>> THEN s
        ELSE IF root.head \in DOMAIN s.universe /\ s.universe[root.head] > u
          THEN Fail(s, "universe", root, root)
        ELSE MakeAccessible(IF IsVar(s, root) THEN Lower(s, root.head, u) ELSE s,
                            root.args \o Tail(types), u)

BindVariable(s, var, value) ==
    IF OccursIn(s, var.head, value) THEN Fail(s, "occurs", var, value)
    ELSE LET open == MakeAccessible(s, <<value>>, s.ceiling[var.head])
         IN  IF Ok(open) THEN Union(Wake(open, var.head), var, value) ELSE open

\* Mutant: the joined class keeps the domain of its representative.
UnionKeepingDomain(s, l, r) ==
    LET common == IF s.ceiling[l.head] < s.ceiling[r.head]
                    THEN s.ceiling[l.head] ELSE s.ceiling[r.head]
    IN  Union(Lower(Lower(s, l.head, common), r.head, common), l, r)

UnionVariables(s, l, r) ==
    LET common == IF s.ceiling[l.head] < s.ceiling[r.head]
                    THEN s.ceiling[l.head] ELSE s.ceiling[r.head]
        narrowed == Intersect(EffectiveDomain(s, l), EffectiveDomain(s, r))
        joined == Union(Lower(Lower(s, l.head, common), r.head, common), l, r)
    IN  SetDomain(joined, Find(joined, l), narrowed)

\* Two different classes, when at least one of them has no parts to relate.
UnifyRoots(s, l, r) ==
    CASE ErrorType \in {l, r} -> Fail(s, "reported", l, r)
      [] ErrorType \notin {l, r} /\ ~DomainsAgree(s, l, r) -> Fail(s, "domain", l, r)
      [] ErrorType \notin {l, r} /\ DomainsAgree(s, l, r) ->
           CASE IsVar(s, l) /\ IsVar(s, r) -> UnionVariables(s, l, r)
             [] IsVar(s, l) /\ ~IsVar(s, r) -> BindVariable(s, l, r)
             [] ~IsVar(s, l) /\ IsVar(s, r) -> BindVariable(s, r, l)
             [] ~IsVar(s, l) /\ ~IsVar(s, r) -> Fail(s, "mismatch", l, r)

SameSkeleton(s, l, r) ==
    ~IsVar(s, l) /\ ~IsVar(s, r) /\ l.head = r.head /\ Len(l.args) = Len(r.args)

\* The calls that are still to be made: to unify a pair, or to join a pair of classes
\* once their parts have been unified.
Call(l, r) == [left |-> l, right |-> r, parts |-> FALSE]
Calls(lefts, rights) == [i \in DOMAIN lefts |-> Call(lefts[i], rights[i])]

RECURSIVE UnifyAll(_, _)
UnifyAll(s, calls) ==
    LET call == Head(calls)
        l == Find(s, call.left)
        r == Find(s, call.right)
        z == Compress(Compress(s, call.left), call.right)
    IN  IF calls = <<>> \/ ~Ok(s) THEN s
        ELSE IF call.parts THEN UnifyAll(Union(s, call.left, call.right), Tail(calls))
        ELSE IF l = r THEN UnifyAll(z, Tail(calls))
        ELSE IF SameSkeleton(s, l, r)
          THEN UnifyAll(AddDependents(AddDependents(z, l), r),
                        Calls(l.args, r.args) \o <<[Call(l, r) EXCEPT !.parts = TRUE]>> \o Tail(calls))
        ELSE UnifyAll(UnifyRoots(z, l, r), Tail(calls))

Unify(s, left, right) == UnifyAll(s, <<Call(left, right)>>)

-----------------------------------------------------------------------------
(* Transactions                                                                *)

Done == [kind |-> "none", left |-> ErrorType, right |-> ErrorType]

\* A child of the root: nothing queued, nothing failed.
Begin(g) == [g EXCEPT !.work = <<>>, !.err = Done]

\* On success the closed child, on failure the parent it was forked from with the
\* reason.
Commit(g, child, flipped) ==
    IF Ok(child) THEN Rebuild(child, flipped) ELSE [g EXCEPT !.err = child.err]

\* try_unify_required
TryRequired(g, l, r, flipped) == Commit(g, Unify(Begin(g), l, r), flipped)

\* What a type stands for: every variable replaced as far as it is known.
RECURSIVE Resolved(_, _)
Resolved(s, t) ==
    LET root == Find(s, t)
    IN  [root EXCEPT !.args = [i \in DOMAIN root.args |-> Resolved(s, root.args[i])]]
=============================================================================
