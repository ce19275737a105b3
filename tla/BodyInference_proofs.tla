------------------------ MODULE BodyInference_proofs ------------------------
(***************************************************************************)
(* Proofs about BodyInference, for any body, any bounds and any solver:    *)
(* stalled obligations hear every change of their inputs, every submission *)
(* ends in exactly one way and is reported at most once, the deadlock      *)
(* panic is never a lost wake-up, the fallback panics only over a target   *)
(* that refuses it, and no result of an expression is blamed for an        *)
(* operand that is already an error.                                       *)
(*                                                                         *)
(* The argument about the store is one relation, Follows: whatever a       *)
(* transaction does, a class that is not woken is as it was.               *)
(***************************************************************************)
EXTENDS BodyInference, FiniteSetTheorems, SequenceTheorems, WellFoundedInduction, TLAPS

-----------------------------------------------------------------------------
(* The store: roots are their own roots, a class has one type, and the     *)
(* classes an answer's fresh variables head are never the body's.          *)
GraphOK(g) ==
  /\ g.size \in Nat /\ VarBound <= g.size /\ g.revision \in Nat
  /\ g.root \in [1 .. g.size -> 1 .. g.size]
  /\ g.type \in [1 .. g.size -> Type \cup {Open}]
  /\ g.domain \in [1 .. g.size -> Domain]
  /\ \A v \in 1 .. g.size : g.root[g.root[v]] = g.root[v]
  /\ \A v \in 1 .. g.size : g.type[g.root[v]] = g.type[v]
  /\ \A v \in 1 .. VarBound : g.domain[v] # "Part"

(* What the outcome of a transaction that started with store g keeps.      *)
Follows(g, out) ==
  /\ GraphOK(out.egraph)
  /\ g.size <= out.egraph.size
  /\ out.wakes \subseteq 1 .. out.egraph.size
  /\ \A v \in 1 .. g.size :
       /\ g.type[v] # Open => out.egraph.type[v] = g.type[v]
       /\ g.type[v] = Open /\ g.root[v] \notin out.wakes =>
            out.egraph.type[v] = Open /\ out.egraph.root[v] = g.root[v]
       /\ ~ IsInferVar(g, v) => ~ IsInferVar(out.egraph, v)

NoErrors(g, out) == \A v \in 1 .. g.size : out.egraph.type[v] = "Error" => g.type[v] = "Error"

OpenClass(g, r) == r \in 1 .. g.size /\ g.root[r] = r /\ g.type[r] = Open
Terms(g) == {<<"class", r>> : r \in {s \in 1 .. g.size : OpenClass(g, s)}} \cup {<<"type", t>> : t \in Type}

-----------------------------------------------------------------------------
(* The obligations. *)
Goals == {s.goal : s \in Submissions} \cup {a.residual : a \in Answers}
Record ==
  [kind : {"Prove", "Normalize"}, goal : Goals, x : 1 .. VarBound, y : 1 .. VarBound,
   slot : {NoSlot} \cup 1 .. VarBound, watch : SUBSET (1 .. VarBound), provs : SUBSET Nat,
   state : {"Ready", "Stalled", "Terminal"}, stalledOn : SUBSET Nat,
   attempted : Nat \cup {Unattempted}, ended : {"no", "merged", "proven", "failed", "recovered"}]

(* What an obligation that guards a slot watches: its inputs and the slot. *)
Guarded(o) ==
  /\ o.slot # NoSlot => o.watch = Inputs(o) \cup {o.slot}
  /\ o.kind = "Normalize" => o.slot \in {NoSlot, o.y}

Healthy(g, o) == o.slot # NoSlot => \A w \in Inputs(o) : g.type[w] # "Error"

(* An obligation of some of the submissions P, in a store.                 *)
OneOK(g, P, o) ==
  /\ o \in Record
  /\ o.provs \subseteq P
  /\ o.stalledOn \subseteq 1 .. g.size
  /\ (o.state = "Terminal") = (o.ended # "no")
  /\ Guarded(o)
  /\ o.state = "Stalled" => o.stalledOn = OpenRoots(g, Inputs(o)) /\ Healthy(g, o)

AllOK(g, P, obls) ==
  /\ obls \in Seq(Record)
  /\ \A i \in DOMAIN obls : OneOK(g, P, obls[i])

(* The obligations that were not merged into others share the submissions. *)
Kept(obls) == {i \in DOMAIN obls : obls[i].ended # "merged"}
Accounted(obls, counts) ==
  /\ \A p \in DOMAIN counts : \E i \in Kept(obls) :
       p \in obls[i].provs /\ counts[p] = (IF obls[i].ended = "failed" THEN 1 ELSE 0)
  /\ \A i, j \in Kept(obls) : i # j => obls[i].provs \cap obls[j].provs = {}

Shape ==
  /\ reports \in Seq(Nat) /\ deferred \in Seq(Variables)
  /\ pendingWakes \cup waiting \cup condemned \cup unresolved \subseteq Variables
  /\ errorSlots \subseteq 1 .. VarBound /\ awaiting \in {0} \cup Variables
  /\ pc \in {"body", "suspended", "quiescent", "recovering", "process", "attempt", "fallback",
             "sweep", "terminal", "discharge", "done", "deadlock", "fallback panic"}
  /\ after \in {"fallback", "sweep", "terminal"}

Queues ==
  /\ todo \subseteq Pending
  /\ pc = "discharge" => Pending \subseteq todo
  /\ pc = "done" => Pending = {}

(* An error node is never put where inference could still fill the slot.   *)
Expelled == \A s \in errorSlots : ~ IsInferVar(egraph, s)

(* What the suspended task waits for: registered, or woken.                *)
Undecidable ==
  /\ egraph.type[awaiting] = Open
  /\ \A v \in ToSet(deferred) : egraph.root[v] # egraph.root[awaiting]
Refusal ==
  \E v \in ToSet(deferred) :
    IsInferVar(egraph, v) /\ ~ Admits(egraph.domain[egraph.root[v]], "Never")
Waits ==
  /\ pc = "fallback panic" => Refusal
  /\ pc \in {"suspended", "quiescent"} => IsInferVar(egraph, awaiting) /\ egraph.root[awaiting] \in waiting
  /\ pc \in {"suspended", "quiescent", "recovering", "deadlock"} => awaiting \in Variables
  /\ pc = "recovering" => waiting \cap pendingWakes # {} \/ Undecidable
  /\ pc = "deadlock" => Undecidable

(* When blame is handed out, no pending obligation has a poisoned operand. *)
Clean == pc \in {"fallback", "sweep"} => \A i \in Pending : Healthy(egraph, obligations[i])

IInv ==
  /\ GraphOK(egraph) /\ AllOK(egraph, DOMAIN reports, obligations) /\ Accounted(obligations, reports)
  /\ Shape /\ Queues /\ Expelled /\ Waits /\ Clean

-----------------------------------------------------------------------------
(* Transactions. *)

LEMMA StartFollows ==
  ASSUME NEW g, GraphOK(g)
  PROVE  Follows(g, Start(g)) /\ NoErrors(g, Start(g))
  BY DEF Follows, NoErrors, Start, GraphOK

LEMMA FailsFollows ==
  ASSUME NEW g, NEW out, Follows(g, out), NEW why
  PROVE  Follows(g, Fails(out, why)) /\ (NoErrors(g, out) => NoErrors(g, Fails(out, why)))
  BY DEF Follows, NoErrors, Fails

(* Binding open classes, all of them woken. *)
LEMMA BindAllFollows ==
  ASSUME NEW g, NEW out, GraphOK(g), Follows(g, out),
         NEW R, \A r \in R : OpenClass(out.egraph, r),
         NEW t \in Type
  PROVE  /\ Follows(g, BindAll(out, R, t))
         /\ t # "Error" /\ NoErrors(g, out) => NoErrors(g, BindAll(out, R, t))
  <1> DEFINE h == out.egraph
             b == BindAll(out, R, t)
             k == b.egraph
  <1>1. GraphOK(h) /\ out.wakes \subseteq 1 .. h.size
    BY DEF Follows
  <1>2. R \subseteq 1 .. h.size /\ Cardinality(R) \in Nat
    <2>1. R \subseteq 1 .. h.size
      BY DEF OpenClass
    <2>2. IsFiniteSet(1 .. h.size)
      <3>1. 1 \in Int /\ h.size \in Int
        BY <1>1 DEF GraphOK
      <3> QED BY <3>1, FS_Interval
    <2> QED BY <2>1, <2>2, FS_Subset, FS_CardinalityType
  <1>3. /\ k.size = h.size /\ k.root = h.root /\ k.domain = h.domain
        /\ k.type = [v \in 1 .. h.size |-> IF h.root[v] \in R THEN t ELSE h.type[v]]
        /\ k.revision = h.revision + Cardinality(R)
        /\ b.wakes = out.wakes \cup R /\ b.failure = out.failure
    BY DEF BindAll, Store
  <1>4. \A r \in R : h.root[r] = r /\ h.type[r] = Open
    BY DEF OpenClass
  <1> HIDE DEF b
  <1>5. GraphOK(k)
    BY <1>1, <1>2, <1>3 DEF GraphOK
  <1>6. \A v \in 1 .. h.size : k.type[v] = IF h.root[v] \in R THEN t ELSE h.type[v]
    BY <1>3
  <1>7. \A v \in 1 .. h.size : h.root[v] \in R => h.type[v] = Open
    BY <1>1, <1>4 DEF GraphOK
  <1>8. t # Open
    BY DEF Type, Rigid, Open
  <1>9. Follows(g, b)
    <2>1. g.size <= k.size /\ b.wakes \subseteq 1 .. k.size
      BY <1>1, <1>2, <1>3 DEF Follows
    <2>2. ASSUME NEW v \in 1 .. g.size
          PROVE  /\ g.type[v] # Open => k.type[v] = g.type[v]
                 /\ g.type[v] = Open /\ g.root[v] \notin b.wakes => k.type[v] = Open /\ k.root[v] = g.root[v]
                 /\ ~ IsInferVar(g, v) => ~ IsInferVar(k, v)
      <3>1. v \in 1 .. h.size
        BY <1>1 DEF Follows, GraphOK
      <3>2. /\ g.type[v] # Open => h.type[v] = g.type[v]
            /\ g.type[v] = Open /\ g.root[v] \notin out.wakes => h.type[v] = Open /\ h.root[v] = g.root[v]
            /\ ~ IsInferVar(g, v) => ~ IsInferVar(h, v)
        BY DEF Follows
      <3> QED BY <3>1, <3>2, <1>3, <1>6, <1>7, <1>8 DEF IsInferVar
    <2> QED BY <2>1, <2>2, <1>5 DEF Follows
  <1>10. ASSUME t # "Error", NoErrors(g, out) PROVE NoErrors(g, b)
    <2>1. \A v \in 1 .. g.size : v \in 1 .. h.size
      BY <1>1 DEF Follows, GraphOK
    <2> QED BY <1>6, <1>10, <2>1 DEF NoErrors
  <1> QED BY <1>9, <1>10 DEF b

(* Relating two open classes: the absorbed one is woken; a class that an   *)
(* answer's variable heads absorbs, and is absorbed only by its like.      *)
LEMMA JoinFollows ==
  ASSUME NEW g, NEW out, GraphOK(g), Follows(g, out),
         NEW r, NEW s, OpenClass(out.egraph, r), OpenClass(out.egraph, s), r # s,
         out.egraph.domain[r] = "Part" => out.egraph.domain[s] = "Part"
  PROVE  /\ Follows(g, Join(out, r, s))
         /\ NoErrors(g, out) => NoErrors(g, Join(out, r, s))
  <1> DEFINE h == out.egraph
             j == Join(out, r, s)
             k == j.egraph
             narrows == Narrows(h, r, s)
  <1>1. GraphOK(h) /\ out.wakes \subseteq 1 .. h.size
    BY DEF Follows
  <1>2. r \in 1 .. h.size /\ s \in 1 .. h.size /\ h.root[r] = r /\ h.root[s] = s
        /\ h.type[r] = Open /\ h.type[s] = Open
    BY DEF OpenClass
  <1>3. /\ k.size = h.size /\ k.type = h.type /\ k.revision = h.revision + 1
        /\ k.root = [v \in 1 .. h.size |-> IF h.root[v] = r THEN s ELSE h.root[v]]
        /\ k.domain = [h.domain EXCEPT ![s] = IF narrows THEN "Integer" ELSE @]
        /\ j.wakes = out.wakes \cup {r} \cup (IF narrows THEN {s} ELSE {})
        /\ j.failure = out.failure
    BY DEF Join, Joined, Store
  <1> HIDE DEF j
  <1>4. /\ \A v \in 1 .. h.size : k.root[v] = IF h.root[v] = r THEN s ELSE h.root[v]
        /\ \A v \in 1 .. h.size : (k.domain[v] = "Part") = (h.domain[v] = "Part")
    BY <1>1, <1>2, <1>3 DEF GraphOK, Narrows
  <1>5. GraphOK(k)
    <2> HIDE DEF k, narrows
    <2>1. k.root \in [1 .. k.size -> 1 .. k.size]
      BY <1>1, <1>2, <1>3 DEF GraphOK
    <2>2. k.domain \in [1 .. k.size -> Domain]
      <3>1. h.domain \in [1 .. h.size -> Domain]
        BY <1>1 DEF GraphOK
      <3>2. (IF narrows THEN "Integer" ELSE h.domain[s]) \in Domain
        BY <1>2, <3>1 DEF Domain
      <3> QED BY <1>2, <1>3, <3>1, <3>2
    <2>3. ASSUME NEW v \in 1 .. VarBound PROVE k.domain[v] # "Part"
      <3>1. v \in 1 .. h.size /\ h.domain[v] # "Part"
        BY <1>1, BodyAssumption DEF GraphOK
      <3> QED BY <1>4, <3>1
    <2>4. ASSUME NEW v \in 1 .. k.size
          PROVE  k.root[k.root[v]] = k.root[v] /\ k.type[k.root[v]] = k.type[v]
      <3>1. v \in 1 .. h.size /\ h.root[v] \in 1 .. h.size /\ h.root[h.root[v]] = h.root[v]
            /\ h.type[h.root[v]] = h.type[v]
        BY <1>1, <1>3 DEF GraphOK
      <3>2. /\ k.root[v] = IF h.root[v] = r THEN s ELSE h.root[v]
            /\ k.root[h.root[v]] = IF h.root[h.root[v]] = r THEN s ELSE h.root[h.root[v]]
            /\ k.root[s] = IF h.root[s] = r THEN s ELSE h.root[s]
        BY <1>2, <1>4, <3>1
      <3> QED BY <1>2, <1>3, <3>1, <3>2
    <2>5. k.size \in Nat /\ VarBound <= k.size /\ k.revision \in Nat /\ k.type \in [1 .. k.size -> Type \cup {Open}]
      BY <1>1, <1>3 DEF GraphOK
    <2> QED BY <2>1, <2>2, <2>3, <2>4, <2>5 DEF GraphOK
  <1>6. \A v \in 1 .. h.size : h.root[v] \in 1 .. h.size
    BY <1>1 DEF GraphOK
  <1>7. ASSUME NEW v \in 1 .. g.size
        PROVE  /\ g.type[v] # Open => k.type[v] = g.type[v]
               /\ g.type[v] = Open /\ g.root[v] \notin j.wakes => k.type[v] = Open /\ k.root[v] = g.root[v]
               /\ ~ IsInferVar(g, v) => ~ IsInferVar(k, v)
    <2>1. v \in 1 .. h.size
      BY <1>1 DEF Follows, GraphOK
    <2>2. /\ g.type[v] # Open => h.type[v] = g.type[v]
          /\ g.type[v] = Open /\ g.root[v] \notin out.wakes => h.type[v] = Open /\ h.root[v] = g.root[v]
          /\ ~ IsInferVar(g, v) => ~ IsInferVar(h, v)
      BY DEF Follows
    <2> QED BY <2>1, <2>2, <1>2, <1>3, <1>4, <1>6 DEF IsInferVar
  <1>8. g.size <= k.size /\ j.wakes \subseteq 1 .. k.size
    BY <1>1, <1>2, <1>3 DEF Follows
  <1>9. Follows(g, j)
    BY <1>5, <1>7, <1>8 DEF Follows
  <1> QED BY <1>3, <1>9 DEF NoErrors, j

LEMMA FindIsTerm ==
  ASSUME NEW h, GraphOK(h), NEW v \in 1 .. h.size
  PROVE  Find(h, v) \in Terms(h)
  <1>1. h.type[v] \in Type \cup {Open} /\ h.root[v] \in 1 .. h.size
    BY DEF GraphOK
  <1>2. CASE h.type[v] = Open
    <2>1. OpenClass(h, h.root[v])
      BY <1>1, <1>2 DEF GraphOK, OpenClass
    <2> QED BY <1>1, <1>2, <2>1 DEF Find, Terms
  <1>3. CASE h.type[v] # Open
    BY <1>1, <1>3 DEF Find, Terms
  <1> QED BY <1>2, <1>3

(* Unification binds, joins or fails, and never spreads an error.          *)
LEMMA UnifyTermsFollows ==
  ASSUME NEW g, NEW out, GraphOK(g), Follows(g, out),
         NEW a \in Terms(out.egraph), NEW b \in Terms(out.egraph)
  PROVE  Follows(g, UnifyTerms(out, a, b)) /\ (NoErrors(g, out) => NoErrors(g, UnifyTerms(out, a, b)))
  <1> DEFINE h == out.egraph
             u == UnifyTerms(out, a, b)
             Good(o) == Follows(g, o) /\ (NoErrors(g, out) => NoErrors(g, o))
  <1>1. Good(out) /\ \A why : Good(Fails(out, why))
    BY FailsFollows
  <1>2. ASSUME NEW r, NEW t \in Type, OpenClass(h, r), t # "Error" PROVE Good(Bind(out, r, t))
    <2>1. \A q \in {r} : OpenClass(h, q)
      BY <1>2
    <2> QED BY <1>2, <2>1, BindAllFollows DEF Bind
  <1>3. ASSUME NEW r, NEW s, OpenClass(h, r), OpenClass(h, s), r # s,
               h.domain[r] = "Part" => h.domain[s] = "Part"
        PROVE  Good(Join(out, r, s))
    BY <1>3, JoinFollows
  <1> DEFINE Class(c) == \E r : c = <<"class", r>> /\ OpenClass(h, r)
             Whole(c) == \E t \in Type : c = <<"type", t>>
  <1>4. (Class(a) \/ Whole(a)) /\ (Class(b) \/ Whole(b))
    BY DEF Terms
  <1>5. CASE a = b
    BY <1>1, <1>5 DEF UnifyTerms
  <1>6. CASE a # b /\ <<"type", "Error">> \in {a, b}
    BY <1>1, <1>6 DEF UnifyTerms
  <1>7. ASSUME a # b, <<"type", "Error">> \notin {a, b} PROVE Good(u)
    <2>1. CASE Class(a) /\ Class(b)
      <3>1. PICK r, s : a = <<"class", r>> /\ b = <<"class", s>> /\ OpenClass(h, r) /\ OpenClass(h, s)
        BY <2>1
      <3>2. r # s /\ a[2] = r /\ b[2] = s /\ IsClass(a) /\ IsClass(b)
        BY <1>7, <3>1 DEF IsClass
      <3>3. u = IF {h.domain[r], h.domain[s]} = {"Integer", "Part"} THEN Fails(out, "domain")
                ELSE IF h.domain[r] = "Part" THEN Join(out, s, r) ELSE Join(out, r, s)
        BY <1>7, <3>2 DEF UnifyTerms
      <3> HIDE DEF u, Good
      <3> QED BY <1>1, <1>3, <3>1, <3>2, <3>3
    <2>2. CASE Class(a) /\ Whole(b)
      <3>0. PICK r : a = <<"class", r>> /\ OpenClass(h, r)
        BY <2>2
      <3>1. PICK t \in Type : b = <<"type", t>>
        BY <2>2
      <3>2. t # "Error" /\ a[2] = r /\ b[2] = t /\ IsClass(a) /\ ~ IsClass(b)
        BY <1>7, <3>0, <3>1 DEF IsClass
      <3>3. u = IF Admits(h.domain[r], t) THEN Bind(out, r, t)
                ELSE Fails(out, IF h.domain[r] = "Part" THEN "mismatch" ELSE "domain")
        BY <1>7, <3>2 DEF UnifyTerms
      <3> HIDE DEF u, Good
      <3> QED BY <1>1, <1>2, <3>0, <3>1, <3>2, <3>3
    <2>3. CASE Whole(a) /\ Class(b)
      <3>0. PICK r : b = <<"class", r>> /\ OpenClass(h, r)
        BY <2>3
      <3>1. PICK t \in Type : a = <<"type", t>>
        BY <2>3
      <3>2. t # "Error" /\ b[2] = r /\ a[2] = t /\ IsClass(b) /\ ~ IsClass(a)
        BY <1>7, <3>0, <3>1 DEF IsClass
      <3>3. u = IF Admits(h.domain[r], t) THEN Bind(out, r, t)
                ELSE Fails(out, IF h.domain[r] = "Part" THEN "mismatch" ELSE "domain")
        BY <1>7, <3>2 DEF UnifyTerms
      <3> HIDE DEF u, Good
      <3> QED BY <1>1, <1>2, <3>0, <3>1, <3>2, <3>3
    <2>4. CASE Whole(a) /\ Whole(b)
      <3>1. ~ IsClass(a) /\ ~ IsClass(b)
        BY <2>4 DEF IsClass
      <3>2. u = Fails(out, "mismatch")
        BY <1>7, <3>1 DEF UnifyTerms
      <3> HIDE DEF u, Good
      <3> QED BY <1>1, <3>2
    <2> QED BY <1>4, <2>1, <2>2, <2>3, <2>4
  <1> QED BY <1>5, <1>6, <1>7

LEMMA UnifyFollows ==
  ASSUME NEW g, NEW out, GraphOK(g), Follows(g, out),
         NEW v \in 1 .. out.egraph.size, NEW b \in Terms(out.egraph)
  PROVE  Follows(g, Unify(out, v, b)) /\ (NoErrors(g, out) => NoErrors(g, Unify(out, v, b)))
  <1>1. GraphOK(out.egraph)
    BY DEF Follows
  <1>2. Find(out.egraph, v) \in Terms(out.egraph)
    BY <1>1, FindIsTerm
  <1> QED BY <1>2, UnifyTermsFollows DEF Unify

LEMMA RecoverFollows ==
  ASSUME NEW g, NEW out, GraphOK(g), Follows(g, out), NEW v \in 1 .. out.egraph.size
  PROVE  /\ Follows(g, InstallError(out, v)) /\ Follows(g, RecoverType(out, v))
         /\ InstallError(out, v).egraph.size = out.egraph.size
         /\ RecoverType(out, v).egraph.size = out.egraph.size
         /\ ~ IsInferVar(RecoverType(out, v).egraph, v)
  <1> DEFINE h == out.egraph
             r == h.root[v]
  <1>1. GraphOK(h)
    BY DEF Follows
  <1>2. ASSUME h.type[v] = Open
        PROVE  /\ Follows(g, Bind(out, r, "Error"))
               /\ Bind(out, r, "Error").egraph.size = h.size
               /\ Bind(out, r, "Error").egraph.type[v] = "Error"
    <2>1. OpenClass(h, r)
      BY <1>1, <1>2 DEF GraphOK, OpenClass
    <2>2. (\A q \in {r} : OpenClass(h, q)) /\ "Error" \in Type
      BY <2>1 DEF Type
    <2>3. /\ Follows(g, BindAll(out, {r}, "Error"))
          /\ BindAll(out, {r}, "Error").egraph.size = h.size
          /\ \A w \in 1 .. h.size : BindAll(out, {r}, "Error").egraph.type[w]
                = IF h.root[w] \in {r} THEN "Error" ELSE h.type[w]
      <3>1. Follows(g, BindAll(out, {r}, "Error"))
        BY <2>2, BindAllFollows
      <3> QED BY <3>1 DEF BindAll, Store
    <2> QED BY <2>3 DEF Bind
  <1> QED BY <1>2 DEF InstallError, RecoverType, IsInferVar, Open

(* The fresh variable of an answer: a class of its own, then the head.     *)
LEMMA NarrowFollows ==
  ASSUME NEW g, NEW out, GraphOK(g), Follows(g, out), NEW v \in 1 .. out.egraph.size, NEW lowers
  PROVE  Follows(g, Narrow(out, v, lowers)) /\ (NoErrors(g, out) => NoErrors(g, Narrow(out, v, lowers)))
  <1> DEFINE h == out.egraph
             new == h.size + 1
             with(entries, e) == [w \in 1 .. new |-> IF w = new THEN e ELSE entries[w]]
             k == Store(new, with(h.root, new), with(h.type, Open), with(h.domain, "Part"), h.revision)
             o == [egraph |-> k, wakes |-> out.wakes \cup (IF lowers THEN {new} ELSE {}),
                   failure |-> out.failure]
             Good(x) == Follows(g, x) /\ (NoErrors(g, out) => NoErrors(g, x))
  <1>1. GraphOK(h) /\ g.size <= h.size /\ out.wakes \subseteq 1 .. h.size
    BY DEF Follows
  <1>0. h.size \in Nat
    BY <1>1 DEF GraphOK
  <1>2. /\ new \in Nat /\ new \notin 1 .. h.size /\ 1 .. h.size \subseteq 1 .. new
        /\ 1 .. new = 1 .. h.size \cup {new}
    BY <1>0
  <1>3. /\ k.size = new /\ k.revision = h.revision
        /\ k.root = with(h.root, new) /\ k.type = with(h.type, Open) /\ k.domain = with(h.domain, "Part")
    BY DEF Store
  <1>4. /\ \A w \in 1 .. h.size : k.root[w] = h.root[w] /\ k.type[w] = h.type[w] /\ k.domain[w] = h.domain[w]
        /\ k.root[new] = new /\ k.type[new] = Open /\ k.domain[new] = "Part"
    BY <1>2, <1>3
  <1>5. \A w \in 1 .. h.size : h.root[w] \in 1 .. h.size
    BY <1>1 DEF GraphOK
  <1>6. GraphOK(k)
    <2>0. /\ h.root \in [1 .. h.size -> 1 .. h.size]
          /\ h.type \in [1 .. h.size -> Type \cup {Open}]
          /\ h.domain \in [1 .. h.size -> Domain]
          /\ VarBound <= h.size /\ h.revision \in Nat /\ VarBound \in Nat
      BY <1>1, BodyAssumption DEF GraphOK
    <2> HIDE DEF h, new
    <2>1. k.root \in [1 .. k.size -> 1 .. k.size]
      BY <1>2, <1>3, <2>0
    <2>2. k.type \in [1 .. k.size -> Type \cup {Open}]
      BY <1>2, <1>3, <2>0
    <2>3. k.domain \in [1 .. k.size -> Domain]
      BY <1>2, <1>3, <2>0 DEF Domain
    <2>4. k.size \in Nat /\ VarBound <= k.size /\ k.revision \in Nat
      BY <1>0, <1>2, <1>3, <2>0 DEF new
    <2> HIDE DEF k
    <2>5. ASSUME NEW w \in 1 .. k.size
          PROVE  k.root[k.root[w]] = k.root[w] /\ k.type[k.root[w]] = k.type[w]
      BY <1>1, <1>2, <1>3, <1>4, <1>5 DEF GraphOK
    <2>6. ASSUME NEW w \in 1 .. VarBound PROVE k.domain[w] # "Part"
      <3>1. w \in 1 .. h.size /\ h.domain[w] # "Part"
        BY <1>1, BodyAssumption DEF GraphOK
      <3> QED BY <1>4, <3>1
    <2> QED BY <2>1, <2>2, <2>3, <2>4, <2>5, <2>6 DEF GraphOK
  <1>7. o.egraph = k /\ o.wakes = out.wakes \cup (IF lowers THEN {new} ELSE {})
    OBVIOUS
  <1> HIDE DEF k, o
  <1>8. Good(o)
    <2>1. ASSUME NEW w \in 1 .. g.size
          PROVE  /\ g.type[w] # Open => k.type[w] = g.type[w]
                 /\ g.type[w] = Open /\ g.root[w] \notin o.wakes => k.type[w] = Open /\ k.root[w] = g.root[w]
                 /\ ~ IsInferVar(g, w) => ~ IsInferVar(k, w)
                 /\ k.type[w] = h.type[w]
      <3>1. w \in 1 .. h.size
        BY <1>1, <1>2 DEF GraphOK
      <3>2. /\ g.type[w] # Open => h.type[w] = g.type[w]
            /\ g.type[w] = Open /\ g.root[w] \notin out.wakes => h.type[w] = Open /\ h.root[w] = g.root[w]
            /\ ~ IsInferVar(g, w) => ~ IsInferVar(h, w)
        BY DEF Follows
      <3> QED BY <3>1, <3>2, <1>4, <1>5, <1>7 DEF IsInferVar
    <2>2. o.wakes \subseteq 1 .. k.size
      BY <1>1, <1>2, <1>3, <1>7
    <2>3. g.size <= k.size
      BY <1>1, <1>2, <1>3 DEF GraphOK
    <2> QED BY <1>6, <1>7, <2>1, <2>2, <2>3 DEF Follows, NoErrors
  <1>9. CASE IsInferVar(h, v) /\ h.domain[h.root[v]] = "Any"
    <2>1. /\ OpenClass(k, h.root[v]) /\ OpenClass(k, new)
          /\ h.root[v] # new /\ k.domain[new] = "Part"
      BY <1>1, <1>2, <1>3, <1>4, <1>5, <1>9 DEF OpenClass, GraphOK, IsInferVar
    <2>2. Good(Join(o, h.root[v], new))
      BY <1>7, <1>8, <2>1, JoinFollows
    <2>3. Narrow(out, v, lowers) = Join(o, h.root[v], new)
      BY <1>9 DEF Narrow, o, k
    <2> QED BY <2>2, <2>3
  <1>10. CASE ~ (IsInferVar(h, v) /\ h.domain[h.root[v]] = "Any")
    <2>1. Narrow(out, v, lowers) = out \/ \E why : Narrow(out, v, lowers) = Fails(out, why)
      BY <1>10 DEF Narrow
    <2> QED BY <2>1, FailsFollows
  <1> QED BY <1>9, <1>10

(* What an answer substitutes is bound, narrowed or refused.               *)
LEMMA SubstituteFollows ==
  ASSUME NEW g, NEW out, GraphOK(g), Follows(g, out), NoErrors(g, out),
         NEW o, o.x \in 1 .. g.size, o.y \in 1 .. g.size,
         NEW a \in Answers
  PROVE  Follows(g, Substitute(out, o, a)) /\ NoErrors(g, Substitute(out, o, a))
  <1> DEFINE Good(x) == Follows(g, x) /\ NoErrors(g, x)
             related(before, v, t) == IF t = Open THEN before
                                      ELSE IF t = "Part" THEN Narrow(before, v, a.lowers)
                                      ELSE Unify(before, v, <<"type", t>>)
             onX == related(out, o.x, a.x)
  <1>1. ASSUME NEW x, Good(x), NEW v \in 1 .. g.size, NEW t \in Rigid \cup {Open, "Part"}
        PROVE  Good(related(x, v, t))
    <2>1. v \in 1 .. x.egraph.size
      BY <1>1 DEF Follows, GraphOK
    <2>2. Good(Narrow(x, v, a.lowers))
      BY <1>1, <2>1, NarrowFollows
    <2>3. ASSUME t \in Rigid PROVE Good(Unify(x, v, <<"type", t>>))
      <3>1. <<"type", t>> \in Terms(x.egraph)
        BY <2>3 DEF Terms, Type
      <3> QED BY <1>1, <2>1, <3>1, UnifyFollows
    <2> HIDE DEF Good
    <2> QED BY <1>1, <2>2, <2>3
  <1>2. a.x \in Rigid \cup {Open, "Part"} /\ a.y \in Rigid \cup {Open, "Part"}
    BY BodyAssumption
  <1> HIDE DEF Good, related
  <1>3. Good(onX)
    <2>1. Good(out)
      BY DEF Good
    <2> QED BY <1>1, <1>2, <2>1
  <1> HIDE DEF onX
  <1>4. Good(related(onX, o.y, a.y))
    BY <1>1, <1>2, <1>3
  <1>5. Substitute(out, o, a) = IF onX.failure = "none" THEN related(onX, o.y, a.y) ELSE onX
    BY DEF Substitute, onX, related
  <1> HIDE DEF onX
  <1>6. Good(Substitute(out, o, a))
    BY <1>3, <1>4, <1>5
  <1> QED BY <1>6 DEF Good

(* The never fallback binds open targets only, and wakes what it binds.    *)
LEMMA NeverFallbackFollows ==
  ASSUME GraphOK(egraph), deferred \in Seq(Variables), NEW only
  PROVE  /\ Follows(egraph, NeverFallback(only)) /\ NoErrors(egraph, NeverFallback(only))
         /\ NeverFallback(only).egraph.root = egraph.root
         /\ \A v \in Variables : egraph.root[v] \notin NeverFallback(only).wakes =>
              NeverFallback(only).egraph.type[v] = egraph.type[v]
         /\ NeverFallback(only).failure = "none" =>
              \A n \in Due(only) : egraph.root[deferred[n]] \in NeverFallback(only).wakes
         /\ NeverFallback(only).egraph.domain = egraph.domain
         /\ NeverFallback(only).failure # "none" =>
              \E v \in ToSet(deferred) :
                /\ IsInferVar(NeverFallback(only).egraph, v)
                /\ ~ Admits(egraph.domain[egraph.root[v]], "Never")
  <1> DEFINE root(n) == egraph.root[deferred[n]]
             refused == {n \in Due(only) : ~ Admits(egraph.domain[root(n)], "Never")}
             bound == {root(n) : n \in {m \in Due(only) : \A k \in refused : m < k}}
             out == BindAll(Start(egraph), bound, "Never")
  <1>1. \A r \in bound : OpenClass(egraph, r)
    <2>1. \A n \in DOMAIN deferred : deferred[n] \in Variables
      OBVIOUS
    <2>2. ASSUME NEW n \in Due(only) PROVE OpenClass(egraph, root(n))
      <3>1. deferred[n] \in Variables /\ egraph.type[deferred[n]] = Open
        BY <2>1 DEF Due, IsInferVar
      <3> QED BY <3>1 DEF GraphOK, OpenClass, Variables
    <2> QED BY <2>2
  <1>2. Follows(egraph, out) /\ NoErrors(egraph, out)
    <2>1. Follows(egraph, Start(egraph)) /\ NoErrors(egraph, Start(egraph))
      BY StartFollows
    <2>2. Start(egraph).egraph = egraph /\ "Never" \in Type /\ "Never" # "Error"
      BY DEF Start, Type, Rigid
    <2> HIDE DEF bound
    <2> QED BY <1>1, <2>1, <2>2, BindAllFollows
  <1>3. /\ out.egraph.root = egraph.root /\ out.wakes = bound /\ out.failure = "none"
        /\ out.egraph.type = [v \in Variables |-> IF egraph.root[v] \in bound THEN "Never" ELSE egraph.type[v]]
    BY DEF BindAll, Store, Start, Variables
  <1>4. NeverFallback(only) = IF refused = {} THEN out ELSE Fails(out, "domain")
    BY DEF NeverFallback
  <1>5. /\ Follows(egraph, NeverFallback(only)) /\ NoErrors(egraph, NeverFallback(only))
        /\ NeverFallback(only).egraph = out.egraph /\ NeverFallback(only).wakes = out.wakes
        /\ NeverFallback(only).failure = "none" => refused = {}
    <2>1. Fails(out, "domain").egraph = out.egraph /\ Fails(out, "domain").wakes = out.wakes
          /\ Fails(out, "domain").failure = "domain"
      BY DEF Fails
    <2>2. Follows(egraph, Fails(out, "domain")) /\ NoErrors(egraph, Fails(out, "domain"))
      BY <1>2, FailsFollows
    <2> HIDE DEF out, refused
    <2> QED BY <1>2, <1>3, <1>4, <2>1, <2>2
  <1>6. refused = {} => \A n \in Due(only) : root(n) \in bound
    OBVIOUS
  <1>7. out.egraph.domain = egraph.domain
    BY DEF BindAll, Store, Start
  <1>8. ASSUME refused # {}
        PROVE  \E v \in ToSet(deferred) :
                 IsInferVar(out.egraph, v) /\ ~ Admits(egraph.domain[egraph.root[v]], "Never")
    <2>1. PICK k \in refused : TRUE
      BY <1>8
    <2>2. k \in DOMAIN deferred /\ IsInferVar(egraph, deferred[k])
          /\ ~ Admits(egraph.domain[root(k)], "Never")
      BY <2>1 DEF Due
    <2>3. root(k) \notin bound
      <3> SUFFICES ASSUME NEW m \in Due(only), \A j \in refused : m < j, root(m) = root(k)
                   PROVE  FALSE
        OBVIOUS
      <3>1. m \in refused /\ m \in Nat
        BY <2>2 DEF Due
      <3>2. m < m
        BY <3>1
      <3> QED BY <3>1, <3>2
    <2>4. deferred[k] \in Variables /\ deferred[k] \in ToSet(deferred)
      BY <2>2 DEF ToSet
    <2> HIDE DEF bound, out
    <2>5. IsInferVar(out.egraph, deferred[k])
      BY <1>3, <1>7, <2>2, <2>3, <2>4 DEF IsInferVar
    <2> QED BY <2>2, <2>4, <2>5
  <1>9. NeverFallback(only).failure # "none" => refused # {}
    BY <1>3, <1>4
  <1> HIDE DEF out, bound, refused
  <1> QED BY <1>3, <1>5, <1>6, <1>7, <1>8, <1>9

-----------------------------------------------------------------------------
(* What the obligations hear of a transaction. *)

LEMMA UnheardOf ==
  ASSUME NEW g, NEW out, GraphOK(g), Follows(g, out), NEW I \in SUBSET (1 .. g.size),
         OpenRoots(g, I) \cap out.wakes = {}
  PROVE  /\ OpenRoots(out.egraph, I) = OpenRoots(g, I)
         /\ \A w \in I : out.egraph.type[w] = g.type[w]
  <1>1. ASSUME NEW w \in I, g.type[w] = Open
        PROVE  out.egraph.type[w] = Open /\ out.egraph.root[w] = g.root[w]
    <2>1. g.root[w] \in OpenRoots(g, I)
      BY <1>1 DEF OpenRoots
    <2> QED BY <1>1, <2>1 DEF Follows
  <1>2. \A w \in I : g.type[w] # Open => out.egraph.type[w] = g.type[w]
    BY DEF Follows
  <1>3. {w \in I : out.egraph.type[w] = Open} = {w \in I : g.type[w] = Open}
    BY <1>1, <1>2
  <1>4. OpenRoots(out.egraph, I) = OpenRoots(g, I)
    BY <1>1, <1>3 DEF OpenRoots
  <1> QED BY <1>1, <1>2, <1>4

Roused(o, wakes) ==
  IF o.state = "Stalled" /\ o.stalledOn \cap wakes # {} THEN [o EXCEPT !.state = "Ready"] ELSE o
Twins(o, w) ==
  /\ w.kind = o.kind /\ w.x = o.x /\ w.y = o.y /\ w.slot = o.slot /\ w.watch = o.watch
  /\ w.provs = o.provs /\ w.ended = o.ended /\ (w.state = "Terminal") = (o.state = "Terminal")

LEMMA InputsInStore ==
  ASSUME NEW g, GraphOK(g), NEW o \in Record
  PROVE  Inputs(o) \subseteq 1 .. VarBound /\ Inputs(o) \subseteq 1 .. g.size
         /\ o.x \in 1 .. g.size /\ o.y \in 1 .. g.size
  <1>1. 1 .. VarBound \subseteq 1 .. g.size
    BY BodyAssumption DEF GraphOK
  <1>2. o.x \in 1 .. VarBound /\ o.y \in 1 .. VarBound
    BY DEF Record
  <1> QED BY <1>1, <1>2 DEF Inputs

LEMMA RousedOK ==
  ASSUME NEW g, NEW out, GraphOK(g), Follows(g, out), NEW P, NEW o, OneOK(g, P, o)
  PROVE  OneOK(out.egraph, P, Roused(o, out.wakes)) /\ Twins(o, Roused(o, out.wakes))
  <1> DEFINE w == Roused(o, out.wakes)
  <1>1. o \in Record /\ 1 .. g.size \subseteq 1 .. out.egraph.size
    BY DEF OneOK, Follows, GraphOK
  <1>2. CASE o.state = "Stalled" /\ o.stalledOn \cap out.wakes # {}
    <2>1. w = [o EXCEPT !.state = "Ready"]
      BY <1>2 DEF Roused
    <2>2. w \in Record /\ Twins(o, w) /\ w.stalledOn = o.stalledOn /\ w.state = "Ready"
      BY <1>1, <1>2, <2>1 DEF Record, Twins
    <2>3. Inputs(w) = Inputs(o)
      BY <2>2 DEF Inputs, Twins
    <2> HIDE DEF w
    <2>4. Guarded(w)
      <3>1. Guarded(o)
        BY DEF OneOK
      <3> QED BY <2>2, <2>3, <3>1 DEF Guarded, Twins
    <2>5. w.provs \subseteq P /\ w.stalledOn \subseteq 1 .. out.egraph.size /\ w.state # "Stalled"
          /\ (w.state = "Terminal") = (w.ended # "no")
      BY <1>1, <1>2, <2>2 DEF OneOK, Twins
    <2>6. OneOK(out.egraph, P, w) /\ Twins(o, w)
      BY <2>2, <2>4, <2>5 DEF OneOK
    <2> QED BY <2>6 DEF w
  <1>3. CASE ~ (o.state = "Stalled" /\ o.stalledOn \cap out.wakes # {})
    <2>1. w = o /\ Twins(o, w)
      BY <1>3 DEF Roused, Twins
    <2>2. ASSUME o.state = "Stalled"
          PROVE  o.stalledOn = OpenRoots(out.egraph, Inputs(o)) /\ Healthy(out.egraph, o)
      <3>1. Inputs(o) \in SUBSET (1 .. g.size)
        BY <1>1, InputsInStore
      <3>2. o.stalledOn = OpenRoots(g, Inputs(o)) /\ Healthy(g, o)
        BY <2>2 DEF OneOK
      <3>3. OpenRoots(g, Inputs(o)) \cap out.wakes = {}
        BY <1>3, <2>2, <3>2
      <3>4. /\ OpenRoots(out.egraph, Inputs(o)) = OpenRoots(g, Inputs(o))
            /\ \A u \in Inputs(o) : out.egraph.type[u] = g.type[u]
        BY <3>1, <3>3, UnheardOf
      <3> QED BY <3>2, <3>4 DEF Healthy
    <2>3. OneOK(out.egraph, P, o)
      BY <1>1, <2>2 DEF OneOK
    <2> QED BY <2>1, <2>3
  <1> QED BY <1>2, <1>3

LEMMA SequenceOf ==
  ASSUME NEW S, NEW s \in Seq(S), NEW T, NEW f, DOMAIN f = DOMAIN s,
         f = [i \in DOMAIN f |-> f[i]], \A i \in DOMAIN f : f[i] \in T
  PROVE  f \in Seq(T)
  <1>1. Len(s) \in Nat /\ DOMAIN s = 1 .. Len(s)
    BY LenProperties
  <1>2. f \in [1 .. Len(s) -> T]
    BY <1>1
  <1> QED BY <1>1, <1>2, SeqDef

LEMMA MinIsLeast ==
  ASSUME NEW S \in SUBSET Nat, S # {}
  PROVE  Min(S) \in S /\ \A k \in S : Min(S) <= k
  <1>1. IsWellFoundedOn(OpToRel(<, Nat), Nat)
    BY NatLessThanWellFounded
  <1>2. PICK m \in S : \A k \in S : ~ (<<k, m>> \in OpToRel(<, Nat))
    BY <1>1, WFMin
  <1>3. OpToRel(<, Nat) = {p \in Nat \X Nat : p[1] < p[2]}
    BY DEF OpToRel
  <1>4. ASSUME NEW k \in S PROVE m <= k
    <2>1. <<k, m>> \in Nat \X Nat /\ <<k, m>>[1] = k /\ <<k, m>>[2] = m
      OBVIOUS
    <2>2. ~ (k < m)
      BY <1>2, <1>3, <2>1
    <2> QED BY <2>2
  <1> QED BY <1>4 DEF Min

LEMMA WakeOK ==
  ASSUME NEW g, NEW out, GraphOK(g), Follows(g, out), NEW P, NEW obls, AllOK(g, P, obls)
  PROVE  /\ AllOK(out.egraph, P, Wake(obls, out.wakes))
         /\ DOMAIN Wake(obls, out.wakes) = DOMAIN obls
         /\ \A i \in DOMAIN obls : Twins(obls[i], Wake(obls, out.wakes)[i])
         /\ \A i \in DOMAIN obls : OneOK(out.egraph, P, Wake(obls, out.wakes)[i])
  <1> DEFINE W == Wake(obls, out.wakes)
  <1>1. DOMAIN W = DOMAIN obls /\ W = [i \in DOMAIN W |-> W[i]]
        /\ \A i \in DOMAIN obls : W[i] = Roused(obls[i], out.wakes)
    BY DEF Wake, Roused
  <1> HIDE DEF W
  <1>2. \A i \in DOMAIN obls : OneOK(out.egraph, P, W[i]) /\ Twins(obls[i], W[i])
    BY <1>1, RousedOK DEF AllOK
  <1>3. W \in Seq(Record)
    <2>1. obls \in Seq(Record) /\ \A i \in DOMAIN W : W[i] \in Record
      BY <1>1, <1>2 DEF AllOK, OneOK
    <2> QED BY <1>1, <2>1, SequenceOf
  <1>4. AllOK(out.egraph, P, W)
    BY <1>1, <1>2, <1>3 DEF AllOK
  <1> QED BY <1>1, <1>2, <1>4 DEF W

(* The books only depend on who was merged or failed and for whom.         *)
LEMMA SameBooks ==
  ASSUME NEW obls, NEW counts, Accounted(obls, counts), NEW next, DOMAIN next = DOMAIN obls,
         \A i \in DOMAIN obls : next[i].provs = obls[i].provs /\ next[i].ended = obls[i].ended
  PROVE  Accounted(next, counts)
  BY DEF Accounted, Kept

(* One open obligation ends without blame, or fails and is reported.       *)
LEMMA BooksOfEnd ==
  ASSUME NEW obls, NEW counts, Accounted(obls, counts), NEW next, DOMAIN next = DOMAIN obls,
         NEW i \in DOMAIN obls, obls[i].ended = "no",
         \A j \in DOMAIN obls : /\ next[j].provs = obls[j].provs
                                /\ j # i => next[j].ended = obls[j].ended,
         next[i].ended \in {"no", "proven", "recovered"}
  PROVE  Accounted(next, counts)
  <1>1. Kept(next) = Kept(obls) /\ i \in Kept(obls)
    BY DEF Kept
  <1>2. \A p \in DOMAIN counts : \E k \in Kept(next) :
          p \in next[k].provs /\ counts[p] = (IF next[k].ended = "failed" THEN 1 ELSE 0)
    <2> TAKE p \in DOMAIN counts
    <2>1. PICK k \in Kept(obls) : p \in obls[k].provs /\ counts[p] = (IF obls[k].ended = "failed" THEN 1 ELSE 0)
      BY DEF Accounted
    <2>2. k \in Kept(next) /\ p \in next[k].provs
      BY <1>1, <2>1 DEF Kept
    <2>3. (next[k].ended = "failed") = (obls[k].ended = "failed")
      BY <2>1 DEF Kept
    <2> QED BY <2>1, <2>2, <2>3
  <1>3. \A j, k \in Kept(next) : j # k => next[j].provs \cap next[k].provs = {}
    BY <1>1 DEF Accounted, Kept
  <1> QED BY <1>2, <1>3 DEF Accounted

LEMMA BooksOfFailure ==
  ASSUME NEW obls, NEW counts, Accounted(obls, counts), NEW next, DOMAIN next = DOMAIN obls,
         NEW i \in DOMAIN obls, obls[i].ended = "no",
         \A j \in DOMAIN obls : /\ next[j].provs = obls[j].provs
                                /\ j # i => next[j].ended = obls[j].ended,
         next[i].ended = "failed"
  PROVE  Accounted(next, [p \in DOMAIN counts |-> IF p \in obls[i].provs THEN counts[p] + 1 ELSE counts[p]])
  <1> DEFINE more == [p \in DOMAIN counts |-> IF p \in obls[i].provs THEN counts[p] + 1 ELSE counts[p]]
  <1>1. Kept(next) = Kept(obls) /\ i \in Kept(obls)
    BY DEF Kept
  <1>2. ASSUME NEW p \in DOMAIN more
        PROVE  \E k \in Kept(next) : p \in next[k].provs /\ more[p] = (IF next[k].ended = "failed" THEN 1 ELSE 0)
    <2>1. PICK k \in Kept(obls) : p \in obls[k].provs /\ counts[p] = (IF obls[k].ended = "failed" THEN 1 ELSE 0)
      BY DEF Accounted
    <2>2. k \in Kept(next) /\ p \in next[k].provs
      BY <1>1, <2>1 DEF Kept
    <2>3. CASE k = i
      BY <2>1, <2>2, <2>3
    <2>4. CASE k # i
      <3>1. p \notin obls[i].provs
        BY <1>1, <2>1, <2>4 DEF Accounted
      <3>2. next[k].ended = obls[k].ended
        BY <2>1, <2>4 DEF Kept
      <3> QED BY <2>1, <2>2, <3>1, <3>2
    <2> QED BY <2>3, <2>4
  <1>3. \A j, k \in Kept(next) : j # k => next[j].provs \cap next[k].provs = {}
    BY <1>1 DEF Accounted, Kept
  <1> HIDE DEF more
  <1>4. Accounted(next, more)
    BY <1>2, <1>3 DEF Accounted
  <1> QED BY <1>4 DEF more

LEMMA RecanonicalizeOK ==
  ASSUME NEW g, GraphOK(g), NEW o \in Record
  PROVE  LET r == Recanonicalize(g, o)
         IN  /\ r \in Record /\ Twins(o, r) /\ r.state = o.state /\ Inputs(r) = Inputs(o)
             /\ r.stalledOn = OpenRoots(g, Inputs(r)) /\ r.stalledOn \subseteq 1 .. g.size
  <1> DEFINE r == Recanonicalize(g, o)
             S == OpenRoots(g, Inputs(o))
  <1>1. S \subseteq 1 .. g.size /\ S \in SUBSET Nat
    <2>1. Inputs(o) \subseteq 1 .. g.size
      BY InputsInStore
    <2>2. \A v \in 1 .. g.size : g.root[v] \in 1 .. g.size
      BY DEF GraphOK
    <2>3. 1 .. g.size \subseteq Nat
      BY DEF GraphOK
    <2> QED BY <2>1, <2>2, <2>3 DEF OpenRoots
  <1>2. r = [o EXCEPT !.stalledOn = S]
    BY DEF Recanonicalize
  <1> HIDE DEF S, r
  <1>3. r \in Record /\ Twins(o, r) /\ r.state = o.state /\ r.stalledOn = S
    BY <1>1, <1>2 DEF Record, Twins
  <1>4. Inputs(r) = Inputs(o)
    BY <1>3 DEF Twins, Inputs
  <1>5. r.stalledOn = OpenRoots(g, Inputs(r))
    BY <1>3, <1>4 DEF S
  <1> QED BY <1>1, <1>3, <1>4, <1>5 DEF r

-----------------------------------------------------------------------------
(* Deduplication: the first of equal obligations takes the provenance of   *)
(* all of them.                                                            *)
Equal(i) == {j \in Pending : SameDedupKey(egraph, obligations[i], obligations[j])} \cup {i}
First(i) == Min(Equal(i))
Merged(i) == UNION {obligations[j].provs : j \in Equal(i)}

LEMMA DeduplicatedEach ==
  ASSUME NEW i \in DOMAIN obligations
  PROVE  Deduplicated[i]
           = IF i \notin Pending THEN obligations[i]
             ELSE IF First(i) = i THEN [Recanonicalize(egraph, obligations[i]) EXCEPT !.provs = Merged(i)]
             ELSE [Recanonicalize(egraph, obligations[i]) EXCEPT !.state = "Terminal", !.ended = "merged"]
  BY DEF Deduplicated, Equal, First, Merged

LEMMA EqualIsAClass ==
  ASSUME obligations \in Seq(Record), NEW i \in Pending
  PROVE  /\ Equal(i) \subseteq Pending /\ First(i) \in Equal(i)
         /\ \A j \in Equal(i) : Equal(j) = Equal(i)
  <1>1. Equal(i) \subseteq Pending /\ i \in Equal(i)
    BY DEF Equal
  <1>2. Pending \subseteq Nat
    <2>1. DOMAIN obligations = 1 .. Len(obligations) /\ Len(obligations) \in Nat
      BY LenProperties
    <2> QED BY <2>1 DEF Pending
  <1>3. First(i) \in Equal(i)
    BY <1>1, <1>2, MinIsLeast DEF First
  <1>4. ASSUME NEW j \in Equal(i) PROVE Equal(j) = Equal(i)
    <2>1. CASE j = i
      BY <2>1
    <2>2. CASE j # i
      <3>1. j \in Pending /\ SameDedupKey(egraph, obligations[i], obligations[j])
        BY <1>4, <2>2 DEF Equal
      <3>2. SameDedupKey(egraph, obligations[i], obligations[i]) /\ SameDedupKey(egraph, obligations[j], obligations[j])
        BY <3>1 DEF SameDedupKey
      <3>3. \A k \in Pending : SameDedupKey(egraph, obligations[i], obligations[k])
                              = SameDedupKey(egraph, obligations[j], obligations[k])
        BY <3>1 DEF SameDedupKey
      <3> QED BY <3>1, <3>2, <3>3 DEF Equal
    <2> QED BY <2>1, <2>2
  <1> QED BY <1>1, <1>3, <1>4

LEMMA DeduplicatedOK ==
  ASSUME NEW P, P \subseteq Nat, GraphOK(egraph), AllOK(egraph, P, obligations)
  PROVE  AllOK(egraph, P, Deduplicated) /\ DOMAIN Deduplicated = DOMAIN obligations
  <1> DEFINE D == Deduplicated
  <1>1. DOMAIN D = DOMAIN obligations /\ D = [i \in DOMAIN D |-> D[i]]
    BY DEF Deduplicated
  <1>2. ASSUME NEW i \in DOMAIN obligations PROVE OneOK(egraph, P, D[i])
    <2> DEFINE o == obligations[i]
               r == Recanonicalize(egraph, o)
               d == D[i]
    <2>1. OneOK(egraph, P, o) /\ o \in Record
      BY DEF AllOK, OneOK
    <2>2. /\ r \in Record /\ Twins(o, r) /\ r.state = o.state /\ Inputs(r) = Inputs(o)
          /\ r.stalledOn = OpenRoots(egraph, Inputs(r)) /\ r.stalledOn \subseteq 1 .. egraph.size
      BY <2>1, RecanonicalizeOK
    <2>3. Guarded(o) /\ (o.state = "Terminal") = (o.ended # "no")
          /\ (o.state = "Stalled" => Healthy(egraph, o))
      BY <2>1 DEF OneOK
    <2> HIDE DEF o, r, d
    <2>4. CASE i \notin Pending
      BY <2>1, <2>4, DeduplicatedEach DEF d, o
    <2>5. CASE i \in Pending /\ First(i) = i
      <3>1. d = [r EXCEPT !.provs = Merged(i)]
        BY <2>5, DeduplicatedEach DEF d, r, o
      <3>2. Merged(i) \subseteq P
        <4>1. Equal(i) \subseteq DOMAIN obligations
          BY <2>5, EqualIsAClass DEF AllOK, Pending
        <4>2. \A j \in DOMAIN obligations : obligations[j].provs \subseteq P
          BY DEF AllOK, OneOK
        <4> QED BY <4>1, <4>2 DEF Merged
      <3>3. /\ d \in Record /\ d.provs = Merged(i) /\ d.kind = o.kind /\ d.x = o.x /\ d.y = o.y
            /\ d.slot = o.slot /\ d.watch = o.watch /\ d.state = o.state /\ d.ended = o.ended
            /\ d.stalledOn = r.stalledOn
        BY <2>2, <3>1, <3>2 DEF Record, Twins
      <3>4. Inputs(d) = Inputs(o)
        BY <3>3 DEF Inputs
      <3>5. Guarded(d) /\ (d.state = "Stalled" => Healthy(egraph, d))
        BY <2>3, <3>3, <3>4 DEF Guarded, Healthy
      <3>6. OneOK(egraph, P, d)
        BY <2>2, <2>3, <3>2, <3>3, <3>4, <3>5 DEF OneOK
      <3> QED BY <3>6 DEF d
    <2>6. CASE i \in Pending /\ First(i) # i
      <3>1. d = [r EXCEPT !.state = "Terminal", !.ended = "merged"]
        BY <2>6, DeduplicatedEach DEF d, r, o
      <3>2. /\ d \in Record /\ d.provs = o.provs /\ d.kind = o.kind /\ d.x = o.x /\ d.y = o.y
            /\ d.slot = o.slot /\ d.watch = o.watch /\ d.state = "Terminal" /\ d.ended = "merged"
            /\ d.stalledOn = r.stalledOn
        BY <2>2, <3>1 DEF Record, Twins
      <3>3. Inputs(d) = Inputs(o)
        BY <3>2 DEF Inputs
      <3>4. Guarded(d)
        BY <2>3, <3>2, <3>3 DEF Guarded
      <3>5. o.provs \subseteq P
        BY <2>1 DEF OneOK
      <3>6. OneOK(egraph, P, d)
        BY <2>2, <3>2, <3>4, <3>5 DEF OneOK
      <3> QED BY <3>6 DEF d
    <2> QED BY <2>4, <2>5, <2>6
  <1> HIDE DEF D
  <1>3. D \in Seq(Record)
    <2>1. obligations \in Seq(Record) /\ \A i \in DOMAIN D : D[i] \in Record
      BY <1>1, <1>2 DEF AllOK, OneOK
    <2> QED BY <1>1, <2>1, SequenceOf
  <1>4. AllOK(egraph, P, D)
    BY <1>1, <1>2, <1>3 DEF AllOK
  <1> QED BY <1>1, <1>4 DEF D

LEMMA DeduplicatedBooks ==
  ASSUME NEW P, NEW counts, GraphOK(egraph), AllOK(egraph, P, obligations), Accounted(obligations, counts)
  PROVE  Accounted(Deduplicated, counts)
  <1> DEFINE D == Deduplicated
  <1>1. DOMAIN D = DOMAIN obligations
    BY DEF Deduplicated
  <1>2. \A i \in DOMAIN obligations : obligations[i] \in Record /\ ((i \in Pending) = (obligations[i].ended = "no"))
    BY DEF AllOK, OneOK, Pending
  <1>3. ASSUME NEW i \in DOMAIN obligations
        PROVE  /\ i \notin Pending => D[i] = obligations[i]
               /\ i \in Pending /\ First(i) = i => D[i].ended = "no" /\ D[i].provs = Merged(i)
               /\ i \in Pending /\ First(i) # i => D[i].ended = "merged"
    <2> DEFINE r == Recanonicalize(egraph, obligations[i])
    <2>1. r \in Record /\ r.ended = obligations[i].ended
      BY <1>2, RecanonicalizeOK DEF Twins
    <2>2. [r EXCEPT !.provs = Merged(i)].ended = r.ended /\ [r EXCEPT !.provs = Merged(i)].provs = Merged(i)
          /\ [r EXCEPT !.state = "Terminal", !.ended = "merged"].ended = "merged"
      BY <2>1 DEF Record
    <2> HIDE DEF r
    <2> QED BY <1>2, <2>1, <2>2, DeduplicatedEach DEF r
  <1> HIDE DEF D
  <1>4. \A i \in Pending : i \in DOMAIN obligations /\ Equal(i) \subseteq Pending /\ First(i) \in Equal(i)
          /\ i \in Equal(i) /\ \A j \in Equal(i) : Equal(j) = Equal(i)
    BY EqualIsAClass DEF AllOK, Pending, Equal
  <1>5. ASSUME NEW i \in Kept(D)
        PROVE  \/ i \in Kept(obligations) /\ i \notin Pending /\ D[i] = obligations[i]
               \/ i \in Pending /\ First(i) = i /\ D[i].provs = Merged(i)
    BY <1>1, <1>3 DEF Kept
  <1>6. Pending \subseteq Kept(obligations)
    BY <1>2 DEF Kept, Pending
  <1>7. ASSUME NEW p \in DOMAIN counts
        PROVE  \E k \in Kept(D) : p \in D[k].provs /\ counts[p] = (IF D[k].ended = "failed" THEN 1 ELSE 0)
    <2>1. PICK k \in Kept(obligations) :
            p \in obligations[k].provs /\ counts[p] = (IF obligations[k].ended = "failed" THEN 1 ELSE 0)
      BY DEF Accounted
    <2>2. CASE k \notin Pending
      BY <1>1, <1>3, <2>1, <2>2 DEF Kept
    <2>3. CASE k \in Pending
      <3>1. First(k) \in Pending /\ Equal(First(k)) = Equal(k) /\ k \in Equal(First(k))
        BY <1>4, <2>3
      <3>2. First(First(k)) = First(k)
        BY <3>1 DEF First
      <3>3. D[First(k)].ended = "no" /\ D[First(k)].provs = Merged(First(k)) /\ First(k) \in DOMAIN obligations
        BY <1>3, <1>4, <3>1, <3>2
      <3>4. p \in Merged(First(k))
        BY <2>1, <3>1 DEF Merged
      <3>5. counts[p] = 0
        BY <1>2, <1>4, <2>1, <2>3
      <3> QED BY <1>1, <3>3, <3>4, <3>5 DEF Kept
    <2> QED BY <2>2, <2>3
  <1>8. ASSUME NEW i \in Kept(D), NEW j \in Kept(D), NEW p, p \in D[i].provs, p \in D[j].provs
        PROVE  i = j
    <2>1. \A k, l \in Kept(obligations) : p \in obligations[k].provs /\ p \in obligations[l].provs => k = l
      BY DEF Accounted
    <2>2. ASSUME NEW k \in Kept(D), p \in D[k].provs
          PROVE  \E l \in Kept(obligations) : p \in obligations[l].provs
                   /\ ((l \notin Pending /\ l = k) \/ (l \in Pending /\ k \in Pending /\ First(k) = k /\ l \in Equal(k)))
      <3>1. CASE k \in Kept(obligations) /\ k \notin Pending /\ D[k] = obligations[k]
        BY <2>2, <3>1
      <3>2. CASE k \in Pending /\ First(k) = k /\ D[k].provs = Merged(k)
        BY <1>4, <1>6, <2>2, <3>2 DEF Merged
      <3> QED BY <1>5, <3>1, <3>2
    <2>3. PICK l \in Kept(obligations) : p \in obligations[l].provs
            /\ ((l \notin Pending /\ l = i) \/ (l \in Pending /\ i \in Pending /\ First(i) = i /\ l \in Equal(i)))
      BY <1>8, <2>2
    <2>4. PICK m \in Kept(obligations) : p \in obligations[m].provs
            /\ ((m \notin Pending /\ m = j) \/ (m \in Pending /\ j \in Pending /\ First(j) = j /\ m \in Equal(j)))
      BY <1>8, <2>2
    <2>5. l = m
      BY <2>1, <2>3, <2>4
    <2>6. CASE l \notin Pending
      BY <2>3, <2>4, <2>5, <2>6
    <2>7. CASE l \in Pending
      <3>1. Equal(i) = Equal(l) /\ Equal(j) = Equal(l) /\ First(i) = i /\ First(j) = j
        BY <1>4, <2>3, <2>4, <2>5, <2>7
      <3> QED BY <3>1 DEF First
    <2> QED BY <2>6, <2>7
  <1>9. Accounted(D, counts)
    BY <1>7, <1>8 DEF Accounted
  <1> QED BY <1>9 DEF D

-----------------------------------------------------------------------------
(* The invariant holds initially, and each action keeps it. *)

LEMMA InitInvariant == Init => IInv
  <1> SUFFICES ASSUME Init PROVE IInv
    OBVIOUS
  <1>1. PICK domains \in Domains : egraph = NewVariables(domains)
    BY DEF Init
  <1>2. /\ egraph.size = VarBound /\ egraph.revision = 0 /\ egraph.domain = domains
        /\ egraph.root = [v \in 1 .. VarBound |-> v] /\ egraph.type = [v \in 1 .. VarBound |-> Open]
    BY <1>1 DEF NewVariables, Store
  <1>3. VarBound \in Nat /\ domains \in [1 .. VarBound -> {"Any", "Integer"}]
    BY BodyAssumption
  <1>4. GraphOK(egraph)
    BY <1>2, <1>3 DEF GraphOK, Domain
  <1>5. obligations = <<>> /\ reports = <<>> /\ deferred = <<>>
    BY DEF Init
  <1>6. AllOK(egraph, DOMAIN reports, obligations) /\ Accounted(obligations, reports)
    BY <1>5 DEF AllOK, Accounted, Kept
  <1>7. Shape /\ Queues /\ Expelled /\ Waits /\ Clean
    BY <1>5 DEF Init, Shape, Queues, Expelled, Waits, Clean, Pending
  <1> QED BY <1>4, <1>6, <1>7 DEF IInv

(* A transaction of which all obligations hear. *)
LEMMA PublishStep ==
  ASSUME IInv, NEW out, Follows(egraph, out), Publish(out, Wake(obligations, out.wakes)),
         UNCHANGED reports
  PROVE  /\ GraphOK(egraph') /\ AllOK(egraph', DOMAIN reports', obligations')
         /\ Accounted(obligations', reports')
         /\ Pending' = Pending /\ Variables \subseteq Variables' /\ pendingWakes' \subseteq Variables'
         /\ \A s \in errorSlots : ~ IsInferVar(egraph', s)
         /\ \A i \in Pending : Twins(obligations[i], obligations'[i])
  <1> DEFINE W == Wake(obligations, out.wakes)
  <1>1. egraph' = out.egraph /\ obligations' = W /\ pendingWakes' = pendingWakes \cup out.wakes
    BY DEF Publish
  <1>2. GraphOK(egraph) /\ AllOK(egraph, DOMAIN reports, obligations) /\ Accounted(obligations, reports)
    BY DEF IInv
  <1>3. /\ AllOK(out.egraph, DOMAIN reports, W) /\ DOMAIN W = DOMAIN obligations
        /\ \A i \in DOMAIN obligations : Twins(obligations[i], W[i])
    BY <1>2, WakeOK
  <1>4. GraphOK(out.egraph) /\ egraph.size <= out.egraph.size /\ out.wakes \subseteq 1 .. out.egraph.size
    BY DEF Follows
  <1>5. Variables \subseteq Variables'
    BY <1>1, <1>2, <1>4 DEF Variables, GraphOK
  <1>6. pendingWakes' \subseteq Variables'
    <2>1. pendingWakes \subseteq Variables
      BY DEF IInv, Shape
    <2>2. out.wakes \subseteq Variables'
      BY <1>1, <1>4 DEF Variables
    <2> QED BY <1>1, <1>5, <2>1, <2>2
  <1> HIDE DEF W
  <1>7. Accounted(W, reports)
    BY <1>2, <1>3, SameBooks DEF Twins
  <1>8. Pending' = Pending
    BY <1>1, <1>3 DEF Pending, Twins
  <1>9. \A s \in errorSlots : ~ IsInferVar(egraph', s)
    <2>1. \A s \in errorSlots : s \in 1 .. egraph.size
      <3>1. errorSlots \subseteq 1 .. VarBound
        BY DEF IInv, Shape
      <3>2. VarBound \in Nat /\ egraph.size \in Nat /\ VarBound <= egraph.size
        BY <1>2, BodyAssumption DEF GraphOK
      <3> QED BY <3>1, <3>2
    <2>2. \A s \in errorSlots : ~ IsInferVar(egraph, s)
      BY DEF IInv, Expelled
    <2> QED BY <1>1, <2>1, <2>2 DEF Follows
  <1>10. \A i \in Pending : Twins(obligations[i], obligations'[i])
    BY <1>1, <1>3 DEF Pending
  <1> QED BY <1>1, <1>3, <1>4, <1>5, <1>6, <1>7, <1>8, <1>9, <1>10

LEMMA DeferredGrows ==
  ASSUME deferred \in Seq(Variables), Variables \subseteq Variables'
  PROVE  deferred \in Seq(Variables')
  BY SeqMonotonic

LEMMA RequireEqInvariant ==
  ASSUME IInv, NEW v \in 1 .. VarBound, NEW term \in Terms(egraph), RequireEq(v, term)
  PROVE  IInv'
  <1> DEFINE out == Unify(Start(egraph), v, term)
             first == IF IsClass(term) THEN RecoverType(Start(egraph), term[2]) ELSE Start(egraph)
             caught == IF out.failure # "domain" THEN Start(egraph) ELSE RecoverType(first, v)
             committed == IF out.failure = "none" THEN out ELSE caught
  <1>1. GraphOK(egraph) /\ v \in 1 .. egraph.size
    BY BodyAssumption DEF IInv, GraphOK
  <1>2. Follows(egraph, Start(egraph)) /\ Start(egraph).egraph = egraph
    BY <1>1, StartFollows DEF Start
  <1>3. Follows(egraph, out)
    BY <1>1, <1>2, UnifyFollows
  <1>4. Follows(egraph, first) /\ first.egraph.size = egraph.size
    <2>1. CASE IsClass(term)
      <3>1. term[2] \in 1 .. egraph.size
        BY <2>1 DEF Terms, IsClass
      <3> QED BY <1>1, <1>2, <2>1, <3>1, RecoverFollows
    <2>2. CASE ~ IsClass(term)
      BY <1>2, <2>2
    <2> QED BY <2>1, <2>2
  <1>5. Follows(egraph, RecoverType(first, v))
    BY <1>1, <1>4, RecoverFollows
  <1>6. Follows(egraph, committed)
    BY <1>2, <1>3, <1>5
  <1>7. /\ pc = "body" /\ Publish(committed, Wake(obligations, committed.wakes))
        /\ UNCHANGED <<waiting, awaiting, deferred, pc, after, todo, unresolved, answered,
                       errorSlots, reports, condemned>>
    BY DEF RequireEq, BodyStep
  <1> HIDE DEF committed
  <1>8. /\ GraphOK(egraph') /\ AllOK(egraph', DOMAIN reports', obligations')
        /\ Accounted(obligations', reports')
        /\ Pending' = Pending /\ Variables \subseteq Variables' /\ pendingWakes' \subseteq Variables'
        /\ \A s \in errorSlots : ~ IsInferVar(egraph', s)
    BY <1>6, <1>7, PublishStep
  <1>9. Shape'
    <2>1. deferred \in Seq(Variables')
      BY <1>8, DeferredGrows DEF IInv, Shape
    <2> QED BY <1>7, <1>8, <2>1 DEF IInv, Shape
  <1>10. Queues' /\ Expelled' /\ Waits' /\ Clean'
    BY <1>7, <1>8 DEF IInv, Queues, Expelled, Waits, Clean
  <1> QED BY <1>8, <1>9, <1>10 DEF IInv

LEMMA BodyVariable ==
  ASSUME GraphOK(egraph)
  PROVE  1 .. VarBound \subseteq Variables
  BY BodyAssumption DEF GraphOK, Variables

LEMMA DeferNeverInvariant ==
  ASSUME IInv, NEW v \in 1 .. VarBound, DeferNever(v)
  PROVE  IInv'
  <1>1. v \in Variables /\ egraph.root[v] \in Variables /\ deferred \in Seq(Variables)
    <2>1. v \in Variables /\ deferred \in Seq(Variables)
      BY BodyVariable DEF IInv, Shape
    <2> QED BY <2>1 DEF IInv, GraphOK, Variables
  <1>2. deferred' \in Seq(Variables)
    BY <1>1 DEF DeferNever
  <1>3. /\ pc = "body"
        /\ UNCHANGED <<egraph, obligations, pendingWakes, waiting, awaiting, pc, after, todo,
                       unresolved, answered, errorSlots, reports, condemned>>
    BY DEF DeferNever, BodyStep
  <1>4. Pending' = Pending /\ Variables' = Variables
    BY <1>3 DEF Pending, Variables
  <1>5. Shape'
    BY <1>2, <1>3, <1>4 DEF IInv, Shape
  <1> QED BY <1>3, <1>4, <1>5 DEF IInv, Queues, Expelled, Waits, Clean

(* What a submission adds is an obligation, or provenance for one.         *)
LEMMA SubmitInvariant ==
  ASSUME IInv, NEW s \in Submissions, SubmitObligation(s)
  PROVE  IInv'
  <1> DEFINE p == Len(reports) + 1
             P == DOMAIN reports \cup {p}
             o == [kind |-> s.kind, goal |-> s.goal, x |-> s.x, y |-> s.y, slot |-> s.slot,
                   watch |-> IF s.slot = NoSlot THEN {} ELSE Inputs(s) \cup {s.slot},
                   provs |-> {p}, state |-> "Ready", stalledOn |-> OpenRoots(egraph, Inputs(s)),
                   attempted |-> Unattempted, ended |-> "no"]
             same == {i \in Pending : SameDedupKey(egraph, obligations[i], o)}
             m == Min(same)
             joined == [obligations EXCEPT ![m].provs = @ \cup {p}]
  <1>1. /\ pc = "body" /\ reports' = Append(reports, 0)
        /\ obligations' = IF same = {} THEN Append(obligations, o) ELSE joined
        /\ UNCHANGED <<egraph, pendingWakes, waiting, awaiting, deferred, pc, after, todo,
                       unresolved, answered, errorSlots, condemned, steps>>
    BY DEF SubmitObligation, BodyStep
  <1>2. reports \in Seq(Nat) /\ obligations \in Seq(Record) /\ GraphOK(egraph)
    BY DEF IInv, Shape, AllOK
  <1>3. /\ p \in Nat /\ p \notin DOMAIN reports /\ P \subseteq Nat
        /\ reports' \in Seq(Nat) /\ DOMAIN reports' = P
        /\ \A q \in DOMAIN reports : reports'[q] = reports[q]
        /\ reports'[p] = 0
    BY <1>1, <1>2
  <1>4. OneOK(egraph, P, o)
    <2>1. /\ s.kind \in {"Prove", "Normalize"} /\ s.x \in 1 .. VarBound /\ s.y \in 1 .. VarBound
          /\ s.slot \in {NoSlot} \cup 1 .. VarBound /\ (s.kind = "Normalize" => s.slot \in {NoSlot, s.y})
      BY BodyAssumption
    <2>2. s.goal \in Goals
      BY DEF Goals
    <2>3. Inputs(s) \subseteq 1 .. VarBound /\ Inputs(o) = Inputs(s)
      BY <2>1 DEF Inputs
    <2>4. OpenRoots(egraph, Inputs(s)) \subseteq 1 .. egraph.size /\ 1 .. egraph.size \subseteq Nat
      <3>1. 1 .. VarBound \subseteq 1 .. egraph.size /\ 1 .. egraph.size \subseteq Nat
        BY <1>2, BodyAssumption DEF GraphOK
      <3>2. \A v \in 1 .. egraph.size : egraph.root[v] \in 1 .. egraph.size
        BY <1>2 DEF GraphOK
      <3> QED BY <2>3, <3>1, <3>2 DEF OpenRoots
    <2>5. (IF s.slot = NoSlot THEN {} ELSE Inputs(s) \cup {s.slot}) \in SUBSET (1 .. VarBound)
      BY <2>1, <2>3
    <2>6. o \in Record
      <3>1. {p} \in SUBSET Nat /\ OpenRoots(egraph, Inputs(s)) \in SUBSET Nat
            /\ Unattempted \in Nat \cup {Unattempted}
        BY <1>3, <2>4
      <3> QED BY <2>1, <2>2, <2>5, <3>1 DEF Record
    <2>7. Guarded(o)
      BY <2>1, <2>3 DEF Guarded
    <2>8. o.state = "Ready" /\ o.ended = "no" /\ o.provs \subseteq P /\ o.stalledOn \subseteq 1 .. egraph.size
      BY <2>4
    <2> HIDE DEF o
    <2> QED BY <2>6, <2>7, <2>8 DEF OneOK
  <1>5. \A i \in DOMAIN obligations : OneOK(egraph, P, obligations[i]) /\ p \notin obligations[i].provs
    <2>1. \A i \in DOMAIN obligations : OneOK(egraph, DOMAIN reports, obligations[i])
      BY DEF IInv, AllOK
    <2> QED BY <1>3, <2>1 DEF OneOK
  <1>6. DOMAIN obligations = 1 .. Len(obligations) /\ Len(obligations) \in Nat
    BY <1>2, LenProperties
  <1>7. /\ \A q \in DOMAIN reports : \E i \in Kept(obligations) :
              q \in obligations[i].provs /\ reports[q] = (IF obligations[i].ended = "failed" THEN 1 ELSE 0)
        /\ \A i, j \in Kept(obligations) : i # j => obligations[i].provs \cap obligations[j].provs = {}
    BY DEF IInv, Accounted
  <1>8. /\ AllOK(egraph, P, obligations') /\ Accounted(obligations', reports') /\ Pending \subseteq Pending'
    <2>1. CASE same = {}
      <3> DEFINE k == Len(obligations) + 1
      <3> HIDE DEF o
      <3>1. o \in Record /\ o.provs = {p} /\ o.ended = "no" /\ o.state = "Ready"
        BY <1>4 DEF OneOK, o
      <3>2. /\ obligations' \in Seq(Record) /\ DOMAIN obligations' = DOMAIN obligations \cup {k}
            /\ k \notin DOMAIN obligations
            /\ \A i \in DOMAIN obligations : obligations'[i] = obligations[i]
            /\ obligations'[k] = o
        BY <1>1, <1>2, <1>6, <2>1, <3>1
      <3> HIDE DEF k
      <3>3. AllOK(egraph, P, obligations')
        BY <1>4, <1>5, <3>2 DEF AllOK
      <3>4. Kept(obligations') = Kept(obligations) \cup {k} /\ k \notin Kept(obligations)
        BY <3>1, <3>2 DEF Kept
      <3>5. \A i \in Kept(obligations) : obligations'[i] = obligations[i] /\ p \notin obligations[i].provs
        BY <1>5, <3>2 DEF Kept
      <3>6. Accounted(obligations', reports')
        <4>1. ASSUME NEW q \in DOMAIN reports'
              PROVE  \E i \in Kept(obligations') : q \in obligations'[i].provs
                       /\ reports'[q] = (IF obligations'[i].ended = "failed" THEN 1 ELSE 0)
          <5>1. CASE q = p
            BY <1>3, <3>1, <3>2, <3>4, <5>1
          <5>2. CASE q # p
            BY <1>3, <1>7, <3>4, <3>5, <5>2
          <5> QED BY <5>1, <5>2
        <4>2. ASSUME NEW i \in Kept(obligations'), NEW j \in Kept(obligations'), i # j
              PROVE  obligations'[i].provs \cap obligations'[j].provs = {}
          BY <1>5, <1>7, <3>1, <3>2, <3>4, <3>5, <4>2
        <4> QED BY <4>1, <4>2 DEF Accounted
      <3>7. Pending \subseteq Pending'
        BY <3>2 DEF Pending
      <3> QED BY <3>3, <3>6, <3>7
    <2>2. CASE same # {}
      <3>1. m \in Pending
        <4>1. same \in SUBSET Nat
          BY <1>6 DEF Pending
        <4>2. m \in same
          BY <2>2, <4>1, MinIsLeast
        <4> QED BY <4>2
      <3> HIDE DEF o, same, m
      <3>2. m \in DOMAIN obligations /\ obligations[m] \in Record /\ OneOK(egraph, P, obligations[m])
            /\ obligations[m].ended = "no" /\ obligations[m].state # "Terminal"
        BY <1>5, <3>1 DEF Pending, OneOK
      <3> DEFINE n == [obligations[m] EXCEPT !.provs = @ \cup {p}]
      <3>3. /\ n \in Record /\ n.provs = obligations[m].provs \cup {p} /\ Inputs(n) = Inputs(obligations[m])
            /\ n.kind = obligations[m].kind /\ n.y = obligations[m].y
            /\ n.slot = obligations[m].slot /\ n.watch = obligations[m].watch
            /\ n.state = obligations[m].state /\ n.ended = "no" /\ n.stalledOn = obligations[m].stalledOn
        BY <1>3, <3>2 DEF Record, Inputs
      <3>4. /\ DOMAIN joined = DOMAIN obligations /\ joined = [i \in DOMAIN joined |-> joined[i]]
            /\ joined[m] = n /\ \A i \in DOMAIN obligations \ {m} : joined[i] = obligations[i]
        BY <3>2
      <3> HIDE DEF n, joined
      <3>5. OneOK(egraph, P, n)
        <4>1. Guarded(n) /\ (n.state = "Stalled" => Healthy(egraph, n))
          BY <3>2, <3>3 DEF OneOK, Guarded, Healthy
        <4> QED BY <3>2, <3>3, <4>1 DEF OneOK
      <3>6. obligations' = joined
        BY <1>1, <2>2
      <3>7. joined \in Seq(Record)
        <4>1. \A i \in DOMAIN joined : joined[i] \in Record
          BY <1>5, <3>3, <3>4 DEF OneOK
        <4> QED BY <1>2, <3>4, <4>1, SequenceOf
      <3>8. AllOK(egraph, P, joined)
        BY <1>5, <3>4, <3>5, <3>7 DEF AllOK
      <3>9. /\ Kept(joined) = Kept(obligations) /\ m \in Kept(joined)
            /\ \A i \in Kept(joined) : /\ joined[i].ended = obligations[i].ended
                                       /\ joined[i].provs = obligations[i].provs \cup (IF i = m THEN {p} ELSE {})
                                       /\ p \notin obligations[i].provs
        BY <1>5, <3>2, <3>3, <3>4 DEF Kept
      <3>10. Accounted(joined, reports')
        <4>1. ASSUME NEW q \in DOMAIN reports'
              PROVE  \E i \in Kept(joined) : q \in joined[i].provs
                       /\ reports'[q] = (IF joined[i].ended = "failed" THEN 1 ELSE 0)
          <5>1. CASE q = p
            <6>1. p \in joined[m].provs /\ joined[m].ended = "no"
              BY <3>2, <3>9
            <6> QED BY <1>3, <3>9, <5>1, <6>1
          <5>2. CASE q # p
            BY <1>3, <1>7, <3>9, <5>2
          <5> QED BY <5>1, <5>2
        <4>2. ASSUME NEW i \in Kept(joined), NEW j \in Kept(joined), i # j
              PROVE  joined[i].provs \cap joined[j].provs = {}
          BY <1>7, <3>9, <4>2
        <4> QED BY <4>1, <4>2 DEF Accounted
      <3>11. Pending' = Pending
        BY <3>2, <3>3, <3>4, <3>6 DEF Pending
      <3> QED BY <3>6, <3>8, <3>10, <3>11
    <2> QED BY <2>1, <2>2
  <1>9. Variables' = Variables
    BY <1>1 DEF Variables
  <1>10. AllOK(egraph', DOMAIN reports', obligations') /\ GraphOK(egraph')
    BY <1>1, <1>2, <1>3, <1>8
  <1>11. Shape'
    BY <1>1, <1>3, <1>9 DEF IInv, Shape
  <1>12. Queues' /\ Expelled' /\ Waits' /\ Clean'
    BY <1>1, <1>8, <1>9 DEF IInv, Queues, Expelled, Waits, Clean
  <1> QED BY <1>8, <1>10, <1>11, <1>12 DEF IInv

LEMMA AwaitInvariant ==
  ASSUME IInv, NEW v \in MayAwait, Await(v)
  PROVE  IInv'
  <1>1. /\ pc' = "suspended" /\ awaiting' = v /\ waiting' = waiting \cup {egraph.root[v]}
        /\ IsInferVar(egraph, v)
        /\ UNCHANGED <<egraph, obligations, pendingWakes, deferred, after, todo, unresolved,
                       answered, errorSlots, reports, condemned, steps>>
    BY DEF Await
  <1>2. v \in Variables /\ egraph.root[v] \in Variables
    <2>1. v \in Variables
      BY BodyVariable, BodyAssumption DEF IInv
    <2> QED BY <2>1 DEF IInv, GraphOK, Variables
  <1>3. Pending' = Pending /\ Variables' = Variables
    BY <1>1 DEF Pending, Variables
  <1>4. Shape'
    BY <1>1, <1>2, <1>3 DEF IInv, Shape
  <1>5. Waits'
    BY <1>1, <1>2, <1>3 DEF Waits
  <1> QED BY <1>1, <1>3, <1>4, <1>5 DEF IInv, Queues, Expelled, Clean

LEMMA ResumeInvariant ==
  ASSUME IInv, Resume
  PROVE  IInv'
  <1>0. awaiting \in Variables
    BY DEF IInv, Shape, Resume
  <1>1. /\ pc = "body"
        /\ UNCHANGED <<egraph, obligations, pendingWakes, deferred, after, todo, unresolved,
                       answered, errorSlots, reports, condemned, steps>>
    BY DEF Resume
  <1>2. \/ /\ IsInferVar(egraph, awaiting) /\ waiting' = waiting \cup {egraph.root[awaiting]}
           /\ pc' = "suspended" /\ awaiting' = awaiting
        \/ waiting' = waiting /\ pc' = "body" /\ awaiting' = 0
    BY <1>1 DEF Resume
  <1>3. Pending' = Pending /\ Variables' = Variables
    BY <1>1 DEF Pending, Variables
  <1>4. egraph.root[awaiting] \in Variables
    BY <1>0 DEF IInv, GraphOK, Variables
  <1>5. Shape'
    BY <1>1, <1>2, <1>3, <1>4 DEF IInv, Shape
  <1>6. Waits'
    BY <1>0, <1>1, <1>2, <1>3 DEF Waits
  <1> QED BY <1>1, <1>2, <1>3, <1>5, <1>6 DEF IInv, Queues, Expelled, Clean

(* The task is suspended without a wake only after every wake was flushed. *)
LEMMA SuspendedInvariant ==
  ASSUME IInv, Suspended
  PROVE  IInv'
  <1>1. /\ pc = "suspended" /\ waiting' = waiting \ pendingWakes /\ pendingWakes' = {}
        /\ pc' = IF waiting \cap pendingWakes # {} THEN "body" ELSE "quiescent"
        /\ UNCHANGED <<egraph, obligations, awaiting, deferred, after, todo, unresolved,
                       answered, errorSlots, reports, condemned, steps>>
    BY DEF Suspended, Flush
  <1>2. Pending' = Pending /\ Variables' = Variables
    BY <1>1 DEF Pending, Variables
  <1>3. Shape'
    BY <1>1, <1>2 DEF IInv, Shape
  <1>4. Waits'
    BY <1>1, <1>2 DEF IInv, Waits
  <1> QED BY <1>1, <1>2, <1>3, <1>4 DEF IInv, Queues, Expelled, Clean

LEMMA RecoveredInvariant ==
  ASSUME IInv, Recovered
  PROVE  IInv'
  <1>1. /\ pc = "recovering" /\ waiting' = waiting \ pendingWakes /\ pendingWakes' = {}
        /\ pc' = IF waiting \cap pendingWakes # {} THEN "body" ELSE "deadlock"
        /\ UNCHANGED <<egraph, obligations, awaiting, deferred, after, todo, unresolved,
                       answered, errorSlots, reports, condemned, steps>>
    BY DEF Recovered, Flush
  <1>2. Pending' = Pending /\ Variables' = Variables /\ Undecidable' = Undecidable
    BY <1>1 DEF Pending, Variables, Undecidable
  <1>3. Shape'
    BY <1>1, <1>2 DEF IInv, Shape
  <1>4. Waits'
    BY <1>1, <1>2 DEF IInv, Waits
  <1> QED BY <1>1, <1>2, <1>3, <1>4 DEF IInv, Queues, Expelled, Clean

(* Either a target the task waits for is decided and wakes it, or none     *)
(* could have been.                                                        *)
LEMMA QuiescentInvariant ==
  ASSUME IInv, Quiescent
  PROVE  IInv'
  <1> DEFINE out == NeverFallback(waiting)
             r == egraph.root[awaiting]
  <1>1. /\ pc = "quiescent" /\ Publish(out, Wake(obligations, out.wakes))
        /\ pc' = IF out.failure = "none" THEN "recovering" ELSE "fallback panic"
        /\ UNCHANGED <<waiting, awaiting, deferred, after, todo, unresolved, answered,
                       errorSlots, reports, condemned, steps>>
    BY DEF Quiescent
  <1>2. GraphOK(egraph) /\ deferred \in Seq(Variables)
    BY DEF IInv, Shape
  <1>3. /\ Follows(egraph, out) /\ out.egraph.root = egraph.root
        /\ \A v \in Variables : egraph.root[v] \notin out.wakes => out.egraph.type[v] = egraph.type[v]
        /\ out.failure = "none" => \A n \in Due(waiting) : egraph.root[deferred[n]] \in out.wakes
        /\ out.egraph.domain = egraph.domain
        /\ out.failure # "none" =>
             \E v \in ToSet(deferred) :
               IsInferVar(out.egraph, v) /\ ~ Admits(egraph.domain[egraph.root[v]], "Never")
    BY <1>2, NeverFallbackFollows
  <1>4. IsInferVar(egraph, awaiting) /\ r \in waiting /\ awaiting \in Variables
    BY <1>1 DEF IInv, Waits
  <1> HIDE DEF out
  <1>5. /\ GraphOK(egraph') /\ AllOK(egraph', DOMAIN reports', obligations')
        /\ Accounted(obligations', reports')
        /\ Pending' = Pending /\ Variables \subseteq Variables' /\ pendingWakes' \subseteq Variables'
        /\ \A s \in errorSlots : ~ IsInferVar(egraph', s)
    BY <1>1, <1>3, PublishStep
  <1>6. egraph' = out.egraph /\ pendingWakes' = pendingWakes \cup out.wakes
    BY <1>1 DEF Publish
  <1>7. ASSUME out.failure = "none", r \notin out.wakes PROVE Undecidable'
    <2>1. egraph'.type[awaiting] = Open /\ egraph'.root = egraph.root
      BY <1>3, <1>4, <1>6, <1>7 DEF IsInferVar
    <2>2. ASSUME NEW n \in DOMAIN deferred PROVE egraph.root[deferred[n]] # r
      <3>1. SUFFICES ASSUME egraph.root[deferred[n]] = r PROVE FALSE
        OBVIOUS
      <3>2. deferred[n] \in Variables
        BY <1>2
      <3>3. egraph.type[deferred[n]] = egraph.type[r] /\ egraph.type[awaiting] = egraph.type[r]
        BY <1>2, <1>4, <3>1, <3>2 DEF GraphOK, Variables
      <3>4. IsInferVar(egraph, deferred[n])
        BY <1>4, <3>1, <3>3 DEF IsInferVar
      <3>5. n \in Due(waiting)
        BY <1>4, <3>1, <3>4 DEF Due
      <3> QED BY <1>3, <1>7, <3>1, <3>5
    <2>3. \A v \in ToSet(deferred) : egraph.root[v] # r
      BY <2>2 DEF ToSet
    <2> QED BY <1>1, <2>1, <2>3 DEF Undecidable
  <1>8. Waits'
    <2>1. pc' = "recovering" => waiting' \cap pendingWakes' # {} \/ Undecidable'
      BY <1>1, <1>4, <1>6, <1>7
    <2>2. pc' = "fallback panic" => Refusal'
      BY <1>1, <1>3, <1>6 DEF Refusal
    <2> QED BY <1>1, <1>4, <1>5, <2>1, <2>2 DEF Waits
  <1>9. Shape'
    <2>1. deferred \in Seq(Variables')
      BY <1>2, <1>5, DeferredGrows
    <2> QED BY <1>1, <1>5, <2>1 DEF IInv, Shape
  <1>10. Queues' /\ Expelled' /\ Clean'
    BY <1>1, <1>5 DEF IInv, Queues, Expelled, Clean
  <1> QED BY <1>5, <1>8, <1>9, <1>10 DEF IInv

LEMMA BodyEndInvariant ==
  ASSUME IInv, BodyEnd
  PROVE  IInv'
  <1>1. /\ pc' = "process" /\ after' = "fallback" /\ waiting' = waiting \ pendingWakes /\ pendingWakes' = {}
        /\ UNCHANGED <<egraph, obligations, awaiting, deferred, todo, unresolved, answered,
                       errorSlots, reports, condemned>>
    BY DEF BodyEnd
  <1>2. Pending' = Pending /\ Variables' = Variables
    BY <1>1 DEF Pending, Variables
  <1>3. Shape' /\ Waits'
    BY <1>1, <1>2 DEF IInv, Shape, Waits
  <1> QED BY <1>1, <1>2, <1>3 DEF IInv, Queues, Expelled, Clean

(* A round ends when nothing is ready: what is pending then is stalled,    *)
(* and healthy.                                                            *)
LEMMA ProcessReadyInvariant ==
  ASSUME IInv, ProcessReady
  PROVE  IInv'
  <1> DEFINE ready == {i \in DOMAIN obligations : obligations'[i].state = "Ready"}
  <1>1. /\ obligations' = Deduplicated /\ todo' = ready /\ pc' = IF ready = {} THEN after ELSE "attempt"
        /\ UNCHANGED <<egraph, pendingWakes, waiting, awaiting, deferred, after, unresolved,
                       answered, errorSlots, reports, condemned, steps>>
    BY DEF ProcessReady
  <1>2. GraphOK(egraph) /\ AllOK(egraph, DOMAIN reports, obligations) /\ Accounted(obligations, reports)
        /\ DOMAIN reports \subseteq Nat
    <2>1. reports \in Seq(Nat)
      BY DEF IInv, Shape
    <2> QED BY <2>1 DEF IInv
  <1>3. AllOK(egraph, DOMAIN reports, Deduplicated) /\ DOMAIN Deduplicated = DOMAIN obligations
        /\ Accounted(Deduplicated, reports)
    BY <1>2, DeduplicatedOK, DeduplicatedBooks
  <1>4. Variables' = Variables /\ ready \subseteq Pending'
    BY <1>1, <1>3 DEF Variables, Pending
  <1>5. Shape'
    BY <1>1, <1>4 DEF IInv, Shape
  <1>6. after \in {"fallback", "sweep", "terminal"}
    BY DEF IInv, Shape
  <1>7. Clean'
    <2>1. SUFFICES ASSUME ready = {} PROVE \A i \in Pending' : Healthy(egraph, obligations'[i])
      BY <1>1 DEF Clean
    <2>2. ASSUME NEW i \in Pending' PROVE Healthy(egraph, obligations'[i])
      <3>1. i \in DOMAIN obligations /\ OneOK(egraph, DOMAIN reports, obligations'[i])
            /\ obligations'[i].state # "Terminal" /\ obligations'[i].state # "Ready"
        BY <1>1, <1>3, <2>1 DEF Pending, AllOK
      <3>2. obligations'[i].state = "Stalled"
        BY <3>1 DEF OneOK, Record
      <3> QED BY <3>1, <3>2 DEF OneOK
    <2> QED BY <2>2
  <1> HIDE DEF ready
  <1>8. Queues' /\ Waits' /\ Expelled'
    BY <1>1, <1>4, <1>6 DEF IInv, Queues, Waits, Expelled
  <1> QED BY <1>1, <1>2, <1>3, <1>5, <1>7, <1>8 DEF IInv

LEMMA DischargeInvariant ==
  ASSUME IInv, Discharge
  PROVE  IInv'
  <1>1. /\ obligations' = Deduplicated /\ pc' = "discharge"
        /\ todo' = {i \in DOMAIN obligations : obligations'[i].state # "Terminal"}
        /\ UNCHANGED <<egraph, pendingWakes, waiting, awaiting, deferred, after, unresolved,
                       answered, errorSlots, reports, condemned, steps>>
    BY DEF Discharge
  <1>2. GraphOK(egraph) /\ AllOK(egraph, DOMAIN reports, obligations) /\ Accounted(obligations, reports)
        /\ DOMAIN reports \subseteq Nat
    <2>1. reports \in Seq(Nat)
      BY DEF IInv, Shape
    <2> QED BY <2>1 DEF IInv
  <1>3. AllOK(egraph, DOMAIN reports, Deduplicated) /\ DOMAIN Deduplicated = DOMAIN obligations
        /\ Accounted(Deduplicated, reports)
    BY <1>2, DeduplicatedOK, DeduplicatedBooks
  <1>4. Variables' = Variables /\ todo' = Pending'
    BY <1>1, <1>3 DEF Variables, Pending
  <1>5. Shape'
    BY <1>1, <1>4 DEF IInv, Shape
  <1>6. Queues' /\ Waits' /\ Expelled' /\ Clean'
    BY <1>1, <1>4 DEF IInv, Queues, Waits, Expelled, Clean
  <1> QED BY <1>1, <1>2, <1>3, <1>5, <1>6 DEF IInv

LEMMA SweepControlInvariant ==
  ASSUME IInv, PassDone \/ Spare \/ SweepDone \/ Finish
  PROVE  IInv'
  <1>1. /\ UNCHANGED <<egraph, obligations, awaiting, deferred, todo, errorSlots, reports, condemned>>
        /\ waiting' \subseteq waiting /\ pendingWakes' \subseteq pendingWakes /\ unresolved' \subseteq unresolved
        /\ after' \in {after, "terminal"}
        /\ pc' \in {"process", "sweep", "done"}
        /\ pc' = "sweep" => pc = "sweep"
        /\ pc' = "done" => pc = "discharge" /\ todo = {}
    BY DEF PassDone, Spare, SweepDone, Finish
  <1>2. Pending' = Pending /\ Variables' = Variables
    BY <1>1 DEF Pending, Variables
  <1>3. Shape'
    BY <1>1, <1>2 DEF IInv, Shape
  <1>4. Queues'
    BY <1>1, <1>2 DEF IInv, Queues
  <1>5. Waits' /\ Expelled' /\ Clean'
    BY <1>1, <1>2 DEF IInv, Waits, Expelled, Clean
  <1> QED BY <1>1, <1>3, <1>4, <1>5 DEF IInv

(* The fallback binds to ! and leaves every operand as healthy as it was.  *)
LEMMA FallbackInvariant ==
  ASSUME IInv, Fallback
  PROVE  IInv'
  <1> DEFINE out == NeverFallback(Variables)
             open == {v \in DOMAIN out.egraph.root : out.egraph.root[v] = v /\ out.egraph.type[v] = Open}
  <1>1. /\ pc = "fallback" /\ Publish(out, Wake(obligations, out.wakes)) /\ unresolved' = open
        /\ pc' = IF out.failure = "none" THEN "sweep" ELSE "fallback panic"
        /\ UNCHANGED <<waiting, awaiting, deferred, after, todo, answered, errorSlots, reports,
                       condemned, steps>>
    BY DEF Fallback
  <1>2. GraphOK(egraph) /\ deferred \in Seq(Variables)
    BY DEF IInv, Shape
  <1>3. /\ Follows(egraph, out) /\ NoErrors(egraph, out)
        /\ out.egraph.root = egraph.root /\ out.egraph.domain = egraph.domain
        /\ out.failure # "none" =>
             \E v \in ToSet(deferred) :
               IsInferVar(out.egraph, v) /\ ~ Admits(egraph.domain[egraph.root[v]], "Never")
    BY <1>2, NeverFallbackFollows
  <1> HIDE DEF out
  <1>4. /\ GraphOK(egraph') /\ AllOK(egraph', DOMAIN reports', obligations')
        /\ Accounted(obligations', reports')
        /\ Pending' = Pending /\ Variables \subseteq Variables' /\ pendingWakes' \subseteq Variables'
        /\ \A s \in errorSlots : ~ IsInferVar(egraph', s)
        /\ \A i \in Pending : Twins(obligations[i], obligations'[i])
    BY <1>1, <1>3, PublishStep
  <1>5. egraph' = out.egraph
    BY <1>1 DEF Publish
  <1>6. unresolved' \subseteq Variables'
    BY <1>1, <1>4, <1>5 DEF GraphOK, Variables
  <1>7. Shape'
    <2>1. deferred \in Seq(Variables')
      BY <1>2, <1>4, DeferredGrows
    <2> QED BY <1>1, <1>4, <1>6, <2>1 DEF IInv, Shape
  <1>8. Clean'
    <2>1. ASSUME NEW i \in Pending PROVE Healthy(egraph', obligations'[i])
      <3>1. Healthy(egraph, obligations[i]) /\ Twins(obligations[i], obligations'[i])
        BY <1>1, <1>4 DEF IInv, Clean
      <3>2. Inputs(obligations'[i]) = Inputs(obligations[i]) /\ obligations'[i].slot = obligations[i].slot
        BY <3>1 DEF Twins, Inputs
      <3>3. Inputs(obligations[i]) \subseteq 1 .. egraph.size
        <4>1. obligations[i] \in Record
          BY DEF IInv, AllOK, Pending, OneOK
        <4> QED BY <1>2, <4>1, InputsInStore
      <3> QED BY <1>3, <1>5, <3>1, <3>2, <3>3 DEF Healthy, NoErrors
    <2> QED BY <1>4, <2>1 DEF Clean
  <1>9. pc' = "fallback panic" => Refusal'
    BY <1>1, <1>3, <1>5 DEF Refusal
  <1>10. Queues' /\ Waits' /\ Expelled'
    BY <1>1, <1>4, <1>9 DEF IInv, Queues, Waits, Expelled
  <1> QED BY <1>4, <1>7, <1>8, <1>10 DEF IInv

LEMMA CondemnInvariant ==
  ASSUME IInv, Condemn
  PROVE  IInv'
  <1> DEFINE v == Min(unresolved)
             out == InstallError(Start(egraph), v)
  <1>1. /\ Publish(out, Wake(obligations, out.wakes)) /\ condemned' = condemned \cup {v}
        /\ unresolved # {} /\ unresolved' \subseteq unresolved /\ pc' = "process" /\ after' = "sweep"
        /\ UNCHANGED <<waiting, awaiting, deferred, todo, answered, errorSlots, reports, steps>>
    BY DEF Condemn, AfterCondemn
  <1>2. GraphOK(egraph) /\ deferred \in Seq(Variables)
    BY DEF IInv, Shape
  <1>3. v \in Variables
    <2>1. unresolved \subseteq Variables
      BY DEF IInv, Shape
    <2>2. Variables \subseteq Nat
      BY <1>2 DEF Variables, GraphOK
    <2> QED BY <1>1, <2>1, <2>2, MinIsLeast
  <1>4. Follows(egraph, out)
    <2>1. Follows(egraph, Start(egraph)) /\ Start(egraph).egraph = egraph
      BY <1>2, StartFollows DEF Start
    <2> QED BY <1>2, <1>3, <2>1, RecoverFollows DEF Variables
  <1> HIDE DEF out, v
  <1>5. /\ GraphOK(egraph') /\ AllOK(egraph', DOMAIN reports', obligations')
        /\ Accounted(obligations', reports')
        /\ Pending' = Pending /\ Variables \subseteq Variables' /\ pendingWakes' \subseteq Variables'
        /\ \A s \in errorSlots : ~ IsInferVar(egraph', s)
    BY <1>1, <1>4, PublishStep
  <1>6. Shape'
    <2>1. deferred \in Seq(Variables')
      BY <1>2, <1>5, DeferredGrows
    <2> QED BY <1>1, <1>3, <1>5, <2>1 DEF IInv, Shape
  <1>7. Queues' /\ Waits' /\ Expelled' /\ Clean'
    BY <1>1, <1>5 DEF IInv, Queues, Waits, Expelled, Clean
  <1> QED BY <1>5, <1>6, <1>7 DEF IInv

-----------------------------------------------------------------------------
(* Attempts. *)

(* What of the obligation an attempt never changes.                        *)
Standing(o) ==
  /\ o \in Record /\ Twins(It, o) /\ o.state # "Terminal" /\ o.ended = "no"
  /\ Guarded(o) /\ o.provs \subseteq DOMAIN reports
  /\ o.stalledOn = OpenRoots(egraph, Inputs(o)) /\ o.stalledOn \subseteq Variables

LEMMA AttemptedOne ==
  ASSUME IInv, Attempting
  PROVE  /\ Min(todo) \in todo /\ Min(todo) \in Pending
         /\ Standing(It)
         /\ It.provs = obligations[Min(todo)].provs
         /\ obligations[Min(todo)].ended = "no"
  <1> DEFINE i == Min(todo)
             o == obligations[i]
  <1>1. i \in todo /\ i \in Pending
    <2>1. todo \subseteq Pending /\ todo # {}
      BY DEF Attempting, IInv, Queues
    <2>2. Pending \subseteq Nat
      <3>1. obligations \in Seq(Record)
        BY DEF IInv, AllOK
      <3>2. DOMAIN obligations = 1 .. Len(obligations) /\ Len(obligations) \in Nat
        BY <3>1, LenProperties
      <3> QED BY <3>2 DEF Pending
    <2> QED BY <2>1, <2>2, MinIsLeast
  <1>2. OneOK(egraph, DOMAIN reports, o) /\ o.state # "Terminal"
    BY <1>1 DEF IInv, AllOK, Pending
  <1>3. o \in Record /\ o.ended = "no" /\ o.provs \subseteq DOMAIN reports /\ Guarded(o)
    BY <1>2 DEF OneOK
  <1>4. GraphOK(egraph)
    BY DEF IInv
  <1>5. /\ It \in Record /\ Twins(o, It) /\ It.state = o.state /\ Inputs(It) = Inputs(o)
        /\ It.stalledOn = OpenRoots(egraph, Inputs(It)) /\ It.stalledOn \subseteq Variables
    BY <1>3, <1>4, RecanonicalizeOK DEF It, Variables
  <1> HIDE DEF i, o
  <1>6. Guarded(It) /\ Twins(It, It)
    BY <1>3, <1>5 DEF Guarded, Twins
  <1>7. Standing(It)
    BY <1>2, <1>3, <1>5, <1>6 DEF Standing, Twins
  <1> QED BY <1>1, <1>3, <1>5, <1>7 DEF i, o, Twins

(* The attempted obligation is put back, or ends with or without blame.    *)
LEMMA ConcludeInvariant ==
  ASSUME IInv, Attempting, NEW out, Follows(egraph, out),
         NEW o, OneOK(out.egraph, DOMAIN reports, o), o.provs = It.provs,
         Terminally => o.state = "Terminal",
         Conclude(out, o),
         \/ o.ended \in {"no", "proven", "recovered"} /\ reports' = reports
         \/ /\ o.ended = "failed"
            /\ reports' = [p \in DOMAIN reports |-> IF p \in It.provs THEN reports[p] + 1 ELSE reports[p]],
         errorSlots' \subseteq 1 .. VarBound,
         \A s \in errorSlots' \ errorSlots : ~ IsInferVar(out.egraph, s)
  PROVE  IInv'
  <1> DEFINE i == Min(todo)
             W == Wake(obligations, out.wakes)
             next == [W EXCEPT ![i] = o]
  <1>1. /\ egraph' = out.egraph /\ pendingWakes' = pendingWakes \cup out.wakes
        /\ obligations' = next /\ todo' = todo \ {i}
        /\ UNCHANGED <<waiting, awaiting, deferred, pc, after, unresolved, condemned, steps>>
    BY DEF Conclude, Publish
  <1>2. /\ i \in todo /\ i \in Pending /\ It.provs = obligations[i].provs /\ obligations[i].ended = "no"
    BY AttemptedOne
  <1>3. /\ GraphOK(egraph) /\ AllOK(egraph, DOMAIN reports, obligations)
        /\ Accounted(obligations, reports) /\ i \in DOMAIN obligations
    BY <1>2 DEF IInv, Pending
  <1>4. /\ AllOK(out.egraph, DOMAIN reports, W) /\ DOMAIN W = DOMAIN obligations
        /\ \A j \in DOMAIN obligations : Twins(obligations[j], W[j])
        /\ \A j \in DOMAIN obligations : OneOK(out.egraph, DOMAIN reports, W[j])
    BY <1>3, WakeOK
  <1>5. GraphOK(out.egraph) /\ egraph.size <= out.egraph.size /\ out.wakes \subseteq 1 .. out.egraph.size
    BY DEF Follows
  <1> HIDE DEF i, W
  <1>6. /\ DOMAIN next = DOMAIN obligations /\ next[i] = o /\ next = [j \in DOMAIN next |-> next[j]]
        /\ \A j \in DOMAIN obligations : j # i => next[j] = W[j]
    BY <1>3, <1>4
  <1> HIDE DEF next
  <1>7. AllOK(out.egraph, DOMAIN reports, next)
    <2>1. \A j \in DOMAIN next : OneOK(out.egraph, DOMAIN reports, next[j])
      BY <1>4, <1>6
    <2>2. next \in Seq(Record)
      <3>1. obligations \in Seq(Record) /\ \A j \in DOMAIN next : next[j] \in Record
        BY <1>3, <2>1 DEF AllOK, OneOK
      <3> QED BY <1>6, <3>1, SequenceOf
    <2> QED BY <2>1, <2>2 DEF AllOK
  <1>8. \A j \in DOMAIN obligations : /\ next[j].provs = obligations[j].provs
                                      /\ j # i => next[j].ended = obligations[j].ended
    BY <1>2, <1>4, <1>6 DEF Twins
  <1>9. Accounted(next, reports') /\ DOMAIN reports' = DOMAIN reports /\ reports' \in Seq(Nat)
    <2>1. CASE o.ended \in {"no", "proven", "recovered"} /\ reports' = reports
      <3>1. Accounted(next, reports)
        BY <1>2, <1>3, <1>6, <1>8, <2>1, BooksOfEnd
      <3> QED BY <2>1, <3>1 DEF IInv, Shape
    <2>2. CASE /\ o.ended = "failed"
               /\ reports' = [p \in DOMAIN reports |-> IF p \in It.provs THEN reports[p] + 1 ELSE reports[p]]
      <3>1. Accounted(next, [p \in DOMAIN reports |-> IF p \in obligations[i].provs THEN reports[p] + 1 ELSE reports[p]])
        BY <1>2, <1>3, <1>6, <1>8, <2>2, BooksOfFailure
      <3>2. reports \in Seq(Nat)
        BY DEF IInv, Shape
      <3>3. DOMAIN reports' = DOMAIN reports /\ reports' = [p \in DOMAIN reports' |-> reports'[p]]
            /\ \A p \in DOMAIN reports' : reports'[p] \in Nat
        BY <2>2, <3>2
      <3>4. reports' \in Seq(Nat)
        BY <3>2, <3>3, SequenceOf
      <3> QED BY <1>2, <2>2, <3>1, <3>3, <3>4
    <2> QED BY <2>1, <2>2
  <1>10. Variables \subseteq Variables'
    BY <1>1, <1>3, <1>5 DEF Variables, GraphOK
  <1>11. Shape'
    <2>1. deferred \in Seq(Variables')
      BY <1>10, DeferredGrows DEF IInv, Shape
    <2>2. pendingWakes' \subseteq Variables'
      <3>1. pendingWakes \subseteq Variables
        BY DEF IInv, Shape
      <3>2. out.wakes \subseteq Variables'
        BY <1>1, <1>5 DEF Variables
      <3> QED BY <1>1, <1>10, <3>1, <3>2
    <2> QED BY <1>1, <1>9, <1>10, <2>1, <2>2 DEF IInv, Shape
  <1>12. Queues'
    <2>1. \A j \in DOMAIN obligations : j # i => (next[j].state = "Terminal") = (obligations[j].state = "Terminal")
      BY <1>4, <1>6 DEF Twins
    <2>2. Pending' = IF o.state = "Terminal" THEN Pending \ {i} ELSE Pending
      BY <1>1, <1>2, <1>6, <2>1 DEF Pending
    <2>3. todo \subseteq Pending /\ (pc = "discharge" => Pending \subseteq todo)
      BY DEF IInv, Queues
    <2>4. pc' # "done" /\ pc' = pc
      BY <1>1 DEF Attempting
    <2> QED BY <1>1, <2>2, <2>3, <2>4 DEF Queues, Terminally
  <1>13. Expelled'
    <2>1. ASSUME NEW s \in errorSlots PROVE ~ IsInferVar(out.egraph, s)
      <3>1. s \in 1 .. egraph.size
        BY <1>3, BodyVariable DEF IInv, Shape, Variables
      <3>2. ~ IsInferVar(egraph, s)
        BY DEF IInv, Expelled
      <3> QED BY <3>1, <3>2 DEF Follows
    <2> QED BY <1>1, <2>1 DEF Expelled
  <1>14. Waits' /\ Clean'
    BY <1>1 DEF Waits, Clean, Attempting
  <1> QED BY <1>1, <1>5, <1>7, <1>9, <1>11, <1>12, <1>13, <1>14 DEF IInv

LEMMA StoreGrows ==
  ASSUME NEW g, GraphOK(g), NEW out, Follows(g, out)
  PROVE  1 .. g.size \subseteq 1 .. out.egraph.size
  <1>1. g.size \in Nat /\ out.egraph.size \in Nat /\ g.size <= out.egraph.size
    BY DEF Follows, GraphOK
  <1> QED BY <1>1

LEMMA RetainInvariant ==
  ASSUME IInv, Attempting, NEW out, Follows(egraph, out),
         NEW o, OneOK(out.egraph, DOMAIN reports, o), o.provs = It.provs,
         o.ended \in {"no", "proven"}, Terminally => o.state = "Terminal", Retain(out, o)
  PROVE  IInv'
  <1>1. Conclude(out, o) /\ errorSlots' = errorSlots /\ reports' = reports
    BY DEF Retain
  <1>2. errorSlots' \subseteq 1 .. VarBound
    BY <1>1 DEF IInv, Shape
  <1> QED BY <1>1, <1>2, ConcludeInvariant

(* The slot of an obligation that met an error is filled before the error  *)
(* node is recorded.                                                       *)
LEMMA ErrorInvariant ==
  ASSUME IInv, Attempting, NEW out, Follows(egraph, out), NEW o, Standing(o),
         NEW how, EndWithError(out, o, how),
         \/ how = "recovered" /\ reports' = reports
         \/ /\ how = "failed"
            /\ reports' = [p \in DOMAIN reports |-> IF p \in It.provs THEN reports[p] + 1 ELSE reports[p]]
  PROVE  IInv'
  <1> DEFINE recovered == RecoverSlot(out, o.slot)
             ended == [o EXCEPT !.state = "Terminal", !.ended = how]
  <1>1. Conclude(recovered, ended) /\ errorSlots' = errorSlots \cup SlotsOf(o)
    BY DEF EndWithError
  <1>2. o \in Record /\ o.slot \in {NoSlot} \cup 1 .. VarBound /\ GraphOK(egraph)
    BY DEF Standing, IInv, Record
  <1>3. ASSUME o.slot # NoSlot PROVE o.slot \in 1 .. out.egraph.size
    <2>1. o.slot \in 1 .. egraph.size
      BY <1>2, <1>3, BodyVariable DEF Variables
    <2> QED BY <1>2, <2>1, StoreGrows
  <1>4. Follows(egraph, recovered) /\ (o.slot # NoSlot => ~ IsInferVar(recovered.egraph, o.slot))
    <2>1. CASE o.slot = NoSlot
      BY <2>1 DEF RecoverSlot
    <2>2. CASE o.slot # NoSlot
      <3>1. Follows(egraph, RecoverType(out, o.slot)) /\ ~ IsInferVar(RecoverType(out, o.slot).egraph, o.slot)
        BY <1>2, <1>3, <2>2, RecoverFollows
      <3> QED BY <2>2, <3>1 DEF RecoverSlot
    <2> QED BY <2>1, <2>2
  <1>5. \A s \in errorSlots' \ errorSlots : ~ IsInferVar(recovered.egraph, s)
    BY <1>1, <1>4 DEF SlotsOf
  <1>6. errorSlots' \subseteq 1 .. VarBound
    BY <1>1, <1>2 DEF SlotsOf, IInv, Shape
  <1> HIDE DEF recovered
  <1>7. /\ ended \in Record /\ ended.state = "Terminal" /\ ended.ended = how /\ Inputs(ended) = Inputs(o)
        /\ ended.kind = o.kind /\ ended.slot = o.slot /\ ended.y = o.y /\ ended.watch = o.watch
        /\ ended.provs = o.provs /\ ended.stalledOn = o.stalledOn
    BY <1>2 DEF Record, Inputs
  <1> HIDE DEF ended
  <1>8. ended.provs = It.provs
    BY <1>7 DEF Standing, Twins
  <1>9. OneOK(recovered.egraph, DOMAIN reports, ended)
    <2>1. Guarded(ended)
      BY <1>7 DEF Standing, Guarded
    <2>2. ended.stalledOn \subseteq 1 .. recovered.egraph.size
      <3>1. 1 .. egraph.size \subseteq 1 .. recovered.egraph.size
        BY <1>2, <1>4, StoreGrows
      <3> QED BY <1>7, <3>1 DEF Standing, Variables
    <2> QED BY <1>7, <2>1, <2>2 DEF OneOK, Standing
  <1> QED BY <1>1, <1>4, <1>5, <1>6, <1>7, <1>8, <1>9, ConcludeInvariant

LEMMA FailInvariant ==
  ASSUME IInv, Attempting, NEW out, Follows(egraph, out), Fail(out, It)
  PROVE  IInv'
  <1>1. Standing(It)
    BY AttemptedOne
  <1> QED BY <1>1, ErrorInvariant DEF Fail

(* An attempt that met no error leaves an obligation with healthy inputs.  *)
LEMMA StaysOK ==
  ASSUME IInv, Attempting, ~ Poisoned(It),
         NEW out, Follows(egraph, out), NoErrors(egraph, out),
         NEW o \in Record, Guarded(o), o.slot = It.slot, o.watch = It.watch, o.provs = It.provs,
         o.ended = "no", o.state # "Terminal", o.stalledOn = OpenRoots(out.egraph, Inputs(o))
  PROVE  OneOK(out.egraph, DOMAIN reports, o)
  <1>1. GraphOK(egraph) /\ GraphOK(out.egraph) /\ Standing(It)
    BY AttemptedOne DEF IInv, Follows
  <1>2. Inputs(o) \subseteq 1 .. egraph.size /\ Inputs(o) \subseteq 1 .. out.egraph.size
    BY <1>1, InputsInStore
  <1>3. o.stalledOn \subseteq 1 .. out.egraph.size
    <2>1. \A w \in 1 .. out.egraph.size : out.egraph.root[w] \in 1 .. out.egraph.size
      BY <1>1 DEF GraphOK
    <2> QED BY <1>2, <2>1 DEF OpenRoots
  <1>4. Healthy(out.egraph, o)
    <2>1. SUFFICES ASSUME o.slot # NoSlot, NEW w \in Inputs(o) PROVE out.egraph.type[w] # "Error"
      BY DEF Healthy
    <2>2. egraph.type[w] # "Error"
      BY <2>1 DEF Poisoned, Guarded
    <2> QED BY <1>2, <2>1, <2>2 DEF NoErrors
  <1> QED BY <1>1, <1>3, <1>4 DEF OneOK, Standing

LEMMA AttemptPoisonedInvariant ==
  ASSUME IInv, AttemptPoisoned
  PROVE  IInv'
  <1> DEFINE o == [It EXCEPT !.attempted = egraph.revision]
  <1>1. /\ Attempting /\ EndWithError(Start(egraph), o, "recovered") /\ reports' = reports
    BY DEF AttemptPoisoned
  <1>2. Standing(It) /\ GraphOK(egraph)
    BY <1>1, AttemptedOne DEF IInv
  <1>3. Follows(egraph, Start(egraph))
    BY <1>2, StartFollows
  <1>4. It \in Record /\ egraph.revision \in Nat
    BY <1>2 DEF Standing, GraphOK
  <1>5. /\ o \in Record /\ Twins(It, o) /\ o.state = It.state /\ o.stalledOn = It.stalledOn
        /\ Inputs(o) = Inputs(It)
    BY <1>4 DEF Record, Twins, Inputs
  <1> HIDE DEF o
  <1>6. Standing(o)
    BY <1>2, <1>5 DEF Standing, Twins, Guarded
  <1> QED BY <1>1, <1>3, <1>6, ErrorInvariant

LEMMA AttemptUnchangedInvariant ==
  ASSUME IInv, AttemptUnchanged
  PROVE  IInv'
  <1> DEFINE o == Stays(It)
             out == Start(egraph)
  <1>1. Attempting /\ ~ Poisoned(It) /\ ~ Terminally /\ Retain(out, o)
    BY DEF AttemptUnchanged, Unchanged
  <1>2. Standing(It) /\ GraphOK(egraph)
    BY <1>1, AttemptedOne DEF IInv
  <1>3. Follows(egraph, out) /\ NoErrors(egraph, out) /\ out.egraph = egraph
    BY <1>2, StartFollows DEF Start
  <1>4. /\ o \in Record /\ Twins(It, o) /\ o.state = "Stalled" /\ o.stalledOn = It.stalledOn
        /\ Inputs(o) = Inputs(It)
    BY <1>2 DEF Standing, Stays, Record, Twins, Inputs
  <1> HIDE DEF o, out
  <1>5. /\ Guarded(o) /\ o.slot = It.slot /\ o.watch = It.watch /\ o.provs = It.provs /\ o.ended = "no"
        /\ o.stalledOn = OpenRoots(out.egraph, Inputs(o))
    BY <1>2, <1>3, <1>4 DEF Standing, Twins, Guarded
  <1>6. OneOK(out.egraph, DOMAIN reports, o)
    BY <1>1, <1>3, <1>4, <1>5, StaysOK
  <1> QED BY <1>1, <1>3, <1>5, <1>6, RetainInvariant

LEMMA AttemptRefutedInvariant ==
  ASSUME IInv, AttemptRefuted
  PROVE  IInv'
  <1>1. Attempting /\ Fail(Start(egraph), It)
    BY DEF AttemptRefuted, Attempt
  <1>2. Follows(egraph, Start(egraph))
    BY StartFollows DEF IInv
  <1> QED BY <1>1, <1>2, FailInvariant

LEMMA AttemptNormalizeMaybeInvariant ==
  ASSUME IInv, AttemptNormalizeMaybe
  PROVE  IInv'
  <1> DEFINE o == Stays([It EXCEPT !.attempted = egraph.revision])
             out == Start(egraph)
  <1>1. /\ Attempting /\ ~ Poisoned(It)
        /\ IF Terminally THEN Fail(out, It) ELSE Retain(out, o)
    BY DEF AttemptNormalizeMaybe, Attempt
  <1>2. Standing(It) /\ GraphOK(egraph)
    BY <1>1, AttemptedOne DEF IInv
  <1>3. Follows(egraph, out) /\ NoErrors(egraph, out) /\ out.egraph = egraph
    BY <1>2, StartFollows DEF Start
  <1>4. It \in Record /\ egraph.revision \in Nat
    BY <1>2 DEF Standing, GraphOK
  <1>5. /\ o \in Record /\ Twins(It, o) /\ o.state = "Stalled" /\ o.stalledOn = It.stalledOn
        /\ Inputs(o) = Inputs(It)
    <2>1. o = [It EXCEPT !.attempted = egraph.revision, !.state = "Stalled"]
      BY <1>4 DEF Stays, Record
    <2> HIDE DEF o
    <2>2. It.state # "Terminal"
      BY <1>2 DEF Standing
    <2> QED BY <1>4, <2>1, <2>2 DEF Record, Twins, Inputs
  <1> HIDE DEF o, out
  <1>6. /\ Guarded(o) /\ o.slot = It.slot /\ o.watch = It.watch /\ o.provs = It.provs /\ o.ended = "no"
        /\ o.stalledOn = OpenRoots(out.egraph, Inputs(o))
    BY <1>2, <1>3, <1>5 DEF Standing, Twins, Guarded
  <1>7. OneOK(out.egraph, DOMAIN reports, o)
    BY <1>1, <1>3, <1>5, <1>6, StaysOK
  <1>8. CASE Terminally
    BY <1>1, <1>3, <1>8, FailInvariant
  <1>9. CASE ~ Terminally
    BY <1>1, <1>3, <1>6, <1>7, <1>9, RetainInvariant
  <1> QED BY <1>8, <1>9

LEMMA AnswerFollows ==
  ASSUME IInv, Attempting, NEW a \in Answers
  PROVE  /\ Follows(egraph, Substitute(Start(egraph), It, a))
         /\ NoErrors(egraph, Substitute(Start(egraph), It, a))
         /\ Standing(It) /\ GraphOK(Substitute(Start(egraph), It, a).egraph)
  <1>1. Standing(It) /\ GraphOK(egraph)
    BY AttemptedOne DEF IInv
  <1>2. Follows(egraph, Start(egraph)) /\ NoErrors(egraph, Start(egraph))
    BY <1>1, StartFollows
  <1>3. It.x \in 1 .. egraph.size /\ It.y \in 1 .. egraph.size
    BY <1>1, InputsInStore DEF Standing
  <1>4. Follows(egraph, Substitute(Start(egraph), It, a)) /\ NoErrors(egraph, Substitute(Start(egraph), It, a))
    BY <1>1, <1>2, <1>3, SubstituteFollows
  <1> QED BY <1>1, <1>4 DEF Follows

LEMMA AttemptProofMaybeInvariant ==
  ASSUME IInv, AttemptProofMaybe
  PROVE  IInv'
  <1>1. PICK a \in Answers :
          LET out == Substitute(Start(egraph), It, a)
          IN  /\ Attempting /\ ~ Poisoned(It)
              /\ IF Terminally THEN Fail(out, It) ELSE Retain(out, AfterMaybe(out, It))
    BY DEF AttemptProofMaybe, Attempt
  <1> DEFINE out == Substitute(Start(egraph), It, a)
             r == Recanonicalize(out.egraph, It)
             o == AfterMaybe(out, It)
  <1>2. Follows(egraph, out) /\ NoErrors(egraph, out) /\ Standing(It) /\ GraphOK(out.egraph)
    BY <1>1, AnswerFollows
  <1>3. CASE Terminally
    BY <1>1, <1>2, <1>3, FailInvariant
  <1>4. CASE ~ Terminally
    <2>1. Attempting /\ ~ Poisoned(It) /\ Retain(out, o)
      BY <1>1, <1>4
    <2> HIDE DEF out
    <2>2. It \in Record /\ out.egraph.revision \in Nat
      BY <1>2 DEF Standing, GraphOK
    <2>3. /\ r \in Record /\ Twins(It, r) /\ Inputs(r) = Inputs(It)
          /\ r.stalledOn = OpenRoots(out.egraph, Inputs(r))
      BY <1>2, <2>2, RecanonicalizeOK
    <2>4. \E s \in {"Ready", "Stalled"} :
            o = [[r EXCEPT !.attempted = out.egraph.revision] EXCEPT !.state = s]
      BY DEF AfterMaybe
    <2> HIDE DEF r, o
    <2>5. /\ o \in Record /\ o.state \in {"Ready", "Stalled"} /\ o.stalledOn = r.stalledOn
          /\ o.kind = r.kind /\ o.x = r.x /\ o.y = r.y /\ o.slot = r.slot /\ o.watch = r.watch
          /\ o.provs = r.provs /\ o.ended = r.ended
      BY <2>2, <2>3, <2>4 DEF Record
    <2>6. Inputs(o) = Inputs(r)
      BY <2>5 DEF Inputs
    <2>7. /\ Guarded(o) /\ o.slot = It.slot /\ o.watch = It.watch /\ o.provs = It.provs /\ o.ended = "no"
          /\ o.stalledOn = OpenRoots(out.egraph, Inputs(o)) /\ o.state # "Terminal"
      BY <1>2, <2>3, <2>5, <2>6 DEF Standing, Twins, Guarded
    <2>8. OneOK(out.egraph, DOMAIN reports, o)
      BY <1>2, <2>1, <2>5, <2>7, StaysOK
    <2> QED BY <1>2, <1>4, <2>1, <2>7, <2>8, RetainInvariant
  <1> QED BY <1>3, <1>4

(* What remains of a conditional success watches the inputs of both.       *)
LEMMA AttemptYesInvariant ==
  ASSUME IInv, AttemptYes
  PROVE  IInv'
  <1>1. PICK a \in Answers :
          LET out == Substitute(Start(egraph), It, a)
          IN  /\ Attempting /\ ~ Poisoned(It)
              /\ \/ Fail(Start(egraph), It)
                 \/ Retain(out, Discharged(out, It))
                 \/ Fail(out, It)
                 \/ ~ Terminally /\ Retain(out, Residual(out, It, a))
    BY DEF AttemptYes, Attempt
  <1> DEFINE out == Substitute(Start(egraph), It, a)
  <1>2. Follows(egraph, out) /\ NoErrors(egraph, out) /\ Standing(It) /\ GraphOK(out.egraph)
    BY <1>1, AnswerFollows
  <1>3. CASE Fail(Start(egraph), It) \/ Fail(out, It)
    <2>1. Follows(egraph, Start(egraph))
      BY StartFollows DEF IInv
    <2> QED BY <1>1, <1>2, <1>3, <2>1, FailInvariant
  <1>4. It \in Record /\ out.egraph.revision \in Nat
    BY <1>2 DEF Standing, GraphOK
  <1>5. CASE Retain(out, Discharged(out, It))
    <2> DEFINE o == Discharged(out, It)
    <2> HIDE DEF out
    <2>1. /\ o \in Record /\ Inputs(o) = Inputs(It) /\ o.kind = It.kind /\ o.y = It.y /\ o.slot = It.slot
          /\ o.watch = It.watch /\ o.provs = It.provs /\ o.stalledOn = It.stalledOn
          /\ o.state = "Terminal" /\ o.ended = "proven"
      BY <1>4 DEF Discharged, Record, Inputs
    <2> HIDE DEF o
    <2>2. Guarded(o)
      BY <1>2, <2>1 DEF Standing, Guarded
    <2>3. o.stalledOn \subseteq 1 .. out.egraph.size
      <3>1. 1 .. egraph.size \subseteq 1 .. out.egraph.size
        BY <1>2, StoreGrows DEF IInv
      <3> QED BY <1>2, <2>1, <3>1 DEF Standing, Variables
    <2>4. OneOK(out.egraph, DOMAIN reports, o)
      BY <1>2, <2>1, <2>2, <2>3 DEF OneOK, Standing
    <2>5. Attempting /\ Retain(out, o)
      BY <1>1, <1>5 DEF o
    <2> QED BY <1>2, <2>1, <2>4, <2>5, RetainInvariant
  <1>6. CASE ~ Terminally /\ Retain(out, Residual(out, It, a))
    <2> DEFINE q == [It EXCEPT !.kind = "Prove", !.goal = a.residual, !.state = "Stalled",
                               !.attempted = out.egraph.revision]
               o == Residual(out, It, a)
    <2> HIDE DEF out
    <2>1. /\ q \in Record /\ q.kind = "Prove" /\ q.x = It.x /\ q.y = It.y /\ q.slot = It.slot
          /\ q.watch = It.watch /\ q.provs = It.provs /\ q.state = "Stalled" /\ q.ended = It.ended
      <3>1. a.residual \in Goals
        BY DEF Goals
      <3> QED BY <1>4, <3>1 DEF Record
    <2>2. o = Recanonicalize(out.egraph, q)
      BY DEF Residual
    <2> HIDE DEF q, o
    <2>3. /\ o \in Record /\ Twins(q, o) /\ o.state = "Stalled" /\ o.stalledOn = OpenRoots(out.egraph, Inputs(o))
      BY <1>2, <2>1, <2>2, RecanonicalizeOK
    <2>4. /\ o.kind = "Prove" /\ o.x = It.x /\ o.y = It.y /\ o.slot = It.slot
          /\ o.watch = It.watch /\ o.provs = It.provs /\ o.ended = "no"
      BY <1>2, <2>1, <2>3 DEF Twins, Standing
    <2>5. Guarded(o)
      <3>1. It.kind \in {"Prove", "Normalize"} /\ Guarded(It)
        BY <1>2, <1>4 DEF Record, Standing
      <3> QED BY <2>4, <3>1 DEF Guarded, Inputs
    <2>6. Attempting /\ ~ Poisoned(It) /\ Retain(out, o)
      BY <1>1, <1>6 DEF o
    <2>7. OneOK(out.egraph, DOMAIN reports, o)
      BY <1>2, <2>3, <2>4, <2>5, <2>6, StaysOK
    <2> QED BY <1>2, <1>6, <2>4, <2>6, <2>7, RetainInvariant
  <1> QED BY <1>1, <1>3, <1>5, <1>6

-----------------------------------------------------------------------------
(* The specification. *)

LEMMA MainTaskInvariant ==
  ASSUME IInv, MainTask
  PROVE  IInv'
  <1>1. ASSUME NEW v \in 1 .. VarBound, DeferNever(v) PROVE IInv'
    BY <1>1, DeferNeverInvariant
  <1>2. ASSUME NEW v \in 1 .. VarBound, NEW w \in 1 .. VarBound, RequireEq(v, Find(egraph, w)) PROVE IInv'
    <2>1. GraphOK(egraph) /\ w \in 1 .. egraph.size
      BY BodyVariable DEF IInv, Variables
    <2>2. Find(egraph, w) \in Terms(egraph)
      BY <2>1, FindIsTerm
    <2> QED BY <1>2, <2>2, RequireEqInvariant
  <1>3. ASSUME NEW v \in 1 .. VarBound, NEW t \in {"int", "adt"}, RequireEq(v, <<"type", t>>) PROVE IInv'
    <2>1. <<"type", t>> \in Terms(egraph)
      BY DEF Terms, Type, Rigid
    <2> QED BY <1>3, <2>1, RequireEqInvariant
  <1>4. ASSUME NEW s \in Submissions, SubmitObligation(s) PROVE IInv'
    BY <1>4, SubmitInvariant
  <1>5. ASSUME NEW v \in MayAwait, Await(v) PROVE IInv'
    BY <1>5, AwaitInvariant
  <1>6. CASE Resume
    BY <1>6, ResumeInvariant
  <1>7. CASE BodyEnd
    BY <1>7, BodyEndInvariant
  <1> QED BY <1>1, <1>2, <1>3, <1>4, <1>5, <1>6, <1>7 DEF MainTask

LEMMA StutterInvariant ==
  ASSUME IInv, UNCHANGED vars
  PROVE  IInv'
  <1>1. Pending' = Pending /\ Variables' = Variables /\ Undecidable' = Undecidable
        /\ Refusal' = Refusal
    BY DEF vars, Pending, Variables, Undecidable, Refusal
  <1>2. Shape' /\ Waits'
    BY <1>1 DEF vars, IInv, Shape, Waits
  <1> QED BY <1>1, <1>2 DEF vars, IInv, Queues, Expelled, Clean

LEMMA NextInvariant ==
  ASSUME IInv, [Next]_vars
  PROVE  IInv'
  <1>1. CASE MainTask
    BY <1>1, MainTaskInvariant
  <1>2. CASE Suspended \/ Quiescent \/ Recovered
    BY <1>2, SuspendedInvariant, QuiescentInvariant, RecoveredInvariant
  <1>3. CASE ProcessReady \/ Discharge
    BY <1>3, ProcessReadyInvariant, DischargeInvariant
  <1>4. CASE PassDone \/ Spare \/ SweepDone \/ Finish
    BY <1>4, SweepControlInvariant
  <1>5. CASE AttemptPoisoned \/ AttemptUnchanged \/ AttemptRefuted
    BY <1>5, AttemptPoisonedInvariant, AttemptUnchangedInvariant, AttemptRefutedInvariant
  <1>6. CASE AttemptProofMaybe \/ AttemptNormalizeMaybe \/ AttemptYes
    BY <1>6, AttemptProofMaybeInvariant, AttemptNormalizeMaybeInvariant, AttemptYesInvariant
  <1>7. CASE Fallback \/ Condemn
    BY <1>7, FallbackInvariant, CondemnInvariant
  <1>8. CASE UNCHANGED vars
    BY <1>8, StutterInvariant
  <1> QED BY <1>1, <1>2, <1>3, <1>4, <1>5, <1>6, <1>7, <1>8 DEF Next, Stopped

(* The inductive invariant holds of every state: the types, tasks, streams *)
(* and obligations of a body fit together after every step of the runtime, *)
(* of a sweep of ObligationManager and of the fallback.                    *)
THEOREM Invariant == Spec => []IInv
  BY InitInvariant, NextInvariant, PTL DEF Spec

(* In every reachable state a stalled obligation waits for exactly the     *)
(* classes its goal has open: a wake of ObligationManager cannot pass it by.*)
THEOREM StalledObligationsHear == Spec => []StalledHears
  <1>1. IInv => StalledHears
    <2>1. SUFFICES ASSUME IInv, NEW o \in ToSet(obligations), o.state = "Stalled"
                   PROVE  o.stalledOn = OpenRoots(egraph, Inputs(o))
      BY DEF StalledHears
    <2>2. PICK i \in DOMAIN obligations : o = obligations[i]
      BY DEF ToSet
    <2> QED BY <2>1, <2>2 DEF IInv, AllOK, OneOK
  <1> QED BY <1>1, Invariant, PTL

(* The state keeps its types.                                              *)
THEOREM TypeCorrect == Spec => []TypeOK
  <1>1. IInv => TypeOK
    <2> SUFFICES ASSUME IInv PROVE TypeOK
      OBVIOUS
    <2>1. ASSUME NEW o \in ToSet(obligations)
          PROVE  /\ o.state \in {"Ready", "Stalled", "Terminal"}
                 /\ o.provs \subseteq DOMAIN reports
                 /\ o.stalledOn \subseteq Variables
                 /\ o.attempted \in Nat \cup {Unattempted}
                 /\ o.ended \in {"no", "merged", "proven", "failed", "recovered"}
                 /\ (o.state = "Terminal") = (o.ended # "no")
      <3>1. PICK i \in DOMAIN obligations : o = obligations[i]
        BY DEF ToSet
      <3>2. OneOK(egraph, DOMAIN reports, o)
        BY <3>1 DEF IInv, AllOK
      <3> QED BY <3>2 DEF OneOK, Record, Variables
    <2>2. /\ egraph.size \in Nat /\ egraph.revision \in Nat
          /\ egraph.root \in [Variables -> Variables]
          /\ egraph.type \in [Variables -> Type \cup {Open}]
          /\ egraph.domain \in [Variables -> Domain]
      BY DEF IInv, GraphOK, Variables
    <2>3. todo \subseteq Pending
      BY DEF IInv, Queues
    <2> QED BY <2>1, <2>2, <2>3 DEF TypeOK, IInv, Shape
  <1> QED BY <1>1, Invariant, PTL

(* finalize loses no submission: in a finished body each was proved, met   *)
(* an error, or failed with exactly one diagnostic; block_on_body panics   *)
(* only when no pending wake and no never target can decide what the task  *)
(* waits for, and the fallback only at an open target that refuses !.      *)
THEOREM BodiesEndRightly == Spec => []EndsRightly
  <1>1. IInv => DeadlockIsReal /\ PanicIsRefusal
    BY DEF IInv, Waits, Undecidable, DeadlockIsReal, Refusal, PanicIsRefusal
  <1>2. IInv /\ TypeOK => EveryObligationSettled
    <2> SUFFICES ASSUME IInv, TypeOK, pc = "done"
                 PROVE  /\ Pending = {}
                        /\ \A p \in DOMAIN reports :
                             \E o \in ToSet(obligations) :
                               /\ o.ended # "merged" /\ p \in o.provs
                               /\ reports[p] = IF o.ended = "failed" THEN 1 ELSE 0
      BY DEF EveryObligationSettled
    <2>1. Pending = {}
      BY DEF IInv, Queues
    <2>2. ASSUME NEW p \in DOMAIN reports
          PROVE  \E o \in ToSet(obligations) :
                   /\ o.ended # "merged" /\ p \in o.provs
                   /\ reports[p] = IF o.ended = "failed" THEN 1 ELSE 0
      <3>1. PICK i \in Kept(obligations) :
              p \in obligations[i].provs /\ reports[p] = (IF obligations[i].ended = "failed" THEN 1 ELSE 0)
        BY DEF IInv, Accounted
      <3>2. obligations[i] \in ToSet(obligations) /\ obligations[i].ended # "merged"
        BY <3>1 DEF Kept, ToSet
      <3> QED BY <3>1, <3>2
    <2> QED BY <2>1, <2>2
  <1>3. IInv /\ TypeOK => EndsRightly
    BY <1>1, <1>2 DEF EndsRightly
  <1> QED BY <1>3, Invariant, TypeCorrect, PTL

(* finalize blames no expression whose operand is already an error: it     *)
(* condemns a slot only when no pending obligation that guards it has an   *)
(* input that was reported.                                                *)
THEOREM BlameDoesNotCascade == Spec => NoCascade
  <1> DEFINE Blame == \A v \in condemned' \ condemned :
                        \A o \in ToSet(obligations) :
                          ~ (o.state # "Terminal" /\ o.slot = v /\ Poisoned(o))
  <1>1. ASSUME IInv, Condemn PROVE Blame
    <2> SUFFICES ASSUME NEW v \in condemned' \ condemned,
                        NEW o \in ToSet(obligations), o.state # "Terminal", o.slot = v, Poisoned(o)
                 PROVE  FALSE
      OBVIOUS
    <2>1. v = Min(unresolved) /\ egraph.root[v] = v /\ egraph.type[v] = Open /\ pc = "sweep"
      BY <1>1 DEF Condemn, StillOpen
    <2>2. PICK i \in DOMAIN obligations : o = obligations[i]
      BY DEF ToSet
    <2>3. i \in Pending /\ OneOK(egraph, DOMAIN reports, o)
      BY <1>1, <2>2 DEF Pending, IInv, AllOK
    <2>4. o \in Record /\ Guarded(o) /\ Healthy(egraph, o)
      BY <1>1, <2>1, <2>2, <2>3 DEF OneOK, IInv, Clean
    <2>5. v # NoSlot /\ v \in 1 .. VarBound
      <3>1. unresolved \subseteq Variables /\ Variables \subseteq Nat \ {0} /\ unresolved # {}
        <4>1. Variables \subseteq Nat \ {0}
          BY <1>1 DEF IInv, GraphOK, Variables
        <4> QED BY <1>1, <4>1 DEF IInv, Shape, Condemn
      <3>2. Min(unresolved) \in unresolved
        BY <3>1, MinIsLeast
      <3>3. v # NoSlot
        BY <2>1, <3>1, <3>2 DEF NoSlot
      <3> QED BY <2>4, <3>3 DEF Record
    <2>6. egraph.domain[v] # "Part"
      BY <1>1, <2>5 DEF IInv, GraphOK
    <2>7. v \notin errorSlots
      BY <1>1, <2>1, <2>6 DEF IInv, Expelled, IsInferVar
    <2>8. \A w \in o.watch : egraph.type[w] # "Error"
      BY <2>1, <2>4, <2>5 DEF Guarded, Healthy, Open
    <2>9. o.kind = "Normalize" => egraph.type[o.x] # "Error" /\ egraph.type[o.y] # "Error"
      BY <2>1, <2>4, <2>5 DEF Guarded, Healthy, Inputs, Open
    <2> QED BY <2>7, <2>8, <2>9 DEF Poisoned
  <1>2. ASSUME [Next]_vars, ~ Condemn PROVE condemned' = condemned
    BY <1>2 DEF Next, MainTask, DeferNever, RequireEq, SubmitObligation, Await, Resume, BodyEnd,
       Suspended, Flush, Quiescent, Recovered, ProcessReady, PassDone, AttemptPoisoned, AttemptUnchanged,
       AttemptRefuted, AttemptProofMaybe, AttemptNormalizeMaybe, AttemptYes, Fail, EndWithError, Retain,
       Conclude, Fallback, Spare, SweepDone, Discharge, Finish, Stopped, vars
  <1>3. IInv /\ [Next]_vars => Blame
    BY <1>1, <1>2
  <1> QED BY <1>3, Invariant, PTL DEF Spec, NoCascade

=============================================================================
