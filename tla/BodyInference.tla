---------------------------- MODULE BodyInference ----------------------------
(***************************************************************************)
(* The inference of one function body (sage-ir, check/infer_ctx.rs): the   *)
(* main task walks the body, relates types, submits obligations and may    *)
(* wait for a type; finalize then retries the obligations, applies the     *)
(* never fallback, diagnoses what is still open and discharges the rest.   *)
(* Everything runs in one thread; what varies is the body and the solver.  *)
(*                                                                         *)
(* The main task's operations stand for the source, in any order.  A solver*)
(* query is a pure function of the canonical goal: its answer is chosen at *)
(* the first query and remembered.  A class of variables is open, bound to *)
(* a whole type, or bound to a type whose head an answer knows and whose   *)
(* rest is a fresh variable: the class then stands for that variable, with *)
(* the domain "Part".                                                      *)
(***************************************************************************)
EXTENDS Integers, Sequences, FiniteSets, SequencesExt, FiniteSetsExt

CONSTANTS
  VarBound,     \* variables the body allocates
  StepBound,    \* operations of the main task that relate or defer types
  SubmitBound,  \* obligations the main task submits
  Submissions,  \* the obligations it may submit: [kind, goal, x, y, slot]
  Answers,      \* what a solver may answer: [certainty, x, y, residual, lowers]
  MayAwait,     \* the variables the main task may wait for
  Domains       \* the domains the variables may be allocated with

NoSlot == 0
Rigid == {"int", "adt", "Never"}
Type == Rigid \cup {"Error"}
Domain == {"Any", "Integer", "Part"}
Open == "Open"
Proven == "Proven"          \* a residual that is trivially true
Unattempted == -1

(* The variables are a literal's or plain.  A projection that guards an    *)
(* expression slot expects its output in the type of that very slot.       *)
ASSUME BodyAssumption ==
  /\ VarBound \in Nat
  /\ MayAwait \subseteq 1 .. VarBound
  /\ Domains \subseteq [1 .. VarBound -> {"Any", "Integer"}]
  /\ \A s \in Submissions :
       /\ s.kind \in {"Prove", "Normalize"}
       /\ {s.x, s.y} \subseteq 1 .. VarBound
       /\ s.slot \in {NoSlot} \cup 1 .. VarBound
       /\ s.kind = "Normalize" => s.slot \in {NoSlot, s.y}
  /\ \A a \in Answers : {a.x, a.y} \subseteq Rigid \cup {Open, "Part"}

VARIABLES
  egraph,        \* classes, their types and domains, and the semantic revision
  obligations,   \* ObligationManager
  pendingWakes,  \* variables whose wakes the runtime has not seen
  waiting,       \* variables the main task is registered on
  awaiting,      \* the variable it waits for, 0 if none
  deferred,      \* deferred_never_targets
  pc,            \* where the thread is
  after,         \* where process_ready_obligations returns to
  todo,          \* obligations of the pass that are still to be attempted
  unresolved,    \* variables finalize is still to look at
  answered,      \* the solver's memo table
  errorSlots,    \* expression slots replaced by an error node
  reports,       \* diagnostics that name each submission
  condemned,     \* variables diagnosed as unresolved
  steps          \* operations of the main task so far

vars == <<egraph, obligations, pendingWakes, waiting, awaiting, deferred, pc, after, todo,
          unresolved, answered, errorSlots, reports, condemned, steps>>

Admits(domain, type) ==
  \/ domain = "Any"
  \/ domain = "Integer" /\ type \in {"int", "Error"}
  \/ domain = "Part" /\ type \in {"adt", "Error"}
Variables == 1 .. egraph.size

-----------------------------------------------------------------------------
(* The store, as an outcome of a transaction: the store it leaves, the     *)
(* variables it wakes and, if it failed, why.                              *)
Store(size, root, type, domain, revision) ==
  [size |-> size, root |-> root, type |-> type, domain |-> domain, revision |-> revision]
Start(g) == [egraph |-> g, wakes |-> {}, failure |-> "none"]
Fails(out, why) == [egraph |-> out.egraph, wakes |-> out.wakes, failure |-> why]

Find(g, v) == IF g.type[v] = Open THEN <<"class", g.root[v]>> ELSE <<"type", g.type[v]>>
IsClass(term) == term[1] = "class"
IsInferVar(g, v) == g.type[v] = Open /\ g.domain[g.root[v]] # "Part"

BindAll(out, roots, t) ==
  LET g == out.egraph
      type == [v \in 1 .. g.size |-> IF g.root[v] \in roots THEN t ELSE g.type[v]]
  IN  [egraph |-> Store(g.size, g.root, type, g.domain, g.revision + Cardinality(roots)),
       wakes |-> out.wakes \cup roots, failure |-> out.failure]
Bind(out, r, t) == BindAll(out, {r}, t)

(* Class r becomes part of class s.  The variable that changes is r; s is  *)
(* woken only if its domain narrows.  The mistake below wakes s alone.     *)
Narrows(g, r, s) == g.domain[r] = "Integer" /\ g.domain[s] = "Any"
Joined(g, r, s) ==
  LET root == [v \in 1 .. g.size |-> IF g.root[v] = r THEN s ELSE g.root[v]]
      domain == [g.domain EXCEPT ![s] = IF Narrows(g, r, s) THEN "Integer" ELSE @]
  IN  Store(g.size, root, g.type, domain, g.revision + 1)
JoinWakingSurvivor(out, r, s) ==
  [egraph |-> Joined(out.egraph, r, s), wakes |-> out.wakes \cup {s}, failure |-> out.failure]
Join(out, r, s) ==
  LET also == IF Narrows(out.egraph, r, s) THEN {s} ELSE {}
  IN  [egraph |-> Joined(out.egraph, r, s), wakes |-> out.wakes \cup {r} \cup also,
       failure |-> out.failure]

UnifyTerms(out, a, b) ==
  LET domain(term) == out.egraph.domain[term[2]]
      related(r, s) == IF {domain(r), domain(s)} = {"Integer", "Part"} THEN Fails(out, "domain")
                       ELSE IF domain(r) = "Part" THEN Join(out, s[2], r[2])
                       ELSE Join(out, r[2], s[2])
      bound(r, t) == IF Admits(domain(r), t[2]) THEN Bind(out, r[2], t[2])
                     ELSE Fails(out, IF domain(r) = "Part" THEN "mismatch" ELSE "domain")
  IN  IF a = b THEN out
      ELSE IF <<"type", "Error">> \in {a, b} THEN Fails(out, "reported")
      ELSE IF IsClass(a) THEN IF IsClass(b) THEN related(a, b) ELSE bound(a, b)
      ELSE IF IsClass(b) THEN bound(b, a) ELSE Fails(out, "mismatch")

Unify(out, v, term) == UnifyTerms(out, Find(out.egraph, v), term)

(* The head of v is known; its rest is a fresh variable, whose universe    *)
(* may have to be lowered.                                                 *)
Narrow(out, v, lowers) ==
  LET g == out.egraph
      new == g.size + 1
      with(entries, e) == [w \in 1 .. new |-> IF w = new THEN e ELSE entries[w]]
      wider == Store(new, with(g.root, new), with(g.type, Open), with(g.domain, "Part"), g.revision)
      joined == Join([egraph |-> wider, wakes |-> out.wakes \cup (IF lowers THEN {new} ELSE {}),
                      failure |-> out.failure], g.root[v], new)
  IN  CASE IsInferVar(g, v) /\ g.domain[g.root[v]] = "Any" -> joined
        [] IsInferVar(g, v) /\ g.domain[g.root[v]] = "Integer" -> Fails(out, "domain")
        [] g.type[v] = Open /\ ~ IsInferVar(g, v) -> out
        [] OTHER -> IF g.type[v] = "adt" THEN out ELSE Fails(out, "mismatch")

InstallError(out, v) ==
  IF out.egraph.type[v] = Open THEN Bind(out, out.egraph.root[v], "Error") ELSE out
RecoverType(out, v) == IF IsInferVar(out.egraph, v) THEN InstallError(out, v) ELSE out

-----------------------------------------------------------------------------
(* Obligations. *)
Inputs(o) == IF o.kind = "Prove" THEN {o.x, o.y} ELSE {o.x}
OpenRoots(g, vs) == {g.root[v] : v \in {w \in vs : g.type[w] = Open}}
Shown(g, v) == IF g.type[v] = Open THEN g.domain[g.root[v]] ELSE g.type[v]

(* The canonical goal of an obligation. *)
Canonical(g, o) ==
  IF o.kind = "Normalize" THEN <<o.kind, o.goal, Shown(g, o.x)>>
  ELSE <<o.kind, o.goal, Shown(g, o.x), Shown(g, o.y), Find(g, o.x) = Find(g, o.y)>>

(* The answers that respect the goal: they substitute open inputs only, by *)
(* types of their domain; a normalization that succeeds has an output, and *)
(* a trait goal about an error holds.                                      *)
Fits(shown, t) ==
  \/ t = Open
  \/ t = "Part" /\ shown = "Any"
  \/ t \in Rigid /\ shown \in Domain /\ Admits(shown, t)
HoldsOutright(a) == a.certainty = "Yes" /\ a.x = Open /\ a.y = Open /\ a.residual = Proven
Legal(key, a) ==
  /\ Fits(key[3], a.x)
  /\ key[1] = "Prove" /\ "Error" \in {key[3], key[4]} => HoldsOutright(a)
  /\ key[1] = "Prove" => Fits(key[4], a.y) /\ (key[5] => a.x = a.y)
  /\ key[1] = "Normalize" => (a.certainty = "Yes" <=> a.y # Open)

AnswersFor(key) ==
  IF key \in DOMAIN answered THEN {answered[key]} ELSE {a \in Answers : Legal(key, a)}
Remember(key, a) == answered' = [k \in DOMAIN answered \cup {key} |-> IF k = key THEN a ELSE answered[k]]

Pending == {i \in DOMAIN obligations : obligations[i].state # "Terminal"}

(* ObligationManager::wake *)
Wake(obls, wakes) ==
  [i \in DOMAIN obls |->
    IF obls[i].state = "Stalled" /\ obls[i].stalledOn \cap wakes # {}
    THEN [obls[i] EXCEPT !.state = "Ready"] ELSE obls[i]]

(* publish_commit_effects, with the obligations as they were changed. *)
Publish(out, obls) ==
  /\ egraph' = out.egraph
  /\ obligations' = obls
  /\ pendingWakes' = pendingWakes \cup out.wakes

Recanonicalize(g, o) == [o EXCEPT !.stalledOn = OpenRoots(g, Inputs(o))]

SameDedupKey(g, o, p) ==
  /\ o.kind = "Prove" /\ p.kind = "Prove"
  /\ o.goal = p.goal /\ o.slot = p.slot
  /\ Find(g, o.x) = Find(g, p.x) /\ Find(g, o.y) = Find(g, p.y)

NewVariables(domains) ==
  Store(VarBound, [v \in 1 .. VarBound |-> v], [v \in 1 .. VarBound |-> Open], domains, 0)

Init ==
  /\ \E domains \in Domains : egraph = NewVariables(domains)
  /\ obligations = <<>> /\ reports = <<>>
  /\ pendingWakes = {} /\ waiting = {} /\ awaiting = 0
  /\ deferred = <<>> /\ errorSlots = {} /\ condemned = {}
  /\ answered = <<>>
  /\ pc = "body" /\ after = "fallback" /\ todo = {} /\ unresolved = {}
  /\ steps = 0

-----------------------------------------------------------------------------
(* The main task. *)
BodyStep == pc = "body" /\ awaiting = 0

(* require_eq, and what `catch` does with its error: a domain conflict     *)
(* turns the open side into an error.                                      *)
RequireEq(v, term) ==
  LET out == Unify(Start(egraph), v, term)
      caught == IF out.failure # "domain" THEN Start(egraph)
                ELSE RecoverType(IF IsClass(term) THEN RecoverType(Start(egraph), term[2])
                                 ELSE Start(egraph), v)
      committed == IF out.failure = "none" THEN out ELSE caught
  IN  /\ BodyStep /\ steps < StepBound
      /\ Publish(committed, Wake(obligations, committed.wakes))
      /\ steps' = steps + 1
      /\ UNCHANGED <<waiting, awaiting, deferred, pc, after, todo, unresolved, answered,
                     errorSlots, reports, condemned>>

(* defer_never_target_if_infer: an expression of type ! is coerced to v. *)
DeferNever(v) ==
  /\ BodyStep /\ steps < StepBound
  /\ IsInferVar(egraph, v)
  /\ ~ Contains(deferred, egraph.root[v])
  /\ deferred' = Append(deferred, egraph.root[v])
  /\ steps' = steps + 1
  /\ UNCHANGED <<egraph, obligations, pendingWakes, waiting, awaiting, pc, after, todo,
                 unresolved, answered, errorSlots, reports, condemned>>

(* submit_obligation.  A normalization expects its output in a variable of *)
(* its own; an operator's further bounds follow its normalization and      *)
(* watch the same expression slot.                                         *)
Untouched(v) ==
  /\ egraph.type[v] = Open /\ egraph.domain[v] = "Any"
  /\ \A w \in Variables : egraph.root[w] = egraph.root[v] => w = v
  /\ ~ Contains(deferred, v)
  /\ \A o \in ToSet(obligations) : v \notin {o.x, o.y}
Submittable(s) ==
  IF s.kind = "Normalize" THEN Untouched(s.y)
  ELSE s.slot = NoSlot \/ \E o \in ToSet(obligations) : o.slot = s.slot
SubmitObligation(s) ==
  LET p == Len(reports) + 1
      o == [kind |-> s.kind, goal |-> s.goal, x |-> s.x, y |-> s.y, slot |-> s.slot,
            watch |-> IF s.slot = NoSlot THEN {} ELSE Inputs(s) \cup {s.slot},
            provs |-> {p}, state |-> "Ready", stalledOn |-> OpenRoots(egraph, Inputs(s)),
            attempted |-> Unattempted, ended |-> "no"]
      same == {i \in Pending : SameDedupKey(egraph, obligations[i], o)}
  IN  /\ BodyStep /\ p <= SubmitBound /\ Submittable(s)
      /\ obligations' = IF same = {} THEN Append(obligations, o)
                        ELSE [obligations EXCEPT ![Min(same)].provs = @ \cup {p}]
      /\ reports' = Append(reports, 0)
      /\ UNCHANGED <<egraph, pendingWakes, waiting, awaiting, deferred, pc, after, todo,
                     unresolved, answered, errorSlots, condemned, steps>>

(* await_concrete on an open variable: register and suspend. *)
Await(v) ==
  /\ BodyStep
  /\ IsInferVar(egraph, v)
  /\ awaiting' = v
  /\ waiting' = waiting \cup {egraph.root[v]}
  /\ pc' = "suspended"
  /\ UNCHANGED <<egraph, obligations, pendingWakes, deferred, after, todo, unresolved,
                 answered, errorSlots, reports, condemned, steps>>

(* The main task is polled again: it goes on, or registers again. *)
Resume ==
  /\ pc = "body" /\ awaiting # 0
  /\ IF IsInferVar(egraph, awaiting)
     THEN /\ waiting' = waiting \cup {egraph.root[awaiting]}
          /\ pc' = "suspended"
          /\ UNCHANGED awaiting
     ELSE awaiting' = 0 /\ UNCHANGED <<waiting, pc>>
  /\ UNCHANGED <<egraph, obligations, pendingWakes, deferred, after, todo, unresolved,
                 answered, errorSlots, reports, condemned, steps>>

(* flush_and_drain; the task is polled again if it was woken. *)
Flush(otherwise) ==
  /\ waiting' = waiting \ pendingWakes
  /\ pendingWakes' = {}
  /\ pc' = IF waiting \cap pendingWakes # {} THEN "body" ELSE otherwise
  /\ UNCHANGED <<egraph, obligations, awaiting, deferred, after, todo, unresolved,
                 answered, errorSlots, reports, condemned, steps>>
Suspended == pc = "suspended" /\ Flush("quiescent")
Recovered == pc = "recovering" /\ Flush("deadlock")

(* default_deferred_never_targets: each open target becomes !, unless it   *)
(* is not among the roots in question; one whose domain refuses ! ends the *)
(* loop.  Binding one never changes what another is asked.                 *)
DueByIndex(only) == {n \in DOMAIN deferred : IsInferVar(egraph, deferred[n]) /\ deferred[n] \in only}
DueDecided(only) == {n \in DOMAIN deferred : egraph.root[deferred[n]] \in only}
Due(only) ==
  {n \in DOMAIN deferred : IsInferVar(egraph, deferred[n]) /\ egraph.root[deferred[n]] \in only}
NeverFallback(only) ==
  LET root(n) == egraph.root[deferred[n]]
      refused == {n \in Due(only) : ~ Admits(egraph.domain[root(n)], "Never")}
      bound == {root(n) : n \in {m \in Due(only) : \A k \in refused : m < k}}
      out == BindAll(Start(egraph), bound, "Never")
  IN  IF refused = {} THEN out ELSE Fails(out, "domain")

(* Stable quiescence: only the never targets the task waits for are        *)
(* defaulted.                                                              *)
Quiescent ==
  LET out == NeverFallback(waiting)
  IN  /\ pc = "quiescent"
      /\ Publish(out, Wake(obligations, out.wakes))
      /\ pc' = IF out.failure = "none" THEN "recovering" ELSE "fallback panic"
      /\ UNCHANGED <<waiting, awaiting, deferred, after, todo, unresolved, answered,
                     errorSlots, reports, condemned, steps>>

(* The body is walked; finalize starts with the obligations. *)
BodyEnd ==
  /\ BodyStep
  /\ waiting' = waiting \ pendingWakes
  /\ pendingWakes' = {}
  /\ pc' = "process" /\ after' = "fallback"
  /\ steps' = StepBound
  /\ UNCHANGED <<egraph, obligations, awaiting, deferred, todo, unresolved, answered,
                 errorSlots, reports, condemned>>

-----------------------------------------------------------------------------
(* deduplicate_pending_obligations: the first of equal ones keeps all the  *)
(* provenance.                                                             *)
DeduplicatedForgetful ==
  [i \in DOMAIN obligations |->
    IF i \notin Pending THEN obligations[i]
    ELSE IF \E j \in Pending : j < i /\ SameDedupKey(egraph, obligations[i], obligations[j])
    THEN [Recanonicalize(egraph, obligations[i]) EXCEPT !.state = "Terminal", !.ended = "merged"]
    ELSE Recanonicalize(egraph, obligations[i])]
Deduplicated ==
  LET equal(i) == {j \in Pending : SameDedupKey(egraph, obligations[i], obligations[j])}
      first(i) == Min(equal(i) \cup {i})
      merged(i) == UNION {obligations[j].provs : j \in equal(i) \cup {i}}
  IN  [i \in DOMAIN obligations |->
        IF i \notin Pending THEN obligations[i]
        ELSE IF first(i) = i THEN [Recanonicalize(egraph, obligations[i]) EXCEPT !.provs = merged(i)]
        ELSE [Recanonicalize(egraph, obligations[i]) EXCEPT !.state = "Terminal", !.ended = "merged"]]

(* One round of process_ready_obligations, or its return. *)
ProcessReady ==
  /\ pc = "process"
  /\ obligations' = Deduplicated
  /\ LET ready == {i \in DOMAIN obligations : obligations'[i].state = "Ready"}
     IN  /\ todo' = ready
         /\ pc' = IF ready = {} THEN after ELSE "attempt"
  /\ UNCHANGED <<egraph, pendingWakes, waiting, awaiting, deferred, after, unresolved,
                 answered, errorSlots, reports, condemned, steps>>

PassDone ==
  /\ pc = "attempt" /\ todo = {}
  /\ pc' = "process"
  /\ UNCHANGED <<egraph, obligations, pendingWakes, waiting, awaiting, deferred, after, todo,
                 unresolved, answered, errorSlots, reports, condemned, steps>>

Attempting == pc \in {"attempt", "discharge"} /\ todo # {}
Terminally == pc = "discharge"
It == Recanonicalize(egraph, obligations[Min(todo)])

(* recover_expr_slots *)
RecoverSlot(out, slot) == IF slot = NoSlot THEN out ELSE RecoverType(out, slot)
SlotsOf(o) == {o.slot} \ {NoSlot}

(* attempt_obligation ends with the obligation as `o` and the store's      *)
(* transaction as `out`.                                                   *)
Conclude(out, o) ==
  /\ Publish(out, [Wake(obligations, out.wakes) EXCEPT ![Min(todo)] = o])
  /\ todo' = todo \ {Min(todo)}
  /\ UNCHANGED <<waiting, awaiting, deferred, pc, after, unresolved, condemned, steps>>

Retain(out, o) == Conclude(out, o) /\ UNCHANGED <<errorSlots, reports>>

EndWithError(out, o, how) ==
  /\ Conclude(RecoverSlot(out, o.slot), [o EXCEPT !.state = "Terminal", !.ended = how])
  /\ errorSlots' = errorSlots \cup SlotsOf(o)

(* fail_obligation: one diagnostic names every place that required it. *)
Fail(out, o) ==
  /\ EndWithError(out, o, "failed")
  /\ reports' = [p \in DOMAIN reports |-> IF p \in o.provs THEN reports[p] + 1 ELSE reports[p]]

(* An error that was reported already settles the obligation: in an        *)
(* operand of the expression it guards, or in a projection.                *)
Poisoned(o) ==
  \/ o.slot # NoSlot /\ (o.slot \in errorSlots \/ \E v \in o.watch : egraph.type[v] = "Error")
  \/ o.kind = "Normalize" /\ \E v \in {o.x, o.y} : egraph.type[v] = "Error"

AttemptPoisoned ==
  /\ Attempting /\ Poisoned(It)
  /\ EndWithError(Start(egraph), [It EXCEPT !.attempted = egraph.revision], "recovered")
  /\ UNCHANGED <<answered, reports>>

(* Nothing changed since the last attempt. *)
Unchanged(o) == ~ Terminally /\ o.attempted = egraph.revision
StaysReady(o) == [o EXCEPT !.state = "Ready"]
Stays(o) == [o EXCEPT !.state = "Stalled"]
AttemptUnchanged ==
  /\ Attempting /\ ~ Poisoned(It) /\ Unchanged(It)
  /\ Retain(Start(egraph), Stays(It))
  /\ UNCHANGED answered

(* apply_query_response: the substitution of an answer. *)
Substitute(out, o, a) ==
  LET related(before, v, t) == IF t = Open THEN before
                               ELSE IF t = "Part" THEN Narrow(before, v, a.lowers)
                               ELSE Unify(before, v, <<"type", t>>)
      onX == related(out, o.x, a.x)
  IN  IF onX.failure = "none" THEN related(onX, o.y, a.y) ELSE onX

(* The obligation after a Maybe: it is queued again at once if its own     *)
(* hints woke it.                                                          *)
AfterMaybe(out, o) ==
  LET again == [Recanonicalize(out.egraph, o) EXCEPT !.attempted = out.egraph.revision]
  IN  [again EXCEPT !.state = IF again.stalledOn \cap out.wakes # {} THEN "Ready" ELSE "Stalled"]
Discharged(out, o) ==
  [o EXCEPT !.state = "Terminal", !.ended = "proven", !.attempted = out.egraph.revision]

(* A conditional Yes: what remains is proved as a goal of its own, and     *)
(* counts as attempted.                                                    *)
ResidualStale(out, o, a) ==
  [o EXCEPT !.kind = "Prove", !.goal = a.residual, !.state = "Stalled",
            !.attempted = out.egraph.revision]
Residual(out, o, a) ==
  Recanonicalize(out.egraph,
    [o EXCEPT !.kind = "Prove", !.goal = a.residual, !.state = "Stalled",
              !.attempted = out.egraph.revision])

Attempt(kind, a) ==
  /\ Attempting /\ ~ Poisoned(It) /\ ~ Unchanged(It) /\ It.kind = kind
  /\ a \in AnswersFor(Canonical(egraph, It))
  /\ Remember(Canonical(egraph, It), a)

AttemptRefuted ==
  \E a \in Answers, kind \in {"Prove", "Normalize"} :
    Attempt(kind, a) /\ a.certainty = "No" /\ Fail(Start(egraph), It)

(* attempt_proof_obligation: the hints of a Maybe are applied. *)
AttemptProofMaybe ==
  \E a \in Answers :
    /\ Attempt("Prove", a) /\ a.certainty = "Maybe"
    /\ LET out == Substitute(Start(egraph), It, a)
       IN  IF Terminally THEN Fail(out, It)
           ELSE Retain(out, AfterMaybe(out, It))

(* attempt_normalization_obligation: a Maybe leaves the store alone. *)
AttemptNormalizeMaybe ==
  \E a \in Answers :
    /\ Attempt("Normalize", a) /\ a.certainty = "Maybe"
    /\ IF Terminally THEN Fail(Start(egraph), It)
       ELSE Retain(Start(egraph), Stays([It EXCEPT !.attempted = egraph.revision]))

(* A Yes; the output of a normalization may contradict what is expected,   *)
(* and then nothing of the answer is kept.                                 *)
AttemptYes ==
  \E a \in Answers, kind \in {"Prove", "Normalize"} :
    /\ Attempt(kind, a) /\ a.certainty = "Yes"
    /\ LET out == Substitute(Start(egraph), It, a)
       IN  CASE out.failure # "none" -> Fail(Start(egraph), It)
             [] out.failure = "none" /\ a.residual = Proven -> Retain(out, Discharged(out, It))
             [] out.failure = "none" /\ a.residual # Proven /\ Terminally -> Fail(out, It)
             [] OTHER -> Retain(out, Residual(out, It, a))

-----------------------------------------------------------------------------
(* finalize *)

(* The never fallback, and then the variables that are still open. *)
Fallback ==
  LET out == NeverFallback(Variables)
      open == {v \in DOMAIN out.egraph.root : out.egraph.root[v] = v /\ out.egraph.type[v] = Open}
  IN  /\ pc = "fallback"
      /\ Publish(out, Wake(obligations, out.wakes))
      /\ unresolved' = open
      /\ pc' = IF out.failure = "none" THEN "sweep" ELSE "fallback panic"
      /\ UNCHANGED <<waiting, awaiting, deferred, after, todo, answered, errorSlots, reports,
                     condemned, steps>>

(* Diagnose one open variable, and let the obligations hear of it before   *)
(* the next.                                                               *)
AfterCondemnNext == pc' = "sweep" /\ UNCHANGED after
AfterCondemn == pc' = "process" /\ after' = "sweep"
StillOpen(v) == egraph.root[v] = v /\ egraph.type[v] = Open
Condemn ==
  /\ pc = "sweep" /\ unresolved # {}
  /\ StillOpen(Min(unresolved))
  /\ LET out == InstallError(Start(egraph), Min(unresolved))
     IN  Publish(out, Wake(obligations, out.wakes))
  /\ condemned' = condemned \cup {Min(unresolved)}
  /\ unresolved' = unresolved \ {Min(unresolved)}
  /\ AfterCondemn
  /\ UNCHANGED <<waiting, awaiting, deferred, todo, answered, errorSlots, reports, steps>>

Spare ==
  /\ pc = "sweep" /\ unresolved # {}
  /\ ~ StillOpen(Min(unresolved))
  /\ unresolved' = unresolved \ {Min(unresolved)}
  /\ UNCHANGED <<egraph, obligations, pendingWakes, waiting, awaiting, deferred, pc, after, todo,
                 answered, errorSlots, reports, condemned, steps>>

SweepDone ==
  /\ pc = "sweep" /\ unresolved = {}
  /\ pc' = "process" /\ after' = "terminal"
  /\ UNCHANGED <<egraph, obligations, pendingWakes, waiting, awaiting, deferred, todo,
                 unresolved, answered, errorSlots, reports, condemned, steps>>

(* terminally_discharge_obligations *)
Discharge ==
  /\ pc = "terminal"
  /\ obligations' = Deduplicated
  /\ todo' = {i \in DOMAIN obligations : obligations'[i].state # "Terminal"}
  /\ pc' = "discharge"
  /\ UNCHANGED <<egraph, pendingWakes, waiting, awaiting, deferred, after, unresolved,
                 answered, errorSlots, reports, condemned, steps>>

(* The wakes are flushed once more, and finish takes the body. *)
Finish ==
  /\ pc = "discharge" /\ todo = {}
  /\ waiting' = {} /\ pendingWakes' = {}
  /\ pc' = "done"
  /\ UNCHANGED <<egraph, obligations, awaiting, deferred, after, todo, unresolved, answered,
                 errorSlots, reports, condemned, steps>>

Stopped == pc \in {"done", "deadlock", "fallback panic"} /\ UNCHANGED vars

MainTask ==
  \/ \E v \in 1 .. VarBound : DeferNever(v)
  \/ \E v, w \in 1 .. VarBound : v # w /\ RequireEq(v, Find(egraph, w))
  \/ \E v \in 1 .. VarBound, t \in {"int", "adt"} : RequireEq(v, <<"type", t>>)
  \/ \E s \in Submissions : SubmitObligation(s)
  \/ \E v \in MayAwait : Await(v)
  \/ Resume \/ BodyEnd

Next ==
  \/ MainTask
  \/ Suspended \/ Quiescent \/ Recovered
  \/ ProcessReady \/ PassDone
  \/ AttemptPoisoned \/ AttemptUnchanged \/ AttemptRefuted
  \/ AttemptProofMaybe \/ AttemptNormalizeMaybe \/ AttemptYes
  \/ Fallback \/ Condemn \/ Spare \/ SweepDone
  \/ Discharge \/ Finish
  \/ Stopped

(* Plain code in one thread: it takes its next step. *)
Spec == Init /\ [][Next]_vars /\ WF_vars(Next)

-----------------------------------------------------------------------------
TypeOK ==
  /\ egraph.size \in Nat /\ egraph.revision \in Nat
  /\ egraph.root \in [Variables -> Variables]
  /\ egraph.type \in [Variables -> Type \cup {Open}]
  /\ egraph.domain \in [Variables -> Domain]
  /\ \A o \in ToSet(obligations) :
       /\ o.state \in {"Ready", "Stalled", "Terminal"}
       /\ o.provs \subseteq DOMAIN reports
       /\ o.stalledOn \subseteq Variables
       /\ o.attempted \in Nat \cup {Unattempted}
       /\ o.ended \in {"no", "merged", "proven", "failed", "recovered"}
       /\ (o.state = "Terminal") = (o.ended # "no")
  /\ pendingWakes \cup waiting \cup condemned \cup unresolved \subseteq Variables
  /\ todo \subseteq Pending
  /\ pc \in {"body", "suspended", "quiescent", "recovering", "process", "attempt", "fallback",
             "sweep", "terminal", "discharge", "done", "deadlock", "fallback panic"}

(* A stalled obligation waits for exactly the classes its goal has open    *)
(* now, so that no change of its inputs can pass it by (wake in            *)
(* obligations.rs compares the woken variables with stalled_on).           *)
StalledHears ==
  \A o \in ToSet(obligations) :
    o.state = "Stalled" => o.stalledOn = OpenRoots(egraph, Inputs(o))

(* No obligation disappears (has_pending, and the retained provenance):    *)
(* when the body is finished each submission belongs to one obligation     *)
(* that was proved, failed or met an error, and a failed one is named by   *)
(* exactly one diagnostic, the others by none.                             *)
EveryObligationSettled ==
  /\ TypeOK
  /\ pc = "done" =>
       /\ Pending = {}
       /\ \A p \in DOMAIN reports :
            \E o \in ToSet(obligations) :
              /\ o.ended # "merged" /\ p \in o.provs
              /\ reports[p] = IF o.ended = "failed" THEN 1 ELSE 0

(* Blame never falls on the result of an expression whose operand is       *)
(* already an error (the comment in finalize on cascading errors).         *)
NoCascade ==
  [][\A v \in condemned' \ condemned :
       \A o \in ToSet(obligations) :
         ~ (o.state # "Terminal" /\ o.slot = v /\ Poisoned(o))]_vars

(* The panic on a suspended main task is never a lost wake-up: what it     *)
(* waits for is open, and no never target could have decided it.  (An      *)
(* obligation might have: see SuspensionRecovers.)                         *)
DeadlockIsReal ==
  pc = "deadlock" =>
    /\ egraph.type[awaiting] = Open
    /\ \A v \in ToSet(deferred) : egraph.root[v] # egraph.root[awaiting]

(* The fallback panics only at a never target of its own that is still     *)
(* open and whose domain admits no !, not at one it has bound or that was  *)
(* decided before (default_deferred_never_targets).                        *)
PanicIsRefusal ==
  pc = "fallback panic" =>
    \E v \in ToSet(deferred) :
      IsInferVar(egraph, v) /\ ~ Admits(egraph.domain[egraph.root[v]], "Never")

(* How a body ends: finished, with every submission settled once; in the   *)
(* panic of a task that no wake was lost for and no never target concerns; *)
(* or in the panic over a never target its domain refuses.  Neither panic  *)
(* is said to be unavoidable: SuspensionRecovers and FallbackBinds, below, *)
(* are what the repository says of them, and fail.                         *)
EndsRightly == EveryObligationSettled /\ DeadlockIsReal /\ PanicIsRefusal

(* Checking a body ends: in a finished body or in a panic.                 *)
Termination == <>(pc \in {"done", "deadlock", "fallback panic"})

(* Claims of the repository the code does not keep. *)

(* block_on_body: "A source task may therefore suspend on information      *)
(* which finalization itself supplies."                                    *)
SuspensionRecovers == pc # "deadlock"

(* "deferred never fallback must bind an unconstrained variable": an       *)
(* integer variable cannot be bound to !.                                  *)
FallbackBinds == pc # "fallback panic"

(* "After finalization, unresolved vars become Ty::Error": the variables   *)
(* an answer brings in while finalize runs do not.                         *)
NothingLeftOpen == pc = "done" => \A v \in Variables : egraph.type[v] # Open

=============================================================================
