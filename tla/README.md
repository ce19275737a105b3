# A verification development for Sage

Sage is an experimental, incremental front end for Rust: it parses a crate,
resolves names, expands macros, infers the types of function bodies with a
trait solver of its own, and answers questions about all of that, on a page in
the browser, while files change. Its computations are Salsa queries; facts
about other crates come from a rustc session on another thread.

This directory holds TLA+ models of the parts of Sage whose correctness
depends on the order of events or on long sequences of calls, the TLC
configurations that check them on small instances, and proofs, checked by
TLAPS, for every size of those instances. `PROJECT.json` names, for every
definition of the models, the source lines it stands for.

## The system

| Component | State it keeps | Operations | Talks to |
|---|---|---|---|
| Versioned inference store (`check/infer/version.rs`, `egraph.rs`) | a tree of versions; per version sparse maps from variables to parents, bounds, domains and universe ceilings, the variables it changed, a semantic revision | branch, allocate, union, set bound or domain, lower a universe, collapse into the parent, discard | every other part of inference |
| Unification (`unify.rs`, `skeleton.rs`, `egraph.rs`) | none beyond the store: each call is a probe in a child version | unify, bind, close under congruence, recover from a conflict | the store |
| Body inference (`infer_ctx.rs`, `infer/obligations.rs`, `solve/boundary.rs`, `operator.rs`) | the store, obligations with their state and provenance, registered waits, deferred never targets, diagnostics | relate types, submit obligations, wait for a type, fall back, diagnose, finish | solver queries, expression checking |
| Expression checking (`expr.rs`, `method.rs`, `sig.rs`, `finalize.rs`) | the body that is being built | a walk over the syntax, as an async task | body inference, name resolution |
| Trait solver, scheduling (`solve/prove.rs`, `infer/runtime.rs`) | a whiteboard per query: frames, a lookup table, parked producers, ready queues | request, poll, complete, subscribe, abandon | itself, recursively |
| Trait solver, logic (`canonical.rs`, `boundary.rs`, `clauses.rs`, `prove.rs`, `merge.rs`, `anti_unify.rs`) | a store per proof | canonicalize, try a candidate, prove a conjunction, extract, merge, apply | bodies; clauses from the crate and from rustc |
| Module items and macro expansion (`local_syms/mods.rs`, `macro_invocations.rs`) | Salsa memos | expanded items, completeness audits | name resolution, in a cycle |
| Name resolution (`check/resolve`) | the lookups in flight | lookup in scopes, modules, preludes | expanded items |
| Salsa (vendored) | memos, revisions, the stack of running queries | fetch, execute, iterate cycles, verify | all queries |
| Host (`sage-host`, `tcx/proxy.rs`, `sage-rustc-bridge`) | the database, a rustc thread, its request channel, a stub directory | open, scan, await readiness, answer, reload, shut down | Cargo, the disk, rustc |
| File watcher (`src/main.rs`) | watched paths with modes, queued notifications, a batch | read a batch, apply or reload, replace watches, roll back | the notification backend, the disk, the actor |
| Database actor (`sage-inspector`, `src/inspector.rs`) | a mailbox, revision events, retained revisions, runs, products, continuations, a cached directory | serve a request, apply updates, reload | HTTP clients, watcher, host |
| Inspector page (`sage-inspector/web/src`) | the revision it displays, directory, selection, product, run | bootstrap, follow events, select, continue | the actor, through HTTP and an event stream |
| Review lifecycle (`sage-meta/src/review.rs`) | per anchor an input, an output and a summary file; a lock directory | start, read, record, gate | files that are edited meanwhile |
| Stash (`sage-stash`, `sage-stash-macros`) | a table of interned values that point to one another, and an identity | allocate a value or a slice, append, clone, fingerprint, copy into another stash | every part that keeps trees; Salsa compares their fingerprints |
| Reflection, parser, emission, reference IR, oracle, harness | none between calls, or test infrastructure | | |

The behaviours that are hard to test: futures that wake each other in an order
nobody chose, answers shared under a key while their producers are abandoned,
speculative writes that must vanish or be published as a whole, wakes that
compare names of classes which a union has changed since, bindings that are
harmless one by one and close a cycle together, answers that are narrowed too
early because a candidate was undecided, queries that are mutually recursive
and reach a fixed point that depends on who asked first, diagnostics that must
blame a cause once and not its consequences; and, outside the compiler core,
two rustc threads at a reload, a disk that is edited while it is read, watches
that are replaced half way, responses of an older revision, lost events, and
commands that are killed between two files.

For each modelled component, what makes it correct:

* *Store*: a version reads what its ancestors wrote unless it wrote itself; a
  discard leaves no trace; a collapse is all or nothing; equal revisions mean
  equal views; a commit wakes whoever could notice it.
* *Unification*: what was required equal is equal, also by congruence and
  without infinite types; a variable names only what its universe and its
  domain allow; a failure is real; recovery poisons what conflicts and nothing
  else; whoever waits on a class that changed is woken.
* *Solver, scheduling*: the answer is a function of the program and the goal,
  never of the polling order, of sharing or of cancellation; nobody is left
  waiting; nothing is left behind; it ends.
* *Solver, logic*: an answer loses no solution, a definite answer follows from
  the program, a refusal is a real contradiction.
* *Body inference*: no obligation is lost or reported twice; no wake is missed;
  a stuck body is not one that a lost wake or a forgotten never fallback would
  have freed; no diagnostic blames a consequence; it ends.
* *Expansion*: what a build publishes is one consistent fixed point; complete
  results do not depend on the order of queries.
* *Name resolution*: an import cycle neither hides nor adds a name; named
  bindings keep their precedence; an import root that a macro replaces is
  reported; a method is chosen, or denied, only when no rival can be hidden.
* *Stash*: equal content has one handle, whatever the hash does; equality of
  fingerprints is equality of trees; a copy is equal to its original.
* *Host and watcher*: one host lives except while it is being replaced, and a
  failed reload keeps it; no edit is lost; coverage is not given up while
  watches change; in the end the host has what is on disk.
* *Actor and page*: what is kept belongs to a retained revision; the page
  shows one revision and nothing false; it catches up; nobody waits for ever.
* *Reviews*: a report is about the inputs the reviewer saw, the gate accepts
  it only for texts it found in the workspace itself, and no command blocks the
  others for good.

## The modules

Every state machine but `NameResolution`, whose state is two sets of items per
module, has one type invariant. It is a conjunct of the first property
that needs it (`TableIsLive`, `EndsRightly`, `SettledTogether`,
`Unified`, `RetainedTogether`, `ChangeIsPending`, `SeenIsSaved`), so that each
run checks it; the store's `TypeOK` and `TreeShape` and the stash's `TypeOK`
are theorems.

### Transactions and VersionedStore

`Transactions` is the abstract promise: nested transactions, each with a full
private copy of the store, frozen while a child is open; commit of an only
child replaces the parent's copy, abort drops a subtree.

`VersionedStore` is the code. A version is an index into `nodes`; `path` is
what `AncestorIter` visits, `diff` its own entries in `VersionState`'s maps
(keyed by map and variable), `wakes` and `revision` what `CommitEffects` is made
of, `owner` and `variables` the ownership of variables. One action per method:
`BranchFrom`, `AllocVar`, `Write` (`lower_universe`, `set_bound_in`,
`set_domain_in`, the write of `union`), `CollapseInto`, `Discard`. What the
values of the maps mean is the matter of `InferenceGraph`. Two writes of the
parent map that bump no revision and wake nobody are left out: the path
compression of `find` (`egraph.rs:318-334`) and the `set_parent` with which
`rebuild` canonicalizes a shape's entry (`egraph.rs:482`). Neither changes what
`find` answers, so an entry here stands for what the map says of a variable up
to compression.

The run `store` uses four version identities, one variable, two maps, two
values and three semantic revisions, with the data symmetric: enough for three
levels below the root, siblings, a collapse into a version that itself
collapses, and a discard of a subtree.
Deadlock is not checked: identities run out. `ImplementsTransactions` is the
refinement, with `copy` mapped to the view of each live version.

### InferenceGraph and Unification

`InferenceGraph` is `egraph.rs`, `unify.rs` and `skeleton.rs` as functions from
a graph to a graph: union-find, numeric domains, universe ceilings and their
lowering (`MakeAccessible`), the occurs check, unification with its memo of
compressed paths, the congruence worklist (`Rebuild`) and the commit of a
transaction. A type is a skeleton and its children. The recursion of
`unify_in_probe` is an explicit list of calls (`UnifyAll`), which fails as a
whole when one call fails. `Bound::AtLeast` has no caller outside the tests
and is left out.

`Unification` drives them as a body does: `Relate` is `require_eq` of two types
that succeeds or is not in conflict of domains, `RelateConflicting` the
recovery of `infer_ctx.rs`: roll back, mark the classes involved as errors,
replay the rest. `require_sub` and `require_coerce` are not in it.

The run `unification` takes four variables (unrestricted in an inner and in an
outer universe, an integer and a float), a parameter of the inner universe, and
nine types over them; three accepted equalities in any order and any number of
conflicts. Three equalities are the fewest in which two bindings close a cycle
through a third variable, and in which congruence discovers an equality that
has consequences. The reference (`Meanings`) is every assignment of ground
types up to depth two: `FailuresAreReal`, which is a part of `ConflictsAreReal`, says that a refused equality has no
assignment, `Unified` and the rest speak of the graph itself.

### Whiteboard

The scheduler of `solve/prove.rs`. A program (the candidates of each query, and
which queries have a source the solver cannot see) is chosen at the start; the
goal is a conjunction. `frames`, `entries`, `parked`, `ready`, `rootReady` are
the whiteboard's fields, `producers` the futures: `ScopedTasks` with one task
per candidate, each at a goal of its body and waiting for a set of frames.
`PollRoot`, `PopFrame`, `NextRound`, `PollTask`, `ProducerPending`,
`CompleteFrame` are the steps of `drive` and `poll_next`; `TooDeep`,
`RequestCycle`, `RequestSettled`, `RequestShared`, `RequestNew` and `Answered`
the branches of `prove_atom` and `request`. The drain of a hash map of
subscribers is every order. `Abandon` is the cascade of `unsubscribe`: `Orphaned`
is the greatest set of pending frames whose subscribers are all dropped. Queries are ground, so a conjunction runs each goal
until it answers, and a further round comes of a wake only; the rounds that
run again because a goal changed the store are in `Solver`, which has no
liveness property.

The run `whiteboard` takes every program of two queries with up to two
candidates of up to two goals and any set of incomplete queries, and programs
of three mutually recursive queries, with a depth limit of 3: cycles through
several frames, siblings cancelled above unfinished work, answers cut at the
limit. `AnswersRight` has two parts: `AnswersMatchReference` compares each answer with a recursive function
of the program, the depth that remains and the queries above (the definition
the code does not contain); `AnswerSound` compares it with the least model;
`TableIsLive` is the table's discipline, up to `assert_drained`, and includes
`NobodyForgotten`, which rules out the "trait solver deadlock" panic before it
happens.
`Termination` holds under `WF_vars(Next)`: `drive` is a plain loop in one
thread, so that weak fairness of the whole step says only that the thread runs.

### CanonicalBoundary, CandidateMerge, Solver and SolverTruth

The same solver with variables and without scheduling, in four layers.
`CanonicalBoundary` (`canonical.rs`, `boundary.rs`): a goal is abstracted into
a query whose inputs are named by position, with universes and domains; a query
becomes the graph of a proof; an answer is extracted and applied.
`CandidateMerge` (`merge.rs`, `anti_unify.rs`): domination of one answer by
another, and hints, the anti-unifier of what all candidates agree on.
`Solver` (`prove.rs`, `clauses.rs`, two callers in `infer_ctx.rs`): candidates
from impls and assumptions, conjunctions that run in rounds until no goal has
news, normalization, the cycle and depth cuts. The actions are the body's:
`Require` (an equality), `AskProve`, `AskNormalize`. `SolverTruth` is the
reference: provability of ground goals as a least fixed point over the impls
and assumptions, where a source that is not known completely makes everything
it could say possible.

* `solver`: programs of non-overlapping impls with generics and bodies for two
  marker traits and one with an associated type, four kinds of environments,
  complete and not; after each relation or ask, every other ask
  (`MaxSteps` 2). `NothingLost` says that a solution the program allows is
  still allowed after an answer is applied, `VerdictsAreReal` that a `Yes`
  follows for all remaining meanings, and that a `No`, or a relation that
  failed, has none. The properties are about steps and read the
  last entry of the history `asked`, which the `VIEW` drops: TLC evaluates them
  on every transition it computes, whether or not its target is new. The depth
  limit is 4 instead of 64; what it cuts short is answered `Maybe`.
* `solver_cycles` (a claim that fails, see *Findings*).

Abstracted: the order in which answers are sorted and the congruence worklist
is seeded (any order will do; the constant one is taken), `register_placeholder`,
the early stop at an unconditional answer, and scheduling. Left out: `Sized`
and `MetaSized`, existential and implication goals, the residual part of an
answer (trivially true wherever the code builds one), equality goals (no code
creates one), the pruning by the orphan rule, and two ways in which
`normalize_frame` gives up with `Maybe`: an impl whose value for the associated
type cannot be loaded (`prove.rs:719-726`, `754-768`) and arguments of the
associated type itself (`prove.rs:652-654`; the language of the programs has no
such arguments). The solver is called for one atom at a time, as bodies call it.

### BodyInference

One body. The main task relates types, defers never targets, submits
obligations and waits for types in any order within `StepBound` and
`SubmitBound`: this stands for every source program. A solver query is a
function of the canonical goal whose value is picked on the first call and
remembered, within what the solver may say (`Legal`: bindings must fit the
domains, an error among the inputs is accepted outright, and so on); what the
solver does say is the matter of `Solver`. `Flush`, `Quiescent`,
`NeverFallback`, `ProcessReady`, `Attempt...`, `Retain`, `Fallback`, `Condemn`,
`Discharge`, `Finish` follow the methods they are named for; the two panics are
outcomes. A type is `int`, `adt`, never or an error; a partially known type is
an `adt` whose rest is a fresh variable of the domain `Part`, which narrows a
class at most once. Terms with structure, bounds on classes, probes in method
lookup and the produced IR are left out.

The run `body` takes three variables, two relating operations and two
obligations out of a bound on two types, a projection in a call and both forms
of operator obligations. Two obligations and two operations are the fewest
with which one obligation's answer renames the class another is stalled on.
`EndsRightly` says how a body ends: finished, with every submission settled
once (`EveryObligationSettled`); in the panic over a suspended main task, and
then what it waits for is open, no wake of it was lost, and no never target
would have decided it (`DeadlockIsReal`); or in the panic of the never
fallback, and then one of its own targets is open in a domain that refuses `!`
(`PanicIsRefusal`: the fallback does not trip over a target it has just bound).
It does not say that these panics could not be avoided: what the repository
promises about them are `SuspensionRecovers` and `FallbackBinds`, claims that
fail, see *Findings*.
`Termination` holds under `WF_vars(Next)` for the same reason as above: one
thread runs the executor.

### ModuleExpansion

The queries `local_expanded_module_items` of a crate's modules, run by Salsa.
The first part defines resolution and expansion as functions of the crate and of
the lists that were read (`Reach`, `Resolved`, `Expanded`, `ExpansionComplete`),
with the least closed set (`Closure`) for the lookup through globs and the
expansion one depth at a time (`ExpandedOnce`); the second is Salsa's
fixed-point iteration: `Ask`, `ReadCycle`, `ReadMemo`, `Execute` are `fetch`;
`CompletePlain`, `CompleteInside`, `CompleteCycle`, `Iterate`,
`TooManyIterations` the ends of `execute_maybe_iterate`. Whether a provisional
memo may be read is `Holds`: its heads were made final in the iteration it
belongs to (`Settled`, `validate_provisional`), or that iteration still runs
(`SameIteration`, `validate_same_iteration`). The code asks the second by trying
to claim the heads: with one thread it holds every one that is not final, also
one that completed inside a cycle, because it left its lock to a query that
still runs; the locks themselves, and the convergence of a memo's metadata, are
left out. After a build the same
crate is built again from nothing, asked in any order. Left out: derives and
attributes other than as something opaque, named imports, longer paths, reuse
across revisions, and threads.

The run `expansion` takes every crate of two modules, the first with a glob of
the other and a call, the other with an optional glob back (mirrored crates add
nothing, because every order of asking is tried, and a module without calls
reads no other), each with at most one macro and at most two calls, with and
without a prelude macro, and a crate of four modules in which a cycle runs inside a cycle
and a memo of the inner one is asked for again; depth limit 2, iteration cap 8.
With a smaller cap or depth the nested cycles and the depth-limited audits would
not occur. The mutant `SameIterationOnStack`, which accepts only heads that are
on the stack, shows in the four-module crate: the inner query runs a second time
and moves the count of a head that others were computed with.
`Converges` is a claim that fails, see *Findings*.

### NameResolution

`check/resolve/mod.rs` as operators over the items of a crate: `LookupNamed`
and `LookupGlobs` are `lookup_in_module`, `Bucket` the order of the two in each
phase, `ResolveName` the query with its set of queries in flight, `ResolveUse`
and `Segments` paths, `Flexible` the preludes, `Anchor` the anchored paths.
`RootAmbiguous` and `Diagnosis` are the audit of imports after expansion
(`uses.rs`). `RootIn` is what the first segment of an import means, the
preludes included. `TraitsInScope` and `ScopeComplete` are the two results of
`traits_in_method_scope`, and `Method` is the choice of `resolve_trait_method`
for a receiver without methods of its own: of a trait only the certainty of the
receiver's goal on it is kept. The crate is written item by item (`Write`); a
macro that cannot be expanded hides its output (`Call`, `Expand`). Lists whose
duplicates are removed are sets. Left out: macro namespaces (they are in
`ModuleExpansion`), ribs, `Unnamed` imports, which bind no name, and the search
for the standard prelude, which is a constant.

The run `resolution` takes a root with three children, an external crate, and
up to five items out of seventeen: named and glob imports that are relative,
anchored at the crate, at `super` and at the external crate, an enum, traits of
both certainties, an import under an unexpanded attribute, and four macro
outputs, one of which has the name of the external crate. Five items are enough for a glob cycle through two modules beside a
shadowed definition and the import that asks for it. `Coherent` compares every lookup with one
that starts afresh at each module it leads to, for crates whose cyclic imports
are globs. `RootsStay`: when a macro of a module is expanded, an import whose
root came from the module's globs keeps it, or that very import is reported as
ambiguous. A root from a prelude, and one that a macro of another module
changes, are not so protected: `RootsNeverSilent`, the claim of the
specification, fails, as do `NamedFirst` and `ProvidersFinal`, see *Findings*.
`MethodUnrivalled` sees the rivals of a state: it holds the choice of a method
against traits behind a local glob, which `traits_in_method_scope` does not
follow, and says nothing of what a pending macro may bring; that is
`ProvidersFinal`. Deadlock is not checked: a crate is complete at some point.

### Stash and StashedValues

`Stash` is the arena: a stash is an identity, a list of entries (a type and the
values of one allocation, whose fields are handles of earlier entries) and the
intern table: per type, length and hash the chain of entries in the order of
their collision numbers. `Alloc`, `AllocSlice`
and `AppendOne` are the three ways in; `CloneStash` and `Drop` are what Rust
derives. The hash is a parameter (`Hash`), because `alloc` must find equal
content under any hash. Bytes, alignment and the growth of the buffer are left
out.

`StashedValues` adds what reads a tree: `Fingerprints`, the memoized structural
hash by which Salsa compares results; `StashCopy`, which interns a tree bottom
up into another stash; and `Accepts`, the check that a handle belongs here.

The run `stash` has two stashes, six entries in all, slices of at most one
value and a hash that does not see which variant is written, so that different
contents collide: six entries are two trees of three, in different orders or
with different garbage. Deadlock is not
checked: a full stash stops. `HandlesStayHome` is a claim that
fails.

### AnalysisHost, WatchReconfiguration and SourceWatcher

The back of `cargo sage inspect`: three modules, the third of which composes
the other two.

`AnalysisHost` is `driver.rs` with the rustc thread and its channels. Its owner
goes through `LoadWorkspace`, `ScanFile` (one file of a disk that may change at
any step), `Spawn`, `Await` and `Build` or `JoinFailed`, and at a reload through
`CloseOld` and `Swap`, because assigning the new host drops the old one field by
field: first its channel, then, joining the thread, its stub directory. `Ask`
and `Answer` are a query that blocks on metadata; `Expand` and `EndServing` are
the thread. A rustc thread may fail while it expands and while it answers
(`FaultBound`).

`WatchReconfiguration` is `reconfigure_watches` and `rollback_watch_changes`,
one call of the notification backend per step, each of which may fail
(`WatchFailures`): `Install`, `Unwatch`, `Rewatch`, `Restore`, `Clean`,
`Finish`, and the rollback `UndoUnwatch`, `UndoRewatch`, `UndoInstall`, `GiveUp`.

`SourceWatcher` is `spawn_file_watcher`: `Collect` a batch, `ReadFile`,
`Classify`, `Apply`, `BeginReload`, `Reloaded`, `Configured`, while `Edit`
changes files and the manifest. Notifications reach the queue when the watches
cover the path. `missed` records what is stale through nobody's fault: edited
where no watch was, or dropped with a failed reload. Such a path stays excused
until the host has its text again, also when it is edited once more.

The run `watcher` takes three files in three nested directories, three layouts
of a package between which the modes of two watches change, and a malformed
manifest; two edits, three rustc threads, one failing thread, two failing calls
of the backend. A change of a mode, an obsolete watch that could not be removed
and the change that meets it again need two failures and three layouts; two
reloads need three threads. Fairness: `WF_vars` of the watcher's loop, of the
owner of the host and the rustc threads, and of the backend's calls; these are
threads that run until they block, and edits, queries and faults are not in
them. Deadlock is not checked: a watcher whose first host cannot be opened
stops, and one with an empty queue waits.

### InspectionService and InspectorPage

`InspectionService` is the database actor and the provider it owns. Requests
wait in `mailbox`; `Serve` handles one: `Symbols`, `Symbol`, `Product`, `Read`
(the revision, the session, a run, a continuation), `ApplyUpdates`,
`ReloadWorkspace`. `PushRevision` is `push_revision` with what expires.
A revision event is published before the update is answered, and a subscriber
that lags loses its oldest events (`EventCapacity`). `Panic` is a query that
panics: nothing catches it, the thread ends, and every waiting sender is told
`actor-unavailable`. A response is modelled by the texts it was computed from.

`InspectorPage` is the page: the effects `boot` (`BootRevision`, `BootLoaded`),
events (`Connect`, `Handshake`, `Deliver`, `Cut`) and `select` (`Selection`),
`Continue` and `Continuation` of a truncated product, and `Commit`, which is
React: every effect whose dependencies changed is cancelled and started again.
What a cancelled effect has outstanding is still answered, to nobody.

The run `inspection` has one page, batches of one and of two files and one the
host refuses, two retained revisions instead of 64, one event of capacity, two
edits or reloads and one disturbance (a panic, a lost connection, another
client's request or a click on "Continue"). Two edits are what it takes for the
first revision to expire while a handle of it is out, and for an event to be
overwritten; batches of two files are what makes one revision count twice.
Fairness: `WF_vars` of the actor's loop, of the page's event loop (`Receive`,
`Deliver`), of React (`Commit`) and of the browser's connection (`Connect`).

### ReviewLifecycle

The commands `start`, `read`, `record` on an anchor and the gate of `cargo meta
check` as processes. Each takes the lock on the parent directory for part of
its run (`Acquire`, `Release`), reads before and under it, writes one file per
step (`Clear`, `WriteInput`, `WriteSummary`, `Started`; `SelectText`,
`SaveRead`, `ShowRead`; `WriteOutput`, `Seal`) and may be killed between any
two of them (`Crash`; the operating system gives the lock back). Sources are
edited at any time (`Edit`), also back to what they were. `reviews.md:415` gives
an anchor one owner at a time: a reviewer is named by the anchor, and `Reassign`
hands it on.

Recorded fragments are compared with the workspace in two places, by `record`
(`CheckRecord`, `RecordCompared`) and by the gate. Either selects one fragment
after another, each from the file as it is then (`CompareNext`), so that edits
fall between them. The gate loads the reviews under the lock (`LoadSummary`,
`LoadInput`, `LoadOutput`, `Loaded`), gives it back, and judges afterwards,
anchor by anchor in any order and in two passes, for what to report and for what
to count (`BeginJudging`, `Judge`, `Validated`, `Accepted`, `Forget`). `stood` is
a history variable: the workspaces there were since the gate began to judge the
anchor at hand.

`ApprovalIsCurrent` is therefore about each text by itself: of every file the
author read, the gate has found that text in the workspace at some moment of
this judgement. That they stood there together (`ApprovedTogether`) is a claim
that fails, see *Findings*.

The run `review` has one anchor and the gate, two files with two versions each,
one edit, and one fragment read beside the initial one. One edit may fall
between any two steps of any command; two reads are what it takes for a
comparison of recorded fragments to be interrupted. With `ReadBound` 2 and without
`NobodyWaits`, whose graph would be too large, the same configuration passes too
(4108615 states, two minutes), and the proofs below cover any number of anchors,
files, versions, edits and reads. `NobodyWaits` holds under
strong fairness of taking the lock and weak fairness of each command's other
steps: `flock` is granted to some waiter each time it is free, and commands are
finite. Deadlock is checked.

## Findings

A claim of the repository that a run of the project shows to fail:

* `solver_cycles` (`NothingLost`): a query that meets itself among its
  ancestors is refuted, also when it has open inputs. With
  `impl A for Wrap<i32>` and `impl<T> A for Wrap<&T> where Wrap<T>: A`, the goal
  `Wrap<?x>: A` commits `?x` to `i32`, although `Wrap<&i32>: A` holds.

Further claims that TLC refutes with the configuration named, which is kept
beside the runs:

* `MCBodyInferenceFallbackBinds.cfg` (`FallbackBinds`): a deferred never target
  that was joined with an integer variable does not admit never, and the
  `expect` in `default_deferred_never_targets` panics.
* `MCModuleExpansionConverges.cfg` (`Converges`): a call whose expansion
  defines the called macro again is ambiguous as soon as it is expanded; the
  iteration oscillates and Salsa panics at its cap of 200.
* `MCResolutionCycle.cfg` (`NamedFirst`): a query in flight is answered with nothing,
  and an empty named bucket falls through to the globs. With
  `use b::n; use d::*;` in the root and `use super::*; use crate::c::*;` in `b`,
  the lookup of `n` in `b` takes the root's named import for empty and adds
  `d::n`, which that import shadows.
* `MCResolutionProviders.cfg` (`ProvidersFinal`): the traits in method scope count as
  complete once a named import resolves in one namespace, although the module it
  imports from has a pending macro that may define a trait of that name. The
  completeness of the whole crate, which guards calls on local types, is not
  asked for calls on external ones.
* `MCResolutionRoots.cfg` (`RootsNeverSilent`): "Expansion cannot silently change
  an unqualified import root" (`resolution.sage:18`; the sentence after it speaks
  of globs only, and that much holds). The audit
  (`resolve/mod.rs:209-222`) compares the generated bindings of a module with its
  globs only: with `use e::n`, where `e` is an external crate, a macro of the
  module that emits a binding `e` replaces the root without a report. So does a
  macro of another module whose output is behind a glob. `RootsStay` is what holds.
* `MCReviewTogether.cfg` (`ApprovedTogether`): checking resolves "every
  fragment's selector against current source" (`reviews.md:286`), read as one
  state of the sources. The fragments are selected one after another
  (`review.rs:408-419`), without a lock on the sources: when one of two reviewed
  files was changed since, the other is selected, is changed too, and the first is
  changed back before it is selected, the gate accepts a combination of texts
  that never stood in the workspace while it judged.
* `MCStashClone.cfg` (`HandlesStayHome`): a clone keeps the identity by which foreign
  handles are recognized, so that a stash and its clone that both grow accept
  each other's handles for different content. Only a test clones a stash, and
  does not grow it.

Three further claims are defined in the modules and fail, without a configuration of
their own:
`SuspensionRecovers` (a main task that waits for a type an obligation would
decide at the end panics with "deadlock", although the comment on
`block_on_body` says it may wait), `NothingLeftOpen` (`finalize` takes the list
of open variables once, and an answer that arrives while it works brings a
fresh one), both in `BodyInference`, and `OrderIndependent` in
`ModuleExpansion` (two modules that import each other expand differently when
the other is asked for first; `CompleteIsUnique` shows that this needs an
expansion that is audited as incomplete).

What the models of the watcher and the inspector show the code to do, and the
properties therefore leave out:

* A removed file is a reason to reload, but a batch that also changes a
  represented file is applied as an update and the reload is skipped
  (`main.rs:251`, `main.rs:274`; the test at `main.rs:650` only looks at the
  notification). `ChangeIsPending` excepts removed files.
* A reload that fails drops its batch, and what changes while the first host
  opens, or below roots that are only about to be watched, is not looked at
  again: `missed`.
* A watch that could not be removed stays with its old mode. The comment at
  `main.rs:456-458` calls it harmless; if a later layout wants the path with
  another mode, replacing it opens a gap that a fresh path would not have.
  `CoveredThroughout` excepts paths that only such watches cover.
* Represented files outside the watched source root, and files without the
  suffix `.rs`, are read by the scan and never refreshed (`driver.rs:471-512`).
* A product is looked up in the cached directory even when that is stale, so
  that a direct request for a symbol an edit introduced is `product-not-found`
  (`inspector-guide.md:199-204`: reflected cross-links are refreshed).
* A handle of an expired or older revision is answered with the label of the
  current revision (`protocol.md:117-119`); the page notices, because it
  compares the label with its own, and shows the change in place.
* A page whose first bootstrap fails has no event stream and waits for a reload
  by hand; the actor has no `catch_unwind`.

## What is proved

Proofs are in modules of their own, beside the component.

`VersionedStore_proofs`, for every
`VersionBound`, `VarBound`, `RevisionBound`, every set of maps and of values,
from `BoundsAssumption` (the bounds are numbers, and there is a root) and
`DataAssumption` (the ceiling map is one of the maps, and "no entry" is no
value):

* `TypeCorrect`, `ShapeHolds`: `TypeOK` and `TreeShape`. `TreeShape` is
  inductive together with `TypeOK`: a version's path consists of live versions
  with smaller numbers, contains its members' paths, and leads down through
  children; a version that is not live has no entries. "Leads down through
  children" is what makes a leaf lie on no other path (`LeafOnNoOtherPath`), so
  that a write to it is seen by nobody else.
* `RefinesTransactions`: `Spec => ImplementsTransactions`. The lemmas are about
  reads: an own entry hides the ancestors' (`ReadOwn`), without one a version
  reads as its parent (`ReadInherited`), and a write, a collapse or a discard
  changes only the views the abstract action changes. `Nearest` is a `CHOOSE`
  of the largest number; that it exists is `MaximumExists`.
* `NothingDangles`, `EqualRevisionsAgree`, `CommitWakes`: the store's other
  three properties. They speak of reads along a path, the induction of each
  version's own entries: entries are about visible variables
  (`EntriesVisible`), and an entry about something the parent knows has raised
  the revision above the parent's and is in the wakes (`TracksChanges`).

`SourceWatcher_proofs`, for any files, layouts, watch modes and nesting of
directories, and any number of threads, faults and edits:

* `HostStaysWhole`: `OneLiveHost`. The invariant tells per phase which channels
  and stub directories exist (`Owned`), and that only the awaited thread may
  still report its readiness (`Served`): without that a late report of a failed
  start could be taken for the next one's.
* `NoChangeIsLost`: `ChangeIsPending`, from `FaultAssumption`,
  `WatchAssumption` and `WatcherAssumption` (the bounds are numbers, and the
  manifest is no source file). `Following`, with the invariant of the other
  theorems, is what makes it inductive: who of watcher and host waits for whom
  (`Handovers`); a host that is being opened has scanned a file as it is, or
  has not yet scanned it, or there is a notification of it (`Fresh`); whatever
  the published host does not have is notified, in the batch that is being
  read, or in the update that is on its way (`Known`); and a text that was read
  is what is on disk, or there is news of the file (`Current`).
* `FailedAttemptsUndone`, `NoGapInCoverage`: `RollbackRestores` and
  `CoveredThroughout`. `Remembered` is what the lists the code keeps for its
  rollback have to say: the active watches are the old ones, minus the one
  between its two calls, plus the installed ones; a changed mode is remembered;
  and a mode is changed only once every new path is watched, which is the order
  of the loops in `reconfigure_watches`.

`ReviewLifecycle_proofs`, for any anchors, files and versions, edits and reads, from
`ReviewAssumption` (names are distinct, bounds are numbers):

* `OneAtATime`: between taking the lock and giving it up a process has it.
* `SeenSaved`, `ReportsStand`: `SeenIsSaved` and `ReportOfTheseInputs`. The
  critical state is the one in which a text is saved and not yet shown: then
  the saved inputs are one ahead of what the reviewer saw (`OneAhead`), and the
  process may be killed.
* `ApprovalsCurrent`: the action property `ApprovalIsCurrent`. `JudgeInv` follows
  a judgement through its selections: the workspace of now is among those that
  stood (`source \in stood`), and every fragment the comparison is past, as long
  as it has not failed, is a text that stood. Edits between two selections only
  add workspaces, so what was found stays found; when the comparison is through,
  all fragments have been seen (`ComparedAll`).
* `InputsStay`: the action property `JudgedInputsStay`, a report's inputs are never
  replaced beside it.

`InspectorPage_proofs`, for any workspaces, batches, number of retained
revisions and events, edits, panics, clicks and lost connections, from
`LimitAssumption` (the limits are positive) and `WorkspacesAssumption` (a
workspace has finitely many files, so that a batch that changes any raises the
revision):

* `KeptWithItsRevision`: `RetainedTogether`. A function `H` from revisions to
  inputs says what each revision stands for; a new revision is later than every
  one before it (`LaterIsNew`), so that `H` can be extended (`PushKeeps`) and
  what was true of an old revision stays true (`Onward`).
* `WhoeverWaitsIsHeard`: `NobodyForgotten`. `Waiting` says which requests and
  answers are under way for whom; the two answers of the bootstrap are told
  apart by what they answer (`Loading`).
* `ShownTogether`, `ShownIsTrue`: `DisplayCoherent` and `DisplayTrue`. The page
  checks the revision of an answer, not what the answer is about; that is enough
  because a page with a session only ever asks for runs and continuations of the
  revision it displays (`AsksForShown`), and a page without one is about to
  forget everything or has nothing under way (`Quiet`). Between a reset and the
  commit that follows, the page may install a run of another revision; it is not
  shown, because the session is gone, and the commit clears it.

`Stash_proofs`, for any set of stashes, types, tags, hash function and bounds,
from `FieldsAssumption` and `BoundsAssumption`:

* `TablesWellFormed`: `TypeOK`.
* `ContentStoredOnce`: `HashConsed`. "Not stored twice" is inductive only with
  the intern table: every entry is in the chain of its own type, length and hash
  (`AllInterned`), and an entry's hash is the hash of its content as it would be
  taken today, because the entries its fields name were there before it and
  never change (`KidsBefore`, `HashesStand`).
* `FingerprintsDecideEquality`: `RootedEquality`. A fingerprint leaves out the
  type of what it is taken of. It decides equality because the fields of equal
  variants have equal declared types (`AllDeclared`), and because handles point
  to earlier entries: the argument is by the least entry for which it fails
  (`SameTrees`).
* `CopiesKeepMeaning`: `CopyPreserves`. In the order of the calls every kid
  comes before its parent (`Closed`, `OrdersClosed`), and what was copied so far
  stands for the same trees in the target (`Copied`, `CopyOne`); that an entry
  found there is of the right type and kind is `ChainsKeyed`, that later
  allocations change no tree is `UnfoldStays`.

These are theorems of `ValuesSpec`, whose steps include copies. The recursive
functions `Fingerprints`, `Unfold`, `CopyOrders` and that of `StashCopy`, and
the library's `FlattenSeq`, are shown to exist entry by entry. The digest is
taken to be injective, as everywhere in `StashedValues`.

`BodyInference_proofs`, for any variables, submissions, bounds and answers of
the solver, from `BodyAssumption` (a submission is of the variables the body
has):

* `TypeCorrect`, `StalledObligationsHear` and `BodiesEndRightly`: `TypeOK`,
  `StalledHears` and `EndsRightly`. The argument about the store is one
  relation, `Follows`: whatever a transaction does, a class it does not wake is
  as it was. So the roots a stalled obligation was registered with stay those
  that are open in its goal (`OneOK`), or it is woken. The obligations that
  were not merged into another share the submissions (`Accounted`), and a body
  that panics with "deadlock" waits for a variable that is open, with no wake on
  its way and no never target in its class (`Waits`, `Undecidable`); an
  obligation might still decide it. For the panic of the fallback the step that
  enters it has seen an open target that does not admit `!` (`PanicIsRefusal`).
* `BlameDoesNotCascade`: the action property `NoCascade`. When blame is handed
  out, no pending obligation has a poisoned operand (`Clean`), because an
  obligation with one is discharged when it is woken.

`Whiteboard_proofs`, for any programs, root goals and depth bound, from
`ProgramAssumption` (bodies are sequences of queries):

* `NobodyIsForgotten`, `DriveNeverDeadlocks`: `TableIsLive`, and the panic
  "trait solver deadlock". `IInv` adds to the property where the loop is
  (`LoopOK`: what is parked is what is pending and not polled), that a
  subscription is the waker of a task of the frame above that waits for the
  frame and is neither queued nor running (`Subscriptions`), and that a frame
  that is not about to be polled has a task left (`Busy`). When a candidate
  cancels its siblings, the frames that go with them (`Orphaned`) are younger
  than their reader, because a subscriber is: so the producer that cancels is
  not among them. When the loop is through, no frame is pending
  (`NothingPending`): the youngest would have nothing to wait for.
* `AnswersFollowTheProgram`, `AnswersAreRight`: `AnswersRight`. `Right` is the
  second inductive invariant: no query is asked below itself, a settled frame
  has the answer of `Reference` to its query under its ancestors, a task has
  passed over no refuted goal and knows whether one was open, and a producer
  has the outcomes of its finished tasks or one that decides (`SettledAnswer`).
  The parent of a frame is part of its key, so that `Ancestors`, and with them
  the answer, are the same for whoever shares it. Soundness is a property of
  `Reference` alone (`ReferenceIsSound`, by induction on the depth that
  remains): a "Yes" has a proof, and refuting what occurs among its own
  ancestors loses nothing because a proof of a query need not use the query
  (`OutsideSteps`, on the least set closed without the queries of the path).
  `Reference`, `Chain` and `Filtered` are recursive functions; that they exist
  is shown step by step, with the least number of a set (`LeastNumber`).

`ModuleExpansion_proofs`, for any crates, depth limit, iteration cap and order in
which the modules are asked for, from `CratesAreFinite` (a crate has finitely
many modules) and `LimitsAreCounts`:

* `BuildsSettleTogether`: `SettledTogether`. Call a memo current (`Current`) when
  its query does not run and it belongs to the iteration that runs. `IInv` says
  how current memos and running queries depend on each other (`Structure`): the
  heads of a current memo are current or run (`LeadsToRunning`), no set of
  current memos is closed under their heads (`NotAlone`: every one leads to a
  query that runs), a frame's heads lead, through current memos, to frames
  at or below it (`Grounded`), whoever drives a query's cycle has collected the
  heads of the memos that lead to that query (`HeadsAreKept`), and of two memos
  one of which is a head of the other, one has all the heads of the other
  (`Comparable`). It follows that when the outermost query of a
  cycle ends a turn, the memos it drops or makes final are exactly the heads
  `collect_all_cycle_heads` found: no other current memo and no frame below
  depends on them (`CycleCloses`). So what a query has read stays as it was
  read until it is done; each current memo is the expansion of its module
  against values that agree with the memos there are, up to the provisional
  values of its heads (`CurrentIsComputed`), and when a cycle converges those
  are the values its heads end with (`FixedNow`, `FinalIsFixed`). `ScopeIsLocal`
  is the lemma about the operators: which modules an expansion looks at depends
  only on the lists of those modules. That every module of a finished build has
  a final memo is `AskedOrFinal`.
* `CollectedHeadsAreProvisional`: while a query that has read all it reads
  collects its heads, each has a memo and none is final. So the `expect` ("cycle
  head memo must have been created during the execution") and the assertion
  `provisional_status.is_provisional()` of `collect_all_cycle_heads` never fail.
* `FinalListsAreKept`: no step of a build changes a list that is final.

`Structure` was checked by TLC before it was proved, on the crates of the run and
on random ones; `CurrentIsComputed` quantifies over all functions and is not
something TLC can evaluate.

Only model-checked: every liveness property, which is out of TLAPS's reach; and
the safety properties of the other modules. `CompleteIsUnique` of
`ModuleExpansion` is about the lists the iteration reaches: two fixed points that
are both complete can differ when an expansion emits what another one is found
by, so that a proof would need an induction over the turns of both builds at
once. `NameResolution`,
`InferenceGraph`, `Unification`, `CanonicalBoundary`, `CandidateMerge`,
`Solver` and `SolverTruth` declare recursive operators over types, paths and
proofs, which the provers cannot unfold. A recursive function of numbers can be
reasoned about, by the least number of a set; the induction theorems of the
library, which take an operator, cannot be used.

Each checked property has at least one mutant in `PROJECT.json`: an alternative
definition, placed before the right one in the module, with which the property
fails.

## Plan

1. Done: the modules, runs and theorems above.
2. Next theorems: the properties of `Unification` and `NameResolution`, whose
   operators over terms and paths would first be written as recursive functions
   or least closed sets, as `Closure` of `ModuleExpansion` is.
3. Next modules: the ribs of a body and the macro namespace, in
   `NameResolution`; subtyping and coercion requests, in `Unification`; goals under binders and assumptions, in `Solver`; the
   comparison of two retained revisions, in `InspectionService`.

## Not modelled

* The parser and the concrete syntax, symbols and semantic values, emission,
  the reference IR, derive helpers and build scripts have no state that
  outlives a call. Golden tests are the tool for them.
* Expression and signature checking is a walk that calls the inference
  context; `BodyInference` allows every sequence of those calls. A method probe
  works in a child version, and the store's refinement says what that isolates;
  which trait wins is in `NameResolution`, inherent methods and operators are
  not.
* Reflection is a sequential function of a value and its budgets. The unsafe
  code of the stash, its buffer and its 32-bit offsets are below the level of
  these models.
* Incremental reuse across revisions is Salsa's, third-party code that appears
  only as far as expansion relies on its iteration.
* The oracle, its harness and the test harness are test infrastructure; the
  rest of `sage-meta` reads the repository's own documents.

`PROJECT.json` lists each part with the reason, and the hazards no property
covers yet.
