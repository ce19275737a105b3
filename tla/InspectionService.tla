-------------------------- MODULE InspectionService --------------------------
(***************************************************************************)
(* The inspector's database actor (crates/sage-inspector/src/actor.rs) and *)
(* the provider it owns (src/inspector.rs): requests in a mailbox, served  *)
(* one at a time; revisions of the host's source texts; what is retained   *)
(* of each revision.  One symbol and one product stand for all of them.    *)
(***************************************************************************)
EXTENDS Integers, Sequences, FiniteSets, SequencesExt, Functions

CONSTANTS
  Workspaces,      \* what a host may read from disk: functions from files to texts
  Declaring,       \* the workspaces in which the symbol exists
  Batches,         \* the update batches the watcher may send: files to texts
  RetainedLimit,   \* RETAINED_REVISION_LIMIT
  EventCapacity,   \* events the broadcast channel keeps for a subscriber
  EditBound,       \* batches and reloads in one behaviour
  EventBound       \* panics, lost connections, requests of other clients and clicks on
                   \* "Continue" in one behaviour

ASSUME LimitAssumption == RetainedLimit \in Nat \ {0} /\ EventCapacity \in Nat \ {0}
ASSUME WorkspacesAssumption == \A w \in Workspaces : IsFiniteSet(DOMAIN w)

VARIABLES
  generation,      \* database_generation
  salsa,           \* the host's Salsa revision
  texts,           \* the host's source files and their texts
  retained,        \* revisions: identifiers with the texts they stand for and their runs
  nextRun,         \* next_run
  runs,            \* the handles of the observations that are kept
  products,        \* per revision, the frozen product and its run
  continuations,   \* per revision, the rest of a truncated product
  directory,       \* the cached directory: the texts it was built from
  stale,           \* directory_stale
  alive,           \* the actor's thread has not panicked
  mailbox,         \* requests that wait for the actor
  replies,         \* answers on their way to a client
  stream,          \* the page's EventSource: "off", "connecting" or "open"
  events,          \* events the page's subscription has not delivered
  watcher,         \* the watcher thread: "idle", or "waiting" in block_on
  edits, happened  \* counters for the bounds

provider == <<generation, salsa, texts, retained, nextRun, runs, products, continuations,
              directory, stale>>

None == <<>>
Unknown == <<-1, 0>>

(* Variant: identifiers without the database's generation. *)
SalsaAlone == <<0, salsa>>

(* revision_id: two databases may have the same Salsa revision. *)
RevisionId == <<generation, salsa>>

ServiceInit ==
  /\ generation = 0 /\ salsa = 1
  /\ texts \in Workspaces
  /\ retained = <<[id |-> <<0, 1>>, inputs |-> texts, runs |-> {}]>>
  /\ nextRun = 0 /\ runs = {}
  /\ products = << >> /\ continuations = << >>
  /\ directory = None /\ stale = FALSE
  /\ alive = TRUE /\ mailbox = <<>> /\ replies = {}
  /\ stream = "off" /\ events = <<>>
  /\ watcher = "idle" /\ edits = 0 /\ happened = 0

-----------------------------------------------------------------------------
(* Requests and replies.  A sender whose actor is gone, or whose message   *)
(* is dropped with the mailbox, gets an error of an unknown revision.      *)

Reply(m, id, error, value) ==
  [to |-> m.from, kind |-> m.kind, id |-> id, error |-> error, texts |-> value, run |-> 0]
Unavailable(m) == Reply(m, Unknown, "actor-unavailable", None)
Heard(rs) == {r \in rs : r.to \notin {"gone", "watcher"}}

Happens == happened < EventBound /\ happened' = happened + 1

Posted(box, ms) == IF alive THEN box \o ms ELSE box
(* Variant: a sender is not told that the actor has stopped. *)
NeverRefused(ms) == {}

Refused(ms) == IF alive THEN {} ELSE Heard({Unavailable(m) : m \in ToSet(ms)})

-----------------------------------------------------------------------------
(* What the handlers of the provider do to its state.                      *)

(* record, with the answer that carries the run. *)
Record ==
  /\ nextRun' = nextRun + 1
  /\ runs' = runs \cup {nextRun'}
  /\ retained' = [retained EXCEPT ![Len(retained)].runs = @ \cup {nextRun'}]

Unrecorded == UNCHANGED <<nextRun, runs, retained>>

(* Variant: the products of an expired revision stay. *)
PushKeepingProducts(keptContinuations) ==
  LET all == Append(retained, [id |-> RevisionId', inputs |-> texts', runs |-> {}]) IN
  /\ continuations' = keptContinuations /\ UNCHANGED products
  /\ IF Len(all) <= RetainedLimit
     THEN retained' = all /\ UNCHANGED runs
     ELSE retained' = Tail(all) /\ runs' = runs \ Head(all).runs

(* push_revision, after the texts and the revision have changed. *)
PushRevision(keptContinuations) ==
  LET all == Append(retained, [id |-> RevisionId', inputs |-> texts', runs |-> {}])
      expired == Head(all)
      old(f) == [id \in DOMAIN f \ {expired.id} |-> f[id]]
  IN  IF Len(all) <= RetainedLimit
      THEN /\ retained' = all /\ continuations' = keptContinuations
           /\ UNCHANGED <<runs, products>>
      ELSE /\ retained' = Tail(all)
           /\ runs' = runs \ expired.runs
           /\ products' = old(products)
           /\ continuations' = old(keptContinuations)

(* events.send: a subscriber that lags loses its oldest events. *)
Publish ==
  events' = IF stream # "open" THEN events
            ELSE LET all == Append(events, RevisionId')
                 IN  IF Len(all) > EventCapacity THEN Tail(all) ELSE all

(* HashMap::insert *)
Insert(f, id, value) == [k \in DOMAIN f \cup {id} |-> IF k = id THEN value ELSE f[k]]

Fresh == IF directory = None THEN texts ELSE directory

Symbols(m) ==
  /\ directory' = texts /\ stale' = FALSE
  /\ Record
  /\ replies' = replies \cup Heard({Reply(m, RevisionId, "", texts)})
  /\ UNCHANGED <<generation, salsa, texts, products, continuations, events>>

Symbol(m) ==
  /\ directory' = IF stale THEN texts ELSE Fresh
  /\ stale' = FALSE
  /\ IF directory' \in Declaring
     THEN /\ Record
          /\ replies' = replies \cup Heard({Reply(m, RevisionId, "", texts)})
     ELSE /\ Unrecorded
          /\ replies' = replies \cup Heard({Reply(m, RevisionId, "symbol-not-found", None)})
  /\ UNCHANGED <<generation, salsa, texts, products, continuations, events>>

(* The directory's summary must list the symbol, even when it is stale;    *)
(* the symbol itself is resolved in the current database.                  *)
Product(m) ==
  /\ directory' = Fresh
  /\ IF Fresh \in Declaring /\ texts \in Declaring
     THEN /\ Record
          /\ products' = Insert(products, RevisionId, [texts |-> texts, run |-> nextRun'])
          /\ continuations' = Insert(continuations, RevisionId, texts)
          /\ replies' = replies \cup
               Heard({[Reply(m, RevisionId, "", texts) EXCEPT !.run = nextRun']})
     ELSE /\ Unrecorded /\ UNCHANGED <<products, continuations>>
          /\ replies' = replies \cup Heard({Reply(m, RevisionId, "product-not-found", None)})
  /\ UNCHANGED <<generation, salsa, texts, stale, events>>

(* run_event and continuation: what is kept under the name that is given. *)
Found(m) == CASE m.kind = "run" -> m.arg \in runs
              [] m.kind = "continuation" -> m.arg \in DOMAIN continuations
              [] OTHER -> TRUE
Stored(m) == CASE m.kind = "run" -> (CHOOSE e \in ToSet(retained) : m.arg \in e.runs).inputs
               [] m.kind = "continuation" -> continuations[m.arg]
               [] OTHER -> None
NotFound(m) == IF m.kind = "run" THEN "run-not-found" ELSE "continuation-not-found"

(* Requests that only read: revision and session, a run, a continuation. *)
Read(m) ==
  /\ m.kind \in {"revision", "session", "run", "continuation"}
  /\ replies' = replies \cup
       Heard({IF Found(m) THEN Reply(m, RevisionId, "", Stored(m))
              ELSE Reply(m, RevisionId, NotFound(m), None)})
  /\ UNCHANGED <<provider, events>>

(* A batch is validated as a whole before any of it is written. *)
ApplyUpdates(m) ==
  LET changed == {f \in DOMAIN m.arg \cap DOMAIN texts : m.arg[f] # texts[f]}
  IN  IF ~ (DOMAIN m.arg \subseteq DOMAIN texts) \/ changed = {}
      THEN UNCHANGED <<provider, events>>   \* unrepresented-source-file, no-input-changes
      ELSE /\ texts' = [f \in DOMAIN texts |-> IF f \in changed THEN m.arg[f] ELSE texts[f]]
           /\ salsa' = salsa + Cardinality(changed)
           /\ stale' = TRUE
           /\ UNCHANGED <<generation, nextRun, directory>>
           /\ PushRevision(continuations)
           /\ Publish

(* host.reload builds a new database, or fails and leaves the old one. *)
ReloadWorkspace(m) ==
  \/ UNCHANGED <<provider, events>>        \* workspace-reload-failed
  \/ /\ texts' \in Workspaces
     /\ salsa' = 1
     /\ directory' = None /\ stale' = FALSE
     /\ generation' = generation + 1 /\ UNCHANGED nextRun
     /\ PushRevision(<< >>)
     /\ Publish

-----------------------------------------------------------------------------
(* serve_actor *)

Serve ==
  /\ alive /\ mailbox # <<>>
  /\ mailbox' = Tail(mailbox)
  /\ LET m == Head(mailbox) IN
       \/ m.kind = "symbols" /\ Symbols(m)
       \/ m.kind = "symbol" /\ Symbol(m)
       \/ m.kind = "product" /\ Product(m)
       \/ Read(m)
       \/ m.kind = "apply-updates" /\ ApplyUpdates(m) /\ UNCHANGED replies
       \/ m.kind = "reload-workspace" /\ ReloadWorkspace(m) /\ UNCHANGED replies
  /\ watcher' = IF Head(mailbox).from = "watcher" THEN "idle" ELSE watcher
  /\ UNCHANGED <<alive, stream, edits, happened>>

(* A query panics under the request that is served.  Nothing catches it:   *)
(* the thread ends, and with it the mailbox and every sender of a reply.   *)
Panic ==
  /\ alive /\ mailbox # <<>> /\ Happens
  /\ Head(mailbox).kind \in {"symbols", "symbol", "product"}
  /\ alive' = FALSE
  /\ replies' = replies \cup Heard({Unavailable(m) : m \in ToSet(mailbox)})
  /\ mailbox' = <<>> /\ watcher' = "idle"
  /\ UNCHANGED <<provider, stream, events, edits>>

-----------------------------------------------------------------------------
(* The watcher's thread sends a batch or a reload and blocks until it is    *)
(* answered, an event having been published before; a dead actor refuses.   *)

Send(m) ==
  /\ mailbox' = Posted(mailbox, <<m>>)
  /\ replies' = replies \cup Refused(<<m>>)

Edit ==
  /\ watcher = "idle" /\ edits < EditBound /\ edits' = edits + 1
  /\ watcher' = (IF alive THEN "waiting" ELSE "idle")
  /\ \/ \E b \in Batches : Send([from |-> "watcher", kind |-> "apply-updates", arg |-> b])
     \/ Send([from |-> "watcher", kind |-> "reload-workspace", arg |-> None])
  /\ UNCHANGED <<provider, alive, stream, events, happened>>

(* Any other client of the HTTP interface asks for the product. *)
DirectProduct ==
  /\ Happens
  /\ Send([from |-> "gone", kind |-> "product", arg |-> None])
  /\ UNCHANGED <<provider, alive, stream, events, watcher, edits>>

=============================================================================
