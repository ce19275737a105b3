---------------------------- MODULE InspectorPage ----------------------------
(***************************************************************************)
(* The browser page of the inspector (web/src/api.ts, InspectorApp.tsx)    *)
(* against the service: three asynchronous effects (bootstrap, event       *)
(* stream, selection) that write one page, React's commits, which cancel   *)
(* and restart effects whose dependencies changed, and an event stream     *)
(* that may lag or be cut.                                                 *)
(*                                                                         *)
(* What the page holds of a response is its revision and the texts it was  *)
(* computed from.                                                          *)
(***************************************************************************)
EXTENDS InspectionService

VARIABLES
  expected,      \* ApiClient.expectedRevision
  page,          \* the state hooks: revision, session, index, selected, product, run
  intent,        \* what the URL asks for: "symbol" or "directory"
  failed,        \* an error is shown
  boot,          \* where bootstrap() is: "idle", "revision", "loading"
  loaded,        \* the responses of Promise.all that are in
  select,        \* where select() is: "idle", "symbol", "product", "run"
  watched,       \* the revision the event effect closed over
  dirty          \* effects whose dependencies changed since the last commit

client == <<expected, page, intent, failed, boot, loaded, select, watched, dirty>>
service == <<provider, alive, mailbox, replies, stream, events, watcher, edits, happened>>
vars == <<service, client>>

Effects == {"boot", "events", "select"}
Blank(id) == [revision |-> id, session |-> FALSE, index |-> None, selected |-> None,
              product |-> None, run |-> None, more |-> None]
Tag(r, v) == [id |-> r.id, texts |-> v]

Init ==
  /\ ServiceInit
  /\ expected = None /\ page = Blank(None)
  /\ intent \in {"symbol", "directory"} /\ failed = FALSE
  /\ boot = "idle" /\ loaded = {} /\ select = "idle"
  /\ watched = None /\ dirty = Effects

-----------------------------------------------------------------------------

Ask(from, kind, arg) == [from |-> from, kind |-> kind, arg |-> arg]

(* Requests go out, the reply r has been taken, and what is outstanding of *)
(* the effects in forgotten will be ignored: their flags are set.          *)
Exchange(ms, r, forgotten) ==
  LET forget(m) == IF m.from \in forgotten THEN [m EXCEPT !.from = "gone"] ELSE m
      kept == [i \in DOMAIN mailbox |-> forget(mailbox[i])]
  IN  /\ mailbox' = Posted(kept, ms)
      /\ replies' = {s \in replies \ r : s.to \notin forgotten} \cup Refused(ms)

(* resetForRevision *)
Reset(id) ==
  /\ expected' = id
  /\ page' = Blank(id)
  /\ dirty' = Effects

(* Variant: responses are installed whatever revision they carry. *)
NeverChanged(r) == FALSE

(* A response other than the bootstrap's own carries another revision.     *)
Changed(r) == expected # None /\ r.id # expected

(* Of bootstrap(): the current revision is installed without a check, then *)
(* the session and the directory are requested together.                   *)
BootRevision(r) ==
  /\ r.to = "boot" /\ boot = "revision"
  /\ IF r.error = ""
     THEN /\ expected' = r.id
          /\ page' = [page EXCEPT !.revision = r.id]
          /\ dirty' = IF r.id = page.revision THEN dirty ELSE dirty \cup {"events", "select"}
          /\ boot' = "loading" /\ loaded' = {}
          /\ LET session == Ask("boot", "session", None)
                 symbols == Ask("boot", "symbols", None)
             IN  \/ Exchange(<<session, symbols>>, {r}, {})
                 \/ Exchange(<<symbols, session>>, {r}, {})
          /\ UNCHANGED failed
     ELSE /\ boot' = "idle" /\ failed' = TRUE
          /\ Exchange(<<>>, {r}, {})
          /\ UNCHANGED <<expected, page, dirty, loaded>>
  /\ UNCHANGED <<intent, select, watched>>

BootLoaded(r) ==
  LET all == loaded \cup {r} IN
  /\ r.to = "boot" /\ boot = "loading"
  /\ IF Changed(r)
     THEN /\ Reset(r.id) /\ boot' = "idle" /\ loaded' = {}
          /\ Exchange(<<>>, {r}, {"boot"})
          /\ UNCHANGED failed
     ELSE IF r.error # ""
     THEN /\ boot' = "idle" /\ loaded' = {} /\ failed' = TRUE
          /\ Exchange(<<>>, {r}, {"boot"})
          /\ UNCHANGED <<expected, page, dirty>>
     ELSE /\ Exchange(<<>>, {r}, {})
          /\ IF Cardinality(all) < 2
             THEN loaded' = all /\ UNCHANGED <<boot, page, dirty>>
             ELSE /\ boot' = "idle" /\ loaded' = {}
                  /\ \E s \in all : s.kind = "symbols" /\
                       page' = [page EXCEPT !.session = TRUE, !.index = Tag(s, s.texts)]
                  /\ dirty' = dirty \cup {"events", "select"}
          /\ UNCHANGED <<expected, failed>>
  /\ UNCHANGED <<intent, select, watched>>

(* The answer to the handshake of onopen. *)
Handshake(r) ==
  /\ r.to = "events"
  /\ Exchange(<<>>, {r}, {})
  /\ IF r.error = "" /\ r.id # watched
     THEN Reset(r.id) /\ UNCHANGED failed
     ELSE failed' = (failed \/ r.error # "") /\ UNCHANGED <<expected, page, dirty>>
  /\ UNCHANGED <<intent, boot, loaded, select, watched>>

(* Of select(): the symbol, its product, the run that computed it. *)
Selection(r) ==
  LET next == CASE select = "symbol" -> "product" [] select = "product" -> "run"
                [] OTHER -> "idle" IN
  /\ r.to = "select" /\ select # "idle"
  /\ IF Changed(r)
     THEN /\ Reset(r.id) /\ select' = "idle"
          /\ Exchange(<<>>, {r}, {})
          /\ UNCHANGED <<intent, failed>>
     ELSE IF r.error # ""
     THEN /\ select' = "idle" /\ failed' = TRUE
          /\ intent' = IF r.error = "symbol-not-found" THEN "directory" ELSE intent
          /\ dirty' = IF intent' = intent THEN dirty ELSE dirty \cup {"select"}
          /\ Exchange(<<>>, {r}, {})
          /\ UNCHANGED <<expected, page>>
     ELSE /\ select' = next
          /\ page' = CASE select = "symbol" -> [page EXCEPT !.selected = Tag(r, r.texts), !.run = None]
                       [] select = "product" -> [page EXCEPT !.product = Tag(r, r.texts)]
                       [] OTHER -> [page EXCEPT !.run = Tag(r, r.texts)]
          /\ Exchange(IF next = "idle" THEN <<>>
                      ELSE <<Ask("select", next,
                                 IF next = "run" THEN r.run ELSE None)>>, {r}, {})
          /\ UNCHANGED <<expected, dirty, intent, failed>>
  /\ UNCHANGED <<boot, loaded, watched>>

(* ContinuationNode: the rest of a truncated product, on demand.  Nothing  *)
(* cancels load(); a failure, a changed revision too, is shown in place.   *)
Continue ==
  /\ page.product # None /\ page.more = None
  /\ Happens
  /\ Exchange(<<Ask("more", "continuation", page.product.id)>>, {}, {})
  /\ UNCHANGED <<provider, alive, stream, events, watcher, edits, client>>

Continuation(r) ==
  /\ r.to = "more"
  /\ Exchange(<<>>, {r}, {})
  /\ page' = IF Changed(r) \/ r.error # "" \/ page.product = None THEN page
             ELSE [page EXCEPT !.more = Tag(r, r.texts)]
  /\ UNCHANGED <<expected, intent, failed, boot, loaded, select, watched, dirty>>

Receive ==
  /\ \E r \in replies :
       BootRevision(r) \/ BootLoaded(r) \/ Handshake(r) \/ Selection(r) \/ Continuation(r)
  /\ UNCHANGED <<provider, alive, stream, events, watcher, edits, happened>>

(* React commits: every effect whose dependencies changed is cancelled and *)
(* started again.                                                          *)
Commit ==
  LET selecting == intent = "symbol" /\ page.index # None /\ page.revision # None
      booted == "boot" \in dirty
      selects == "select" \in dirty
  IN  /\ dirty # {} /\ dirty' = {}
      /\ Exchange((IF booted THEN <<Ask("boot", "revision", None)>> ELSE <<>>)
                  \o (IF selects /\ selecting THEN <<Ask("select", "symbol", None)>> ELSE <<>>),
                  {}, IF booted THEN dirty \cup {"more"} ELSE dirty)
      /\ boot' = IF booted THEN "revision" ELSE boot
      /\ loaded' = IF booted THEN {} ELSE loaded
      /\ failed' = IF booted \/ (selects /\ selecting) THEN FALSE ELSE failed
      /\ IF "events" \in dirty
         THEN /\ stream' = IF page.session THEN "connecting" ELSE "off"
              /\ events' = <<>> /\ watched' = page.revision
         ELSE UNCHANGED <<stream, events, watched>>
      /\ select' = IF ~ selects THEN select ELSE IF selecting THEN "symbol" ELSE "idle"
      /\ page' = IF selects /\ ~ selecting
                 THEN [page EXCEPT !.selected = None, !.product = None, !.run = None,
                                   !.more = None]
                 ELSE page
      /\ UNCHANGED <<provider, alive, watcher, edits, happened, expected, intent>>

(* Variant: the stream opens without asking what was missed. *)
ConnectWithoutHandshake ==
  /\ stream = "connecting"
  /\ stream' = "open" /\ events' = <<>>
  /\ UNCHANGED <<provider, alive, mailbox, replies, watcher, edits, happened, client>>

(* The subscription exists before onopen asks for the current revision. *)
Connect ==
  /\ stream = "connecting"
  /\ stream' = "open" /\ events' = <<>>
  /\ Exchange(<<Ask("events", "revision", None)>>, {}, {})
  /\ UNCHANGED <<provider, alive, watcher, edits, happened, client>>

(* advance *)
Deliver ==
  /\ stream = "open" /\ events # <<>>
  /\ events' = Tail(events)
  /\ IF Head(events) # watched THEN Reset(Head(events)) ELSE UNCHANGED <<expected, page, dirty>>
  /\ UNCHANGED <<provider, alive, mailbox, replies, stream, watcher, edits, happened,
                 intent, failed, boot, loaded, select, watched>>

(* The connection drops; EventSource connects again on its own. *)
Cut ==
  /\ stream = "open" /\ Happens
  /\ stream' = "connecting" /\ events' = <<>>
  /\ UNCHANGED <<provider, alive, mailbox, replies, watcher, edits, client>>

(* What is rendered: nothing before the session and the directory are in.  *)
Shown ==
  IF page.session /\ page.index # None /\ page.revision # None
  THEN {page.index, page.selected, page.product, page.run, page.more} \ {None}
  ELSE {}

OfService == UNCHANGED client /\ (Serve \/ Panic \/ Edit \/ DirectProduct)

Next == OfService \/ Receive \/ Continue \/ Commit \/ Connect \/ Deliver \/ Cut

(* The actor's loop, the watcher's block_on, React and the browser's event *)
(* loop keep running; edits, panics and lost connections need not happen.  *)
Fairness ==
  /\ WF_vars(Serve /\ UNCHANGED client)
  /\ WF_vars(Receive) /\ WF_vars(Commit) /\ WF_vars(Connect) /\ WF_vars(Deliver)

Spec == Init /\ [][Next]_vars /\ Fairness

-----------------------------------------------------------------------------

(* The state has the expected shape. *)
TypeOK ==
  /\ generation \in Nat /\ salsa \in Nat /\ DOMAIN texts \in {DOMAIN w : w \in Workspaces}
  /\ Len(retained) \in 1 .. RetainedLimit
  /\ nextRun \in Nat /\ runs \subseteq 1 .. nextRun
  /\ stale \in BOOLEAN /\ alive \in BOOLEAN /\ failed \in BOOLEAN
  /\ stream \in {"off", "connecting", "open"} /\ watcher \in {"idle", "waiting"}
  /\ boot \in {"idle", "revision", "loading"} /\ dirty \subseteq Effects
  /\ select \in {"idle", "symbol", "product", "run"} /\ intent \in {"symbol", "directory"}
  /\ Len(events) <= EventCapacity

(* What is kept belongs to a retained revision, and all of it is there     *)
(* (push_revision): the current revision is the last of the retained ones, *)
(* their runs are the runs that can be read, a product's run is one of     *)
(* them, and every product and continuation is what its revision's inputs  *)
(* give.  A cached directory that is not marked stale is the current one   *)
(* (symbols, symbol, product, apply_updates, reload_workspace).            *)
RetainedTogether ==
  LET ids == {retained[i].id : i \in DOMAIN retained}
      at(id) == CHOOSE i \in DOMAIN retained : retained[i].id = id IN
  /\ TypeOK
  /\ retained[Len(retained)].id = RevisionId
  /\ retained[Len(retained)].inputs = texts
  /\ \A i, j \in DOMAIN retained : retained[i].id = retained[j].id => i = j
  /\ runs = UNION {retained[i].runs : i \in DOMAIN retained}
  /\ DOMAIN products \subseteq ids /\ DOMAIN continuations \subseteq ids
  /\ \A id \in DOMAIN products :
       products[id].texts = retained[at(id)].inputs /\ products[id].run \in runs
  /\ \A id \in DOMAIN continuations : continuations[id] = retained[at(id)].inputs
  /\ directory # None /\ ~ stale => directory = texts

(* All that the page shows was computed from the same texts, at the        *)
(* revision it displays ("the browser never installs a response whose ID   *)
(* differs from the revision it is displaying"), whatever edits, reloads,  *)
(* lost events and abandoned requests happened in between.                 *)
DisplayCoherent ==
  /\ \A t \in Shown : t.id = page.revision
  /\ \A t, u \in Shown : t.texts = u.texts

(* While the page displays the current revision, what it shows is true of  *)
(* the files the host has: a revision names one state of the inputs, so    *)
(* that no part of a batch and no other database can hide behind it.       *)
DisplayTrue ==
  page.revision = RevisionId => \A t \in Shown : t.texts = texts

(* In the end the page displays the current revision with everything the   *)
(* URL asks for, or the actor has died and the page says so.               *)
Settled ==
  /\ page.revision = RevisionId /\ page.session /\ page.index # None
  /\ intent = "symbol" => page.selected # None /\ page.product # None /\ page.run # None
PageCatchesUp == <>[](IF alive THEN Settled ELSE Settled \/ failed)

(* Nobody waits for ever: whoever waits for an answer has a request in the *)
(* mailbox or an answer under way, also after the actor died with a full   *)
(* mailbox (send, serve_actor).                                            *)
NobodyForgotten ==
  LET underway == {m.from : m \in ToSet(mailbox)} \cup {r.to : r \in replies} IN
  /\ watcher = "waiting" => "watcher" \in underway
  /\ boot # "idle" => "boot" \in underway
  /\ select # "idle" => "select" \in underway

=============================================================================
