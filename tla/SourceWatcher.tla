----------------------------- MODULE SourceWatcher -----------------------------
(***************************************************************************)
(* The source watcher of "cargo sage inspect" (spawn_file_watcher in       *)
(* src/main.rs) between a disk that users edit, the watches it installs,   *)
(* and the database actor, which it asks to apply a batch or to reload.    *)
(* The host and the reconfiguration of watches are the modules it extends. *)
(***************************************************************************)
EXTENDS AnalysisHost, WatchReconfiguration, SequencesExt

CONSTANTS
  Roots,           \* desired_watch_roots of a layout: path -> mode
  Directory,       \* the directory of a file, and of the manifest
  Inside,          \* pairs of directories <<d, e>>: d is e or below e
  MaxText,         \* texts are 1 .. MaxText
  EditBound        \* edits in one behaviour

Manifest == "manifest"
Paths == Files \cup {Manifest}

ASSUME WatcherAssumption == Manifest \notin Files /\ MaxText \in Nat /\ EditBound \in Nat

VARIABLES
  queue,           \* notifications: the path, and whether it appeared or disappeared
  watcherPc,       \* "starting", "installing", "idle", "reading", "applying", "reloading",
                   \* "configuring" or "stopped"
  batch,           \* the paths of the batch
  required,        \* reload_required
  unread,          \* .rs files of the batch that are not read yet
  updates,         \* file -> text, read from disk
  missed,          \* paths whose staleness is nobody's fault (see Edit and Dropped)
  edits

watcherVars == <<queue, watcherPc, batch, required, unread, updates>>
vars == <<hostVars, watchVars, watcherVars, missed, edits>>

Covers(watches, p) ==
  \E d \in DOMAIN watches : \/ d = Directory[p]
                            \/ watches[d] = "recursive" /\ <<Directory[p], d>> \in Inside
Configuration(paths) == Manifest \in paths
Updated(h, batchOf) == [h EXCEPT !.texts = [f \in Files |->
                          IF f \in DOMAIN batchOf THEN batchOf[f] ELSE @[f]]]

(* A path is stale when the host does not have what is on disk. *)
Stale(h, p) == IF p = Manifest THEN h.layout # manifest
               ELSE p \in PackageFiles[h.layout] /\ h.texts[p] # disk[p]
StillStale(paths, h) == {p \in paths : Stale(h, p)}

Init ==
  /\ disk \in [Files -> {0, 1}] /\ manifest \in Layouts
  /\ HostInit /\ WatchInit
  /\ queue = <<>> /\ watcherPc = "starting"
  /\ batch = {} /\ required = FALSE /\ unread = {} /\ updates = << >>
  /\ missed = {} /\ edits = 0

-----------------------------------------------------------------------------
(* The user changes a file or the manifest.  What no watch covers at that  *)
(* moment is missed: while the host opens, while watches are replaced.     *)

Notify(p, membership) ==
  IF Covers(active, p)
  THEN /\ queue' = Append(queue, [path |-> p, membership |-> membership])
       /\ UNCHANGED missed
  ELSE missed' = missed \cup {p} /\ UNCHANGED queue

Edit ==
  /\ edits < EditBound /\ edits' = edits + 1
  /\ \/ \E f \in Files, text \in (0 .. MaxText) :
          /\ text # disk[f] /\ disk' = [disk EXCEPT ![f] = text]
          /\ Notify(f, text = 0 \/ disk[f] = 0)
          /\ UNCHANGED manifest
     \/ \E m \in Layouts \cup {Malformed} :
          /\ m # manifest /\ manifest' = m
          /\ Notify(Manifest, FALSE)
          /\ UNCHANGED disk
  /\ UNCHANGED <<hostPc, host, opening, rustc, watchVars, watcherPc, batch, required, unread,
                 updates>>

-----------------------------------------------------------------------------
(* Startup: the host is opened, its roots are watched, one attempt.        *)

Closed == next' = NoHost /\ scanned' = {}

Opened ==
  /\ watcherPc = "starting" /\ hostPc \in {"done", "failed"}
  /\ IF hostPc = "done"
     THEN /\ hostPc' = "idle" /\ watcherPc' = "installing"
          /\ Attempt(Roots[host.layout])
          /\ missed' = StillStale(missed, host)
     ELSE watcherPc' = "stopped" /\ UNCHANGED <<hostPc, watchVars, missed>>
  /\ Closed
  /\ UNCHANGED <<inputs, host, rustc, queue, batch, required, unread, updates, edits>>

(* The first attempt decides; after a reload failed attempts are retried   *)
(* until one succeeds.                                                     *)
Configured ==
  /\ watcherPc \in {"installing", "configuring"} /\ phase \in {"steady", "failed"}
  /\ CASE phase = "steady" -> watcherPc' = "idle" /\ UNCHANGED watchVars
       [] phase = "failed" /\ watcherPc = "installing" ->
            watcherPc' = "stopped" /\ UNCHANGED watchVars
       [] OTHER -> Attempt(desired) /\ UNCHANGED watcherPc
  /\ UNCHANGED <<hostVars, queue, batch, required, unread, updates, missed, edits>>

(* recv, then recv_timeout until it is quiet for 75 ms. *)
Collect ==
  /\ watcherPc = "idle" /\ queue # <<>>
  /\ \E n \in 1 .. Len(queue) :
       LET first == ToSet(SubSeq(queue, 1, n)) IN
       /\ queue' = SubSeq(queue, n + 1, Len(queue))
       /\ batch' = {e.path : e \in first}
       /\ required' = \E e \in first : e.membership
       /\ unread' = batch' \ {Manifest}
  /\ updates' = << >> /\ watcherPc' = "reading"
  /\ UNCHANGED <<hostVars, watchVars, missed, edits>>

(* A file that cannot be read is left out of the updates. *)
ReadFile ==
  /\ watcherPc = "reading"
  /\ \E f \in unread :
       /\ unread' = unread \ {f}
       /\ updates' = IF disk[f] = 0 THEN updates ELSE With(updates, f, disk[f])
  /\ UNCHANGED <<hostVars, watchVars, queue, watcherPc, batch, required, missed, edits>>

(* The batch ends with a reload or with a new wait. *)
ReloadIf(needed) ==
  /\ watcherPc' = IF needed THEN "reloading" ELSE "idle"
  /\ batch' = {} /\ required' = FALSE /\ updates' = << >>

Classify ==
  /\ watcherPc = "reading" /\ unread = {}
  /\ IF ~ Configuration(batch) /\ updates # << >>
     THEN watcherPc' = "applying" /\ UNCHANGED <<batch, required, updates>>
     ELSE ReloadIf(required \/ Configuration(batch))
  /\ UNCHANGED <<hostVars, watchVars, queue, unread, missed, edits>>

(* Variant: a file that the host does not know is ignored. *)
ApplyKnown ==
  /\ watcherPc = "applying" /\ hostPc = "idle"
  /\ LET known == Restrict(updates, {f \in DOMAIN updates : host.texts[f] # 0}) IN
     host' = Updated(host, known)
  /\ ReloadIf(FALSE)
  /\ missed' = StillStale(missed, host')
  /\ UNCHANGED <<inputs, hostPc, opening, rustc, watchVars, queue, unread, edits>>

(* apply_updates.  Once it has succeeded the watcher waits again, without  *)
(* a look at reload_required.                                              *)
Apply ==
  /\ watcherPc = "applying" /\ hostPc = "idle"
  /\ IF \E f \in DOMAIN updates : host.texts[f] = 0
     THEN ReloadIf(TRUE) /\ UNCHANGED host          \* unrepresented-source-file
     ELSE IF Updated(host, updates) = host
     THEN ReloadIf(required) /\ UNCHANGED host      \* no-input-changes
     ELSE ReloadIf(FALSE) /\ host' = Updated(host, updates)
  /\ missed' = StillStale(missed, host')
  /\ UNCHANGED <<inputs, hostPc, opening, rustc, watchVars, queue, unread, edits>>

BeginReload ==
  /\ watcherPc = "reloading" /\ hostPc = "idle"
  /\ hostPc' = "load"
  /\ UNCHANGED <<inputs, host, opening, rustc, watchVars, watcherVars, missed, edits>>

(* The roots of the new host are sent before the reply.  A failed reload   *)
(* is logged, and what the batch said is dropped.                          *)
Reloaded ==
  /\ watcherPc = "reloading" /\ hostPc \in {"done", "failed"}
  /\ hostPc' = "idle"
  /\ IF hostPc = "done"
     THEN /\ watcherPc' = "configuring" /\ Attempt(Roots[host.layout])
          /\ missed' = StillStale(missed, host)
     ELSE /\ watcherPc' = "idle" /\ UNCHANGED watchVars
          /\ missed' = StillStale(Paths, host)
  /\ Closed
  /\ UNCHANGED <<inputs, host, rustc, queue, batch, required, unread, updates, edits>>

(* actor-unavailable: logged, and the watcher goes on. *)
Refused ==
  /\ watcherPc \in {"applying", "reloading"} /\ hostPc = "dead"
  /\ ReloadIf(FALSE)
  /\ UNCHANGED <<hostVars, watchVars, queue, unread, missed, edits>>

-----------------------------------------------------------------------------

(* The actor's other requests; one that is behind the watcher's has not    *)
(* begun.                                                                  *)
Query == Ask /\ watcherPc \notin {"applying", "reloading"}

OfWatcher == Opened \/ Configured \/ Collect \/ ReadFile \/ Classify \/ Apply \/ BeginReload
             \/ Reloaded \/ Refused
OfHost == UNCHANGED <<watchVars, watcherVars, missed, edits>> /\ (Opening \/ Rustc)
OfWatches == /\ watcherPc \in {"installing", "configuring"} /\ Reconfigure
             /\ UNCHANGED <<hostVars, watcherVars, missed, edits>>

Next ==
  \/ Edit \/ OfWatcher \/ OfHost \/ OfWatches
  \/ Query /\ UNCHANGED <<watchVars, watcherVars, missed, edits>>

(* The watcher's loop, the owner of the host, the rustc threads and the    *)
(* calls of the backend go on; edits and queries need not come.            *)
Spec ==
  /\ Init /\ [][Next]_vars
  /\ WF_vars(OfWatcher) /\ WF_vars(OfHost) /\ WF_vars(OfWatches)

-----------------------------------------------------------------------------

(* The state has the expected shape. *)
TypeOK ==
  /\ HostTypeOK /\ WatchTypeOK
  /\ watcherPc \in {"starting", "installing", "idle", "reading", "applying", "reloading",
                    "configuring", "stopped"}
  /\ batch \subseteq Paths /\ unread \subseteq Files /\ DOMAIN updates \subseteq Files
  /\ required \in BOOLEAN /\ missed \subseteq Paths /\ edits \in 0 .. EditBound

(* A reload that fails is about to drop its batch, see Reloaded. *)
Dropping == watcherPc = "reloading" /\ hostPc \in {"join", "failed"}

Running == watcherPc \notin {"starting", "installing", "stopped"} /\ hostPc # "dead"

(* The files of the target's source tree and the configuration: what the   *)
(* watches of the host's layout cover.                                     *)
Sources == {p \in Paths : Covers(Roots[host.layout], p)}

(* A change of p is on its way: a notification waits, or the batch that    *)
(* holds its text or asks for a reload is being worked on.                 *)
Notified(p) == \E i \in DOMAIN queue : queue[i].path = p
ReadAgain(p) ==
  /\ watcherPc = "reloading"
  /\ \/ hostPc \in {"idle", "asking", "load"}
     \/ p # Manifest /\ hostPc = "scan" /\ p \notin scanned
     \/ next # NoHost /\ ~ Stale(next, p)
UnderWay(p) ==
  \/ Notified(p)
  \/ watcherPc = "reading" /\ (p \in unread \/ Configuration(batch))
  \/ watcherPc \in {"reading", "applying"} /\ p \in DOMAIN updates /\ updates[p] = disk[p]
  \/ ReadAgain(p)

(* No edit is lost while the watcher runs: a file whose text is not the    *)
(* one on disk, a new file, or a new configuration is under way, whatever  *)
(* was edited while files were read, the host was rebuilt or watches were  *)
(* replaced; except for what no watch covered and what a failed reload     *)
(* dropped.                                                                *)
ChangeIsPending ==
  /\ TypeOK
  /\ Running /\ ~ Dropping => \A p \in Sources \ missed :
       (Stale(host, p) /\ (p = Manifest \/ disk[p] # 0)) => UnderWay(p)

(* What the watches cover without those that change their mode. *)
CoversWithout(watches, changing, p) == Covers(Restrict(watches, DOMAIN watches \ changing), p)

(* While watches are replaced, what the old and the new set both cover     *)
(* stays covered through every call, failure, rollback and retry, unless a *)
(* rollback failed ("it never sacrifices coverage of the new source tree") *)
(* or only watches that change their mode cover it: then there is a gap,   *)
(* and an obsolete watch kept by a failed cleanup can bring that about.    *)
(* Between batches the whole new source tree is watched with the modes     *)
(* that were asked for, cleanup failures or not.                           *)
CoveredThroughout ==
  LET changing == {d \in DOMAIN prior \cap DOMAIN desired : prior[d] # desired[d]} IN
  /\ watcherPc = "configuring" /\ ~ degraded =>
       \A p \in Paths :
         /\ Covers(prior, p) /\ Covers(desired, p)
         /\ CoversWithout(prior, changing, p) \/ CoversWithout(desired, changing, p)
         => Covers(active, p)
  /\ watcherPc \in {"idle", "reading", "applying", "reloading"} =>
       \A d \in DOMAIN desired : d \in DOMAIN active /\ active[d] = desired[d]

(* In the end the host has what is on disk: no join, no blocked request    *)
(* and no retry keeps the watcher from its queue.                          *)
CatchesUp ==
  <>[](\/ watcherPc = "stopped" \/ hostPc = "dead"
       \/ /\ watcherPc = "idle" /\ queue = <<>>
          /\ \A p \in Sources \ missed :
               Stale(host, p) => (p # Manifest /\ disk[p] = 0))

=============================================================================
