-------------------------- MODULE SourceWatcher_proofs --------------------------
(* Proofs about the live host and the watches of its source tree, for any        *)
(* package layouts and files, any number of rustc threads and of failures, and    *)
(* any edits.                                                                     *)
EXTENDS SourceWatcher, FiniteSetTheorems, SequenceTheorems, TLAPS

-----------------------------------------------------------------------------
(* The host.                                                                   *)

\* The thread of the published host, if there is one.
Mine == {host.thread} \cap Threads

\* What the owner of the host is doing: without a second thread, or with one.
Alone == {"load", "scan", "spawn", "failed", "idle", "asking", "done"}
Paired == {"await", "join", "build", "swap"}
Published == {"idle", "asking", "done"}

HostShape ==
    /\ hostPc \in Alone \cup Paired \cup {"retire", "dead"}
    /\ "thread" \in DOMAIN host /\ "thread" \in DOMAIN next
    /\ host.thread \in Threads \cup {0}
    /\ host = NoHost \/ host.thread \in Threads
    /\ hostPc \in Published => host.thread \in Threads
    /\ thread \in [Threads -> {"none", "expanding", "serving", "ended"}]

\* Channels and stubs exist for the published host and for the one being opened.
Owned ==
    /\ hostPc \in Alone => open = Mine /\ stubs = Mine
    /\ hostPc \in Paired => open = Mine \cup {next.thread}
    /\ hostPc = "retire" => open = {next.thread}
    /\ hostPc \in Paired \cup {"retire"} =>
         next.thread \in Threads \ Mine /\ stubs = Mine \cup {next.thread}

\* Who serves, and who may still report readiness: only the thread being awaited.
Served ==
    /\ hostPc \notin {"retire", "dead"} => \A t \in Mine : thread[t] = "serving"
    /\ hostPc \in {"build", "swap", "retire"} => thread[next.thread] = "serving"
    /\ hostPc = "await" /\ ready = "ok" => thread[next.thread] = "serving"
    /\ \A t \in Threads : thread[t] = "expanding" =>
         hostPc = "await" /\ ready = "none" /\ t = next.thread

HostInv == HostShape /\ Owned /\ Served

\* Once the first host is open the watcher has one.
OpenedOnce == watcherPc \notin {"starting", "stopped"} => host.thread \in Threads

-----------------------------------------------------------------------------
(* The watches.                                                                *)

IsFunction(f) == f = [p \in DOMAIN f |-> f[p]]

\* Every path of the new set has its mode.
Complete == \A p \in DOMAIN desired : p \in DOMAIN active /\ active[p] = desired[p]

\* Until obsolete watches are removed the old set is there, but for the changes
\* this attempt remembers; a mode is changed only once every new path is watched.
Remembered ==
    /\ DOMAIN active = (DOMAIN prior \ hole) \cup installed
    /\ hole \subseteq DOMAIN prior /\ replaced \subseteq DOMAIN prior
    /\ \A p \in DOMAIN prior \ (replaced \cup hole) : active[p] = prior[p]
    /\ \A p \in installed : p \notin DOMAIN prior /\ p \in DOMAIN desired /\ active[p] = desired[p]
    /\ \A p \in replaced \cup hole : p \in DOMAIN desired /\ prior[p] # desired[p]
    /\ replaced \cup hole # {} => DOMAIN desired \subseteq DOMAIN active \cup hole

WatchInv ==
    /\ IsFunction(active) /\ IsFunction(prior)
    /\ phase \in {"steady", "working", "restoring", "undoing", "failed"}
    /\ \A p, q \in hole : p = q
    /\ phase = "steady" => Complete
    /\ phase = "working" => Remembered \/ (hole = {} /\ Complete)
    /\ phase \in {"restoring", "undoing"} /\ ~degraded => Remembered
    /\ phase = "failed" /\ ~degraded => active = prior

\* Watches change only while the watcher waits for them.
Settled ==
    /\ watcherPc \in {"starting", "installing", "idle", "reading", "applying", "reloading",
                      "configuring", "stopped"}
    /\ watcherPc \in {"idle", "reading", "applying", "reloading"} => Complete

Inv == HostInv /\ OpenedOnce /\ WatchInv /\ Settled

-----------------------------------------------------------------------------
(* The steps of the host.                                                      *)

LEMMA ZeroIsNoThread == 0 \notin Threads /\ NoHost.thread = 0 /\ "thread" \in DOMAIN NoHost
  BY DEF Threads, NoHost

(* Changing what a host has registered does not change its thread. *)
LEMMA SameThread ==
  ASSUME NEW h, "thread" \in DOMAIN h, NEW texts
  PROVE  "thread" \in DOMAIN [h EXCEPT !.texts = texts] /\ [h EXCEPT !.texts = texts].thread = h.thread
  OBVIOUS

LEMMA LoadWorkspaceOK == ASSUME HostInv, LoadWorkspace PROVE HostInv'
  <1>1. /\ hostPc = "load" /\ hostPc' \in {"scan", "failed"}
        /\ UNCHANGED <<host, thread, ready, open, stubs>>
    BY DEF LoadWorkspace, rustc
  <1>2. "thread" \in DOMAIN next'
    <2>1. CASE manifest \in Layouts
      <3>1. next' = [NoHost EXCEPT !.layout = manifest]
        BY <2>1 DEF LoadWorkspace
      <3> QED BY <3>1, ZeroIsNoThread DEF NoHost
    <2>2. CASE manifest \notin Layouts
      BY <2>2 DEF LoadWorkspace, opening, HostInv, HostShape
    <2> QED BY <2>1, <2>2
  <1> QED
    BY <1>1, <1>2 DEF HostInv, HostShape, Owned, Served, Mine, Alone, Paired, Published

LEMMA ScanFileOK == ASSUME HostInv, ScanFile PROVE HostInv'
  <1>1. /\ hostPc = "scan" /\ hostPc' \in {"scan", "spawn"}
        /\ UNCHANGED <<host, thread, ready, open, stubs>>
    BY DEF ScanFile, rustc
  <1>2. "thread" \in DOMAIN next'
    BY DEF ScanFile, HostInv, HostShape
  <1> QED
    BY <1>1, <1>2 DEF HostInv, HostShape, Owned, Served, Mine, Alone, Paired, Published

LEMMA SpawnOK == ASSUME HostInv, Spawn PROVE HostInv'
  <1>1. PICK t \in Threads :
          /\ thread[t] = "none" /\ next' = [next EXCEPT !.thread = t]
          /\ thread' = [thread EXCEPT ![t] = "expanding"]
          /\ open' = open \cup {t} /\ stubs' = stubs \cup {t}
    BY DEF Spawn
  <1>2. hostPc = "spawn" /\ hostPc' = "await" /\ ready' = "none" /\ host' = host
    BY DEF Spawn
  <1>3. "thread" \in DOMAIN next' /\ next'.thread = t
    BY <1>1 DEF HostInv, HostShape
  <1>4. t \notin Mine
    BY <1>1, <1>2 DEF HostInv, Served
  <1> QED
    BY <1>1, <1>2, <1>3, <1>4 DEF HostInv, HostShape, Owned, Served, Mine, Alone, Paired, Published

LEMMA AwaitOK == ASSUME HostInv, Await PROVE HostInv'
  <1>1. /\ hostPc = "await" /\ ready # "none" /\ hostPc' = (IF ready = "ok" THEN "build" ELSE "join")
        /\ UNCHANGED <<host, next, thread, ready, open, stubs>>
    BY DEF Await, rustc, opening
  <1> QED
    BY <1>1 DEF HostInv, HostShape, Owned, Served, Mine, Alone, Paired, Published

LEMMA JoinFailedOK == ASSUME HostInv, JoinFailed PROVE HostInv'
  <1>1. /\ hostPc = "join" /\ hostPc' = "failed" /\ UNCHANGED <<host, next, thread, ready>>
        /\ open' = open \ {next.thread} /\ stubs' = stubs \ {next.thread}
    BY DEF JoinFailed, Forget, opening
  <1> QED
    BY <1>1 DEF HostInv, HostShape, Owned, Served, Mine, Alone, Paired, Published

LEMMA BuildOK == ASSUME HostInv, Build PROVE HostInv'
  <1>1. hostPc = "build" /\ UNCHANGED <<host, next, thread, ready>>
    BY DEF Build, Forget, opening, rustc
  <1>2. \/ /\ hostPc' = "failed" /\ open' = open \ {next.thread} /\ stubs' = stubs \ {next.thread}
        \/ hostPc' = "swap" /\ open' = open /\ stubs' = stubs
    BY DEF Build, Forget, rustc
  <1> QED
    BY <1>1, <1>2 DEF HostInv, HostShape, Owned, Served, Mine, Alone, Paired, Published

LEMMA CloseOldOK == ASSUME HostInv, CloseOld PROVE HostInv'
  <1>1. /\ hostPc = "swap" /\ hostPc' = "retire" /\ UNCHANGED <<host, next, thread, ready, stubs>>
        /\ open' = open \ {host.thread}
    BY DEF CloseOld, opening
  <1>2. open' = {next.thread}
    BY <1>1 DEF HostInv, Owned, Mine, Paired
  <1> QED
    BY <1>1, <1>2 DEF HostInv, HostShape, Owned, Served, Mine, Alone, Paired, Published

LEMMA SwapOK == ASSUME HostInv, Swap PROVE HostInv'
  <1>1. /\ hostPc = "retire" /\ hostPc' = "done" /\ host' = next /\ UNCHANGED <<next, thread, ready>>
        /\ open' = open \ {host.thread} /\ stubs' = stubs \ {host.thread}
    BY DEF Swap, Forget, opening
  <1>2. next.thread \in Threads \ Mine /\ thread[next.thread] = "serving"
    BY <1>1 DEF HostInv, Owned, Served
  <1>3. Mine' = {next.thread} /\ next.thread # host.thread
    BY <1>1, <1>2 DEF Mine, Threads
  <1>4. open' = Mine' /\ stubs' = Mine'
    BY <1>1, <1>2, <1>3 DEF HostInv, Owned, Mine
  <1>5. HostShape'
    BY <1>1, <1>2 DEF HostInv, HostShape, Alone, Paired, Published
  <1>6. Owned'
    BY <1>1, <1>4 DEF Owned, Alone, Paired
  <1>7. Served'
    BY <1>1, <1>2, <1>3 DEF HostInv, Served
  <1> QED
    BY <1>5, <1>6, <1>7 DEF HostInv

LEMMA ExpandOK == ASSUME HostInv, NEW t \in Threads, Expand(t) PROVE HostInv'
  <1>1. /\ thread[t] = "expanding" /\ UNCHANGED <<hostPc, host, next, open, stubs>>
        /\ \/ ready' = "ok" /\ thread' = [thread EXCEPT ![t] = "serving"]
           \/ ready' = "error" /\ thread' = [thread EXCEPT ![t] = "ended"]
    BY DEF Expand, opening
  <1>2. hostPc = "await" /\ t = next.thread
    BY <1>1 DEF HostInv, Served
  <1>3. t \notin Mine
    BY <1>2 DEF HostInv, Owned, Paired
  <1> QED
    BY <1>1, <1>2, <1>3 DEF HostInv, HostShape, Owned, Served, Mine, Alone, Paired, Published

LEMMA EndServingOK == ASSUME HostInv, NEW t \in Threads, EndServing(t) PROVE HostInv'
  <1>1. /\ t \notin open /\ thread' = [thread EXCEPT ![t] = "ended"]
        /\ UNCHANGED <<hostPc, host, next, ready, open, stubs>>
    BY DEF EndServing, opening
  <1>2. /\ hostPc \in Alone \cup Paired => t \notin Mine
        /\ hostPc \in Paired \cup {"retire"} => t # next.thread
    BY <1>1 DEF HostInv, Owned
  <1> QED
    BY <1>1, <1>2 DEF HostInv, HostShape, Owned, Served, Mine, Alone, Paired, Published

LEMMA AskOK == ASSUME HostInv, Ask PROVE HostInv'
  <1>1. hostPc = "idle" /\ hostPc' = "asking" /\ UNCHANGED <<host, next, thread, ready, open, stubs>>
    BY DEF Ask, opening, rustc
  <1> QED
    BY <1>1 DEF HostInv, HostShape, Owned, Served, Mine, Alone, Paired, Published

LEMMA AnswerOK == ASSUME HostInv, NEW t \in Threads, Answer(t) PROVE HostInv'
  <1>1. hostPc = "asking" /\ UNCHANGED <<host, next, ready>>
    BY DEF Answer, opening, rustc
  <1>2. \/ hostPc' = "idle" /\ UNCHANGED <<thread, open, stubs>>
        \/ hostPc' = "dead" /\ thread' = [thread EXCEPT ![t] = "ended"]
    BY DEF Answer, rustc
  <1> QED
    BY <1>1, <1>2 DEF HostInv, HostShape, Owned, Served, Mine, Alone, Paired, Published

LEMMA OfHostOK == ASSUME HostInv, OpenedOnce, OfHost PROVE HostInv' /\ OpenedOnce'
  <1>1. HostInv'
    BY LoadWorkspaceOK, ScanFileOK, SpawnOK, AwaitOK, JoinFailedOK, BuildOK, CloseOldOK, SwapOK,
       ExpandOK, EndServingOK, AnswerOK DEF OfHost, Opening, Rustc
  <1>2. watcherPc' = watcherPc
    BY DEF OfHost, watcherVars
  <1>3. host' = host \/ Swap
    BY DEF OfHost, Opening, Rustc, LoadWorkspace, ScanFile, Spawn, Await, JoinFailed, Build, CloseOld,
           Expand, EndServing, Answer
  <1>4. Swap => hostPc' = "done"
    BY DEF Swap
  <1> QED
    BY <1>1, <1>2, <1>3, <1>4 DEF OpenedOnce, HostInv, HostShape, Published

-----------------------------------------------------------------------------
(* The steps of a reconfiguration.                                             *)

LEMMA AttemptOK == ASSUME WatchInv, NEW roots, Attempt(roots) PROVE WatchInv'
  <1>1. /\ prior' = active /\ active' = active /\ phase' = "working"
        /\ installed' = {} /\ replaced' = {} /\ hole' = {}
    BY DEF Attempt
  <1>2. Remembered'
    BY <1>1 DEF Remembered
  <1> QED
    BY <1>1, <1>2 DEF WatchInv, IsFunction

LEMMA InstallOK == ASSUME WatchInv, NEW p, Install(p) PROVE WatchInv'
  <1>1. /\ phase = "working" /\ hole = {} /\ p \in DOMAIN desired \ DOMAIN active
        /\ UNCHANGED <<desired, prior, replaced, hole, degraded>>
    BY DEF Install, Additions, attempt
  <1>2. Remembered /\ replaced = {}
    BY <1>1 DEF WatchInv, Remembered, Complete
  <1>3. CASE /\ active' = With(active, p, desired[p]) /\ installed' = installed \cup {p}
             /\ phase' = phase
    <2>1. /\ IsFunction(active') /\ DOMAIN active' = DOMAIN active \cup {p}
          /\ active'[p] = desired[p] /\ \A q \in DOMAIN active \ {p} : active'[q] = active[q]
      BY <1>3 DEF With, IsFunction
    <2>2. DOMAIN active' = (DOMAIN prior \ hole) \cup installed'
      BY <1>2, <1>3, <2>1 DEF Remembered
    <2>3. p \notin DOMAIN prior
      BY <1>1, <1>2 DEF Remembered
    <2>4. Remembered'
      BY <1>1, <1>2, <1>3, <2>1, <2>2, <2>3 DEF Remembered
    <2> QED BY <1>1, <1>3, <2>1, <2>4 DEF WatchInv
  <1>4. CASE phase' = "undoing" /\ UNCHANGED <<active, installed>>
    BY <1>1, <1>2, <1>4 DEF WatchInv, Remembered, IsFunction
  <1> QED
    BY <1>3, <1>4 DEF Install

LEMMA UnwatchOK == ASSUME WatchInv, NEW p, Unwatch(p) PROVE WatchInv'
  <1>1. /\ phase = "working" /\ hole = {} /\ DOMAIN desired \subseteq DOMAIN active
        /\ p \in DOMAIN desired \cap DOMAIN active /\ active[p] # desired[p]
        /\ UNCHANGED <<desired, prior, installed, replaced, degraded>>
    BY DEF Unwatch, Additions, Replacements, attempt
  <1>2. Remembered
    BY <1>1 DEF WatchInv, Complete
  <1>3. p \in DOMAIN prior /\ p \notin installed
    BY <1>1, <1>2 DEF Remembered
  <1>4. CASE active' = Without(active, p) /\ hole' = {p} /\ phase' = phase
    <2>1. prior[p] # desired[p]
      BY <1>1, <1>2, <1>3 DEF Remembered
    <2>2. /\ IsFunction(active') /\ DOMAIN active' = DOMAIN active \ {p}
          /\ \A q \in DOMAIN active \ {p} : active'[q] = active[q]
      BY <1>4 DEF Without, Restrict, IsFunction
    <2>3. DOMAIN active' = (DOMAIN prior \ hole') \cup installed
      BY <1>1, <1>2, <1>3, <1>4, <2>2 DEF Remembered
    <2>4. Remembered'
      BY <1>1, <1>2, <1>3, <1>4, <2>1, <2>2, <2>3 DEF Remembered
    <2> QED BY <1>1, <1>4, <2>2, <2>4 DEF WatchInv
  <1>5. CASE phase' = "undoing" /\ UNCHANGED <<active, hole>>
    BY <1>1, <1>2, <1>5 DEF WatchInv, Remembered, IsFunction
  <1> QED
    BY <1>4, <1>5 DEF Unwatch

LEMMA RewatchOK == ASSUME WatchInv, NEW p, Rewatch(p) PROVE WatchInv'
  <1>1. phase = "working" /\ p \in hole /\ UNCHANGED <<desired, prior, installed, degraded>>
    BY DEF Rewatch, attempt
  <1>2. Remembered
    BY <1>1 DEF WatchInv
  <1>3. CASE /\ active' = With(active, p, desired[p]) /\ replaced' = replaced \cup {p}
             /\ hole' = {} /\ phase' = phase
    <2>1. /\ IsFunction(active') /\ DOMAIN active' = DOMAIN active \cup {p}
          /\ active'[p] = desired[p] /\ \A q \in DOMAIN active \ {p} : active'[q] = active[q]
      BY <1>3 DEF With, IsFunction
    <2>2. hole = {p}
      BY <1>1 DEF WatchInv
    <2>3. DOMAIN active' = (DOMAIN prior \ hole') \cup installed
      BY <1>2, <1>3, <2>1, <2>2 DEF Remembered
    <2>4. p \notin installed /\ p \in DOMAIN desired /\ prior[p] # desired[p]
      BY <1>1, <1>2 DEF Remembered
    <2>5. Remembered'
      BY <1>1, <1>2, <1>3, <2>1, <2>2, <2>3, <2>4 DEF Remembered
    <2> QED BY <1>1, <1>3, <2>1, <2>5 DEF WatchInv
  <1>4. CASE phase' = "restoring" /\ UNCHANGED <<active, replaced, hole>>
    BY <1>1, <1>2, <1>4 DEF WatchInv, Remembered, IsFunction
  <1> QED
    BY <1>3, <1>4 DEF Rewatch

LEMMA RestoreOK == ASSUME WatchInv, NEW p, Restore(p) PROVE WatchInv'
  <1>1. /\ phase = "restoring" /\ p \in hole /\ phase' = "undoing" /\ hole' = {}
        /\ UNCHANGED <<desired, prior, installed, replaced>>
    BY DEF Restore, attempt
  <1>2. hole = {p}
    BY <1>1 DEF WatchInv
  <1>3. CASE active' = With(active, p, prior[p]) /\ degraded' = degraded
    <2>1. /\ IsFunction(active') /\ DOMAIN active' = DOMAIN active \cup {p}
          /\ active'[p] = prior[p] /\ \A q \in DOMAIN active \ {p} : active'[q] = active[q]
      BY <1>3 DEF With, IsFunction
    <2>2. ASSUME ~degraded PROVE Remembered'
      <3>1. Remembered
        BY <1>1, <2>2 DEF WatchInv
      <3>2. DOMAIN active' = (DOMAIN prior \ hole') \cup installed
        BY <1>1, <1>2, <2>1, <3>1 DEF Remembered
      <3>3. p \notin installed /\ p \in DOMAIN prior
        BY <1>1, <3>1 DEF Remembered
      <3> QED BY <1>1, <1>2, <2>1, <3>1, <3>2, <3>3 DEF Remembered
    <2> QED BY <1>1, <1>3, <2>1, <2>2 DEF WatchInv
  <1>4. CASE degraded' = TRUE /\ active' = active
    BY <1>1, <1>4 DEF WatchInv, IsFunction
  <1> QED
    BY <1>3, <1>4 DEF Restore

LEMMA CleanOK == ASSUME WatchInv, NEW p, Clean(p) PROVE WatchInv'
  <1>1. /\ phase = "working" /\ phase' = phase /\ hole = {} /\ hole' = hole
        /\ UNCHANGED <<desired, prior, installed, replaced, degraded>>
        /\ p \notin DOMAIN desired
        /\ active' = active \/ active' = Without(active, p)
    BY DEF Clean, Obsolete, attempt
  <1>2. Complete
    BY DEF Clean, Complete, Additions, Replacements
  <1>3. IsFunction(active') /\ \A q \in DOMAIN active \ {p} : q \in DOMAIN active' /\ active'[q] = active[q]
    <2>1. CASE active' = active
      BY <2>1 DEF WatchInv
    <2>2. CASE active' = Without(active, p)
      BY <2>2 DEF Without, Restrict, IsFunction
    <2> QED BY <1>1, <2>1, <2>2
  <1>4. Complete'
    BY <1>1, <1>2, <1>3 DEF Complete
  <1> QED
    BY <1>1, <1>3, <1>4 DEF WatchInv, IsFunction

LEMMA FinishOK == ASSUME WatchInv, Finish PROVE WatchInv'
  <1>1. /\ phase' = "steady" /\ UNCHANGED <<active, desired, prior>> /\ hole' = {}
    BY DEF Finish, attempt
  <1>2. Complete'
    BY <1>1 DEF Finish, Complete, Additions, Replacements
  <1> QED
    BY <1>1, <1>2 DEF WatchInv, IsFunction

LEMMA UndoUnwatchOK == ASSUME WatchInv, NEW p, UndoUnwatch(p) PROVE WatchInv'
  <1>1. /\ phase = "undoing" /\ phase' = phase /\ hole = {} /\ hole' = {p} /\ p \in replaced
        /\ UNCHANGED <<desired, prior, installed, replaced>>
    BY DEF UndoUnwatch, attempt
  <1>2. CASE active' = Without(active, p) /\ degraded' = degraded
    <2>1. /\ IsFunction(active') /\ DOMAIN active' = DOMAIN active \ {p}
          /\ \A q \in DOMAIN active \ {p} : active'[q] = active[q]
      BY <1>2 DEF Without, Restrict, IsFunction
    <2>2. ASSUME ~degraded PROVE Remembered'
      <3>1. Remembered
        BY <1>1, <2>2 DEF WatchInv
      <3>2. p \in DOMAIN prior /\ p \notin installed /\ p \in DOMAIN desired
        BY <1>1, <3>1 DEF Remembered
      <3>3. DOMAIN active' = (DOMAIN prior \ hole') \cup installed
        BY <1>1, <2>1, <3>1, <3>2 DEF Remembered
      <3> QED BY <1>1, <2>1, <3>1, <3>2, <3>3 DEF Remembered
    <2> QED BY <1>1, <1>2, <2>1, <2>2 DEF WatchInv
  <1>3. CASE degraded' = TRUE /\ active' = active
    BY <1>1, <1>3 DEF WatchInv, IsFunction
  <1> QED
    BY <1>2, <1>3 DEF UndoUnwatch

LEMMA UndoRewatchOK == ASSUME WatchInv, NEW p, UndoRewatch(p) PROVE WatchInv'
  <1>1. /\ phase = "undoing" /\ phase' = phase /\ p \in hole /\ hole' = {}
        /\ replaced' = replaced \ {p} /\ UNCHANGED <<desired, prior, installed>>
    BY DEF UndoRewatch, attempt
  <1>2. hole = {p}
    BY <1>1 DEF WatchInv
  <1>3. CASE active' = With(active, p, prior[p]) /\ degraded' = degraded
    <2>1. /\ IsFunction(active') /\ DOMAIN active' = DOMAIN active \cup {p}
          /\ active'[p] = prior[p] /\ \A q \in DOMAIN active \ {p} : active'[q] = active[q]
      BY <1>3 DEF With, IsFunction
    <2>2. ASSUME ~degraded PROVE Remembered'
      <3>1. Remembered
        BY <1>1, <2>2 DEF WatchInv
      <3>2. DOMAIN active' = (DOMAIN prior \ hole') \cup installed
        BY <1>1, <1>2, <2>1, <3>1 DEF Remembered
      <3>3. p \notin installed /\ p \in DOMAIN prior
        BY <1>1, <3>1 DEF Remembered
      <3> QED BY <1>1, <1>2, <2>1, <3>1, <3>2, <3>3 DEF Remembered
    <2> QED BY <1>1, <1>3, <2>1, <2>2 DEF WatchInv
  <1>4. CASE degraded' = TRUE /\ active' = active
    BY <1>1, <1>4 DEF WatchInv, IsFunction
  <1> QED
    BY <1>3, <1>4 DEF UndoRewatch

LEMMA UndoInstallOK == ASSUME WatchInv, NEW p, UndoInstall(p) PROVE WatchInv'
  <1>1. /\ phase = "undoing" /\ phase' = phase /\ hole = {} /\ hole' = hole
        /\ replaced = {} /\ replaced' = replaced
        /\ p \in installed /\ installed' = installed \ {p} /\ UNCHANGED <<desired, prior>>
    BY DEF UndoInstall, attempt
  <1>2. CASE active' = Without(active, p) /\ degraded' = degraded
    <2>1. /\ IsFunction(active') /\ DOMAIN active' = DOMAIN active \ {p}
          /\ \A q \in DOMAIN active \ {p} : active'[q] = active[q]
      BY <1>2 DEF Without, Restrict, IsFunction
    <2>2. ASSUME ~degraded PROVE Remembered'
      <3>1. Remembered
        BY <1>1, <2>2 DEF WatchInv
      <3>2. p \notin DOMAIN prior
        BY <1>1, <3>1 DEF Remembered
      <3>3. DOMAIN active' = (DOMAIN prior \ hole') \cup installed'
        BY <1>1, <2>1, <3>1, <3>2 DEF Remembered
      <3> QED BY <1>1, <2>1, <3>1, <3>2, <3>3 DEF Remembered
    <2> QED BY <1>1, <1>2, <2>1, <2>2 DEF WatchInv
  <1>3. CASE degraded' = TRUE /\ active' = active
    BY <1>1, <1>3 DEF WatchInv, IsFunction
  <1> QED
    BY <1>2, <1>3 DEF UndoInstall

LEMMA GiveUpOK == ASSUME WatchInv, GiveUp PROVE WatchInv'
  <1>1. /\ phase = "undoing" /\ phase' = "failed" /\ hole = {} /\ replaced = {} /\ installed = {}
        /\ UNCHANGED <<active, desired, prior, hole, degraded>>
    BY DEF GiveUp, attempt
  <1>2. ASSUME ~degraded PROVE active = prior
    <2>1. DOMAIN active = DOMAIN prior /\ \A p \in DOMAIN prior : active[p] = prior[p]
      BY <1>1, <1>2 DEF WatchInv, Remembered
    <2> QED BY <2>1 DEF WatchInv, IsFunction
  <1> QED
    BY <1>1, <1>2 DEF WatchInv, IsFunction

LEMMA ReconfigureOK == ASSUME WatchInv, Reconfigure PROVE WatchInv'
  BY InstallOK, UnwatchOK, RewatchOK, RestoreOK, CleanOK, FinishOK, UndoUnwatchOK, UndoRewatchOK,
     UndoInstallOK, GiveUpOK DEF Reconfigure

-----------------------------------------------------------------------------
(* The steps of the watcher.                                                   *)

LEMMA HostStays ==
  ASSUME HostInv, UNCHANGED <<hostPc, host, next, thread, ready, open, stubs>>
  PROVE  HostInv'
  BY DEF HostInv, HostShape, Owned, Served, Mine

LEMMA WatchesStay == ASSUME WatchInv, UNCHANGED watchVars PROVE WatchInv'
  BY DEF WatchInv, IsFunction, Complete, Remembered, watchVars, attempt

(* Steps that leave the host and the watches alone, and do not end a wait for them. *)
LEMMA WatcherMoves ==
  ASSUME Inv, UNCHANGED <<hostPc, host, next, thread, ready, open, stubs>>, UNCHANGED watchVars,
         watcherPc' = watcherPc \/
           (/\ watcherPc \in {"idle", "reading", "applying", "reloading"}
            /\ watcherPc' \in {"idle", "reading", "applying", "reloading"})
  PROVE  Inv'
  <1>1. HostInv' /\ WatchInv'
    BY HostStays, WatchesStay DEF Inv
  <1>2. OpenedOnce'
    BY DEF Inv, OpenedOnce
  <1>3. Settled'
    BY DEF Inv, Settled, Complete, watchVars, attempt
  <1> QED
    BY <1>1, <1>2, <1>3 DEF Inv

LEMMA InvInit == Init => Inv
  <1> SUFFICES ASSUME Init PROVE Inv
    OBVIOUS
  <1>1. HostShape
    BY ZeroIsNoThread DEF Init, HostInit, HostShape, Alone, Published
  <1>2. Owned /\ Served
    <2>1. Mine = {}
      BY ZeroIsNoThread DEF Init, HostInit, Mine
    <2> QED BY <2>1 DEF Init, HostInit, Owned, Served, Alone, Paired
  <1>3. OpenedOnce
    BY DEF Init, OpenedOnce
  <1>4. WatchInv
    BY DEF Init, WatchInit, WatchInv, IsFunction, Complete
  <1>5. Settled
    BY DEF Init, Settled
  <1> QED
    BY <1>1, <1>2, <1>3, <1>4, <1>5 DEF Inv, HostInv

LEMMA EditInv == ASSUME Inv, Edit PROVE Inv'
  <1>1. UNCHANGED <<hostPc, host, next, thread, ready, open, stubs, watcherPc>> /\ UNCHANGED watchVars
    BY DEF Edit, opening, rustc
  <1> QED
    BY <1>1, WatcherMoves

(* A host that was opened becomes idle, and its replacement is gone. *)
LEMMA HostRests ==
  ASSUME HostInv, hostPc \in {"done", "failed"}, hostPc' = "idle", host.thread \in Threads,
         UNCHANGED host, UNCHANGED rustc, Closed
  PROVE  HostInv'
  <1>1. next' = NoHost /\ UNCHANGED <<thread, ready, open, stubs>>
    BY DEF Closed, rustc
  <1> QED
    BY <1>1, ZeroIsNoThread DEF HostInv, HostShape, Owned, Served, Mine, Alone, Paired, Published

LEMMA OpenedInv == ASSUME Inv, Opened PROVE Inv'
  <1>1. /\ watcherPc = "starting" /\ hostPc \in {"done", "failed"}
        /\ UNCHANGED host /\ UNCHANGED rustc /\ Closed
    BY DEF Opened
  <1>2. CASE hostPc = "done"
    <2>1. hostPc' = "idle" /\ watcherPc' = "installing" /\ Attempt(Roots[host.layout])
      BY <1>2 DEF Opened
    <2>2. host.thread \in Threads
      BY <1>2 DEF Inv, HostInv, HostShape, Published
    <2>3. HostInv' /\ WatchInv'
      BY <1>1, <2>1, <2>2, HostRests, AttemptOK DEF Inv
    <2> QED BY <1>1, <2>1, <2>2, <2>3 DEF Inv, OpenedOnce, Settled
  <1>3. CASE hostPc = "failed"
    <2>1. hostPc' = "failed" /\ watcherPc' = "stopped" /\ UNCHANGED watchVars
      BY <1>1, <1>3 DEF Opened
    <2>2. next' = NoHost /\ UNCHANGED <<thread, ready, open, stubs>>
      BY <1>1 DEF Closed, rustc
    <2>3. HostInv'
      BY <1>1, <1>3, <2>1, <2>2, ZeroIsNoThread
         DEF Inv, HostInv, HostShape, Owned, Served, Mine, Alone, Paired, Published
    <2> QED BY <2>1, <2>3, WatchesStay DEF Inv, OpenedOnce, Settled
  <1> QED
    BY <1>1, <1>2, <1>3

LEMMA ConfiguredInv == ASSUME Inv, Configured PROVE Inv'
  <1>1. /\ watcherPc \in {"installing", "configuring"} /\ phase \in {"steady", "failed"}
        /\ UNCHANGED <<hostPc, host, next, thread, ready, open, stubs>>
    BY DEF Configured, hostVars, opening, rustc
  <1>2. HostInv'
    BY <1>1, HostStays DEF Inv
  <1>3. CASE phase = "steady"
    <2>1. watcherPc' = "idle" /\ UNCHANGED watchVars
      BY <1>3 DEF Configured
    <2>2. Complete'
      BY <1>3, <2>1 DEF Inv, WatchInv, Complete, watchVars, attempt
    <2> QED BY <1>1, <1>2, <2>1, <2>2, WatchesStay DEF Inv, OpenedOnce, Settled
  <1>4. CASE phase = "failed"
    <2>1. \/ watcherPc' = "stopped" /\ UNCHANGED watchVars
          \/ watcherPc' = watcherPc /\ Attempt(desired)
      BY <1>4 DEF Configured
    <2>2. WatchInv'
      BY <2>1, WatchesStay, AttemptOK DEF Inv
    <2> QED BY <1>1, <1>2, <2>1, <2>2 DEF Inv, OpenedOnce, Settled
  <1> QED
    BY <1>1, <1>3, <1>4

LEMMA ApplyInv == ASSUME Inv, Apply PROVE Inv'
  <1>1. /\ watcherPc = "applying" /\ hostPc = "idle" /\ watcherPc' \in {"idle", "reloading"}
        /\ UNCHANGED <<hostPc, next, thread, ready, open, stubs>> /\ UNCHANGED watchVars
    BY DEF Apply, ReloadIf, opening, rustc
  <1>2. host' = host \/ host' = Updated(host, updates)
    BY DEF Apply
  <1>3. host.thread \in Threads /\ "thread" \in DOMAIN host
    BY <1>1 DEF Inv, HostInv, HostShape, Published
  <1>4. host'.thread = host.thread /\ "thread" \in DOMAIN host'
    BY <1>2, <1>3, SameThread DEF Updated
  <1>5. HostInv'
    BY <1>1, <1>3, <1>4 DEF Inv, HostInv, HostShape, Owned, Served, Mine
  <1>6. Settled'
    BY <1>1 DEF Inv, Settled, Complete, watchVars, attempt
  <1> QED
    BY <1>1, <1>3, <1>4, <1>5, <1>6, WatchesStay DEF Inv, OpenedOnce

LEMMA BeginReloadInv == ASSUME Inv, BeginReload PROVE Inv'
  <1>1. /\ hostPc = "idle" /\ hostPc' = "load"
        /\ UNCHANGED <<host, next, thread, ready, open, stubs, watcherPc>> /\ UNCHANGED watchVars
    BY DEF BeginReload, opening, rustc, watcherVars
  <1>2. HostInv'
    BY <1>1 DEF Inv, HostInv, HostShape, Owned, Served, Mine, Alone, Paired, Published
  <1>3. Settled'
    BY <1>1 DEF Inv, Settled, Complete, watchVars, attempt
  <1> QED
    BY <1>1, <1>2, <1>3, WatchesStay DEF Inv, OpenedOnce

LEMMA ReloadedInv == ASSUME Inv, Reloaded PROVE Inv'
  <1>1. /\ watcherPc = "reloading" /\ hostPc \in {"done", "failed"} /\ hostPc' = "idle"
        /\ UNCHANGED host /\ UNCHANGED rustc /\ Closed
    BY DEF Reloaded
  <1>2. host.thread \in Threads
    BY <1>1 DEF Inv, OpenedOnce
  <1>3. HostInv'
    BY <1>1, <1>2, HostRests DEF Inv
  <1>4. CASE hostPc = "done"
    <2>1. watcherPc' = "configuring" /\ Attempt(Roots[host.layout])
      BY <1>4 DEF Reloaded
    <2> QED BY <1>1, <1>2, <1>3, <2>1, AttemptOK DEF Inv, OpenedOnce, Settled
  <1>5. CASE hostPc = "failed"
    <2>1. watcherPc' = "idle" /\ UNCHANGED watchVars
      BY <1>5 DEF Reloaded
    <2>2. Complete'
      BY <1>1, <2>1 DEF Inv, Settled, Complete, watchVars, attempt
    <2> QED BY <1>1, <1>2, <1>3, <2>1, <2>2, WatchesStay DEF Inv, OpenedOnce, Settled
  <1> QED
    BY <1>1, <1>4, <1>5

LEMMA OfWatcherInv == ASSUME Inv, OfWatcher PROVE Inv'
  <1>1. CASE Collect \/ ReadFile \/ Classify \/ Refused
    <2>1. /\ UNCHANGED <<hostPc, host, next, thread, ready, open, stubs>> /\ UNCHANGED watchVars
          /\ watcherPc \in {"idle", "reading", "applying", "reloading"}
          /\ watcherPc' \in {"idle", "reading", "applying", "reloading"}
      BY <1>1 DEF Collect, ReadFile, Classify, Refused, ReloadIf, hostVars, opening, rustc
    <2> QED BY <2>1, WatcherMoves
  <1> QED
    BY <1>1, OpenedInv, ConfiguredInv, ApplyInv, BeginReloadInv, ReloadedInv DEF OfWatcher

LEMMA InvStep == Inv /\ [Next]_vars => Inv'
  <1> SUFFICES ASSUME Inv, [Next]_vars PROVE Inv'
    OBVIOUS
  <1>1. CASE OfHost
    <2>1. HostInv' /\ OpenedOnce'
      BY <1>1, OfHostOK DEF Inv
    <2>2. UNCHANGED watchVars /\ watcherPc' = watcherPc
      BY <1>1 DEF OfHost, watcherVars
    <2> QED BY <2>1, <2>2, WatchesStay DEF Inv, Settled, Complete, watchVars, attempt
  <1>2. CASE OfWatches
    <2>1. /\ watcherPc \in {"installing", "configuring"} /\ watcherPc' = watcherPc /\ Reconfigure
          /\ UNCHANGED <<hostPc, host, next, thread, ready, open, stubs>>
      BY <1>2 DEF OfWatches, hostVars, opening, rustc, watcherVars
    <2>2. HostInv' /\ WatchInv'
      BY <2>1, HostStays, ReconfigureOK DEF Inv
    <2> QED BY <2>1, <2>2 DEF Inv, OpenedOnce, Settled
  <1>3. CASE Query /\ UNCHANGED <<watchVars, watcherVars, missed, edits>>
    <2>1. HostInv' /\ host' = host /\ watcherPc' = watcherPc
      BY <1>3, AskOK DEF Inv, Query, Ask, watcherVars
    <2> QED BY <1>3, <2>1, WatchesStay DEF Inv, OpenedOnce, Settled, Complete, watchVars, attempt
  <1>4. CASE UNCHANGED vars
    BY <1>4, WatcherMoves DEF vars, hostVars, opening, rustc, watcherVars
  <1> QED
    BY <1>1, <1>2, <1>3, <1>4, EditInv, OfWatcherInv DEF Next

LEMMA InvHolds == Spec => []Inv
  BY InvInit, InvStep, PTL DEF Spec

-----------------------------------------------------------------------------
(* What follows from it.                                                       *)

(* HostStaysWhole: the published host is served, reachable and has its stub       *)
(* whatever step of a reload fails, and between reloads it is the only one that    *)
(* has a channel or a stub (driver.rs, reload and SageHost::drop).                *)
THEOREM HostStaysWhole == Spec => []OneLiveHost
  <1>1. Inv => OneLiveHost
    <2> SUFFICES ASSUME Inv PROVE OneLiveHost
      OBVIOUS
    <2>1. ASSUME host # NoHost, hostPc \notin {"retire", "dead"}
          PROVE  thread[host.thread] = "serving" /\ host.thread \in open /\ host.thread \in stubs
      <3>1. host.thread \in Mine /\ hostPc \in Alone \cup Paired
        BY <2>1 DEF Inv, HostInv, HostShape, Mine
      <3> QED BY <2>1, <3>1 DEF Inv, HostInv, Owned, Served
    <2>2. ASSUME hostPc = "idle" PROVE open = {host.thread} /\ stubs = {host.thread}
      BY <2>2 DEF Inv, HostInv, HostShape, Owned, Mine, Alone, Published
    <2> QED BY <2>1, <2>2 DEF OneLiveHost
  <1> QED
    BY <1>1, InvHolds, PTL

(* FailedAttemptsUndone: an attempt to change the watches that fails leaves the    *)
(* watches it found, unless its rollback failed too (main.rs,                     *)
(* rollback_watch_changes).                                                       *)
THEOREM FailedAttemptsUndone == Spec => []RollbackRestores
  <1>1. Inv => RollbackRestores
    BY DEF Inv, WatchInv, RollbackRestores
  <1> QED
    BY <1>1, InvHolds, PTL

(* NoGapInCoverage: what the old and the new watches both cover stays covered      *)
(* while one set replaces the other, and between batches the whole new set is     *)
(* there (main.rs, reconfigure_watches).                                          *)
THEOREM NoGapInCoverage == Spec => []CoveredThroughout
  <1> DEFINE changing == {d \in DOMAIN prior \cap DOMAIN desired : prior[d] # desired[d]}
  <1>1. ASSUME Inv, ~degraded, NEW p, Covers(prior, p), Covers(desired, p),
               CoversWithout(prior, changing, p) \/ CoversWithout(desired, changing, p)
        PROVE  Covers(active, p)
    <2>1. CASE Complete
      BY <1>1, <2>1 DEF Complete, Covers
    <2>2. CASE active = prior
      BY <1>1, <2>2
    <2>3. CASE Remembered
      <3>1. ASSUME NEW d \in DOMAIN prior, d \notin changing PROVE d \in DOMAIN active /\ active[d] = prior[d]
        BY <2>3, <3>1 DEF Remembered
      <3>2. CASE CoversWithout(prior, changing, p)
        <4>1. PICK d \in DOMAIN prior \ changing :
                \/ d = Directory[p]
                \/ prior[d] = "recursive" /\ <<Directory[p], d>> \in Inside
          <5> DEFINE rest == Restrict(prior, DOMAIN prior \ changing)
          <5>1. DOMAIN rest = DOMAIN prior \ changing /\ \A d \in DOMAIN rest : rest[d] = prior[d]
            BY DEF Restrict
          <5>2. Covers(rest, p)
            BY <3>2 DEF CoversWithout
          <5> HIDE DEF rest
          <5> QED BY <5>1, <5>2 DEF Covers
        <4> QED BY <3>1, <4>1 DEF Covers
      <3>3. CASE CoversWithout(desired, changing, p) /\ replaced \cup hole # {}
        <4>1. PICK d \in DOMAIN desired \ changing :
                \/ d = Directory[p]
                \/ desired[d] = "recursive" /\ <<Directory[p], d>> \in Inside
          <5> DEFINE rest == Restrict(desired, DOMAIN desired \ changing)
          <5>1. DOMAIN rest = DOMAIN desired \ changing /\ \A d \in DOMAIN rest : rest[d] = desired[d]
            BY DEF Restrict
          <5>2. Covers(rest, p)
            BY <3>3 DEF CoversWithout
          <5> HIDE DEF rest
          <5> QED BY <5>1, <5>2 DEF Covers
        <4>2. d \in DOMAIN active
          BY <2>3, <3>3, <4>1 DEF Remembered
        <4>3. active[d] = desired[d]
          BY <2>3, <3>1, <4>1, <4>2 DEF Remembered
        <4> QED BY <4>1, <4>2, <4>3 DEF Covers
      <3>4. CASE replaced \cup hole = {}
        <4>1. \A d \in DOMAIN prior : d \in DOMAIN active /\ active[d] = prior[d]
          BY <2>3, <3>4 DEF Remembered
        <4> QED BY <1>1, <4>1 DEF Covers
      <3> QED BY <1>1, <3>2, <3>3, <3>4
    <2> QED BY <1>1, <2>1, <2>2, <2>3 DEF Inv, WatchInv
  <1>2. Inv => CoveredThroughout
    BY <1>1 DEF Inv, Settled, Complete, CoveredThroughout
  <1> QED
    BY <1>2, InvHolds, PTL

-----------------------------------------------------------------------------
(* No edit is lost.  What a rebuilt host has read is on disk, or a notification   *)
(* says otherwise, or nobody watched the path; and what the published host does    *)
(* not have is on its way to it.                                                  *)

HostRecord == [layout : Layouts \cup {Malformed}, texts : [Files -> Nat], thread : Threads \cup {0}]

HostTyped ==
    /\ disk \in [Files -> Nat] /\ manifest \in Layouts \cup {Malformed}
    /\ host \in HostRecord /\ next \in HostRecord /\ scanned \subseteq Files
    /\ ready \in {"none", "ok", "error"} /\ open \subseteq Threads /\ stubs \subseteq Threads
    /\ faults \in 0 .. FaultBound

WatcherTyped ==
    /\ queue \in Seq([path : Paths, membership : BOOLEAN])
    /\ batch \subseteq Paths /\ unread \subseteq Files /\ required \in BOOLEAN
    /\ DOMAIN updates \subseteq Files /\ \A f \in DOMAIN updates : updates[f] \in Nat
    /\ missed \subseteq Paths /\ edits \in 0 .. EditBound

WatchTyped ==
    /\ installed \cup replaced \cup hole \subseteq DOMAIN desired
    /\ degraded \in BOOLEAN /\ failures \in 0 .. WatchFailures
    /\ kept \subseteq DOMAIN active \ DOMAIN desired
    /\ kept # {} => phase = "working" /\ hole = {} /\ Complete

\* Who waits for whom.
Calm == {"installing", "idle", "reading", "applying", "configuring"}
Handovers ==
    /\ watcherPc = "starting" => hostPc \notin {"idle", "asking", "dead"}
    /\ watcherPc \in Calm => hostPc \in {"idle", "asking", "dead"}
    /\ hostPc = "done" => host = next

Rebuilt == {"scan", "spawn", "await", "build", "swap", "retire", "done"}
FreshPath(p) ==
    \/ Notified(p)
    \/ p # Manifest /\ hostPc = "scan" /\ p \notin scanned
    \/ ~ Stale(next, p)
Fresh ==
    hostPc \in Rebuilt => next.layout \in Layouts /\ \A p \in Paths \ missed : FreshPath(p)

OnItsWay(p) ==
    \/ Notified(p)
    \/ watcherPc = "reading" /\ (p \in unread \/ Manifest \in batch)
    \/ watcherPc \in {"reading", "applying"} /\ p \in DOMAIN updates /\ updates[p] = disk[p]
Lost(h, p) == Stale(h, p) /\ (p = Manifest \/ disk[p] # 0)
Known ==
    watcherPc \in Calm /\ hostPc # "dead" =>
      \A p \in Paths \ missed : Lost(host, p) => OnItsWay(p)


\* A text that was read is what is on disk, or there is news of the file.
Current ==
    watcherPc \in {"reading", "applying"} =>
      \A p \in DOMAIN updates \ missed : Notified(p) \/ updates[p] = disk[p]

Following == HostTyped /\ WatcherTyped /\ WatchTyped /\ Handovers /\ Fresh /\ Known /\ Current

LEMMA FollowingInit == Init => Following
  <1> SUFFICES ASSUME Init PROVE Following
    OBVIOUS
  <1>1. NoHost \in HostRecord
    BY DEF NoHost, HostRecord
  <1>2. HostTyped
    BY <1>1, FaultAssumption DEF Init, HostInit, HostTyped
  <1>3. WatcherTyped
    <2>1. DOMAIN updates = {} /\ queue \in Seq([path : Paths, membership : BOOLEAN])
      BY DEF Init
    <2>2. 0 \in 0 .. EditBound
      BY WatcherAssumption
    <2> QED BY <2>1, <2>2 DEF Init, WatcherTyped
  <1>4. WatchTyped
    <2>1. 0 \in 0 .. WatchFailures
      BY WatchAssumption
    <2>2. DOMAIN desired = {} /\ DOMAIN active = {}
      BY DEF Init, WatchInit
    <2> QED BY <2>1, <2>2 DEF Init, WatchInit, WatchTyped
  <1> QED
    BY <1>2, <1>3, <1>4 DEF Init, HostInit, Following, Handovers, Fresh, Known, Current, Calm, Rebuilt

(* What is relevant to Fresh, Known and Current does not change. *)
tracked == <<disk, manifest, host, next, hostPc, scanned, queue, watcherPc, batch, unread, updates, missed>>
LEMMA NothingLost ==
  ASSUME Handovers, Fresh, Known, Current, UNCHANGED tracked
  PROVE  Handovers' /\ Fresh' /\ Known' /\ Current'
  BY DEF tracked, Handovers, Fresh, FreshPath, Known, Lost, OnItsWay, Current, Notified, Stale

LEMMA HostTypesStay ==
  ASSUME HostTyped, UNCHANGED <<inputs, host, next, scanned, rustc>>
  PROVE  HostTyped'
  BY DEF HostTyped, inputs, rustc

LEMMA WatchTypesStay ==
  ASSUME WatchTyped, UNCHANGED watchVars
  PROVE  WatchTyped'
  BY DEF WatchTyped, Complete, watchVars, attempt

LEMMA WatcherTypesStay ==
  ASSUME WatcherTyped, UNCHANGED <<watcherVars, missed, edits>>
  PROVE  WatcherTyped'
  BY DEF WatcherTyped, watcherVars

-----------------------------------------------------------------------------
(* The steps of the watches.                                                   *)

LEMMA NewAttempt ==
  ASSUME WatchTyped, NEW roots, Attempt(roots)
  PROVE  WatchTyped'
  BY DEF WatchTyped, Attempt

LEMMA FailsTyped ==
  ASSUME failures \in 0 .. WatchFailures, Works \/ Fails
  PROVE  failures' \in 0 .. WatchFailures
  BY WatchAssumption DEF Works, Fails

LEMMA ReconfigureTyped ==
  ASSUME WatchTyped, Reconfigure
  PROVE  WatchTyped'
  <1>1. ASSUME NEW p, Install(p) PROVE WatchTyped'
    <2>1. failures' \in 0 .. WatchFailures
      BY <1>1, FailsTyped DEF Install, WatchTyped
    <2> QED BY <1>1, <2>1 DEF Install, Additions, WatchTyped, Complete, attempt
  <1>2. ASSUME NEW p, Unwatch(p) PROVE WatchTyped'
    <2>1. failures' \in 0 .. WatchFailures
      BY <1>2, FailsTyped DEF Unwatch, WatchTyped
    <2> QED BY <1>2, <2>1 DEF Unwatch, Replacements, WatchTyped, Complete, attempt
  <1>3. ASSUME NEW p, Rewatch(p) PROVE WatchTyped'
    <2>1. failures' \in 0 .. WatchFailures
      BY <1>3, FailsTyped DEF Rewatch, WatchTyped
    <2> QED BY <1>3, <2>1 DEF Rewatch, WatchTyped, Complete, attempt
  <1>4. ASSUME NEW p, Restore(p) PROVE WatchTyped'
    <2>1. failures' \in 0 .. WatchFailures
      BY <1>4, FailsTyped DEF Restore, WatchTyped
    <2> QED BY <1>4, <2>1 DEF Restore, WatchTyped, Complete, attempt
  <1>5. ASSUME NEW p, Clean(p) PROVE WatchTyped'
    <2>1. failures' \in 0 .. WatchFailures
      BY <1>5, FailsTyped DEF Clean, WatchTyped
    <2>2. /\ phase = "working" /\ hole = {} /\ DOMAIN desired \subseteq DOMAIN active
          /\ \A q \in DOMAIN desired : active[q] = desired[q]
          /\ p \in DOMAIN active \ (DOMAIN desired \cup kept)
          /\ UNCHANGED <<desired, prior, phase, installed, replaced, hole, degraded>>
      BY <1>5 DEF Clean, Additions, Replacements, Obsolete, attempt
    <2>3. CASE active' = Without(active, p) /\ kept' = kept
      <3>1. /\ DOMAIN active' = DOMAIN active \ {p}
            /\ \A q \in DOMAIN active \ {p} : active'[q] = active[q]
        BY <2>3 DEF Without, Restrict
      <3> QED BY <2>1, <2>2, <2>3, <3>1 DEF WatchTyped, Complete
    <2>4. CASE kept' = kept \cup {p} /\ active' = active
      BY <2>1, <2>2, <2>4 DEF WatchTyped, Complete
    <2> QED BY <1>5, <2>3, <2>4 DEF Clean
  <1>6. ASSUME NEW p, UndoUnwatch(p) PROVE WatchTyped'
    <2>1. failures' \in 0 .. WatchFailures
      BY <1>6, FailsTyped DEF UndoUnwatch, WatchTyped
    <2> QED BY <1>6, <2>1 DEF UndoUnwatch, WatchTyped, Complete, attempt
  <1>7. ASSUME NEW p, UndoRewatch(p) PROVE WatchTyped'
    <2>1. failures' \in 0 .. WatchFailures
      BY <1>7, FailsTyped DEF UndoRewatch, WatchTyped
    <2> QED BY <1>7, <2>1 DEF UndoRewatch, WatchTyped, Complete, attempt
  <1>8. ASSUME NEW p, UndoInstall(p) PROVE WatchTyped'
    <2>1. failures' \in 0 .. WatchFailures
      BY <1>8, FailsTyped DEF UndoInstall, WatchTyped
    <2> QED BY <1>8, <2>1 DEF UndoInstall, WatchTyped, Complete, attempt
  <1>9. CASE Finish \/ GiveUp
    BY <1>9 DEF Finish, GiveUp, WatchTyped, Complete, attempt
  <1> QED
    BY <1>1, <1>2, <1>3, <1>4, <1>5, <1>6, <1>7, <1>8, <1>9 DEF Reconfigure

-----------------------------------------------------------------------------
(* The steps of the host.                                                      *)

(* While the host works for the watcher, nothing is claimed of what it has. *)
LEMMA HostWorks ==
  ASSUME Handovers, Current, hostPc \notin {"idle", "asking", "dead"},
         hostPc' \notin {"idle", "asking", "dead"}, hostPc' = "done" => host' = next',
         UNCHANGED <<disk, queue, watcherPc, updates, missed>>
  PROVE  Handovers' /\ Known' /\ Current'
  BY DEF Handovers, Known, Calm, Current, Notified

(* A rebuilt host stays as fresh as it is. *)
LEMMA FreshStays ==
  ASSUME Fresh, hostPc \in Rebuilt \ {"scan"} \/ hostPc' \notin Rebuilt, hostPc' # "scan",
         next'.layout = next.layout, next'.texts = next.texts,
         UNCHANGED <<disk, manifest, queue, missed>>
  PROVE  Fresh'
  BY DEF Fresh, FreshPath, Rebuilt, Notified, Stale

LEMMA LoadWorkspaceFollows ==
  ASSUME Following, LoadWorkspace, UNCHANGED <<watcherVars, missed, edits>>
  PROVE  HostTyped' /\ Handovers' /\ Fresh' /\ Known' /\ Current'
  <1>1. /\ hostPc = "load" /\ UNCHANGED <<disk, manifest, host, thread, ready, open, stubs, faults>>
        /\ UNCHANGED <<queue, watcherPc, updates, missed>>
    BY DEF LoadWorkspace, inputs, rustc, watcherVars
  <1>2. CASE manifest \in Layouts
    <2>1. next' = [NoHost EXCEPT !.layout = manifest] /\ scanned' = {} /\ hostPc' = "scan"
      BY <1>2 DEF LoadWorkspace
    <2>2. next' \in HostRecord /\ next'.layout = manifest
      BY <1>2, <2>1 DEF NoHost, HostRecord
    <2>3. HostTyped'
      BY <1>1, <2>1, <2>2 DEF Following, HostTyped
    <2>4. Fresh'
      BY <1>1, <1>2, <2>1, <2>2 DEF Fresh, FreshPath, Stale
    <2> QED BY <1>1, <2>1, <2>3, <2>4, HostWorks DEF Following
  <1>3. CASE manifest \notin Layouts
    <2>1. hostPc' = "failed" /\ UNCHANGED <<next, scanned>>
      BY <1>3 DEF LoadWorkspace, opening
    <2>2. HostTyped'
      BY <1>1, <2>1 DEF Following, HostTyped
    <2>3. Fresh'
      BY <2>1 DEF Fresh, Rebuilt
    <2> QED BY <1>1, <2>1, <2>2, <2>3, HostWorks DEF Following
  <1> QED
    BY <1>2, <1>3

LEMMA ScanFileFollows ==
  ASSUME Following, ScanFile, UNCHANGED <<watcherVars, missed, edits>>
  PROVE  HostTyped' /\ Handovers' /\ Fresh' /\ Known' /\ Current'
  <1>1. /\ hostPc = "scan" /\ UNCHANGED <<disk, manifest, host, thread, ready, open, stubs, faults>>
        /\ UNCHANGED <<queue, watcherPc, updates, missed>>
    BY DEF ScanFile, inputs, rustc, watcherVars
  <1>2. PICK f \in Files \ scanned :
          /\ next' = [next EXCEPT !.texts[f] = IF f \in PackageFiles[next.layout] THEN disk[f] ELSE 0]
          /\ scanned' = scanned \cup {f}
          /\ hostPc' = IF scanned' = Files THEN "spawn" ELSE "scan"
    BY DEF ScanFile
  <1>3. next \in HostRecord /\ disk \in [Files -> Nat]
    BY DEF Following, HostTyped
  <1>4. /\ next' \in HostRecord /\ next'.layout = next.layout
        /\ f \in PackageFiles[next.layout] => next'.texts[f] = disk[f]
        /\ \A p \in Files \ {f} : next'.texts[p] = next.texts[p]
    BY <1>2, <1>3 DEF HostRecord
  <1>5. HostTyped'
    BY <1>1, <1>2, <1>4 DEF Following, HostTyped
  <1>6. Fresh'
    <2>1. next'.layout \in Layouts
      BY <1>1, <1>4 DEF Following, Fresh, Rebuilt
    <2> SUFFICES ASSUME NEW p \in Paths \ missed PROVE FreshPath(p)'
      BY <1>1, <2>1 DEF Fresh
    <2>2. FreshPath(p)
      BY <1>1 DEF Following, Fresh, Rebuilt
    <2>3. CASE p = f
      BY <1>1, <1>4, <2>3, WatcherAssumption DEF FreshPath, Stale
    <2>4. CASE p # f /\ hostPc' = "scan"
      BY <1>1, <1>2, <1>4, <2>2, <2>4 DEF FreshPath, Stale, Notified, Paths
    <2>5. CASE p # f /\ scanned' = Files
      <3>1. Notified(p) \/ ~ Stale(next, p)
        BY <1>2, <2>2, <2>5 DEF FreshPath, Paths
      <3> QED BY <1>1, <1>4, <2>5, <3>1 DEF FreshPath, Stale, Notified, Paths
    <2> QED BY <1>2, <2>3, <2>4, <2>5
  <1> QED
    BY <1>1, <1>2, <1>5, <1>6, HostWorks DEF Following

LEMMA SpawnFollows ==
  ASSUME Following, Spawn, UNCHANGED <<watcherVars, missed, edits>>
  PROVE  HostTyped' /\ Handovers' /\ Fresh' /\ Known' /\ Current'
  <1>1. /\ hostPc = "spawn" /\ hostPc' = "await" /\ ready' = "none"
        /\ UNCHANGED <<disk, manifest, host, scanned, faults>>
        /\ UNCHANGED <<queue, watcherPc, updates, missed>>
    BY DEF Spawn, inputs, watcherVars
  <1>2. PICK t \in Threads : /\ next' = [next EXCEPT !.thread = t]
                             /\ open' = open \cup {t} /\ stubs' = stubs \cup {t}
    BY DEF Spawn
  <1>3. next \in HostRecord
    BY DEF Following, HostTyped
  <1>4. next' \in HostRecord /\ next'.layout = next.layout /\ next'.texts = next.texts
    BY <1>2, <1>3 DEF HostRecord
  <1>5. HostTyped'
    BY <1>1, <1>2, <1>4 DEF Following, HostTyped
  <1>6. Fresh'
    BY <1>1, <1>4, FreshStays DEF Following, Rebuilt
  <1> QED
    BY <1>1, <1>5, <1>6, HostWorks DEF Following

(* The steps from the await to the end of an opening. *)
LEMMA FinishingFollows ==
  ASSUME Following, Await \/ JoinFailed \/ Build \/ CloseOld \/ Swap,
         UNCHANGED <<watcherVars, missed, edits>>
  PROVE  HostTyped' /\ Handovers' /\ Fresh' /\ Known' /\ Current'
  <1>1. /\ UNCHANGED <<disk, manifest, next, scanned, ready, faults>>
        /\ UNCHANGED <<queue, watcherPc, updates, missed>>
        /\ open' \subseteq open /\ stubs' \subseteq stubs
    BY DEF Await, JoinFailed, Build, CloseOld, Swap, Forget, inputs, opening, rustc, watcherVars
  <1>2. /\ hostPc \in {"await", "join", "build", "swap", "retire"}
        /\ hostPc' \in {"build", "join", "failed", "swap", "retire", "done"}
        /\ hostPc = "join" => hostPc' = "failed"
        /\ hostPc' = "done" => host' = next
        /\ host' \in {host, next}
    BY DEF Await, JoinFailed, Build, CloseOld, Swap
  <1>3. HostTyped'
    BY <1>1, <1>2 DEF Following, HostTyped
  <1>4. Fresh'
    BY <1>1, <1>2, FreshStays DEF Following, Rebuilt
  <1> QED
    BY <1>1, <1>2, <1>3, <1>4, HostWorks DEF Following

(* A query comes to its end, or begins. *)
LEMMA RestingFollows ==
  ASSUME Handovers, Known, Current, hostPc \in {"idle", "asking"},
         hostPc' \in {"idle", "asking", "dead"},
         UNCHANGED <<disk, manifest, host, queue, watcherPc, batch, unread, updates, missed>>
  PROVE  Handovers' /\ Fresh' /\ Known' /\ Current'
  <1>1. Handovers' /\ Fresh'
    BY DEF Handovers, Fresh, Rebuilt
  <1>2. Current'
    BY DEF Current, Notified
  <1>3. Known'
    BY DEF Known, Lost, OnItsWay, Notified, Stale
  <1> QED
    BY <1>1, <1>2, <1>3

LEMMA RustcFollows ==
  ASSUME Following, Rustc, UNCHANGED <<watcherVars, missed, edits>>
  PROVE  HostTyped' /\ Handovers' /\ Fresh' /\ Known' /\ Current'
  <1>1. PICK t \in Threads : Expand(t) \/ EndServing(t) \/ Answer(t)
    BY DEF Rustc
  <1>2. /\ UNCHANGED <<disk, manifest, host, next, scanned>>
        /\ UNCHANGED <<queue, watcherPc, batch, unread, updates, missed>>
    BY <1>1 DEF Expand, EndServing, Answer, inputs, opening, watcherVars
  <1>3. HostTyped'
    <2>1. ready' \in {"none", "ok", "error"} /\ open' \subseteq Threads /\ stubs' \subseteq Threads
      BY <1>1 DEF Expand, EndServing, Answer, rustc, Following, HostTyped
    <2>2. faults' \in 0 .. FaultBound
      BY <1>1, FaultAssumption DEF Expand, EndServing, Answer, Fault, rustc, Following, HostTyped
    <2> QED BY <1>2, <2>1, <2>2 DEF Following, HostTyped
  <1>4. CASE hostPc' = hostPc
    <2>1. UNCHANGED tracked
      BY <1>2, <1>4 DEF tracked
    <2>2. Handovers /\ Fresh /\ Known /\ Current
      BY DEF Following
    <2> QED BY <1>3, <2>1, <2>2, NothingLost
  <1>5. CASE hostPc = "asking" /\ hostPc' \in {"idle", "dead"}
    BY <1>2, <1>3, <1>5, RestingFollows DEF Following
  <1>6. hostPc' = hostPc \/ (hostPc = "asking" /\ hostPc' \in {"idle", "dead"})
    BY <1>1 DEF Expand, EndServing, Answer
  <1> QED
    BY <1>3, <1>4, <1>5, <1>6

LEMMA OfHostFollows == ASSUME Following, OfHost PROVE Following'
  <1>1. UNCHANGED watchVars /\ UNCHANGED <<watcherVars, missed, edits>>
    BY DEF OfHost
  <1>2. WatchTyped' /\ WatcherTyped'
    BY <1>1, WatchTypesStay, WatcherTypesStay DEF Following
  <1>3. HostTyped' /\ Handovers' /\ Fresh' /\ Known' /\ Current'
    BY <1>1, LoadWorkspaceFollows, ScanFileFollows, SpawnFollows, FinishingFollows, RustcFollows
       DEF OfHost, Opening
  <1> QED
    BY <1>2, <1>3 DEF Following

LEMMA QueryFollows ==
  ASSUME Following, Query, UNCHANGED <<watchVars, watcherVars, missed, edits>>
  PROVE  Following'
  <1>1. /\ hostPc = "idle" /\ hostPc' = "asking" /\ UNCHANGED <<disk, manifest, host, next, scanned>>
        /\ UNCHANGED <<inputs, host, next, scanned, rustc>>
        /\ UNCHANGED <<queue, watcherPc, batch, unread, updates, missed>>
    BY DEF Query, Ask, inputs, opening, watcherVars
  <1>2. HostTyped' /\ WatchTyped' /\ WatcherTyped'
    BY <1>1, HostTypesStay, WatchTypesStay, WatcherTypesStay DEF Following
  <1>3. Handovers' /\ Fresh' /\ Known' /\ Current'
    BY <1>1, RestingFollows DEF Following
  <1> QED
    BY <1>2, <1>3 DEF Following

-----------------------------------------------------------------------------
(* The steps of the user and of the watcher.                                   *)

Notification == [path : Paths, membership : BOOLEAN]

(* A change is notified or missed. *)
LEMMA NotifyIsNews ==
  ASSUME WatcherTyped, NEW p \in Paths, NEW membership \in BOOLEAN, Notify(p, membership)
  PROVE  /\ queue' \in Seq(Notification) /\ missed' \subseteq Paths /\ missed \subseteq missed'
         /\ \A q : Notified(q) => Notified(q)'
         /\ Notified(p)' \/ p \in missed'
  <1>1. CASE Covers(active, p)
    <2> DEFINE e == [path |-> p, membership |-> membership]
    <2>1. queue' = Append(queue, e) /\ missed' = missed
      BY <1>1 DEF Notify
    <2>2. queue \in Seq(Notification) /\ e \in Notification /\ e.path = p
      BY DEF WatcherTyped, Notification
    <2> HIDE DEF e
    <2>3. /\ queue' \in Seq(Notification) /\ Len(queue') = Len(queue) + 1
          /\ queue'[Len(queue) + 1] = e /\ \A i \in 1 .. Len(queue) : queue'[i] = queue[i]
      BY <2>1, <2>2
    <2>4. DOMAIN queue = 1 .. Len(queue) /\ DOMAIN queue' = 1 .. Len(queue) + 1 /\ Len(queue) \in Nat
      BY <2>2, <2>3
    <2>5. ASSUME NEW q, Notified(q) PROVE Notified(q)'
      BY <2>3, <2>4, <2>5 DEF Notified
    <2>6. Notified(p)'
      BY <2>2, <2>3, <2>4 DEF Notified
    <2> QED BY <2>1, <2>3, <2>5, <2>6 DEF WatcherTyped
  <1>2. CASE ~ Covers(active, p)
    BY <1>2 DEF Notify, Notified, WatcherTyped, Notification
  <1> QED
    BY <1>1, <1>2

(* Where what happened on disk is the change of one path that is now known or *)
(* missed, everything else is as it was.                                      *)
LEMMA ChangeFollows ==
  ASSUME Following, NEW p \in Paths, Notified(p)' \/ p \in missed', missed \subseteq missed',
         \A q : Notified(q) => Notified(q)',
         p # Manifest => manifest' = manifest, \A q \in Files \ {p} : disk'[q] = disk[q],
         UNCHANGED <<hostPc, host, next, scanned, watcherPc, batch, unread, updates>>
  PROVE  Handovers' /\ Fresh' /\ Known' /\ Current'
  <1>1. \A q \in Paths \ {p} : Stale(next, q)' = Stale(next, q) /\ Stale(host, q)' = Stale(host, q)
    BY DEF Stale, Paths
  <1>2. Handovers'
    BY DEF Following, Handovers
  <1>3. Fresh'
    <2> SUFFICES ASSUME hostPc \in Rebuilt, NEW q \in Paths \ missed' PROVE FreshPath(q)'
      BY DEF Following, Fresh
    <2>1. FreshPath(q) /\ (q = p => Notified(q)')
      BY DEF Following, Fresh
    <2>2. CASE q = p
      BY <2>1, <2>2 DEF FreshPath
    <2>3. CASE q # p
      BY <1>1, <2>1, <2>3 DEF FreshPath
    <2> QED BY <2>2, <2>3
  <1>4. Current'
    BY WatcherAssumption DEF Following, Current, WatcherTyped
  <1>5. Known'
    <2> SUFFICES ASSUME watcherPc \in Calm, hostPc # "dead", NEW q \in Paths \ missed', Lost(host, q)'
                 PROVE  OnItsWay(q)'
      BY DEF Known
    <2>1. CASE q = p
      BY <2>1 DEF OnItsWay
    <2>2. CASE q # p
      <3>1. Lost(host, q)
        BY <1>1, <2>2 DEF Lost, Paths
      <3>2. OnItsWay(q)
        BY <3>1 DEF Following, Known
      <3> QED BY <2>2, <3>2 DEF OnItsWay, Following, WatcherTyped
    <2> QED BY <2>1, <2>2
  <1> QED
    BY <1>2, <1>3, <1>4, <1>5

LEMMA EditFollows == ASSUME Following, Edit PROVE Following'
  <1>1. /\ edits < EditBound /\ edits' = edits + 1
        /\ UNCHANGED <<hostPc, host, opening, rustc, watchVars, watcherPc, batch, required, unread, updates>>
    BY DEF Edit
  <1>2. WatchTyped'
    BY <1>1, WatchTypesStay DEF Following
  <1>3. edits' \in 0 .. EditBound
    BY <1>1, WatcherAssumption DEF Following, WatcherTyped
  <1>4. CASE \E f \in Files, text \in (0 .. MaxText) :
               /\ text # disk[f] /\ disk' = [disk EXCEPT ![f] = text]
               /\ Notify(f, text = 0 \/ disk[f] = 0) /\ UNCHANGED manifest
    <2>1. PICK f \in Files, text \in (0 .. MaxText) :
               /\ disk' = [disk EXCEPT ![f] = text]
               /\ Notify(f, text = 0 \/ disk[f] = 0) /\ UNCHANGED manifest
      BY <1>4
    <2>2. f \in Paths /\ (text = 0 \/ disk[f] = 0) \in BOOLEAN
      BY DEF Paths
    <2>3. /\ queue' \in Seq(Notification) /\ missed' \subseteq Paths /\ missed \subseteq missed'
          /\ \A q : Notified(q) => Notified(q)'
          /\ Notified(f)' \/ f \in missed'
      BY <2>1, <2>2, NotifyIsNews DEF Following
    <2>4. disk' \in [Files -> Nat] /\ \A q \in Files \ {f} : disk'[q] = disk[q]
      BY <2>1, WatcherAssumption DEF Following, HostTyped
    <2>5. HostTyped'
      BY <1>1, <2>1, <2>4 DEF Following, HostTyped, opening, rustc
    <2>6. WatcherTyped'
      BY <1>1, <1>3, <2>3 DEF Following, WatcherTyped, Notification
    <2>7. Handovers' /\ Fresh' /\ Known' /\ Current'
      BY <1>1, <2>1, <2>2, <2>3, <2>4, ChangeFollows DEF opening
    <2> QED BY <1>2, <2>5, <2>6, <2>7 DEF Following
  <1>5. CASE \E m \in Layouts \cup {Malformed} :
               m # manifest /\ manifest' = m /\ Notify(Manifest, FALSE) /\ UNCHANGED disk
    <2>1. /\ manifest' \in Layouts \cup {Malformed} /\ Notify(Manifest, FALSE) /\ UNCHANGED disk
      BY <1>5
    <2>2. Manifest \in Paths /\ FALSE \in BOOLEAN
      BY DEF Paths
    <2>3. /\ queue' \in Seq(Notification) /\ missed' \subseteq Paths /\ missed \subseteq missed'
          /\ \A q : Notified(q) => Notified(q)'
          /\ Notified(Manifest)' \/ Manifest \in missed'
      BY <2>1, <2>2, NotifyIsNews DEF Following
    <2>5. HostTyped'
      BY <1>1, <2>1 DEF Following, HostTyped, opening, rustc
    <2>6. WatcherTyped'
      BY <1>1, <1>3, <2>3 DEF Following, WatcherTyped, Notification
    <2>7. Handovers' /\ Fresh' /\ Known' /\ Current'
      BY <1>1, <2>1, <2>2, <2>3, ChangeFollows DEF opening
    <2> QED BY <1>2, <2>5, <2>6, <2>7 DEF Following
  <1> QED
    BY <1>4, <1>5 DEF Edit

(* A host that is handed over is as fresh as it was built. *)
LEMMA HandedOver ==
  ASSUME Following, hostPc \in {"done", "failed"}, hostPc' \in {"idle", "failed"},
         watcherPc' \in {"installing", "configuring", "idle", "stopped"},
         hostPc' = "failed" => watcherPc' = "stopped",
         UNCHANGED <<disk, manifest, host, queue>>,
         \/ hostPc = "done" /\ missed' = StillStale(missed, host)
         \/ missed' = StillStale(Paths, host)
         \/ watcherPc' = "stopped" /\ missed' = missed
  PROVE  Handovers' /\ Fresh' /\ Known' /\ Current'
  <1>1. Handovers' /\ Current'
    BY DEF Handovers, Calm, Current
  <1>2. Fresh'
    BY DEF Fresh, Rebuilt
  <1>3. Known'
    <2> SUFFICES ASSUME watcherPc' # "stopped", NEW p \in Paths \ missed', Lost(host, p)'
                 PROVE  Notified(p)'
      BY DEF Known, Calm, OnItsWay
    <2>1. Stale(host, p)
      BY DEF Lost, Stale
    <2>2. hostPc = "done" /\ p \notin missed
      BY <2>1 DEF StillStale
    <2>3. FreshPath(p) /\ host = next
      BY <2>2 DEF Following, Fresh, Rebuilt, Handovers
    <2> QED BY <2>1, <2>2, <2>3 DEF FreshPath, Notified
  <1> QED
    BY <1>1, <1>2, <1>3

LEMMA ClosedTypes ==
  ASSUME HostTyped, Closed, UNCHANGED <<inputs, host, rustc>>
  PROVE  HostTyped'
  <1>1. NoHost \in HostRecord
    BY DEF NoHost, HostRecord
  <1> QED
    BY <1>1 DEF HostTyped, Closed, inputs, rustc

LEMMA StillStaleTyped ==
  ASSUME WatcherTyped, NEW h, missed' \in {missed, StillStale(missed, h), StillStale(Paths, h)},
         UNCHANGED <<queue, batch, required, unread, updates, edits>>
  PROVE  WatcherTyped'
  BY DEF WatcherTyped, StillStale

LEMMA OpenedFollows == ASSUME Following, Opened PROVE Following'
  <1>1. /\ hostPc \in {"done", "failed"} /\ Closed
        /\ UNCHANGED <<inputs, host, rustc, queue, batch, required, unread, updates, edits>>
    BY DEF Opened
  <1>2. HostTyped'
    BY <1>1, ClosedTypes DEF Following
  <1>3. \/ /\ hostPc = "done" /\ hostPc' = "idle" /\ watcherPc' = "installing"
           /\ Attempt(Roots[host.layout]) /\ missed' = StillStale(missed, host)
        \/ /\ hostPc = "failed" /\ watcherPc' = "stopped" /\ UNCHANGED <<hostPc, watchVars, missed>>
    BY DEF Opened
  <1>4. WatcherTyped'
    BY <1>1, <1>3, StillStaleTyped DEF Following
  <1>5. WatchTyped'
    BY <1>3, NewAttempt, WatchTypesStay DEF Following
  <1>6. Handovers' /\ Fresh' /\ Known' /\ Current'
    BY <1>1, <1>3, HandedOver DEF inputs
  <1> QED
    BY <1>2, <1>4, <1>5, <1>6 DEF Following

LEMMA ReloadedFollows == ASSUME Following, Reloaded PROVE Following'
  <1>1. /\ hostPc \in {"done", "failed"} /\ hostPc' = "idle" /\ Closed
        /\ UNCHANGED <<inputs, host, rustc, queue, batch, required, unread, updates, edits>>
    BY DEF Reloaded
  <1>2. HostTyped'
    BY <1>1, ClosedTypes DEF Following
  <1>3. \/ /\ hostPc = "done" /\ watcherPc' = "configuring"
           /\ Attempt(Roots[host.layout]) /\ missed' = StillStale(missed, host)
        \/ /\ watcherPc' = "idle" /\ UNCHANGED watchVars /\ missed' = StillStale(Paths, host)
    BY DEF Reloaded
  <1>4. WatcherTyped'
    BY <1>1, <1>3, StillStaleTyped DEF Following
  <1>5. WatchTyped'
    BY <1>3, NewAttempt, WatchTypesStay DEF Following
  <1>6. Handovers' /\ Fresh' /\ Known' /\ Current'
    BY <1>1, <1>3, HandedOver DEF inputs
  <1> QED
    BY <1>2, <1>4, <1>5, <1>6 DEF Following

(* The watcher moves, the host and the watches do not. *)
LEMMA OthersStay ==
  ASSUME Following, UNCHANGED hostVars, UNCHANGED <<queue, missed>>
  PROVE  HostTyped' /\ Fresh'
  BY HostTypesStay DEF Following, hostVars, inputs, opening, Fresh, FreshPath, Notified, Stale

LEMMA ConfiguredFollows == ASSUME Following, Configured PROVE Following'
  <1>1. /\ watcherPc \in {"installing", "configuring"}
        /\ watcherPc' \in {"installing", "configuring", "idle", "stopped"}
        /\ UNCHANGED hostVars
        /\ UNCHANGED <<queue, batch, required, unread, updates, missed, edits>>
    BY DEF Configured
  <1>2. UNCHANGED watchVars \/ Attempt(desired)
    BY DEF Configured
  <1>3. WatchTyped'
    BY <1>2, WatchTypesStay, NewAttempt DEF Following
  <1>4. HostTyped' /\ Fresh'
    BY <1>1, OthersStay
  <1>5. WatcherTyped'
    BY <1>1 DEF Following, WatcherTyped
  <1>6. Handovers' /\ Current'
    BY <1>1 DEF Following, Handovers, Calm, Current, hostVars, opening
  <1>7. Known'
    BY <1>1 DEF Following, Known, Calm, Lost, OnItsWay, Notified, Stale, hostVars, inputs
  <1> QED
    BY <1>3, <1>4, <1>5, <1>6, <1>7 DEF Following

LEMMA CollectFollows == ASSUME Following, Collect PROVE Following'
  <1>1. /\ watcherPc = "idle" /\ updates' = << >> /\ watcherPc' = "reading"
        /\ UNCHANGED <<disk, manifest, hostPc, host, next, scanned>>
        /\ UNCHANGED hostVars /\ UNCHANGED watchVars /\ UNCHANGED <<missed, edits>>
    BY DEF Collect, hostVars, inputs, opening
  <1>2. PICK n \in 1 .. Len(queue) :
          /\ queue' = SubSeq(queue, n + 1, Len(queue))
          /\ batch' = {e.path : e \in ToSet(SubSeq(queue, 1, n))}
          /\ required' = \E e \in ToSet(SubSeq(queue, 1, n)) : e.membership
          /\ unread' = batch' \ {Manifest}
    BY DEF Collect
  <1>3. queue \in Seq(Notification) /\ Len(queue) \in Nat /\ DOMAIN queue = 1 .. Len(queue)
    BY DEF Following, WatcherTyped, Notification
  <1> DEFINE first == SubSeq(queue, 1, n)
  <1>4. /\ first \in Seq(Notification) /\ DOMAIN first = 1 .. n
        /\ \A i \in 1 .. n : first[i] = queue[i]
    BY <1>3
  <1>5. /\ queue' \in Seq(Notification) /\ DOMAIN queue' = 1 .. (Len(queue) - n)
        /\ \A i \in 1 .. (Len(queue) - n) : queue'[i] = queue[n + i]
    BY <1>2, <1>3
  <1> HIDE DEF first
  <1>6. ToSet(first) = {queue[i] : i \in 1 .. n}
    BY <1>4 DEF ToSet
  <1>7. batch' = {queue[i].path : i \in 1 .. n}
    BY <1>2, <1>6 DEF first
  <1>8. \A i \in DOMAIN queue : queue[i].path \in Paths
    <2>1. \A i \in DOMAIN queue : queue[i] \in Notification
      BY <1>3
    <2> QED BY <2>1 DEF Notification
  <1>9. batch' \subseteq Paths /\ unread' \subseteq Files /\ required' \in BOOLEAN
    <2>1. batch' \subseteq Paths
      BY <1>3, <1>7, <1>8
    <2>2. unread' \subseteq Files
      BY <1>2, <2>1 DEF Paths
    <2>3. required' \in BOOLEAN
      BY <1>2
    <2> QED BY <2>1, <2>2, <2>3
  <1>10. WatcherTyped'
    <2>1. DOMAIN updates' = {}
      BY <1>1
    <2> QED BY <1>1, <1>5, <1>9, <2>1 DEF Following, WatcherTyped, Notification
  <1>11. WatchTyped' /\ HostTyped'
    BY <1>1, WatchTypesStay, HostTypesStay DEF Following, hostVars, opening
  <1>12. Handovers' /\ Fresh'
    BY <1>1 DEF Following, Handovers, Calm, Fresh, Rebuilt
  <1>13. Current'
    <2>1. DOMAIN updates' = {}
      BY <1>1
    <2> QED BY <2>1 DEF Current
  <1>14. Known'
    <2> SUFFICES ASSUME hostPc # "dead", NEW p \in Paths \ missed, Lost(host, p) PROVE OnItsWay(p)'
      BY <1>1 DEF Known, Lost, Stale
    <2>1. PICK i \in DOMAIN queue : queue[i].path = p
      BY <1>1 DEF Following, Known, Calm, OnItsWay, Notified
    <2>2. CASE i \in 1 .. n
      BY <1>1, <1>2, <1>7, <2>1, <2>2 DEF OnItsWay
    <2>3. CASE i \notin 1 .. n
      <3>1. i - n \in 1 .. (Len(queue) - n) /\ n + (i - n) = i
        BY <1>3, <2>3
      <3> QED BY <1>5, <2>1, <3>1 DEF OnItsWay, Notified
    <2> QED BY <2>2, <2>3
  <1> QED
    BY <1>10, <1>11, <1>12, <1>13, <1>14 DEF Following

LEMMA ReadFileFollows == ASSUME Following, ReadFile PROVE Following'
  <1>1. /\ watcherPc = "reading" /\ UNCHANGED hostVars /\ UNCHANGED watchVars
        /\ UNCHANGED <<queue, watcherPc, batch, required, missed, edits>>
        /\ UNCHANGED <<disk, manifest, hostPc, host, next, scanned>>
    BY DEF ReadFile, hostVars, inputs, opening
  <1>2. PICK f \in unread :
          /\ unread' = unread \ {f}
          /\ updates' = IF disk[f] = 0 THEN updates ELSE With(updates, f, disk[f])
    BY DEF ReadFile
  <1>3. f \in Files /\ disk[f] \in Nat /\ DOMAIN updates \subseteq Files
    BY DEF Following, WatcherTyped, HostTyped
  <1>4. /\ DOMAIN updates' \subseteq DOMAIN updates \cup {f} /\ DOMAIN updates \subseteq DOMAIN updates'
        /\ \A q \in DOMAIN updates' : updates'[q] = disk[q] \/ (q \in DOMAIN updates /\ updates'[q] = updates[q])
        /\ disk[f] # 0 => f \in DOMAIN updates' /\ updates'[f] = disk[f]
        /\ \A q \in DOMAIN updates : q # f => updates'[q] = updates[q]
    BY <1>2 DEF With
  <1>5. WatcherTyped'
    <2>1. \A q \in DOMAIN updates' : updates'[q] \in Nat
      BY <1>3, <1>4 DEF Following, WatcherTyped, HostTyped
    <2> QED BY <1>1, <1>2, <1>3, <1>4, <2>1 DEF Following, WatcherTyped
  <1>6. WatchTyped' /\ HostTyped' /\ Fresh'
    BY <1>1, WatchTypesStay, OthersStay DEF Following
  <1>7. Handovers'
    BY <1>1 DEF Following, Handovers
  <1>8. Current'
    BY <1>1, <1>4 DEF Following, Current, Notified
  <1>9. Known'
    <2> SUFFICES ASSUME hostPc # "dead", NEW p \in Paths \ missed, Lost(host, p) PROVE OnItsWay(p)'
      BY <1>1 DEF Known, Lost, Stale
    <2>1. OnItsWay(p)
      BY <1>1 DEF Following, Known, Calm
    <2>2. CASE p = f
      BY <1>1, <1>3, <1>4, <2>2, WatcherAssumption DEF Lost, OnItsWay
    <2>3. CASE p # f
      BY <1>1, <1>2, <1>4, <2>1, <2>3 DEF OnItsWay, Notified
    <2> QED BY <2>2, <2>3
  <1> QED
    BY <1>5, <1>6, <1>7, <1>8, <1>9 DEF Following

(* A batch ends when everything in it was looked at. *)
LEMMA BatchEnds ==
  ASSUME WatcherTyped, NEW needed, ReloadIf(needed), UNCHANGED <<queue, unread, edits>>,
         missed' \subseteq missed
  PROVE  WatcherTyped' /\ Current' /\ watcherPc' \in {"idle", "reloading"}
  <1>1. DOMAIN updates' = {} /\ batch' = {} /\ required' = FALSE /\ watcherPc' \in {"idle", "reloading"}
    BY DEF ReloadIf
  <1> QED
    BY <1>1 DEF WatcherTyped, Current

LEMMA ClassifyFollows == ASSUME Following, Classify PROVE Following'
  <1>1. /\ watcherPc = "reading" /\ unread = {} /\ UNCHANGED hostVars /\ UNCHANGED watchVars
        /\ UNCHANGED <<queue, unread, missed, edits>>
        /\ UNCHANGED <<disk, manifest, hostPc, host, next, scanned>>
    BY DEF Classify, hostVars, inputs, opening
  <1>2. WatchTyped' /\ HostTyped' /\ Fresh'
    BY <1>1, WatchTypesStay, OthersStay DEF Following
  <1>3. CASE ~ Configuration(batch) /\ updates # << >>
    <2>1. watcherPc' = "applying" /\ UNCHANGED <<batch, required, updates>>
      BY <1>3 DEF Classify
    <2>2. WatcherTyped' /\ Handovers' /\ Current'
      BY <1>1, <2>1 DEF Following, WatcherTyped, Handovers, Calm, Current, Notified
    <2>3. Known'
      BY <1>1, <1>3, <2>1 DEF Following, Known, Calm, Lost, OnItsWay, Notified, Stale, Configuration
    <2> QED BY <1>2, <2>2, <2>3 DEF Following
  <1>4. CASE ~ (~ Configuration(batch) /\ updates # << >>)
    <2>1. ReloadIf(required \/ Configuration(batch))
      BY <1>4 DEF Classify
    <2>2. WatcherTyped' /\ Current' /\ watcherPc' \in {"idle", "reloading"}
      BY <1>1, <2>1, BatchEnds DEF Following
    <2>3. Handovers'
      BY <1>1, <2>2 DEF Following, Handovers, Calm
    <2>4. Known'
      <3> SUFFICES ASSUME watcherPc' = "idle", hostPc # "dead", NEW p \in Paths \ missed, Lost(host, p)
                   PROVE  OnItsWay(p)'
        BY <1>1, <2>2 DEF Known, Calm, Lost, Stale
      <3>1. Manifest \notin batch
        BY <2>1 DEF ReloadIf, Configuration
      <3>2. DOMAIN updates = {}
        BY <1>4, <3>1 DEF Configuration
      <3> QED BY <1>1, <3>1, <3>2 DEF Following, Known, Calm, OnItsWay, Notified
    <2> QED BY <1>2, <2>2, <2>3, <2>4 DEF Following
  <1> QED
    BY <1>3, <1>4

LEMMA UpdatedHost ==
  ASSUME HostTyped, WatcherTyped
  PROVE  /\ Updated(host, updates) \in HostRecord /\ Updated(host, updates).layout = host.layout
         /\ \A f \in Files : Updated(host, updates).texts[f] =
                             IF f \in DOMAIN updates THEN updates[f] ELSE host.texts[f]
  <1>1. host \in HostRecord
    BY DEF HostTyped
  <1> DEFINE texts == [f \in Files |-> IF f \in DOMAIN updates THEN updates[f] ELSE host.texts[f]]
  <1>2. texts \in [Files -> Nat]
    BY <1>1 DEF WatcherTyped, HostRecord
  <1>3. Updated(host, updates) = [host EXCEPT !.texts = texts]
    BY <1>1 DEF Updated, HostRecord
  <1> QED
    BY <1>1, <1>2, <1>3 DEF HostRecord

LEMMA ApplyFollows == ASSUME Following, Apply PROVE Following'
  <1>1. /\ watcherPc = "applying" /\ hostPc = "idle"
        /\ missed' = StillStale(missed, host')
        /\ UNCHANGED <<disk, manifest, hostPc, next, scanned, thread, ready, open, stubs, faults>>
        /\ UNCHANGED watchVars /\ UNCHANGED <<queue, unread, edits>>
    BY DEF Apply, inputs, opening, rustc
  <1>2. /\ ReloadIf(TRUE) \/ ReloadIf(FALSE) \/ ReloadIf(required)
        /\ host' = Updated(host, updates) \/ (host' = host /\ watcherPc' = "reloading")
    BY DEF Apply, ReloadIf
  <1>3. WatcherTyped' /\ Current' /\ watcherPc' \in {"idle", "reloading"}
    <2>1. missed' \subseteq missed
      BY <1>1 DEF StillStale
    <2> QED BY <1>1, <1>2, <2>1, BatchEnds DEF Following
  <1>4. HostTyped'
    BY <1>1, <1>2, UpdatedHost DEF Following, HostTyped
  <1>5. WatchTyped'
    BY <1>1, WatchTypesStay DEF Following
  <1>6. Handovers' /\ Fresh'
    BY <1>1, <1>3 DEF Handovers, Calm, Fresh, Rebuilt
  <1>7. Known'
    <2> SUFFICES ASSUME watcherPc' = "idle", NEW p \in Paths \ missed', Lost(host, p)'
                 PROVE  Notified(p)'
      BY <1>3 DEF Known, Calm, OnItsWay
    <2>1. Stale(host', p) /\ p \notin missed /\ host' = Updated(host, updates)
      BY <1>1, <1>2 DEF Lost, Stale, StillStale
    <2>2. CASE p \in DOMAIN updates
      <3>1. Notified(p) \/ updates[p] = disk[p]
        BY <1>1, <2>1, <2>2 DEF Following, Current
      <3>2. p \in Files /\ p # Manifest
        BY <2>2, WatcherAssumption DEF Following, WatcherTyped
      <3>3. host'.texts[p] = updates[p]
        BY <2>1, <2>2, <3>2, UpdatedHost DEF Following
      <3> QED BY <1>1, <2>1, <3>1, <3>2, <3>3 DEF Stale, Notified
    <2>3. CASE p \notin DOMAIN updates
      <3>1. Lost(host, p)
        BY <1>1, <2>1, <2>3, UpdatedHost DEF Following, Lost, Stale, Paths
      <3> QED BY <1>1, <2>1, <2>3, <3>1 DEF Following, Known, Calm, OnItsWay, Notified
    <2> QED BY <2>2, <2>3
  <1> QED
    BY <1>3, <1>4, <1>5, <1>6, <1>7 DEF Following

LEMMA BeginReloadFollows == ASSUME Following, BeginReload PROVE Following'
  <1>1. /\ watcherPc = "reloading" /\ hostPc' = "load"
        /\ UNCHANGED <<inputs, host, next, scanned, rustc>>
        /\ UNCHANGED watchVars /\ UNCHANGED <<watcherVars, missed, edits>>
        /\ UNCHANGED <<disk, queue, watcherPc, updates, missed>>
    BY DEF BeginReload, inputs, opening, watcherVars
  <1>2. HostTyped' /\ WatchTyped' /\ WatcherTyped'
    BY <1>1, HostTypesStay, WatchTypesStay, WatcherTypesStay DEF Following
  <1>3. Handovers' /\ Fresh' /\ Known' /\ Current'
    BY <1>1 DEF Handovers, Fresh, Rebuilt, Known, Calm, Current
  <1> QED
    BY <1>2, <1>3 DEF Following

LEMMA RefusedFollows == ASSUME Following, Refused PROVE Following'
  <1>1. /\ hostPc = "dead" /\ hostPc' = "dead" /\ ReloadIf(FALSE)
        /\ UNCHANGED hostVars /\ UNCHANGED watchVars /\ UNCHANGED <<queue, unread, missed, edits>>
    BY DEF Refused, hostVars
  <1>2. WatcherTyped' /\ Current' /\ watcherPc' \in {"idle", "reloading"}
    BY <1>1, BatchEnds DEF Following
  <1>3. HostTyped' /\ Fresh' /\ WatchTyped'
    BY <1>1, OthersStay, WatchTypesStay DEF Following
  <1>4. Handovers' /\ Known'
    BY <1>1, <1>2 DEF Handovers, Known
  <1> QED
    BY <1>2, <1>3, <1>4 DEF Following

LEMMA OfWatchesFollows == ASSUME Following, OfWatches PROVE Following'
  <1>1. /\ Reconfigure /\ UNCHANGED hostVars /\ UNCHANGED <<watcherVars, missed, edits>>
    BY DEF OfWatches
  <1>2. UNCHANGED tracked
    BY <1>1 DEF tracked, hostVars, inputs, opening, watcherVars
  <1>3. HostTyped' /\ WatchTyped' /\ WatcherTyped'
    BY <1>1, HostTypesStay, ReconfigureTyped, WatcherTypesStay DEF Following, hostVars, opening
  <1>4. Handovers' /\ Fresh' /\ Known' /\ Current'
    BY <1>2, NothingLost DEF Following
  <1> QED
    BY <1>3, <1>4 DEF Following

LEMMA StutterFollows == ASSUME Following, UNCHANGED vars PROVE Following'
  <1>1. /\ UNCHANGED hostVars /\ UNCHANGED watchVars /\ UNCHANGED <<watcherVars, missed, edits>>
    BY DEF vars
  <1>2. UNCHANGED tracked
    BY <1>1 DEF tracked, hostVars, inputs, opening, watcherVars
  <1>3. HostTyped' /\ WatchTyped' /\ WatcherTyped'
    BY <1>1, HostTypesStay, WatchTypesStay, WatcherTypesStay DEF Following, hostVars, opening
  <1>4. Handovers' /\ Fresh' /\ Known' /\ Current'
    BY <1>2, NothingLost DEF Following
  <1> QED
    BY <1>3, <1>4 DEF Following

LEMMA FollowingStep == Following /\ [Next]_vars => Following'
  BY EditFollows, OpenedFollows, ConfiguredFollows, CollectFollows, ReadFileFollows,
     ClassifyFollows, ApplyFollows, BeginReloadFollows, ReloadedFollows, RefusedFollows,
     OfHostFollows, OfWatchesFollows, QueryFollows, StutterFollows
     DEF Next, OfWatcher

LEMMA FollowingHolds == Spec => []Following
  BY FollowingInit, FollowingStep, PTL DEF Spec

LEMMA OneHole ==
  ASSUME \A p, q \in hole : p = q
  PROVE  Cardinality(hole) <= 1
  <1>1. CASE hole = {}
    BY <1>1, FS_EmptySet
  <1>2. CASE hole # {}
    <2>1. PICK p : hole = {p}
      BY <1>2
    <2>2. Cardinality({p}) = 1
      BY FS_Singleton
    <2> QED BY <2>1, <2>2
  <1> QED
    BY <1>1, <1>2

LEMMA TypesHold == Inv /\ Following => TypeOK
  <1> SUFFICES ASSUME Inv, Following PROVE TypeOK
    OBVIOUS
  <1>1. HostTypeOK
    BY DEF Inv, HostInv, HostShape, Alone, Paired, Following, HostTyped, HostRecord, HostTypeOK
  <1>2. WatchTypeOK
    BY OneHole DEF Inv, WatchInv, Following, WatchTyped, WatchTypeOK
  <1> QED
    BY <1>1, <1>2 DEF Inv, Settled, Following, WatcherTyped, TypeOK

(* NoChangeIsLost: whatever is edited while files are read, updates are applied,   *)
(* the host is rebuilt or watches are replaced, what the running host does not     *)
(* have is notified, in the batch at work, or about to be read by a reload         *)
(* (main.rs, spawn_file_watcher; driver.rs, apply_updates and reload).            *)
THEOREM NoChangeIsLost == Spec => []ChangeIsPending
  <1>1. Inv /\ Following => ChangeIsPending
    <2> SUFFICES ASSUME Inv, Following, Running, ~ Dropping,
                        NEW p \in Sources \ missed, Lost(host, p)
                 PROVE  UnderWay(p)
      BY TypesHold DEF ChangeIsPending, Lost
    <2>1. p \in Paths \ missed
      BY DEF Sources
    <2>2. CASE watcherPc \in Calm
      BY <2>1, <2>2 DEF Running, Following, Known, OnItsWay, UnderWay, Configuration
    <2>3. CASE watcherPc = "reloading" /\ hostPc \in {"idle", "asking", "load"}
      BY <2>3 DEF UnderWay, ReadAgain
    <2>4. CASE watcherPc = "reloading" /\ hostPc \in Rebuilt
      <3>1. next # NoHost
        BY <2>4, MalformedAssumption DEF Following, Fresh, NoHost
      <3>2. FreshPath(p)
        BY <2>1, <2>4 DEF Following, Fresh
      <3> QED BY <2>4, <3>1, <3>2 DEF FreshPath, UnderWay, ReadAgain
    <2>5. watcherPc \in Calm \/ watcherPc = "reloading"
      BY DEF Running, Inv, Settled, Calm
    <2>6. watcherPc = "reloading" => hostPc \in {"idle", "asking", "load"} \cup Rebuilt
      BY DEF Running, Dropping, Inv, HostInv, HostShape, Alone, Paired, Rebuilt
    <2> QED BY <2>2, <2>3, <2>4, <2>5, <2>6
  <1> QED
    BY <1>1, InvHolds, FollowingHolds, PTL
===============================================================================
