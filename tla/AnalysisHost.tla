----------------------------- MODULE AnalysisHost -----------------------------
(***************************************************************************)
(* The live analysis host (crates/sage-host/src/driver.rs): a database, a  *)
(* rustc thread that serves metadata over a channel (proxy.rs, the bridge's *)
(* serve_tcx_requests), and a stub directory.  Opening one reads the       *)
(* manifest and the package's files from a disk that may change at any     *)
(* step; reload opens a second host before it drops the first.             *)
(***************************************************************************)
EXTENDS Integers, Sequences, FiniteSets

CONSTANTS
  Files,           \* source files there may be
  Layouts,         \* what a well-formed manifest may select
  Malformed,       \* a manifest that Cargo refuses
  PackageFiles,    \* the files of the package that a layout selects
  RootFile,        \* its root source file
  ThreadBound,     \* rustc threads in one behaviour
  FaultBound       \* failures of a rustc thread in one behaviour

ASSUME MalformedAssumption == Malformed \notin Layouts
ASSUME FaultAssumption == FaultBound \in Nat

VARIABLES
  disk,            \* texts on disk, 0 for a file that does not exist
  manifest,        \* the manifest on disk
  hostPc,          \* where the thread that owns the host is
  host,            \* the published host: layout, texts (0: not registered), thread
  next,            \* the replacement under construction
  scanned,         \* files that collect_source_files has passed
  thread,          \* rustc threads: "none", "expanding", "serving" or "ended"
  ready,           \* the readiness message: "none", "ok" or "error"
  open,            \* threads whose request sender is alive
  stubs,           \* threads whose stub directory exists
  faults

Threads == 1 .. ThreadBound
NoHost == [layout |-> Malformed, texts |-> [f \in Files |-> 0], thread |-> 0]

inputs == <<disk, manifest>>
opening == <<next, scanned>>
rustc == <<thread, ready, open, stubs, faults>>
hostVars == <<inputs, hostPc, host, opening, rustc>>

HostInit ==
  /\ hostPc = "load" /\ host = NoHost /\ next = NoHost /\ scanned = {}
  /\ thread = [t \in Threads |-> "none"] /\ ready = "none"
  /\ open = {} /\ stubs = {} /\ faults = 0

-----------------------------------------------------------------------------
(* try_open and reload, on the thread that owns the host.                  *)

(* load_workspace asks Cargo. *)
LoadWorkspace ==
  /\ hostPc = "load"
  /\ IF manifest \in Layouts
     THEN /\ next' = [NoHost EXCEPT !.layout = manifest]
          /\ scanned' = {} /\ hostPc' = "scan"
     ELSE hostPc' = "failed" /\ UNCHANGED opening
  /\ UNCHANGED <<inputs, host, rustc>>

(* collect_source_files reads one file after the other. *)
ScanFile ==
  /\ hostPc = "scan"
  /\ \E f \in Files \ scanned :
       /\ next' = [next EXCEPT !.texts[f] = IF f \in PackageFiles[next.layout] THEN disk[f] ELSE 0]
       /\ scanned' = scanned \cup {f}
       /\ hostPc' = IF scanned' = Files THEN "spawn" ELSE "scan"
  /\ UNCHANGED <<inputs, host, rustc>>

(* build_rustc_args makes the stub; the metadata thread starts. *)
Spawn ==
  /\ hostPc = "spawn"
  /\ \E t \in Threads :
       /\ thread[t] = "none" /\ \A u \in 1 .. (t - 1) : thread[u] # "none"
       /\ next' = [next EXCEPT !.thread = t]
       /\ thread' = [thread EXCEPT ![t] = "expanding"]
       /\ open' = open \cup {t} /\ stubs' = stubs \cup {t}
  /\ ready' = "none" /\ hostPc' = "await"
  /\ UNCHANGED <<inputs, host, scanned, faults>>

(* ready_rx.recv; on an error the thread is joined before returning. *)
Await ==
  /\ hostPc = "await" /\ ready # "none"
  /\ hostPc' = IF ready = "ok" THEN "build" ELSE "join"
  /\ UNCHANGED <<inputs, host, opening, rustc>>

Forget(t) == open' = open \ {t} /\ stubs' = stubs \ {t} /\ UNCHANGED <<thread, ready, faults>>

JoinFailed ==
  /\ hostPc = "join" /\ thread[next.thread] = "ended"
  /\ hostPc' = "failed"
  /\ Forget(next.thread)
  /\ UNCHANGED <<inputs, host, opening>>

(* The database is filled.  Without the root file this panics; the panic   *)
(* is caught in try_open and the new thread is detached, its channel gone. *)
Build ==
  /\ hostPc = "build"
  /\ IF next.texts[RootFile[next.layout]] = 0
     THEN hostPc' = "failed" /\ Forget(next.thread)
     ELSE hostPc' = "swap" /\ UNCHANGED rustc
  /\ UNCHANGED <<inputs, host, opening>>

(* Variant: the old thread is joined while its channel is still open. *)
JoinBeforeClosing ==
  /\ hostPc = "swap" /\ hostPc' = "retire"
  /\ UNCHANGED <<inputs, host, opening, rustc>>

(* *self = replacement: SageHost::drop closes the old channel ... *)
CloseOld ==
  /\ hostPc = "swap" /\ hostPc' = "retire"
  /\ open' = open \ {host.thread}
  /\ UNCHANGED <<inputs, host, opening, thread, ready, stubs, faults>>

(* Variant: the stub of the old host stays. *)
SwapKeepingStub ==
  /\ hostPc = "retire"
  /\ host # NoHost => thread[host.thread] = "ended"
  /\ hostPc' = "done" /\ host' = next
  /\ UNCHANGED <<inputs, opening, rustc>>

(* ... joins its thread and removes its stub. *)
Swap ==
  /\ hostPc = "retire"
  /\ host # NoHost => thread[host.thread] = "ended"
  /\ hostPc' = "done" /\ host' = next
  /\ Forget(host.thread)
  /\ UNCHANGED <<inputs, opening>>

Opening ==
  LoadWorkspace \/ ScanFile \/ Spawn \/ Await \/ JoinFailed \/ Build \/ CloseOld \/ Swap

-----------------------------------------------------------------------------
(* The rustc threads.                                                      *)

Fault == faults < FaultBound /\ faults' = faults + 1

(* after_expansion: readiness is reported once, as an error if the stub    *)
(* did not expand or if the compiler stopped before.                       *)
Expand(t) ==
  /\ thread[t] = "expanding"
  /\ \/ ready' = "ok" /\ thread' = [thread EXCEPT ![t] = "serving"] /\ UNCHANGED faults
     \/ Fault /\ ready' = "error" /\ thread' = [thread EXCEPT ![t] = "ended"]
  /\ UNCHANGED <<inputs, hostPc, host, opening, open, stubs>>

(* The loop of serve_tcx_requests ends with the channel. *)
EndServing(t) ==
  /\ thread[t] = "serving" /\ t \notin open
  /\ thread' = [thread EXCEPT ![t] = "ended"]
  /\ UNCHANGED <<inputs, hostPc, host, opening, ready, open, stubs, faults>>

(* ProxyTcxDb: the owner blocks on a reply of the host's thread. *)
Ask ==
  /\ hostPc = "idle" /\ hostPc' = "asking"
  /\ UNCHANGED <<inputs, host, opening, rustc>>

(* A thread that dies under a query takes the owner with it: "TyCtxt       *)
(* thread hung up" unwinds through everything the owner holds.             *)
Answer(t) ==
  /\ hostPc = "asking" /\ t = host.thread /\ thread[t] = "serving"
  /\ \/ hostPc' = "idle" /\ UNCHANGED rustc
     \/ /\ Fault
        /\ thread' = [thread EXCEPT ![t] = "ended"]
        /\ hostPc' = "dead" /\ open' = {} /\ stubs' = {} /\ UNCHANGED ready
  /\ UNCHANGED <<inputs, host, opening>>

Rustc == \E t \in Threads : Expand(t) \/ EndServing(t) \/ Answer(t)

-----------------------------------------------------------------------------

HostTypeOK ==
  /\ disk \in [Files -> Nat] /\ manifest \in Layouts \cup {Malformed}
  /\ hostPc \in {"load", "scan", "spawn", "await", "join", "build", "swap", "retire", "done",
                 "failed", "idle", "asking", "dead"}
  /\ \A h \in {host, next} : /\ h.layout \in Layouts \cup {Malformed}
                             /\ h.texts \in [Files -> Nat] /\ h.thread \in Threads \cup {0}
  /\ scanned \subseteq Files
  /\ thread \in [Threads -> {"none", "expanding", "serving", "ended"}]
  /\ ready \in {"none", "ok", "error"} /\ open \subseteq Threads /\ stubs \subseteq Threads
  /\ faults \in 0 .. FaultBound

(* Until a replacement is complete the published host is whole: its thread *)
(* serves, its channel is open and its stub exists, whatever step of a     *)
(* reload fails; and between reloads nothing is left of any other host     *)
(* ("failed_metadata_provider_replacement_preserves_the_live_host").       *)
OneLiveHost ==
  /\ host # NoHost /\ hostPc \notin {"retire", "dead"} =>
       /\ thread[host.thread] = "serving"
       /\ host.thread \in open /\ host.thread \in stubs
  /\ hostPc = "idle" => open = {host.thread} /\ stubs = {host.thread}

=============================================================================
