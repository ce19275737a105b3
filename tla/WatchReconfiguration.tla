------------------------- MODULE WatchReconfiguration -------------------------
(***************************************************************************)
(* reconfigure_watches and rollback_watch_changes (src/main.rs): one call  *)
(* of the notification backend per step, each of which may fail.  A watch  *)
(* is a path with a mode; "active" is the map of the code and what the     *)
(* backend watches, which every call changes together.                     *)
(***************************************************************************)
EXTENDS Integers, FiniteSets, Functions

CONSTANT WatchFailures     \* failed calls in one behaviour

ASSUME WatchAssumption == WatchFailures \in Nat

VARIABLES
  active,          \* path -> mode, for the paths that are watched
  desired,         \* the watches asked for
  prior,           \* the watches when the attempt began
  phase,           \* "steady", "working", "restoring", "undoing" or "failed"
  installed,       \* paths added by this attempt
  replaced,        \* paths whose mode this attempt changed
  hole,            \* the path between its unwatch and its watch, as a set
  kept,            \* obsolete paths whose unwatch failed
  degraded,        \* a step of the rollback failed
  failures

attempt == <<desired, prior>>
watchVars == <<active, attempt, phase, installed, replaced, hole, kept, degraded, failures>>

Without(f, p) == Restrict(f, DOMAIN f \ {p})
With(f, p, mode) == [q \in DOMAIN f \cup {p} |-> IF q = p THEN mode ELSE f[q]]

WatchInit ==
  /\ active = << >> /\ desired = << >> /\ prior = << >> /\ phase = "steady"
  /\ installed = {} /\ replaced = {} /\ hole = {} /\ kept = {}
  /\ degraded = FALSE /\ failures = 0

Fails == failures < WatchFailures /\ failures' = failures + 1
Works == UNCHANGED failures

(* An attempt begins. *)
Attempt(roots) ==
  /\ desired' = roots /\ prior' = active /\ phase' = "working"
  /\ installed' = {} /\ replaced' = {} /\ hole' = {} /\ kept' = {} /\ degraded' = FALSE
  /\ UNCHANGED <<active, failures>>

Additions == DOMAIN desired \ DOMAIN active
Replacements == {p \in DOMAIN desired \cap DOMAIN active : active[p] # desired[p]}
Obsolete == DOMAIN active \ (DOMAIN desired \cup kept)

(* Every replacement root is installed first. *)
Install(p) ==
  /\ phase = "working" /\ hole = {} /\ p \in Additions
  /\ \/ /\ Works /\ active' = With(active, p, desired[p])
        /\ installed' = installed \cup {p} /\ UNCHANGED phase
     \/ Fails /\ phase' = "undoing" /\ UNCHANGED <<active, installed>>
  /\ UNCHANGED <<attempt, replaced, hole, kept, degraded>>

(* A mode is changed by an unwatch ... *)
Unwatch(p) ==
  /\ phase = "working" /\ hole = {} /\ Additions = {} /\ p \in Replacements
  /\ \/ Works /\ active' = Without(active, p) /\ hole' = {p} /\ UNCHANGED phase
     \/ Fails /\ phase' = "undoing" /\ UNCHANGED <<active, hole>>
  /\ UNCHANGED <<attempt, installed, replaced, kept, degraded>>

(* ... and a watch, ... *)
Rewatch(p) ==
  /\ phase = "working" /\ p \in hole
  /\ \/ /\ Works /\ active' = With(active, p, desired[p])
        /\ replaced' = replaced \cup {p} /\ hole' = {} /\ UNCHANGED phase
     \/ Fails /\ phase' = "restoring" /\ UNCHANGED <<active, replaced, hole>>
  /\ UNCHANGED <<attempt, installed, kept, degraded>>

(* ... or else its old mode is restored. *)
Restore(p) ==
  /\ phase = "restoring" /\ p \in hole
  /\ \/ Works /\ active' = With(active, p, prior[p]) /\ UNCHANGED degraded
     \/ Fails /\ degraded' = TRUE /\ UNCHANGED active
  /\ phase' = "undoing" /\ hole' = {}
  /\ UNCHANGED <<attempt, installed, replaced, kept>>

(* Variant: what is obsolete is removed first. *)
CleanFirst(p) ==
  /\ phase = "working" /\ hole = {} /\ p \in Obsolete
  /\ \/ Works /\ active' = Without(active, p) /\ UNCHANGED kept
     \/ Fails /\ kept' = kept \cup {p} /\ UNCHANGED active
  /\ UNCHANGED <<attempt, phase, installed, replaced, hole, degraded>>

(* Obsolete roots go last; a failure leaves a harmless extra watch. *)
Clean(p) ==
  /\ phase = "working" /\ hole = {} /\ Additions = {} /\ Replacements = {} /\ p \in Obsolete
  /\ \/ Works /\ active' = Without(active, p) /\ UNCHANGED kept
     \/ Fails /\ kept' = kept \cup {p} /\ UNCHANGED active
  /\ UNCHANGED <<attempt, phase, installed, replaced, hole, degraded>>

Finish ==
  /\ phase = "working" /\ hole = {}
  /\ Additions = {} /\ Replacements = {} /\ Obsolete = {}
  /\ phase' = "steady" /\ installed' = {} /\ replaced' = {} /\ kept' = {}
  /\ UNCHANGED <<active, attempt, hole, degraded, failures>>

(* rollback_watch_changes: first the replaced modes, by an unwatch and a   *)
(* watch that is tried even if the unwatch failed, ...                     *)
UndoUnwatch(p) ==
  /\ phase = "undoing" /\ hole = {} /\ p \in replaced
  /\ \/ Works /\ active' = Without(active, p) /\ UNCHANGED degraded
     \/ Fails /\ degraded' = TRUE /\ UNCHANGED active
  /\ hole' = {p}
  /\ UNCHANGED <<attempt, phase, installed, replaced, kept>>

UndoRewatch(p) ==
  /\ phase = "undoing" /\ p \in hole
  /\ \/ Works /\ active' = With(active, p, prior[p]) /\ UNCHANGED degraded
     \/ Fails /\ degraded' = TRUE /\ UNCHANGED active
  /\ hole' = {} /\ replaced' = replaced \ {p}
  /\ UNCHANGED <<attempt, phase, installed, kept>>

(* ... then the installed roots. *)
UndoInstall(p) ==
  /\ phase = "undoing" /\ hole = {} /\ replaced = {} /\ p \in installed
  /\ \/ Works /\ active' = Without(active, p) /\ UNCHANGED degraded
     \/ Fails /\ degraded' = TRUE /\ UNCHANGED active
  /\ installed' = installed \ {p}
  /\ UNCHANGED <<attempt, phase, replaced, hole, kept>>

(* Variant: replaced modes are forgotten. *)
GiveUpEarly ==
  /\ phase = "undoing" /\ hole = {} /\ installed = {}
  /\ phase' = "failed"
  /\ UNCHANGED <<active, attempt, installed, replaced, hole, kept, degraded, failures>>

GiveUp ==
  /\ phase = "undoing" /\ hole = {} /\ replaced = {} /\ installed = {}
  /\ phase' = "failed"
  /\ UNCHANGED <<active, attempt, installed, replaced, hole, kept, degraded, failures>>

Reconfigure ==
  \/ \E p \in DOMAIN desired \cup DOMAIN active :
       \/ Install(p) \/ Unwatch(p) \/ Rewatch(p) \/ Restore(p) \/ Clean(p)
       \/ UndoUnwatch(p) \/ UndoRewatch(p) \/ UndoInstall(p)
  \/ Finish \/ GiveUp

-----------------------------------------------------------------------------

WatchTypeOK ==
  /\ phase \in {"steady", "working", "restoring", "undoing", "failed"}
  /\ installed \cup replaced \cup hole \subseteq DOMAIN desired
  /\ kept \subseteq DOMAIN active /\ Cardinality(hole) <= 1
  /\ degraded \in BOOLEAN /\ failures \in 0 .. WatchFailures

(* A failed attempt leaves the complete set that was there before, unless  *)
(* a step of its rollback failed too ("leave the prior complete watch set  *)
(* active for a retry").                                                   *)
RollbackRestores == phase = "failed" /\ ~ degraded => active = prior

=============================================================================
