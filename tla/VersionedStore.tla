--------------------------- MODULE VersionedStore ---------------------------
(***************************************************************************)
(* The version tree and the per-version state of the inference e-graph     *)
(* (sage-ir, check/infer/version.rs and check/infer/egraph.rs).            *)
(*                                                                         *)
(* A version holds only what was written in it: its difference from its    *)
(* parent.  A read walks from the version towards the root and takes the   *)
(* nearest entry.  The maps of VersionState (parents, bounds, domains,     *)
(* universe_ceilings) all work this way, so an entry here is a pair of a   *)
(* map's name and the inference variable it is keyed by.                   *)
(***************************************************************************)
EXTENDS Naturals

CONSTANTS
  VersionBound,   \* how many version identities a behaviour may use
  VarBound,       \* how many inference variables a behaviour may allocate
  RevisionBound,  \* how many semantic changes a version's history may hold
  Fields,         \* the names of VersionState's maps
  Ceiling,        \* the one among them that alloc_var_in_domain writes
  Values,         \* what an entry can hold
  None            \* no entry

ASSUME BoundsAssumption ==
  /\ VersionBound \in Nat \ {0}
  /\ VarBound \in Nat
  /\ RevisionBound \in Nat

ASSUME DataAssumption ==
  /\ Ceiling \in Fields
  /\ None \notin Values

VARIABLES
  len,        \* nodes.len(): the identity the next branch receives
  parent,     \* the version each version was branched from
  path,       \* what AncestorIter visits; fixed at the branch, as parents are
  live,       \* the versions that are not tombstoned
  variables,  \* variables.len(): the index the next variable receives
  owner,      \* the version that owns each variable
  diff,       \* each version's own entries
  wakes,      \* the variables whose state a version changed
  revision,   \* semantic_revision
  effects     \* the CommitEffects of the last collapse

tree == <<len, parent, path, live>>
vars == <<tree, variables, owner, diff, wakes, revision, effects>>

Version == 0 .. VersionBound - 1
Var == 0 .. VarBound - 1
Root == 0
Entries == Fields \X Var
NoEntries == [e \in Entries |-> None]

(* children: the live versions branched from v.  remove() takes a version  *)
(* out of its parent's list exactly when it tombstones it.                 *)
Children(v) == {c \in live : c # Root /\ parent[c] = v}
IsLeaf(v) == Children(v) = {}

(* remove_subtree: v and the live versions below it. *)
Subtree(v) == {w \in live : v \in path[w]}

Visible(v) == {x \in 0 .. variables - 1 : owner[x] \in live /\ owner[x] \in path[v]}

(* The nearest-first walk.  A child's identity is larger than its parent's, *)
(* so the nearest ancestor with an entry is the largest one.               *)
Holders(v, e) == {w \in path[v] : diff[w][e] # None}
Nearest(S) == CHOOSE w \in S : \A u \in S : u <= w
Read(v, e) == IF Holders(v, e) = {} THEN None ELSE diff[Nearest(Holders(v, e))][e]
View(v) == [e \in Entries |-> Read(v, e)]

Init ==
  /\ len = 1
  /\ parent = [v \in Version |-> Root]
  /\ path = [v \in Version |-> {v}]
  /\ live = {Root}
  /\ variables = 0
  /\ owner = [x \in Var |-> Root]
  /\ diff = [v \in Version |-> NoEntries]
  /\ wakes = [v \in Version |-> {}]
  /\ revision = [v \in Version |-> 0]
  /\ effects = [wakes |-> {}, revision |-> 0]

BranchFrom(p) ==
  /\ p \in live
  /\ len \in Version
  /\ len' = len + 1
  /\ parent' = [parent EXCEPT ![len] = p]
  /\ path' = [path EXCEPT ![len] = path[p] \cup {len}]
  /\ live' = live \cup {len}
  /\ revision' = [revision EXCEPT ![len] = revision[p]]
  /\ UNCHANGED <<variables, owner, diff, wakes, effects>>

(* alloc_var_in_domain: a new variable is no semantic change. *)
AllocVar(v, universe) ==
  /\ v \in live
  /\ IsLeaf(v)
  /\ variables \in Var
  /\ variables' = variables + 1
  /\ owner' = [owner EXCEPT ![variables] = v]
  /\ diff' = [diff EXCEPT ![v][<<Ceiling, variables>>] = universe]
  /\ UNCHANGED <<tree, wakes, revision, effects>>

(* mark_semantic_change; the mistake does not count. *)
MarkSemanticChangeWithoutRevision(v, x) ==
  /\ wakes' = [wakes EXCEPT ![v] = @ \cup {x}]
  /\ UNCHANGED revision
MarkSemanticChange(v, x) ==
  /\ wakes' = [wakes EXCEPT ![v] = @ \cup {x}]
  /\ revision' = [revision EXCEPT ![v] = @ + 1]

(* lower_universe, set_bound_in, set_domain_in and the write of union:     *)
(* refused outside a mutable leaf, nothing at all when nothing changes,    *)
(* otherwise an entry, a semantic change and a wake.                       *)
Write(v, f, x, val) ==
  /\ v \in live
  /\ IsLeaf(v)
  /\ x \in Visible(v)
  /\ Read(v, <<f, x>>) # val
  /\ revision[v] < RevisionBound
  /\ diff' = [diff EXCEPT ![v][<<f, x>>] = val]
  /\ MarkSemanticChange(v, x)
  /\ UNCHANGED <<tree, variables, owner, effects>>

(* The parts of a collapse: the child's entries win, the parent keeps the  *)
(* child's wakes for its own commit, and the child's variables change      *)
(* hands.  Each is preceded by the mistake it invites.                     *)
OverlayParentWins(upper, lower) ==
  [e \in Entries |-> IF lower[e] # None THEN lower[e] ELSE upper[e]]
Overlay(upper, lower) ==
  [e \in Entries |-> IF upper[e] # None THEN upper[e] ELSE lower[e]]

InheritNoWakes(c, p) == wakes[p]
InheritWakes(c, p) == wakes[p] \cup wakes[c]

ReownNothing(c, p) == owner
ReownVariables(c, p) ==
  [x \in Var |-> IF x < variables /\ owner[x] = c THEN p ELSE owner[x]]

CollapseInto(c, p) ==
  /\ c \in live \ {Root}
  /\ p \in live
  /\ parent[c] = p
  /\ IsLeaf(c)
  /\ Children(p) = {c}
  /\ diff' = [diff EXCEPT ![p] = Overlay(diff[c], diff[p]), ![c] = NoEntries]
  /\ wakes' = [wakes EXCEPT ![p] = InheritWakes(c, p), ![c] = {}]
  /\ revision' = [revision EXCEPT ![p] = revision[c], ![c] = 0]
  /\ effects' = [wakes |-> wakes[c], revision |-> revision[c]]
  /\ owner' = ReownVariables(c, p)
  /\ live' = live \ {c}
  /\ UNCHANGED <<len, parent, path, variables>>

Discard(v) ==
  /\ v \in live \ {Root}
  /\ live' = live \ Subtree(v)
  /\ diff' = [w \in Version |-> IF w \in Subtree(v) THEN NoEntries ELSE diff[w]]
  /\ wakes' = [w \in Version |-> IF w \in Subtree(v) THEN {} ELSE wakes[w]]
  /\ revision' = [w \in Version |-> IF w \in Subtree(v) THEN 0 ELSE revision[w]]
  /\ UNCHANGED <<len, parent, path, variables, owner, effects>>

Next ==
  \/ \E p \in Version : BranchFrom(p)
  \/ \E v \in Version, u \in Values : AllocVar(v, u)
  \/ \E v \in Version, f \in Fields, x \in Var, val \in Values : Write(v, f, x, val)
  \/ \E c, p \in Version : CollapseInto(c, p)
  \/ \E v \in Version : Discard(v)

Spec == Init /\ [][Next]_vars

-----------------------------------------------------------------------------
(* Every variable holds a value of its kind. *)
TypeOK ==
  /\ len \in 1 .. VersionBound
  /\ parent \in [Version -> Version]
  /\ path \in [Version -> SUBSET Version]
  /\ live \in SUBSET Version
  /\ variables \in 0 .. VarBound
  /\ owner \in [Var -> Version]
  /\ diff \in [Version -> [Entries -> Values \cup {None}]]
  /\ wakes \in [Version -> SUBSET Var]
  /\ revision \in [Version -> Nat]
  /\ effects \in [wakes : SUBSET Var, revision : Nat]

(* The live versions form a tree closed under parents: a version's path    *)
(* contains the paths of its members, only live versions, and below each   *)
(* of them the child that leads on.  What is not live holds no entry, so a *)
(* fresh version starts empty.                                             *)
TreeShape ==
  /\ Root \in live
  /\ path[Root] = {Root}
  /\ \A v \in live : v < len /\ v \in path[v] /\ path[v] \subseteq live \cap 0 .. v
  /\ \A v \in live \ {Root} :
       parent[v] < v /\ parent[v] \in live /\ path[v] = path[parent[v]] \cup {v}
  /\ \A v \in live : \A w \in path[v] :
       /\ path[w] \subseteq path[v]
       /\ w # v => \E c \in path[v] : c # Root /\ parent[c] = w
  /\ \A v \in Version \ live : diff[v] = NoEntries

(* Nothing of a discarded transaction is left behind: an entry a live      *)
(* version can read is about a variable that version can see (discard and  *)
(* reown_variables).                                                       *)
NoDanglingEntry ==
  \A v \in live, f \in Fields, x \in Var : Read(v, <<f, x>>) # None => x \in Visible(v)

(* semantic_revision is a sound change detector across a branch: a child   *)
(* whose revision is still its parent's answers every read about the       *)
(* parent's variables as the parent does.                                  *)
EqualRevisionEqualView ==
  \A c \in live \ {Root} :
    revision[c] = revision[parent[c]] =>
      \A f \in Fields, x \in Visible(parent[c]) :
        Read(c, <<f, x>>) = Read(parent[c], <<f, x>>)

(* A frozen version changes only by the commit of its only child; then the *)
(* CommitEffects wake every variable the version already knew and now      *)
(* reads differently, however deep below the write was made                *)
(* (collapse_into returns the wakes and merges them into the parent).      *)
CommitWakesCoverChanges ==
  [][\A p \in live \cap live' :
       ~ IsLeaf(p) =>
         {x \in Visible(p) : \E f \in Fields : Read(p, <<f, x>>)' # Read(p, <<f, x>>)}
           \subseteq effects'.wakes]_vars

(* The sparse store implements nested transactions that copy: what each    *)
(* live version reads is its transaction's private copy, so a branch costs *)
(* nothing, a discard restores and no version sees a sibling's writes      *)
(* (branch_from, collapse_into, discard, assert_mutable).                  *)
FullCopies == [v \in Version |-> IF v \in live THEN View(v) ELSE NoEntries]

Copies == INSTANCE Transactions WITH
  Keys <- Entries,
  open <- live,
  used <- len,
  within <- parent,
  copy <- FullCopies

ImplementsTransactions == Copies!Spec

=============================================================================
