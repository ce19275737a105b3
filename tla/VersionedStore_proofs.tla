------------------------ MODULE VersionedStore_proofs ------------------------
(***************************************************************************)
(* Proofs about VersionedStore, for every number of versions, variables    *)
(* and semantic changes and every choice of maps and values.               *)
(***************************************************************************)
EXTENDS VersionedStore, Integers, FiniteSetTheorems, WellFoundedInduction, TLAPS

(* The part of Next that is taken in a step: every proof below splits on it. *)
LEMMA NextCases ==
  ASSUME NEW ACTION P,
         [Next]_vars,
         \A p \in Version : BranchFrom(p) => P,
         \A v \in Version, u \in Values : AllocVar(v, u) => P,
         \A v \in Version, f \in Fields, x \in Var, val \in Values : Write(v, f, x, val) => P,
         \A c, p \in Version : CollapseInto(c, p) => P,
         \A v \in Version : Discard(v) => P,
         UNCHANGED vars => P
  PROVE  P
  BY DEF Next

-----------------------------------------------------------------------------
(* Type correctness: every action keeps each variable in its type. *)
LEMMA TypeInit == Init => TypeOK
  BY BoundsAssumption, DataAssumption
  DEF Init, TypeOK, Version, Var, Root, Entries, NoEntries

LEMMA BranchType == ASSUME TypeOK, NEW p \in Version, BranchFrom(p) PROVE TypeOK'
  <1>1. len \in Version /\ len' \in 1 .. VersionBound
    BY BoundsAssumption DEF TypeOK, BranchFrom, Version
  <1>2. path[p] \cup {len} \in SUBSET Version
    BY <1>1 DEF TypeOK
  <1>3. path' \in [Version -> SUBSET Version]
    BY <1>2 DEF TypeOK, BranchFrom
  <1> QED BY <1>1, <1>3 DEF TypeOK, BranchFrom

LEMMA AllocType ==
  ASSUME TypeOK, NEW v \in Version, NEW u \in Values, AllocVar(v, u) PROVE TypeOK'
  <1>1. <<Ceiling, variables>> \in Entries
    BY DataAssumption DEF AllocVar, Entries
  <1>2. diff' \in [Version -> [Entries -> Values \cup {None}]]
    BY <1>1 DEF TypeOK, AllocVar
  <1>3. variables' \in 0 .. VarBound
    BY BoundsAssumption DEF TypeOK, AllocVar, Var
  <1>4. owner' \in [Var -> Version]
    BY DEF TypeOK, AllocVar
  <1> QED BY <1>2, <1>3, <1>4 DEF TypeOK, AllocVar, tree

LEMMA WriteType ==
  ASSUME TypeOK, NEW v \in Version, NEW f \in Fields, NEW x \in Var, NEW val \in Values,
         Write(v, f, x, val)
  PROVE  TypeOK'
  <1>1. <<f, x>> \in Entries
    BY DEF Entries
  <1>2. diff' \in [Version -> [Entries -> Values \cup {None}]]
    BY <1>1 DEF TypeOK, Write
  <1>3. wakes' \in [Version -> SUBSET Var] /\ revision' \in [Version -> Nat]
    BY DEF TypeOK, Write, MarkSemanticChange
  <1> QED BY <1>2, <1>3 DEF TypeOK, Write, tree

LEMMA CollapseType ==
  ASSUME TypeOK, NEW c \in Version, NEW p \in Version, CollapseInto(c, p) PROVE TypeOK'
  <1>1. Overlay(diff[c], diff[p]) \in [Entries -> Values \cup {None}]
    BY DEF TypeOK, Overlay
  <1>2. NoEntries \in [Entries -> Values \cup {None}]
    BY DEF NoEntries
  <1>3. diff' \in [Version -> [Entries -> Values \cup {None}]]
    BY <1>1, <1>2 DEF TypeOK, CollapseInto
  <1>4. wakes' \in [Version -> SUBSET Var] /\ owner' \in [Var -> Version]
    BY DEF TypeOK, CollapseInto, InheritWakes, ReownVariables
  <1>5. revision' \in [Version -> Nat] /\ effects' \in [wakes : SUBSET Var, revision : Nat]
    BY DEF TypeOK, CollapseInto
  <1> QED BY <1>3, <1>4, <1>5 DEF TypeOK, CollapseInto

LEMMA DiscardType == ASSUME TypeOK, NEW v \in Version, Discard(v) PROVE TypeOK'
  <1>1. NoEntries \in [Entries -> Values \cup {None}]
    BY DEF NoEntries
  <1> QED BY <1>1 DEF TypeOK, Discard

(* Each variable of the store keeps the type its Rust field has. *)
THEOREM TypeCorrect == Spec => []TypeOK
<1>1. TypeOK /\ [Next]_vars => TypeOK'
  <2> SUFFICES ASSUME TypeOK, [Next]_vars PROVE TypeOK'
    OBVIOUS
  <2>1. UNCHANGED vars => TypeOK'
    BY DEF TypeOK, vars, tree
  <2> QED
    BY <2>1, BranchType, AllocType, WriteType, CollapseType, DiscardType, NextCases
<1> QED BY TypeInit, <1>1, PTL DEF Spec

-----------------------------------------------------------------------------
(* The shape of the tree. *)
LEMMA ShapeInit == Init => TreeShape
  <1> SUFFICES ASSUME Init PROVE TreeShape
    OBVIOUS
  <1>1. Root \in Version
    BY BoundsAssumption DEF Version, Root
  <1>2. path[Root] = {Root} /\ len = 1 /\ live = {Root} /\ diff = [v \in Version |-> NoEntries]
    BY <1>1 DEF Init
  <1> QED BY <1>1, <1>2 DEF TreeShape, Root

(* Nothing passes through a leaf: no other live version has it on its path. *)
LEMMA LeafOnNoOtherPath ==
  ASSUME TypeOK, TreeShape, NEW v \in live, IsLeaf(v), NEW w \in live, v \in path[w]
  PROVE  w = v
  <1> SUFFICES ASSUME w # v PROVE FALSE
    OBVIOUS
  <1>1. PICK c \in path[w] : c # Root /\ parent[c] = v
    BY DEF TreeShape
  <1>2. c \in Children(v)
    BY <1>1 DEF TreeShape, Children
  <1> QED BY <1>2 DEF IsLeaf

LEMMA BranchShape ==
  ASSUME TypeOK, TreeShape, NEW p \in Version, BranchFrom(p) PROVE TreeShape'
  <1> DEFINE n == len
  <1>1. n \in Version /\ n \notin live /\ n # Root /\ p \in live /\ p < n
    BY DEF BranchFrom, TreeShape, TypeOK, Version, Root
  <1>2. /\ live' = live \cup {n}
        /\ \A v \in live : path'[v] = path[v] /\ parent'[v] = parent[v]
        /\ path'[n] = path[p] \cup {n} /\ parent'[n] = p
        /\ len' = n + 1 /\ diff' = diff
    BY <1>1 DEF BranchFrom, TypeOK
  <1>3. Root' \in live' /\ path'[Root] = {Root}
    BY <1>2 DEF TreeShape, Root
  <1>4. ASSUME NEW v \in live' PROVE v < len' /\ v \in path'[v] /\ path'[v] \subseteq live' \cap 0 .. v
    <2>1. CASE v = n
      <3>1. path[p] \subseteq live \cap 0 .. p
        BY <1>1 DEF TreeShape
      <3> QED BY <2>1, <3>1, <1>1, <1>2 DEF TypeOK, Version
    <2>2. CASE v \in live
      BY <2>2, <1>2, <1>1 DEF TreeShape, TypeOK, Version
    <2> QED BY <2>1, <2>2, <1>2
  <1>5. ASSUME NEW v \in live' \ {Root}
        PROVE  parent'[v] < v /\ parent'[v] \in live' /\ path'[v] = path'[parent'[v]] \cup {v}
    <2>1. CASE v = n
      BY <2>1, <1>1, <1>2
    <2>2. CASE v \in live
      BY <2>2, <1>2 DEF TreeShape
    <2> QED BY <2>1, <2>2, <1>2
  <1>6. ASSUME NEW v \in live', NEW w \in path'[v]
        PROVE  /\ path'[w] \subseteq path'[v]
               /\ w # v => \E c \in path'[v] : c # Root /\ parent'[c] = w
    <2>1. CASE v = n
      <3>1. CASE w = n
        BY <2>1, <3>1
      <3>2. CASE w \in path[p]
        <4>1. w \in live /\ path'[w] = path[w] /\ path[w] \subseteq path[p]
          BY <3>2, <1>1, <1>2 DEF TreeShape
        <4>2. CASE w = p
          BY <4>1, <4>2, <2>1, <1>1, <1>2
        <4>3. CASE w # p
          <5>1. PICK c \in path[p] : c # Root /\ parent[c] = w
            BY <4>3, <3>2, <1>1 DEF TreeShape
          <5>2. c \in live
            BY <1>1 DEF TreeShape
          <5> QED BY <5>1, <5>2, <4>1, <2>1, <1>2
        <4> QED BY <4>2, <4>3
      <3> QED BY <2>1, <3>1, <3>2, <1>2
    <2>2. CASE v \in live
      <3>1. w \in path[v] /\ w \in live /\ path[v] \subseteq live
        BY <2>2, <1>2 DEF TreeShape
      <3>2. path[w] \subseteq path[v] /\ (w # v => \E c \in path[v] : c # Root /\ parent[c] = w)
        BY <2>2, <3>1 DEF TreeShape
      <3> QED BY <2>2, <3>1, <3>2, <1>2
    <2> QED BY <2>1, <2>2, <1>2
  <1>7. \A v \in Version \ live' : diff'[v] = NoEntries
    BY <1>2 DEF TreeShape
  <1> QED BY <1>3, <1>4, <1>5, <1>6, <1>7 DEF TreeShape, Root

(* A write to a live version's entries leaves the shape alone. *)
LEMMA WriteShape ==
  ASSUME TypeOK, TreeShape, UNCHANGED tree, NEW v \in live,
         \A w \in Version \ {v} : diff'[w] = diff[w]
  PROVE  TreeShape'
  BY DEF TreeShape, tree, Root

LEMMA CollapseShape ==
  ASSUME TypeOK, TreeShape, NEW c \in Version, NEW p \in Version, CollapseInto(c, p)
  PROVE  TreeShape'
  <1>1. /\ c \in live \ {Root} /\ IsLeaf(c) /\ p \in live /\ p # c
        /\ live' = live \ {c} /\ UNCHANGED <<len, parent, path>>
    BY DEF CollapseInto, TreeShape, TypeOK, Version
  <1>2. \A v \in live \ {c} : c \notin path[v] /\ (v # Root => parent[v] # c)
    BY <1>1, LeafOnNoOtherPath DEF IsLeaf, Children
  <1>3. \A v \in Version \ live' : diff'[v] = NoEntries
    BY <1>1 DEF CollapseInto, TreeShape, TypeOK
  <1>4. /\ Root \in live' /\ path'[Root] = {Root}
        /\ \A v \in live' : v < len' /\ v \in path'[v] /\ path'[v] \subseteq live' \cap 0 .. v
    BY <1>1, <1>2 DEF TreeShape
  <1>5. \A v \in live' \ {Root} :
          parent'[v] < v /\ parent'[v] \in live' /\ path'[v] = path'[parent'[v]] \cup {v}
    BY <1>1, <1>2 DEF TreeShape
  <1>6. \A v \in live' : \A w \in path'[v] :
          /\ path'[w] \subseteq path'[v]
          /\ w # v => \E d \in path'[v] : d # Root /\ parent'[d] = w
    BY <1>1 DEF TreeShape
  <1> QED BY <1>3, <1>4, <1>5, <1>6 DEF TreeShape, Root

LEMMA DiscardShape ==
  ASSUME TypeOK, TreeShape, NEW v \in Version, Discard(v) PROVE TreeShape'
  <1>1. /\ v \in live \ {Root} /\ live' = live \ Subtree(v) /\ UNCHANGED <<len, parent, path>>
    BY DEF Discard
  <1>2. \A w \in live' : path[w] \subseteq live'
    BY <1>1 DEF TreeShape, Subtree
  <1>3. \A w \in live' \ {Root} : parent[w] \in live'
    BY <1>1 DEF TreeShape, Subtree
  <1>4. \A w \in Version \ live' : diff'[w] = NoEntries
    BY <1>1 DEF Discard, TreeShape, TypeOK
  <1>5. /\ Root \in live' /\ path'[Root] = {Root}
        /\ \A w \in live' : w < len' /\ w \in path'[w] /\ path'[w] \subseteq live' \cap 0 .. w
    BY <1>1, <1>2 DEF TreeShape, Subtree
  <1>6. \A w \in live' \ {Root} :
          parent'[w] < w /\ parent'[w] \in live' /\ path'[w] = path'[parent'[w]] \cup {w}
    BY <1>1, <1>3 DEF TreeShape
  <1>7. \A w \in live' : \A u \in path'[w] :
          /\ path'[u] \subseteq path'[w]
          /\ u # w => \E d \in path'[w] : d # Root /\ parent'[d] = u
    BY <1>1 DEF TreeShape
  <1> QED BY <1>4, <1>5, <1>6, <1>7 DEF TreeShape, Root

LEMMA ShapeStep == TypeOK /\ TreeShape /\ [Next]_vars => TreeShape'
  <1> SUFFICES ASSUME TypeOK, TreeShape, [Next]_vars PROVE TreeShape'
    OBVIOUS
  <1>1. ASSUME NEW v \in Version, NEW u \in Values, AllocVar(v, u) PROVE TreeShape'
    BY <1>1, WriteShape DEF AllocVar, TypeOK
  <1>2. ASSUME NEW v \in Version, NEW f \in Fields, NEW x \in Var, NEW val \in Values,
               Write(v, f, x, val)
        PROVE  TreeShape'
    BY <1>2, WriteShape DEF Write, TypeOK
  <1>3. UNCHANGED vars => TreeShape'
    BY WriteShape DEF vars, TreeShape
  <1> QED BY <1>1, <1>2, <1>3, BranchShape, CollapseShape, DiscardShape, NextCases

(* The live versions always form a tree closed under parents, and nothing  *)
(* that is not live keeps an entry (branch_from, remove_subtree).          *)
THEOREM ShapeHolds == Spec => []TreeShape
<1> QED BY ShapeInit, ShapeStep, TypeCorrect, PTL DEF Spec

-----------------------------------------------------------------------------
(* Reads.  A version's own entry hides its ancestors'; without one, it     *)
(* reads what its parent reads; and only entries on its path matter.       *)
LEMMA MaximumExists ==
  ASSUME NEW n \in Nat, NEW S \in SUBSET (0 .. n), S # {}
  PROVE  \E w \in S : \A u \in S : u <= w
  <1> DEFINE U == 0 .. n
             Above(w) == {u \in S : u > w}
             T == {Above(w) : w \in S}
  <1>1. T \subseteq FiniteSubsetsOf(U) /\ T # {}
    <2>1. T \subseteq SUBSET U /\ T # {}
      OBVIOUS
    <2>2. IsFiniteSet(U)
      BY FS_Interval
    <2>3. FiniteSubsetsOf(U) = SUBSET U
      BY <2>2, FS_FiniteSubsetsOfFinite
    <2> QED BY <2>1, <2>3
  <1>2. IsWellFoundedOn(StrictSubsetOrdering(U), FiniteSubsetsOf(U))
    BY FS_StrictSubsetOrderingWellFounded
  <1>3. PICK M \in T : \A y \in T : ~ (<<y, M>> \in StrictSubsetOrdering(U))
    <2> HIDE DEF U, T
    <2> QED BY <1>1, <1>2, WFMin
  <1>4. PICK w \in S : M = Above(w)
    OBVIOUS
  <1>5. ASSUME NEW u \in S, u > w PROVE FALSE
    <2>1. Above(u) \in T /\ u \in Above(w) /\ u \notin Above(u)
      BY <1>5
    <2>2. Above(u) \in SUBSET U /\ Above(w) \in SUBSET U
      OBVIOUS
    <2>3. ASSUME NEW t \in Above(u) PROVE t \in Above(w)
      <3>1. t \in Int /\ u \in Int /\ w \in Int /\ t > u
        OBVIOUS
      <3> QED BY <3>1, <1>5
    <2>4. <<Above(u), Above(w)>> \in StrictSubsetOrdering(U)
      <3> HIDE DEF Above, U
      <3> QED BY <2>1, <2>2, <2>3 DEF StrictSubsetOrdering
    <2> QED BY <1>3, <1>4, <2>1, <2>4
  <1> QED BY <1>5

LEMMA NearestIsAMember ==
  ASSUME NEW S \in SUBSET Version, S # {} PROVE Nearest(S) \in S
  <1>1. VersionBound - 1 \in Nat /\ Version = 0 .. VersionBound - 1
    BY BoundsAssumption DEF Version
  <1> QED BY <1>1, MaximumExists DEF Nearest

LEMMA TopIsNearest ==
  ASSUME NEW v \in Nat, NEW S \in SUBSET (0 .. v), v \in S
  PROVE  Nearest(S) = v
  <1>1. \A u \in S : u <= v
    OBVIOUS
  <1>2. \A w \in S : (\A u \in S : u <= w) => w = v
    OBVIOUS
  <1> QED BY <1>1, <1>2 DEF Nearest

LEMMA ReadOwn ==
  ASSUME TypeOK, TreeShape, NEW v \in live, NEW e \in Entries, diff[v][e] # None
  PROVE  Read(v, e) = diff[v][e]
  <1>1. v \in Holders(v, e) /\ Holders(v, e) \in SUBSET (0 .. v) /\ v \in Nat
    BY DEF TreeShape, Holders, TypeOK, Version
  <1>2. Nearest(Holders(v, e)) = v
    BY <1>1, TopIsNearest
  <1> QED BY <1>1, <1>2 DEF Read

LEMMA ReadInherited ==
  ASSUME TypeOK, TreeShape, NEW c \in live \ {Root}, NEW e \in Entries, diff[c][e] = None
  PROVE  Read(c, e) = Read(parent[c], e)
  <1>1. Holders(c, e) = Holders(parent[c], e)
    BY DEF TreeShape, Holders
  <1> QED BY <1>1 DEF Read

LEMMA ReadUnchanged ==
  ASSUME TypeOK, NEW v \in Version, NEW e, path'[v] = path[v],
         \A w \in path[v] : diff'[w][e] = diff[w][e]
  PROVE  Read(v, e)' = Read(v, e)
  <1>1. Holders(v, e)' = Holders(v, e)
    BY DEF Holders
  <1>2. CASE Holders(v, e) = {}
    BY <1>1, <1>2 DEF Read
  <1>3. CASE Holders(v, e) # {}
    <2>1. Holders(v, e) \in SUBSET Version
      BY DEF Holders, TypeOK
    <2>2. Nearest(Holders(v, e)) \in path[v]
      BY <1>3, <2>1, NearestIsAMember DEF Holders
    <2> QED BY <1>1, <1>3, <2>2 DEF Read
  <1> QED BY <1>2, <1>3

(* Only a leaf's writes and a commit change what a live version reads: the *)
(* versions that are not below v never read v's entries.                   *)
LEMMA OthersReadUnchanged ==
  ASSUME TypeOK, TreeShape, UNCHANGED path, NEW v \in live, IsLeaf(v),
         \A w \in Version \ {v} : diff'[w] = diff[w],
         NEW u \in live \ {v}
  PROVE  View(u)' = View(u)
  <1>1. v \notin path[u] /\ path[u] \subseteq Version /\ u \in Version
    BY LeafOnNoOtherPath DEF TypeOK
  <1>2. \A e \in Entries : Read(u, e)' = Read(u, e)
    BY <1>1, ReadUnchanged
  <1> QED BY <1>2 DEF View

-----------------------------------------------------------------------------
(* The refinement.  Each operation of the store is an operation on the     *)
(* full copies, or, for an operation that changes no entry, a stutter.     *)
LEMMA SameNames ==
  /\ Copies!Version = Version /\ Copies!Root = Root /\ Copies!EmptyCopy = NoEntries
  /\ \A t : Copies!Nested(t) = Children(t)
  BY DEF Copies!Version, Copies!Root, Copies!EmptyCopy, Copies!Nested,
         Version, Root, NoEntries, Children

LEMMA RefinesInit == Init => Copies!Init
  <1> SUFFICES ASSUME Init PROVE Copies!Init
    OBVIOUS
  <1>1. View(Root) = NoEntries
    <2>0. Root \in Version
      BY BoundsAssumption DEF Version, Root
    <2>1. path[Root] = {Root} /\ diff[Root] = NoEntries
      BY <2>0 DEF Init
    <2>2. \A e \in Entries : Holders(Root, e) = {}
      BY <2>1 DEF Holders, NoEntries
    <2> QED BY <2>2 DEF View, Read, NoEntries
  <1>2. FullCopies = [v \in Version |-> NoEntries]
    BY <1>1 DEF FullCopies, Init
  <1> QED BY <1>2, SameNames DEF Init, Copies!Init

(* A branch starts with its parent's copy. *)
LEMMA RefinesBegin ==
  ASSUME TypeOK, TreeShape, NEW p \in Version, BranchFrom(p)
  PROVE  Copies!Begin(p)
  <1>1. PICK n \in Version : n = len
    BY DEF BranchFrom
  <1>2. /\ n \notin live /\ p \in live /\ p # n /\ live' = live \cup {n}
        /\ diff' = diff /\ diff[n] = NoEntries
        /\ path' = [path EXCEPT ![n] = path[p] \cup {n}]
    BY <1>1 DEF BranchFrom, TreeShape
  <1>3. path'[n] = path[p] \cup {n} /\ \A v \in live : path'[v] = path[v]
    BY <1>2 DEF TypeOK
  <1>4. \A v \in live, e \in Entries : Read(v, e)' = Read(v, e)
    BY <1>2, <1>3, ReadUnchanged DEF TypeOK
  <1>5. ASSUME NEW e \in Entries PROVE Read(n, e)' = Read(p, e)'
    <2>1. diff'[n][e] = None
      BY <1>2 DEF NoEntries
    <2>2. Holders(n, e)' = Holders(p, e)'
      BY <1>2, <1>3, <2>1 DEF Holders
    <2> QED BY <2>2 DEF Read
  <1>6. \A v \in live : View(v)' = View(v)
    BY <1>4 DEF View
  <1>7. View(n)' = View(p)
    BY <1>2, <1>4, <1>5 DEF View
  <1>8. FullCopies' = [FullCopies EXCEPT ![n] = FullCopies[p]]
    <2>1. \A v \in Version \ {n} : FullCopies'[v] = FullCopies[v]
      BY <1>2, <1>6 DEF FullCopies
    <2>2. FullCopies'[n] = FullCopies[p]
      BY <1>2, <1>7 DEF FullCopies
    <2> QED BY <2>1, <2>2 DEF FullCopies
  <1> QED BY <1>1, <1>2, <1>8, SameNames DEF BranchFrom, Copies!Begin

(* An entry of a leaf, however it was written, is a Put on its copy. *)
LEMMA RefinesPut ==
  ASSUME TypeOK, TreeShape, UNCHANGED tree, NEW v \in live, IsLeaf(v),
         NEW e \in Entries, NEW x \in Values,
         diff' = [diff EXCEPT ![v][e] = x]
  PROVE  Copies!Put(v, e, x)
  <1>1. /\ v \in Version /\ UNCHANGED <<path, live>> /\ x # None
        /\ diff'[v][e] = x /\ \A d \in Entries \ {e} : diff'[v][d] = diff[v][d]
        /\ \A w \in Version \ {v} : diff'[w] = diff[w]
    BY DataAssumption DEF TypeOK, tree
  <1>2. \A u \in live \ {v} : View(u)' = View(u)
    BY <1>1, OthersReadUnchanged
  <1>3. \A d \in Entries \ {e} : Read(v, d)' = Read(v, d)
    <2> TAKE d \in Entries \ {e}
    <2>1. \A w \in path[v] : diff'[w][d] = diff[w][d]
      BY <1>1 DEF TypeOK
    <2> QED BY <1>1, <2>1, ReadUnchanged
  <1>4. Read(v, e)' = x
    <2>1. Holders(v, e)' \in SUBSET (0 .. v) /\ v \in Holders(v, e)' /\ v \in Nat
      BY <1>1 DEF Holders, TreeShape, Version
    <2>2. Nearest(Holders(v, e)') = v
      BY <2>1, TopIsNearest
    <2>3. Read(v, e)' = diff'[Nearest(Holders(v, e)')][e]
      BY <2>1 DEF Read, Nearest
    <2> QED BY <1>1, <2>2, <2>3
  <1>5. View(v)' = [View(v) EXCEPT ![e] = x]
    BY <1>3, <1>4 DEF View
  <1>6. FullCopies' = [FullCopies EXCEPT ![v][e] = x]
    <2>1. \A u \in Version \ {v} : FullCopies'[u] = FullCopies[u]
      BY <1>1, <1>2 DEF FullCopies
    <2>2. FullCopies'[v] = [FullCopies[v] EXCEPT ![e] = x]
      BY <1>1, <1>5 DEF FullCopies
    <2> QED BY <1>1, <2>1, <2>2 DEF FullCopies
  <1> QED BY <1>1, <1>6, SameNames DEF Copies!Put, IsLeaf, tree

(* A commit gives the parent the child's copy and changes no other one. *)
LEMMA RefinesCommit ==
  ASSUME TypeOK, TreeShape, NEW c \in Version, NEW p \in Version, CollapseInto(c, p)
  PROVE  Copies!Commit(c)
  <1>1. /\ c \in live \ {Root} /\ p \in live /\ parent[c] = p /\ IsLeaf(c) /\ Children(p) = {c}
        /\ live' = live \ {c} /\ UNCHANGED <<len, parent, path>> /\ p # c
    BY DEF CollapseInto, TreeShape, TypeOK, Version
  <1>2. /\ diff'[p] = Overlay(diff[c], diff[p])
        /\ \A w \in Version \ {c, p} : diff'[w] = diff[w]
    BY <1>1 DEF CollapseInto, TypeOK
  <1>3. ASSUME NEW u \in live \ {c, p} PROVE View(u)' = View(u)
    <2>1. c \notin path[u] /\ p \notin path[u]
      <3>1. c \notin path[u]
        BY <1>1, LeafOnNoOtherPath
      <3>2. ASSUME p \in path[u] PROVE FALSE
        <4>1. PICK d \in path[u] : d # Root /\ parent[d] = p
          BY <3>2 DEF TreeShape
        <4>2. d \in Children(p)
          BY <4>1 DEF Children, TreeShape
        <4> QED BY <1>1, <3>1, <4>2
      <3> QED BY <3>1, <3>2
    <2>2. u \in Version /\ \A w \in path[u] : diff'[w] = diff[w]
      BY <1>2, <2>1 DEF TypeOK
    <2>3. \A e \in Entries : Read(u, e)' = Read(u, e)
      BY <1>1, <2>2, ReadUnchanged
    <2> QED BY <2>3 DEF View
  <1>4. ASSUME NEW e \in Entries PROVE Read(p, e)' = Read(c, e)
    <2>1. c \notin path[p] /\ path[p] \subseteq 0 .. p /\ p \in path[p] /\ p \in Nat
      BY <1>1, LeafOnNoOtherPath DEF TreeShape, Version
    <2>2. CASE diff[c][e] # None
      <3>1. diff'[p][e] = diff[c][e]
        BY <1>2, <2>2 DEF Overlay
      <3>2. Holders(p, e)' \in SUBSET (0 .. p) /\ p \in Holders(p, e)'
        BY <1>1, <2>1, <2>2, <3>1 DEF Holders
      <3>3. Nearest(Holders(p, e)') = p
        BY <2>1, <3>2, TopIsNearest
      <3>4. Read(p, e)' = diff'[Nearest(Holders(p, e)')][e]
        BY <3>2 DEF Read, Nearest
      <3> QED BY <1>1, <2>2, <3>1, <3>3, <3>4, ReadOwn
    <2>3. CASE diff[c][e] = None
      <3>1. \A w \in path[p] : diff'[w][e] = diff[w][e]
        BY <1>2, <2>1, <2>3 DEF Overlay, TypeOK
      <3> QED BY <1>1, <2>3, <3>1, ReadUnchanged, ReadInherited
    <2> QED BY <2>2, <2>3
  <1>5. View(p)' = View(c)
    BY <1>4 DEF View
  <1>6. FullCopies' = [FullCopies EXCEPT ![p] = FullCopies[c], ![c] = NoEntries]
    <2>1. \A u \in Version \ {c, p} : FullCopies'[u] = FullCopies[u]
      BY <1>1, <1>3 DEF FullCopies
    <2>2. FullCopies'[p] = FullCopies[c] /\ FullCopies'[c] = NoEntries
      BY <1>1, <1>5 DEF FullCopies
    <2> QED BY <1>1, <2>1, <2>2 DEF FullCopies
  <1> QED BY <1>1, <1>6, SameNames DEF Copies!Commit, IsLeaf

(* A discard is an abort of the subtree: nobody else read it. *)
LEMMA RefinesAbort ==
  ASSUME TypeOK, TreeShape, NEW v \in Version, Discard(v)
  PROVE  Copies!Abort(v, Subtree(v))
  <1>1. v \in live \ {Root} /\ live' = live \ Subtree(v) /\ UNCHANGED <<len, parent, path>>
    BY DEF Discard
  <1>2. ASSUME NEW u \in live' PROVE View(u)' = View(u)
    <2>1. u \in Version /\ path[u] \cap Subtree(v) = {}
      BY <1>1 DEF TreeShape, Subtree, TypeOK
    <2>2. \A w \in path[u] : diff'[w] = diff[w]
      BY <1>1, <2>1 DEF Discard, TypeOK
    <2>3. \A e \in Entries : Read(u, e)' = Read(u, e)
      BY <1>1, <2>1, <2>2, ReadUnchanged
    <2> QED BY <2>3 DEF View
  <1>3. FullCopies' = [w \in Version |-> IF w \in Subtree(v) THEN NoEntries ELSE FullCopies[w]]
    BY <1>1, <1>2 DEF FullCopies
  <1>4. /\ v \in Subtree(v)
        /\ \A w \in Subtree(v) \ {v} : parent[w] \in Subtree(v)
        /\ \A w \in live \ Subtree(v) : w = Root \/ parent[w] \notin Subtree(v)
    <2>1. v \in Subtree(v) /\ Root \notin Subtree(v)
      BY <1>1 DEF TreeShape, Subtree
    <2>2. \A w \in live \ {Root} : path[w] = path[parent[w]] \cup {w} /\ parent[w] \in live
      BY DEF TreeShape
    <2> QED BY <2>1, <2>2 DEF Subtree
  <1> QED BY <1>1, <1>3, <1>4, SameNames DEF Copies!Abort

(* The sparse store of differences implements nested transactions that     *)
(* copy the whole store (branch_from, collapse_into, discard).             *)
THEOREM RefinesTransactions == Spec => ImplementsTransactions
<1>1. TypeOK /\ TreeShape /\ [Next]_vars => [Copies!Next]_Copies!vars
  <2> SUFFICES ASSUME TypeOK, TreeShape, [Next]_vars PROVE [Copies!Next]_Copies!vars
    OBVIOUS
  <2>1. ASSUME NEW p \in Version, BranchFrom(p) PROVE Copies!Next
    BY <2>1, RefinesBegin DEF Copies!Next, BranchFrom
  <2>2. ASSUME NEW v \in Version, NEW u \in Values, AllocVar(v, u) PROVE Copies!Next
    <3>1. PICK x \in Var : x = variables
      BY <2>2 DEF AllocVar
    <3>2. <<Ceiling, x>> \in Entries
      BY DataAssumption DEF Entries
    <3>3. Copies!Put(v, <<Ceiling, x>>, u)
      BY <2>2, <3>1, <3>2, RefinesPut DEF AllocVar
    <3> QED BY <2>2, <3>2, <3>3 DEF Copies!Next, AllocVar
  <2>3. ASSUME NEW v \in Version, NEW f \in Fields, NEW x \in Var, NEW val \in Values,
               Write(v, f, x, val)
        PROVE  Copies!Next
    <3>1. <<f, x>> \in Entries
      BY DEF Entries
    <3>2. Copies!Put(v, <<f, x>>, val)
      BY <2>3, <3>1, RefinesPut DEF Write
    <3> QED BY <2>3, <3>1, <3>2 DEF Copies!Next, Write
  <2>4. ASSUME NEW c \in Version, NEW p \in Version, CollapseInto(c, p) PROVE Copies!Next
    BY <2>4, RefinesCommit DEF Copies!Next, CollapseInto
  <2>5. ASSUME NEW v \in Version, Discard(v) PROVE Copies!Next
    <3>1. Copies!Abort(v, Subtree(v)) /\ Subtree(v) \in SUBSET live /\ v \in live
      BY <2>5, RefinesAbort DEF Subtree, Discard
    <3> QED BY <3>1 DEF Copies!Next
  <2>6. CASE UNCHANGED vars
    BY <2>6 DEF vars, tree, Copies!vars, FullCopies, View, Read, Holders
  <2> QED BY <2>1, <2>2, <2>3, <2>4, <2>5, <2>6 DEF Next
<1> QED
  BY RefinesInit, <1>1, TypeCorrect, ShapeHolds, PTL DEF Spec, ImplementsTransactions, Copies!Spec

-----------------------------------------------------------------------------
(* What the store promises to the rest of inference: nothing of a          *)
(* discarded version can be read, equal revisions mean equal views, and a  *)
(* commit wakes whoever could notice it.                                   *)

(* The strengthening.  The properties speak of reads, which gather entries *)
(* of a whole path; the induction speaks of each version's own entries.    *)

(* A version holds entries only about variables it can see. *)
EntriesVisible ==
  \A v \in live, f \in Fields, x \in Var : diff[v][<<f, x>>] # None => x \in Visible(v)

(* The revision of a version never lies behind its parent's, and an entry  *)
(* about a variable its parent knows has raised it and wakes the variable. *)
TracksChanges(c) ==
  /\ revision[parent[c]] <= revision[c]
  /\ \A f \in Fields, x \in Var :
       diff[c][<<f, x>>] # None /\ x \in Visible(parent[c]) =>
         revision[c] # revision[parent[c]] /\ x \in wakes[c]

Inv ==
  /\ TypeOK
  /\ TreeShape
  /\ EntriesVisible
  /\ \A c \in live \ {Root} : TracksChanges(c)

LEMMA InvInit == Init => Inv
  <1> SUFFICES ASSUME Init PROVE Inv
    OBVIOUS
  <1>1. TypeOK /\ TreeShape
    BY TypeInit, ShapeInit
  <1>2. live \ {Root} = {}
    BY DEF Init
  <1>3. EntriesVisible
    <2> SUFFICES ASSUME NEW v \in live, NEW f \in Fields, NEW x \in Var
                 PROVE  diff[v][<<f, x>>] = None
      BY DEF EntriesVisible
    <2>1. v \in Version /\ <<f, x>> \in Entries
      BY <1>1 DEF TypeOK, Entries
    <2> QED BY <2>1 DEF Init, NoEntries
  <1> QED
    BY <1>1, <1>2, <1>3 DEF Inv

(* A step that is about other versions leaves a version's record true. *)
LEMMA KeepsTrack ==
  ASSUME NEW c, TracksChanges(c),
         parent'[c] = parent[c], diff'[c] = diff[c], wakes'[c] = wakes[c],
         revision'[c] = revision[c], revision'[parent[c]] = revision[parent[c]],
         Visible(parent[c])' \cap Var \subseteq Visible(parent[c])
  PROVE  TracksChanges(c)'
  <1>1. Visible(parent[c])' = {x \in 0 .. variables' - 1 :
                                owner'[x] \in live' /\ owner'[x] \in path'[parent'[c]]}
    BY DEF Visible
  <1> QED BY <1>1 DEF TracksChanges, Visible

LEMMA BranchInv ==
  ASSUME Inv, NEW p \in Version, BranchFrom(p)
  PROVE  EntriesVisible' /\ \A c \in live' \ {Root} : TracksChanges(c)'
  <1>1. PICK n \in Version : n = len
    BY DEF BranchFrom
  <1>2. /\ p \in live /\ n \notin live /\ p # n /\ n # Root /\ live' = live \cup {n}
        /\ diff' = diff /\ diff[n] = NoEntries
    BY <1>1 DEF BranchFrom, TreeShape, Inv
  <1>3. /\ parent'[n] = p /\ revision'[n] = revision[p]
        /\ \A v \in live : /\ parent'[v] = parent[v] /\ path'[v] = path[v]
                           /\ revision'[v] = revision[v] /\ path[v] \subseteq live
        /\ \A v \in live \ {Root} : parent[v] \in live
    BY <1>1, <1>2 DEF BranchFrom, TypeOK, TreeShape, Inv
  <1>4. \A v \in live : Visible(v)' = Visible(v)
    BY <1>2, <1>3 DEF Visible, BranchFrom
  <1>5. EntriesVisible'
    <2> SUFFICES ASSUME NEW v \in live', NEW f \in Fields, NEW x \in Var, diff[v][<<f, x>>] # None
                 PROVE  x \in Visible(v)'
      BY <1>2 DEF EntriesVisible
    <2>1. v # n
      BY <1>2 DEF NoEntries, Entries
    <2> QED BY <1>2, <1>4, <2>1 DEF EntriesVisible, Inv
  <1>6. TracksChanges(n)'
    <2>1. \A f \in Fields, x \in Var : diff'[n][<<f, x>>] = None
      BY <1>2 DEF NoEntries, Entries
    <2>2. revision'[parent'[n]] <= revision'[n]
      BY <1>2, <1>3 DEF TypeOK, Inv
    <2> QED BY <2>1, <2>2 DEF TracksChanges
  <1>7. ASSUME NEW c \in live \ {Root} PROVE TracksChanges(c)'
    <2>1. parent[c] \in live /\ TracksChanges(c)
      BY <1>3 DEF Inv
    <2>2. Visible(parent[c])' = Visible(parent[c])
      <3>1. PICK q \in live : q = parent[c] /\ q = parent'[c]
        BY <1>3, <2>1
      <3> QED BY <1>4, <3>1 DEF Visible
    <2> QED BY <1>2, <1>3, <2>1, <2>2, KeepsTrack DEF BranchFrom
  <1> QED BY <1>2, <1>5, <1>6, <1>7

(* A write in a leaf, whether it makes a variable or is a semantic change: *)
(* nobody's parent is a leaf, so the other versions know nothing of it.    *)
LEMMA LeafKeepsTrack ==
  ASSUME Inv, UNCHANGED tree, NEW v \in live, IsLeaf(v),
         \A w \in Version \ {v} : diff'[w] = diff[w] /\ wakes'[w] = wakes[w]
                                  /\ revision'[w] = revision[w],
         revision'[v] \in Nat, revision[v] <= revision'[v],
         \A w \in live \ {v} : Visible(w)' = Visible(w),
         NEW c \in live \ {Root, v}
  PROVE  TracksChanges(c)'
  <1>1. parent[c] \in live \ {v} /\ TracksChanges(c) /\ c \in Version
    BY DEF Inv, TypeOK, TreeShape, IsLeaf, Children
  <1>2. parent[c] \in Version
    BY <1>1 DEF Inv, TypeOK
  <1>3. PICK q \in live \ {v} : q = parent[c] /\ q = parent'[c] /\ q \in Version
    BY <1>1, <1>2 DEF tree
  <1>4. Visible(parent[c])' = Visible(parent[c])
    BY <1>3 DEF Visible
  <1> QED BY <1>1, <1>2, <1>4, KeepsTrack DEF tree

LEMMA AllocInv ==
  ASSUME Inv, NEW v \in Version, NEW u \in Values, AllocVar(v, u)
  PROVE  EntriesVisible' /\ \A c \in live' \ {Root} : TracksChanges(c)'
  <1>1. PICK n \in Var : n = variables
    BY DEF AllocVar
  <1>2. /\ v \in live /\ IsLeaf(v) /\ UNCHANGED <<tree, wakes, revision>>
        /\ variables' = n + 1 /\ n \in Nat /\ v \in path[v]
        /\ owner'[n] = v /\ \A x \in Var \ {n} : owner'[x] = owner[x]
        /\ \A w \in Version \ {v} : diff'[w] = diff[w]
        /\ \A f \in Fields, x \in Var \ {n} : diff'[v][<<f, x>>] = diff[v][<<f, x>>]
    BY <1>1, DataAssumption DEF AllocVar, Inv, TypeOK, TreeShape, Entries, Var
  <1>3. \A w \in live : Visible(w) \subseteq 0 .. n - 1 /\ n - 1 \in Int
    BY <1>1, <1>2 DEF Visible
  <1>4. \A x \in 0 .. n - 1 : x \in Var /\ x # n
    BY <1>1, <1>2, BoundsAssumption DEF Var
  <1>5. \A w \in live : Visible(w)' = IF v \in path[w] THEN Visible(w) \cup {n} ELSE Visible(w)
    <2> TAKE w \in live
    <2>1. Visible(w)' = {x \in 0 .. n : owner'[x] \in live /\ owner'[x] \in path[w]}
      BY <1>2 DEF Visible, tree
    <2>2. Visible(w) = {x \in 0 .. n - 1 : owner[x] \in live /\ owner[x] \in path[w]}
      BY <1>1 DEF Visible
    <2>3. \A x \in 0 .. n - 1 : owner'[x] = owner[x]
      BY <1>2, <1>4
    <2>4. 0 .. n = (0 .. n - 1) \cup {n}
      BY <1>2
    <2> QED BY <1>2, <2>1, <2>2, <2>3, <2>4
  <1>6. \A w \in live \ {v} : Visible(w)' = Visible(w)
    BY <1>2, <1>5, LeafOnNoOtherPath DEF Inv
  <1>7. EntriesVisible'
    <2> SUFFICES ASSUME NEW w \in live, NEW f \in Fields, NEW x \in Var, diff'[w][<<f, x>>] # None
                 PROVE  x \in Visible(w)'
      BY <1>2 DEF EntriesVisible, tree
    <2>1. CASE w = v /\ x = n
      BY <1>2, <1>5, <2>1
    <2>2. CASE ~ (w = v /\ x = n)
      <3>1. diff[w][<<f, x>>] # None
        BY <1>2, <2>2 DEF Inv, TypeOK
      <3> QED BY <3>1, <1>5 DEF EntriesVisible, Inv
    <2> QED BY <2>1, <2>2
  <1>8. ASSUME v # Root PROVE TracksChanges(v)'
    <2>1. PICK q \in live : q = parent[v] /\ q = parent'[v] /\ q # v
      BY <1>2, <1>8 DEF Inv, TypeOK, TreeShape, Version, tree
    <2>2. Visible(parent[v])' = Visible(parent[v]) /\ n \notin Visible(parent[v])
      BY <1>3, <1>4, <1>6, <2>1 DEF Visible
    <2>3. TracksChanges(v)
      BY <1>2, <1>8 DEF Inv
    <2> QED BY <1>2, <2>1, <2>2, <2>3 DEF TracksChanges, tree
  <1>9. revision'[v] \in Nat /\ revision[v] <= revision'[v]
    BY <1>2 DEF Inv, TypeOK
  <1> QED BY <1>2, <1>6, <1>7, <1>8, <1>9, LeafKeepsTrack DEF tree

LEMMA WriteInv ==
  ASSUME Inv, NEW v \in Version, NEW f \in Fields, NEW x \in Var, NEW val \in Values,
         Write(v, f, x, val)
  PROVE  EntriesVisible' /\ \A c \in live' \ {Root} : TracksChanges(c)'
  <1>1. /\ v \in live /\ IsLeaf(v) /\ x \in Visible(v) /\ UNCHANGED <<tree, variables, owner>>
        /\ \A w \in Version \ {v} : diff'[w] = diff[w] /\ wakes'[w] = wakes[w]
                                   /\ revision'[w] = revision[w]
        /\ \A g \in Fields, y \in Var \ {x} : diff'[v][<<g, y>>] = diff[v][<<g, y>>]
        /\ wakes'[v] = wakes[v] \cup {x} /\ revision'[v] = revision[v] + 1
        /\ revision[v] \in Nat
    BY DEF Write, MarkSemanticChange, Inv, TypeOK, Entries
  <1>2. \A w \in live : Visible(w)' = Visible(w)
    BY <1>1 DEF Visible, tree
  <1>3. EntriesVisible'
    <2> SUFFICES ASSUME NEW w \in live, NEW g \in Fields, NEW y \in Var, diff'[w][<<g, y>>] # None
                 PROVE  y \in Visible(w)
      BY <1>1, <1>2 DEF EntriesVisible, tree
    <2>1. CASE w = v /\ y = x
      BY <1>1, <2>1
    <2>2. CASE ~ (w = v /\ y = x)
      <3>1. diff[w][<<g, y>>] # None
        BY <1>1, <2>2 DEF Inv, TypeOK
      <3> QED BY <3>1 DEF EntriesVisible, Inv
    <2> QED BY <2>1, <2>2
  <1>4. ASSUME v # Root PROVE TracksChanges(v)'
    <2>1. PICK q \in live : q = parent[v] /\ q = parent'[v] /\ q # v /\ q \in Version
      BY <1>1, <1>4 DEF Inv, TypeOK, TreeShape, Version, tree
    <2>2. TracksChanges(v) /\ revision[q] \in Nat /\ revision'[q] = revision[q]
      BY <1>1, <1>4, <2>1 DEF Inv, TypeOK
    <2>3. revision[q] <= revision[v]
      BY <2>1, <2>2 DEF TracksChanges
    <2>4. revision'[parent'[v]] <= revision'[v] /\ revision'[v] # revision'[parent'[v]]
      BY <1>1, <2>1, <2>2, <2>3
    <2>5. ASSUME NEW g \in Fields, NEW y \in Var, diff'[v][<<g, y>>] # None, y \in Visible(q)'
          PROVE  y \in wakes'[v]
      <3>1. CASE y = x
        BY <1>1, <3>1
      <3>2. CASE y # x
        <4>1. diff[v][<<g, y>>] # None /\ y \in Visible(q)
          BY <1>1, <1>2, <2>1, <2>5, <3>2
        <4>2. y \in wakes[v]
          BY <4>1, <2>1, <2>2 DEF TracksChanges
        <4> QED BY <1>1, <4>2
      <3> QED BY <3>1, <3>2
    <2>6. \A y : y \in Visible(parent[v])' => y \in Visible(q)'
      BY <2>1 DEF Visible
    <2> QED BY <2>4, <2>5, <2>6 DEF TracksChanges
  <1>5. revision'[v] \in Nat /\ revision[v] <= revision'[v]
    BY <1>1
  <1> QED BY <1>1, <1>2, <1>3, <1>4, <1>5, LeafKeepsTrack DEF tree

LEMMA CollapseInv ==
  ASSUME Inv, NEW c \in Version, NEW p \in Version, CollapseInto(c, p)
  PROVE  EntriesVisible' /\ \A d \in live' \ {Root} : TracksChanges(d)'
  <1>1. /\ c \in live \ {Root} /\ p \in live /\ parent[c] = p /\ IsLeaf(c) /\ Children(p) = {c}
        /\ live' = live \ {c} /\ p # c /\ UNCHANGED <<len, parent, path, variables>>
        /\ path[c] = path[p] \cup {c} /\ p \in path[p]
    BY DEF CollapseInto, Inv, TreeShape, TypeOK, Version
  <1>2. /\ diff'[p] = Overlay(diff[c], diff[p]) /\ wakes'[p] = wakes[p] \cup wakes[c]
        /\ revision'[p] = revision[c]
        /\ \A w \in Version \ {c, p} : diff'[w] = diff[w] /\ wakes'[w] = wakes[w]
                                      /\ revision'[w] = revision[w]
        /\ \A x \in Var : owner'[x] = IF x < variables /\ owner[x] = c THEN p ELSE owner[x]
    BY <1>1 DEF CollapseInto, InheritWakes, ReownVariables, Inv, TypeOK
  <1>3. \A w \in live \ {c} : c \notin path[w]
    BY <1>1, LeafOnNoOtherPath DEF Inv
  <1>4. \A w \in live \ {c, p} : p \notin path[w]
    <2> SUFFICES ASSUME NEW w \in live \ {c, p}, p \in path[w] PROVE FALSE
      OBVIOUS
    <2>1. PICK d \in path[w] : d # Root /\ parent[d] = p
      BY DEF Inv, TreeShape
    <2>2. d \in Children(p)
      BY <2>1 DEF Children, Inv, TreeShape
    <2> QED BY <1>1, <1>3, <2>2
  <1>5. ASSUME NEW w \in live', NEW x \in Var
        PROVE  x \in Visible(w)' <=>
                 (x \in Visible(w) \/ (w = p /\ x \in 0 .. variables - 1 /\ owner[x] = c))
    <2>1. w \in live \ {c}
      BY <1>1
    <2>2. x \in Visible(w)' <=>
            (x \in 0 .. variables - 1 /\ owner'[x] \in live \ {c} /\ owner'[x] \in path[w])
      BY <1>1 DEF Visible
    <2>3. x \in 0 .. variables - 1 => x < variables
      BY DEF Inv, TypeOK
    <2>4. CASE x \in 0 .. variables - 1 /\ owner[x] = c
      <3>1. owner'[x] = p
        BY <1>2, <2>3, <2>4
      <3> QED BY <1>1, <1>3, <1>4, <2>1, <2>2, <2>4, <3>1 DEF Visible
    <2>5. CASE ~ (x \in 0 .. variables - 1 /\ owner[x] = c)
      <3>1. x \in 0 .. variables - 1 => owner'[x] = owner[x] /\ owner[x] # c
        BY <1>2, <2>3, <2>5
      <3> QED BY <2>2, <2>5, <3>1 DEF Visible
    <2> QED BY <2>4, <2>5
  <1>6. ASSUME NEW x \in Var, x \in Visible(c) PROVE x \in Visible(p)'
    BY <1>1, <1>5, <1>6 DEF Visible
  <1>7. \A f \in Fields, x \in Var :
          diff'[p][<<f, x>>] # None => diff[c][<<f, x>>] # None \/ diff[p][<<f, x>>] # None
    BY <1>2 DEF Overlay, Entries
  <1>8. EntriesVisible'
    <2> SUFFICES ASSUME NEW w \in live', NEW f \in Fields, NEW x \in Var, diff'[w][<<f, x>>] # None
                 PROVE  x \in Visible(w)'
      BY DEF EntriesVisible
    <2>1. CASE w = p
      <3>1. x \in Visible(c) \/ x \in Visible(p)
        BY <1>1, <1>7, <2>1 DEF Inv, EntriesVisible
      <3> QED BY <1>5, <1>6, <2>1, <3>1
    <2>2. CASE w # p
      <3>1. diff[w][<<f, x>>] # None /\ w \in live
        BY <1>1, <1>2, <2>2 DEF Inv, TypeOK
      <3> QED BY <3>1, <1>5 DEF EntriesVisible, Inv
    <2> QED BY <2>1, <2>2
  <1>9. ASSUME NEW d \in live' \ {Root} PROVE TracksChanges(d)'
    <2>1. PICK q \in live : /\ q = parent[d] /\ q = parent'[d] /\ q # d /\ q # c /\ q \in Version
                            /\ path[q] \subseteq path[d]
      <3>1. d \in live \ {Root} /\ d \in Version
        BY <1>1 DEF Inv, TypeOK
      <3>2. parent[d] \in live /\ parent[d] < d /\ path[d] = path[parent[d]] \cup {d}
        BY <3>1 DEF Inv, TreeShape
      <3>3. parent[d] # c
        BY <1>1, <3>1 DEF IsLeaf, Children
      <3>4. parent[d] \in Version /\ d \in Nat /\ parent[d] \in Nat
        BY <3>1, <3>2 DEF Inv, TypeOK, Version
      <3> QED BY <1>1, <3>2, <3>3, <3>4
    <2>2. d \in live /\ d # c /\ d \in Version /\ TracksChanges(d) /\ q \in live'
      BY <1>1, <2>1 DEF Inv, TypeOK
    <2>3. q # p
      BY <1>1, <2>1, <2>2 DEF Children
    <2>4. \A x \in Var : x \in Visible(q)' <=> x \in Visible(q)
      BY <1>5, <2>2, <2>3
    <2>5. Visible(parent[d])' = Visible(q)'
      BY <2>1 DEF Visible
    <2>6. CASE d # p
      BY <1>1, <1>2, <2>1, <2>2, <2>3, <2>4, <2>5, <2>6, KeepsTrack
    <2>7. CASE d = p
      <3>1. TracksChanges(c) /\ revision[q] <= revision[p] /\ revision[p] <= revision[c]
            /\ revision'[q] = revision[q]
        BY <1>1, <1>2, <2>1, <2>2, <2>3, <2>7 DEF Inv, TracksChanges
      <3>2. revision[q] \in Nat /\ revision[p] \in Nat /\ revision[c] \in Nat
        BY <1>1, <2>1 DEF Inv, TypeOK
      <3>3. revision'[q] <= revision'[p]
        BY <1>2, <3>1, <3>2
      <3>4. ASSUME NEW f \in Fields, NEW x \in Var, diff'[p][<<f, x>>] # None, x \in Visible(q)
            PROVE  revision'[p] # revision'[q] /\ x \in wakes'[p]
        <4>1. CASE diff[c][<<f, x>>] # None
          <5>1. x \in Visible(p)
            BY <2>1, <2>7, <3>4 DEF Visible
          <5>2. revision[c] # revision[p] /\ x \in wakes[c]
            BY <1>1, <3>1, <4>1, <5>1 DEF TracksChanges
          <5> QED BY <1>2, <3>1, <3>2, <5>2
        <4>2. CASE diff[p][<<f, x>>] # None
          <5>1. revision[p] # revision[q] /\ x \in wakes[p]
            BY <2>1, <2>2, <2>7, <3>4, <4>2 DEF TracksChanges
          <5> QED BY <1>2, <3>1, <3>2, <5>1
        <4> QED BY <1>7, <3>4, <4>1, <4>2
      <3> QED BY <2>1, <2>4, <2>5, <2>7, <3>3, <3>4 DEF TracksChanges
    <2> QED BY <2>6, <2>7
  <1> QED BY <1>8, <1>9

LEMMA DiscardInv ==
  ASSUME Inv, NEW v \in Version, Discard(v)
  PROVE  EntriesVisible' /\ \A c \in live' \ {Root} : TracksChanges(c)'
  <1>1. /\ live' = live \ Subtree(v) /\ UNCHANGED <<len, parent, path, variables, owner>>
        /\ \A w \in live' : /\ w \in live /\ w \in Version /\ diff'[w] = diff[w]
                            /\ wakes'[w] = wakes[w] /\ revision'[w] = revision[w]
    BY DEF Discard, Inv, TypeOK
  <1>2. \A w \in live' : path[w] \subseteq live'
    BY <1>1 DEF Subtree, Inv, TreeShape
  <1>3. \A w \in live' : Visible(w)' = Visible(w)
    BY <1>1, <1>2 DEF Visible
  <1>4. EntriesVisible'
    BY <1>1, <1>3 DEF EntriesVisible, Inv
  <1>5. ASSUME NEW c \in live' \ {Root} PROVE TracksChanges(c)'
    <2>1. PICK q \in live' : q = parent[c] /\ q = parent'[c]
      BY <1>1, <1>2 DEF Inv, TreeShape
    <2>2. Visible(parent[c])' = Visible(parent[c])
      BY <1>3, <2>1 DEF Visible
    <2>3. TracksChanges(c)
      BY <1>1 DEF Inv
    <2> QED BY <1>1, <2>1, <2>2, <2>3, KeepsTrack
  <1> QED BY <1>4, <1>5

LEMMA InvStep == Inv /\ [Next]_vars => Inv'
  <1> SUFFICES ASSUME Inv, [Next]_vars PROVE Inv'
    OBVIOUS
  <1>1. TypeOK'
    <2>1. UNCHANGED vars => TypeOK'
      BY DEF Inv, TypeOK, vars, tree
    <2> QED
      BY <2>1, BranchType, AllocType, WriteType, CollapseType, DiscardType, NextCases DEF Inv
  <1>2. TreeShape'
    BY ShapeStep DEF Inv
  <1> DEFINE Rest == EntriesVisible /\ \A c \in live \ {Root} : TracksChanges(c)
  <1>3. UNCHANGED vars => Rest'
    BY DEF Inv, EntriesVisible, TracksChanges, Visible, vars, tree
  <1>4. Rest'
    BY <1>3, BranchInv, AllocInv, WriteInv, CollapseInv, DiscardInv, NextCases
  <1> QED BY <1>1, <1>2, <1>4 DEF Inv

LEMMA InvHolds == Spec => []Inv
<1> QED BY InvInit, InvStep, PTL DEF Spec

-----------------------------------------------------------------------------
(* What is read about a variable comes from a version that can see it, and *)
(* nothing discarded is read (discard, reown_variables).                   *)
THEOREM NothingDangles == Spec => []NoDanglingEntry
<1>1. Inv => NoDanglingEntry
  <2> SUFFICES ASSUME Inv, NEW v \in live, NEW f \in Fields, NEW x \in Var,
                      Read(v, <<f, x>>) # None
               PROVE  x \in Visible(v)
    BY DEF NoDanglingEntry
  <2>1. PICK w \in path[v] : diff[w][<<f, x>>] # None
    BY DEF Read, Holders
  <2>2. w \in live /\ path[w] \subseteq path[v]
    BY DEF Inv, TreeShape
  <2>3. x \in Visible(w)
    BY <2>1, <2>2 DEF Inv, EntriesVisible
  <2> QED BY <2>2, <2>3 DEF Visible
<1> QED BY <1>1, InvHolds, PTL

(* A version whose revision is its parent's answers as the parent does:    *)
(* semantic_revision detects every change, at any depth of the tree.       *)
THEOREM EqualRevisionsAgree == Spec => []EqualRevisionEqualView
<1>1. Inv => EqualRevisionEqualView
  <2> SUFFICES ASSUME Inv, NEW c \in live \ {Root}, revision[c] = revision[parent[c]],
                      NEW f \in Fields, NEW x \in Visible(parent[c])
               PROVE  Read(c, <<f, x>>) = Read(parent[c], <<f, x>>)
    BY DEF EqualRevisionEqualView
  <2>1. x \in Var
    BY BoundsAssumption DEF Visible, Var, Inv, TypeOK
  <2>2. diff[c][<<f, x>>] = None /\ <<f, x>> \in Entries
    BY <2>1 DEF Inv, TracksChanges, Entries
  <2> QED BY <2>2, ReadInherited DEF Inv
<1> QED BY <1>1, InvHolds, PTL

(* A frozen version changes only by a commit, and the effects of the       *)
(* commit wake every variable of it that reads differently (collapse_into).*)
THEOREM CommitWakes == Spec => CommitWakesCoverChanges
<1> DEFINE Covered(p) ==
      {x \in Visible(p) : \E f \in Fields : Read(p, <<f, x>>)' # Read(p, <<f, x>>)}
        \subseteq effects'.wakes
<1>1. ASSUME Inv, [Next]_vars, NEW p \in live \cap live', ~ IsLeaf(p) PROVE Covered(p)
  <2>1. TypeOK /\ TreeShape /\ p \in Version
    BY <1>1 DEF Inv, TypeOK
  <2>2. \A x \in Visible(p), f \in Fields : x \in Var /\ <<f, x>> \in Entries
    BY <2>1, BoundsAssumption DEF Visible, Var, Entries, TypeOK
  <2>3. ASSUME View(p)' = View(p) PROVE Covered(p)
    <3>1. \A e \in Entries : Read(p, e)' = Read(p, e)
      BY <2>3 DEF View
    <3> QED BY <2>2, <3>1
  <2>4. FullCopies[p] = View(p) /\ FullCopies'[p] = View(p)'
    BY <1>1, <2>1 DEF FullCopies
  <2>5. DOMAIN FullCopies = Version
    BY DEF FullCopies
  <2>6. ASSUME NEW q \in Version, BranchFrom(q) PROVE Covered(p)
    <3>1. FullCopies' = [FullCopies EXCEPT ![len] = FullCopies[q]]
      BY <2>1, <2>6, RefinesBegin DEF Copies!Begin
    <3>2. p # len
      BY <1>1, <2>1 DEF TreeShape, TypeOK
    <3>3. FullCopies'[p] = FullCopies[p]
      BY <2>1, <2>5, <3>1, <3>2
    <3> QED BY <2>3, <2>4, <3>3
  <2>7. ASSUME NEW v \in Version, NEW u \in Values, AllocVar(v, u) PROVE Covered(p)
    <3>1. UNCHANGED path /\ v \in live /\ IsLeaf(v) /\ \A w \in Version \ {v} : diff'[w] = diff[w]
      BY <2>1, <2>7 DEF AllocVar, tree, TypeOK
    <3> QED BY <1>1, <2>1, <2>3, <3>1, OthersReadUnchanged
  <2>8. ASSUME NEW v \in Version, NEW f \in Fields, NEW x \in Var, NEW val \in Values,
               Write(v, f, x, val)
        PROVE  Covered(p)
    <3>1. UNCHANGED path /\ v \in live /\ IsLeaf(v) /\ \A w \in Version \ {v} : diff'[w] = diff[w]
      BY <2>1, <2>8 DEF Write, tree, TypeOK
    <3> QED BY <1>1, <2>1, <2>3, <3>1, OthersReadUnchanged
  <2>9. ASSUME NEW c \in Version, NEW q \in Version, CollapseInto(c, q) PROVE Covered(p)
    <3>1. /\ c \in live \ {Root} /\ parent[c] = q /\ live' = live \ {c}
          /\ effects'.wakes = wakes[c]
      BY <2>9 DEF CollapseInto
    <3>2. FullCopies' = [FullCopies EXCEPT ![q] = FullCopies[c], ![c] = NoEntries]
      BY <2>1, <2>9, <3>1, RefinesCommit, SameNames DEF Copies!Commit
    <3>3. CASE p # q
      <4>1. FullCopies'[p] = FullCopies[p]
        BY <1>1, <2>1, <2>5, <3>1, <3>2, <3>3
      <4> QED BY <2>3, <2>4, <4>1
    <3>4. CASE p = q
      <4>1. View(p)' = View(c)
        BY <1>1, <2>1, <2>4, <2>9, <3>1, <3>2, <3>4 DEF FullCopies
      <4>2. \A e \in Entries : Read(p, e)' = Read(c, e)
        BY <4>1 DEF View
      <4>3. ASSUME NEW x \in Visible(p), NEW f \in Fields, Read(p, <<f, x>>)' # Read(p, <<f, x>>)
            PROVE  x \in wakes[c]
        <5>1. x \in Var /\ <<f, x>> \in Entries
          BY <2>2
        <5>2. diff[c][<<f, x>>] # None
          BY <2>1, <3>1, <3>4, <4>2, <4>3, <5>1, ReadInherited
        <5> QED BY <1>1, <3>1, <3>4, <5>1, <5>2 DEF Inv, TracksChanges
      <4> QED BY <3>1, <4>3
    <3> QED BY <3>3, <3>4
  <2>10. ASSUME NEW v \in Version, Discard(v) PROVE Covered(p)
    <3>1. FullCopies' = [w \in Version |-> IF w \in Subtree(v) THEN NoEntries ELSE FullCopies[w]]
      BY <2>1, <2>10, RefinesAbort, SameNames DEF Copies!Abort
    <3>2. p \notin Subtree(v)
      BY <1>1, <2>10 DEF Discard
    <3> QED BY <2>1, <2>3, <2>4, <3>1, <3>2
  <2>11. CASE UNCHANGED vars
    <3>1. View(p)' = View(p)
      BY <2>11 DEF View, Read, Holders, vars, tree
    <3> QED BY <2>3, <3>1
  <2> QED BY <1>1, <2>6, <2>7, <2>8, <2>9, <2>10, <2>11 DEF Next
<1>2. Inv /\ [Next]_vars => [\A p \in live \cap live' : ~ IsLeaf(p) => Covered(p)]_vars
  BY <1>1
<1> QED BY <1>2, InvHolds, PTL DEF Spec, CommitWakesCoverChanges

=============================================================================
