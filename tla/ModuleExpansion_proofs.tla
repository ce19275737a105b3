----------------------- MODULE ModuleExpansion_proofs -----------------------
(***************************************************************************)
(* A build of a crate ends with one fixed point, for every crate: each     *)
(* list is the expansion of its module against all the others as they are. *)
(*                                                                         *)
(* The argument.  Call a memo current if its query does not run and it     *)
(* belongs to the iteration that runs.  A query completes inside a cycle   *)
(* with heads that are current or run, and when the outermost query of a   *)
(* cycle ends a turn, the memos it drops or makes final are exactly the    *)
(* heads it collected: no other current memo, and no frame below, has one  *)
(* of them among its heads.  So what a frame has read stays as it was read,*)
(* and when a cycle is made final each member was computed from the values *)
(* its members have now.                                                   *)
(***************************************************************************)
EXTENDS ModuleExpansion, FiniteSetTheorems, SequenceTheorems, WellFoundedInduction, TLAPS

-----------------------------------------------------------------------------
(* Numbers and sequences. *)

LEMMA GreatestNumber ==
  ASSUME NEW n \in Nat, NEW S \in SUBSET (0 .. n), S # {}
  PROVE  Max(S) \in S /\ \A k \in S : k <= Max(S)
  <1> DEFINE D == {n - k : k \in S}
  <1>1. IsWellFoundedOn(OpToRel(<, Nat), Nat)
    BY NatLessThanWellFounded
  <1>2. D \in SUBSET Nat /\ D # {}
    <2>1. \A k \in S : k \in Nat /\ n - k \in Nat
      OBVIOUS
    <2> QED BY <2>1
  <1>3. PICK d \in D : \A k \in D : ~ (<<k, d>> \in OpToRel(<, Nat))
    BY <1>1, <1>2, WFMin
  <1>4. OpToRel(<, Nat) = {p \in Nat \X Nat : p[1] < p[2]}
    BY DEF OpToRel
  <1>5. ASSUME NEW k \in D PROVE d <= k
    <2>1. <<k, d>> \in Nat \X Nat /\ <<k, d>>[1] = k /\ <<k, d>>[2] = d
      BY <1>2
    <2>2. ~ (k < d)
      BY <1>3, <1>4, <2>1
    <2> QED BY <1>2, <2>2
  <1>6. PICK m \in S : d = n - m
    OBVIOUS
  <1>7. ASSUME NEW k \in S PROVE k <= m
    <2>1. n - k \in D
      OBVIOUS
    <2>2. n - m <= n - k
      BY <1>5, <1>6, <2>1
    <2>3. n \in Nat /\ m \in Nat /\ k \in Nat
      OBVIOUS
    <2> QED BY <2>2, <2>3
  <1> QED BY <1>7 DEF Max

LEMMA Positions ==
  ASSUME NEW n \in Nat
  PROVE  /\ \A i \in 1 .. n - 1 : i \in 1 .. n /\ i # n /\ 1 .. i \subseteq 1 .. n - 1
         /\ \A i \in 1 .. n : i \in Nat /\ 1 .. i \subseteq 1 .. n
         /\ 1 <= n => 1 .. n = (1 .. n - 1) \cup {n}
         /\ 1 .. n + 1 = (1 .. n) \cup {n + 1}
  OBVIOUS

LEMMA Between ==
  ASSUME NEW n \in Nat, NEW j \in 1 .. n, NEW i \in j .. n, i # n
  PROVE  i \in j .. n - 1 /\ i \in 1 .. n - 1 /\ (i < n - 1 \/ (i = n - 1 /\ n > 1))
  OBVIOUS

LEMMA LastOrNot ==
  ASSUME NEW n \in Nat, NEW i \in 1 .. n - 1
  PROVE  i \in 1 .. n /\ i # n /\ (i < n - 1 \/ i = n - 1)
  OBVIOUS

LEMMA SeqOfToSet ==
  ASSUME NEW T, NEW s \in Seq(T)
  PROVE  s \in Seq(ToSet(s)) /\ DOMAIN s = 1 .. Len(s) /\ Len(s) \in Nat
  <1>1. s \in [1 .. Len(s) -> T] /\ Len(s) \in Nat
    BY LenProperties
  <1>2. s \in [1 .. Len(s) -> ToSet(s)]
    BY <1>1 DEF ToSet
  <1> QED BY <1>1, <1>2, SeqDef

LEMMA Pushed ==
  ASSUME NEW s, s \in Seq(ToSet(s)), NEW e
  PROVE  LET r == Append(s, e)
         IN  /\ r \in Seq(ToSet(r)) /\ Len(r) = Len(s) + 1 /\ Len(s) \in Nat
             /\ DOMAIN r = 1 .. Len(s) + 1 /\ DOMAIN s = 1 .. Len(s)
             /\ r[Len(s) + 1] = e /\ \A i \in 1 .. Len(s) : r[i] = s[i]
  <1> DEFINE T == ToSet(s) \cup {e}
             r == Append(s, e)
  <1>1. s \in Seq(T) /\ e \in T
    <2>1. ToSet(s) \subseteq T
      OBVIOUS
    <2> QED BY <2>1, SeqMonotonic
  <1>2. r \in Seq(T) /\ Len(r) = Len(s) + 1 /\ r[Len(s) + 1] = e
        /\ \A i \in 1 .. Len(s) : r[i] = s[i]
    BY <1>1, AppendProperties
  <1>3. r \in Seq(ToSet(r)) /\ DOMAIN r = 1 .. Len(r)
    BY <1>2, SeqOfToSet
  <1> QED BY <1>1, <1>2, <1>3

LEMMA Replaced ==
  ASSUME NEW s, s \in Seq(ToSet(s)), s # <<>>, NEW e
  PROVE  LET r == [s EXCEPT ![Len(s)] = e]
         IN  /\ r \in Seq(ToSet(r)) /\ Len(r) = Len(s) /\ Len(s) \in Nat /\ 1 <= Len(s)
             /\ DOMAIN r = 1 .. Len(s) /\ DOMAIN s = 1 .. Len(s)
             /\ r[Len(s)] = e /\ \A i \in 1 .. Len(s) - 1 : r[i] = s[i]
  <1> DEFINE r == [s EXCEPT ![Len(s)] = e]
             T == ToSet(s) \cup {e}
  <1>1. s \in [1 .. Len(s) -> T] /\ Len(s) \in Nat /\ 1 <= Len(s) /\ DOMAIN s = 1 .. Len(s)
    <2>1. s \in [1 .. Len(s) -> ToSet(s)] /\ Len(s) \in Nat
      BY LenProperties
    <2>2. Len(s) # 0
      BY EmptySeq
    <2> QED BY <2>1, <2>2
  <1>2. r \in [1 .. Len(s) -> T] /\ r[Len(s)] = e /\ \A i \in 1 .. Len(s) - 1 : r[i] = s[i]
    BY <1>1
  <1>3. r \in Seq(T) /\ Len(r) = Len(s)
    BY <1>1, <1>2, IsASeq
  <1> QED BY <1>1, <1>2, <1>3, SeqOfToSet

LEMMA Popped ==
  ASSUME NEW s, s \in Seq(ToSet(s)), s # <<>>
  PROVE  /\ Len(s) \in Nat /\ 1 <= Len(s) /\ DOMAIN s = 1 .. Len(s)
         /\ Len(s) = 1 \/ Front(s) # <<>>
         /\ Front(s) \in Seq(ToSet(Front(s))) /\ Len(Front(s)) = Len(s) - 1
         /\ DOMAIN Front(s) = 1 .. Len(s) - 1 /\ \A i \in 1 .. Len(s) - 1 : Front(s)[i] = s[i]
  <1>1. s \in [1 .. Len(s) -> ToSet(s)] /\ Len(s) \in Nat /\ 1 <= Len(s)
    <2>1. s \in [1 .. Len(s) -> ToSet(s)] /\ Len(s) \in Nat
      BY LenProperties
    <2>2. Len(s) # 0
      BY EmptySeq
    <2> QED BY <2>1, <2>2
  <1>2. /\ Front(s) \in Seq(ToSet(s)) /\ Len(Front(s)) = Len(s) - 1
        /\ \A i \in 1 .. Len(s) - 1 : Front(s)[i] = s[i]
    <2>1. 1 \in 1 .. Len(s) + 1 /\ Len(s) - 1 \in 0 .. Len(s)
      BY <1>1
    <2>2. Front(s) = SubSeq(s, 1, Len(s) - 1)
      BY DEF Front
    <2> QED BY <1>1, <2>1, <2>2, SubSeqProperties
  <1>3. Front(s) \in Seq(ToSet(Front(s))) /\ DOMAIN Front(s) = 1 .. Len(s) - 1
    BY <1>2, SeqOfToSet
  <1>4. Len(s) = 1 \/ Front(s) # <<>>
    BY <1>1, <1>2, EmptySeq
  <1> QED BY <1>1, <1>2, <1>3, <1>4

-----------------------------------------------------------------------------
(* Closures, and what an expansion depends on. *)

LEMMA ClosureIsClosed ==
  ASSUME NEW nodes, NEW base, NEW next
  PROVE  /\ Closure(nodes, base, next) \subseteq nodes
         /\ base \subseteq nodes => base \subseteq Closure(nodes, base, next)
         /\ \A y \in Closure(nodes, base, next) :
              next[y] \cap nodes \subseteq Closure(nodes, base, next)
  <1>1. ASSUME NEW y \in Closure(nodes, base, next), NEW z \in next[y] \cap nodes
        PROVE  z \in Closure(nodes, base, next)
    <2>1. SUFFICES ASSUME NEW S \in SUBSET nodes, base \subseteq S,
                          \A x \in S : next[x] \cap nodes \subseteq S
                   PROVE  z \in S
      BY DEF Closure
    <2>2. y \in S
      BY <2>1 DEF Closure
    <2> QED BY <2>1, <2>2
  <1> QED BY <1>1 DEF Closure

LEMMA ClosureIsLeast ==
  ASSUME NEW nodes, NEW base, NEW next, NEW S, base \subseteq S \cap nodes,
         \A y \in S : next[y] \cap nodes \subseteq S
  PROVE  Closure(nodes, base, next) \subseteq S
  <1>1. S \cap nodes \in SUBSET nodes /\ base \subseteq S \cap nodes
    OBVIOUS
  <1>2. \A y \in S \cap nodes : next[y] \cap nodes \subseteq S \cap nodes
    OBVIOUS
  <1> QED BY <1>1, <1>2 DEF Closure

LEMMA ScopeIsLocal ==
  ASSUME NEW crate, NEW m \in ModulesOf(crate), NEW K, NEW L,
         Scope(crate, K, m) \subseteq DOMAIN K \cap DOMAIN L,
         \A x \in Scope(crate, K, m) : K[x] = L[x]
  PROVE  /\ Scope(crate, L, m) = Scope(crate, K, m)
         /\ ExpandedItems(crate, L, m) = ExpandedItems(crate, K, m)
  <1> DEFINE next(lists) == [x \in ModulesOf(crate) |-> IF x \in DOMAIN lists THEN GlobsOf(lists[x]) ELSE {}]
             KK == Reach(crate, K, m)
             LL == Reach(crate, L, m)
  <1>1. CASE ~ Calls(crate, m)
    <2>1. Scope(crate, L, m) = {} /\ Scope(crate, K, m) = {}
      BY <1>1 DEF Scope
    <2> QED BY <2>1 DEF ExpandedItems, Visible
  <1>2. CASE Calls(crate, m)
    <2>1. Scope(crate, K, m) = KK /\ Scope(crate, L, m) = LL
      BY <1>2 DEF Scope
    <2>2. KK = Closure(ModulesOf(crate), {m}, next(K)) /\ LL = Closure(ModulesOf(crate), {m}, next(L))
      BY DEF Reach
    <2>3. \A x \in KK : next(K)[x] = next(L)[x]
      <3>1. KK \subseteq ModulesOf(crate)
        BY <2>2, ClosureIsClosed
      <3> QED BY <2>1, <3>1
    <2> HIDE DEF next, KK, LL
    <2>4. LL \subseteq KK
      <3>1. {m} \subseteq KK \cap ModulesOf(crate) /\ \A y \in KK : next(L)[y] \cap ModulesOf(crate) \subseteq KK
        BY <2>2, <2>3, ClosureIsClosed
      <3>2. Closure(ModulesOf(crate), {m}, next(L)) \subseteq KK
        BY ONLY <3>1, ClosureIsLeast
      <3> QED BY <2>2, <3>2
    <2>5. KK \subseteq LL
      <3>1. {m} \subseteq LL \cap ModulesOf(crate) /\ \A y \in LL : next(K)[y] \cap ModulesOf(crate) \subseteq LL
        BY <2>2, <2>3, <2>4, ClosureIsClosed
      <3>2. Closure(ModulesOf(crate), {m}, next(K)) \subseteq LL
        BY ONLY <3>1, ClosureIsLeast
      <3> QED BY <2>2, <3>2
    <2>6. Scope(crate, L, m) = Scope(crate, K, m)
      BY <2>1, <2>4, <2>5
    <2>7. Visible(crate, L, m) = Visible(crate, K, m)
      BY <2>6 DEF Visible
    <2> QED BY <2>6, <2>7 DEF ExpandedItems
  <1> QED BY <1>1, <1>2

-----------------------------------------------------------------------------
(* The inductive invariant. *)

(* The memos of the iteration that runs, of queries that do not.           *)
Current ==
  {x \in Module \ Running : memo[x].stored /\ ~ memo[x].final /\ AtCounts(x)}
Below(i) == {stack[j].module : j \in 1 .. i}

(* A memo that is not final has its own query among its heads: a query     *)
(* with calls reads itself first.                                          *)
MemoOK(m) ==
  /\ memo[m].final => memo[m].stored
  /\ memo[m].stored /\ ~ memo[m].final => m \in memo[m].heads
  /\ \A h \in memo[m].heads : memo[m].at[h] <= iter[h]

(* A query has read nothing yet, or itself; and what it has read is as it  *)
(* was read, and final, or current, or of a query below it.                *)
Fresh(i) == i = Len(stack) /\ DOMAIN stack[i].known = {} /\ stack[i].heads = {}
ReadItself(i) ==
  LET m == stack[i].module
  IN  /\ m \in DOMAIN stack[i].known /\ m \in stack[i].heads /\ Calls(program, m)
      /\ memo[m].stored /\ memo[m].heads = {m} /\ AtCounts(m)
FrameOK(i) ==
  /\ ~ memo[stack[i].module].final
  /\ Fresh(i) \/ ReadItself(i)
  /\ \A x \in DOMAIN stack[i].known :
       /\ stack[i].known[x] = memo[x].value
       /\ memo[x].final \/ (x \in stack[i].heads /\ x \in Current \cup Below(i))

(* The heads of a frame lead to queries below it only, through current     *)
(* memos.                                                                  *)
Leads(S, T) == \A y \in S : memo[y].heads \subseteq S \cup T
Grounded(i) ==
  \E S \in SUBSET Current : Leads(S, Below(i)) /\ stack[i].heads \subseteq S \cup Below(i)

(* Current memos lead to running queries, and none of them can do without. *)
LeadsToRunning == Leads(Current, Running)
NotAlone == \A S \in SUBSET Current : Leads(S, {}) => S = {}
(* A frame has the heads of every current memo that leads to its query, or *)
(* a frame above has.                                                      *)
HeadsAreKept ==
  \A x \in Current : \A j \in DOMAIN stack :
    stack[j].module \in memo[x].heads =>
      \E i \in j .. Len(stack) : memo[x].heads \subseteq stack[i].heads
Comparable ==
  \A x, y \in Current : y \in memo[x].heads =>
    memo[x].heads \subseteq memo[y].heads \/ memo[y].heads \subseteq memo[x].heads

Structure ==
  /\ \A m \in Module : MemoOK(m)
  /\ \A i \in DOMAIN stack : FrameOK(i) /\ Grounded(i)
  /\ LeadsToRunning /\ NotAlone /\ HeadsAreKept /\ Comparable

(* What a current memo was computed from: final lists, and lists of its    *)
(* heads, which have changed since only if the query says so.              *)
Agrees(x, y, value) ==
  \/ memo[y].final /\ value = memo[y].value
  \/ /\ y \in memo[x].heads
     /\ y \in Running \/ memo[y].converged => value = memo[y].value
ComputedFrom(x, lists) ==
  /\ DOMAIN lists \subseteq Module /\ Scope(program, lists, x) \subseteq DOMAIN lists
  /\ memo[x].value = ExpandedItems(program, lists, x)
  /\ \A y \in DOMAIN lists : Agrees(x, y, lists[y])
CurrentIsComputed == \A x \in Current : \E lists : ComputedFrom(x, lists)

(* A final list is the expansion against final lists.                      *)
FinalIsFixed ==
  \A x \in Module : memo[x].final =>
    /\ memo[x].value = ExpandedItems(program, Lists, x)
    /\ \A y \in Scope(program, Lists, x) : memo[y].final

(* A module is final, or it is the one that was asked for, or will be.     *)
AskedOrFinal ==
  \A m \in Module :
    m \in ToSet(asked) \/ memo[m].final \/ (stack # <<>> /\ stack[1].module = m)
BuiltIsIdle == outcome = "built" => stack = <<>> /\ asked = <<>>

IInv == TypeOK /\ Structure /\ CurrentIsComputed /\ FinalIsFixed /\ AskedOrFinal /\ BuiltIsIdle

-----------------------------------------------------------------------------
(* What the invariant says of a state. *)

LEMMA Stacked ==
  ASSUME TypeOK
  PROVE  /\ Len(stack) \in Nat /\ DOMAIN stack = 1 .. Len(stack) /\ Running = Below(Len(stack))
         /\ Running \subseteq Module /\ (stack # <<>> => Len(stack) \in DOMAIN stack)
         /\ stack = <<>> <=> Len(stack) = 0
         /\ Top = stack[Len(stack)]
         /\ stack # <<>> => Top.module \in Running
         /\ \A i \in DOMAIN stack : \A j \in 1 .. i : j \in DOMAIN stack
  <1>1. Len(stack) \in Nat /\ DOMAIN stack = 1 .. Len(stack)
    BY SeqOfToSet DEF TypeOK
  <1>2. stack = <<>> <=> Len(stack) = 0
    BY EmptySeq DEF TypeOK
  <1>3. Running = Below(Len(stack)) /\ Running \subseteq Module
    BY <1>1 DEF Running, Below, TypeOK
  <1>4. Top = stack[Len(stack)]
    BY DEF Top, Last
  <1>5. stack # <<>> => Len(stack) \in DOMAIN stack
    BY <1>1, <1>2
  <1>6. stack # <<>> => Top.module \in Running
    BY <1>4, <1>5, SMTT(40) DEF Running
  <1> QED BY <1>1, <1>2, <1>3, <1>4, <1>5, <1>6

LEMMA FramesBelow ==
  ASSUME TypeOK, stack # <<>>, NEW i \in 1 .. Len(stack) - 1
  PROVE  i \in DOMAIN stack /\ i # Len(stack) /\ Top.module \notin Below(i) /\ Below(i) \subseteq Running
  <1>1. /\ Len(stack) \in Nat /\ DOMAIN stack = 1 .. Len(stack) /\ Top = stack[Len(stack)]
        /\ Len(stack) \in DOMAIN stack
    BY Stacked, SMTT(40)
  <1>2. i \in 1 .. Len(stack) /\ i # Len(stack)
    BY ONLY <1>1, LastOrNot, ZenonT(40)
  <1>3. \A j \in 1 .. i : j \in 1 .. Len(stack) /\ j # Len(stack)
    <2>1. \A k \in Nat : \A l \in 1 .. k - 1 : \A j \in 1 .. l : j \in 1 .. k /\ j # k
      BY SMTT(40)
    <2> QED BY ONLY <1>1, <2>1
  <1>4. Top.module \notin Below(i)
    <2>1. SUFFICES ASSUME NEW j \in 1 .. i, stack[j].module = stack[Len(stack)].module PROVE FALSE
      BY <1>1, SMTT(40) DEF Below
    <2> QED BY <1>1, <1>3, <2>1 DEF TypeOK
  <1>5. Below(i) \subseteq Running
    BY ONLY <1>1, <1>3 DEF Below, Running
  <1> QED BY <1>1, <1>2, <1>4, <1>5, Zenon

LEMMA CurrentAreModules == Current \subseteq Module
  BY DEF Current

(* A memo of the iteration that runs is not executed again. *)
LEMMA CurrentHolds ==
  ASSUME TypeOK, Structure, NEW x \in Current
  PROVE  Holds(x) /\ ~ Settled(x) /\ x \in Module /\ x \in memo[x].heads
  <1>1. x \in Module /\ memo[x].stored /\ ~ memo[x].final /\ AtCounts(x) /\ x \in memo[x].heads
    BY DEF Current, Structure, MemoOK
  <1>2. memo[x].heads \ {x} # {}
    <2>1. SUFFICES ASSUME memo[x].heads = {x} PROVE FALSE
      BY <1>1
    <2>2. {x} \in SUBSET Current /\ Leads({x}, {})
      BY <2>1 DEF Leads
    <2> QED BY <2>2 DEF Structure, NotAlone
  <1>3. ASSUME NEW h \in memo[x].heads PROVE ~ memo[h].final
    <2>1. h \in Current \cup Running
      BY DEF Structure, LeadsToRunning, Leads
    <2>2. CASE h \in Current
      BY <2>2 DEF Current
    <2>3. CASE h \in Running
      BY <2>3, Stacked DEF Running, Structure, FrameOK
    <2> QED BY <2>1, <2>2, <2>3
  <1> QED BY <1>1, <1>2, <1>3 DEF Holds, Settled, SameIteration

LEMMA HoldsIsCurrent ==
  ASSUME TypeOK, NEW m \in Module \ Running, Holds(m)
  PROVE  memo[m].final \/ m \in Current
  BY DEF Holds, Settled, SameIteration, Current, TypeOK

(* No frame and no current memo has a query among its heads that has read  *)
(* nothing yet.                                                            *)
LEMMA FreshIsNoHead ==
  ASSUME TypeOK, Structure, stack # <<>>, Top.heads = {}, NEW x \in Current
  PROVE  Top.module \notin memo[x].heads
  <1> SUFFICES ASSUME Top.module \in memo[x].heads PROVE FALSE
    OBVIOUS
  <1>1. Len(stack) \in DOMAIN stack /\ Len(stack) \in Nat /\ Top = stack[Len(stack)]
    BY Stacked
  <1>2. \E i \in Len(stack) .. Len(stack) : memo[x].heads \subseteq stack[i].heads
    BY <1>1 DEF Structure, HeadsAreKept
  <1>3. memo[x].heads \subseteq Top.heads
    BY <1>1, <1>2
  <1> QED BY <1>3

-----------------------------------------------------------------------------
(* A query has read all it needs: the heads it collects. *)

LEMMA Collected ==
  ASSUME TypeOK, Structure, ReadAll, ~ Plain
  PROVE  /\ ReadItself(Len(stack)) /\ Scope(program, Top.known, Top.module) \subseteq DOMAIN Top.known
         /\ Top.heads \subseteq AllHeads /\ Top.module \in AllHeads
         /\ AllHeads \subseteq Current \cup Running /\ AllHeads \subseteq Module
         /\ \A x \in AllHeads \ {Top.module} : memo[x].heads \subseteq AllHeads
  <1> DEFINE next == [x \in Module |-> IF x = Top.module THEN {} ELSE memo[x].heads]
  <1>1. stack # <<>> /\ Scope(program, Top.known, Top.module) \subseteq DOMAIN Top.known
    BY DEF ReadAll, Active, Needed
  <1>2. Len(stack) \in DOMAIN stack /\ Top = stack[Len(stack)] /\ Running = Below(Len(stack))
    BY <1>1, Stacked
  <1>3. ReadItself(Len(stack))
    BY <1>2 DEF Structure, FrameOK, Fresh, Plain
  <1>4. Top.heads \subseteq Module /\ Current \cup Running \subseteq Module
    BY <1>2, Stacked DEF TypeOK, Current
  <1>5. AllHeads = Closure(Module, Top.heads, next)
    BY DEF AllHeads
  <1>6. AllHeads \subseteq Module /\ Top.heads \subseteq AllHeads /\ Top.module \in AllHeads
    BY <1>2, <1>3, <1>4, <1>5, ClosureIsClosed DEF ReadItself
  <1>7. ASSUME NEW x \in AllHeads \ {Top.module} PROVE memo[x].heads \subseteq AllHeads
    <2>1. next[x] = memo[x].heads /\ memo[x].heads \subseteq Module
      BY <1>6 DEF TypeOK
    <2> QED BY <1>5, <2>1, ClosureIsClosed
  <1>8. AllHeads \subseteq Current \cup Running
    <2>1. Top.heads \subseteq (Current \cup Running) \cap Module
      BY <1>2, <1>4 DEF Structure, Grounded
    <2>2. ASSUME NEW y \in Current \cup Running PROVE next[y] \cap Module \subseteq Current \cup Running
      <3>1. y \in Module
        BY <1>4
      <3>2. CASE y \in Current
        BY <3>1, <3>2 DEF Structure, LeadsToRunning, Leads
      <3>3. CASE y \in Running /\ y # Top.module
        <4>1. PICK i \in DOMAIN stack : y = stack[i].module
          BY <3>3 DEF Running
        <4>2. i # Len(stack)
          BY <3>3, <4>1, <1>2
        <4>3. memo[y].heads = {y}
          BY <4>1, <4>2 DEF Structure, FrameOK, Fresh, ReadItself
        <4> QED BY <3>1, <3>3, <4>3
      <3>4. CASE y = Top.module
        BY <3>1, <3>4
      <3> QED BY <3>2, <3>3, <3>4
    <2> HIDE DEF next
    <2> QED BY <1>5, <2>1, <2>2, ClosureIsLeast
  <1> QED BY <1>1, <1>3, <1>6, <1>7, <1>8

(* The outermost query of a cycle: no other query that runs is among them. *)
LEMMA CycleCloses ==
  ASSUME TypeOK, Structure, Driving
  PROVE  /\ AllHeads \cap Running = {Top.module}
         /\ AllHeads \ {Top.module} \subseteq Current
         /\ \A y \in Current \ AllHeads : memo[y].heads \cap AllHeads = {}
         /\ \A i \in 1 .. Len(stack) - 1 : \A S \in SUBSET Current :
              Leads(S, Below(i)) => S \cap AllHeads = {}
  <1> DEFINE t == Top.module
             n == Len(stack)
             A == AllHeads
  <1>1. ReadAll /\ ~ Plain /\ Outer = {} /\ stack # <<>>
    BY DEF Driving, ReadAll, Active
  <1>2. /\ t \in A /\ A \subseteq Current \cup Running /\ \A x \in A \ {t} : memo[x].heads \subseteq A
        /\ Top.heads \subseteq A
    BY <1>1, Collected
  <1>3. /\ t \in Running /\ n \in Nat /\ 1 <= n /\ DOMAIN stack = 1 .. n /\ Top = stack[n]
        /\ n \in DOMAIN stack
    BY <1>1, Stacked
  <1>4. A \cap Running = {t} /\ A \ {t} \subseteq Current
    BY <1>1, <1>2, <1>3 DEF Outer
  <1> HIDE DEF A
  <1>5. ASSUME NEW y \in Current \ A, memo[y].heads \cap A # {}
        PROVE  FALSE
    <2> DEFINE S == memo[y].heads \cap A
    <2>1. y \in memo[y].heads
      BY CurrentHolds
    <2>2. t \notin memo[y].heads
      <3> SUFFICES ASSUME t \in memo[y].heads PROVE FALSE
        OBVIOUS
      <3>1. PICK i \in n .. n : memo[y].heads \subseteq stack[i].heads
        BY <1>3 DEF Structure, HeadsAreKept
      <3>2. memo[y].heads \subseteq A
        BY <3>1, <1>2, <1>3
      <3> QED BY <2>1, <3>2
    <2>3. S \subseteq Current
      BY <2>2, <1>4
    <2>4. ASSUME NEW w \in S PROVE memo[w].heads \subseteq S
      <3>1. w \in Current /\ memo[w].heads \subseteq A
        BY <2>2, <2>3, <1>2
      <3>2. memo[y].heads \subseteq memo[w].heads \/ memo[w].heads \subseteq memo[y].heads
        BY <3>1 DEF Structure, Comparable
      <3> QED BY <3>1, <3>2, <2>1
    <2>5. S \in SUBSET Current /\ Leads(S, {})
      BY <2>3, <2>4 DEF Leads
    <2> QED BY <2>5, <1>5 DEF Structure, NotAlone
  <1>6. ASSUME NEW i \in 1 .. n - 1, NEW S \in SUBSET Current, Leads(S, Below(i))
        PROVE  S \cap A = {}
    <2> DEFINE R == S \cap A
    <2>1. Below(i) \cap A = {}
      <3>1. SUFFICES ASSUME NEW j \in 1 .. i, stack[j].module \in A PROVE FALSE
        BY SMTT(40) DEF Below
      <3>2. j \in DOMAIN stack /\ j # n
        <4>1. i \in Nat /\ j \in Nat /\ 1 <= j /\ j <= i /\ i <= n - 1 /\ n \in Nat
          BY <1>3
        <4>2. 1 <= j /\ j <= n /\ j # n
          BY <4>1
        <4>3. j \in 1 .. n
          BY <4>1, <4>2
        <4> QED BY ONLY <1>3, <4>2, <4>3, Zenon
      <3>3. stack[j].module \in Running
        BY <3>2 DEF Running
      <3>4. stack[j].module = stack[n].module
        BY <3>1, <3>3, <1>3, <1>4
      <3> QED BY <3>2, <3>4, <1>3 DEF TypeOK
    <2>2. t \notin S
      BY <1>3 DEF Current
    <2>3. \A w \in R : memo[w].heads \subseteq R
      BY <2>1, <2>2, <1>2, <1>6 DEF Leads
    <2>4. R \in SUBSET Current /\ Leads(R, {})
      BY <2>3, SMTT(40) DEF Leads
    <2> QED BY <2>4, SMTT(40) DEF Structure, NotAlone
  <1> QED BY <1>4, <1>5, <1>6 DEF A

-----------------------------------------------------------------------------
(* The steps of the stack. *)

StackOK ==
  /\ stack \in Seq(ToSet(stack))
  /\ \A i \in DOMAIN stack :
       /\ DOMAIN stack[i] = {"module", "known", "heads"} /\ stack[i].module \in Module
       /\ DOMAIN stack[i].known \cup stack[i].heads \subseteq Module
       /\ \A j \in DOMAIN stack : stack[i].module = stack[j].module => i = j
SameModules(i) == stack'[i].module = stack[i].module /\ Below(i)' = Below(i)
HasRead(i, m, value, heads) ==
  /\ stack'[i].module = stack[i].module /\ stack'[i].heads = stack[i].heads \cup heads
  /\ DOMAIN stack'[i].known = DOMAIN stack[i].known \cup {m} /\ stack'[i].known[m] = value
  /\ \A x \in DOMAIN stack[i].known \ {m} : stack'[i].known[x] = stack[i].known[x]

LEMMA ReadOnTop ==
  ASSUME TypeOK, UNCHANGED program, stack # <<>>, NEW m \in Module, NEW value,
         NEW heads \in SUBSET Module,
         stack' = [stack EXCEPT ![Len(stack)] = Read(Top, m, value, heads)]
  PROVE  /\ StackOK' /\ Len(stack') = Len(stack) /\ DOMAIN stack' = DOMAIN stack
         /\ \A i \in 1 .. Len(stack) - 1 : stack'[i] = stack[i]
         /\ HasRead(Len(stack), m, value, heads)
         /\ Running' = Running /\ \A i \in DOMAIN stack : SameModules(i)
  <1> DEFINE n == Len(stack)
             frame == Read(Top, m, value, heads)
  <1>1. /\ stack' \in Seq(ToSet(stack')) /\ Len(stack') = n /\ n \in Nat /\ 1 <= n /\ stack'[n] = frame
        /\ DOMAIN stack' = 1 .. n /\ DOMAIN stack = 1 .. n /\ \A i \in 1 .. n - 1 : stack'[i] = stack[i]
    <2>1. stack \in Seq(ToSet(stack))
      BY DEF TypeOK
    <2>2. LET r == [stack EXCEPT ![Len(stack)] = frame]
          IN  /\ r \in Seq(ToSet(r)) /\ Len(r) = Len(stack) /\ Len(stack) \in Nat /\ 1 <= Len(stack)
              /\ DOMAIN r = 1 .. Len(stack) /\ DOMAIN stack = 1 .. Len(stack)
              /\ r[Len(stack)] = frame /\ \A i \in 1 .. Len(stack) - 1 : r[i] = stack[i]
      <3> HIDE DEF frame
      <3> QED BY <2>1, Replaced, ZenonT(40)
    <2> QED BY <2>2
  <1>2. Top = stack[n] /\ n \in DOMAIN stack /\ DOMAIN Top = {"module", "known", "heads"}
    BY <1>1, SMTT(40) DEF Top, Last, TypeOK
  <1>3. /\ DOMAIN frame = {"module", "known", "heads"} /\ frame.module = Top.module
        /\ frame.heads = Top.heads \cup heads /\ DOMAIN frame.known = DOMAIN Top.known \cup {m}
        /\ frame.known[m] = value /\ \A x \in DOMAIN Top.known \ {m} : frame.known[x] = Top.known[x]
    BY <1>2, SMTT(40) DEF Read
  <1> HIDE DEF frame
  <1>4. HasRead(n, m, value, heads)
    BY <1>1, <1>2, <1>3, ZenonT(40) DEF HasRead
  <1>5. \A i \in DOMAIN stack : stack'[i].module = stack[i].module
    BY <1>1, <1>2, <1>3
  <1>6. Running' = Running /\ \A i \in DOMAIN stack : Below(i)' = Below(i)
    <2>1. n \in Nat
      BY ONLY <1>1
    <2>2. \A i \in 1 .. n : 1 .. i \subseteq 1 .. n
      BY ONLY <2>1
    <2> QED BY ONLY <1>1, <1>5, <2>2, SMTT(40) DEF Running, Below
  <1>7. StackOK'
    <2>1. Module' = Module
      BY DEF Module
    <2>2. ASSUME NEW i \in DOMAIN stack
          PROVE  /\ DOMAIN stack'[i] = {"module", "known", "heads"} /\ stack'[i].module \in Module
                 /\ DOMAIN stack'[i].known \cup stack'[i].heads \subseteq Module
      BY <1>1, <1>2, <1>3, ZenonT(40) DEF TypeOK
    <2>3. \A i, j \in DOMAIN stack : stack'[i].module = stack'[j].module => i = j
      BY <1>5 DEF TypeOK
    <2> QED BY <1>1, <2>1, <2>2, <2>3, ZenonT(40) DEF StackOK
  <1> QED BY <1>1, <1>4, <1>5, <1>6, <1>7, ZenonT(40) DEF SameModules

LEMMA PushOnTop ==
  ASSUME TypeOK, UNCHANGED program, NEW m \in Module \ Running, stack' = Append(stack, Frame(m))
  PROVE  /\ StackOK' /\ Len(stack') = Len(stack) + 1 /\ DOMAIN stack' = 1 .. Len(stack) + 1
         /\ stack'[Len(stack) + 1] = Frame(m) /\ Running' = Running \cup {m}
         /\ \A i \in DOMAIN stack : stack'[i] = stack[i] /\ SameModules(i)
  <1> DEFINE n == Len(stack)
  <1>1. /\ stack' \in Seq(ToSet(stack')) /\ Len(stack') = n + 1 /\ n \in Nat /\ stack'[n + 1] = Frame(m)
        /\ DOMAIN stack' = 1 .. n + 1 /\ DOMAIN stack = 1 .. n /\ \A i \in 1 .. n : stack'[i] = stack[i]
    BY Pushed DEF TypeOK
  <1>2. /\ DOMAIN Frame(m) = {"module", "known", "heads"} /\ Frame(m).module = m
        /\ DOMAIN Frame(m).known = {} /\ Frame(m).heads = {}
    BY DEF Frame
  <1>3. 1 .. n + 1 = (1 .. n) \cup {n + 1}
    BY <1>1
  <1>4. Running' = Running \cup {m}
    BY <1>1, <1>2, <1>3 DEF Running
  <1>5. \A i \in DOMAIN stack : Below(i)' = Below(i)
    <2>1. \A i \in 1 .. n : 1 .. i \subseteq 1 .. n
      BY <1>1
    <2> QED BY <1>1, <2>1 DEF Below
  <1>6. StackOK'
    <2>1. Module' = Module
      BY DEF Module
    <2>2. ASSUME NEW i \in DOMAIN stack'
          PROVE  /\ DOMAIN stack'[i] = {"module", "known", "heads"} /\ stack'[i].module \in Module
                 /\ DOMAIN stack'[i].known \cup stack'[i].heads \subseteq Module
      BY <1>1, <1>2, <1>3 DEF TypeOK
    <2>3. ASSUME NEW i \in DOMAIN stack', NEW j \in DOMAIN stack', stack'[i].module = stack'[j].module
          PROVE  i = j
      <3>1. \A k \in 1 .. n : stack'[k].module = stack[k].module /\ stack[k].module # m
        BY <1>1 DEF Running
      <3> QED BY <1>1, <1>2, <1>3, <2>3, <3>1 DEF TypeOK
    <2> QED BY <1>1, <2>1, <2>2, <2>3 DEF StackOK
  <1> QED BY <1>1, <1>4, <1>5, <1>6 DEF SameModules

LEMMA StartAgain ==
  ASSUME TypeOK, UNCHANGED program, stack # <<>>,
         stack' = [stack EXCEPT ![Len(stack)] = Frame(Top.module)]
  PROVE  /\ StackOK' /\ Len(stack') = Len(stack) /\ DOMAIN stack' = DOMAIN stack
         /\ \A i \in 1 .. Len(stack) - 1 : stack'[i] = stack[i]
         /\ DOMAIN stack'[Len(stack)].known = {} /\ stack'[Len(stack)].heads = {}
         /\ Running' = Running /\ \A i \in DOMAIN stack : SameModules(i)
  <1> DEFINE n == Len(stack)
             frame == Frame(Top.module)
  <1>1. /\ stack' \in Seq(ToSet(stack')) /\ Len(stack') = n /\ n \in Nat /\ 1 <= n /\ stack'[n] = frame
        /\ DOMAIN stack' = 1 .. n /\ DOMAIN stack = 1 .. n /\ \A i \in 1 .. n - 1 : stack'[i] = stack[i]
    <2>1. stack \in Seq(ToSet(stack))
      BY DEF TypeOK
    <2>2. LET r == [stack EXCEPT ![Len(stack)] = frame]
          IN  /\ r \in Seq(ToSet(r)) /\ Len(r) = Len(stack) /\ Len(stack) \in Nat /\ 1 <= Len(stack)
              /\ DOMAIN r = 1 .. Len(stack) /\ DOMAIN stack = 1 .. Len(stack)
              /\ r[Len(stack)] = frame /\ \A i \in 1 .. Len(stack) - 1 : r[i] = stack[i]
      <3> HIDE DEF frame
      <3> QED BY <2>1, Replaced, ZenonT(40)
    <2> QED BY <2>2
  <1>2. Top = stack[n] /\ n \in DOMAIN stack
    BY ONLY <1>1 DEF Top, Last
  <1>3. /\ DOMAIN frame = {"module", "known", "heads"} /\ frame.module = Top.module
        /\ frame.heads = {} /\ DOMAIN frame.known = {}
    BY DEF Frame
  <1> HIDE DEF frame
  <1>5. \A i \in DOMAIN stack : stack'[i].module = stack[i].module
    BY <1>1, <1>2, <1>3
  <1>6. Running' = Running /\ \A i \in DOMAIN stack : Below(i)' = Below(i)
    <2>1. n \in Nat
      BY ONLY <1>1
    <2>2. \A i \in 1 .. n : 1 .. i \subseteq 1 .. n
      BY ONLY <2>1
    <2> QED BY ONLY <1>1, <1>5, <2>2, SMTT(40) DEF Running, Below
  <1>7. StackOK'
    <2>1. Module' = Module
      BY DEF Module
    <2>2. ASSUME NEW i \in DOMAIN stack
          PROVE  /\ DOMAIN stack'[i] = {"module", "known", "heads"} /\ stack'[i].module \in Module
                 /\ DOMAIN stack'[i].known \cup stack'[i].heads \subseteq Module
      BY <1>1, <1>2, <1>3 DEF TypeOK
    <2>3. \A i, j \in DOMAIN stack : stack'[i].module = stack'[j].module => i = j
      BY <1>5 DEF TypeOK
    <2> QED BY <1>1, <2>1, <2>2, <2>3, ZenonT(40) DEF StackOK
  <1> QED BY <1>1, <1>3, <1>5, <1>6, <1>7, ZenonT(40) DEF SameModules

LEMMA ReturnBelow ==
  ASSUME TypeOK, UNCHANGED program, stack # <<>>, NEW value, NEW heads \in SUBSET Module,
         Return(value, heads)
  PROVE  /\ StackOK' /\ Len(stack') = Len(stack) - 1 /\ DOMAIN stack' = 1 .. Len(stack) - 1
         /\ \A i \in 1 .. Len(stack) - 1 : i < Len(stack) - 1 => stack'[i] = stack[i]
         /\ Len(stack) > 1 => HasRead(Len(stack) - 1, Top.module, value, heads)
         /\ Running' = Running \ {Top.module} /\ \A i \in 1 .. Len(stack) - 1 : SameModules(i)
  <1> DEFINE n == Len(stack)
             t == Top.module
             front == Front(stack)
             frame == Read(front[n - 1], t, value, heads)
  <1>1. n \in Nat /\ 1 <= n /\ DOMAIN stack = 1 .. n /\ n \in DOMAIN stack /\ Top = stack[n]
        /\ Running = Below(n) /\ stack \in Seq(ToSet(stack)) /\ Module' = Module
    <2>1. Len(stack) # 0
      BY Stacked, SMTT(40)
    <2> QED BY <2>1, Stacked DEF TypeOK, Module
  <1>2. /\ (n = 1 \/ front # <<>>) /\ front \in Seq(ToSet(front)) /\ Len(front) = n - 1
        /\ DOMAIN front = 1 .. n - 1 /\ \A i \in 1 .. n - 1 : front[i] = stack[i]
    BY <1>1, Popped, Zenon
  <1>3. n = 1 => stack' = <<>>
    BY DEF Return
  <1>4. n > 1 => stack' = [front EXCEPT ![n - 1] = frame]
    <2>1. n > 1 => n # 1
      BY <1>1, SMTT(40)
    <2> QED BY <2>1 DEF Return
  <1>5. t \in Module /\ \A i \in 1 .. n - 1 : stack[i].module # t
    <2>1. \A i \in 1 .. n - 1 : i \in 1 .. n /\ i # n
      <3>1. n \in Nat
        BY <1>1
      <3> QED BY ONLY <3>1, Positions
    <2> QED BY <1>1, <2>1 DEF TypeOK
  <1> HIDE DEF front
  <1>6. CASE n = 1
    <2>1. stack' = <<>> /\ Len(stack') = 0 /\ DOMAIN stack' = {} /\ 1 .. n - 1 = {}
      BY <1>3, <1>6
    <2>2. Running = {t} /\ Running' = {}
      BY <2>1, <1>1, <1>6 DEF Running
    <2>3. StackOK'
      <3>1. stack' \in Seq(ToSet(stack'))
        BY <2>1, EmptySeq
      <3> QED BY <2>1, <3>1 DEF StackOK
    <2> QED BY <1>6, <2>1, <2>2, <2>3
  <1>7. CASE n > 1
    <2> DEFINE k == n - 1
    <2>1. /\ front \in Seq(ToSet(front)) /\ Len(front) = k /\ front # <<>>
          /\ DOMAIN front = 1 .. k /\ k \in DOMAIN front /\ k \in Nat /\ k \in DOMAIN stack
          /\ \A i \in 1 .. k : front[i] = stack[i] /\ i \in DOMAIN stack
      BY <1>1, <1>2, <1>7
    <2>2. DOMAIN front[k] = {"module", "known", "heads"}
      BY <2>1 DEF TypeOK
    <2>3. /\ DOMAIN frame = {"module", "known", "heads"} /\ frame.module = front[k].module
          /\ frame.heads = front[k].heads \cup heads /\ DOMAIN frame.known = DOMAIN front[k].known \cup {t}
          /\ frame.known[t] = value
          /\ \A x \in DOMAIN front[k].known \ {t} : frame.known[x] = front[k].known[x]
      BY <2>2 DEF Read
    <2> HIDE DEF frame
    <2>4. /\ stack' \in Seq(ToSet(stack')) /\ Len(stack') = k /\ stack'[k] = frame
          /\ DOMAIN stack' = 1 .. k /\ \A i \in 1 .. k - 1 : stack'[i] = front[i]
      <3>1. LET r == [front EXCEPT ![Len(front)] = frame]
            IN  /\ r \in Seq(ToSet(r)) /\ Len(r) = Len(front) /\ DOMAIN r = 1 .. Len(front)
                /\ r[Len(front)] = frame /\ \A i \in 1 .. Len(front) - 1 : r[i] = front[i]
        BY ONLY <2>1, Replaced, ZenonT(40)
      <3>2. Len(front) = k /\ stack' = [front EXCEPT ![k] = frame]
        BY ONLY <2>1, <1>4, <1>7
      <3> QED BY ONLY <3>1, <3>2
    <2>5. \A i \in 1 .. k : stack'[i].module = stack[i].module /\ (i < k => stack'[i] = stack[i])
      BY ONLY <2>1, <2>3, <2>4, SMTT(40)
    <2>6. HasRead(k, t, value, heads)
      BY ONLY <2>1, <2>3, <2>4 DEF HasRead
    <2>7. \A i \in 1 .. k : 1 .. i \subseteq 1 .. k
      BY ONLY <2>1
    <2>8. \A i \in 1 .. k : SameModules(i)
      BY ONLY <2>5, <2>7 DEF SameModules, Below
    <2>9. Running' = Running \ {t}
      <3>1. Running' = Below(k)
        BY ONLY <2>4, <2>5, <2>1, ZenonT(40) DEF Running, Below
      <3>2. 1 .. n = (1 .. k) \cup {n}
        BY ONLY <1>1
      <3>3. Running = Below(k) \cup {t}
        BY ONLY <1>1, <3>2 DEF Below
      <3>4. t \notin Below(k)
        BY ONLY <1>5 DEF Below
      <3> QED BY ONLY <3>1, <3>3, <3>4
    <2>10. StackOK'
      <3>1. ASSUME NEW i \in 1 .. k
            PROVE  /\ DOMAIN stack'[i] = {"module", "known", "heads"} /\ stack'[i].module \in Module
                   /\ DOMAIN stack'[i].known \cup stack'[i].heads \subseteq Module
        <4>1. /\ DOMAIN stack[i] = {"module", "known", "heads"} /\ stack[i].module \in Module
              /\ DOMAIN stack[i].known \cup stack[i].heads \subseteq Module
          BY <2>1 DEF TypeOK
        <4>2. CASE i < k
          BY ONLY <4>1, <4>2, <2>5
        <4>3. CASE i = k
          <5>1. heads \subseteq Module
            OBVIOUS
          <5> QED BY ONLY <4>1, <4>3, <5>1, <2>1, <2>3, <2>4, <1>5, ZenonT(40)
        <4>4. i < k \/ i = k
          BY <2>1
        <4> QED BY <4>2, <4>3, <4>4
      <3>2. \A i, j \in 1 .. k : stack[i].module = stack[j].module => i = j
        BY <2>1 DEF TypeOK
      <3> QED BY ONLY <1>1, <2>4, <2>5, <3>1, <3>2 DEF StackOK
    <2> QED BY ONLY <1>1, <1>7, <2>4, <2>5, <2>6, <2>8, <2>9, <2>10
  <1>8. n = 1 \/ n > 1
    BY <1>1
  <1> QED BY <1>6, <1>7, <1>8

-----------------------------------------------------------------------------
(* What a step keeps. *)

(* Lists that are final stay what they are. *)
LEMMA FinalStays ==
  ASSUME TypeOK, FinalIsFixed, UNCHANGED program, DOMAIN memo' = Module,
         \A y \in Module : memo[y].final => memo'[y].final /\ memo'[y].value = memo[y].value,
         NEW x \in Module, memo[x].final
  PROVE  /\ memo'[x].value = ExpandedItems(program', Lists', x)
         /\ \A y \in Scope(program', Lists', x) : memo'[y].final
  <1>1. Module' = Module
    BY DEF Module
  <1>2. DOMAIN Lists = Module /\ DOMAIN Lists' = Module
    BY <1>1 DEF Lists
  <1>3. \A y \in Module : Lists[y] = memo[y].value /\ Lists'[y] = memo'[y].value
    BY <1>1 DEF Lists
  <1>4. Scope(program, Lists, x) \subseteq Module
    <2>1. Reach(program, Lists, x) \subseteq Module
      BY ClosureIsClosed DEF Reach, Module
    <2> QED BY <2>1 DEF Scope
  <1>5. \A y \in Scope(program, Lists, x) : memo[y].final
    BY DEF FinalIsFixed
  <1>6. \A y \in Scope(program, Lists, x) : Lists[y] = Lists'[y]
    BY <1>3, <1>4, <1>5
  <1>7. /\ Scope(program, Lists', x) = Scope(program, Lists, x)
        /\ ExpandedItems(program, Lists', x) = ExpandedItems(program, Lists, x)
    <2>1. x \in ModulesOf(program)
      BY DEF Module
    <2>2. Scope(program, Lists, x) \subseteq DOMAIN Lists \cap DOMAIN Lists'
      BY <1>2, <1>4
    <2> QED BY <1>6, <2>1, <2>2, ScopeIsLocal
  <1> QED BY <1>4, <1>5, <1>7 DEF FinalIsFixed

LEMMA FewerCurrent ==
  ASSUME Structure, Current' \subseteq Current,
         \A x \in Current' : memo'[x].heads = memo[x].heads
  PROVE  NotAlone' /\ Comparable'
  <1>1. ASSUME NEW S \in SUBSET Current', Leads(S, {})' PROVE S = {}
    <2>1. S \in SUBSET Current /\ Leads(S, {})
      BY <1>1 DEF Leads
    <2> QED BY <2>1 DEF Structure, NotAlone
  <1>2. NotAlone'
    BY <1>1 DEF NotAlone
  <1>3. Comparable'
    BY DEF Structure, Comparable
  <1> QED BY <1>2, <1>3

LEMMA StillComputed ==
  ASSUME CurrentIsComputed, UNCHANGED program, Current' \subseteq Current, DOMAIN memo = Module,
         \A y \in Module : memo[y].final => memo'[y].final /\ memo'[y].value = memo[y].value,
         \A x \in Current' :
           /\ memo'[x].heads = memo[x].heads /\ memo'[x].value = memo[x].value
           /\ \A y \in memo[x].heads :
                /\ memo'[y].value = memo[y].value
                /\ y \in Running' \/ memo'[y].converged => y \in Running \/ memo[y].converged
  PROVE  CurrentIsComputed'
  <1> SUFFICES ASSUME NEW x \in Current' PROVE \E lists : ComputedFrom(x, lists)'
    BY DEF CurrentIsComputed
  <1>1. PICK lists : ComputedFrom(x, lists)
    BY DEF CurrentIsComputed
  <1>2. Module' = Module
    BY DEF Module
  <1>3. ASSUME NEW y \in DOMAIN lists PROVE Agrees(x, y, lists[y])'
    <2>1. Agrees(x, y, lists[y]) /\ y \in Module
      BY <1>1 DEF ComputedFrom
    <2> QED BY <2>1 DEF Agrees
  <1>4. ComputedFrom(x, lists)'
    BY <1>1, <1>2, <1>3 DEF ComputedFrom
  <1> QED BY <1>4

-----------------------------------------------------------------------------
(* Reading. *)

LEMMA FirstReadsItself ==
  ASSUME NEW crate, NEW m \in ModulesOf(crate), NEW K, DOMAIN K = {}
  PROVE  Scope(crate, K, m) \subseteq {m}
  <1> DEFINE next == [x \in ModulesOf(crate) |-> IF x \in DOMAIN K THEN GlobsOf(K[x]) ELSE {}]
  <1>1. next[m] = {}
    OBVIOUS
  <1>2. Reach(crate, K, m) = Closure(ModulesOf(crate), {m}, next)
    BY DEF Reach
  <1> HIDE DEF next
  <1>3. PICK S : S = {m}
    OBVIOUS
  <1>4. {m} \subseteq S \cap ModulesOf(crate) /\ \A y \in S : next[y] \cap ModulesOf(crate) \subseteq S
    BY <1>1, <1>3
  <1>5. Closure(ModulesOf(crate), {m}, next) \subseteq S
    BY ONLY <1>4, ClosureIsLeast
  <1> QED BY <1>2, <1>3, <1>5 DEF Scope

LEMMA ReadsFrom ==
  ASSUME TypeOK, Structure, NEW m \in Needed
  PROVE  /\ outcome = "running" /\ stack # <<>> /\ m \in Module /\ Calls(program, Top.module)
         /\ m \in Scope(program, Top.known, Top.module) \ DOMAIN Top.known
         /\ Fresh(Len(stack)) => m = Top.module
         /\ m \notin Running => ReadItself(Len(stack))
  <1>1. Active /\ m \in Scope(program, Top.known, Top.module) \ DOMAIN Top.known
    BY DEF Needed
  <1>2. outcome = "running" /\ stack # <<>>
    BY <1>1 DEF Active
  <1>3. Len(stack) \in DOMAIN stack /\ Top = stack[Len(stack)] /\ Top.module \in Running
    BY <1>2, Stacked
  <1>4. Calls(program, Top.module) /\ m \in Module
    <2>1. Reach(program, Top.known, Top.module) \subseteq Module
      BY ClosureIsClosed DEF Reach, Module
    <2> QED BY <1>1, <2>1 DEF Scope
  <1>5. Fresh(Len(stack)) => m = Top.module
    <2>1. Top.module \in ModulesOf(program)
      BY <1>3 DEF TypeOK, Module
    <2> QED BY <1>1, <1>3, <2>1, FirstReadsItself DEF Fresh
  <1> QED BY <1>1, <1>2, <1>3, <1>4, <1>5 DEF Structure, FrameOK

LEMMA ReadCycleStep ==
  ASSUME IInv, ReadCycle
  PROVE  IInv'
  <1>0. PICK n, t : n = Len(stack) /\ t = Top.module
    OBVIOUS
  <1>1. PICK m \in Needed \cap Running :
          LET provisional == IF m \in memo[m].heads THEN memo[m].value ELSE <<>>
          IN  /\ stack' = [stack EXCEPT ![Len(stack)] = Read(Top, m, provisional, {m})]
              /\ memo' = [memo EXCEPT ![m] = Memo(provisional, {m}, @.converged, FALSE, iter)]
    BY DEF ReadCycle
  <1> DEFINE provisional == IF m \in memo[m].heads THEN memo[m].value ELSE <<>>
  <1>2. UNCHANGED <<program, iter, asked, earlier, outcome>> /\ Module' = Module
    BY DEF ReadCycle, Module
  <1>3. /\ TypeOK /\ Structure /\ CurrentIsComputed /\ FinalIsFixed /\ AskedOrFinal /\ BuiltIsIdle
        /\ LeadsToRunning
    BY DEF IInv, Structure
  <1>4. /\ outcome = "running" /\ stack # <<>> /\ m \in Module /\ Calls(program, t)
        /\ m \notin DOMAIN Top.known /\ (Fresh(n) => m = t) /\ m \in Running
    BY <1>0, <1>1, <1>3, ReadsFrom
  <1>5. /\ n \in Nat /\ DOMAIN stack = 1 .. n /\ Running = Below(n) /\ n \in DOMAIN stack
        /\ Top = stack[n] /\ t \in Running /\ Running \subseteq Module
        /\ n = Len(stack) /\ t = Top.module /\ t = stack[n].module
        /\ \A i \in DOMAIN stack : \A j \in 1 .. i : j \in DOMAIN stack
    BY <1>0, <1>3, <1>4, Stacked
  <1>6. /\ StackOK' /\ Len(stack') = n /\ DOMAIN stack' = DOMAIN stack
        /\ \A i \in 1 .. n - 1 : stack'[i] = stack[i]
        /\ HasRead(n, m, provisional, {m})
        /\ Running' = Running /\ \A i \in DOMAIN stack : SameModules(i)
    <2>1. {m} \in SUBSET Module
      BY <1>4
    <2>2. stack' = [stack EXCEPT ![Len(stack)] = Read(Top, m, provisional, {m})]
      BY <1>1
    <2>3. UNCHANGED program /\ stack # <<>> /\ TypeOK /\ m \in Module
      BY <1>2, <1>3, <1>4
    <2> HIDE DEF provisional
    <2> QED BY ONLY <1>0, <2>1, <2>2, <2>3, ReadOnTop
  <1>7. /\ DOMAIN memo' = Module /\ \A x \in Module \ {m} : memo'[x] = memo[x]
        /\ memo'[m].value = provisional /\ memo'[m].stored /\ memo'[m].heads = {m}
        /\ memo'[m].at = [h \in {m} |-> iter[h]] /\ memo'[m].converged = memo[m].converged
        /\ ~ memo'[m].final /\ DOMAIN memo'[m] = DOMAIN NoMemo
        /\ memo'[m].stored \in BOOLEAN /\ memo'[m].converged \in BOOLEAN /\ memo'[m].final \in BOOLEAN
    <2>1. memo' = [memo EXCEPT ![m] = Memo(provisional, {m}, memo[m].converged, FALSE, iter)]
      BY <1>1
    <2>2. DOMAIN memo = Module /\ memo[m].converged \in BOOLEAN
      BY <1>3, <1>4 DEF TypeOK
    <2> HIDE DEF provisional
    <2> QED BY ONLY <1>4, <2>1, <2>2 DEF Memo, NoMemo
  <1> HIDE DEF provisional
  (* A memo that is read again is as it was; one read first is its own.    *)
  <1>8. m # t => /\ memo[m].stored /\ memo[m].heads = {m} /\ AtCounts(m)
                 /\ provisional = memo[m].value /\ ReadItself(n)
    <2> SUFFICES ASSUME m # t PROVE /\ memo[m].stored /\ memo[m].heads = {m} /\ AtCounts(m)
                                    /\ provisional = memo[m].value /\ ReadItself(n)
      OBVIOUS
    <2>1. PICK j \in DOMAIN stack : m = stack[j].module
      BY <1>4 DEF Running
    <2>2. j # n
      BY <1>5, <2>1
    <2>3. memo[m].stored /\ memo[m].heads = {m} /\ AtCounts(m)
      BY <1>3, <1>5, <2>1, <2>2 DEF Structure, FrameOK, Fresh, ReadItself
    <2> QED BY <1>3, <1>4, <1>5, <2>3 DEF provisional, Structure, FrameOK
  <1>9. \A x \in Module : memo'[x].final = memo[x].final /\ memo'[x].converged = memo[x].converged
    <2>1. ~ memo[m].final
      BY <1>3, <1>4 DEF Structure, FrameOK, Running
    <2>2. memo[m].final \in BOOLEAN /\ memo'[m].final \in BOOLEAN
      BY <1>3, <1>4, <1>7 DEF TypeOK
    <2> QED BY <2>1, <2>2, <1>7
  <1>10. \A x \in Module \ {m} : AtCounts(x)' = AtCounts(x)
    BY <1>2, <1>7 DEF AtCounts
  <1>11. Current' = Current /\ Current \subseteq Module \ Running
    BY <1>2, <1>4, <1>6, <1>7, <1>10 DEF Current
  <1>12. AtCounts(m)'
    BY <1>2, <1>7 DEF AtCounts
  <1>13. TypeOK'
    <2>1. \A x \in Module :
            /\ DOMAIN memo'[x] = DOMAIN NoMemo
            /\ {memo'[x].stored, memo'[x].converged, memo'[x].final} \subseteq BOOLEAN
            /\ memo'[x].heads \subseteq Module /\ memo'[x].at \in [memo'[x].heads -> Nat]
      <3>1. memo'[m].at \in [memo'[m].heads -> Nat]
        <4>1. iter[m] \in Nat
          BY <1>3, <1>4 DEF TypeOK
        <4> QED BY <1>7, <4>1
      <3>2. memo'[m].heads \subseteq Module
        BY <1>4, <1>7
      <3>3. \A x \in Module \ {m} :
              /\ DOMAIN memo'[x] = DOMAIN NoMemo
              /\ {memo'[x].stored, memo'[x].converged, memo'[x].final} \subseteq BOOLEAN
              /\ memo'[x].heads \subseteq Module /\ memo'[x].at \in [memo'[x].heads -> Nat]
        BY <1>3, <1>7 DEF TypeOK
      <3> QED BY <1>7, <3>1, <3>2, <3>3
    <2> QED BY <1>2, <1>3, <1>6, <1>7, <2>1 DEF TypeOK, StackOK
  <1>14. \A x \in Module : MemoOK(x)'
    <2>1. MemoOK(m)'
      <3>1. iter[m] \in Nat
        BY <1>3, <1>4 DEF TypeOK
      <3> QED BY <1>2, <1>7, <3>1 DEF MemoOK
    <2> QED BY <1>2, <1>3, <1>7, <2>1 DEF MemoOK, Structure
  <1>15. ASSUME NEW i \in 1 .. n - 1
         PROVE  FrameOK(i)' /\ Grounded(i)'
    <2>1. i \in DOMAIN stack /\ i # n /\ stack'[i] = stack[i] /\ SameModules(i)
      BY <1>5, <1>6, Positions
    <2>2. FrameOK(i) /\ Grounded(i) /\ ReadItself(i) /\ stack[i].module \in Module
      BY <1>3, <1>5, <2>1 DEF Structure, FrameOK, Fresh, TypeOK
    <2>3. ReadItself(i)'
      BY <1>2, <1>7, <1>10, <1>12, <2>1, <2>2 DEF ReadItself
    <2>4. ASSUME NEW x \in DOMAIN stack[i].known
          PROVE  memo'[x].value = memo[x].value /\ x \in Module
      <3>1. x \in Module
        BY <1>3, <2>1 DEF TypeOK
      <3>2. CASE x # m
        BY <1>7, <3>1, <3>2
      <3>3. CASE x = m /\ m # t
        BY <1>7, <1>8, <3>1, <3>3
      <3>4. CASE x = t
        <4>1. t \notin Below(i)
          <5>1. \A j \in 1 .. i : j \in DOMAIN stack /\ j # n
            BY <1>5, <2>1, Positions
          <5> QED BY <1>3, <1>5, <5>1, ZenonT(40) DEF Below, TypeOK
        <4>2. ~ memo[t].final /\ t \notin Current
          BY <1>3, <1>5, <1>11 DEF Structure, FrameOK
        <4> QED BY <2>2, <3>4, <4>1, <4>2, SMTT(40) DEF FrameOK
      <3> QED BY <3>1, <3>2, <3>3, <3>4
    <2>5. FrameOK(i)'
      BY <1>9, <1>11, <2>1, <2>2, <2>3, <2>4 DEF FrameOK, SameModules
    <2>6. Grounded(i)'
      BY <1>7, <1>4, <1>11, <2>1, <2>2, ZenonT(40) DEF Grounded, Leads, SameModules
    <2> QED BY <2>5, <2>6, SMTT(40)
  <1>16. FrameOK(n)'
    <2>1. SameModules(n) /\ HasRead(n, m, provisional, {m}) /\ FrameOK(n) /\ t = stack[n].module /\ t \in Module
      BY <1>3, <1>5, <1>6 DEF Structure
    <2>2. ReadItself(n)'
      <3>1. CASE m = t
        BY <1>2, <1>4, <1>7, <1>5, <1>12, <2>1, <3>1 DEF ReadItself, HasRead, AtCounts
      <3>2. CASE m # t
        BY <1>2, <1>4, <1>7, <1>5, <1>8, <1>10, <2>1, <3>2 DEF ReadItself, HasRead, AtCounts
      <3> QED BY <3>1, <3>2
    <2>3. ASSUME NEW x \in DOMAIN stack'[n].known
          PROVE  /\ stack'[n].known[x] = memo'[x].value
                 /\ memo'[x].final \/ (x \in stack'[n].heads /\ x \in Current' \cup Below(n)')
      <3>1. CASE x = m
        BY <1>4, <1>5, <1>7, <2>1, <3>1 DEF HasRead, SameModules
      <3>2. CASE x # m
        <4>1. x \in DOMAIN stack[n].known /\ x \in Module
          BY <1>3, <1>5, <2>1, <3>2 DEF HasRead, TypeOK
        <4> QED BY <1>7, <1>11, <2>1, <3>2, <4>1 DEF HasRead, FrameOK, SameModules
      <3> QED BY <3>1, <3>2
    <2>4. ~ memo'[stack'[n].module].final
      BY <1>9, <2>1 DEF FrameOK, SameModules
    <2> QED BY <2>2, <2>3, <2>4 DEF FrameOK
  <1>17. Grounded(n)'
    <2>1. SameModules(n) /\ HasRead(n, m, provisional, {m}) /\ Grounded(n)
      BY <1>3, <1>5, <1>6 DEF Structure
    <2>2. PICK S \in SUBSET Current : Leads(S, Below(n)) /\ stack[n].heads \subseteq S \cup Below(n)
      BY <2>1 DEF Grounded
    <2>3. Leads(S, Below(n))'
      BY <1>4, <1>7, <1>11, <2>1, <2>2 DEF Leads, SameModules
    <2>4. stack'[n].heads \subseteq S \cup Below(n)'
      BY <1>4, <1>5, <2>1, <2>2 DEF HasRead, SameModules
    <2> QED BY <1>11, <2>3, <2>4 DEF Grounded
  <1>18. \A x \in Current : memo'[x] = memo[x]
    BY <1>4, <1>7, <1>11
  <1>19. LeadsToRunning'
    BY <1>3, <1>6, <1>11, <1>18 DEF LeadsToRunning, Leads
  <1>20. HeadsAreKept'
    <2>1. \A j \in DOMAIN stack : stack'[j].module = stack[j].module /\ stack[j].heads \subseteq stack'[j].heads
      <3>1. ASSUME NEW j \in DOMAIN stack PROVE stack[j].heads \subseteq stack'[j].heads
        <4>1. j \in 1 .. n - 1 \/ j = n
          BY <1>5, Positions
        <4> QED BY <1>6, <4>1 DEF HasRead
      <3> QED BY <1>6, <3>1 DEF SameModules
    <2> QED BY <1>3, <1>5, <1>6, <1>11, <1>18, <2>1 DEF Structure, HeadsAreKept
  <1>21. Structure'
    <2>1. ASSUME NEW i \in DOMAIN stack' PROVE FrameOK(i)' /\ Grounded(i)'
      <3>1. i \in 1 .. n - 1 \/ i = n
        BY ONLY <1>5, <1>6, <2>1
      <3> QED BY ONLY <1>15, <1>16, <1>17, <3>1
    <2>2. NotAlone' /\ Comparable'
      BY <1>3, <1>11, <1>18, FewerCurrent
    <2> QED BY <1>2, <1>14, <1>19, <1>20, <2>1, <2>2 DEF Structure
  <1>22. \A y \in Module : memo[y].final => memo'[y].final /\ memo'[y].value = memo[y].value
    <2>1. ~ memo[m].final
      BY <1>7, <1>9, <1>4
    <2> QED BY <1>7, <1>9, <2>1
  <1>23. CurrentIsComputed'
    <2>1. ASSUME NEW x \in Current', NEW y \in memo[x].heads
          PROVE  /\ memo'[y].value = memo[y].value
                 /\ y \in Running' \/ memo'[y].converged => y \in Running \/ memo[y].converged
      <3>1. y \in Module /\ x \in Current
        BY <1>3, <1>11 DEF TypeOK
      <3>2. CASE y # m \/ m # t
        BY <1>6, <1>7, <1>8, <1>9, <3>1, <3>2
      <3>3. CASE y = m /\ m = t
        <4>1. Fresh(n)
          BY <1>3, <1>4, <1>5, <3>3 DEF Structure, FrameOK, ReadItself
        <4>2. t \notin memo[x].heads
          BY <1>3, <1>4, <1>5, <3>1, <4>1, FreshIsNoHead DEF Fresh
        <4> QED BY <3>3, <4>2
      <3> QED BY <3>2, <3>3
    <2>2. DOMAIN memo = Module
      BY <1>3 DEF TypeOK
    <2> QED BY <1>2, <1>3, <1>11, <1>18, <1>22, <2>1, <2>2, StillComputed
  <1>24. FinalIsFixed'
    <2>1. ASSUME NEW x \in Module, memo'[x].final
          PROVE  /\ memo'[x].value = ExpandedItems(program', Lists', x)
                 /\ \A y \in Scope(program', Lists', x) : memo'[y].final
      <3>1. memo[x].final
        BY <1>9, <2>1
      <3> QED BY <1>2, <1>3, <1>7, <1>22, <3>1, FinalStays
    <2> QED BY <1>2, <2>1 DEF FinalIsFixed
  <1>25. AskedOrFinal'
    <2>1. stack' # <<>> /\ stack'[1].module = stack[1].module
      BY <1>4, <1>5, <1>6, <1>13, Stacked, Positions DEF SameModules
    <2> QED BY <1>2, <1>3, <1>9, <2>1 DEF AskedOrFinal
  <1>26. BuiltIsIdle'
    BY <1>2, <1>4 DEF BuiltIsIdle
  <1> QED BY <1>13, <1>21, <1>23, <1>24, <1>25, <1>26 DEF IInv

LEMMA ReadMemoStep ==
  ASSUME IInv, ReadMemo
  PROVE  IInv'
  <1>0. PICK n, t : n = Len(stack) /\ t = Top.module
    OBVIOUS
  <1>1. PICK m \in Needed \ Running :
          /\ Holds(m)
          /\ LET heads == IF Settled(m) THEN {} ELSE memo[m].heads
             IN  stack' = [stack EXCEPT ![Len(stack)] = Read(Top, m, memo[m].value, heads)]
    BY DEF ReadMemo
  <1> DEFINE heads == IF Settled(m) THEN {} ELSE memo[m].heads
  <1>2. UNCHANGED <<program, memo, iter, asked, earlier, outcome>> /\ Module' = Module
    BY DEF ReadMemo, Module
  <1>3. /\ TypeOK /\ Structure /\ CurrentIsComputed /\ FinalIsFixed /\ AskedOrFinal /\ BuiltIsIdle
        /\ LeadsToRunning
    BY DEF IInv, Structure
  <1>4. /\ outcome = "running" /\ stack # <<>> /\ m \in Module /\ Calls(program, t)
        /\ m \notin DOMAIN Top.known /\ m \notin Running /\ ReadItself(n)
    BY <1>0, <1>1, <1>3, ReadsFrom
  <1>5. /\ n \in Nat /\ DOMAIN stack = 1 .. n /\ Running = Below(n) /\ n \in DOMAIN stack
        /\ Top = stack[n] /\ t \in Running /\ Running \subseteq Module
        /\ n = Len(stack) /\ t = Top.module /\ t = stack[n].module
        /\ \A i \in DOMAIN stack : \A j \in 1 .. i : j \in DOMAIN stack
    BY <1>0, <1>3, <1>4, Stacked
  <1>6. /\ memo[m].final \/ (m \in Current /\ heads = memo[m].heads)
        /\ heads \subseteq memo[m].heads /\ heads \subseteq Module
        /\ heads \subseteq Current \cup Running /\ (memo[m].final \/ m \in heads)
    <2>1. memo[m].final \/ m \in Current
      BY <1>1, <1>3, <1>4, HoldsIsCurrent
    <2>2. CASE memo[m].final
      <3>1. Settled(m)
        BY <1>3, <1>4, <2>2 DEF Settled, Structure, MemoOK
      <3>2. heads = {}
        BY <3>1
      <3> HIDE DEF heads
      <3> QED BY <2>2, <3>2
    <2>3. CASE m \in Current
      <3>1. ~ Settled(m) /\ m \in memo[m].heads
        BY <1>3, <2>3, CurrentHolds
      <3> QED BY <1>3, <1>4, <2>3, <3>1 DEF LeadsToRunning, Leads, TypeOK
    <2> QED BY <2>1, <2>2, <2>3
  <1>7. /\ StackOK' /\ Len(stack') = n /\ DOMAIN stack' = DOMAIN stack
        /\ \A i \in 1 .. n - 1 : stack'[i] = stack[i]
        /\ HasRead(n, m, memo[m].value, heads)
        /\ Running' = Running /\ \A i \in DOMAIN stack : SameModules(i)
    <2>1. heads \in SUBSET Module
      BY <1>6
    <2>2. stack' = [stack EXCEPT ![Len(stack)] = Read(Top, m, memo[m].value, heads)]
      BY <1>1
    <2>3. UNCHANGED program /\ stack # <<>> /\ TypeOK /\ m \in Module
      BY <1>2, <1>3, <1>4
    <2> HIDE DEF heads
    <2> QED BY ONLY <1>0, <2>1, <2>2, <2>3, ReadOnTop
  <1> HIDE DEF heads
  <1>8. Current' = Current /\ Current \subseteq Module \ Running /\ \A x \in Module : AtCounts(x)' = AtCounts(x)
    BY <1>2, <1>7 DEF Current, AtCounts
  <1>9. TypeOK'
    BY <1>2, <1>3, <1>7, SMTT(40) DEF TypeOK, StackOK
  <1>10. ASSUME NEW i \in 1 .. n - 1
         PROVE  FrameOK(i)' /\ Grounded(i)'
    <2>1. i \in DOMAIN stack /\ i # n /\ stack'[i] = stack[i] /\ SameModules(i)
      BY <1>5, <1>7, Positions
    <2>2. FrameOK(i) /\ Grounded(i) /\ ReadItself(i) /\ stack[i].module \in Module
      BY <1>3, <1>5, <2>1 DEF Structure, FrameOK, Fresh, TypeOK
    <2>3. ReadItself(i)'
      BY <1>2, <1>8, <2>1, <2>2 DEF ReadItself
    <2>4. FrameOK(i)'
      BY <1>2, <1>8, <2>1, <2>2, <2>3 DEF FrameOK, SameModules
    <2>5. Grounded(i)'
      BY <1>2, <1>8, <2>1, <2>2 DEF Grounded, Leads, SameModules
    <2> QED BY <2>4, <2>5
  <1>11. FrameOK(n)'
    <2>1. /\ SameModules(n) /\ HasRead(n, m, memo[m].value, heads) /\ FrameOK(n)
          /\ t = stack[n].module /\ t \in Module
      BY <1>3, <1>5, <1>7 DEF Structure
    <2>2. ReadItself(n)'
      BY <1>2, <1>4, <1>5, <2>1 DEF ReadItself, HasRead, AtCounts
    <2>3. ASSUME NEW x \in DOMAIN stack'[n].known
          PROVE  /\ stack'[n].known[x] = memo'[x].value
                 /\ memo'[x].final \/ (x \in stack'[n].heads /\ x \in Current' \cup Below(n)')
      <3>1. CASE x = m
        BY <1>2, <1>6, <1>8, <2>1, <3>1 DEF HasRead
      <3>2. CASE x # m
        <4>1. x \in DOMAIN stack[n].known /\ x \in Module
          BY <1>3, <1>5, <2>1, <3>2 DEF HasRead, TypeOK
        <4> QED BY <1>2, <1>8, <2>1, <3>2, <4>1 DEF HasRead, FrameOK, SameModules
      <3> QED BY <3>1, <3>2
    <2>4. ~ memo'[stack'[n].module].final
      BY <1>2, <2>1 DEF FrameOK, SameModules
    <2> QED BY <2>2, <2>3, <2>4 DEF FrameOK
  <1>12. Grounded(n)'
    <2>1. SameModules(n) /\ HasRead(n, m, memo[m].value, heads) /\ Grounded(n)
      BY <1>3, <1>5, <1>7 DEF Structure
    <2>2. stack'[n].heads \subseteq Current \cup Below(n)'
      BY <1>5, <1>6, <2>1 DEF Grounded, HasRead, SameModules
    <2>3. Leads(Current, Below(n))'
      BY <1>2, <1>3, <1>5, <1>8, <2>1 DEF Leads, LeadsToRunning, SameModules
    <2> QED BY <1>8, <2>2, <2>3 DEF Grounded
  <1>13. LeadsToRunning'
    BY <1>2, <1>3, <1>7, <1>8 DEF LeadsToRunning, Leads
  <1>14. HeadsAreKept'
    <2>1. \A j \in DOMAIN stack : stack'[j].module = stack[j].module /\ stack[j].heads \subseteq stack'[j].heads
      <3>1. ASSUME NEW j \in DOMAIN stack PROVE stack[j].heads \subseteq stack'[j].heads
        <4>1. j \in 1 .. n - 1 \/ j = n
          BY <1>5, Positions
        <4> QED BY <1>7, <4>1 DEF HasRead
      <3> QED BY <1>7, <3>1 DEF SameModules
    <2> QED BY <1>2, <1>3, <1>5, <1>7, <1>8, <2>1 DEF Structure, HeadsAreKept
  <1>15. Structure'
    <2>1. ASSUME NEW i \in DOMAIN stack' PROVE FrameOK(i)' /\ Grounded(i)'
      BY <1>5, <1>7, <1>10, <1>11, <1>12, Positions
    <2>2. NotAlone' /\ Comparable'
      BY <1>2, <1>3, <1>8, FewerCurrent
    <2>3. \A x \in Module : MemoOK(x)'
      BY <1>2, <1>3 DEF Structure, MemoOK
    <2> QED BY <1>2, <1>13, <1>14, <2>1, <2>2, <2>3 DEF Structure
  <1>16. CurrentIsComputed'
    BY <1>2, <1>3, <1>7, <1>8, StillComputed DEF TypeOK
  <1>17. FinalIsFixed'
    BY <1>2, <1>3 DEF FinalIsFixed, Lists
  <1>18. AskedOrFinal'
    <2>1. stack' # <<>> /\ stack'[1].module = stack[1].module
      BY <1>4, <1>5, <1>7, <1>9, Stacked, Positions DEF SameModules
    <2> QED BY <1>2, <1>3, <2>1 DEF AskedOrFinal
  <1>19. BuiltIsIdle'
    BY <1>2, <1>4 DEF BuiltIsIdle
  <1> QED BY <1>9, <1>15, <1>16, <1>17, <1>18, <1>19 DEF IInv

-----------------------------------------------------------------------------
(* Executing a query that does not run. *)

LEMMA PushKeeps ==
  ASSUME IInv, NEW m \in Module \ Running, ~ memo[m].final, m \notin Current,
         UNCHANGED <<program, memo, iter>>, stack' = Append(stack, Frame(m)),
         stack # <<>> => ReadItself(Len(stack))
  PROVE  /\ StackOK' /\ Structure' /\ CurrentIsComputed' /\ FinalIsFixed'
         /\ stack' # <<>> /\ stack'[1].module = (IF stack = <<>> THEN m ELSE stack[1].module)
  <1>0. PICK n : n = Len(stack)
    OBVIOUS
  <1>1. UNCHANGED <<program, memo, iter>> /\ Module' = Module /\ m \in Module \ Running
        /\ ~ memo[m].final /\ m \notin Current
    BY DEF Module
  <1>2. /\ TypeOK /\ Structure /\ CurrentIsComputed /\ FinalIsFixed /\ LeadsToRunning
    BY DEF IInv, Structure
  <1>3. /\ n \in Nat /\ DOMAIN stack = 1 .. n /\ Running = Below(n) /\ n = Len(stack)
        /\ Running \subseteq Module /\ (stack = <<>> <=> n = 0)
        /\ \A i \in DOMAIN stack : \A j \in 1 .. i : j \in DOMAIN stack
    BY <1>0, <1>2, Stacked
  <1>4. /\ StackOK' /\ Len(stack') = n + 1 /\ DOMAIN stack' = 1 .. n + 1
        /\ stack'[n + 1] = Frame(m) /\ Running' = Running \cup {m}
        /\ \A i \in 1 .. n : stack'[i] = stack[i] /\ SameModules(i)
    BY <1>0, <1>1, <1>2, <1>3, PushOnTop
  <1>5. n > 0 => ReadItself(n)
    <2>1. n > 0 => stack # <<>>
      BY <1>3
    <2> QED BY <1>0, <2>1
  <1> HIDE DEF IInv
  <1>6. \A x \in Module : AtCounts(x)' = AtCounts(x)
    BY <1>1 DEF AtCounts
  <1>7. Current' = Current /\ Current \subseteq Module \ Running
    <2>1. Current \subseteq Module \ Running
      BY DEF Current
    <2>2. \A x \in Module : x \in Current' <=> x \in Current /\ x # m
      BY ONLY <1>1, <1>4, <1>6 DEF Current
    <2>3. Current' \subseteq Module
      BY ONLY <1>1 DEF Current
    <2> QED BY ONLY <1>1, <2>1, <2>2, <2>3
  <1>8. Frame(m).module = m /\ DOMAIN Frame(m).known = {} /\ Frame(m).heads = {}
    BY DEF Frame
  <1>9. ASSUME NEW i \in 1 .. n
        PROVE  FrameOK(i)' /\ Grounded(i)'
    <2>1. FrameOK(i) /\ Grounded(i) /\ ReadItself(i) /\ stack'[i] = stack[i] /\ SameModules(i)
          /\ stack[i].module \in Module
      <3>1. i \in DOMAIN stack /\ n > 0
        BY ONLY <1>3, <1>9
      <3>2. ReadItself(i)
        <4>1. CASE i = n
          BY <1>5, <3>1, <4>1, SMTT(40)
        <4>2. CASE i # n
          BY <1>2, <1>3, <3>1, <4>2, Zenon DEF Structure, FrameOK, Fresh
        <4> QED BY <4>1, <4>2
      <3> QED BY <1>2, <1>4, <3>1, <3>2 DEF Structure, TypeOK
    <2>2. ReadItself(i)'
      BY ONLY <1>1, <1>6, <2>1 DEF ReadItself
    <2>3. FrameOK(i)'
      BY ONLY <1>1, <1>7, <2>1, <2>2 DEF FrameOK, SameModules
    <2>4. Grounded(i)'
      BY ONLY <1>1, <1>7, <2>1 DEF Grounded, Leads, SameModules
    <2> QED BY <2>3, <2>4
  <1>10. FrameOK(n + 1)' /\ Grounded(n + 1)'
    <2>1. Fresh(n + 1)'
      BY ONLY <1>4, <1>8 DEF Fresh
    <2>2. FrameOK(n + 1)'
      BY ONLY <1>1, <1>4, <1>8, <2>1 DEF FrameOK
    <2>3. {} \in SUBSET Current' /\ Leads({}, Below(n + 1))' /\ stack'[n + 1].heads \subseteq Below(n + 1)'
      BY ONLY <1>4, <1>8 DEF Leads
    <2> QED BY ONLY <2>2, <2>3 DEF Grounded
  <1>11. LeadsToRunning'
    BY ONLY <1>1, <1>2, <1>4, <1>7 DEF LeadsToRunning, Leads
  <1>12. HeadsAreKept'
    <2>1. SUFFICES ASSUME NEW x \in Current', NEW j \in DOMAIN stack', stack'[j].module \in memo'[x].heads
                   PROVE  \E i \in j .. Len(stack') : memo'[x].heads \subseteq stack'[i].heads
      BY DEF HeadsAreKept
    <2>2. x \in Current /\ memo[x].heads \subseteq Current \cup Running
      BY ONLY <1>2, <1>7, <2>1 DEF LeadsToRunning, Leads
    <2>3. j \in 1 .. n
      <3>1. j # n + 1
        BY ONLY <1>1, <1>4, <1>8, <2>1, <2>2
      <3> QED BY ONLY <1>3, <1>4, <2>1, <3>1
    <2>4. PICK i \in j .. n : memo[x].heads \subseteq stack[i].heads
      BY ONLY <1>1, <1>2, <1>3, <1>4, <2>1, <2>2, <2>3 DEF Structure, HeadsAreKept, SameModules
    <2>5. i \in 1 .. n /\ i \in j .. n + 1
      BY ONLY <1>3, <2>3, <2>4
    <2> QED BY ONLY <1>1, <1>4, <2>4, <2>5
  <1>13. Structure'
    <2>1. ASSUME NEW i \in DOMAIN stack' PROVE FrameOK(i)' /\ Grounded(i)'
      <3>1. i \in 1 .. n \/ i = n + 1
        BY ONLY <1>3, <1>4, <2>1
      <3> QED BY ONLY <1>9, <1>10, <3>1
    <2>2. NotAlone' /\ Comparable'
      BY ONLY <1>1, <1>2, <1>7, FewerCurrent
    <2>3. \A x \in Module : MemoOK(x)'
      BY ONLY <1>1, <1>2 DEF Structure, MemoOK
    <2> QED BY ONLY <1>1, <1>11, <1>12, <2>1, <2>2, <2>3 DEF Structure
  <1>14. CurrentIsComputed'
    <2>1. ASSUME NEW x \in Current', NEW y \in memo[x].heads, y \in Running'
          PROVE  y \in Running
      BY ONLY <1>1, <1>2, <1>4, <1>7, <2>1 DEF LeadsToRunning, Leads
    <2>2. DOMAIN memo = Module
      BY <1>2 DEF TypeOK
    <2> QED BY ONLY <1>1, <1>2, <1>7, <2>1, <2>2, StillComputed
  <1>15. FinalIsFixed'
    BY ONLY <1>1, <1>2 DEF FinalIsFixed, Lists
  <1>16. stack' # <<>> /\ stack'[1].module = (IF stack = <<>> THEN m ELSE stack[1].module)
    <2>1. stack' # <<>>
      BY ONLY <1>3, <1>4, EmptySeq
    <2>2. CASE n = 0
      BY ONLY <1>3, <1>4, <1>8, <2>1, <2>2
    <2>3. CASE n # 0
      <3>1. 1 \in 1 .. n
        BY ONLY <1>3, <2>3
      <3> QED BY ONLY <1>3, <1>4, <2>1, <2>3, <3>1
    <2> QED BY ONLY <2>2, <2>3
  <1> QED BY ONLY <1>4, <1>13, <1>14, <1>15, <1>16

LEMMA ExecuteStep ==
  ASSUME IInv, Execute
  PROVE  IInv'
  <1>1. PICK m \in Needed \ Running : ~ Holds(m) /\ stack' = Append(stack, Frame(m))
    BY DEF Execute
  <1>2. UNCHANGED <<program, memo, iter, asked, earlier, outcome>> /\ Module' = Module
    BY DEF Execute, Module
  <1>3. TypeOK /\ Structure /\ AskedOrFinal
    BY DEF IInv
  <1>4. outcome = "running" /\ stack # <<>> /\ m \in Module \ Running /\ ReadItself(Len(stack))
    BY <1>1, <1>3, ReadsFrom
  <1>5. m \notin Current
    BY <1>1, <1>3, CurrentHolds
  <1>6. ~ memo[m].final
    BY <1>1, <1>3, <1>4 DEF Holds, Settled, Structure, MemoOK
  <1>7. /\ StackOK' /\ Structure' /\ CurrentIsComputed' /\ FinalIsFixed'
        /\ stack' # <<>> /\ stack'[1].module = (IF stack = <<>> THEN m ELSE stack[1].module)
    BY <1>1, <1>2, <1>4, <1>5, <1>6, PushKeeps
  <1>8. TypeOK'
    BY ONLY <1>2, <1>3, <1>7 DEF TypeOK, StackOK
  <1>9. AskedOrFinal'
    BY ONLY <1>2, <1>3, <1>4, <1>7 DEF AskedOrFinal
  <1>10. BuiltIsIdle'
    BY ONLY <1>2, <1>4 DEF BuiltIsIdle
  <1> QED BY <1>7, <1>8, <1>9, <1>10 DEF IInv

LEMMA AskStep ==
  ASSUME IInv, Ask
  PROVE  IInv'
  <1>0. PICK m : m = Head(asked)
    OBVIOUS
  <1>1. /\ outcome = "running" /\ stack = <<>> /\ asked # <<>> /\ asked' = Tail(asked)
        /\ stack' = IF Holds(m) THEN stack ELSE <<Frame(m)>>
        /\ UNCHANGED <<program, memo, iter, earlier, outcome>> /\ Module' = Module
    BY <1>0 DEF Ask, Module
  <1>2. TypeOK /\ Structure /\ CurrentIsComputed /\ FinalIsFixed /\ AskedOrFinal /\ BuiltIsIdle
    BY DEF IInv
  <1>3. m \in Module /\ asked' \in Seq(Module) /\ ToSet(asked) \subseteq ToSet(asked') \cup {m}
    <2>1. /\ asked \in Seq(Module) /\ Head(asked) \in Module /\ Tail(asked) \in Seq(Module)
          /\ Len(Tail(asked)) = Len(asked) - 1
          /\ \A i \in 1 .. Len(Tail(asked)) : Tail(asked)[i] = asked[i + 1]
      BY <1>1, <1>2, HeadTailProperties DEF TypeOK
    <2>2. /\ DOMAIN asked = 1 .. Len(asked) /\ Len(asked) \in Nat
          /\ DOMAIN Tail(asked) = 1 .. Len(Tail(asked)) /\ Head(asked) = asked[1]
      BY <2>1, LenProperties
    <2>3. ASSUME NEW i \in DOMAIN asked PROVE asked[i] \in ToSet(Tail(asked)) \cup {asked[1]}
      <3>1. CASE i = 1
        BY <3>1
      <3>2. CASE i # 1
        <4>1. i - 1 \in DOMAIN Tail(asked) /\ (i - 1) + 1 = i
          BY ONLY <2>1, <2>2, <2>3, <3>2
        <4>2. Tail(asked)[i - 1] = asked[i]
          BY ONLY <2>1, <2>2, <4>1
        <4> QED BY ONLY <4>1, <4>2 DEF ToSet
      <3> QED BY <3>1, <3>2
    <2> QED BY <1>0, <1>1, <2>1, <2>2, <2>3 DEF ToSet
  <1>4. Running = {} /\ DOMAIN stack = {}
    BY <1>1 DEF Running
  <1>5. CASE Holds(m)
    <2>1. stack' = stack
      BY <1>1, <1>5
    <2>2. memo[m].final
      <3> SUFFICES ASSUME ~ memo[m].final PROVE FALSE
        OBVIOUS
      <3>1. m \in Current
        BY <1>2, <1>3, <1>4, <1>5, HoldsIsCurrent
      <3>2. Leads(Current, {})
        BY <1>2, <1>4 DEF Structure, LeadsToRunning
      <3> QED BY <1>2, <3>1, <3>2 DEF Structure, NotAlone
    <2>3. TypeOK'
      BY ONLY <1>1, <1>2, <1>3, <2>1, ZenonT(40) DEF TypeOK
    <2>4. Current' = Current /\ Running' = Running
      BY ONLY <1>1, <2>1 DEF Current, Running, AtCounts
    <2>5. Structure'
      <3>1. DOMAIN stack' = {}
        BY ONLY <1>4, <2>1
      <3>2. LeadsToRunning' /\ NotAlone' /\ Comparable'
        BY ONLY <1>1, <1>2, <2>4 DEF Structure, LeadsToRunning, NotAlone, Comparable, Leads
      <3>3. \A x \in Module : MemoOK(x)'
        BY ONLY <1>1, <1>2 DEF Structure, MemoOK
      <3> QED BY ONLY <1>1, <3>1, <3>2, <3>3 DEF Structure, HeadsAreKept
    <2>6. CurrentIsComputed'
      BY ONLY <1>1, <1>2, <2>4, StillComputed DEF TypeOK
    <2>7. FinalIsFixed'
      BY ONLY <1>1, <1>2 DEF FinalIsFixed, Lists
    <2>8. AskedOrFinal'
      BY ONLY <1>1, <1>2, <1>3, <2>1, <2>2 DEF AskedOrFinal
    <2>9. BuiltIsIdle'
      BY ONLY <1>1 DEF BuiltIsIdle
    <2> QED BY <2>3, <2>5, <2>6, <2>7, <2>8, <2>9 DEF IInv
  <1>6. CASE ~ Holds(m)
    <2>1. stack' = Append(stack, Frame(m))
      BY <1>1, <1>6
    <2>2. ~ memo[m].final /\ m \notin Current
      BY <1>2, <1>3, <1>6, CurrentHolds DEF Holds, Settled, Structure, MemoOK
    <2>3. /\ StackOK' /\ Structure' /\ CurrentIsComputed' /\ FinalIsFixed'
          /\ stack' # <<>> /\ stack'[1].module = (IF stack = <<>> THEN m ELSE stack[1].module)
      BY <1>1, <1>3, <1>4, <2>1, <2>2, PushKeeps
    <2>4. TypeOK'
      BY ONLY <1>1, <1>2, <1>3, <2>3 DEF TypeOK, StackOK
    <2>5. AskedOrFinal'
      BY ONLY <1>1, <1>2, <1>3, <2>3 DEF AskedOrFinal
    <2>6. BuiltIsIdle'
      BY ONLY <1>1 DEF BuiltIsIdle
    <2> QED BY <2>3, <2>4, <2>5, <2>6 DEF IInv
  <1> QED BY <1>5, <1>6

-----------------------------------------------------------------------------
(* Completing. *)

(* A frame below the innermost one, when the memos of the queries D, none  *)
(* of which is below it, are replaced, and it reads the query on top.      *)
LEMMA BelowKept ==
  ASSUME TypeOK, Structure, UNCHANGED program, DOMAIN memo' = Module, NEW D,
         NEW i \in DOMAIN stack, i # Len(stack), SameModules(i),
         \A x \in Module \ D : memo'[x] = memo[x] /\ iter'[x] = iter[x],
         \A x \in Module \cap D : ~ memo[x].final,
         Current \ D \subseteq Current', Below(i) \cap D = {},
         \A S \in SUBSET Current : Leads(S, Below(i)) => S \cap D = {},
         NEW t \in Module, NEW heads,
         \/ stack'[i] = stack[i]
         \/ /\ HasRead(i, t, memo'[t].value, heads)
            /\ \/ memo'[t].final /\ heads = {}
               \/ /\ t \in heads /\ t \in Current' /\ heads \subseteq Current' \cup Below(i)
                  /\ Leads(Current, Below(i))'
  PROVE  FrameOK(i)' /\ Grounded(i)'
  <1> DEFINE s == stack[i].module
  <1>1. /\ FrameOK(i) /\ Grounded(i) /\ ReadItself(i) /\ s \in Module
        /\ DOMAIN stack[i].known \subseteq Module /\ Current \cup Below(i) \subseteq Module
        /\ s \in Below(i) /\ i \in DOMAIN stack /\ Below(i)' = Below(i) /\ stack'[i].module = s
    <2>1. i \in 1 .. i
      BY Stacked
    <2>2. Below(i) \subseteq Module
      BY Stacked DEF Below, TypeOK
    <2>3. Current \subseteq Module
      BY CurrentAreModules
    <2> QED BY <2>1, <2>2, <2>3 DEF Structure, FrameOK, Fresh, TypeOK, Below, SameModules
  <1>2. PICK S \in SUBSET Current : Leads(S, Below(i)) /\ stack[i].heads \subseteq S \cup Below(i)
    BY <1>1 DEF Grounded
  <1>3. S \cap D = {} /\ S \subseteq Current' /\ s \notin D /\ stack[i].heads \cap D = {} /\ S \subseteq Module
    BY <1>1, <1>2
  <1>4. \A x \in DOMAIN stack[i].known : memo'[x] = memo[x]
                                         /\ (x \in Current => x \in Current')
    BY <1>1, <1>3 DEF FrameOK
  <1>5. /\ s \in DOMAIN stack'[i].known /\ stack[i].heads \subseteq stack'[i].heads
    BY <1>1 DEF ReadItself, HasRead
  <1>6. ReadItself(i)'
    <2>1. memo'[s] = memo[s] /\ iter'[s] = iter[s]
      BY <1>1, <1>3
    <2>2. AtCounts(s)'
      BY <1>1, <2>1 DEF ReadItself, AtCounts
    <2>3. program' = program
      OBVIOUS
    <2> QED BY ONLY <1>1, <1>5, <2>1, <2>2, <2>3 DEF ReadItself, AtCounts
  <1>7. FrameOK(i)'
    <2>1. ~ memo'[stack'[i].module].final
      BY <1>1, <1>3 DEF FrameOK
    <2>2. ASSUME NEW x \in DOMAIN stack'[i].known
          PROVE  /\ stack'[i].known[x] = memo'[x].value
                 /\ memo'[x].final \/ (x \in stack'[i].heads /\ x \in Current' \cup Below(i)')
      <3>1. CASE stack'[i] = stack[i]
        BY <1>1, <1>4, <2>2, <3>1 DEF FrameOK
      <3>2. CASE stack'[i] # stack[i] /\ x = t
        BY <1>1, <3>2 DEF HasRead
      <3>3. CASE stack'[i] # stack[i] /\ x # t
        <4>1. HasRead(i, t, memo'[t].value, heads)
          BY <3>3
        <4>2. x \in DOMAIN stack[i].known /\ stack'[i].known[x] = stack[i].known[x]
          BY ONLY <2>2, <3>3, <4>1 DEF HasRead
        <4> QED BY ONLY <1>1, <1>4, <1>5, <4>2 DEF FrameOK
      <3> QED BY <3>1, <3>2, <3>3
    <2> QED BY ONLY <1>6, <2>1, <2>2 DEF FrameOK
  <1>8. Grounded(i)'
    <2>1. Leads(S, Below(i))'
      <3>1. \A y \in S : memo'[y] = memo[y]
        BY <1>3
      <3> QED BY <1>1, <1>2, <3>1 DEF Leads
    <2>2. CASE stack'[i].heads = stack[i].heads
      BY <1>1, <1>2, <1>3, <2>1, <2>2 DEF Grounded
    <2>3. CASE stack'[i].heads # stack[i].heads
      <3>1. HasRead(i, t, memo'[t].value, heads) /\ heads # {}
        BY <2>3 DEF HasRead
      <3>2. heads \subseteq Current' \cup Below(i) /\ Leads(Current, Below(i))'
        BY <2>3, <3>1
      <3>3. Current' \in SUBSET Current' /\ Leads(Current, Below(i))'
        BY <3>2
      <3>4. stack'[i].heads \subseteq Current' \cup Below(i)
        BY ONLY <1>2, <1>3, <3>1, <3>2 DEF HasRead
      <3> QED BY ONLY <1>1, <3>3, <3>4 DEF Grounded
    <2> QED BY <2>2, <2>3
  <1> QED BY <1>7, <1>8

(* The bottom of the stack stays, or its query has returned. *)
LEMMA ReturnAsked ==
  ASSUME TypeOK, AskedOrFinal, UNCHANGED <<program, asked>>, stack # <<>>, NEW value,
         NEW heads \in SUBSET Module, Return(value, heads),
         \A x \in Module : memo[x].final => memo'[x].final,
         Len(stack) = 1 => memo'[Top.module].final
  PROVE  AskedOrFinal'
  <1>1. /\ StackOK' /\ Len(stack') = Len(stack) - 1 /\ DOMAIN stack' = 1 .. Len(stack) - 1
        /\ \A i \in 1 .. Len(stack) - 1 : SameModules(i)
    BY ReturnBelow
  <1>2. /\ Len(stack) \in Nat /\ Len(stack) # 0 /\ Top = stack[Len(stack)] /\ Module' = Module
        /\ UNCHANGED <<program, asked>>
    BY Stacked DEF Module
  <1>3. CASE Len(stack) = 1
    BY <1>2, <1>3 DEF AskedOrFinal
  <1>4. CASE Len(stack) # 1
    <2>1. 1 \in 1 .. Len(stack) - 1 /\ Len(stack) - 1 # 0
      <3>1. \A k \in Nat : k # 0 /\ k # 1 => 1 \in 1 .. k - 1 /\ k - 1 # 0
        OBVIOUS
      <3> QED BY ONLY <1>2, <1>4, <3>1
    <2>2. stack' # <<>>
      BY ONLY <1>1, <2>1, EmptySeq
    <2>3. stack'[1].module = stack[1].module
      BY ONLY <1>1, <2>1 DEF SameModules
    <2> QED BY <1>2, <2>2, <2>3 DEF AskedOrFinal
  <1> QED BY <1>3, <1>4

LEMMA CompletePlainStep ==
  ASSUME IInv, CompletePlain
  PROVE  IInv'
  <1>0. PICK n, t, v : n = Len(stack) /\ t = Top.module /\ v = Value
    OBVIOUS
  <1>1. /\ ReadAll /\ Plain /\ ~ AtLimit /\ iter' = Counts(Bumps)
        /\ memo' = [memo EXCEPT ![t] = Memo(v, {}, TRUE, TRUE, iter)] /\ Return(v, {})
        /\ UNCHANGED <<program, asked, earlier, outcome>> /\ Module' = Module
    BY <1>0 DEF CompletePlain, Module
  <1>2. /\ TypeOK /\ Structure /\ CurrentIsComputed /\ FinalIsFixed /\ AskedOrFinal /\ BuiltIsIdle
        /\ LeadsToRunning
    BY DEF IInv, Structure
  <1> HIDE DEF IInv
  <1>3. outcome = "running" /\ stack # <<>> /\ Needed = {} /\ Top.heads = {}
    BY <1>1 DEF ReadAll, Active, Plain
  <1>4. /\ n \in Nat /\ DOMAIN stack = 1 .. n /\ Running = Below(n) /\ n \in DOMAIN stack /\ 1 <= n
        /\ Top = stack[n] /\ t \in Running /\ Running \subseteq Module /\ t \in Module
        /\ n = Len(stack) /\ t = Top.module /\ t = stack[n].module
        /\ \A i \in DOMAIN stack : \A j \in 1 .. i : j \in DOMAIN stack
    BY <1>0, <1>2, <1>3, Stacked
  <1>5. /\ StackOK' /\ Len(stack') = n - 1 /\ DOMAIN stack' = 1 .. n - 1
        /\ \A i \in 1 .. n - 1 : i < n - 1 => stack'[i] = stack[i]
        /\ n > 1 => HasRead(n - 1, t, v, {})
        /\ Running' = Running \ {t} /\ \A i \in 1 .. n - 1 : SameModules(i)
    <2>1. {} \in SUBSET Module /\ UNCHANGED program /\ Return(v, {})
      BY <1>1
    <2>2. /\ StackOK' /\ Len(stack') = Len(stack) - 1 /\ DOMAIN stack' = 1 .. Len(stack) - 1
          /\ \A i \in 1 .. Len(stack) - 1 : i < Len(stack) - 1 => stack'[i] = stack[i]
          /\ Len(stack) > 1 => HasRead(Len(stack) - 1, Top.module, v, {})
          /\ Running' = Running \ {Top.module} /\ \A i \in 1 .. Len(stack) - 1 : SameModules(i)
      BY ONLY <1>2, <1>3, <2>1, ReturnBelow
    <2> QED BY ONLY <1>0, <2>2
  <1>6. AskedOrFinal'
    <2>1. {} \in SUBSET Module /\ (\A x \in Module : memo[x].final => memo'[x].final) /\ memo'[t].final
      BY <1>1, <1>2, <1>4 DEF Memo, TypeOK
    <2> QED BY <1>1, <1>2, <1>3, <1>4, <2>1, ReturnAsked
  <1>7. /\ DOMAIN memo' = Module /\ \A x \in Module \ {t} : memo'[x] = memo[x]
        /\ memo'[t].value = v /\ memo'[t].stored = TRUE /\ memo'[t].heads = {} /\ memo'[t].final = TRUE
        /\ memo'[t].converged = TRUE /\ DOMAIN memo'[t] = DOMAIN NoMemo
        /\ memo'[t].at = [h \in {} |-> iter[h]]
    <2>1. DOMAIN memo = Module
      BY <1>2 DEF TypeOK
    <2> QED BY ONLY <1>1, <1>4, <2>1 DEF Memo, NoMemo
  <1>8. /\ iter' \in [Module -> 0 .. MaxIterations] /\ iter \in [Module -> 0 .. MaxIterations]
        /\ \A x \in Module \ {t} : iter'[x] = iter[x]
        /\ \A x \in Module : iter[x] \in Nat /\ iter'[x] \in Nat /\ iter[x] <= iter'[x]
    <2>1. iter \in [Module -> 0 .. MaxIterations] /\ MaxIterations \in Nat
      BY <1>2, LimitsAreCounts DEF TypeOK
    <2>2. CASE Bumps
      <3>1. iter' = [iter EXCEPT ![t] = @ + 1] /\ iter[t] # MaxIterations
        BY <1>1, <1>4, <2>2 DEF Counts, AtLimit
      <3> QED BY ONLY <1>4, <2>1, <3>1
    <2>3. CASE ~ Bumps
      <3>1. iter' = iter
        BY <1>1, <2>3 DEF Counts
      <3> QED BY ONLY <1>4, <2>1, <3>1
    <2> QED BY <2>2, <2>3
  (* The query has no calls: one with calls has read itself. *)
  <1>9. ~ Calls(program, t) /\ DOMAIN Top.known = {} /\ ~ memo[t].final
    <2>1. DOMAIN Top.known = {} /\ ~ memo[t].final
      BY <1>2, <1>3, <1>4 DEF Structure, FrameOK, Fresh, ReadItself
    <2>2. Scope(program, Top.known, t) = {}
      BY <1>3, <1>4, <2>1, <1>1 DEF Needed, ReadAll
    <2>3. {t} \subseteq Reach(program, Top.known, t)
      <3>1. {t} \subseteq ModulesOf(program)
        BY <1>4 DEF Module
      <3> QED BY <3>1, ClosureIsClosed DEF Reach
    <2> QED BY <2>1, <2>2, <2>3 DEF Scope
  <1>10. \A x \in Current : t \notin memo[x].heads /\ memo'[x] = memo[x] /\ x # t /\ x \in Module
    <2>1. ASSUME NEW x \in Current PROVE t \notin memo[x].heads
      BY <1>2, <1>3, <1>4, FreshIsNoHead
    <2> QED BY <1>4, <1>7, <2>1 DEF Current
  <1>11. \A x \in Module \ {t} : memo'[x].heads = memo[x].heads /\ memo[x].heads \subseteq Module
                                 /\ \A h \in memo[x].heads : memo[x].at[h] \in Nat /\ memo[x].at[h] <= iter[h]
    <2>1. ASSUME NEW x \in Module \ {t}, NEW h \in memo[x].heads
          PROVE  memo[x].at[h] \in Nat /\ memo[x].at[h] <= iter[h]
      BY <1>2 DEF TypeOK, Structure, MemoOK
    <2> QED BY <1>2, <1>7, <2>1 DEF TypeOK
  <1>12. Current' = Current
    <2>1. ASSUME NEW x \in Current PROVE x \in Current'
      <3>1. \A h \in memo[x].heads : h \in Module \ {t}
        BY <1>10, <1>11
      <3>2. AtCounts(x)'
        BY <1>8, <1>10, <3>1 DEF AtCounts, Current
      <3> QED BY <1>1, <1>5, <1>10, <3>2 DEF Current
    <2>2. ASSUME NEW x \in Current' PROVE x \in Current
      <3>1. x \in Module \ {t} /\ x \notin Running /\ memo[x].stored /\ ~ memo[x].final /\ AtCounts(x)'
        BY <1>1, <1>5, <1>7, <2>2 DEF Current
      <3>2. ASSUME NEW h \in memo[x].heads PROVE memo[x].at[h] = iter[h]
        <4>1. /\ memo[x].at[h] = iter'[h] /\ h \in Module
              /\ memo[x].at[h] \in Nat /\ memo[x].at[h] <= iter[h]
          BY <1>7, <1>11, <3>1, <3>2 DEF AtCounts
        <4>2. iter[h] \in Nat /\ iter[h] <= iter'[h]
          BY ONLY <1>8, <4>1
        <4> QED BY ONLY <4>1, <4>2
      <3> QED BY <3>1, <3>2 DEF Current, AtCounts
    <2> QED BY <2>1, <2>2
  <1>13. TypeOK'
    <2>1. ASSUME NEW x \in Module
          PROVE  /\ DOMAIN memo'[x] = DOMAIN NoMemo
                 /\ {memo'[x].stored, memo'[x].converged, memo'[x].final} \subseteq BOOLEAN
                 /\ memo'[x].heads \subseteq Module /\ memo'[x].at \in [memo'[x].heads -> Nat]
      <3>1. CASE x = t
        BY ONLY <1>7, <3>1
      <3>2. CASE x # t
        BY <1>2, <1>7, <3>2 DEF TypeOK
      <3> QED BY <3>1, <3>2
    <2>2. IsFiniteSet(Module) /\ asked' \in Seq(Module) /\ outcome' \in {"running", "built", "panic"}
      BY <1>1, <1>2 DEF TypeOK
    <2> QED BY ONLY <1>1, <1>5, <1>7, <1>8, <2>1, <2>2, ZenonT(40) DEF TypeOK, StackOK
  <1>14. \A x \in Module : MemoOK(x)'
    <2>1. ASSUME NEW x \in Module \ {t} PROVE MemoOK(x)'
      <3>1. MemoOK(x) /\ memo'[x] = memo[x] /\ \A h \in memo[x].heads : h \in Module
        BY <1>2, <1>7, <1>11 DEF Structure
      <3>2. ASSUME NEW h \in memo[x].heads PROVE memo[x].at[h] <= iter'[h]
        BY <1>8, <1>11, <3>1
      <3> QED BY <3>1, <3>2 DEF MemoOK
    <2>2. MemoOK(t)'
      BY <1>7 DEF MemoOK
    <2> QED BY <2>1, <2>2
  <1>15. ASSUME NEW i \in 1 .. n - 1
         PROVE  FrameOK(i)' /\ Grounded(i)'
    <2>1. i \in DOMAIN stack /\ i # n /\ SameModules(i) /\ i \in Nat
      BY <1>4, <1>5, Positions
    <2>2. Below(i) \cap {t} = {}
      <3>1. i \in 1 .. Len(stack) - 1
        BY <1>0
      <3>2. Top.module \notin Below(i)
        BY ONLY <1>2, <1>3, <3>1, FramesBelow
      <3> QED BY <1>0, <3>2
    <2>3. \A S \in SUBSET Current : Leads(S, Below(i)) => S \cap {t} = {}
      BY <1>10
    <2>4. \/ stack'[i] = stack[i]
          \/ HasRead(i, t, memo'[t].value, {}) /\ memo'[t].final
      <3>1. CASE i < n - 1
        BY <1>5, <3>1
      <3>2. CASE i = n - 1
        <4>1. n > 1
          BY <1>4, <3>2
        <4> QED BY <1>5, <1>7, <3>2, <4>1
      <3>3. i < n - 1 \/ i = n - 1
        <4>1. n \in Nat
          BY <1>4
        <4> QED BY ONLY <4>1, LastOrNot
      <3> QED BY <3>1, <3>2, <3>3
    <2>5. /\ \A x \in Module \ {t} : memo'[x] = memo[x] /\ iter'[x] = iter[x]
          /\ \A x \in Module \cap {t} : ~ memo[x].final
          /\ Current \ {t} \subseteq Current'
      BY <1>7, <1>8, <1>9, <1>12
    <2>6. UNCHANGED program /\ DOMAIN memo' = Module /\ t \in Module /\ i # Len(stack)
      BY <1>1, <1>4, <1>7, <2>1
    <2> QED BY ONLY <1>2, <2>1, <2>2, <2>3, <2>4, <2>5, <2>6, BelowKept
  <1>16. LeadsToRunning'
    BY <1>2, <1>5, <1>10, <1>12 DEF LeadsToRunning, Leads
  <1>17. HeadsAreKept'
    <2>1. SUFFICES ASSUME NEW x \in Current, NEW j \in 1 .. n - 1, stack'[j].module \in memo'[x].heads
                   PROVE  \E i \in j .. n - 1 : memo'[x].heads \subseteq stack'[i].heads
      BY <1>5, <1>12 DEF HeadsAreKept
    <2>2. stack[j].module \in memo[x].heads /\ memo'[x] = memo[x] /\ j \in DOMAIN stack
      BY <1>4, <1>5, <1>10, <2>1, Positions DEF SameModules
    <2>3. PICK i \in j .. n : memo[x].heads \subseteq stack[i].heads
      BY <1>2, <1>4, <2>2 DEF Structure, HeadsAreKept
    <2>4. i # n
      BY <1>3, <1>4, <2>2, <2>3
    <2>5. i \in j .. n - 1 /\ i \in 1 .. n - 1 /\ (i < n - 1 \/ (i = n - 1 /\ n > 1))
      <3>1. n \in Nat
        BY <1>4
      <3>2. j \in 1 .. n
        BY ONLY <3>1, LastOrNot
      <3> QED BY ONLY <2>3, <2>4, <3>1, <3>2, Between
    <2>6. stack[i].heads \subseteq stack'[i].heads
      BY <1>5, <2>5 DEF HasRead
    <2> QED BY <2>2, <2>3, <2>5, <2>6
  <1>18. Structure'
    <2>1. NotAlone' /\ Comparable'
      BY <1>2, <1>10, <1>12, FewerCurrent
    <2> QED BY <1>1, <1>5, <1>14, <1>15, <1>16, <1>17, <2>1 DEF Structure
  <1>19. \A y \in Module : memo[y].final => memo'[y].final /\ memo'[y].value = memo[y].value
    BY <1>7, <1>9
  <1>20. CurrentIsComputed'
    <2>1. ASSUME NEW x \in Current', NEW y \in memo[x].heads
          PROVE  /\ memo'[y].value = memo[y].value
                 /\ y \in Running' \/ memo'[y].converged => y \in Running \/ memo[y].converged
      BY <1>5, <1>7, <1>10, <1>11, <1>12
    <2>2. DOMAIN memo = Module
      BY <1>2 DEF TypeOK
    <2> QED BY <1>1, <1>2, <1>10, <1>12, <1>19, <2>1, <2>2, StillComputed
  <1>21. FinalIsFixed'
    <2>1. ASSUME NEW x \in Module, memo'[x].final
          PROVE  /\ memo'[x].value = ExpandedItems(program', Lists', x)
                 /\ \A y \in Scope(program', Lists', x) : memo'[y].final
      <3>1. CASE x # t
        <4>1. memo[x].final
          BY <1>7, <2>1, <3>1
        <4> QED BY <1>1, <1>2, <1>7, <1>19, <4>1, FinalStays
      <3>2. CASE x = t
        <4>1. Scope(program, Lists', t) = {} /\ Scope(program, Top.known, t) = {}
          BY <1>9 DEF Scope
        <4>2. ExpandedItems(program, Lists', t) = ExpandedItems(program, Top.known, t)
          BY <4>1 DEF ExpandedItems, Visible
        <4>3. v = ExpandedItems(program, Top.known, t)
          BY <1>0 DEF Value
        <4> QED BY <1>1, <1>7, <3>2, <4>1, <4>2, <4>3
      <3> QED BY <3>1, <3>2
    <2> QED BY <1>1, <2>1 DEF FinalIsFixed
  <1>22. BuiltIsIdle'
    BY <1>1, <1>3 DEF BuiltIsIdle
  <1> QED BY <1>6, <1>13, <1>18, <1>20, <1>21, <1>22 DEF IInv

LEMMA CompleteInsideStep ==
  ASSUME IInv, CompleteInside
  PROVE  IInv'
  <1>0. PICK n, t, v, A : n = Len(stack) /\ t = Top.module /\ v = Value /\ A = AllHeads
    OBVIOUS
  <1>1. ReadAll /\ Inside /\ UNCHANGED <<program, asked, earlier, outcome>> /\ Module' = Module
    BY DEF CompleteInside, Module
  <1>2. /\ TypeOK /\ Structure /\ CurrentIsComputed /\ FinalIsFixed /\ AskedOrFinal /\ BuiltIsIdle
        /\ LeadsToRunning
    BY DEF IInv, Structure
  <1> HIDE DEF IInv
  <1>3. outcome = "running" /\ stack # <<>> /\ ~ Plain
    BY <1>1 DEF ReadAll, Active, Inside
  <1>4. /\ n \in Nat /\ DOMAIN stack = 1 .. n /\ Running = Below(n) /\ n \in DOMAIN stack /\ 1 <= n
        /\ Top = stack[n] /\ t \in Running /\ Running \subseteq Module /\ t \in Module
        /\ n = Len(stack) /\ t = Top.module /\ t = stack[n].module
        /\ \A i \in DOMAIN stack : \A j \in 1 .. i : j \in DOMAIN stack
    BY <1>0, <1>2, <1>3, Stacked
  <1>5. /\ ReadItself(n) /\ Scope(program, stack[n].known, t) \subseteq DOMAIN stack[n].known
        /\ stack[n].heads \subseteq A /\ t \in A /\ A \subseteq Current \cup Running /\ A \subseteq Module
        /\ \A x \in A \ {t} : memo[x].heads \subseteq A
    BY <1>0, <1>1, <1>2, <1>3, <1>4, Collected
  <1>6. PICK r \in A : r # t /\ r \in Running
    BY <1>0, <1>1, <1>4 DEF Inside, Outer
  <1>7. /\ iter' = iter /\ Return(v, A)
        /\ \E converged \in BOOLEAN :
             /\ converged => v = memo[t].value
             /\ memo' = [memo EXCEPT ![t] = Memo(v, A, converged, FALSE, iter)]
    <2>1. IsHead
      BY <1>0, <1>5 DEF IsHead
    <2>2. ~ Bumps
      BY <1>3, <2>1 DEF Bumps
    <2>3. iter' = iter
      BY <2>2 DEF CompleteInside, Counts
    <2>4. Return(v, A)
      BY <1>0 DEF CompleteInside
    <2>5. memo' = [memo EXCEPT ![t] = Memo(v, A, v = memo[t].value, FALSE, iter)]
      <3>1. (~ IsHead \/ Value = memo[Top.module].value) = (v = memo[t].value)
        BY <1>0, <2>1
      <3> QED BY <1>0, <3>1 DEF CompleteInside
    <2>6. (v = memo[t].value) \in BOOLEAN
      OBVIOUS
    <2> QED BY <2>3, <2>4, <2>5, <2>6
  <1>8. n > 1 /\ Running = Below(n - 1) \cup {t} /\ t \notin Below(n - 1)
    <2>1. 1 .. n = (1 .. n - 1) \cup {n} /\ \A i \in 1 .. n - 1 : i \in 1 .. n /\ i # n
      BY <1>4, Positions, ZenonT(40)
    <2>2. Running = Below(n - 1) \cup {t}
      BY <1>4, <2>1, ZenonT(40) DEF Below
    <2>3. t \notin Below(n - 1)
      BY <1>2, <1>4, <2>1, ZenonT(40) DEF Below, TypeOK
    <2>4. PICK j \in 1 .. n - 1 : r = stack[j].module
      BY <1>6, <2>2 DEF Below
    <2> QED BY <1>4, <2>2, <2>3, <2>4
  <1>9. /\ StackOK' /\ Len(stack') = n - 1 /\ DOMAIN stack' = 1 .. n - 1
        /\ \A i \in 1 .. n - 1 : i < n - 1 => stack'[i] = stack[i]
        /\ HasRead(n - 1, t, v, A)
        /\ Running' = Running \ {t} /\ \A i \in 1 .. n - 1 : SameModules(i)
    <2>1. A \in SUBSET Module /\ UNCHANGED program /\ Return(v, A)
      BY <1>1, <1>5, <1>7
    <2>2. /\ StackOK' /\ Len(stack') = Len(stack) - 1 /\ DOMAIN stack' = 1 .. Len(stack) - 1
          /\ \A i \in 1 .. Len(stack) - 1 : i < Len(stack) - 1 => stack'[i] = stack[i]
          /\ Len(stack) > 1 => HasRead(Len(stack) - 1, Top.module, v, A)
          /\ Running' = Running \ {Top.module} /\ \A i \in 1 .. Len(stack) - 1 : SameModules(i)
      BY ONLY <1>2, <1>3, <2>1, ReturnBelow
    <2> QED BY ONLY <1>0, <1>8, <2>2
  <1>10. ~ memo[t].final /\ ReadItself(n) /\ FrameOK(n)
    BY <1>2, <1>4, <1>5 DEF Structure, FrameOK
  <1>11. /\ DOMAIN memo' = Module /\ \A x \in Module \ {t} : memo'[x] = memo[x]
         /\ memo'[t].value = v /\ memo'[t].stored = TRUE /\ memo'[t].heads = A /\ memo'[t].final = FALSE
         /\ memo'[t].converged \in BOOLEAN /\ (memo'[t].converged => v = memo[t].value)
         /\ DOMAIN memo'[t] = DOMAIN NoMemo /\ memo'[t].at = [h \in A |-> iter[h]]
    <2>1. DOMAIN memo = Module
      BY <1>2 DEF TypeOK
    <2> QED BY ONLY <1>4, <1>7, <2>1 DEF Memo, NoMemo
  <1>12. \A y \in Module : memo'[y].final = memo[y].final
    <2>1. memo[t].final = FALSE
      BY <1>2, <1>4, <1>10 DEF TypeOK
    <2> QED BY <1>11, <2>1
  <1>13. Current' = Current \cup {t} /\ t \notin Current /\ Current \subseteq Module
    <2>1. \A x \in Module \ {t} : AtCounts(x)' = AtCounts(x)
      BY <1>7, <1>11 DEF AtCounts
    <2>2. AtCounts(t)'
      BY <1>7, <1>11, ZenonT(40) DEF AtCounts
    <2>3. t \notin Current /\ Current \subseteq Module
      BY <1>4 DEF Current
    <2>4. t \in Current'
      BY <1>1, <1>4, <1>9, <1>11, <2>2 DEF Current
    <2>5. ASSUME NEW x \in Module \ {t} PROVE x \in Current' <=> x \in Current
      BY <1>1, <1>9, <1>11, <2>1 DEF Current
    <2>6. Current' \subseteq Module
      BY <1>1 DEF Current
    <2> QED BY ONLY <2>3, <2>4, <2>5, <2>6
  <1>14. TypeOK'
    <2>1. ASSUME NEW x \in Module
          PROVE  /\ DOMAIN memo'[x] = DOMAIN NoMemo
                 /\ {memo'[x].stored, memo'[x].converged, memo'[x].final} \subseteq BOOLEAN
                 /\ memo'[x].heads \subseteq Module /\ memo'[x].at \in [memo'[x].heads -> Nat]
      <3>1. CASE x = t
        <4>1. \A h \in A : iter[h] \in Nat
          BY <1>2, <1>5, LimitsAreCounts DEF TypeOK
        <4> QED BY ONLY <1>5, <1>11, <3>1, <4>1
      <3>2. CASE x # t
        BY <1>2, <1>11, <3>2 DEF TypeOK
      <3> QED BY <3>1, <3>2
    <2>2. /\ IsFiniteSet(Module) /\ asked' \in Seq(Module) /\ outcome' \in {"running", "built", "panic"}
          /\ iter' \in [Module -> 0 .. MaxIterations]
      BY <1>1, <1>2, <1>7 DEF TypeOK
    <2> QED BY ONLY <1>1, <1>9, <1>11, <2>1, <2>2 DEF TypeOK, StackOK
  <1>15. \A x \in Module : MemoOK(x)'
    <2>1. ASSUME NEW x \in Module \ {t} PROVE MemoOK(x)'
      BY <1>2, <1>7, <1>11 DEF MemoOK, Structure
    <2>2. MemoOK(t)'
      <3>1. \A h \in A : iter[h] \in Nat
        BY <1>2, <1>5, LimitsAreCounts DEF TypeOK
      <3>2. iter' = iter
        BY <1>7
      <3>3. \A h \in A : memo'[t].at[h] = iter'[h] /\ iter'[h] <= iter'[h]
        BY ONLY <1>11, <3>1, <3>2
      <3> QED BY ONLY <1>5, <1>11, <3>3 DEF MemoOK
    <2> QED BY <2>1, <2>2
  <1>16. LeadsToRunning' /\ A \subseteq Current' \cup Running' /\ Running' = Below(n - 1)
    <2>1. Current \cup Running \subseteq Current' \cup Running'
      BY <1>9, <1>13
    <2>2. \A x \in Current : memo'[x].heads = memo[x].heads
      BY <1>11, <1>13
    <2> QED BY <1>2, <1>5, <1>8, <1>9, <1>11, <1>13, <2>1, <2>2 DEF LeadsToRunning, Leads
  <1>17. ASSUME NEW i \in 1 .. n - 1
         PROVE  FrameOK(i)' /\ Grounded(i)'
    <2>1. i \in DOMAIN stack /\ i # n /\ SameModules(i) /\ i \in Nat
      BY <1>4, <1>9, Positions
    <2>2. Below(i) \cap {t} = {}
      <3>1. i \in 1 .. Len(stack) - 1
        BY <1>0
      <3>2. Top.module \notin Below(i)
        BY ONLY <1>2, <1>3, <3>1, FramesBelow
      <3> QED BY <1>0, <3>2
    <2>3. \A S \in SUBSET Current : Leads(S, Below(i)) => S \cap {t} = {}
      BY <1>13
    <2>4. \/ stack'[i] = stack[i]
          \/ /\ HasRead(i, t, memo'[t].value, A)
             /\ t \in A /\ t \in Current' /\ A \subseteq Current' \cup Below(i)
             /\ Leads(Current, Below(i))'
      <3>1. CASE i < n - 1
        BY <1>9, <3>1
      <3>2. CASE i = n - 1
        <4>1. Below(i)' = Below(i) /\ Running' = Below(i)
          BY <1>16, <2>1, <3>2 DEF SameModules
        <4>2. Leads(Current, Below(i))'
          BY <1>16, <4>1 DEF LeadsToRunning, Leads
        <4> QED BY <1>5, <1>9, <1>11, <1>13, <1>16, <3>2, <4>1, <4>2
      <3>3. i < n - 1 \/ i = n - 1
        <4>1. n \in Nat
          BY <1>4
        <4> QED BY ONLY <4>1, LastOrNot
      <3> QED BY <3>1, <3>2, <3>3
    <2>5. /\ \A x \in Module \ {t} : memo'[x] = memo[x] /\ iter'[x] = iter[x]
          /\ \A x \in Module \cap {t} : ~ memo[x].final
          /\ Current \ {t} \subseteq Current'
      BY <1>7, <1>10, <1>11, <1>13
    <2>6. UNCHANGED program /\ DOMAIN memo' = Module /\ t \in Module /\ i # Len(stack)
      BY <1>1, <1>4, <1>11, <2>1
    <2> QED BY ONLY <1>2, <2>1, <2>2, <2>3, <2>4, <2>5, <2>6, BelowKept
  <1>18. NotAlone'
    <2>1. SUFFICES ASSUME NEW S \in SUBSET Current', Leads(S, {})' PROVE S = {}
      BY DEF NotAlone
    <2>2. t \notin S
      <3>1. SUFFICES ASSUME t \in S PROVE FALSE
        OBVIOUS
      <3>2. r \in S
        BY <1>6, <1>11, <2>1, <3>1 DEF Leads
      <3> QED BY <1>6, <1>13, <2>1, <3>2 DEF Current
    <2>3. S \in SUBSET Current /\ Leads(S, {})
      BY <1>11, <1>13, <2>1, <2>2 DEF Leads
    <2> QED BY <1>2, <2>3 DEF Structure, NotAlone
  <1>19. \A x \in Current : t \in memo[x].heads => memo[x].heads \subseteq A
    <2>1. ASSUME NEW x \in Current, t \in memo[x].heads PROVE memo[x].heads \subseteq A
      <3>1. PICK i \in n .. n : memo[x].heads \subseteq stack[i].heads
        BY <1>2, <1>4, <2>1 DEF Structure, HeadsAreKept
      <3>2. i = n
        BY <1>4, <3>1
      <3> QED BY <1>5, <3>1, <3>2
    <2> QED BY <2>1
  <1>20. HeadsAreKept'
    <2>1. SUFFICES ASSUME NEW x \in Current', NEW j \in 1 .. n - 1, stack'[j].module \in memo'[x].heads
                   PROVE  \E i \in j .. n - 1 : memo'[x].heads \subseteq stack'[i].heads
      BY <1>9 DEF HeadsAreKept
    <2>2. A \subseteq stack'[n - 1].heads /\ n - 1 \in j .. n - 1
      BY <1>4, <1>9, <2>1 DEF HasRead
    <2>3. CASE x = t
      BY <1>11, <2>2, <2>3
    <2>4. CASE x # t
      <3>1. x \in Current /\ stack[j].module \in memo[x].heads /\ memo'[x] = memo[x] /\ j \in DOMAIN stack
        BY <1>4, <1>9, <1>11, <1>13, <2>1, <2>4, Positions DEF SameModules
      <3>2. PICK i \in j .. n : memo[x].heads \subseteq stack[i].heads
        BY <1>2, <1>4, <3>1 DEF Structure, HeadsAreKept
      <3>3. CASE i = n
        BY <1>5, <2>2, <3>1, <3>2, <3>3
      <3>4. CASE i # n
        <4>1. i \in j .. n - 1 /\ i \in 1 .. n - 1 /\ (i < n - 1 \/ i = n - 1)
          <5>1. n \in Nat
            BY <1>4
          <5>2. j \in 1 .. n
            BY ONLY <5>1, LastOrNot
          <5> QED BY ONLY <3>2, <3>4, <5>1, <5>2, Between
        <4>2. stack[i].heads \subseteq stack'[i].heads
          BY <1>9, <4>1 DEF HasRead
        <4> QED BY <3>1, <3>2, <4>1, <4>2
      <3> QED BY <3>3, <3>4
    <2> QED BY <2>3, <2>4
  <1>21. Comparable'
    <2>1. SUFFICES ASSUME NEW x \in Current', NEW y \in Current', y \in memo'[x].heads
                   PROVE  \/ memo'[x].heads \subseteq memo'[y].heads
                          \/ memo'[y].heads \subseteq memo'[x].heads
      BY DEF Comparable
    <2>2. CASE x # t /\ y # t
      BY <1>2, <1>11, <1>13, <2>1, <2>2 DEF Structure, Comparable
    <2>3. CASE x = t /\ y # t
      BY <1>5, <1>11, <1>13, <2>1, <2>3
    <2>4. CASE x # t /\ y = t
      BY <1>11, <1>13, <1>19, <2>1, <2>4
    <2>5. CASE x = t /\ y = t
      BY <2>5
    <2> QED BY <2>2, <2>3, <2>4, <2>5
  <1>22. Structure'
    BY <1>1, <1>9, <1>15, <1>16, <1>17, <1>18, <1>20, <1>21 DEF Structure
  <1>23. CurrentIsComputed'
    <2>1. SUFFICES ASSUME NEW x \in Current' PROVE \E lists : ComputedFrom(x, lists)'
      BY DEF CurrentIsComputed
    <2>2. CASE x # t
      <3>1. x \in Current /\ memo'[x] = memo[x]
        BY <1>11, <1>13, <2>1, <2>2
      <3>2. PICK lists : ComputedFrom(x, lists)
        BY <1>2, <3>1 DEF CurrentIsComputed
      <3>3. ASSUME NEW y \in DOMAIN lists PROVE Agrees(x, y, lists[y])'
        <4>1. Agrees(x, y, lists[y]) /\ y \in Module
          BY <3>2 DEF ComputedFrom
        <4>2. CASE y # t
          BY <1>9, <1>11, <3>1, <4>1, <4>2 DEF Agrees
        <4>3. CASE y = t
          <5>1. t \in memo[x].heads /\ lists[t] = memo[t].value
            BY <1>4, <1>10, <4>1, <4>3 DEF Agrees
          <5> QED BY <1>9, <1>11, <3>1, <4>3, <5>1 DEF Agrees
        <4> QED BY <4>2, <4>3
      <3>4. ComputedFrom(x, lists)'
        BY <1>1, <3>1, <3>2, <3>3 DEF ComputedFrom
      <3> QED BY <3>4
    <2>3. CASE x = t
      <3>1. PICK lists : lists = stack[n].known
        OBVIOUS
      <3>2. v = ExpandedItems(program, lists, t) /\ DOMAIN lists \subseteq Module
            /\ Scope(program, lists, t) \subseteq DOMAIN lists
        BY <1>0, <1>2, <1>4, <1>5, <3>1 DEF Value, TypeOK
      <3>3. ASSUME NEW y \in DOMAIN lists PROVE Agrees(t, y, lists[y])'
        <4>1. lists[y] = memo[y].value /\ (memo[y].final \/ y \in A) /\ y \in Module
          BY <1>5, <1>10, <3>1, <3>2 DEF FrameOK
        <4>2. CASE y # t
          BY <1>11, <4>1, <4>2 DEF Agrees
        <4>3. CASE y = t
          BY <1>5, <1>9, <1>11, <4>1, <4>3 DEF Agrees
        <4> QED BY <4>2, <4>3
      <3>4. ComputedFrom(t, lists)'
        BY <1>1, <1>11, <3>2, <3>3 DEF ComputedFrom
      <3> QED BY <2>3, <3>4
    <2> QED BY <2>2, <2>3
  <1>24. \A y \in Module : memo[y].final => memo'[y].final /\ memo'[y].value = memo[y].value
    BY <1>10, <1>11
  <1>25. FinalIsFixed'
    <2>1. ASSUME NEW x \in Module, memo'[x].final
          PROVE  /\ memo'[x].value = ExpandedItems(program', Lists', x)
                 /\ \A y \in Scope(program', Lists', x) : memo'[y].final
      <3>1. memo[x].final
        BY <1>12, <2>1
      <3> QED BY <1>1, <1>2, <1>11, <1>24, <3>1, FinalStays
    <2> QED BY <1>1, <2>1 DEF FinalIsFixed
  <1>26. AskedOrFinal'
    <2>1. A \in SUBSET Module /\ (\A x \in Module : memo[x].final => memo'[x].final) /\ Len(stack) # 1
      <3>1. n # 1
        BY <1>4, <1>8
      <3> QED BY <1>0, <1>5, <1>12, <3>1
    <2> QED BY <1>1, <1>2, <1>3, <1>7, <2>1, ReturnAsked
  <1>27. BuiltIsIdle'
    BY <1>1, <1>3 DEF BuiltIsIdle
  <1> QED BY <1>14, <1>22, <1>23, <1>25, <1>26, <1>27 DEF IInv

(* Lists that a query was computed from, and that are final now.           *)
LEMMA FixedNow ==
  ASSUME NEW x \in Module, UNCHANGED program, NEW lists, DOMAIN lists \subseteq Module,
         Scope(program, lists, x) \subseteq DOMAIN lists,
         memo'[x].value = ExpandedItems(program, lists, x),
         \A y \in DOMAIN lists : memo'[y].final /\ lists[y] = memo'[y].value
  PROVE  /\ memo'[x].value = ExpandedItems(program', Lists', x)
         /\ \A y \in Scope(program', Lists', x) : memo'[y].final
  <1>1. Module' = Module /\ x \in ModulesOf(program)
    BY DEF Module
  <1>2. DOMAIN Lists' = Module /\ \A y \in Module : Lists'[y] = memo'[y].value
    BY <1>1 DEF Lists
  <1>3. /\ Scope(program, lists, x) \subseteq DOMAIN lists \cap DOMAIN Lists'
        /\ \A y \in Scope(program, lists, x) : lists[y] = Lists'[y]
    BY <1>2
  <1>4. PICK L : L = Lists'
    OBVIOUS
  <1>5. /\ Scope(program, L, x) = Scope(program, lists, x)
        /\ ExpandedItems(program, L, x) = ExpandedItems(program, lists, x)
    BY <1>1, <1>3, <1>4, ScopeIsLocal
  <1> QED BY <1>3, <1>4, <1>5

LEMMA CompleteCycleStep ==
  ASSUME IInv, CompleteCycle
  PROVE  IInv'
  <1>0. PICK n, t, v, A : n = Len(stack) /\ t = Top.module /\ v = Value /\ A = AllHeads
    OBVIOUS
  <1>1. /\ Driving /\ UNCHANGED <<program, iter, asked, earlier, outcome>> /\ Module' = Module
        /\ v = memo[t].value /\ (\A h \in A \ {t} : memo[h].converged) /\ Return(v, {})
        /\ memo' = [m \in Module |->
                      IF m = t THEN Memo(v, A, TRUE, TRUE, iter)
                      ELSE IF m \in A THEN [memo[m] EXCEPT !.final = TRUE] ELSE memo[m]]
    BY <1>0 DEF CompleteCycle, Converged, Module
  <1>2. /\ TypeOK /\ Structure /\ CurrentIsComputed /\ FinalIsFixed /\ AskedOrFinal /\ BuiltIsIdle
        /\ LeadsToRunning
    BY DEF IInv, Structure
  <1> HIDE DEF IInv
  <1>3. outcome = "running" /\ stack # <<>> /\ ReadAll /\ ~ Plain
    BY <1>1 DEF Driving, ReadAll, Active
  <1>4. /\ n \in Nat /\ DOMAIN stack = 1 .. n /\ Running = Below(n) /\ n \in DOMAIN stack /\ 1 <= n
        /\ Top = stack[n] /\ t \in Running /\ Running \subseteq Module /\ t \in Module
        /\ n = Len(stack) /\ t = Top.module /\ t = stack[n].module
        /\ \A i \in DOMAIN stack : \A j \in 1 .. i : j \in DOMAIN stack
    BY <1>0, <1>2, <1>3, Stacked
  <1>5. /\ ReadItself(n) /\ Scope(program, stack[n].known, t) \subseteq DOMAIN stack[n].known
        /\ stack[n].heads \subseteq A /\ t \in A /\ A \subseteq Module
        /\ \A x \in A \ {t} : memo[x].heads \subseteq A
    BY <1>0, <1>2, <1>3, <1>4, Collected
  <1>6. /\ A \cap Running = {t} /\ A \ {t} \subseteq Current
        /\ \A y \in Current \ A : memo[y].heads \cap A = {}
        /\ \A i \in 1 .. n - 1 : \A S \in SUBSET Current : Leads(S, Below(i)) => S \cap A = {}
    BY <1>0, <1>1, <1>2, CycleCloses
  <1>7. /\ StackOK' /\ Len(stack') = n - 1 /\ DOMAIN stack' = 1 .. n - 1
        /\ \A i \in 1 .. n - 1 : i < n - 1 => stack'[i] = stack[i]
        /\ n > 1 => HasRead(n - 1, t, v, {})
        /\ Running' = Running \ {t} /\ \A i \in 1 .. n - 1 : SameModules(i)
    <2>1. {} \in SUBSET Module /\ UNCHANGED program /\ Return(v, {})
      BY <1>1
    <2>2. /\ StackOK' /\ Len(stack') = Len(stack) - 1 /\ DOMAIN stack' = 1 .. Len(stack) - 1
          /\ \A i \in 1 .. Len(stack) - 1 : i < Len(stack) - 1 => stack'[i] = stack[i]
          /\ Len(stack) > 1 => HasRead(Len(stack) - 1, Top.module, v, {})
          /\ Running' = Running \ {Top.module} /\ \A i \in 1 .. Len(stack) - 1 : SameModules(i)
      BY ONLY <1>2, <1>3, <2>1, ReturnBelow
    <2> QED BY ONLY <1>0, <2>2
  <1>8. ~ memo[t].final /\ FrameOK(n)
    BY <1>2, <1>4 DEF Structure, FrameOK
  <1>9. /\ DOMAIN memo' = Module /\ \A x \in Module \ A : memo'[x] = memo[x]
        /\ memo'[t].value = v /\ memo'[t].stored = TRUE /\ memo'[t].heads = A /\ memo'[t].final = TRUE
        /\ memo'[t].converged = TRUE
        /\ DOMAIN memo'[t] = DOMAIN NoMemo /\ memo'[t].at = [h \in A |-> iter[h]]
    BY ONLY <1>1, <1>4, <1>5 DEF Memo, NoMemo
  <1>10. \A x \in A \ {t} :
           /\ DOMAIN memo'[x] = DOMAIN NoMemo /\ memo'[x].final = TRUE
           /\ memo'[x].stored = memo[x].stored /\ memo'[x].heads = memo[x].heads
           /\ memo'[x].at = memo[x].at /\ memo'[x].value = memo[x].value
           /\ memo'[x].converged = memo[x].converged
    <2>1. ASSUME NEW x \in A \ {t} PROVE DOMAIN memo[x] = DOMAIN NoMemo
      BY <1>2, <1>5 DEF TypeOK
    <2>2. \A x \in A \ {t} : memo'[x] = [memo[x] EXCEPT !.final = TRUE]
      BY ONLY <1>1, <1>5
    <2>3. DOMAIN NoMemo = {"value", "stored", "heads", "at", "converged", "final"}
      BY DEF NoMemo
    <2> QED BY ONLY <2>1, <2>2, <2>3, ZenonT(40)
  <1>11. /\ \A x \in A : memo'[x].final = TRUE /\ memo'[x].value = memo[x].value /\ ~ memo[x].final
         /\ \A y \in Module : memo[y].final => memo'[y].final /\ memo'[y].value = memo[y].value
    <2>1. \A x \in A : ~ memo[x].final
      BY <1>6, <1>8 DEF Current
    <2> QED BY <1>1, <1>9, <1>10, <2>1
  <1>12. Current' = Current \ A /\ t \notin Current /\ Current \subseteq Module
    <2>1. \A x \in Module \ A : AtCounts(x)' = AtCounts(x)
      <3>1. iter' = iter
        BY <1>1
      <3> QED BY ONLY <1>9, <3>1 DEF AtCounts
    <2>2. t \notin Current /\ Current \subseteq Module
      BY <1>4 DEF Current
    <2>3. ASSUME NEW x \in Module PROVE x \in Current' <=> x \in Current \ A
      <3>1. CASE x \in A
        BY <1>11, <3>1 DEF Current
      <3>2. CASE x \notin A
        BY <1>1, <1>5, <1>7, <1>9, <2>1, <3>2 DEF Current
      <3> QED BY <3>1, <3>2
    <2>4. Current' \subseteq Module
      BY <1>1 DEF Current
    <2> QED BY ONLY <2>2, <2>3, <2>4
  <1>13. \A x \in Current' : /\ x \in Current /\ memo'[x] = memo[x] /\ memo[x].heads \cap A = {}
                             /\ x \in memo[x].heads /\ memo[x].heads \subseteq Module
    <2>1. ASSUME NEW x \in Current PROVE x \in memo[x].heads
      BY <1>2, CurrentHolds
    <2> QED BY <1>2, <1>6, <1>9, <1>12, <2>1 DEF TypeOK
  <1>14. TypeOK'
    <2>1. ASSUME NEW x \in Module
          PROVE  /\ DOMAIN memo'[x] = DOMAIN NoMemo
                 /\ {memo'[x].stored, memo'[x].converged, memo'[x].final} \subseteq BOOLEAN
                 /\ memo'[x].heads \subseteq Module /\ memo'[x].at \in [memo'[x].heads -> Nat]
      <3>1. CASE x = t
        <4>1. \A h \in A : iter[h] \in Nat
          BY <1>2, <1>5, LimitsAreCounts DEF TypeOK
        <4> QED BY ONLY <1>5, <1>9, <3>1, <4>1, ZenonT(40)
      <3>2. CASE x \notin A
        BY <1>2, <1>9, <3>2 DEF TypeOK
      <3>3. CASE x \in A \ {t}
        <4>1. /\ {memo[x].stored, memo[x].converged} \subseteq BOOLEAN
              /\ memo[x].heads \subseteq Module /\ memo[x].at \in [memo[x].heads -> Nat]
          BY <1>2 DEF TypeOK
        <4> QED BY ONLY <1>10, <3>3, <4>1
      <3> QED BY <3>1, <3>2, <3>3
    <2>2. /\ IsFiniteSet(Module) /\ asked' \in Seq(Module) /\ outcome' \in {"running", "built", "panic"}
          /\ iter' \in [Module -> 0 .. MaxIterations]
      BY <1>1, <1>2 DEF TypeOK
    <2> QED BY ONLY <1>1, <1>7, <1>9, <2>1, <2>2, ZenonT(40) DEF TypeOK, StackOK
  <1>15. \A x \in Module : MemoOK(x)'
    <2>1. ASSUME NEW x \in Module \ A PROVE MemoOK(x)'
      BY <1>1, <1>2, <1>9 DEF MemoOK, Structure
    <2>2. MemoOK(t)'
      <3>1. \A h \in A : iter[h] \in Nat
        BY <1>2, <1>5, LimitsAreCounts DEF TypeOK
      <3>2. iter' = iter
        BY <1>1
      <3>3. \A h \in A : memo'[t].at[h] = iter'[h] /\ iter'[h] <= iter'[h]
        BY ONLY <1>9, <3>1, <3>2
      <3> QED BY ONLY <1>9, <3>3 DEF MemoOK
    <2>3. ASSUME NEW x \in A \ {t} PROVE MemoOK(x)'
      <3>1. MemoOK(x) /\ memo[x].stored
        BY <1>2, <1>5, <1>6 DEF Structure, Current
      <3> QED BY ONLY <1>1, <1>10, <2>3, <3>1, ZenonT(40) DEF MemoOK
    <2> QED BY <2>1, <2>2, <2>3
  <1>16. ASSUME NEW i \in 1 .. n - 1
         PROVE  FrameOK(i)' /\ Grounded(i)'
    <2>1. i \in DOMAIN stack /\ i # n /\ SameModules(i) /\ i \in Nat
      BY <1>4, <1>7, Positions
    <2>2. Below(i) \cap A = {}
      <3>1. i \in 1 .. Len(stack) - 1
        BY <1>0
      <3>2. Top.module \notin Below(i) /\ Below(i) \subseteq Running
        BY ONLY <1>2, <1>3, <3>1, FramesBelow
      <3> QED BY <1>0, <1>6, <3>2
    <2>3. \A S \in SUBSET Current : Leads(S, Below(i)) => S \cap A = {}
      BY <1>6
    <2>4. \/ stack'[i] = stack[i]
          \/ HasRead(i, t, memo'[t].value, {}) /\ memo'[t].final
      <3>1. CASE i < n - 1
        BY <1>7, <3>1
      <3>2. CASE i = n - 1
        <4>1. n > 1
          BY <1>4, <3>2
        <4> QED BY <1>7, <1>9, <3>2, <4>1
      <3>3. i < n - 1 \/ i = n - 1
        <4>1. n \in Nat
          BY <1>4
        <4> QED BY ONLY <4>1, LastOrNot
      <3> QED BY <3>1, <3>2, <3>3
    <2>5. /\ \A x \in Module \ A : memo'[x] = memo[x] /\ iter'[x] = iter[x]
          /\ \A x \in Module \cap A : ~ memo[x].final
          /\ Current \ A \subseteq Current'
      BY <1>1, <1>9, <1>11, <1>12
    <2>6. UNCHANGED program /\ DOMAIN memo' = Module /\ t \in Module /\ i # Len(stack)
      BY <1>1, <1>4, <1>9, <2>1
    <2> QED BY ONLY <1>2, <2>1, <2>2, <2>3, <2>4, <2>5, <2>6, BelowKept
  <1>17. LeadsToRunning'
    BY <1>2, <1>5, <1>7, <1>12, <1>13 DEF LeadsToRunning, Leads
  <1>18. HeadsAreKept'
    <2>1. SUFFICES ASSUME NEW x \in Current', NEW j \in 1 .. n - 1, stack'[j].module \in memo'[x].heads
                   PROVE  \E i \in j .. n - 1 : memo'[x].heads \subseteq stack'[i].heads
      BY <1>7 DEF HeadsAreKept
    <2>2. /\ stack[j].module \in memo[x].heads /\ memo'[x] = memo[x] /\ j \in DOMAIN stack
          /\ x \in Current /\ x \in memo[x].heads /\ memo[x].heads \cap A = {}
      BY <1>4, <1>7, <1>13, <2>1, Positions DEF SameModules
    <2>3. PICK i \in j .. n : memo[x].heads \subseteq stack[i].heads
      BY <1>2, <1>4, <2>2 DEF Structure, HeadsAreKept
    <2>4. i # n
      BY <1>5, <2>2, <2>3
    <2>5. i \in j .. n - 1 /\ i \in 1 .. n - 1 /\ (i < n - 1 \/ (i = n - 1 /\ n > 1))
      <3>1. n \in Nat
        BY <1>4
      <3>2. j \in 1 .. n
        BY ONLY <3>1, LastOrNot
      <3> QED BY ONLY <2>3, <2>4, <3>1, <3>2, Between
    <2>6. stack[i].heads \subseteq stack'[i].heads
      BY <1>7, <2>5 DEF HasRead
    <2> QED BY <2>2, <2>3, <2>5, <2>6
  <1>19. Structure'
    <2>1. NotAlone' /\ Comparable'
      BY <1>2, <1>13, <1>12, FewerCurrent
    <2> QED BY <1>1, <1>7, <1>15, <1>16, <1>17, <1>18, <2>1 DEF Structure
  <1>20. CurrentIsComputed'
    <2>1. ASSUME NEW x \in Current', NEW y \in memo[x].heads
          PROVE  /\ memo'[y].value = memo[y].value
                 /\ y \in Running' \/ memo'[y].converged => y \in Running \/ memo[y].converged
      <3>1. y \in Module \ A
        BY <1>13
      <3> QED BY <1>7, <1>9, <3>1
    <2>2. DOMAIN memo = Module
      BY <1>2 DEF TypeOK
    <2> QED BY <1>1, <1>2, <1>11, <1>12, <1>13, <2>1, <2>2, StillComputed
  (* Every member was computed from the values the members have now.       *)
  <1>21. FinalIsFixed'
    <2>1. ASSUME NEW x \in Module, memo'[x].final
          PROVE  /\ memo'[x].value = ExpandedItems(program', Lists', x)
                 /\ \A y \in Scope(program', Lists', x) : memo'[y].final
      <3>1. CASE x \notin A
        <4>1. memo[x].final
          BY <1>9, <2>1, <3>1
        <4> QED BY <1>1, <1>2, <1>9, <1>11, <4>1, FinalStays
      <3>2. CASE x \in A \ {t}
        <4>1. PICK lists : ComputedFrom(x, lists)
          BY <1>2, <1>6, <3>2 DEF CurrentIsComputed
        <4>2. ASSUME NEW y \in DOMAIN lists PROVE memo'[y].final /\ lists[y] = memo'[y].value
          <5>1. Agrees(x, y, lists[y]) /\ y \in Module
            BY <4>1 DEF ComputedFrom
          <5>2. CASE memo[y].final
            <6>1. y \notin A
              BY <1>11, <5>2
            <6>2. y \notin memo[x].heads
              BY <1>5, <3>2, <6>1
            <6> QED BY ONLY <1>11, <5>1, <5>2, <6>2 DEF Agrees
          <5>3. CASE ~ memo[y].final
            <6>1. y \in A /\ (y \in Running \/ memo[y].converged => lists[y] = memo[y].value)
              BY <1>5, <3>2, <5>1, <5>3 DEF Agrees
            <6>2. y \in Running \/ memo[y].converged
              BY <1>1, <1>4, <6>1
            <6> QED BY <1>11, <6>1, <6>2
          <5> QED BY <5>2, <5>3
        <4>3. /\ DOMAIN lists \subseteq Module /\ Scope(program, lists, x) \subseteq DOMAIN lists
              /\ memo'[x].value = ExpandedItems(program, lists, x)
          BY <1>11, <3>2, <4>1 DEF ComputedFrom
        <4>4. UNCHANGED program /\ x \in Module
          BY <1>1
        <4> QED BY ONLY <4>2, <4>3, <4>4, FixedNow
      <3>3. CASE x = t
        <4>1. PICK lists : lists = stack[n].known
          OBVIOUS
        <4>2. /\ memo'[t].value = ExpandedItems(program, lists, t) /\ DOMAIN lists \subseteq Module
              /\ Scope(program, lists, t) \subseteq DOMAIN lists
          BY <1>0, <1>2, <1>4, <1>5, <1>9, <4>1 DEF Value, TypeOK
        <4>3. ASSUME NEW y \in DOMAIN lists PROVE memo'[y].final /\ lists[y] = memo'[y].value
          <5>1. lists[y] = memo[y].value /\ (memo[y].final \/ y \in A) /\ y \in Module
            BY <1>5, <1>8, <4>1, <4>2 DEF FrameOK
          <5> QED BY <1>11, <5>1
        <4>4. UNCHANGED program /\ t \in Module
          BY <1>1, <1>4
        <4> QED BY ONLY <3>3, <4>2, <4>3, <4>4, FixedNow
      <3> QED BY <3>1, <3>2, <3>3
    <2> QED BY <1>1, <2>1 DEF FinalIsFixed
  <1>22. AskedOrFinal'
    <2>1. {} \in SUBSET Module /\ (\A x \in Module : memo[x].final => memo'[x].final) /\ memo'[t].final
      BY <1>9, <1>11
    <2> QED BY <1>1, <1>2, <1>3, <1>4, <2>1, ReturnAsked
  <1>23. BuiltIsIdle'
    BY <1>1, <1>3 DEF BuiltIsIdle
  <1> QED BY <1>14, <1>19, <1>20, <1>21, <1>22, <1>23 DEF IInv

-----------------------------------------------------------------------------
(* Another turn of a cycle, and the end of a build. *)

LEMMA IterateStep ==
  ASSUME IInv, Iterate
  PROVE  IInv'
  <1>0. PICK n, t, v, A, L : n = Len(stack) /\ t = Top.module /\ v = Value /\ A = AllHeads
                             /\ L = LatestCount
    OBVIOUS
  <1>1. /\ Driving /\ UNCHANGED <<program, asked, earlier, outcome>> /\ Module' = Module
        /\ L < MaxIterations /\ iter' = [m \in Module |-> IF m \in A THEN L + 1 ELSE iter[m]]
        /\ memo' = [memo EXCEPT ![t] = Memo(v, A, FALSE, FALSE, iter')]
    BY <1>0 DEF Iterate, Module
  <1>2. /\ TypeOK /\ Structure /\ CurrentIsComputed /\ FinalIsFixed /\ AskedOrFinal /\ BuiltIsIdle
        /\ LeadsToRunning
    BY DEF IInv, Structure
  <1> HIDE DEF IInv
  <1>3. outcome = "running" /\ stack # <<>> /\ ReadAll /\ ~ Plain
    BY <1>1 DEF Driving, ReadAll, Active
  <1>4. /\ n \in Nat /\ DOMAIN stack = 1 .. n /\ Running = Below(n) /\ n \in DOMAIN stack /\ 1 <= n
        /\ Top = stack[n] /\ t \in Running /\ Running \subseteq Module /\ t \in Module
        /\ n = Len(stack) /\ t = Top.module /\ t = stack[n].module
        /\ \A i \in DOMAIN stack : \A j \in 1 .. i : j \in DOMAIN stack
    BY <1>0, <1>2, <1>3, Stacked
  <1>5. stack[n].heads \subseteq A /\ t \in A /\ A \subseteq Module
    BY <1>0, <1>2, <1>3, <1>4, Collected
  <1>6. /\ A \cap Running = {t} /\ A \ {t} \subseteq Current
        /\ \A y \in Current \ A : memo[y].heads \cap A = {}
        /\ \A i \in 1 .. n - 1 : \A S \in SUBSET Current : Leads(S, Below(i)) => S \cap A = {}
    BY <1>0, <1>1, <1>2, CycleCloses
  <1>7. /\ StackOK' /\ Len(stack') = n /\ DOMAIN stack' = DOMAIN stack
        /\ \A i \in 1 .. n - 1 : stack'[i] = stack[i]
        /\ DOMAIN stack'[n].known = {} /\ stack'[n].heads = {}
        /\ Running' = Running /\ \A i \in DOMAIN stack : SameModules(i)
    <2>1. stack' = [stack EXCEPT ![Len(stack)] = Frame(Top.module)]
      BY DEF Iterate
    <2>2. UNCHANGED program
      BY <1>1
    <2> QED BY ONLY <1>0, <1>2, <1>3, <2>1, <2>2, StartAgain
  (* The new count is above the counts the members had. *)
  <1>8. /\ L \in Nat /\ L + 1 \in 0 .. MaxIterations
        /\ \A h \in A : iter[h] \in Nat /\ iter[h] <= L /\ iter'[h] = L + 1
        /\ \A h \in Module : iter[h] \in 0 .. MaxIterations /\ iter[h] \in Nat
        /\ \A h \in Module \ A : iter'[h] = iter[h]
    <2>1. MaxIterations \in Nat /\ \A h \in Module : iter[h] \in 0 .. MaxIterations /\ iter[h] \in Nat
      BY <1>2, LimitsAreCounts DEF TypeOK
    <2>2. PICK S : S = {iter[h] : h \in A}
      OBVIOUS
    <2>3. S \in SUBSET (0 .. MaxIterations) /\ S # {} /\ \A h \in A : iter[h] \in S
      BY <1>5, <2>1, <2>2
    <2>4. L = Max(S)
      BY <1>0, <2>2 DEF LatestCount
    <2>5. L \in S /\ \A k \in S : k <= L
      BY ONLY <2>1, <2>3, <2>4, GreatestNumber
    <2>6. L \in 0 .. MaxIterations
      BY <2>3, <2>5
    <2> QED BY ONLY <1>1, <1>5, <2>1, <2>3, <2>5, <2>6
  <1>9. \A h \in Module : iter[h] <= iter'[h] /\ iter'[h] \in 0 .. MaxIterations /\ iter'[h] \in Nat
    <2>1. ASSUME NEW h \in Module
          PROVE  iter[h] <= iter'[h] /\ iter'[h] \in 0 .. MaxIterations /\ iter'[h] \in Nat
      <3>1. CASE h \in A
        BY ONLY <1>8, <3>1
      <3>2. CASE h \notin A
        BY ONLY <1>8, <2>1, <3>2
      <3> QED BY <3>1, <3>2
    <2> QED BY <2>1
  <1>10. /\ DOMAIN memo' = Module /\ \A x \in Module \ {t} : memo'[x] = memo[x]
         /\ memo'[t].stored = TRUE /\ memo'[t].heads = A /\ memo'[t].final = FALSE
         /\ memo'[t].converged = FALSE
         /\ DOMAIN memo'[t] = DOMAIN NoMemo /\ memo'[t].at = [h \in A |-> iter'[h]]
    <2>1. DOMAIN memo = Module
      BY <1>2 DEF TypeOK
    <2> QED BY ONLY <1>1, <1>4, <2>1 DEF Memo, NoMemo
  <1>11. ~ memo[t].final /\ \A x \in A : ~ memo[x].final
    <2>1. ~ memo[t].final
      BY <1>2, <1>4 DEF Structure, FrameOK
    <2> QED BY <1>6, <2>1 DEF Current
  <1>12. \A y \in Module : memo'[y].final = memo[y].final
    <2>1. memo[t].final = FALSE
      BY <1>2, <1>4, <1>11 DEF TypeOK
    <2> QED BY <1>10, <2>1
  <1>13. \A x \in Module : /\ memo[x].heads \subseteq Module
                           /\ \A h \in memo[x].heads : memo[x].at[h] \in Nat /\ memo[x].at[h] <= iter[h]
    <2>1. ASSUME NEW x \in Module, NEW h \in memo[x].heads
          PROVE  memo[x].at[h] \in Nat /\ memo[x].at[h] <= iter[h]
      BY <1>2 DEF TypeOK, Structure, MemoOK
    <2> QED BY <1>2, <2>1 DEF TypeOK
  <1>14. Current' = Current \ A /\ t \notin Current /\ Current \subseteq Module
    <2>1. t \notin Current /\ Current \subseteq Module
      BY <1>4 DEF Current
    <2>2. ASSUME NEW x \in Current \ A PROVE x \in Current'
      <3>1. x \in Module \ {t} /\ memo[x].heads \subseteq Module \ A
        BY <1>5, <1>6, <1>13, <2>1, <2>2
      <3>2. AtCounts(x)'
        BY <1>8, <1>10, <2>2, <3>1 DEF AtCounts, Current
      <3> QED BY <1>1, <1>7, <1>10, <2>2, <3>1, <3>2 DEF Current
    <2>3. ASSUME NEW x \in Current' PROVE x \in Current \ A
      <3>1. /\ x \in Module \ {t} /\ x \notin Running /\ memo[x].stored /\ ~ memo[x].final
            /\ \A h \in memo[x].heads : memo[x].at[h] = iter'[h]
        BY <1>1, <1>4, <1>7, <1>10, <2>3, ZenonT(40) DEF Current, AtCounts
      <3>2. \A h \in memo[x].heads : memo[x].at[h] = iter[h]
        <4>1. ASSUME NEW h \in memo[x].heads PROVE memo[x].at[h] = iter[h]
          <5>1. memo[x].at[h] \in Nat /\ memo[x].at[h] <= iter[h] /\ memo[x].at[h] = iter'[h]
                /\ iter[h] <= iter'[h] /\ iter[h] \in Nat
            BY <1>8, <1>9, <1>13, <3>1
          <5> QED BY ONLY <5>1
        <4> QED BY <4>1
      <3>3. x \in Current
        BY <3>1, <3>2 DEF Current, AtCounts
      <3>4. x \notin A
        <4>1. SUFFICES ASSUME x \in A PROVE FALSE
          OBVIOUS
        <4>2. x \in memo[x].heads
          BY <1>2, <3>3, CurrentHolds
        <4>3. iter[x] = iter'[x]
          BY <3>1, <3>2, <4>2
        <4> QED BY ONLY <1>8, <4>1, <4>3
      <3> QED BY <3>3, <3>4
    <2> QED BY ONLY <2>1, <2>2, <2>3
  <1>15. \A x \in Current' : /\ x \in Current /\ memo'[x] = memo[x] /\ memo[x].heads \cap A = {}
                             /\ x \in memo[x].heads /\ memo[x].heads \subseteq Module
    <2>1. ASSUME NEW x \in Current PROVE x \in memo[x].heads
      BY <1>2, CurrentHolds
    <2> QED BY <1>2, <1>6, <1>10, <1>14, <2>1 DEF TypeOK
  <1>16. TypeOK'
    <2>1. ASSUME NEW x \in Module
          PROVE  /\ DOMAIN memo'[x] = DOMAIN NoMemo
                 /\ {memo'[x].stored, memo'[x].converged, memo'[x].final} \subseteq BOOLEAN
                 /\ memo'[x].heads \subseteq Module /\ memo'[x].at \in [memo'[x].heads -> Nat]
      <3>1. CASE x = t
        <4>1. \A h \in A : iter'[h] \in Nat
          BY <1>5, <1>9
        <4> QED BY ONLY <1>5, <1>10, <3>1, <4>1
      <3>2. CASE x # t
        BY <1>2, <1>10, <3>2 DEF TypeOK
      <3> QED BY <3>1, <3>2
    <2>2. IsFiniteSet(Module) /\ asked' \in Seq(Module) /\ outcome' \in {"running", "built", "panic"}
      BY <1>1, <1>2 DEF TypeOK
    <2>3. iter' \in [Module -> 0 .. MaxIterations]
      <3>1. DOMAIN iter' = Module /\ iter' = [m \in Module |-> iter'[m]]
        BY <1>1
      <3> QED BY ONLY <1>9, <3>1
    <2> QED BY ONLY <1>1, <1>7, <1>10, <2>1, <2>2, <2>3, ZenonT(40) DEF TypeOK, StackOK
  <1>17. \A x \in Module : MemoOK(x)'
    <2>1. ASSUME NEW x \in Module \ {t} PROVE MemoOK(x)'
      <3>1. MemoOK(x) /\ memo'[x] = memo[x]
        BY <1>2, <1>10 DEF Structure
      <3>2. ASSUME NEW h \in memo[x].heads PROVE memo[x].at[h] <= iter'[h]
        <4>1. /\ memo[x].at[h] \in Nat /\ memo[x].at[h] <= iter[h] /\ iter[h] <= iter'[h]
              /\ iter[h] \in Nat /\ iter'[h] \in Nat
          BY <1>8, <1>9, <1>13
        <4> QED BY ONLY <4>1
      <3> QED BY <3>1, <3>2 DEF MemoOK
    <2>2. MemoOK(t)'
      <3>1. \A h \in A : iter'[h] \in Nat
        BY <1>5, <1>9
      <3> QED BY <1>5, <1>10, <3>1 DEF MemoOK
    <2> QED BY <2>1, <2>2
  <1>18. ASSUME NEW i \in 1 .. n - 1
         PROVE  FrameOK(i)' /\ Grounded(i)'
    <2>1. i \in DOMAIN stack /\ i # n /\ SameModules(i) /\ i \in Nat /\ stack'[i] = stack[i]
      BY <1>4, <1>7, Positions
    <2>2. Below(i) \cap A = {}
      <3>1. i \in 1 .. Len(stack) - 1
        BY <1>0
      <3>2. Top.module \notin Below(i) /\ Below(i) \subseteq Running
        BY ONLY <1>2, <1>3, <3>1, FramesBelow
      <3> QED BY <1>0, <1>6, <3>2
    <2>3. \A S \in SUBSET Current : Leads(S, Below(i)) => S \cap A = {}
      BY <1>6
    <2>4. /\ \A x \in Module \ A : memo'[x] = memo[x] /\ iter'[x] = iter[x]
          /\ \A x \in Module \cap A : ~ memo[x].final
          /\ Current \ A \subseteq Current'
      BY <1>5, <1>8, <1>10, <1>11, <1>14
    <2>5. UNCHANGED program /\ DOMAIN memo' = Module /\ t \in Module /\ i # Len(stack)
      BY <1>1, <1>4, <1>10, <2>1
    <2> QED BY ONLY <1>2, <2>1, <2>2, <2>3, <2>4, <2>5, BelowKept
  <1>19. FrameOK(n)' /\ Grounded(n)'
    <2>1. Fresh(n)'
      BY <1>4, <1>7 DEF Fresh
    <2>2. stack'[n].module = t
      BY <1>4, <1>7 DEF SameModules
    <2>3. FrameOK(n)'
      BY ONLY <1>7, <1>10, <2>1, <2>2 DEF FrameOK
    <2>4. {} \in SUBSET Current' /\ Leads({}, Below(n))' /\ stack'[n].heads \subseteq Below(n)'
      BY ONLY <1>7 DEF Leads
    <2> QED BY ONLY <2>3, <2>4 DEF Grounded
  <1>20. LeadsToRunning'
    BY <1>2, <1>5, <1>7, <1>14, <1>15 DEF LeadsToRunning, Leads
  <1>21. HeadsAreKept'
    <2>1. SUFFICES ASSUME NEW x \in Current', NEW j \in 1 .. n, stack'[j].module \in memo'[x].heads
                   PROVE  \E i \in j .. n : memo'[x].heads \subseteq stack'[i].heads
      BY <1>4, <1>7 DEF HeadsAreKept
    <2>2. /\ stack[j].module \in memo[x].heads /\ memo'[x] = memo[x] /\ j \in DOMAIN stack
          /\ x \in Current /\ x \in memo[x].heads /\ memo[x].heads \cap A = {}
      BY <1>4, <1>7, <1>15, <2>1 DEF SameModules
    <2>3. PICK i \in j .. n : memo[x].heads \subseteq stack[i].heads
      BY <1>2, <1>4, <2>2 DEF Structure, HeadsAreKept
    <2>4. i # n
      BY <1>5, <2>2, <2>3
    <2>5. i \in 1 .. n - 1
      <3>1. n \in Nat
        BY <1>4
      <3> QED BY ONLY <2>3, <2>4, <3>1, Between
    <2> QED BY <1>7, <2>2, <2>3, <2>5
  <1>22. Structure'
    <2>1. NotAlone' /\ Comparable'
      BY <1>2, <1>14, <1>15, FewerCurrent
    <2>2. ASSUME NEW i \in DOMAIN stack' PROVE FrameOK(i)' /\ Grounded(i)'
      BY <1>4, <1>7, <1>18, <1>19, Positions
    <2> QED BY <1>1, <1>17, <1>20, <1>21, <2>1, <2>2 DEF Structure
  <1>23. \A y \in Module : memo[y].final => memo'[y].final /\ memo'[y].value = memo[y].value
    BY <1>10, <1>11
  <1>24. CurrentIsComputed'
    <2>1. ASSUME NEW x \in Current', NEW y \in memo[x].heads
          PROVE  /\ memo'[y].value = memo[y].value
                 /\ y \in Running' \/ memo'[y].converged => y \in Running \/ memo[y].converged
      <3>1. y \in Module \ {t}
        BY <1>5, <1>15
      <3> QED BY <1>7, <1>10, <3>1
    <2>2. DOMAIN memo = Module
      BY <1>2 DEF TypeOK
    <2> QED BY <1>1, <1>2, <1>14, <1>15, <1>23, <2>1, <2>2, StillComputed
  <1>25. FinalIsFixed'
    <2>1. ASSUME NEW x \in Module, memo'[x].final
          PROVE  /\ memo'[x].value = ExpandedItems(program', Lists', x)
                 /\ \A y \in Scope(program', Lists', x) : memo'[y].final
      <3>1. memo[x].final
        BY <1>12, <2>1
      <3> QED BY <1>1, <1>2, <1>10, <1>23, <3>1, FinalStays
    <2> QED BY <1>1, <2>1 DEF FinalIsFixed
  <1>26. AskedOrFinal'
    <2>1. stack' # <<>> /\ stack'[1].module = stack[1].module
      BY <1>3, <1>4, <1>7, <1>16, Stacked, Positions DEF SameModules
    <2> QED BY <1>1, <1>2, <1>12, <2>1 DEF AskedOrFinal
  <1>27. BuiltIsIdle'
    BY <1>1, <1>3 DEF BuiltIsIdle
  <1> QED BY <1>16, <1>22, <1>24, <1>25, <1>26, <1>27 DEF IInv

LEMMA OrdersAskAll ==
  ASSUME IsFiniteSet(Module), NEW order \in Orders
  PROVE  order \in Seq(Module) /\ Module \subseteq ToSet(order)
  <1>1. Cardinality(Module) \in Nat
    BY FS_CardinalityType
  <1>2. order \in [1 .. Cardinality(Module) -> Module] /\ \A m \in Module : m \in ToSet(order)
    BY DEF Orders
  <1> QED BY <1>1, <1>2, SeqDef

(* A build starts with no memo, and asks for every module. *)
Cold ==
  /\ IsFiniteSet(Module) /\ memo = [m \in Module |-> NoMemo] /\ iter = [m \in Module |-> 0]
  /\ stack = <<>> /\ asked \in Orders /\ outcome = "running"

LEMMA ColdStart == Cold => IInv
  <1> SUFFICES ASSUME Cold PROVE IInv
    OBVIOUS
  <1>1. /\ IsFiniteSet(Module) /\ stack = <<>> /\ asked \in Orders /\ outcome = "running"
        /\ memo = [m \in Module |-> NoMemo] /\ iter = [m \in Module |-> 0]
    BY DEF Cold
  <1>2. /\ DOMAIN memo = Module
        /\ \A m \in Module : /\ DOMAIN memo[m] = DOMAIN NoMemo /\ memo[m].stored = FALSE
                             /\ memo[m].converged = FALSE /\ memo[m].final = FALSE
                             /\ memo[m].heads = {} /\ memo[m].at = <<>>
    BY <1>1 DEF NoMemo
  <1>3. DOMAIN stack = {} /\ stack \in Seq(ToSet(stack)) /\ Len(stack) = 0
    <2>1. stack \in Seq({}) /\ Len(stack) = 0
      BY <1>1, EmptySeq
    <2> QED BY <1>1, <2>1, SeqOfToSet
  <1>4. asked \in Seq(Module) /\ Module \subseteq ToSet(asked)
    BY <1>1, OrdersAskAll
  <1>5. TypeOK
    <2>1. \A m \in Module : memo[m].at \in [memo[m].heads -> Nat]
      <3>1. DOMAIN <<>> = {} /\ <<>> \in [{} -> Nat]
        <4>1. <<>> \in Seq(Nat) /\ Len(<<>>) = 0
          BY EmptySeq
        <4>2. <<>> \in [1 .. 0 -> Nat] /\ 1 .. 0 = {}
          BY <4>1, LenProperties
        <4> QED BY <4>2
      <3> QED BY <1>2, <3>1
    <2>2. iter \in [Module -> 0 .. MaxIterations]
      BY <1>1, LimitsAreCounts
    <2> QED BY ONLY <1>1, <1>2, <1>3, <1>4, <2>1, <2>2 DEF TypeOK
  <1>6. Current = {}
    BY <1>2 DEF Current
  <1>7. Structure
    BY ONLY <1>2, <1>3, <1>6
       DEF Structure, MemoOK, LeadsToRunning, NotAlone, HeadsAreKept, Comparable, Leads
  <1>8. CurrentIsComputed /\ FinalIsFixed /\ AskedOrFinal /\ BuiltIsIdle
    BY ONLY <1>1, <1>2, <1>4, <1>6 DEF CurrentIsComputed, FinalIsFixed, AskedOrFinal, BuiltIsIdle
  <1> QED BY <1>5, <1>7, <1>8 DEF IInv

LEMMA ColdRestart == Cold' => IInv'
  BY ColdStart, PTL

LEMMA RebuildStep ==
  ASSUME IInv, Rebuild
  PROVE  IInv'
  <1>1. Module' = Module /\ Orders' = Orders
    BY DEF Rebuild, Module, Orders
  <1>2. IsFiniteSet(Module) /\ stack = <<>>
    BY DEF IInv, TypeOK, BuiltIsIdle, Rebuild
  <1>3. Cold'
    BY <1>1, <1>2 DEF Cold, Rebuild
  <1> QED BY <1>3, ColdRestart

LEMMA Unmoved ==
  ASSUME IInv, UNCHANGED <<program, memo, iter, stack, asked>>
  PROVE  /\ TypeOK' <=> outcome' \in {"running", "built", "panic"}
         /\ Structure' /\ CurrentIsComputed' /\ FinalIsFixed' /\ AskedOrFinal'
  <1>1. UNCHANGED <<program, memo, iter, stack, asked>> /\ Module' = Module
    BY DEF Module
  <1>2. TypeOK /\ Structure /\ CurrentIsComputed /\ FinalIsFixed /\ AskedOrFinal
    BY DEF IInv
  <1>3. \A x \in Module : AtCounts(x)' = AtCounts(x)
    BY <1>1 DEF AtCounts
  <1>4. Running' = Running /\ Current' = Current /\ \A i \in DOMAIN stack : Below(i)' = Below(i)
    BY <1>1, <1>3 DEF Running, Current, Below
  <1>5. TypeOK' <=> outcome' \in {"running", "built", "panic"}
    BY ONLY <1>1, <1>2 DEF TypeOK
  <1>6. ASSUME NEW i \in DOMAIN stack' PROVE FrameOK(i)' /\ Grounded(i)'
    <2>1. i \in DOMAIN stack /\ FrameOK(i) /\ Grounded(i) /\ stack[i].module \in Module
      BY <1>1, <1>2, <1>6 DEF Structure, TypeOK
    <2>2. (Fresh(i) => Fresh(i)') /\ (ReadItself(i) => ReadItself(i)')
      BY ONLY <1>1, <1>3, <2>1 DEF Fresh, ReadItself
    <2>3. FrameOK(i)'
      BY ONLY <1>1, <1>4, <2>1, <2>2 DEF FrameOK
    <2>4. Grounded(i)'
      BY ONLY <1>1, <1>4, <2>1 DEF Grounded, Leads
    <2> QED BY <2>3, <2>4
  <1>7. LeadsToRunning' /\ HeadsAreKept' /\ NotAlone' /\ Comparable'
    BY ONLY <1>1, <1>2, <1>4
       DEF Structure, LeadsToRunning, HeadsAreKept, NotAlone, Comparable, Leads
  <1>8. \A m \in Module : MemoOK(m)'
    BY ONLY <1>1, <1>2 DEF Structure, MemoOK
  <1>9. Structure'
    BY ONLY <1>1, <1>6, <1>7, <1>8 DEF Structure
  <1>10. CurrentIsComputed'
    BY <1>1, <1>2, <1>4, StillComputed DEF TypeOK
  <1>11. FinalIsFixed' /\ AskedOrFinal'
    BY ONLY <1>1, <1>2 DEF FinalIsFixed, AskedOrFinal, Lists
  <1> QED BY <1>5, <1>9, <1>10, <1>11

-----------------------------------------------------------------------------
(* The theorems. *)

LEMMA Inductive == IInv /\ [Next]_vars => IInv'
  <1> SUFFICES ASSUME IInv, [Next]_vars PROVE IInv'
    OBVIOUS
  <1>1. CASE Ask
    BY <1>1, AskStep
  <1>2. CASE ReadCycle
    BY <1>2, ReadCycleStep
  <1>3. CASE ReadMemo
    BY <1>3, ReadMemoStep
  <1>4. CASE Execute
    BY <1>4, ExecuteStep
  <1>5. CASE CompletePlain
    BY <1>5, CompletePlainStep
  <1>6. CASE CompleteInside
    BY <1>6, CompleteInsideStep
  <1>7. CASE CompleteCycle
    BY <1>7, CompleteCycleStep
  <1>8. CASE Iterate
    BY <1>8, IterateStep
  <1>9. CASE TooManyIterations
    <2>1. UNCHANGED <<program, memo, iter, stack, asked>> /\ outcome' = "panic"
      BY <1>9 DEF TooManyIterations
    <2>2. BuiltIsIdle'
      BY <2>1 DEF BuiltIsIdle
    <2> QED BY <2>1, <2>2, Unmoved DEF IInv
  <1>10. CASE Built
    <2>1. /\ UNCHANGED <<program, memo, iter, stack, asked>> /\ outcome' = "built"
          /\ stack = <<>> /\ asked = <<>>
      BY <1>10 DEF Built
    <2>2. BuiltIsIdle'
      BY <2>1 DEF BuiltIsIdle
    <2> QED BY <2>1, <2>2, Unmoved DEF IInv
  <1>11. CASE Rebuild
    BY <1>11, RebuildStep
  <1>12. CASE UNCHANGED vars
    <2>1. UNCHANGED <<program, memo, iter, stack, asked, outcome>>
      BY <1>12 DEF vars
    <2>2. BuiltIsIdle' /\ outcome' \in {"running", "built", "panic"}
      BY <2>1 DEF IInv, BuiltIsIdle, TypeOK
    <2> QED BY <2>1, <2>2, Unmoved DEF IInv
  <1> QED
    BY <1>1, <1>2, <1>3, <1>4, <1>5, <1>6, <1>7, <1>8, <1>9, <1>10, <1>11, <1>12 DEF Next

LEMMA Starts == Init => IInv
  <1> SUFFICES ASSUME Init PROVE IInv
    OBVIOUS
  <1>1. IsFiniteSet(Module)
    BY CratesAreFinite DEF Init, Module, ModulesOf
  <1>2. Cold
    BY <1>1 DEF Init, Cold
  <1> QED BY <1>2, ColdStart

LEMMA Invariance == Spec => []IInv
  BY Starts, Inductive, PTL DEF Spec

(* SettledTogether, for every crate of finitely many modules, every order  *)
(* in which they are asked for and every limit: when a build is done each  *)
(* memo is final, and each list is the expansion of its module against all *)
(* the others as they are then.                                            *)
THEOREM BuildsSettleTogether == Spec => []SettledTogether
  <1>1. IInv => SettledTogether
    <2> SUFFICES ASSUME IInv PROVE SettledTogether
      OBVIOUS
    <2>1. TypeOK /\ Structure /\ FinalIsFixed /\ AskedOrFinal /\ BuiltIsIdle
      BY DEF IInv
    <2>2. ASSUME outcome = "built", NEW m \in Module
          PROVE  Holds(m) /\ Lists[m] = ExpandedItems(program, Lists, m)
      <3>1. stack = <<>> /\ asked = <<>>
        BY <2>1, <2>2 DEF BuiltIsIdle
      <3>2. m \notin ToSet(asked)
        BY <3>1 DEF ToSet
      <3>3. memo[m].final
        BY <2>1, <3>1, <3>2 DEF AskedOrFinal
      <3>4. Holds(m)
        BY <2>1, <3>3 DEF Holds, Settled, Structure, MemoOK
      <3>5. Lists[m] = memo[m].value
        BY DEF Lists
      <3> QED BY <2>1, <3>3, <3>4, <3>5 DEF FinalIsFixed
    <2> QED BY <2>1, <2>2 DEF SettledTogether
  <1> QED BY <1>1, Invariance, PTL

LEMMA RunningIsNotFinal ==
  ASSUME TypeOK, Structure, NEW m \in Running
  PROVE  ~ memo[m].final /\ m \in Module /\ (m # Top.module => memo[m].stored)
  <1>1. PICK i \in DOMAIN stack : m = stack[i].module
    BY DEF Running
  <1>2. FrameOK(i) /\ m \in Module
    BY <1>1 DEF Structure, TypeOK
  <1>3. ASSUME m # Top.module PROVE memo[m].stored
    <2>1. i # Len(stack)
      BY <1>1, <1>3, Stacked
    <2> QED BY <1>1, <1>2, <2>1 DEF FrameOK, Fresh, ReadItself
  <1> QED BY <1>1, <1>2, <1>3 DEF FrameOK

(* collect_all_cycle_heads asserts that every head a query collects, other *)
(* than itself, has a memo and is still provisional: the assertion never   *)
(* fails.  A head that were final would not have been executed in the      *)
(* iteration of the cycle the query takes part in.                         *)
HeadsAreProvisional ==
  ReadAll /\ ~ Plain => \A h \in AllHeads \ {Top.module} : memo[h].stored /\ ~ memo[h].final

THEOREM CollectedHeadsAreProvisional == Spec => []HeadsAreProvisional
  <1>1. IInv => HeadsAreProvisional
    <2> SUFFICES ASSUME IInv, ReadAll, ~ Plain, NEW h \in AllHeads \ {Top.module}
                 PROVE  memo[h].stored /\ ~ memo[h].final
      BY DEF HeadsAreProvisional
    <2>1. TypeOK /\ Structure
      BY DEF IInv
    <2>2. h \in Current \cup Running
      BY <2>1, Collected
    <2>3. CASE h \in Current
      BY <2>3 DEF Current
    <2>4. CASE h \in Running
      BY <2>1, <2>4, RunningIsNotFinal
    <2> QED BY <2>2, <2>3, <2>4
  <1> QED BY <1>1, Invariance, PTL

(* A list that is final is what every later reader of the build gets: no   *)
(* step of it changes the list or makes it provisional again.              *)
FinalListsStay ==
  earlier' = earlier =>
    \A m \in Module : memo[m].final => memo'[m].final /\ memo'[m].value = memo[m].value

THEOREM FinalListsAreKept == Spec => [][FinalListsStay]_vars
  <1>1. IInv /\ [Next]_vars => [FinalListsStay]_vars
    <2> SUFFICES ASSUME IInv, Next, earlier' = earlier, NEW m \in Module, memo[m].final
                 PROVE  memo'[m].final /\ memo'[m].value = memo[m].value
      BY DEF FinalListsStay
    <2>1. TypeOK /\ Structure /\ DOMAIN memo = Module
      BY DEF IInv, TypeOK
    <2>2. CASE memo' = memo
      BY <2>2
    <2>3. m \notin Running
      BY <2>1, RunningIsNotFinal
    <2>4. CASE ReadCycle
      <3>1. PICK x \in Running : \A y \in Module \ {x} : memo'[y] = memo[y]
        BY <2>1, <2>4 DEF ReadCycle
      <3> QED BY <2>3, <3>1
    <2>5. ASSUME ReadAll, \A x \in Module \ {Top.module} : memo'[x] = memo[x]
          PROVE  memo'[m].final /\ memo'[m].value = memo[m].value
      <3>1. Top.module \in Running
        BY <2>1, <2>5, Stacked DEF ReadAll, Active
      <3> QED BY <2>3, <2>5, <3>1
    <2>6. CASE CompletePlain
      BY <2>1, <2>5, <2>6 DEF CompletePlain
    <2>7. CASE CompleteInside
      BY <2>1, <2>5, <2>7 DEF CompleteInside
    <2>8. CASE Iterate
      BY <2>1, <2>5, <2>8 DEF Iterate, Driving
    <2>9. CASE CompleteCycle
      <3>1. ReadAll /\ ~ Plain
        BY <2>9 DEF CompleteCycle, Driving
      <3>2. AllHeads \subseteq Current \cup Running /\ Top.module \in AllHeads
        BY <2>1, <3>1, Collected
      <3>3. m \notin AllHeads
        BY <2>3, <3>2 DEF Current
      <3> QED BY <2>9, <3>2, <3>3 DEF CompleteCycle
    <2>10. CASE Rebuild
      <3>1. earlier = <<>> /\ earlier' = [x \in Module |-> memo[x].value]
        BY <2>10 DEF Rebuild, Lists
      <3>2. DOMAIN <<>> = {} /\ m \in DOMAIN earlier'
        BY <3>1
      <3> QED BY <3>1, <3>2
    <2>11. CASE Ask \/ ReadMemo \/ Execute \/ TooManyIterations \/ Built \/ UNCHANGED vars
      BY <2>2, <2>11 DEF Ask, ReadMemo, Execute, TooManyIterations, Built, vars
    <2> QED BY <2>4, <2>6, <2>7, <2>8, <2>9, <2>10, <2>11 DEF Next
  <1> QED BY <1>1, Invariance, PTL DEF Spec
=============================================================================
