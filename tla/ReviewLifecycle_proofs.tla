------------------------ MODULE ReviewLifecycle_proofs ------------------------
(* Proofs about the review commands, for any set of anchors, any number of       *)
(* edits and reads, and any interleaving and killing of processes.               *)
EXTENDS ReviewLifecycle, TLAPS

-----------------------------------------------------------------------------
(* The invariant: what holds between two file operations of a command.         *)

Starting == {"start", "clear", "input", "open", "started"}
Reading == {"read", "select", "save", "show"}
Recording == {"record", "check", "compare", "output", "seal"}
OfReviewer == {"idle"} \cup Starting \cup Reading \cup Recording
OfGate == {"idle", "load", "summaries", "validate", "accept"}

PcOK ==
    /\ pc \in [Processes -> OfReviewer \cup OfGate]
    /\ \A a \in Anchors : pc[a] \in OfReviewer
    /\ pc[Gate] \in OfGate

\* Between taking the lock and giving it up a process has it.
Locked(p) == pc[p] \notin {"idle", "start", "read", "record", "load", "validate", "accept"}
MutualExclusion == \A p \in Processes : Locked(p) => lock = p

\* The inputs cover what was shown, and are no fewer.
Kept(input, shown) == Covers(input, shown) /\ Len(shown.reads) <= Len(input.reads)

With(input, v) == [input EXCEPT !.reads = Append(@, v)]

\* While a text is saved and not yet shown, it is the last of the saved inputs.
OneAhead(a) ==
    \E before \in Inputs : disk[a].input = With(before, text[a]) /\ Kept(before, seen[a])

AttemptInv(a) ==
    /\ pc[a] \in Starting => seen[a] = None /\ text[a] \in Fragments
    /\ pc[a] \in Reading \cup Recording => seen[a] # None
    /\ pc[a] = "input" => disk[a] = EmptyDirectory
    /\ pc[a] \in {"open", "started"} => disk[a].input = [initial |-> text[a], reads |-> <<>>]
    /\ pc[a] \in {"open", "started", "save", "show", "compare", "output"} => disk[a].output = None
    /\ pc[a] \in {"read", "select", "save"} /\ disk[a].input # None =>
         Len(disk[a].input.reads) < ReadBound
    /\ pc[a] \in {"save", "show"} => text[a] \in Fragments
    /\ pc[a] = "show" => OneAhead(a)
    /\ seen[a] # None => Kept(disk[a].input, seen[a])
    /\ disk[a].output # None /\ disk[a].input # None => Covers(disk[a].input, disk[a].output.basis)

\* What the gate has loaded is what the disk holds while it has the lock.
GateInv ==
    /\ pc[Gate] \in {"idle", "load"} => saved = NothingSaved
    /\ \A a \in Anchors :
         /\ pc[Gate] = "summaries" /\ saved[a].input # None => saved[a].input = disk[a].input
         /\ saved[a].output # None =>
              saved[a].input # None /\ Covers(saved[a].input, saved[a].output.basis)

Inv ==
    /\ TypeOK /\ PcOK /\ MutualExclusion
    /\ \A a \in Anchors : AttemptInv(a)
    /\ GateInv

-----------------------------------------------------------------------------
(* Data.                                                                       *)

LEMMA NoneIsNoInput == None \notin Inputs /\ None \notin Outputs
  <1>1. \A i \in Inputs : "initial" \in DOMAIN i
    BY DEF Inputs
  <1>2. \A o \in Outputs : "basis" \in DOMAIN o
    BY DEF Outputs
  <1>3. DOMAIN None = {}
    BY DEF None
  <1> QED
    BY <1>1, <1>2, <1>3

LEMMA NumbersOK == EditBound \in Nat /\ ReadBound \in Nat /\ 1 \in Versions
  BY ReviewAssumption DEF Versions

(* Reads are sequences of at most ReadBound fragments. *)
LEMMA ReadsAreSequences ==
  ASSUME NEW i
  PROVE  i \in Inputs <=>
           /\ i = [initial |-> i.initial, reads |-> i.reads]
           /\ i.initial \in Fragments /\ i.reads \in Seq(Fragments) /\ Len(i.reads) <= ReadBound
  <1>1. ASSUME NEW r
        PROVE  r \in UNION {[1..n -> Fragments] : n \in 0..ReadBound}
                 <=> r \in Seq(Fragments) /\ Len(r) <= ReadBound
    <2>1. CASE r \in UNION {[1..n -> Fragments] : n \in 0..ReadBound}
      <3>1. PICK n \in 0..ReadBound : r \in [1..n -> Fragments]
        BY <2>1
      <3>2. r \in Seq(Fragments) /\ Len(r) = n
        BY <3>1, NumbersOK
      <3> QED BY <2>1, <3>2, NumbersOK
    <2>2. CASE r \in Seq(Fragments) /\ Len(r) <= ReadBound
      <3>1. r \in [1..Len(r) -> Fragments] /\ Len(r) \in 0..ReadBound
        BY <2>2, NumbersOK
      <3> QED BY <2>2, <3>1
    <2> QED BY <2>1, <2>2
  <1> QED
    BY <1>1 DEF Inputs

(* One more text: the saved inputs grow at their end. *)
LEMMA WithOneMore ==
  ASSUME NEW input \in Inputs, NEW v \in Fragments
  PROVE  /\ With(input, v).initial = input.initial
         /\ With(input, v).reads = Append(input.reads, v)
         /\ Len(With(input, v).reads) = Len(input.reads) + 1
         /\ Len(input.reads) < ReadBound => With(input, v) \in Inputs
         /\ With(input, v) # None
  <1>1. /\ input = [initial |-> input.initial, reads |-> input.reads]
        /\ input.initial \in Fragments /\ input.reads \in Seq(Fragments) /\ Len(input.reads) <= ReadBound
    BY ReadsAreSequences
  <1>2. With(input, v) = [initial |-> input.initial, reads |-> Append(input.reads, v)]
    BY <1>1 DEF With
  <1>3. Append(input.reads, v) \in Seq(Fragments) /\ Len(Append(input.reads, v)) = Len(input.reads) + 1
    BY <1>1
  <1>4. Len(input.reads) < ReadBound => With(input, v) \in Inputs
    <2>1. Len(input.reads) < ReadBound => Len(Append(input.reads, v)) <= ReadBound
      BY <1>1, <1>3, NumbersOK
    <2> QED BY <1>1, <1>2, <1>3, <2>1, ReadsAreSequences
  <1>5. "initial" \in DOMAIN With(input, v)
    BY <1>2
  <1>6. DOMAIN None = {}
    BY DEF None
  <1> QED
    BY <1>2, <1>3, <1>4, <1>5, <1>6

LEMMA CoversItself ==
  ASSUME NEW v
  PROVE  Kept([initial |-> v, reads |-> <<>>], [initial |-> v, reads |-> <<>>])
  <1> DEFINE i == [initial |-> v, reads |-> <<>>]
  <1>1. i # None
    <2>1. "initial" \in DOMAIN i
      OBVIOUS
    <2>2. DOMAIN None = {}
      BY DEF None
    <2> QED BY <2>1, <2>2
  <1>2. i.initial = v /\ i.reads = <<>>
    OBVIOUS
  <1>3. DOMAIN i.reads = {} /\ Len(i.reads) = 0
    BY <1>2
  <1>4. [j \in {} |-> j] \in [DOMAIN i.reads -> DOMAIN i.reads]
    BY <1>3
  <1> HIDE DEF i
  <1>5. Covers(i, i)
    <2>1. \A k, l \in DOMAIN i.reads : FALSE
      BY <1>3
    <2> QED BY <1>1, <1>4, <2>1 DEF Covers
  <1> QED
    BY <1>3, <1>5 DEF Kept, i

(* A further saved text covers what was covered. *)
LEMMA SavedMore ==
  ASSUME NEW input \in Inputs, NEW shown \in Inputs, NEW v \in Fragments, Kept(input, shown)
  PROVE  Kept(With(input, v), shown)
  <1>1. input.reads \in Seq(Fragments) /\ shown.reads \in Seq(Fragments)
    BY ReadsAreSequences
  <1>2. PICK f \in [DOMAIN shown.reads -> DOMAIN input.reads] :
          /\ \A i \in DOMAIN shown.reads : input.reads[f[i]] = shown.reads[i]
          /\ \A i, j \in DOMAIN shown.reads : i < j => f[i] < f[j]
    BY DEF Kept, Covers
  <1> DEFINE more == Append(input.reads, v)
  <1>3. /\ DOMAIN input.reads \subseteq DOMAIN more
        /\ \A i \in DOMAIN input.reads : more[i] = input.reads[i]
    BY <1>1
  <1>4. f \in [DOMAIN shown.reads -> DOMAIN more]
    BY <1>2, <1>3
  <1>5. \A i \in DOMAIN shown.reads : more[f[i]] = shown.reads[i]
    BY <1>2, <1>3
  <1> HIDE DEF more
  <1>6. /\ With(input, v).initial = shown.initial /\ With(input, v).reads = more
        /\ With(input, v) # None
    BY WithOneMore DEF Kept, Covers, more
  <1>7. Covers(With(input, v), shown)
    BY <1>2, <1>4, <1>5, <1>6 DEF Covers
  <1>8. Len(shown.reads) <= Len(With(input, v).reads)
    <2>1. Len(shown.reads) \in Nat /\ Len(input.reads) \in Nat
      BY <1>1
    <2> QED BY <2>1, WithOneMore DEF Kept
  <1> QED
    BY <1>7, <1>8 DEF Kept

(* A text that is saved and then shown is covered. *)
LEMMA ShownMore ==
  ASSUME NEW input \in Inputs, NEW shown \in Inputs, NEW v \in Fragments, Kept(input, shown)
  PROVE  Kept(With(input, v), With(shown, v))
  <1>1. input.reads \in Seq(Fragments) /\ shown.reads \in Seq(Fragments)
    BY ReadsAreSequences
  <1> DEFINE m == Len(shown.reads)
             n == Len(input.reads)
  <1>2. PICK f \in [DOMAIN shown.reads -> DOMAIN input.reads] :
          /\ \A i \in DOMAIN shown.reads : input.reads[f[i]] = shown.reads[i]
          /\ \A i, j \in DOMAIN shown.reads : i < j => f[i] < f[j]
    BY DEF Kept, Covers
  <1> DEFINE more == Append(input.reads, v)
             all == Append(shown.reads, v)
             g == [i \in 1 .. m + 1 |-> IF i = m + 1 THEN n + 1 ELSE f[i]]
  <1>3. m \in Nat /\ n \in Nat /\ DOMAIN shown.reads = 1 .. m /\ DOMAIN input.reads = 1 .. n
    BY <1>1
  <1>4. /\ DOMAIN more = 1 .. n + 1 /\ more[n + 1] = v
        /\ \A i \in 1 .. n : more[i] = input.reads[i]
    BY <1>1, <1>3
  <1>5. /\ DOMAIN all = 1 .. m + 1 /\ all[m + 1] = v
        /\ \A i \in 1 .. m : all[i] = shown.reads[i]
    BY <1>1, <1>3
  <1> HIDE DEF more, all, m, n
  <1>6. \A i \in 1 .. m : f[i] \in 1 .. n
    BY <1>2, <1>3
  <1>7. /\ g \in [1 .. m + 1 -> 1 .. n + 1]
        /\ g[m + 1] = n + 1
        /\ \A i \in 1 .. m : g[i] = f[i]
    BY <1>3, <1>6
  <1> HIDE DEF g
  <1>8. \A i \in 1 .. m + 1 : more[g[i]] = all[i]
    <2> SUFFICES ASSUME NEW i \in 1 .. m + 1 PROVE more[g[i]] = all[i]
      OBVIOUS
    <2>1. CASE i = m + 1
      BY <2>1, <1>4, <1>5, <1>7
    <2>2. CASE i \in 1 .. m
      <3>1. g[i] = f[i] /\ f[i] \in 1 .. n
        BY <2>2, <1>6, <1>7
      <3>2. input.reads[f[i]] = shown.reads[i]
        BY <2>2, <1>2, <1>3
      <3> QED BY <2>2, <3>1, <3>2, <1>4, <1>5
    <2> QED BY <2>1, <2>2, <1>3
  <1>9. \A i, j \in 1 .. m + 1 : i < j => g[i] < g[j]
    <2> SUFFICES ASSUME NEW i \in 1 .. m + 1, NEW j \in 1 .. m + 1, i < j PROVE g[i] < g[j]
      OBVIOUS
    <2>1. i \in 1 .. m /\ g[i] = f[i] /\ f[i] \in 1 .. n
      BY <1>3, <1>6, <1>7
    <2>2. CASE j = m + 1
      BY <2>1, <2>2, <1>3, <1>7
    <2>3. CASE j \in 1 .. m
      <3>1. f[i] < f[j]
        BY <2>1, <2>3, <1>2, <1>3
      <3> QED BY <2>1, <2>3, <3>1, <1>7
    <2> QED BY <2>2, <2>3, <1>3
  <1>10. /\ With(input, v).reads = more /\ With(shown, v).reads = all
         /\ With(input, v).initial = With(shown, v).initial /\ With(input, v) # None
    BY WithOneMore DEF Kept, Covers, more, all
  <1>11. Covers(With(input, v), With(shown, v))
    <2>1. g \in [DOMAIN With(shown, v).reads -> DOMAIN With(input, v).reads]
      BY <1>4, <1>5, <1>7, <1>10
    <2> QED BY <2>1, <1>4, <1>5, <1>8, <1>9, <1>10 DEF Covers
  <1>12. Len(With(shown, v).reads) <= Len(With(input, v).reads)
    BY <1>3, WithOneMore DEF Kept, m, n
  <1> QED
    BY <1>11, <1>12 DEF Kept

-----------------------------------------------------------------------------
(* What a step of one process leaves alone.                                    *)

LEMMA Names == /\ Anchors \subseteq Processes /\ Gate \in Processes /\ Gate \notin Anchors
               /\ Nobody \notin Processes
  BY ReviewAssumption DEF Processes

LEMMA SameAttempt ==
  ASSUME NEW b \in Anchors, AttemptInv(b),
         pc'[b] = pc[b], text'[b] = text[b], seen'[b] = seen[b], disk'[b] = disk[b]
  PROVE  AttemptInv(b)'
  BY DEF AttemptInv, OneAhead

LEMMA SameGate ==
  ASSUME GateInv, saved' = saved, pc'[Gate] = pc[Gate], disk' = disk \/ pc[Gate] # "summaries"
  PROVE  GateInv'
  BY DEF GateInv

(* How a process may change the lock. *)
LockStep(p) ==
    /\ \/ lock' = lock
       \/ lock = Nobody /\ lock' = p
       \/ lock = p /\ lock' = Nobody
    /\ Locked(p)' => lock' = p

LEMMA LockOfOthers ==
  ASSUME PcOK, MutualExclusion, NEW p \in Processes, LockStep(p),
         \A q \in Processes \ {p} : pc'[q] = pc[q]
  PROVE  MutualExclusion'
  <1> SUFFICES ASSUME NEW q \in Processes, Locked(q)' PROVE lock' = q
    BY DEF MutualExclusion
  <1>1. CASE q = p
    BY <1>1 DEF LockStep
  <1>2. CASE q # p
    <2>1. Locked(q)
      BY <1>2 DEF Locked
    <2>2. lock = q
      BY <2>1 DEF MutualExclusion
    <2> QED BY <1>2, <2>2, Names DEF LockStep
  <1> QED
    BY <1>1, <1>2

LEMMA ReviewerStep ==
  ASSUME Inv, NEW a \in Anchors, TypeOK', pc' \in [Processes -> OfReviewer \cup OfGate],
         pc'[a] \in OfReviewer, LockStep(a), AttemptInv(a)',
         \A p \in Processes \ {a} : pc'[p] = pc[p] /\ text'[p] = text[p],
         \A b \in Anchors \ {a} : seen'[b] = seen[b] /\ disk'[b] = disk[b],
         saved' = saved, disk' = disk \/ Locked(a)
  PROVE  Inv'
  <1>1. PcOK'
    BY Names DEF Inv, PcOK
  <1>2. MutualExclusion'
    BY LockOfOthers, Names DEF Inv
  <1>3. \A b \in Anchors : AttemptInv(b)'
    <2> SUFFICES ASSUME NEW b \in Anchors, b # a PROVE AttemptInv(b)'
      OBVIOUS
    <2> QED BY SameAttempt, Names DEF Inv
  <1>4. GateInv'
    <2>1. Locked(a) => pc[Gate] # "summaries"
      BY Names DEF Inv, MutualExclusion, Locked
    <2> QED BY <2>1, SameGate, Names DEF Inv
  <1> QED
    BY <1>1, <1>2, <1>3, <1>4 DEF Inv

LEMMA GateStep ==
  ASSUME Inv, TypeOK', pc' \in [Processes -> OfReviewer \cup OfGate],
         pc'[Gate] \in OfGate, LockStep(Gate), GateInv',
         \A p \in Anchors : pc'[p] = pc[p] /\ text'[p] = text[p],
         seen' = seen, disk' = disk
  PROVE  Inv'
  <1>1. PcOK'
    BY Names DEF Inv, PcOK
  <1>2. MutualExclusion'
    <2>1. \A q \in Processes \ {Gate} : pc'[q] = pc[q]
      BY DEF Processes
    <2> QED BY <2>1, LockOfOthers, Names DEF Inv
  <1>3. \A b \in Anchors : AttemptInv(b)'
    BY SameAttempt DEF Inv
  <1> QED
    BY <1>1, <1>2, <1>3 DEF Inv

LEMMA InvInit == Init => Inv
  <1> SUFFICES ASSUME Init PROVE Inv
    OBVIOUS
  <1>1. EmptyDirectory \in Directory
    BY DEF EmptyDirectory, Directory
  <1>2. TypeOK
    BY <1>1, NumbersOK DEF Init, TypeOK, NothingSaved, NothingApproved
  <1>3. PcOK
    BY Names DEF Init, PcOK, OfReviewer, OfGate
  <1>4. MutualExclusion
    BY DEF Init, MutualExclusion, Locked
  <1>5. \A a \in Anchors : AttemptInv(a)
    BY Names DEF Init, AttemptInv, Starting, Reading, Recording, EmptyDirectory
  <1>6. GateInv
    BY Names DEF Init, GateInv, NothingSaved, EmptyDirectory
  <1> QED
    BY <1>2, <1>3, <1>4, <1>5, <1>6 DEF Inv

-----------------------------------------------------------------------------
(* The environment, and the beginning and the end of every command.            *)

LEMMA EditInv == ASSUME Inv, NEW f \in Files, Edit(f) PROVE Inv'
  <1>1. source' \in [Files -> Versions] /\ changes' \in 0..EditBound /\ stood' \subseteq [Files -> Versions]
    <2>1. source' \in [Files -> Versions]
      BY DEF Inv, TypeOK, Edit
    <2>2. changes' \in 0..EditBound
      BY NumbersOK DEF Inv, TypeOK, Edit
    <2> QED BY <2>1, <2>2 DEF Inv, TypeOK, Edit
  <1>2. TypeOK'
    BY <1>1 DEF Inv, TypeOK, Edit
  <1>3. PcOK' /\ MutualExclusion'
    BY DEF Inv, Edit, PcOK, MutualExclusion, Locked
  <1>4. \A a \in Anchors : AttemptInv(a)'
    BY SameAttempt DEF Inv, Edit
  <1>5. GateInv'
    BY SameGate DEF Inv, Edit
  <1> QED
    BY <1>2, <1>3, <1>4, <1>5 DEF Inv

(* What the gate forgets is well typed. *)
LEMMA Forgetting ==
  ASSUME Forget
  PROVE  /\ saved' = NothingSaved /\ saved' \in [Anchors -> Directory]
         /\ left' \subseteq Anchors /\ stood' \subseteq [Files -> Versions]
         /\ approved' \in [Anchors -> SUBSET Passes]
  BY DEF Forget, NothingSaved, NothingApproved, EmptyDirectory, Directory

LEMMA CrashInv == ASSUME Inv, NEW p \in Processes, Crash(p) PROVE Inv'
  <1>1. /\ pc' \in [Processes -> OfReviewer \cup OfGate] /\ pc'[p] = "idle"
        /\ \A q \in Processes \ {p} : pc'[q] = pc[q] /\ text'[q] = text[q]
        /\ seen' = seen /\ disk' = disk
    BY DEF Inv, PcOK, TypeOK, Crash, End, OfReviewer
  <1>2. TypeOK'
    <2>1. lock' \in Processes \cup {Nobody}
      BY DEF Inv, TypeOK, Crash, End, Release
    <2>2. text' \in [Processes -> Fragments \cup {None}] /\ progress' \in [Processes -> Progress \cup {None}]
      BY DEF Inv, TypeOK, Crash, End
    <2>3. CASE p = Gate
      BY <2>1, <2>2, <2>3, Forgetting DEF Inv, TypeOK, Crash
    <2>4. CASE p # Gate
      BY <2>1, <2>2, <2>4 DEF Inv, TypeOK, Crash
    <2> QED BY <2>3, <2>4
  <1>3. LockStep(p)
    BY <1>1 DEF LockStep, Locked, Crash, End, Release
  <1>4. CASE p \in Anchors
    <2>1. AttemptInv(p)'
      BY <1>1, <1>4 DEF Inv, AttemptInv, Starting, Reading, Recording
    <2>2. saved' = saved
      BY <1>4, Names DEF Crash
    <2> QED BY <1>1, <1>2, <1>3, <1>4, <2>1, <2>2, ReviewerStep DEF OfReviewer
  <1>5. CASE p = Gate
    <2>1. saved' = NothingSaved
      BY <1>5, Forgetting DEF Crash
    <2>2. GateInv'
      BY <1>1, <1>5, <2>1 DEF GateInv, NothingSaved, EmptyDirectory
    <2> QED BY <1>1, <1>2, <1>3, <1>5, <2>2, GateStep, Names DEF OfGate
  <1> QED
    BY <1>4, <1>5 DEF Processes

LEMMA ReassignInv == ASSUME Inv, NEW a \in Anchors, Reassign(a) PROVE Inv'
  <1>1. TypeOK' /\ LockStep(a)
    BY DEF Inv, TypeOK, Reassign, LockStep, Locked
  <1>2. seen'[a] = None /\ pc'[a] = "idle"
    BY DEF Inv, TypeOK, Reassign
  <1>3. AttemptInv(a)'
    BY <1>2 DEF Inv, AttemptInv, Reassign, Starting, Reading, Recording
  <1>4. pc' \in [Processes -> OfReviewer \cup OfGate] /\ pc'[a] \in OfReviewer
    BY <1>2 DEF Inv, PcOK, Reassign, OfReviewer
  <1>5. \A b \in Anchors \ {a} : seen'[b] = seen[b]
    BY DEF Inv, TypeOK, Reassign
  <1> QED
    BY <1>1, <1>3, <1>4, <1>5, ReviewerStep DEF Reassign

LEMMA TakeInventoryInv ==
  ASSUME Inv, NEW p \in Processes, NEW command \in {"start", "record", "load"},
         TakeInventory(p, command)
  PROVE  Inv'
  <1>1. /\ pc' \in [Processes -> OfReviewer \cup OfGate] /\ pc'[p] = command
        /\ \A q \in Processes \ {p} : pc'[q] = pc[q] /\ text'[q] = text[q]
    BY DEF Inv, PcOK, TypeOK, TakeInventory, OfReviewer, OfGate, Starting, Recording
  <1>2. text'[p] \in Fragments
    BY ReviewAssumption DEF Inv, TypeOK, TakeInventory, Selected, Fragments
  <1>3. TypeOK'
    <2>1. text' \in [Processes -> Fragments \cup {None}]
      BY <1>2 DEF Inv, TypeOK, TakeInventory
    <2>2. seen' \in [Anchors -> Inputs \cup {None}]
      BY DEF Inv, TypeOK, TakeInventory
    <2> QED BY <2>1, <2>2 DEF Inv, TypeOK, TakeInventory
  <1>4. LockStep(p)
    BY <1>1 DEF LockStep, Locked, TakeInventory
  <1>5. CASE p \in Anchors
    <2>1. /\ command \in {"start", "record"}
          /\ command = "start" => seen'[p] = None
          /\ command = "record" => seen'[p] = seen[p] /\ seen[p] # None
          /\ \A b \in Anchors \ {p} : seen'[b] = seen[b]
      BY <1>5, Names DEF Inv, TypeOK, TakeInventory
    <2>2. AttemptInv(p) /\ disk' = disk /\ saved' = saved
      BY <1>5 DEF Inv, TakeInventory
    <2>3. AttemptInv(p)'
      BY <1>1, <1>2, <2>1, <2>2 DEF AttemptInv, Starting, Reading, Recording
    <2>4. pc'[p] \in OfReviewer
      BY <1>1, <2>1 DEF OfReviewer, Starting, Recording
    <2> QED BY <1>1, <1>3, <1>4, <1>5, <2>1, <2>2, <2>3, <2>4, ReviewerStep
  <1>6. CASE p = Gate
    <2>1. command = "load" /\ pc[Gate] = "idle" /\ saved' = saved /\ disk' = disk
      BY <1>6 DEF TakeInventory
    <2>2. seen' = seen
      BY <2>1 DEF TakeInventory
    <2>3. GateInv'
      BY <1>1, <1>6, <2>1 DEF Inv, GateInv
    <2>4. pc'[Gate] \in OfGate
      BY <1>1, <1>6, <2>1 DEF OfGate
    <2> QED BY <1>1, <1>3, <1>4, <1>6, <2>1, <2>2, <2>3, <2>4, GateStep, Names
  <1> QED
    BY <1>5, <1>6 DEF Processes

LEMMA RequestReadInv == ASSUME Inv, NEW a \in Anchors, RequestRead(a) PROVE Inv'
  <1>1. /\ pc' \in [Processes -> OfReviewer \cup OfGate] /\ pc'[a] = "read"
        /\ \A q \in Processes \ {a} : pc'[q] = pc[q]
    BY Names DEF Inv, PcOK, RequestRead, OfReviewer, Reading
  <1>2. TypeOK' /\ LockStep(a)
    BY <1>1 DEF Inv, TypeOK, RequestRead, LockStep, Locked
  <1>3. AttemptInv(a)'
    BY <1>1 DEF Inv, AttemptInv, RequestRead, Starting, Reading, Recording
  <1> QED
    BY <1>1, <1>2, <1>3, ReviewerStep DEF RequestRead, OfReviewer, Reading

LEMMA AcquireInv == ASSUME Inv, NEW p \in Processes, Acquire(p) PROVE Inv'
  <1>1. /\ pc[p] \in {"start", "read", "record", "load"} /\ pc'[p] = Entry[pc[p]]
        /\ \A q \in Processes \ {p} : pc'[q] = pc[q]
        /\ UNCHANGED <<source, changes, disk, text, progress, seen, saved, left, stood, approved>>
        /\ lock = Nobody /\ lock' = p
    BY DEF Inv, PcOK, Acquire, Waiting, Entry
  <1>2. /\ pc[p] = "start" => pc'[p] = "clear"
        /\ pc[p] = "read" => pc'[p] = "select"
        /\ pc[p] = "record" => pc'[p] = "check"
        /\ pc[p] = "load" => pc'[p] = "summaries"
    BY <1>1 DEF Entry
  <1>3. pc' \in [Processes -> OfReviewer \cup OfGate]
    <2>1. pc'[p] \in OfReviewer \cup OfGate
      BY <1>1, <1>2 DEF OfReviewer, OfGate, Starting, Reading, Recording
    <2> QED BY <2>1 DEF Inv, PcOK, Acquire
  <1>4. TypeOK' /\ LockStep(p)
    BY <1>1 DEF Inv, TypeOK, LockStep
  <1>5. CASE p \in Anchors
    <2>1. AttemptInv(p) /\ pc[p] \in {"start", "read", "record"}
      BY <1>1, <1>5 DEF Inv, PcOK, OfReviewer, Starting, Reading, Recording
    <2>2. AttemptInv(p)'
      BY <1>1, <1>2, <2>1 DEF AttemptInv, Starting, Reading, Recording
    <2>3. pc'[p] \in OfReviewer
      BY <1>2, <2>1 DEF OfReviewer, Starting, Reading, Recording
    <2> QED BY <1>1, <1>3, <1>4, <1>5, <2>2, <2>3, ReviewerStep
  <1>6. CASE p = Gate
    <2>1. pc[Gate] = "load" /\ pc'[Gate] = "summaries"
      BY <1>1, <1>2, <1>6 DEF Inv, PcOK, OfGate
    <2>2. saved' = NothingSaved
      BY <1>1, <2>1 DEF Inv, GateInv
    <2>3. GateInv'
      BY <2>1, <2>2 DEF GateInv, NothingSaved, EmptyDirectory
    <2> QED BY <1>1, <1>3, <1>4, <1>6, <2>1, <2>3, GateStep, Names DEF OfGate
  <1> QED
    BY <1>5, <1>6 DEF Processes

-----------------------------------------------------------------------------
(* The reviewer's commands.                                                    *)

LEMMA MyType ==
  ASSUME Inv, NEW a \in Anchors
  PROVE  /\ disk[a] \in Directory /\ disk[a].input \in Inputs \cup {None}
         /\ disk[a].output \in Outputs \cup {None}
         /\ disk[a].summary \in {"missing", "open", "recorded"}
         /\ disk[a] = [input |-> disk[a].input, output |-> disk[a].output,
                       summary |-> disk[a].summary]
         /\ seen[a] \in Inputs \cup {None} /\ text[a] \in Fragments \cup {None}
         /\ pc[a] \in OfReviewer /\ AttemptInv(a)
  BY Names DEF Inv, TypeOK, PcOK, Directory

(* A command that ends. *)
LEMMA EndsWell ==
  ASSUME Inv, NEW a \in Anchors, End(a), Locked(a)
  PROVE  /\ pc' \in [Processes -> OfReviewer \cup OfGate]
         /\ pc'[a] = "idle" /\ pc'[a] \in OfReviewer
         /\ text' \in [Processes -> Fragments \cup {None}]
         /\ progress' \in [Processes -> Progress \cup {None}]
         /\ lock' \in Processes \cup {Nobody}
         /\ LockStep(a)
         /\ \A p \in Processes \ {a} : pc'[p] = pc[p] /\ text'[p] = text[p]
  <1>1. lock = a
    BY Names DEF Inv, MutualExclusion
  <1>2. pc'[a] = "idle" /\ lock' = Nobody
    BY <1>1, Names DEF Inv, PcOK, End, Release
  <1> QED
    BY <1>1, <1>2, Names DEF Inv, PcOK, TypeOK, End, OfReviewer, LockStep, Locked

(* A command that goes on, with the lock. *)
LEMMA GoesOn ==
  ASSUME Inv, NEW a \in Anchors, Locked(a), NEW next \in OfReviewer,
         pc' = [pc EXCEPT ![a] = next], lock' = lock
  PROVE  /\ pc' \in [Processes -> OfReviewer \cup OfGate]
         /\ pc'[a] = next /\ LockStep(a)
         /\ \A p \in Processes \ {a} : pc'[p] = pc[p]
  BY Names DEF Inv, PcOK, MutualExclusion, LockStep, Locked

LEMMA NothingRead ==
  ASSUME NEW v \in Fragments
  PROVE  [initial |-> v, reads |-> <<>>] \in Inputs
  <1>1. <<>> \in [1..0 -> Fragments] /\ 0 \in 0..ReadBound
    BY NumbersOK
  <1> QED
    BY <1>1 DEF Inputs

LEMMA NewInput ==
  ASSUME NEW d, NEW i, NEW o, d = [input |-> d.input, output |-> o, summary |-> d.summary]
  PROVE  [d EXCEPT !.input = i] = [input |-> i, output |-> o, summary |-> d.summary]
  <1>1. DOMAIN d = {"input", "output", "summary"} /\ d.output = o
    OBVIOUS
  <1>2. /\ DOMAIN [d EXCEPT !.input = i] = DOMAIN d
        /\ [d EXCEPT !.input = i].input = i
        /\ [d EXCEPT !.input = i].output = d.output
        /\ [d EXCEPT !.input = i].summary = d.summary
    BY <1>1
  <1> QED
    BY <1>1, <1>2

LEMMA ClearInv == ASSUME Inv, NEW a \in Anchors, Clear(a) PROVE Inv'
  <1>1. Locked(a) /\ pc[a] = "clear" /\ AttemptInv(a) /\ seen[a] = None /\ text[a] \in Fragments
    BY MyType DEF Clear, Locked, AttemptInv, Starting
  <1>2. /\ UNCHANGED <<source, changes, lock, text, progress, seen, saved, left, stood, approved>>
        /\ \A p \in Processes \ {a} : pc'[p] = pc[p]
        /\ \A b \in Anchors \ {a} : disk'[b] = disk[b]
    BY Names DEF Clear, Inv, TypeOK, PcOK
  <1>3. \/ /\ pc' = pc
           /\ \/ disk' = [disk EXCEPT ![a].input = None]
              \/ disk' = [disk EXCEPT ![a].output = None]
              \/ disk' = [disk EXCEPT ![a].summary = "missing"]
        \/ /\ disk[a] = EmptyDirectory /\ disk' = disk /\ pc' = [pc EXCEPT ![a] = "input"]
    BY DEF Clear
  <1>4. /\ disk' \in [Anchors -> Directory]
        /\ disk'[a].input \in {disk[a].input, None}
        /\ disk'[a].output \in {disk[a].output, None}
    <2>1. CASE disk' = [disk EXCEPT ![a].input = None]
      BY <2>1, MyType DEF Inv, TypeOK, Directory
    <2>2. CASE disk' = [disk EXCEPT ![a].output = None]
      BY <2>2, MyType DEF Inv, TypeOK, Directory
    <2>3. CASE disk' = [disk EXCEPT ![a].summary = "missing"]
      BY <2>3, MyType DEF Inv, TypeOK, Directory
    <2>4. CASE disk' = disk
      BY <2>4 DEF Inv, TypeOK
    <2> QED BY <1>3, <2>1, <2>2, <2>3, <2>4
  <1>5. /\ pc' \in [Processes -> OfReviewer \cup OfGate]
        /\ pc'[a] \in {"clear", "input"} /\ pc'[a] \in OfReviewer
        /\ pc'[a] = "input" => disk'[a] = EmptyDirectory
    BY <1>1, <1>3, Names DEF Inv, PcOK, OfReviewer, Starting
  <1>6. TypeOK'
    BY <1>2, <1>4 DEF Inv, TypeOK
  <1>7. LockStep(a)
    BY <1>1, <1>2, Names DEF Inv, MutualExclusion, LockStep
  <1>8. AttemptInv(a)'
    BY <1>1, <1>2, <1>4, <1>5 DEF AttemptInv, Starting, Reading, Recording
  <1> QED
    BY <1>1, <1>2, <1>5, <1>6, <1>7, <1>8, ReviewerStep

LEMMA WriteInputInv == ASSUME Inv, NEW a \in Anchors, WriteInput(a) PROVE Inv'
  <1> DEFINE fresh == [initial |-> text[a], reads |-> <<>>]
  <1>1. Locked(a) /\ seen[a] = None /\ text[a] \in Fragments /\ disk[a] = EmptyDirectory
    BY MyType DEF WriteInput, Locked, AttemptInv, Starting
  <1>2. /\ UNCHANGED <<source, changes, lock, text, progress, seen, saved, left, stood, approved>>
        /\ pc' = [pc EXCEPT ![a] = "open"] /\ "open" \in OfReviewer
    BY DEF WriteInput, OfReviewer, Starting
  <1>3. fresh \in Inputs
    BY <1>1, NothingRead
  <1>4. /\ disk'[a] = [input |-> fresh, output |-> None, summary |-> "missing"]
        /\ \A b \in Anchors \ {a} : disk'[b] = disk[b]
        /\ disk' \in [Anchors -> Directory]
    BY <1>1, <1>3, MyType DEF WriteInput, Inv, TypeOK, Directory, EmptyDirectory
  <1>5. TypeOK'
    BY <1>2, <1>4 DEF Inv, TypeOK
  <1>6. AttemptInv(a)'
    <2>1. pc'[a] = "open"
      BY <1>1, <1>2, GoesOn
    <2>2. seen'[a] = None /\ text'[a] = text[a] /\ disk'[a].input = fresh /\ disk'[a].output = None
      BY <1>1, <1>2, <1>4
    <2> QED BY <1>1, <2>1, <2>2 DEF AttemptInv, Starting, Reading, Recording
  <1> QED
    BY <1>1, <1>2, <1>4, <1>5, <1>6, GoesOn, ReviewerStep

LEMMA WriteSummaryInv == ASSUME Inv, NEW a \in Anchors, WriteSummary(a) PROVE Inv'
  <1>1. /\ Locked(a) /\ seen[a] = None /\ text[a] \in Fragments
        /\ disk[a].input = [initial |-> text[a], reads |-> <<>>] /\ disk[a].output = None
    BY MyType DEF WriteSummary, Locked, AttemptInv, Starting
  <1>2. /\ UNCHANGED <<source, changes, lock, text, progress, seen, saved, left, stood, approved>>
        /\ pc' = [pc EXCEPT ![a] = "started"] /\ "started" \in OfReviewer
    BY DEF WriteSummary, OfReviewer, Starting
  <1>3. /\ disk'[a].input = disk[a].input /\ disk'[a].output = None
        /\ \A b \in Anchors \ {a} : disk'[b] = disk[b]
        /\ disk' \in [Anchors -> Directory]
    BY <1>1, MyType DEF WriteSummary, Inv, TypeOK, Directory
  <1>4. TypeOK'
    BY <1>2, <1>3 DEF Inv, TypeOK
  <1>5. AttemptInv(a)'
    BY <1>1, <1>2, <1>3, GoesOn DEF AttemptInv, Starting, Reading, Recording
  <1> QED
    BY <1>1, <1>2, <1>3, <1>4, <1>5, GoesOn, ReviewerStep

LEMMA StartedInv == ASSUME Inv, NEW a \in Anchors, Started(a) PROVE Inv'
  <1> DEFINE fresh == [initial |-> text[a], reads |-> <<>>]
  <1>1. /\ Locked(a) /\ seen[a] = None /\ text[a] \in Fragments
        /\ disk[a].input = fresh /\ disk[a].output = None
    BY MyType DEF Started, Locked, AttemptInv, Starting
  <1>2. End(a) /\ UNCHANGED <<source, changes, disk, saved, left, stood, approved>>
    BY DEF Started
  <1>3. fresh \in Inputs
    BY <1>1, NothingRead
  <1>4. seen' \in [Anchors -> Inputs \cup {None}] /\ seen'[a] = fresh
        /\ \A b \in Anchors \ {a} : seen'[b] = seen[b]
    BY <1>3 DEF Started, Inv, TypeOK
  <1>5. TypeOK'
    BY <1>1, <1>2, <1>4, EndsWell DEF Inv, TypeOK
  <1>6. Kept(fresh, fresh)
    BY CoversItself
  <1> HIDE DEF fresh
  <1>7. AttemptInv(a)'
    <2>1. pc'[a] = "idle" /\ disk'[a] = disk[a]
      BY <1>1, <1>2, EndsWell
    <2> QED BY <1>1, <1>4, <1>6, <2>1 DEF AttemptInv, Starting, Reading, Recording
  <1> QED
    BY <1>1, <1>2, <1>4, <1>5, <1>7, EndsWell, ReviewerStep

LEMMA SelectTextInv == ASSUME Inv, NEW a \in Anchors, SelectText(a) PROVE Inv'
  <1>1. Locked(a) /\ seen[a] # None /\ AttemptInv(a) /\ pc[a] = "select"
    BY MyType DEF SelectText, Locked, AttemptInv, Reading
  <1>2. UNCHANGED <<source, changes, disk, seen, saved, left, stood, approved>>
    BY DEF SelectText
  <1>3. CASE AttemptOpen(a) /\ disk[a].input # None
    <2>1. PICK f \in Files : text' = [text EXCEPT ![a] = Selected(f)]
      BY <1>3 DEF SelectText
    <2>2. /\ pc' = [pc EXCEPT ![a] = "save"] /\ lock' = lock /\ progress' = progress
          /\ "save" \in OfReviewer /\ disk[a].output = None
      BY <1>3 DEF SelectText, OfReviewer, Reading, AttemptOpen
    <2>3. /\ text' \in [Processes -> Fragments \cup {None}] /\ text'[a] \in Fragments
          /\ \A p \in Processes \ {a} : text'[p] = text[p]
      BY <2>1, Names DEF Inv, TypeOK, Selected, Fragments
    <2>4. TypeOK'
      BY <1>2, <2>2, <2>3 DEF Inv, TypeOK
    <2>5. AttemptInv(a)'
      BY <1>1, <1>2, <2>2, <2>3, GoesOn DEF AttemptInv, Starting, Reading, Recording
    <2> QED BY <1>1, <1>2, <2>2, <2>3, <2>4, <2>5, GoesOn, ReviewerStep
  <1>4. CASE ~(AttemptOpen(a) /\ disk[a].input # None)
    <2>1. End(a)
      BY <1>4 DEF SelectText
    <2>2. TypeOK'
      BY <1>1, <1>2, <2>1, EndsWell DEF Inv, TypeOK
    <2>3. AttemptInv(a)'
      BY <1>1, <1>2, <2>1, EndsWell DEF AttemptInv, Starting, Reading, Recording
    <2> QED BY <1>1, <1>2, <2>1, <2>2, <2>3, EndsWell, ReviewerStep
  <1> QED
    BY <1>3, <1>4

LEMMA SaveReadInv == ASSUME Inv, NEW a \in Anchors, SaveRead(a) PROVE Inv'
  <1> DEFINE before == disk[a].input
  <1>1. /\ Locked(a) /\ seen[a] # None /\ Kept(before, seen[a]) /\ disk[a].output = None
        /\ text[a] \in Fragments /\ AttemptInv(a) /\ pc[a] = "save"
    BY MyType DEF SaveRead, Locked, AttemptInv, Reading
  <1>2. before \in Inputs /\ seen[a] \in Inputs
    BY <1>1, MyType DEF Kept, Covers
  <1>3. Len(before.reads) < ReadBound
    BY <1>1, <1>2, NoneIsNoInput DEF AttemptInv
  <1>4. /\ UNCHANGED <<source, changes, lock, text, progress, seen, saved, left, stood, approved>>
        /\ pc' = [pc EXCEPT ![a] = "show"] /\ "show" \in OfReviewer
    BY DEF SaveRead, OfReviewer, Reading
  <1>5. With(before, text[a]) \in Inputs
    BY <1>1, <1>2, <1>3, WithOneMore
  <1>6. /\ disk'[a].input = With(before, text[a]) /\ disk'[a].output = None
        /\ \A b \in Anchors \ {a} : disk'[b] = disk[b]
        /\ disk' \in [Anchors -> Directory]
    <2>1. disk' = [disk EXCEPT ![a] = [disk[a] EXCEPT !.input = With(before, text[a])]]
      BY DEF SaveRead, With, Inv, TypeOK
    <2>2. [disk[a] EXCEPT !.input = With(before, text[a])]
            = [input |-> With(before, text[a]), output |-> None, summary |-> disk[a].summary]
      <3>1. disk[a] = [input |-> disk[a].input, output |-> None, summary |-> disk[a].summary]
        BY <1>1, MyType
      <3> HIDE DEF before
      <3> QED BY <3>1, NewInput
    <2> QED BY <1>5, <2>1, <2>2, MyType DEF Inv, TypeOK, Directory
  <1>7. TypeOK'
    BY <1>4, <1>6 DEF Inv, TypeOK
  <1>8. Kept(With(before, text[a]), seen[a])
    BY <1>1, <1>2, SavedMore
  <1>9. OneAhead(a)'
    BY <1>1, <1>2, <1>4, <1>6 DEF OneAhead
  <1> HIDE DEF before
  <1>10. AttemptInv(a)'
    <2>1. pc'[a] = "show" /\ seen'[a] = seen[a] /\ text'[a] = text[a]
      BY <1>1, <1>4, GoesOn
    <2> QED BY <1>1, <1>6, <1>8, <1>9, <2>1 DEF AttemptInv, Starting, Reading, Recording
  <1> QED
    BY <1>1, <1>4, <1>6, <1>7, <1>10, GoesOn, ReviewerStep

LEMMA ShowReadInv == ASSUME Inv, NEW a \in Anchors, ShowRead(a) PROVE Inv'
  <1>1. /\ Locked(a) /\ seen[a] # None /\ disk[a].output = None
        /\ text[a] \in Fragments /\ AttemptInv(a) /\ OneAhead(a)
    BY MyType DEF ShowRead, Locked, AttemptInv, Reading
  <1>2. PICK before \in Inputs : disk[a].input = With(before, text[a]) /\ Kept(before, seen[a])
    BY <1>1 DEF OneAhead
  <1>3. End(a) /\ UNCHANGED <<source, changes, disk, saved, left, stood, approved>>
    BY DEF ShowRead
  <1>4. seen[a] \in Inputs
    BY <1>1, MyType
  <1>5. disk[a].input \in Inputs
    BY <1>1, <1>2, MyType, WithOneMore
  <1>6. With(seen[a], text[a]) \in Inputs
    <2>1. Len(disk[a].input.reads) <= ReadBound
      BY <1>5, ReadsAreSequences
    <2>2. Len(disk[a].input.reads) = Len(before.reads) + 1
      BY <1>1, <1>2, WithOneMore
    <2>3. Len(seen[a].reads) <= Len(before.reads)
      BY <1>2 DEF Kept
    <2>4. Len(seen[a].reads) \in Nat /\ Len(before.reads) \in Nat
      BY <1>4, ReadsAreSequences
    <2>5. Len(seen[a].reads) < ReadBound
      BY <2>1, <2>2, <2>3, <2>4, NumbersOK
    <2> QED BY <1>1, <1>4, <2>5, WithOneMore
  <1>7. /\ seen' \in [Anchors -> Inputs \cup {None}] /\ seen'[a] = With(seen[a], text[a])
        /\ \A b \in Anchors \ {a} : seen'[b] = seen[b]
    <2>1. seen' = [seen EXCEPT ![a] = With(seen[a], text[a])]
      BY DEF ShowRead, With, Inv, TypeOK
    <2> QED BY <1>6, <2>1 DEF Inv, TypeOK
  <1>8. TypeOK'
    BY <1>1, <1>3, <1>7, EndsWell DEF Inv, TypeOK
  <1>9. Kept(disk[a].input, With(seen[a], text[a]))
    BY <1>1, <1>2, <1>4, ShownMore
  <1>10. AttemptInv(a)'
    <2>1. pc'[a] = "idle" /\ disk'[a] = disk[a]
      BY <1>1, <1>3, EndsWell
    <2> QED BY <1>1, <1>7, <1>9, <2>1 DEF AttemptInv, Starting, Reading, Recording
  <1> QED
    BY <1>1, <1>3, <1>7, <1>8, <1>10, EndsWell, ReviewerStep

(* A comparison that begins, and one that goes on. *)
LEMMA BegunOK ==
  ASSUME NEW a \in Anchors, NEW input, NEW current
  PROVE  Begun(a, input, current) \in Progress
  BY DEF Begun, Progress, InitialMatches

LEMMA CheckRecordInv == ASSUME Inv, NEW a \in Anchors, CheckRecord(a) PROVE Inv'
  <1>1. Locked(a) /\ seen[a] # None /\ AttemptInv(a) /\ pc[a] = "check"
    BY MyType DEF CheckRecord, Locked, AttemptInv, Recording
  <1>2. UNCHANGED <<source, changes, disk, seen, saved, left, stood, approved>>
    BY DEF CheckRecord
  <1>3. CASE AttemptOpen(a) /\ disk[a].input # None
    <2>1. /\ pc' = [pc EXCEPT ![a] = "compare"] /\ UNCHANGED <<text, lock>>
          /\ progress' = [progress EXCEPT ![a] = Begun(a, disk[a].input, text[a])]
          /\ "compare" \in OfReviewer /\ disk[a].output = None
      BY <1>3 DEF CheckRecord, OfReviewer, Recording, AttemptOpen
    <2>2. TypeOK'
      BY <1>2, <2>1, BegunOK DEF Inv, TypeOK
    <2>3. AttemptInv(a)'
      BY <1>1, <1>2, <2>1, GoesOn DEF AttemptInv, Starting, Reading, Recording
    <2> QED BY <1>1, <1>2, <2>1, <2>2, <2>3, GoesOn, ReviewerStep
  <1>4. CASE ~(AttemptOpen(a) /\ disk[a].input # None)
    <2>1. End(a)
      BY <1>4 DEF CheckRecord
    <2>2. TypeOK'
      BY <1>1, <1>2, <2>1, EndsWell DEF Inv, TypeOK
    <2>3. AttemptInv(a)'
      BY <1>1, <1>2, <2>1, EndsWell DEF AttemptInv, Starting, Reading, Recording
    <2> QED BY <1>1, <1>2, <2>1, <2>2, <2>3, EndsWell, ReviewerStep
  <1> QED
    BY <1>3, <1>4

LEMMA RecordComparedInv == ASSUME Inv, NEW a \in Anchors, RecordCompared(a) PROVE Inv'
  <1>1. Locked(a) /\ seen[a] # None /\ AttemptInv(a) /\ pc[a] = "compare" /\ disk[a].output = None
    BY MyType DEF RecordCompared, Locked, AttemptInv, Recording
  <1>2. UNCHANGED <<source, changes, disk, seen, saved, left, stood, approved>>
    BY DEF RecordCompared
  <1>3. CASE progress[a].matches
    <2>1. /\ pc' = [pc EXCEPT ![a] = "output"] /\ UNCHANGED <<text, lock>>
          /\ progress' = [progress EXCEPT ![a] = None] /\ "output" \in OfReviewer
      BY <1>3 DEF RecordCompared, OfReviewer, Recording
    <2>2. TypeOK'
      BY <1>2, <2>1 DEF Inv, TypeOK
    <2>3. AttemptInv(a)'
      BY <1>1, <1>2, <2>1, GoesOn DEF AttemptInv, Starting, Reading, Recording
    <2> QED BY <1>1, <1>2, <2>1, <2>2, <2>3, GoesOn, ReviewerStep
  <1>4. CASE ~progress[a].matches
    <2>1. End(a)
      BY <1>4 DEF RecordCompared
    <2>2. TypeOK'
      BY <1>1, <1>2, <2>1, EndsWell DEF Inv, TypeOK
    <2>3. AttemptInv(a)'
      BY <1>1, <1>2, <2>1, EndsWell DEF AttemptInv, Starting, Reading, Recording
    <2> QED BY <1>1, <1>2, <2>1, <2>2, <2>3, EndsWell, ReviewerStep
  <1> QED
    BY <1>3, <1>4

(* A comparison moves on to the next fragment, and nothing else moves. *)
LEMMA CompareNextInv == ASSUME Inv, NEW p \in Processes, CompareNext(p) PROVE Inv'
  <1>1. UNCHANGED <<source, changes, disk, lock, pc, text, seen, saved, left, stood, approved>>
    BY DEF CompareNext
  <1>2. progress' \in [Processes -> Progress \cup {None}]
    <2>1. progress[p] \in Progress
      BY DEF CompareNext, Inv, TypeOK
    <2>2. progress[p].of \in Anchors /\ progress[p].next \in Nat \ {0} /\ progress[p].matches \in BOOLEAN
      BY <2>1 DEF Progress
    <2> QED BY <2>2 DEF CompareNext, Inv, TypeOK, Progress, StillReads
  <1>3. TypeOK'
    BY <1>1, <1>2 DEF Inv, TypeOK
  <1>4. PcOK' /\ MutualExclusion'
    BY <1>1 DEF Inv, PcOK, MutualExclusion, Locked
  <1>5. \A a \in Anchors : AttemptInv(a)'
    BY <1>1, SameAttempt DEF Inv
  <1>6. GateInv'
    BY <1>1, SameGate DEF Inv
  <1> QED
    BY <1>3, <1>4, <1>5, <1>6 DEF Inv

LEMMA WriteOutputInv == ASSUME Inv, NEW a \in Anchors, WriteOutput(a) PROVE Inv'
  <1>1. /\ Locked(a) /\ seen[a] # None /\ AttemptInv(a) /\ pc[a] = "output"
        /\ Kept(disk[a].input, seen[a])
    BY MyType DEF WriteOutput, Locked, AttemptInv, Recording
  <1>2. /\ UNCHANGED <<source, changes, lock, text, progress, seen, saved, left, stood, approved>>
        /\ pc' = [pc EXCEPT ![a] = "seal"] /\ "seal" \in OfReviewer
    BY DEF WriteOutput, OfReviewer, Recording
  <1>3. PICK edits \in BOOLEAN :
          disk' = [disk EXCEPT ![a].output = [basis |-> seen[a], edits |-> edits]]
    BY DEF WriteOutput
  <1> DEFINE report == [basis |-> seen[a], edits |-> edits]
  <1>4. report \in Outputs /\ report.basis = seen[a]
    BY <1>1, MyType DEF Outputs
  <1>5. /\ disk'[a].input = disk[a].input /\ disk'[a].output = report
        /\ \A b \in Anchors \ {a} : disk'[b] = disk[b]
        /\ disk' \in [Anchors -> Directory]
    BY <1>3, <1>4, MyType DEF Inv, TypeOK, Directory
  <1> HIDE DEF report
  <1>6. TypeOK'
    BY <1>2, <1>5 DEF Inv, TypeOK
  <1>7. AttemptInv(a)'
    BY <1>1, <1>2, <1>4, <1>5, GoesOn DEF AttemptInv, Starting, Reading, Recording, Kept
  <1> QED
    BY <1>1, <1>2, <1>5, <1>6, <1>7, GoesOn, ReviewerStep

LEMMA SealInv == ASSUME Inv, NEW a \in Anchors, Seal(a) PROVE Inv'
  <1>1. Locked(a) /\ seen[a] # None /\ AttemptInv(a) /\ pc[a] = "seal"
    BY MyType DEF Seal, Locked, AttemptInv, Recording
  <1>2. End(a) /\ UNCHANGED <<source, changes, seen, saved, left, stood, approved>>
    BY DEF Seal
  <1>3. /\ disk'[a].input = disk[a].input /\ disk'[a].output = disk[a].output
        /\ \A b \in Anchors \ {a} : disk'[b] = disk[b]
        /\ disk' \in [Anchors -> Directory]
    BY MyType DEF Seal, Inv, TypeOK, Directory
  <1>4. TypeOK'
    BY <1>1, <1>2, <1>3, EndsWell DEF Inv, TypeOK
  <1>5. AttemptInv(a)'
    BY <1>1, <1>2, <1>3, EndsWell DEF AttemptInv, Starting, Reading, Recording
  <1> QED
    BY <1>1, <1>2, <1>3, <1>4, <1>5, EndsWell, ReviewerStep

-----------------------------------------------------------------------------
(* The gate.                                                                   *)

(* A file the gate reads while it has the lock. *)
LEMMA GateReads ==
  ASSUME Inv, NEW a \in Anchors, pc[Gate] = "summaries",
         UNCHANGED <<source, changes, disk, lock, pc, text, progress, seen, left, stood, approved>>,
         saved' \in [Anchors -> Directory],
         \A b \in Anchors \ {a} : saved'[b] = saved[b],
         saved'[a].input # None => saved'[a].input = disk[a].input,
         saved'[a].output # None =>
           saved'[a].input # None /\ Covers(saved'[a].input, saved'[a].output.basis)
  PROVE  Inv'
  <1>1. TypeOK'
    BY DEF Inv, TypeOK
  <1>2. GateInv'
    BY DEF Inv, GateInv
  <1>3. LockStep(Gate) /\ pc' \in [Processes -> OfReviewer \cup OfGate] /\ pc'[Gate] \in OfGate
    BY Names DEF Inv, PcOK, MutualExclusion, LockStep, Locked
  <1> QED
    BY <1>1, <1>2, <1>3, GateStep

LEMMA Loading ==
  ASSUME Inv, NEW a \in Anchors, pc[Gate] = "summaries"
  PROVE  /\ saved[a] \in Directory
         /\ saved[a].input # None => saved[a].input = disk[a].input
         /\ saved[a].output # None =>
              saved[a].input # None /\ Covers(saved[a].input, saved[a].output.basis)
  BY DEF Inv, TypeOK, GateInv

LEMMA LoadSummaryInv == ASSUME Inv, NEW a \in Anchors, LoadSummary(a) PROVE Inv'
  <1>1. disk[a].summary \in {"missing", "open", "recorded"} /\ saved[a] \in Directory
    BY MyType, Loading DEF LoadSummary
  <1>2. saved' = [saved EXCEPT ![a].summary = disk[a].summary]
    BY DEF LoadSummary
  <1>3. /\ saved' \in [Anchors -> Directory]
        /\ saved'[a].input = saved[a].input /\ saved'[a].output = saved[a].output
        /\ \A b \in Anchors \ {a} : saved'[b] = saved[b]
    BY <1>1, <1>2 DEF Inv, TypeOK, Directory
  <1> QED
    BY <1>3, Loading, GateReads DEF LoadSummary

LEMMA LoadInputInv == ASSUME Inv, NEW a \in Anchors, LoadInput(a) PROVE Inv'
  <1>1. disk[a].input \in Inputs \cup {None} /\ saved[a] \in Directory
    BY MyType, Loading DEF LoadInput
  <1>2. saved' = [saved EXCEPT ![a].input = disk[a].input]
    BY DEF LoadInput
  <1>3. /\ saved' \in [Anchors -> Directory]
        /\ saved'[a].input = disk[a].input /\ saved'[a].output = saved[a].output
        /\ \A b \in Anchors \ {a} : saved'[b] = saved[b]
    BY <1>1, <1>2 DEF Inv, TypeOK, Directory
  <1>4. saved[a].output = None
    BY Loading DEF LoadInput
  <1> QED
    BY <1>3, <1>4, GateReads DEF LoadInput

LEMMA LoadOutputInv == ASSUME Inv, NEW a \in Anchors, LoadOutput(a) PROVE Inv'
  <1>1. /\ disk[a].output \in Outputs /\ saved[a] \in Directory
        /\ saved[a].input # None /\ saved[a].input = disk[a].input
    BY MyType, Loading DEF LoadOutput
  <1>2. saved' = [saved EXCEPT ![a].output = disk[a].output]
    BY DEF LoadOutput
  <1>3. /\ saved' \in [Anchors -> Directory]
        /\ saved'[a].input = saved[a].input /\ saved'[a].output = disk[a].output
        /\ \A b \in Anchors \ {a} : saved'[b] = saved[b]
    BY <1>1, <1>2 DEF Inv, TypeOK, Directory
  <1>4. Covers(disk[a].input, disk[a].output.basis)
    BY <1>1, MyType DEF AttemptInv, LoadOutput
  <1> QED
    BY <1>1, <1>3, <1>4, GateReads DEF LoadOutput

(* A step of the gate after it gave up the lock. *)
LEMMA JudgingStep ==
  ASSUME Inv, TypeOK', pc[Gate] \in Passes, pc'[Gate] \in {"validate", "accept"},
         pc' = [pc EXCEPT ![Gate] = pc'[Gate]],
         UNCHANGED <<disk, lock, text, seen, saved>>
  PROVE  Inv'
  <1>1. /\ pc' \in [Processes -> OfReviewer \cup OfGate] /\ pc'[Gate] \in OfGate
        /\ \A a \in Anchors : pc'[a] = pc[a]
    BY Names DEF Inv, PcOK, OfGate
  <1>2. LockStep(Gate)
    BY DEF LockStep, Locked
  <1>3. GateInv'
    BY DEF Inv, GateInv
  <1> QED
    BY <1>1, <1>2, <1>3, GateStep

LEMMA LoadSavedInv == ASSUME Inv, LoadSaved PROVE Inv'
  <1>1. lock = Gate /\ pc[Gate] = "summaries"
    BY Names DEF Inv, MutualExclusion, Locked, LoadSaved
  <1>2. /\ UNCHANGED <<source, changes, disk, text, progress, seen, saved, stood, approved>>
        /\ left' = Anchors /\ lock' = Nobody
        /\ pc' \in [Processes -> OfReviewer \cup OfGate] /\ pc'[Gate] = "validate"
        /\ \A p \in Anchors : pc'[p] = pc[p]
    BY <1>1, Names DEF LoadSaved, Inv, PcOK, Release, OfGate
  <1>3. TypeOK' /\ LockStep(Gate)
    BY <1>1, <1>2 DEF Inv, TypeOK, LockStep, Locked
  <1>4. GateInv'
    BY <1>1, <1>2 DEF Inv, GateInv
  <1> QED
    BY <1>2, <1>3, <1>4, GateStep DEF OfGate

LEMMA GatePc ==
  ASSUME Inv, pc[Gate] \in Passes
  PROVE  pc = [pc EXCEPT ![Gate] = pc[Gate]] /\ pc[Gate] \in {"validate", "accept"}
  BY Names DEF Inv, PcOK, Passes

LEMMA BeginJudgingInv == ASSUME Inv, NEW a \in Anchors, BeginJudging(a) PROVE Inv'
  <1>1. pc[Gate] \in Passes /\ UNCHANGED <<disk, lock, pc, text, seen, saved>>
    BY DEF BeginJudging
  <1>2. progress' \in [Processes -> Progress \cup {None}] /\ stood' \subseteq [Files -> Versions]
    BY BegunOK, Names DEF BeginJudging, Inv, TypeOK
  <1>3. TypeOK'
    BY <1>1, <1>2 DEF BeginJudging, Inv, TypeOK
  <1> QED
    BY <1>1, <1>3, GatePc, JudgingStep

LEMMA JudgeStepInv == ASSUME Inv, Judge PROVE Inv'
  <1>1. pc[Gate] \in Passes /\ UNCHANGED <<disk, lock, pc, text, seen, saved>>
    BY DEF Judge
  <1>2. progress[Gate].of \in Anchors
    BY Names DEF Judge, Compared, Inv, TypeOK, Progress
  <1>3. approved' \in [Anchors -> SUBSET Passes]
    BY <1>1, <1>2 DEF Judge, Inv, TypeOK
  <1>4. TypeOK'
    BY <1>1, <1>3, Names DEF Judge, Inv, TypeOK
  <1> QED
    BY <1>1, <1>4, GatePc, JudgingStep

LEMMA ValidatedInv == ASSUME Inv, Validated PROVE Inv'
  <1>1. /\ pc[Gate] \in Passes /\ pc' = [pc EXCEPT ![Gate] = "accept"]
        /\ UNCHANGED <<disk, lock, text, seen, saved>>
    BY DEF Validated, Passes
  <1>2. TypeOK'
    BY DEF Validated, Inv, TypeOK
  <1>3. pc'[Gate] = "accept"
    BY <1>1, Names DEF Inv, PcOK
  <1> QED
    BY <1>1, <1>2, <1>3, JudgingStep

LEMMA AcceptedInv == ASSUME Inv, Accepted PROVE Inv'
  <1>1. /\ pc' \in [Processes -> OfReviewer \cup OfGate] /\ pc'[Gate] = "idle"
        /\ \A p \in Anchors : pc'[p] = pc[p] /\ text'[p] = text[p]
        /\ UNCHANGED <<source, changes, disk, seen>> /\ Forget
    BY Names DEF Accepted, End, Inv, PcOK, TypeOK, OfGate
  <1>2. TypeOK'
    <2>1. /\ lock' \in Processes \cup {Nobody} /\ text' \in [Processes -> Fragments \cup {None}]
          /\ progress' \in [Processes -> Progress \cup {None}]
      BY DEF Inv, TypeOK, Accepted, End, Release
    <2> QED BY <1>1, <2>1, Forgetting DEF Inv, TypeOK
  <1>3. LockStep(Gate)
    BY <1>1 DEF LockStep, Locked, Accepted, End, Release
  <1>4. GateInv'
    BY <1>1, Forgetting DEF GateInv, NothingSaved, EmptyDirectory
  <1> QED
    BY <1>1, <1>2, <1>3, <1>4, GateStep DEF OfGate

-----------------------------------------------------------------------------
(* Every step preserves the invariant.                                         *)

LEMMA StepInv == ASSUME Inv, NEW p \in Processes, Step(p) PROVE Inv'
  <1>1. CASE Acquire(p)
    BY <1>1, AcquireInv
  <1>2. CASE p \in Anchors /\ (Clear(p) \/ WriteInput(p) \/ WriteSummary(p) \/ Started(p))
    BY <1>2, ClearInv, WriteInputInv, WriteSummaryInv, StartedInv
  <1>3. CASE p \in Anchors /\ (SelectText(p) \/ SaveRead(p) \/ ShowRead(p))
    BY <1>3, SelectTextInv, SaveReadInv, ShowReadInv
  <1>4. CASE p \in Anchors /\ (CheckRecord(p) \/ RecordCompared(p) \/ WriteOutput(p) \/ Seal(p))
    BY <1>4, CheckRecordInv, RecordComparedInv, WriteOutputInv, SealInv
  <1>5. CASE \E a \in Anchors : LoadSummary(a) \/ LoadInput(a) \/ LoadOutput(a)
    BY <1>5, LoadSummaryInv, LoadInputInv, LoadOutputInv
  <1>6. CASE LoadSaved \/ Judge \/ Validated \/ Accepted
    BY <1>6, LoadSavedInv, JudgeStepInv, ValidatedInv, AcceptedInv
  <1>7. CASE \E a \in Anchors : BeginJudging(a)
    BY <1>7, BeginJudgingInv
  <1>8. CASE CompareNext(p)
    BY <1>8, CompareNextInv
  <1> QED
    BY <1>1, <1>2, <1>3, <1>4, <1>5, <1>6, <1>7, <1>8 DEF Step

LEMMA InvStep == Inv /\ [Next]_vars => Inv'
  <1> SUFFICES ASSUME Inv, [Next]_vars PROVE Inv'
    OBVIOUS
  <1>1. CASE \E f \in Files : Edit(f)
    BY <1>1, EditInv
  <1>2. CASE \E p \in Processes : Crash(p)
    BY <1>2, CrashInv
  <1>3. CASE \E a \in Anchors : Reassign(a) \/ RequestRead(a)
    BY <1>3, ReassignInv, RequestReadInv
  <1>4. CASE \E p \in Processes, command \in {"start", "record", "load"} : TakeInventory(p, command)
    BY <1>4, TakeInventoryInv
  <1>5. CASE \E p \in Processes : Step(p)
    BY <1>5, StepInv
  <1>6. CASE UNCHANGED vars
    <2>1. TypeOK' /\ PcOK' /\ MutualExclusion'
      BY <1>6 DEF Inv, TypeOK, PcOK, MutualExclusion, Locked, vars
    <2>2. \A a \in Anchors : AttemptInv(a)'
      BY <1>6, SameAttempt DEF Inv, vars
    <2>3. GateInv'
      BY <1>6 DEF Inv, GateInv, vars
    <2> QED BY <2>1, <2>2, <2>3 DEF Inv
  <1> QED
    BY <1>1, <1>2, <1>3, <1>4, <1>5, <1>6 DEF Next

(* InvHolds: the invariant of the review commands holds of every behaviour.      *)
THEOREM InvHolds == Spec => []Inv
  BY InvInit, InvStep, PTL DEF Spec

-----------------------------------------------------------------------------
(* What follows from it.                                                       *)

(* OneAtATime: at most one process is between taking the lock of validations/    *)
(* and giving it up (review.rs:475, lock_directory), with any number of          *)
(* reviewers and whatever process is killed.                                     *)
THEOREM OneAtATime == Spec => []MutualExclusion
  <1>1. Inv => MutualExclusion
    BY DEF Inv
  <1> QED
    BY <1>1, InvHolds, PTL

(* SeenSaved: what a reviewer has been shown is in the inputs that are saved      *)
(* (review.rs:542 and :577), after any crash.                                     *)
THEOREM SeenSaved == Spec => []SeenIsSaved
  <1>1. Inv => SeenIsSaved
    BY DEF Inv, SeenIsSaved, AttemptInv, Kept
  <1> QED
    BY <1>1, InvHolds, PTL

(* ReportsStand: a report never stands beside other inputs than those its author  *)
(* was shown (review.rs:538).                                                     *)
THEOREM ReportsStand == Spec => []ReportOfTheseInputs
  <1>1. Inv => ReportOfTheseInputs
    BY DEF Inv, ReportOfTheseInputs, AttemptInv
  <1> QED
    BY <1>1, InvHolds, PTL

-----------------------------------------------------------------------------
(* What a judgement of the gate has found so far.                              *)

\* A text that stood in some workspace since the gate began with this anchor.
Stood(fragment) == \E w \in stood : w[fragment.path] = fragment.contents

JudgeInv ==
    progress[Gate] # None =>
      LET of == progress[Gate].of
      IN  /\ pc[Gate] \in Passes
          /\ Accepting(of)
          /\ source \in stood
          /\ progress[Gate].matches =>
               /\ saved[of].input.initial = text[Gate]
               /\ \A i \in DOMAIN saved[of].input.reads :
                    i < progress[Gate].next => Stood(saved[of].input.reads[i])

LEMMA JudgementKept ==
  ASSUME JudgeInv, progress'[Gate] = progress[Gate],
         progress[Gate] # None =>
           /\ pc'[Gate] = pc[Gate] /\ text'[Gate] = text[Gate] /\ saved' = saved
           /\ stood \subseteq stood' /\ source' \in stood'
  PROVE  JudgeInv'
  BY DEF JudgeInv, Accepting, Stood

LEMMA NoJudgement == ASSUME progress'[Gate] = None PROVE JudgeInv'
  BY DEF JudgeInv

(* Away from its two passes the gate judges nothing. *)
LEMMA Judging == ASSUME JudgeInv, pc[Gate] \notin Passes PROVE progress[Gate] = None
  BY DEF JudgeInv

(* A step of a reviewer leaves a judgement alone. *)
LEMMA JudgeReviewer ==
  ASSUME Inv, JudgeInv, NEW a \in Anchors,
         UNCHANGED <<source, saved, stood>>,
         progress' = progress \/ \E r : progress' = [progress EXCEPT ![a] = r],
         pc' = pc \/ \E r : pc' = [pc EXCEPT ![a] = r],
         text' = text \/ \E r : text' = [text EXCEPT ![a] = r]
  PROVE  JudgeInv'
  <1>1. a # Gate
    BY Names
  <1>2. progress'[Gate] = progress[Gate] /\ pc'[Gate] = pc[Gate] /\ text'[Gate] = text[Gate]
    BY <1>1, Names DEF Inv, TypeOK, PcOK
  <1>3. progress[Gate] # None => source \in stood
    BY DEF JudgeInv
  <1> QED
    BY <1>2, <1>3, JudgementKept

LEMMA JudgeEdit == ASSUME JudgeInv, NEW f \in Files, Edit(f) PROVE JudgeInv'
  BY JudgementKept DEF Edit

LEMMA OneFurther ==
  ASSUME NEW s \in Seq(Fragments), NEW n \in Nat
  PROVE  \A i \in DOMAIN s : i < n + 1 => i < n \/ i = n
  OBVIOUS

LEMMA JudgeCompare == ASSUME Inv, JudgeInv, CompareNext(Gate) PROVE JudgeInv'
  <1> DEFINE of == progress[Gate].of
             next == progress[Gate].next
             reads == saved[of].input.reads
  <1>1. /\ progress[Gate] # None /\ next \in DOMAIN reads
        /\ UNCHANGED <<source, pc, text, saved, stood>>
        /\ progress' = [progress EXCEPT ![Gate] =
             [of |-> of, next |-> next + 1,
              matches |-> progress[Gate].matches /\ StillReads(reads[next])]]
    BY DEF CompareNext, Checked
  <1>2. /\ progress'[Gate].of = of /\ progress'[Gate].next = next + 1
        /\ progress'[Gate].matches = (progress[Gate].matches /\ StillReads(reads[next]))
    BY <1>1, Names DEF Inv, TypeOK
  <1>3. of \in Anchors /\ next \in Nat
    BY <1>1, Names DEF Inv, TypeOK, Progress
  <1>4. pc[Gate] \in Passes /\ Accepting(of) /\ source \in stood
    BY <1>1 DEF JudgeInv
  <1>5. reads \in Seq(Fragments)
    <2>1. saved[of].input \in Inputs \cup {None} /\ saved[of].input # None
      BY <1>3, <1>4 DEF Inv, GateInv, TypeOK, Directory, Accepting
    <2> QED BY <2>1, ReadsAreSequences
  <1>6. ASSUME progress'[Gate].matches
        PROVE  /\ saved[of].input.initial = text[Gate]
               /\ \A i \in DOMAIN reads : i < next + 1 => Stood(reads[i])
    <2>1. progress[Gate].matches /\ StillReads(reads[next])
      BY <1>2, <1>6
    <2>2. Stood(reads[next])
      <3>1. reads[next] = Selected(reads[next].path)
        BY <2>1 DEF StillReads
      <3>2. reads[next].contents = source[reads[next].path]
        BY <3>1 DEF Selected
      <3> QED BY <3>2, <1>4 DEF Stood
    <2>3. \A i \in DOMAIN reads : i < next + 1 => i < next \/ i = next
      BY <1>3, <1>5, OneFurther
    <2>4. /\ saved[of].input.initial = text[Gate]
          /\ \A i \in DOMAIN reads : i < next => Stood(reads[i])
      BY <1>1, <2>1 DEF JudgeInv
    <2> QED BY <2>2, <2>3, <2>4
  <1> HIDE DEF of, next, reads
  <1>7. saved'[of].input.reads = reads /\ saved'[of].input = saved[of].input
    BY <1>1 DEF reads
  <1> QED
    BY <1>1, <1>2, <1>4, <1>6, <1>7 DEF JudgeInv, Accepting, Stood

LEMMA JudgeBegin == ASSUME Inv, JudgeInv, NEW a \in Anchors, BeginJudging(a) PROVE JudgeInv'
  <1>1. /\ pc[Gate] \in Passes /\ progress[Gate] = None
        /\ UNCHANGED <<source, pc, text, saved>>
    BY DEF BeginJudging
  <1>2. CASE ~Accepting(a)
    BY <1>1, <1>2, NoJudgement DEF BeginJudging
  <1>3. CASE Accepting(a)
    <2> DEFINE begun == Begun(a, saved[a].input, text[Gate])
    <2>1. progress'[Gate] = begun /\ stood' = {source}
      BY <1>3, Names DEF BeginJudging, Inv, TypeOK
    <2>2. begun.of = a /\ begun.next = 1 /\ begun.matches = (saved[a].input.initial = text[Gate])
      BY DEF Begun, InitialMatches
    <2>3. saved[a].input.reads \in Seq(Fragments)
      <3>1. saved[a].input \in Inputs \cup {None} /\ saved[a].input # None
        BY <1>3 DEF Inv, GateInv, TypeOK, Directory, Accepting
      <3> QED BY <3>1, ReadsAreSequences
    <2>4. \A i \in DOMAIN saved[a].input.reads : ~(i < 1)
      BY <2>3
    <2> HIDE DEF begun
    <2> QED BY <1>1, <1>3, <2>1, <2>2, <2>4 DEF JudgeInv, Accepting, Stood
  <1> QED
    BY <1>2, <1>3

LEMMA JudgeOfGate ==
  ASSUME Inv, JudgeInv, Step(Gate)
  PROVE  JudgeInv'
  <1>1. CASE Acquire(Gate) \/ LoadSaved \/ \E a \in Anchors : LoadSummary(a) \/ LoadInput(a) \/ LoadOutput(a)
    <2>1. pc[Gate] \notin Passes /\ progress' = progress
      BY <1>1 DEF Acquire, Waiting, Entry, LoadSaved, LoadSummary, LoadInput, LoadOutput, Passes
    <2> QED BY <2>1, Judging, NoJudgement
  <1>2. CASE CompareNext(Gate)
    BY <1>2, JudgeCompare
  <1>3. CASE \E a \in Anchors : BeginJudging(a)
    BY <1>3, JudgeBegin
  <1>4. CASE Judge \/ Validated \/ Accepted
    <2>1. progress'[Gate] = None
      BY <1>4, Names DEF Judge, Validated, Accepted, End, Inv, TypeOK
    <2> QED BY <2>1, NoJudgement
  <1> QED
    BY <1>1, <1>2, <1>3, <1>4, Names DEF Step

LEMMA JudgeOfReviewer ==
  ASSUME Inv, JudgeInv, NEW a \in Anchors, Step(a)
  PROVE  JudgeInv'
  <1>1. CASE Acquire(a) \/ Clear(a) \/ WriteInput(a) \/ WriteSummary(a) \/ SaveRead(a) \/ WriteOutput(a)
    BY <1>1, JudgeReviewer DEF Acquire, Clear, WriteInput, WriteSummary, SaveRead, WriteOutput
  <1>2. CASE Started(a) \/ ShowRead(a) \/ Seal(a)
    BY <1>2, JudgeReviewer DEF Started, ShowRead, Seal, End
  <1>3. CASE SelectText(a)
    BY <1>3, JudgeReviewer DEF SelectText, End
  <1>4. CASE CheckRecord(a) \/ RecordCompared(a)
    BY <1>4, JudgeReviewer DEF CheckRecord, RecordCompared, End
  <1>5. CASE CompareNext(a)
    BY <1>5, JudgeReviewer DEF CompareNext
  <1> QED
    BY <1>1, <1>2, <1>3, <1>4, <1>5, Names DEF Step

LEMMA JudgeStep == Inv /\ JudgeInv /\ [Next]_vars => JudgeInv'
  <1> SUFFICES ASSUME Inv, JudgeInv, [Next]_vars PROVE JudgeInv'
    OBVIOUS
  <1>1. CASE \E f \in Files : Edit(f)
    BY <1>1, JudgeEdit
  <1>2. ASSUME NEW p \in Processes, Crash(p) PROVE JudgeInv'
    <2>1. CASE p = Gate
      BY <1>2, <2>1, Names, NoJudgement DEF Crash, End, Inv, TypeOK
    <2>2. CASE p \in Anchors
      BY <1>2, <2>2, Names, JudgeReviewer DEF Crash, End
    <2> QED BY <2>1, <2>2 DEF Processes
  <1>3. ASSUME NEW a \in Anchors, Reassign(a) \/ RequestRead(a) PROVE JudgeInv'
    BY <1>3, JudgeReviewer DEF Reassign, RequestRead
  <1>4. ASSUME NEW p \in Processes, NEW command \in {"start", "record", "load"}, TakeInventory(p, command)
        PROVE  JudgeInv'
    <2>1. CASE p = Gate
      BY <1>4, <2>1, Judging, NoJudgement DEF TakeInventory, Passes
    <2>2. CASE p \in Anchors
      BY <1>4, <2>2, JudgeReviewer DEF TakeInventory
    <2> QED BY <2>1, <2>2 DEF Processes
  <1>5. CASE \E p \in Processes : Step(p)
    BY <1>5, JudgeOfGate, JudgeOfReviewer DEF Processes
  <1>6. CASE UNCHANGED vars
    BY <1>6 DEF JudgeInv, Accepting, Stood, vars
  <1> QED
    BY <1>1, <1>2, <1>3, <1>4, <1>5, <1>6 DEF Next

LEMMA JudgeHolds == Spec => [](Inv /\ JudgeInv)
  <1>1. Init => Inv /\ JudgeInv
    BY InvInit, Names DEF Init, JudgeInv
  <1>2. Inv /\ JudgeInv /\ [Next]_vars => (Inv /\ JudgeInv)'
    BY InvStep, JudgeStep
  <1> QED
    BY <1>1, <1>2, PTL DEF Spec

LEMMA ApprovedByJudge ==
  ASSUME Inv, [Next]_vars, NEW a \in Anchors, approved'[a] \ approved[a] # {}
  PROVE  Judge /\ progress[Gate].matches /\ a = progress[Gate].of
  <1>1. ASSUME approved' = approved PROVE FALSE
    BY <1>1
  <1>2. ASSUME approved' = NothingApproved PROVE FALSE
    BY <1>2 DEF NothingApproved
  <1>3. ASSUME NEW p \in Processes, Step(p) PROVE approved' = approved \/ approved' = NothingApproved \/ Judge
    BY <1>3 DEF Step, Acquire, Clear, WriteInput, WriteSummary, Started, SelectText, SaveRead,
                ShowRead, CheckRecord, RecordCompared, CompareNext, WriteOutput, Seal, LoadSummary,
                LoadInput, LoadOutput, LoadSaved, BeginJudging, Validated, Accepted, Forget
  <1>4. Judge
    BY <1>1, <1>2, <1>3 DEF Next, vars, Edit, Crash, Reassign, RequestRead, TakeInventory, Forget
  <1>5. progress[Gate].matches
    BY <1>1, <1>4 DEF Judge
  <1>6. a = progress[Gate].of
    BY <1>1, <1>4, <1>5 DEF Judge, Inv, TypeOK
  <1> QED
    BY <1>4, <1>5, <1>6

(* A comparison that is past the end of the fragments has seen them all. *)
LEMMA ComparedAll ==
  ASSUME NEW s \in Seq(Fragments), NEW n \in Nat \ {0}, n \notin DOMAIN s
  PROVE  \A i \in DOMAIN s : i < n
  OBVIOUS

(* ApprovalsCurrent: a pass of the gate accepts an anchor only on a report without *)
(* edits, about the initial fragment of the gate's own inventory and, of each file  *)
(* read later, a text that stood there at some moment of this judgement, whatever   *)
(* is edited between two selections (review.rs:654, acceptable; :408, select).      *)
THEOREM ApprovalsCurrent == Spec => ApprovalIsCurrent
  <1> DEFINE Current(a) ==
        LET report == saved[a].output
        IN  /\ report.basis.initial = text[Gate]
            /\ \A i \in DOMAIN report.basis.reads :
                 LET fragment == report.basis.reads[i]
                 IN  \E w \in stood : w[fragment.path] = fragment.contents
            /\ ~report.edits
  <1>1. ASSUME Inv, JudgeInv, [Next]_vars, NEW a \in Anchors, approved'[a] \ approved[a] # {}
        PROVE  Current(a)
    <2>1. Judge /\ progress[Gate].matches /\ a = progress[Gate].of
      BY <1>1, ApprovedByJudge
    <2>2. progress[Gate] # None /\ progress[Gate].next \notin DOMAIN saved[a].input.reads
      BY <2>1 DEF Judge, Compared, Checked
    <2>3. Accepting(a) /\ saved[a].input.initial = text[Gate]
      BY <1>1, <2>1, <2>2 DEF JudgeInv
    <2>4. saved[a].input # None /\ Covers(saved[a].input, saved[a].output.basis)
      BY <1>1, <2>3 DEF Inv, GateInv, Accepting
    <2>5. progress[Gate].next \in Nat \ {0}
      BY <1>1, <2>2, Names DEF Inv, TypeOK, Progress
    <2>6. saved[a].input.reads \in Seq(Fragments)
      BY <1>1, <2>4, ReadsAreSequences DEF Inv, TypeOK, Directory
    <2>7. PICK f \in [DOMAIN saved[a].output.basis.reads -> DOMAIN saved[a].input.reads] :
            \A i \in DOMAIN saved[a].output.basis.reads :
              saved[a].input.reads[f[i]] = saved[a].output.basis.reads[i]
      BY <2>4 DEF Covers
    <2>8. Compared(Gate) /\ \A i \in DOMAIN saved[a].input.reads : Stood(saved[a].input.reads[i])
      <3>1. \A i \in DOMAIN saved[a].input.reads : i < progress[Gate].next
        BY <1>1, <2>1, <2>2, <2>5, <2>6, ComparedAll
      <3> QED BY <1>1, <2>1, <2>2, <3>1 DEF JudgeInv, Judge
    <2>9. \A i \in DOMAIN saved[a].output.basis.reads : Stood(saved[a].output.basis.reads[i])
      BY <2>7, <2>8
    <2> QED BY <2>3, <2>4, <2>9 DEF Covers, Accepting, Stood
  <1>2. Inv /\ JudgeInv /\ [Next]_vars =>
          [\A a \in Anchors : approved'[a] \ approved[a] # {} => Current(a)]_vars
    BY <1>1
  <1> QED
    BY <1>2, JudgeHolds, PTL DEF Spec, ApprovalIsCurrent

(* InputsStay: while a report is on disk its inputs are not replaced (review.rs    *)
(* :567 and :594), even when the summary that records the report was never        *)
(* written.                                                                       *)
THEOREM InputsStay == Spec => JudgedInputsStay
  <1> DEFINE Stays(a) ==
        disk[a].output # None /\ disk'[a].output # None =>
          disk'[a].input \in {disk[a].input, None} /\ disk'[a].output = disk[a].output
  <1>1. ASSUME Inv, NEW a \in Anchors, disk' = disk PROVE Stays(a)
    BY <1>1
  <1>2. ASSUME Inv, NEW a \in Anchors, NEW p \in Anchors,
               Clear(p) \/ WriteInput(p) \/ WriteSummary(p) \/ SaveRead(p) \/ WriteOutput(p) \/ Seal(p)
        PROVE  Stays(a)
    <2>1. CASE p # a
      BY <1>2, <2>1 DEF Inv, TypeOK, Clear, WriteInput, WriteSummary, SaveRead, WriteOutput, Seal
    <2>2. CASE p = a /\ Clear(a)
      BY <2>2, MyType, <1>2 DEF Inv, TypeOK, Clear
    <2>3. CASE p = a /\ (WriteInput(a) \/ WriteSummary(a) \/ SaveRead(a) \/ WriteOutput(a))
      <3>1. disk[a].output = None
        <4>1. CASE WriteInput(a)
          <5>1. disk[a] = EmptyDirectory
            BY <1>2, <4>1, MyType DEF AttemptInv, WriteInput
          <5> QED BY <5>1 DEF EmptyDirectory
        <4>2. CASE WriteSummary(a) \/ SaveRead(a) \/ WriteOutput(a)
          BY <1>2, <4>2, MyType DEF AttemptInv, WriteSummary, SaveRead, WriteOutput
        <4> QED BY <2>3, <4>1, <4>2
      <3> QED BY <3>1
    <2>4. CASE p = a /\ Seal(a)
      BY <1>2, <2>4, MyType DEF Inv, TypeOK, Seal
    <2> QED BY <1>2, <2>1, <2>2, <2>3, <2>4
  <1>3. ASSUME [Next]_vars
        PROVE  disk' = disk \/
               \E p \in Anchors : Clear(p) \/ WriteInput(p) \/ WriteSummary(p) \/ SaveRead(p)
                                  \/ WriteOutput(p) \/ Seal(p)
    <2>1. ASSUME NEW p \in Processes, Step(p)
          PROVE  \/ disk' = disk
                 \/ /\ p \in Anchors
                    /\ \/ Clear(p) \/ WriteInput(p) \/ WriteSummary(p)
                       \/ SaveRead(p) \/ WriteOutput(p) \/ Seal(p)
      <3>1. CASE Acquire(p) \/ LoadSaved \/ Judge \/ Validated \/ Accepted \/ CompareNext(p)
        BY <3>1 DEF Acquire, LoadSaved, Judge, Validated, Accepted, CompareNext
      <3>2. CASE Started(p) \/ SelectText(p) \/ ShowRead(p) \/ CheckRecord(p) \/ RecordCompared(p)
        BY <3>2 DEF Started, SelectText, ShowRead, CheckRecord, RecordCompared
      <3>3. CASE \E a \in Anchors : LoadSummary(a) \/ LoadInput(a) \/ LoadOutput(a) \/ BeginJudging(a)
        BY <3>3 DEF LoadSummary, LoadInput, LoadOutput, BeginJudging
      <3> QED BY <2>1, <3>1, <3>2, <3>3 DEF Step
    <2> QED
      BY <1>3, <2>1 DEF Next, vars, Edit, Crash, Reassign, RequestRead, TakeInventory
  <1>4. Inv /\ [Next]_vars => [\A a \in Anchors : Stays(a)]_vars
    BY <1>1, <1>2, <1>3
  <1> QED
    BY <1>4, InvHolds, PTL DEF Spec, JudgedInputsStay
=============================================================================
