-------------------------- MODULE Whiteboard_proofs --------------------------
(***************************************************************************)
(* Proofs about Whiteboard, for any logic programs, any root goals and any *)
(* depth bound: no task is forgotten, the lookup table holds the frames    *)
(* that are not abandoned and no other, nothing is left behind, the loop   *)
(* never comes to the panic "trait solver deadlock", and the answers are   *)
(* those of the program, whatever the schedule.                            *)
(***************************************************************************)
EXTENDS Whiteboard, FiniteSetTheorems, SequenceTheorems, WellFoundedInduction, TLAPS

-----------------------------------------------------------------------------
(* Induction over the natural numbers, about sets.                         *)

LEMMA LeastNumber ==
  ASSUME NEW S \in SUBSET Nat, S # {}
  PROVE  \E m \in S : \A k \in S : m <= k
  <1>1. IsWellFoundedOn(OpToRel(<, Nat), Nat)
    BY NatLessThanWellFounded
  <1>2. PICK m \in S : \A k \in S : ~ (<<k, m>> \in OpToRel(<, Nat))
    BY <1>1, WFMin
  <1>3. OpToRel(<, Nat) = {p \in Nat \X Nat : p[1] < p[2]}
    BY DEF OpToRel
  <1>4. ASSUME NEW k \in S PROVE m <= k
    <2>1. <<k, m>> \in Nat \X Nat /\ <<k, m>>[1] = k /\ <<k, m>>[2] = m
      OBVIOUS
    <2>2. ~ (k < m)
      BY <1>2, <1>3, <2>1
    <2> QED BY <2>2
  <1> QED BY <1>4

LEMMA EveryNumber ==
  ASSUME NEW S, 0 \in S, \A n \in Nat : n \in S => n + 1 \in S
  PROVE  Nat \subseteq S
  <1> SUFFICES ASSUME Nat \ S # {} PROVE FALSE
    OBVIOUS
  <1>1. PICK m \in Nat \ S : \A k \in Nat \ S : m <= k
    BY LeastNumber
  <1>2. m # 0
    OBVIOUS
  <1>3. m - 1 \in Nat /\ ~ (m <= m - 1)
    BY <1>2
  <1>4. m - 1 \in S
    BY <1>1, <1>3
  <1> QED BY <1>3, <1>4

LEMMA GreatestNumber ==
  ASSUME NEW n \in Nat, NEW S \in SUBSET (1 .. n), S # {}
  PROVE  \E m \in S : \A k \in S : k <= m
  <1> DEFINE T == {n - k : k \in S}
  <1>1. T \in SUBSET Nat /\ T # {}
    <2>1. ASSUME NEW k \in S PROVE n - k \in Nat
      OBVIOUS
    <2> QED BY <2>1
  <1>2. PICK t \in T : \A u \in T : t <= u
    BY <1>1, LeastNumber
  <1>3. PICK m \in S : t = n - m
    BY <1>2
  <1>4. ASSUME NEW k \in S PROVE k <= m
    <2>1. n - k \in T
      OBVIOUS
    <2>2. n - m <= n - k
      BY <1>2, <1>3, <2>1
    <2>3. k \in Int /\ m \in Int
      OBVIOUS
    <2> QED BY <2>2, <2>3
  <1> QED BY <1>4

-----------------------------------------------------------------------------
(* Queues.                                                                 *)

LEMMA AppendedQueue ==
  ASSUME NEW S, NEW q \in Seq(S), NEW x \in S
  PROVE  /\ Append(q, x) \in Seq(S)
         /\ ToSet(Append(q, x)) = ToSet(q) \cup {x}
         /\ IsInjective(q) /\ x \notin ToSet(q) => IsInjective(Append(q, x))
  <1>1. /\ Append(q, x) \in Seq(S) /\ Len(q) \in Nat
        /\ DOMAIN q = 1 .. Len(q) /\ DOMAIN Append(q, x) = 1 .. (Len(q) + 1)
        /\ Append(q, x)[Len(q) + 1] = x /\ \A i \in 1 .. Len(q) : Append(q, x)[i] = q[i]
    OBVIOUS
  <1> DEFINE r == Append(q, x)
  <1> HIDE DEF r
  <1>2. DOMAIN r = DOMAIN q \cup {Len(q) + 1} /\ r[Len(q) + 1] = x /\ \A i \in DOMAIN q : r[i] = q[i]
    BY <1>1 DEF r
  <1>3. ToSet(r) = ToSet(q) \cup {x}
    BY <1>2 DEF ToSet
  <1>4. ASSUME IsInjective(q), x \notin ToSet(q) PROVE IsInjective(r)
    <2>1. \A i \in DOMAIN q : r[i] # x
      BY <1>2, <1>4 DEF ToSet
    <2> QED BY <1>2, <1>4, <2>1 DEF IsInjective
  <1> QED BY <1>1, <1>3, <1>4 DEF r

LEMMA PoppedQueue ==
  ASSUME NEW S, NEW q \in Seq(S), q # <<>>
  PROVE  /\ Head(q) \in S /\ Tail(q) \in Seq(S)
         /\ ToSet(q) = {Head(q)} \cup ToSet(Tail(q))
         /\ IsInjective(q) => IsInjective(Tail(q)) /\ Head(q) \notin ToSet(Tail(q))
  <1>1. /\ Head(q) = q[1] /\ Head(q) \in S /\ Tail(q) \in Seq(S) /\ Len(q) \in Nat \ {0}
        /\ DOMAIN q = 1 .. Len(q) /\ DOMAIN Tail(q) = 1 .. (Len(q) - 1)
        /\ \A i \in 1 .. (Len(q) - 1) : Tail(q)[i] = q[i + 1]
    OBVIOUS
  <1> DEFINE r == Tail(q)
  <1> HIDE DEF r
  <1>2. DOMAIN r = 1 .. (Len(q) - 1) /\ \A i \in DOMAIN r : r[i] = q[i + 1] /\ i + 1 \in DOMAIN q /\ i + 1 # 1
    BY <1>1 DEF r
  <1>3. \A j \in DOMAIN q : j = 1 \/ (j - 1 \in DOMAIN r /\ r[j - 1] = q[j])
    BY <1>1, <1>2
  <1>4. 1 \in DOMAIN q
    BY <1>1
  <1>5. ToSet(q) = {q[1]} \cup ToSet(r)
    <2>1. ASSUME NEW x \in ToSet(q) PROVE x = q[1] \/ x \in ToSet(r)
      <3>1. PICK j \in DOMAIN q : x = q[j]
        BY DEF ToSet
      <3> QED BY <1>3, <3>1 DEF ToSet
    <2>2. ASSUME NEW x \in ToSet(r) PROVE x \in ToSet(q)
      <3>1. PICK i \in DOMAIN r : x = r[i]
        BY DEF ToSet
      <3> QED BY <1>2, <3>1 DEF ToSet
    <2>3. q[1] \in ToSet(q)
      BY <1>4 DEF ToSet
    <2> QED BY <2>1, <2>2, <2>3
  <1>6. ASSUME IsInjective(q) PROVE IsInjective(r) /\ q[1] \notin ToSet(r)
    <2>1. q[1] \notin ToSet(r)
      BY <1>2, <1>4, <1>6 DEF ToSet, IsInjective
    <2>2. ASSUME NEW i \in DOMAIN r, NEW j \in DOMAIN r, r[i] = r[j] PROVE i = j
      <3>1. i + 1 = j + 1
        BY <1>2, <1>6, <2>2 DEF IsInjective
      <3> QED BY <1>2, <3>1
    <2> QED BY <2>1, <2>2 DEF IsInjective
  <1> QED BY <1>1, <1>5, <1>6 DEF r

LEMMA JoinedQueue ==
  ASSUME NEW S, NEW q \in Seq(S), NEW r \in Seq(S)
  PROVE  /\ q \o r \in Seq(S)
         /\ ToSet(q \o r) = ToSet(q) \cup ToSet(r)
         /\ IsInjective(q) /\ IsInjective(r) /\ ToSet(q) \cap ToSet(r) = {} => IsInjective(q \o r)
  <1>1. /\ q \o r \in Seq(S) /\ Len(q) \in Nat /\ Len(r) \in Nat
        /\ DOMAIN q = 1 .. Len(q) /\ DOMAIN r = 1 .. Len(r)
        /\ DOMAIN (q \o r) = 1 .. (Len(q) + Len(r))
        /\ \A i \in 1 .. (Len(q) + Len(r)) : (q \o r)[i] = IF i <= Len(q) THEN q[i] ELSE r[i - Len(q)]
    OBVIOUS
  <1> DEFINE s == q \o r
  <1> HIDE DEF s
  <1>2. \A i \in DOMAIN s : \/ i \in DOMAIN q /\ s[i] = q[i]
                            \/ i \notin DOMAIN q /\ i - Len(q) \in DOMAIN r /\ s[i] = r[i - Len(q)]
    BY <1>1 DEF s
  <1>3. /\ \A i \in DOMAIN q : i \in DOMAIN s /\ s[i] = q[i]
        /\ \A j \in DOMAIN r : j + Len(q) \in DOMAIN s /\ s[j + Len(q)] = r[j]
    BY <1>1 DEF s
  <1>4. ToSet(s) = ToSet(q) \cup ToSet(r)
    BY <1>2, <1>3 DEF ToSet
  <1>5. ASSUME IsInjective(q), IsInjective(r), ToSet(q) \cap ToSet(r) = {} PROVE IsInjective(s)
    <2> SUFFICES ASSUME NEW i \in DOMAIN s, NEW j \in DOMAIN s, s[i] = s[j] PROVE i = j
      BY DEF IsInjective
    <2>1. \A k \in DOMAIN q, l \in DOMAIN r : q[k] # r[l]
      BY <1>5 DEF ToSet
    <2>2. i \in DOMAIN q <=> j \in DOMAIN q
      BY <1>2, <2>1
    <2>3. CASE i \in DOMAIN q
      BY <1>2, <1>5, <2>2, <2>3 DEF IsInjective
    <2>4. CASE i \notin DOMAIN q
      <3>1. i - Len(q) = j - Len(q)
        BY <1>2, <1>5, <2>2, <2>4 DEF IsInjective
      <3> QED BY <1>1, <3>1 DEF s
    <2> QED BY <2>3, <2>4
  <1> QED BY <1>1, <1>4, <1>5 DEF s

LEMMA Enqueued ==
  ASSUME NEW S, NEW q \in Seq(S), NEW x \in S
  PROVE  /\ Enqueue(q, x) \in Seq(S)
         /\ ToSet(Enqueue(q, x)) = ToSet(q) \cup {x}
         /\ IsInjective(q) => IsInjective(Enqueue(q, x))
  <1>1. Contains(q, x) <=> x \in ToSet(q)
    BY DEF Contains, ToSet
  <1> QED
    BY <1>1, AppendedQueue DEF Enqueue

(* What Filtered computes exists, prefix by prefix.                        *)
KeptIn(queue, gone, n, kept) ==
  kept = [i \in 0 .. n |->
            IF i = 0 THEN <<>>
            ELSE IF queue[i] \in gone THEN kept[i - 1] ELSE Append(kept[i - 1], queue[i])]

LEMMA KeptExists ==
  ASSUME NEW queue, NEW gone, NEW n \in Nat
  PROVE  \E kept : KeptIn(queue, gone, n, kept)
  <1> DEFINE S == {m \in Nat : \E kept : KeptIn(queue, gone, m, kept)}
  <1>1. 0 \in S
    <2> DEFINE kept == [i \in 0 .. 0 |-> <<>>]
    <2>1. KeptIn(queue, gone, 0, kept)
      BY DEF KeptIn
    <2> QED BY <2>1
  <1>2. ASSUME NEW m \in Nat, m \in S PROVE m + 1 \in S
    <2>1. PICK kept : KeptIn(queue, gone, m, kept)
      BY <1>2
    <2> DEFINE last == IF queue[m + 1] \in gone THEN kept[m] ELSE Append(kept[m], queue[m + 1])
               more == [i \in 0 .. (m + 1) |-> IF i = m + 1 THEN last ELSE kept[i]]
    <2>2. ASSUME NEW i \in 0 .. (m + 1)
          PROVE  more[i] = IF i = 0 THEN <<>>
                           ELSE IF queue[i] \in gone THEN more[i - 1] ELSE Append(more[i - 1], queue[i])
      <3>1. CASE i = m + 1
        <4>1. i # 0 /\ i - 1 = m /\ m \in 0 .. (m + 1) /\ m # m + 1
          BY <3>1
        <4> QED BY <3>1, <4>1
      <3>2. CASE i # m + 1
        <4>1. i \in 0 .. m /\ (i # 0 => i - 1 \in 0 .. m /\ i - 1 # m + 1 /\ i - 1 \in 0 .. (m + 1))
          BY <3>2
        <4>2. kept[i] = IF i = 0 THEN <<>>
                        ELSE IF queue[i] \in gone THEN kept[i - 1] ELSE Append(kept[i - 1], queue[i])
          BY <2>1, <4>1 DEF KeptIn
        <4>3. more[i] = kept[i] /\ (i # 0 => more[i - 1] = kept[i - 1])
          BY <3>2, <4>1
        <4> HIDE DEF more
        <4> QED BY <4>2, <4>3
      <3> QED BY <3>1, <3>2
    <2>3. KeptIn(queue, gone, m + 1, more)
      <3>1. more = [i \in 0 .. (m + 1) |-> more[i]]
        OBVIOUS
      <3> HIDE DEF more
      <3> QED BY <2>2, <3>1 DEF KeptIn
    <2> QED BY <2>3
  <1> HIDE DEF S
  <1>3. n \in S
    BY <1>1, <1>2, EveryNumber
  <1> QED BY <1>3 DEF S

LEMMA FilteredQueue ==
  ASSUME NEW S, NEW q \in Seq(S), NEW gone
  PROVE  /\ Filtered(q, gone) \in Seq(S)
         /\ ToSet(Filtered(q, gone)) = ToSet(q) \ gone
         /\ IsInjective(q) => IsInjective(Filtered(q, gone))
  <1> DEFINE kept == CHOOSE k : KeptIn(q, gone, Len(q), k)
  <1>1. Len(q) \in Nat /\ DOMAIN q = 1 .. Len(q) /\ \A i \in 1 .. Len(q) : q[i] \in S
    OBVIOUS
  <1>2. KeptIn(q, gone, Len(q), kept)
    BY <1>1, KeptExists
  <1>3. Filtered(q, gone) = kept[Len(q)]
    BY DEF Filtered, KeptIn
  <1> HIDE DEF kept
  <1> DEFINE Good(i) == /\ kept[i] \in Seq(S)
                        /\ ToSet(kept[i]) = {q[j] : j \in 1 .. i} \ gone
                        /\ IsInjective(q) => IsInjective(kept[i])
             T == {i \in Nat : i <= Len(q) => Good(i)}
  <1>4. 0 \in T
    <2>1. kept[0] = <<>>
      BY <1>1, <1>2 DEF KeptIn
    <2>2. ToSet(<<>>) = {} /\ IsInjective(<<>>)
      BY DEF ToSet, IsInjective
    <2>3. {q[j] : j \in 1 .. 0} = {}
      OBVIOUS
    <2>4. Good(0)
      BY <2>1, <2>2, <2>3
    <2> QED BY <2>4
  <1>5. ASSUME NEW i \in Nat, i \in T PROVE i + 1 \in T
    <2> SUFFICES ASSUME i + 1 <= Len(q) PROVE Good(i + 1)
      OBVIOUS
    <2>1. Good(i)
      BY <1>1, <1>5
    <2>2. i + 1 \in 0 .. Len(q) /\ i + 1 # 0 /\ (i + 1) - 1 = i /\ i + 1 \in 1 .. Len(q)
      BY <1>1
    <2>3. kept[i + 1] = IF q[i + 1] \in gone THEN kept[i] ELSE Append(kept[i], q[i + 1])
      BY <1>2, <2>2 DEF KeptIn
    <2>4. {q[j] : j \in 1 .. (i + 1)} = {q[j] : j \in 1 .. i} \cup {q[i + 1]}
      <3>1. 1 .. (i + 1) = (1 .. i) \cup {i + 1}
        OBVIOUS
      <3> QED BY <3>1
    <2>5. CASE q[i + 1] \in gone
      BY <2>1, <2>3, <2>4, <2>5
    <2>6. CASE q[i + 1] \notin gone
      <3>1. q[i + 1] \in S
        BY <1>1, <2>2
      <3>2. /\ Append(kept[i], q[i + 1]) \in Seq(S)
            /\ ToSet(Append(kept[i], q[i + 1])) = ToSet(kept[i]) \cup {q[i + 1]}
            /\ IsInjective(kept[i]) /\ q[i + 1] \notin ToSet(kept[i]) => IsInjective(Append(kept[i], q[i + 1]))
        BY <2>1, <3>1, AppendedQueue
      <3>3. IsInjective(q) => q[i + 1] \notin {q[j] : j \in 1 .. i}
        BY <1>1, <2>2 DEF IsInjective
      <3> QED BY <2>1, <2>3, <2>4, <2>6, <3>2, <3>3
    <2> QED BY <2>5, <2>6
  <1> HIDE DEF T
  <1>6. Len(q) \in T
    BY <1>1, <1>4, <1>5, EveryNumber
  <1>7. Good(Len(q))
    BY <1>1, <1>6 DEF T
  <1>8. {q[j] : j \in 1 .. Len(q)} = ToSet(q)
    BY <1>1 DEF ToSet
  <1> QED BY <1>3, <1>7, <1>8

LEMMA AllEnqueued ==
  ASSUME NEW S, NEW q \in Seq(S), NEW order \in Seq(S), IsInjective(order)
  PROVE  /\ EnqueueAll(q, order) \in Seq(S)
         /\ ToSet(EnqueueAll(q, order)) = ToSet(q) \cup ToSet(order)
         /\ IsInjective(q) => IsInjective(EnqueueAll(q, order))
  <1> DEFINE rest == Filtered(order, ToSet(q))
  <1>1. rest \in Seq(S) /\ ToSet(rest) = ToSet(order) \ ToSet(q) /\ IsInjective(rest)
    BY FilteredQueue
  <1>2. EnqueueAll(q, order) = q \o rest
    BY DEF EnqueueAll
  <1> HIDE DEF rest
  <1> QED BY <1>1, <1>2, JoinedQueue

(* A drained set comes out whole.                                          *)
LEMMA Drained ==
  ASSUME NEW D, IsFiniteSet(D), NEW order \in SetToSeqs(D)
  PROVE  order \in Seq(D) /\ ToSet(order) = D /\ IsInjective(order)
  <1> DEFINE n == Cardinality(D)
  <1>1. n \in Nat
    BY FS_CardinalityType
  <1>2. order \in [1 .. n -> D] /\ \A i, j \in 1 .. n : i # j => order[i] # order[j]
    BY DEF SetToSeqs
  <1>3. order \in Injection(1 .. n, D)
    BY <1>2 DEF Injection, IsInjective
  <1>4. IsFiniteSet(1 .. n) /\ Cardinality(1 .. n) = n
    BY <1>1, FS_Interval
  <1>5. order \in Surjection(1 .. n, D)
    BY <1>3, <1>4, FS_Injection
  <1>6. ToSet(order) = D
    BY <1>2, <1>5 DEF Surjection, ToSet
  <1>7. order \in Seq(D)
    BY <1>1, <1>2
  <1> QED BY <1>3, <1>6, <1>7 DEF Injection

-----------------------------------------------------------------------------
(* The inductive invariant.                                                *)

(* The pending frames, and the futures somebody still polls: theirs and    *)
(* the root's.                                                             *)
Pending == {f \in Frame : frames[f].state = "Pending"}
Polled == {Root} \cup Pending

FrameRecord == [query : Query, parent : Nat, depth : 1 .. MaxProofDepth,
                state : {"Pending", "Ready", "Abandoned"}, result : Result,
                subs : SUBSET (Nat \X (Nat \ {0}))]
TaskRecord == [at : Nat \ {0}, waits : SUBSET Nat, uncertain : BOOLEAN, done : BOOLEAN]
ProducerRecord == [tasks : Seq(TaskRecord), queue : Seq(Nat \ {0}), answers : SUBSET Result]

(* A producer has a task for each candidate of its frame.  It is queued at *)
(* most once and waits for one frame at most.                              *)
ProducersOK ==
  \A f \in {Root} \cup Frame :
    /\ producers[f] \in ProducerRecord
    /\ Len(producers[f].tasks) = Len(Bodies(f))
    /\ IsInjective(producers[f].queue)
    /\ \A c \in DOMAIN producers[f].tasks :
         Task(f, c).waits \subseteq Frame /\ \A g, h \in Task(f, c).waits : g = h

(* Where the loop is.  When the root is polled every frame is settled.     *)
LoopOK ==
  /\ running # Nobody => /\ polling \in {Root} \cup Frame
                         /\ running \in Live(polling)
                         /\ polling # Root => running \notin ToSet(producers[polling].queue)
  /\ polling = Root => phase = "root" /\ ~ rootReady /\ running = 1
  /\ polling \in Frame => phase = "frames" /\ polling \in Pending
  /\ phase # "frames" => ready = <<>> /\ Pending = {}
  /\ phase = "done" => polling = Idle
  /\ Live(Root) = IF phase = "done" THEN {} ELSE {1}
  /\ parked = Pending \ {polling}
  /\ ToSet(ready) \subseteq parked

(* A subscription is the waker of a task of the frame above, which waits   *)
(* for the frame and is neither queued nor running.                        *)
SubscribedBy(h, s) ==
  /\ h \in Pending /\ s[1] = frames[h].parent
  /\ s[1] \in Polled /\ s[2] \in Live(s[1]) /\ h \in Task(s[1], s[2]).waits
  /\ ~ (s[1] = polling /\ s[2] = running)
  /\ IF s[1] = Root THEN ~ rootReady ELSE s[2] \notin ToSet(producers[s[1]].queue)
Subscriptions ==
  /\ \A h \in Frame : \A s \in frames[h].subs : SubscribedBy(h, s)
  /\ \A h \in Pending : frames[h].subs # {}

(* A frame that is not about to be polled has something to wait for.       *)
Busy == \A f \in parked \ ToSet(ready) : Live(f) # {}

(* The keys of the lookup table: the depth follows from the parent.        *)
Table ==
  /\ entries = {f \in Frame : frames[f].state # "Abandoned"}
  /\ \A f, g \in entries :
       (f # g /\ frames[f].query = frames[g].query) => frames[f].parent # frames[g].parent
  /\ \A f \in Frame :
       frames[f].depth = (IF frames[f].parent = Root THEN 0 ELSE frames[frames[f].parent].depth) + 1

IInv == TypeOK /\ ProducersOK /\ LoopOK /\ Subscriptions /\ NobodyForgotten /\ Busy /\ Table

(* What the types say of frames and tasks.                                 *)
LEMMA Frames ==
  ASSUME TypeOK
  PROVE  /\ Len(frames) \in Nat /\ Frame = DOMAIN frames /\ Frame \subseteq Nat \ {0}
         /\ \A f \in Frame : frames[f] \in FrameRecord /\ frames[f].parent < f
         /\ Root \notin Frame /\ Idle \notin Frame /\ Idle # Root
  <1>1. frames \in Seq(FrameRecord) /\ \A f \in Frame : frames[f].parent < f
    BY DEF TypeOK, FrameRecord
  <1>2. Len(frames) \in Nat /\ DOMAIN frames = 1 .. Len(frames) /\ \A f \in DOMAIN frames : frames[f] \in FrameRecord
    BY <1>1
  <1> QED
    BY <1>1, <1>2 DEF Frame, Root, Idle

LEMMA Tasks ==
  ASSUME ProducersOK, NEW f \in {Root} \cup Frame
  PROVE  /\ DOMAIN producers[f].tasks = 1 .. Len(producers[f].tasks) /\ Len(producers[f].tasks) \in Nat
         /\ \A c \in DOMAIN producers[f].tasks : Task(f, c) \in TaskRecord /\ c \in Nat \ {0}
         /\ producers[f].queue \in Seq(Nat \ {0}) /\ IsInjective(producers[f].queue)
         /\ Nobody \notin Live(f)
  BY DEF ProducersOK, ProducerRecord, Task, Live, Nobody

(* Steps of the loop, which leave frames and producers alone.              *)
LEMMA SameBoard ==
  ASSUME IInv, UNCHANGED <<program, frames, entries, producers>>
  PROVE  /\ ProducersOK' /\ Table'
         /\ \A f : Live(f)' = Live(f)
         /\ Pending' = Pending /\ Polled' = Polled /\ Frame' = Frame
  BY DEF IInv, ProducersOK, Table, Live, Task, Bodies, Pending, Polled, Frame

LEMMA PollRootOK == ASSUME IInv, PollRoot PROVE IInv'
  <1>1. /\ phase = "root" /\ polling = Idle /\ rootReady /\ rootReady' = FALSE
        /\ polling' = Root /\ running' = 1
        /\ UNCHANGED <<program, frames, entries, producers, parked, ready, phase>>
    BY DEF PollRoot
  <1>2. /\ ProducersOK' /\ Table' /\ \A f : Live(f)' = Live(f)
        /\ Pending' = Pending /\ Polled' = Polled /\ Frame' = Frame
    BY <1>1, SameBoard
  <1>3. Root \notin Frame /\ Idle \notin Frame /\ Idle # Root
    BY Frames DEF IInv
  <1>4. Pending = {} /\ ready = <<>> /\ Live(Root) = {1} /\ parked = {}
    BY <1>1 DEF IInv, LoopOK
  <1>5. TypeOK'
    BY <1>1, <1>2 DEF IInv, TypeOK
  <1>6. LoopOK'
    BY <1>1, <1>2, <1>3, <1>4 DEF LoopOK, IInv, Nobody
  <1>7. Subscriptions'
    BY <1>1, <1>2, <1>4 DEF Subscriptions, SubscribedBy, IInv
  <1>8. NobodyForgotten'
    BY <1>1, <1>2, <1>4 DEF NobodyForgotten, Pending
  <1>9. Busy'
    BY <1>1, <1>4 DEF Busy
  <1> QED BY <1>2, <1>5, <1>6, <1>7, <1>8, <1>9 DEF IInv

LEMMA PopFrameOK == ASSUME IInv, PopFrame PROVE IInv'
  <1> DEFINE f == Head(ready)
  <1>1. /\ phase = "frames" /\ polling = Idle /\ ready # <<>> /\ ready' = Tail(ready)
        /\ UNCHANGED <<program, frames, entries, producers, rootReady, phase, running>>
    BY DEF PopFrame
  <1>2. /\ ProducersOK' /\ Table' /\ \A g : Live(g)' = Live(g)
        /\ Pending' = Pending /\ Polled' = Polled /\ Frame' = Frame
    BY <1>1, SameBoard
  <1>3. Root \notin Frame /\ Idle \notin Frame /\ Idle # Root
    BY Frames DEF IInv
  <1>4. running = Nobody /\ parked = Pending /\ ToSet(ready) \subseteq Pending /\ Pending \subseteq Frame
    BY <1>1, <1>3 DEF IInv, LoopOK, Pending
  <1>5. /\ ToSet(ready) = {f} \cup ToSet(ready') /\ IsInjective(ready') /\ f \notin ToSet(ready')
    <2>1. ready \in Seq(Frame) /\ IsInjective(ready)
      BY DEF IInv, TypeOK
    <2> QED BY <1>1, <2>1, PoppedQueue
  <1>6. polling' = f /\ parked' = parked \ {f} /\ f \in Pending
    BY <1>4, <1>5 DEF PopFrame, Pending
  <1> HIDE DEF f
  <1>7. TypeOK'
    BY <1>1, <1>2, <1>4, <1>5, <1>6 DEF IInv, TypeOK
  <1>8. LoopOK'
    BY <1>1, <1>2, <1>3, <1>4, <1>5, <1>6 DEF LoopOK, IInv
  <1>9. Subscriptions'
    <2>1. \A h \in Frame : \A s \in frames[h].subs : SubscribedBy(h, s) /\ s[2] # Nobody
      BY <1>4, Tasks DEF IInv, Subscriptions, SubscribedBy, Polled
    <2> QED BY <1>1, <1>2, <1>4, <2>1 DEF IInv, Subscriptions, SubscribedBy, Task
  <1>10. NobodyForgotten'
    BY <1>1, <1>2, <1>3, <1>4, <1>5, <1>6 DEF IInv, NobodyForgotten, Task, Pending
  <1>11. Busy'
    BY <1>1, <1>2, <1>5, <1>6 DEF IInv, Busy
  <1> QED BY <1>2, <1>7, <1>8, <1>9, <1>10, <1>11 DEF IInv

(* With nothing queued every frame is settled: a pending frame waits for a *)
(* younger one, and there is no youngest.                                  *)
LEMMA NothingPending ==
  ASSUME IInv, polling = Idle, ready = <<>>
  PROVE  Pending = {}
  <1> SUFFICES ASSUME Pending # {} PROVE FALSE
    OBVIOUS
  <1>1. /\ Len(frames) \in Nat /\ Frame = 1 .. Len(frames) /\ Root \notin Frame /\ Idle \notin Frame
        /\ \A f \in Frame : frames[f].parent < f /\ frames[f].parent \in Nat /\ f \in Nat
    BY Frames DEF IInv, Frame, FrameRecord
  <1>2. Pending \subseteq 1 .. Len(frames)
    BY DEF Pending, Frame
  <1>3. PICK m \in Pending : \A f \in Pending : f <= m
    BY <1>1, <1>2, GreatestNumber
  <1>4. m \in Frame /\ m # Root /\ m # polling /\ frames[m].state = "Pending"
    BY <1>1, <1>3 DEF Pending
  <1>5. ToSet(ready) = {}
    BY DEF ToSet
  <1>6. PICK c : c \in Live(m)
    BY <1>3, <1>4, <1>5 DEF IInv, LoopOK, Busy
  <1>7. PICK g \in Task(m, c).waits : frames[g].state = "Pending" /\ <<m, c>> \in frames[g].subs
    BY <1>4, <1>5, <1>6 DEF IInv, NobodyForgotten
  <1>8. g \in Frame
    BY <1>4, <1>6, <1>7 DEF IInv, ProducersOK, Live
  <1>9. g \in Pending /\ frames[g].parent = m
    BY <1>7, <1>8 DEF IInv, Subscriptions, SubscribedBy, Pending
  <1> QED BY <1>1, <1>3, <1>4, <1>8, <1>9

LEMMA NextRoundOK == ASSUME IInv, NextRound PROVE IInv'
  <1>1. /\ phase = "frames" /\ polling = Idle /\ ready = <<>> /\ phase' = "root"
        /\ UNCHANGED <<program, frames, entries, producers, parked, ready, rootReady, polling, running>>
    BY DEF NextRound
  <1>2. /\ ProducersOK' /\ Table' /\ \A f : Live(f)' = Live(f)
        /\ Pending' = Pending /\ Polled' = Polled /\ Frame' = Frame
    BY <1>1, SameBoard
  <1>3. Pending = {} /\ Idle \notin Frame /\ Idle # Root
    BY <1>1, NothingPending, Frames DEF IInv
  <1>4. TypeOK'
    BY <1>1, <1>2 DEF IInv, TypeOK
  <1>5. LoopOK'
    BY <1>1, <1>2, <1>3 DEF LoopOK, IInv
  <1>6. Subscriptions'
    BY <1>1, <1>2, <1>3 DEF Subscriptions, SubscribedBy, IInv
  <1>7. NobodyForgotten'
    BY <1>1, <1>2 DEF IInv, NobodyForgotten, Task
  <1>8. Busy'
    BY <1>1, <1>2 DEF IInv, Busy
  <1> QED BY <1>2, <1>4, <1>5, <1>6, <1>7, <1>8 DEF IInv

LEMMA ProducerPendingOK == ASSUME IInv, ProducerPending PROVE IInv'
  <1>1. /\ polling \in Frame /\ running = Nobody /\ producers[polling].queue = <<>> /\ Live(polling) # {}
        /\ parked' = parked \cup {polling} /\ polling' = Idle
        /\ UNCHANGED <<program, frames, entries, producers, ready, rootReady, phase, running>>
    BY DEF ProducerPending
  <1>2. /\ ProducersOK' /\ Table' /\ \A f : Live(f)' = Live(f)
        /\ Pending' = Pending /\ Polled' = Polled /\ Frame' = Frame
    BY <1>1, SameBoard
  <1>3. /\ Root \notin Frame /\ Idle \notin Frame /\ Idle # Root /\ polling \in Pending
        /\ phase = "frames" /\ Pending \subseteq Frame
    BY <1>1, Frames DEF IInv, LoopOK, Pending
  <1>4. TypeOK'
    BY <1>1, <1>2 DEF IInv, TypeOK
  <1>5. LoopOK'
    BY <1>1, <1>2, <1>3 DEF LoopOK, IInv
  <1>6. Subscriptions'
    <2>1. \A h \in Frame : \A s \in frames[h].subs : SubscribedBy(h, s) /\ s[2] # Nobody
      BY <1>3, Tasks DEF IInv, Subscriptions, SubscribedBy, Polled
    <2> QED BY <1>1, <1>2, <1>3, <2>1 DEF IInv, Subscriptions, SubscribedBy, Task
  <1>7. NobodyForgotten'
    <2>1. ToSet(producers[polling].queue) = {} /\ Nobody \notin Live(polling)
      BY <1>1, Tasks DEF IInv, ToSet
    <2> QED BY <1>1, <1>2, <1>3, <2>1 DEF IInv, NobodyForgotten, Task
  <1>8. Busy'
    BY <1>1, <1>2 DEF IInv, Busy
  <1> QED BY <1>2, <1>4, <1>5, <1>6, <1>7, <1>8 DEF IInv

-----------------------------------------------------------------------------
(* Steps of a producer.                                                    *)

(* The queue of a producer changes.                                        *)
LEMMA QueueChanged ==
  ASSUME IInv, NEW f \in {Root} \cup Frame, NEW queue \in Seq(Nat \ {0}), IsInjective(queue),
         producers' = [producers EXCEPT ![f].queue = queue], UNCHANGED <<program, Len(frames)>>,
         \A g \in Frame : frames[g].query = frames'[g].query
  PROVE  /\ ProducersOK' /\ DOMAIN producers' = DOMAIN producers
         /\ producers'[f].queue = queue
         /\ \A g \in {Root} \cup Frame : g # f => producers'[g] = producers[g]
         /\ \A g \in {Root} \cup Frame : producers'[g].tasks = producers[g].tasks
         /\ \A g \in {Root} \cup Frame : Live(g)' = Live(g) /\ \A c : Task(g, c)' = Task(g, c)
  <1>1. f \in DOMAIN producers /\ DOMAIN producers = {Root} \cup Frame /\ Frame' = Frame
    BY DEF IInv, TypeOK, Frame
  <1>2. producers[f] \in ProducerRecord
    BY DEF IInv, ProducersOK
  <1>3. /\ producers'[f] \in ProducerRecord /\ producers'[f].queue = queue
        /\ producers'[f].tasks = producers[f].tasks
        /\ \A g \in {Root} \cup Frame : g # f => producers'[g] = producers[g]
        /\ DOMAIN producers' = DOMAIN producers
    BY <1>1, <1>2 DEF ProducerRecord
  <1>4. \A g \in {Root} \cup Frame : producers'[g].tasks = producers[g].tasks
    BY <1>3
  <1>5. \A g \in {Root} \cup Frame : Live(g)' = Live(g) /\ \A c : Task(g, c)' = Task(g, c)
    BY <1>4 DEF Live, Task
  <1>6. \A g \in {Root} \cup Frame : Bodies(g)' = Bodies(g)
    BY DEF Bodies
  <1>7. ProducersOK'
    BY <1>1, <1>3, <1>4, <1>5, <1>6 DEF IInv, ProducersOK
  <1> QED BY <1>3, <1>4, <1>5, <1>7

LEMMA PollTaskOK == ASSUME IInv, PollTask PROVE IInv'
  <1> DEFINE q == producers[polling].queue
             c == Head(q)
  <1>1. /\ polling \in Frame /\ running = Nobody /\ q # <<>>
        /\ running' = IF c \in Live(polling) THEN c ELSE Nobody
        /\ producers' = [producers EXCEPT ![polling].queue = Tail(q)]
        /\ UNCHANGED <<program, frames, entries, parked, ready, rootReady, phase, polling>>
    BY DEF PollTask
  <1>2. /\ q \in Seq(Nat \ {0}) /\ IsInjective(q) /\ Nobody \notin Live(polling)
        /\ Root \notin Frame /\ polling # Root /\ polling # Idle
    BY <1>1, Tasks, Frames DEF IInv
  <1>3. /\ c \in Nat \ {0} /\ Tail(q) \in Seq(Nat \ {0}) /\ IsInjective(Tail(q))
        /\ ToSet(q) = {c} \cup ToSet(Tail(q)) /\ c \notin ToSet(Tail(q))
    BY <1>1, <1>2, PoppedQueue
  <1>4. /\ ProducersOK' /\ DOMAIN producers' = DOMAIN producers
        /\ producers'[polling].queue = Tail(q)
        /\ \A g \in {Root} \cup Frame : g # polling => producers'[g] = producers[g]
        /\ \A g \in {Root} \cup Frame : Live(g)' = Live(g) /\ \A d : Task(g, d)' = Task(g, d)
    BY <1>1, <1>3, QueueChanged
  <1> DEFINE rest == Tail(q)
  <1>5. /\ rest = producers'[polling].queue /\ producers[polling].queue = q
        /\ ToSet(q) = {c} \cup ToSet(rest) /\ c \notin ToSet(rest)
    BY <1>3, <1>4
  <1> HIDE DEF c, q, rest
  <1>6. Pending' = Pending /\ Polled' = Polled /\ Frame' = Frame /\ Pending \subseteq Frame
    BY <1>1 DEF Pending, Polled, Frame
  <1>7. TypeOK'
    BY <1>1, <1>3, <1>4, <1>6 DEF IInv, TypeOK, Nobody
  <1>8. LoopOK'
    BY <1>1, <1>2, <1>4, <1>5, <1>6 DEF IInv, LoopOK
  <1>9. Subscriptions'
    <2> SUFFICES ASSUME NEW h \in Frame, NEW s \in frames[h].subs PROVE SubscribedBy(h, s)'
      BY <1>1, <1>6 DEF IInv, Subscriptions
    <2>1. SubscribedBy(h, s) /\ s[1] \in {Root} \cup Frame /\ s[2] # Nobody
      BY <1>6, Tasks DEF IInv, Subscriptions, SubscribedBy, Polled
    <2>2. ~ (s[1] = polling /\ s[2] = running')
      BY <1>1, <1>2, <1>5, <2>1 DEF SubscribedBy
    <2>3. s[1] # Root => s[2] \notin ToSet(producers'[s[1]].queue)
      BY <1>4, <1>5, <2>1 DEF SubscribedBy
    <2> QED BY <1>1, <1>4, <1>6, <2>1, <2>2, <2>3 DEF SubscribedBy
  <1>10. NobodyForgotten'
    BY <1>1, <1>2, <1>4, <1>5, <1>6 DEF IInv, NobodyForgotten, Pending
  <1>11. Busy'
    BY <1>1, <1>4, <1>6 DEF IInv, Busy, LoopOK
  <1>12. Table'
    BY <1>1, <1>6 DEF IInv, Table
  <1> QED BY <1>4, <1>7, <1>8, <1>9, <1>10, <1>11, <1>12 DEF IInv

(* The task c of p becomes t.                                              *)
Retasked(p, c, t) ==
  /\ DOMAIN producers' = DOMAIN producers
  /\ \A g \in {Root} \cup Frame : g # p => producers'[g] = producers[g]
  /\ producers'[p].queue = producers[p].queue /\ producers'[p].answers \subseteq Result
  /\ producers'[p] = [tasks |-> producers'[p].tasks, queue |-> producers'[p].queue,
                      answers |-> producers'[p].answers]
  /\ producers'[p].tasks = [producers[p].tasks EXCEPT ![c] = t]

(* Whoever runs is a task of somebody who is polled.                       *)
LEMMA WhoRuns ==
  ASSUME IInv, running # Nobody
  PROVE  /\ polling \in Polled /\ polling \in {Root} \cup Frame /\ polling # Idle
         /\ running \in Live(polling) /\ running \in DOMAIN producers[polling].tasks
         /\ running \in Nat \ {0}
         /\ Task(polling, running) \in TaskRecord /\ ~ Task(polling, running).done
         /\ polling # Root => running \notin ToSet(producers[polling].queue)
         /\ polling = Root => phase = "root" /\ Pending = {} /\ ready = <<>> /\ ~ rootReady /\ running = 1
         /\ polling # Root => phase = "frames"
         /\ Pending \subseteq Frame
  BY Tasks, Frames DEF IInv, LoopOK, Polled, Pending, Live

LEMMA TaskChanged ==
  ASSUME IInv, NEW p \in {Root} \cup Frame, NEW c \in Live(p), NEW t \in TaskRecord,
         t.waits \subseteq Frame, \A g, h \in t.waits : g = h, Retasked(p, c, t),
         UNCHANGED <<program, Len(frames)>>,
         \A g \in Frame : frames[g].query = frames'[g].query
  PROVE  /\ ProducersOK'
         /\ \A g \in {Root} \cup Frame : producers'[g].queue = producers[g].queue
         /\ Task(p, c)' = t
         /\ \A g \in {Root} \cup Frame : \A d \in Live(g) : (g # p \/ d # c) => Task(g, d)' = Task(g, d)
         /\ \A g \in {Root} \cup Frame : g # p => Live(g)' = Live(g)
         /\ Live(p)' = IF t.done THEN Live(p) \ {c} ELSE Live(p)
  <1>1. p \in DOMAIN producers /\ DOMAIN producers = {Root} \cup Frame /\ Frame' = Frame
    BY DEF IInv, TypeOK, Frame
  <1>2. producers[p] \in ProducerRecord /\ c \in DOMAIN producers[p].tasks /\ ~ producers[p].tasks[c].done
    BY DEF IInv, ProducersOK, Live, Task
  <1> DEFINE old == producers[p].tasks
             new == producers'[p].tasks
  <1>3. /\ new \in Seq(TaskRecord) /\ Len(new) = Len(old) /\ DOMAIN new = DOMAIN old
        /\ new[c] = t /\ \A d \in DOMAIN old : d # c => new[d] = old[d]
    BY <1>2 DEF Retasked, ProducerRecord
  <1>4. producers'[p] \in ProducerRecord
    <2>1. producers'[p].queue \in Seq(Nat \ {0})
      BY <1>2 DEF Retasked, ProducerRecord
    <2> QED BY <1>3, <2>1 DEF Retasked, ProducerRecord
  <1>5. \A g \in {Root} \cup Frame : producers'[g].queue = producers[g].queue
    BY DEF Retasked
  <1>6. Task(p, c)' = t /\ \A d \in DOMAIN old : d # c => Task(p, d)' = Task(p, d)
    BY <1>3 DEF Task
  <1>7. \A g \in {Root} \cup Frame : g # p => Live(g)' = Live(g) /\ \A d : Task(g, d)' = Task(g, d)
    BY DEF Retasked, Live, Task
  <1>8. \A g \in {Root} \cup Frame : Bodies(g)' = Bodies(g)
    BY DEF Bodies
  <1>9. Live(p)' = IF t.done THEN Live(p) \ {c} ELSE Live(p)
    <2>1. Live(p)' = {d \in DOMAIN new : ~ Task(p, d)'.done} /\ Live(p) = {d \in DOMAIN old : ~ Task(p, d).done}
      BY DEF Live
    <2> HIDE DEF new, old
    <2>2. c \in DOMAIN old
      BY <1>2 DEF old
    <2> QED BY <1>3, <1>6, <2>1, <2>2
  <1>10. ASSUME NEW g \in {Root} \cup Frame, NEW d \in DOMAIN producers'[g].tasks
         PROVE  Task(g, d)'.waits \subseteq Frame /\ \A x, y \in Task(g, d)'.waits : x = y
    <2>1. CASE g # p
      <3>1. producers'[g] = producers[g]
        BY <2>1 DEF Retasked
      <3>2. d \in DOMAIN producers[g].tasks /\ Task(g, d)' = Task(g, d)
        BY <1>10, <3>1 DEF Task
      <3> QED BY <3>2 DEF IInv, ProducersOK
    <2>2. CASE g = p /\ d = c
      BY <1>6, <2>2
    <2>3. CASE g = p /\ d # c
      BY <1>3, <1>6, <1>10, <2>3 DEF IInv, ProducersOK
    <2> QED BY <2>1, <2>2, <2>3
  <1>11. ProducersOK'
    <2> SUFFICES ASSUME NEW g \in {Root} \cup Frame
                 PROVE  /\ producers'[g] \in ProducerRecord
                        /\ Len(producers'[g].tasks) = Len(Bodies(g))
                        /\ IsInjective(producers'[g].queue)
      BY <1>1, <1>8, <1>10 DEF ProducersOK
    <2>1. /\ producers[g] \in ProducerRecord
          /\ Len(producers[g].tasks) = Len(Bodies(g))
          /\ IsInjective(producers[g].queue)
      BY DEF IInv, ProducersOK
    <2> QED BY <1>3, <1>4, <1>5, <2>1 DEF Retasked
  <1>12. \A g \in {Root} \cup Frame : \A d \in Live(g) : (g # p \/ d # c) => Task(g, d)' = Task(g, d)
    BY <1>6, <1>7 DEF Live
  <1> QED BY <1>5, <1>6, <1>7, <1>9, <1>11, <1>12

(* The running task goes on, or ends without cancelling others.            *)
LEMMA TaskMoves ==
  ASSUME IInv, running # Nobody, NEW t \in TaskRecord, t.waits = {},
         Retasked(polling, running, t),
         UNCHANGED <<program, frames, entries, parked, ready, rootReady>>,
         \/ ~ t.done /\ UNCHANGED <<running, polling, phase>>
         \/ /\ t.done /\ running' = Nobody
            /\ IF polling = Root THEN phase' = "done" /\ polling' = Idle ELSE UNCHANGED <<polling, phase>>
  PROVE  IInv'
  <1>p. PICK p : p = polling
    OBVIOUS
  <1>c. PICK c : c = running
    OBVIOUS
  <1>1. /\ p \in Polled /\ p \in {Root} \cup Frame /\ p # Idle /\ c \in Live(p) /\ c \in Nat \ {0}
        /\ p # Root => c \notin ToSet(producers[p].queue) /\ phase = "frames" /\ p \in Pending
        /\ p = Root => phase = "root" /\ Pending = {} /\ ready = <<>> /\ ~ rootReady /\ c = 1
        /\ Pending \subseteq Frame /\ Root \notin Frame /\ Idle \notin Frame /\ Idle # Root
    BY <1>p, <1>c, WhoRuns, Frames DEF IInv, Polled
  <1>2. /\ ProducersOK'
        /\ \A g \in {Root} \cup Frame : producers'[g].queue = producers[g].queue
        /\ Task(p, c)' = t
        /\ \A g \in {Root} \cup Frame : \A d \in Live(g) : (g # p \/ d # c) => Task(g, d)' = Task(g, d)
        /\ \A g \in {Root} \cup Frame : g # p => Live(g)' = Live(g)
        /\ Live(p)' = IF t.done THEN Live(p) \ {c} ELSE Live(p)
    <2>1. t.waits \subseteq Frame /\ \A g, h \in t.waits : g = h
      OBVIOUS
    <2>2. UNCHANGED <<program, Len(frames)>> /\ \A g \in Frame : frames[g].query = frames'[g].query
      OBVIOUS
    <2>3. Retasked(p, c, t)
      BY <1>p, <1>c
    <2> QED BY <1>1, <2>1, <2>2, <2>3, TaskChanged
  <1>3. p = polling /\ c = running /\ (t.done => running' = Nobody) /\ (~ t.done => running' = c)
    BY <1>p, <1>c
  <1>4. Pending' = Pending /\ Polled' = Polled /\ Frame' = Frame
    BY DEF Pending, Polled, Frame
  <1>5. \A g \in {Root} \cup Frame : Nobody \notin Live(g)
    BY Tasks DEF IInv
  <1>6. TypeOK'
    BY <1>1, <1>3, <1>4 DEF IInv, TypeOK, Retasked, Nobody
  <1>7. LoopOK'
    <2>1. CASE p = Root
      BY <1>1, <1>2, <1>3, <1>4, <2>1 DEF IInv, LoopOK
    <2>2. CASE p # Root
      <3>1. p \in Frame /\ polling' = polling /\ phase' = phase
        BY <1>1, <1>3, <2>2
      <3> QED BY <1>1, <1>2, <1>3, <1>4, <2>2, <3>1 DEF IInv, LoopOK
    <2> QED BY <2>1, <2>2
  <1>8. Subscriptions'
    <2> SUFFICES ASSUME NEW h \in Frame, NEW s \in frames[h].subs PROVE SubscribedBy(h, s)'
      BY <1>4 DEF IInv, Subscriptions
    <2>1. SubscribedBy(h, s) /\ s[1] \in {Root} \cup Frame /\ s[2] # Nobody
      BY <1>1, <1>5 DEF IInv, Subscriptions, SubscribedBy, Polled
    <2>2. s[1] # p \/ s[2] # c
      BY <1>3, <2>1 DEF SubscribedBy
    <2>3. s[2] \in Live(s[1])' /\ Task(s[1], s[2])' = Task(s[1], s[2])
      BY <1>2, <2>1, <2>2 DEF SubscribedBy
    <2>4. ~ (s[1] = polling' /\ s[2] = running')
      BY <1>1, <1>3, <2>1, <2>2
    <2> QED BY <1>2, <1>4, <2>1, <2>3, <2>4 DEF SubscribedBy
  <1>9. NobodyForgotten'
    <2> SUFFICES ASSUME NEW g \in Polled, NEW d \in Live(g)', ~ (g = polling' /\ d = running')
                 PROVE  \/ g = Root /\ rootReady
                        \/ g # Root /\ d \in ToSet(producers'[g].queue) /\ (g = polling' \/ g \in ToSet(ready))
                        \/ \E h \in Task(g, d)'.waits : frames[h].state = "Pending" /\ <<g, d>> \in frames[h].subs
      BY <1>4 DEF NobodyForgotten, Polled, Pending
    <2>1. g \in {Root} \cup Frame
      BY <1>1 DEF Polled
    <2>2. d \in Live(g) /\ (g # p \/ d # c)
      BY <1>1, <1>2, <1>3, <2>1
    <2>3. polling' = polling \/ Polled = {Root}
      BY <1>1, <1>3 DEF Polled
    <2>4. \/ g = Root /\ rootReady
          \/ g # Root /\ d \in ToSet(producers[g].queue) /\ (g = polling \/ g \in ToSet(ready))
          \/ \E h \in Task(g, d).waits : frames[h].state = "Pending" /\ <<g, d>> \in frames[h].subs
      BY <1>3, <2>2 DEF IInv, NobodyForgotten, Polled, Pending
    <2> QED BY <1>2, <2>1, <2>2, <2>3, <2>4
  <1>10. Busy'
    <2>1. parked \subseteq Frame /\ p \notin parked
      BY <1>1, <1>3 DEF IInv, LoopOK
    <2> QED BY <1>2, <2>1 DEF IInv, Busy
  <1>11. Table'
    BY <1>4 DEF IInv, Table
  <1> QED BY <1>2, <1>6, <1>7, <1>8, <1>9, <1>10, <1>11 DEF IInv

LEMMA FinishOK ==
  ASSUME IInv, running # Nobody, NEW answer \in Result, Finish(running, answer),
         ~ (polling # Root /\ answer = "Yes")
  PROVE  IInv'
  <1> DEFINE t == [Task(polling, running) EXCEPT !.done = TRUE, !.waits = {}]
  <1>1. /\ polling \in DOMAIN producers /\ producers[polling] \in ProducerRecord
        /\ polling \in {Root} \cup Frame
        /\ running \in DOMAIN producers[polling].tasks /\ Task(polling, running) \in TaskRecord
    BY WhoRuns DEF IInv, TypeOK, ProducersOK
  <1>2. t \in TaskRecord /\ t.waits = {} /\ t.done
    BY <1>1 DEF TaskRecord
  <1> DEFINE old == producers[polling].tasks
             finished == [producers[polling] EXCEPT
                            !.tasks = [d \in DOMAIN @ |->
                              IF d = running \/ FALSE THEN [@[d] EXCEPT !.done = TRUE, !.waits = {}] ELSE @[d]],
                            !.queue = @, !.answers = @ \cup {answer}]
  <1>3. /\ producers' = [producers EXCEPT ![polling] = finished]
        /\ UNCHANGED <<frames, entries, parked, ready, program, rootReady>> /\ running' = Nobody
        /\ IF polling = Root THEN phase' = "done" /\ polling' = Idle ELSE UNCHANGED <<phase, polling>>
    BY DEF Finish
  <1>4. /\ finished.queue = producers[polling].queue /\ finished.answers \subseteq Result
        /\ finished = [tasks |-> finished.tasks, queue |-> finished.queue, answers |-> finished.answers]
        /\ finished.tasks = [d \in DOMAIN old |-> IF d = running THEN t ELSE old[d]]
    <2>1. PICK pr \in ProducerRecord : pr = producers[polling]
      BY <1>1
    <2>2. /\ pr.tasks = old /\ pr.queue = producers[polling].queue /\ pr.answers \subseteq Result
      BY <2>1 DEF ProducerRecord
    <2> DEFINE new == [d \in DOMAIN old |-> IF d = running THEN t ELSE old[d]]
    <2>3. finished = [pr EXCEPT !.tasks = new, !.queue = pr.queue, !.answers = pr.answers \cup {answer}]
      BY <2>1, <2>2 DEF Task
    <2> HIDE DEF new, finished
    <2>4. /\ finished.tasks = new /\ finished.queue = pr.queue /\ finished.answers = pr.answers \cup {answer}
          /\ finished = [tasks |-> finished.tasks, queue |-> finished.queue, answers |-> finished.answers]
      BY <2>1, <2>3 DEF ProducerRecord
    <2> QED BY <2>2, <2>4 DEF new
  <1>5. [d \in DOMAIN old |-> IF d = running THEN t ELSE old[d]] = [old EXCEPT ![running] = t]
    OBVIOUS
  <1> HIDE DEF finished, t
  <1>6. Retasked(polling, running, t)
    BY <1>1, <1>3, <1>4, <1>5 DEF Retasked, IInv, TypeOK
  <1> QED
    BY <1>2, <1>3, <1>6, TaskMoves

LEMMA ContinueOK ==
  ASSUME IInv, running # Nobody, NEW result \in Result, Continue(running, result)
  PROVE  IInv'
  <1>1. CASE result = "No"
    <2>1. "No" \in Result /\ Finish(running, "No")
      BY <1>1 DEF Continue, Result
    <2> QED BY <2>1, FinishOK
  <1>2. CASE result # "No"
    <2>1. /\ polling \in DOMAIN producers /\ producers[polling] \in ProducerRecord
          /\ polling \in {Root} \cup Frame /\ ~ Task(polling, running).done
          /\ running \in DOMAIN producers[polling].tasks /\ Task(polling, running) \in TaskRecord
      BY WhoRuns DEF IInv, TypeOK, ProducersOK
    <2>2. PICK old \in TaskRecord : old = Task(polling, running)
      BY <2>1
    <2> DEFINE t == [old EXCEPT !.at = old.at + 1, !.waits = {},
                             !.uncertain = (old.uncertain \/ result = "Maybe")]
    <2>3. t \in TaskRecord /\ t.waits = {} /\ ~ t.done
      <3>1. old.at + 1 \in Nat \ {0} /\ (old.uncertain \/ result = "Maybe") \in BOOLEAN
        BY <2>2 DEF TaskRecord
      <3>2. PICK u \in BOOLEAN : u = (old.uncertain \/ result = "Maybe")
        BY <3>1
      <3>3. t = [old EXCEPT !.at = old.at + 1, !.waits = {}, !.uncertain = u]
        BY <3>2
      <3> HIDE DEF t
      <3> QED BY <2>1, <2>2, <3>1, <3>3 DEF TaskRecord
    <2>4. /\ producers' = [producers EXCEPT ![polling].tasks[running] = t]
          /\ UNCHANGED <<program, frames, entries, parked, ready, rootReady>>
          /\ UNCHANGED <<running, polling, phase>>
      BY <1>2, <2>2 DEF Continue
    <2> HIDE DEF t
    <2>5. Retasked(polling, running, t)
      BY <2>1, <2>4 DEF Retasked, ProducerRecord, IInv, TypeOK
    <2> QED BY <2>3, <2>4, <2>5, TaskMoves
  <1> QED BY <1>1, <1>2

LEMMA QuietStepsOK ==
  ASSUME IInv, \/ TooDeep \/ RequestCycle \/ RequestSettled \/ Answered
  PROVE  IInv'
  <1>1. running # Nobody
    BY DEF TooDeep, RequestCycle, RequestSettled, Answered, AtGoal
  <1>2. ASSUME NEW f \in Frame PROVE frames[f].result \in Result
    BY Frames DEF IInv, FrameRecord
  <1>3. "Maybe" \in Result /\ "No" \in Result
    BY DEF Result
  <1>4. CASE TooDeep \/ RequestCycle
    BY <1>1, <1>3, <1>4, ContinueOK DEF TooDeep, RequestCycle
  <1>5. CASE RequestSettled
    <2>1. PICK f \in Entry(Goal(running)) : Continue(running, frames[f].result)
      BY <1>5 DEF RequestSettled
    <2>2. f \in Frame
      BY DEF Entry, IInv, TypeOK
    <2> QED BY <1>1, <1>2, <2>1, <2>2, ContinueOK
  <1>6. CASE Answered
    <2>1. PICK f \in Task(polling, running).waits : Continue(running, frames[f].result)
      BY <1>6 DEF Answered
    <2>2. f \in Frame
      BY <1>1, WhoRuns DEF IInv, ProducersOK
    <2> QED BY <1>1, <1>2, <2>1, <2>2, ContinueOK
  <1> QED BY <1>4, <1>5, <1>6

-----------------------------------------------------------------------------
(* Cancelling.                                                             *)

(* The orphans of p are all younger than p.                                *)
LEMMA Orphans ==
  ASSUME IInv, NEW p
  PROVE  /\ Orphaned(p) \subseteq Pending /\ p \notin Orphaned(p)
         /\ \A f \in Orphaned(p) : \A s \in frames[f].subs : s[1] = p \/ s[1] \in Orphaned(p)
         /\ \A f \in Pending : (\A s \in frames[f].subs : s[1] = p \/ s[1] \in Orphaned(p)) => f \in Orphaned(p)
  <1> DEFINE gone == Orphaned(p)
  <1>1. gone = UNION {g \in SUBSET Pending : \A f \in g : \A s \in frames[f].subs : s[1] = p \/ s[1] \in g}
    BY DEF Orphaned, Pending
  <1> HIDE DEF gone
  <1>2. gone \subseteq Pending
    BY <1>1
  <1>3. \A f \in gone : \A s \in frames[f].subs : s[1] = p \/ s[1] \in gone
    BY <1>1
  <1>4. ASSUME NEW f \in Pending, \A s \in frames[f].subs : s[1] = p \/ s[1] \in gone
        PROVE  f \in gone
    <2> DEFINE more == gone \cup {f}
    <2>1. more \subseteq Pending /\ \A h \in more : \A s \in frames[h].subs : s[1] = p \/ s[1] \in more
      BY <1>2, <1>3, <1>4
    <2> QED BY <1>1, <2>1
  <1>5. p \notin gone
    <2> SUFFICES ASSUME p \in gone PROVE FALSE
      OBVIOUS
    <2>1. gone \in SUBSET Nat
      BY <1>2, Frames DEF IInv, Pending
    <2>2. PICK m \in gone : \A k \in gone : m <= k
      BY <2>1, LeastNumber
    <2>3. m \in Pending /\ m \in Frame
      BY <1>2 DEF Pending
    <2>4. PICK s : s \in frames[m].subs
      BY <2>3 DEF IInv, Subscriptions
    <2>5. s[1] = frames[m].parent
      BY <2>3, <2>4 DEF IInv, Subscriptions, SubscribedBy
    <2>6. s[1] \in Nat /\ s[1] < m /\ m \in Nat
      BY <2>1, <2>3, <2>5, Frames DEF IInv, FrameRecord
    <2>7. s[1] \in gone
      BY <1>3, <2>4
    <2> QED BY <2>2, <2>6, <2>7
  <1> QED BY <1>2, <1>3, <1>4, <1>5 DEF gone

LEMMA CancelOK ==
  ASSUME IInv, running # Nobody, polling # Root, Finish(running, "Yes")
  PROVE  IInv'
  <1>p. PICK p : p = polling
    OBVIOUS
  <1> DEFINE gone == Orphaned(p)
  <1>1. /\ p \in Pending /\ p \in Frame /\ p # Idle /\ p # Root /\ phase = "frames"
        /\ Pending \subseteq Frame /\ Root \notin Frame /\ Idle \notin Frame /\ Idle # Root
    BY <1>p, WhoRuns, Frames DEF IInv, Polled
  <1>2. /\ gone \subseteq Pending /\ p \notin gone
        /\ \A f \in gone : \A s \in frames[f].subs : s[1] = p \/ s[1] \in gone
        /\ \A f \in Pending : (\A s \in frames[f].subs : s[1] = p \/ s[1] \in gone) => f \in gone
    BY Orphans
  <1>3. /\ frames' = [f \in Frame |->
             IF f \in gone THEN [frames[f] EXCEPT !.state = "Abandoned", !.subs = {}]
             ELSE [frames[f] EXCEPT !.subs = {s \in @ : s[1] # p /\ s[1] \notin gone}]]
        /\ entries' = entries \ gone /\ parked' = parked \ gone /\ ready' = Filtered(ready, gone)
        /\ UNCHANGED <<phase, polling, program, rootReady>> /\ running' = Nobody
    BY <1>p, <1>1 DEF Finish, Abandon
  <1> HIDE DEF gone
  <1>4. /\ Len(frames) \in Nat /\ Frame = 1 .. Len(frames)
        /\ \A f \in Frame : frames[f] \in FrameRecord /\ frames[f].parent < f
    BY Frames DEF IInv, Frame
  <1>5. ASSUME NEW f \in Frame
        PROVE  /\ frames'[f] \in FrameRecord /\ frames'[f].query = frames[f].query
               /\ frames'[f].parent = frames[f].parent /\ frames'[f].depth = frames[f].depth
               /\ frames'[f].state = (IF f \in gone THEN "Abandoned" ELSE frames[f].state)
               /\ frames'[f].subs = (IF f \in gone THEN {}
                                     ELSE {s \in frames[f].subs : s[1] # p /\ s[1] \notin gone})
    <2>1. PICK r \in FrameRecord : r = frames[f]
      BY <1>4
    <2>2. CASE f \in gone
      <3>1. frames'[f] = [r EXCEPT !.state = "Abandoned", !.subs = {}]
        BY <1>3, <2>1, <2>2
      <3> QED BY <2>1, <2>2, <3>1 DEF FrameRecord
    <2>3. CASE f \notin gone
      <3>1. PICK subs : subs = {s \in r.subs : s[1] # p /\ s[1] \notin gone}
        OBVIOUS
      <3>2. frames'[f] = [r EXCEPT !.subs = subs]
        BY <1>3, <2>1, <2>3, <3>1
      <3>3. subs \subseteq r.subs
        BY <3>1
      <3> QED BY <2>1, <2>3, <3>1, <3>2, <3>3 DEF FrameRecord
    <2> QED BY <2>2, <2>3
  <1>6. frames' \in Seq(FrameRecord) /\ Len(frames') = Len(frames) /\ Frame' = Frame
    <2>1. frames' \in [1 .. Len(frames) -> FrameRecord]
      BY <1>3, <1>4, <1>5
    <2>2. frames' \in Seq(FrameRecord) /\ Len(frames') = Len(frames)
      BY <1>4, <2>1
    <2> QED BY <2>2 DEF Frame
  <1>7. Pending' = Pending \ gone /\ Polled' = Polled \ gone
    <2>1. Pending' = Pending \ gone
      BY <1>5, <1>6 DEF Pending
    <2> QED BY <1>1, <1>2, <2>1 DEF Polled
  \* The producer of p has no task left.
  <1>8. /\ producers' = [producers EXCEPT ![p] = producers'[p]]
        /\ producers'[p] \in ProducerRecord /\ producers'[p].queue = <<>>
        /\ Len(producers'[p].tasks) = Len(producers[p].tasks)
        /\ \A c \in DOMAIN producers'[p].tasks : producers'[p].tasks[c].done /\ producers'[p].tasks[c].waits = {}
    <2>1. p \in DOMAIN producers
      BY <1>1 DEF IInv, TypeOK
    <2>2. PICK pr \in ProducerRecord : pr = producers[p]
      BY <1>1 DEF IInv, ProducersOK
    <2> DEFINE tasks == [d \in DOMAIN pr.tasks |-> [pr.tasks[d] EXCEPT !.done = TRUE, !.waits = {}]]
               pnew == [pr EXCEPT !.tasks = tasks, !.queue = <<>>, !.answers = pr.answers \cup {"Yes"}]
    <2>3. producers' = [producers EXCEPT ![p] = pnew]
      BY <1>p, <1>1, <2>2 DEF Finish
    <2>4. \A d \in DOMAIN pr.tasks : pr.tasks[d] \in TaskRecord
      BY <2>2 DEF ProducerRecord
    <2>5. \A d \in DOMAIN pr.tasks : tasks[d] \in TaskRecord /\ tasks[d].done /\ tasks[d].waits = {}
      BY <2>4 DEF TaskRecord
    <2>6. tasks \in Seq(TaskRecord) /\ Len(tasks) = Len(pr.tasks) /\ DOMAIN tasks = DOMAIN pr.tasks
      <3>1. pr.tasks \in Seq(TaskRecord)
        BY <2>2 DEF ProducerRecord
      <3>4. Len(pr.tasks) \in Nat /\ DOMAIN pr.tasks = 1 .. Len(pr.tasks) /\ DOMAIN tasks = DOMAIN pr.tasks
        BY <3>1
      <3>5. tasks = [d \in DOMAIN tasks |-> tasks[d]]
        OBVIOUS
      <3> HIDE DEF tasks
      <3>2. tasks = [d \in 1 .. Len(pr.tasks) |-> tasks[d]] /\ Len(pr.tasks) \in Nat /\ DOMAIN pr.tasks = 1 .. Len(pr.tasks)
        BY <3>4, <3>5
      <3>3. tasks \in [1 .. Len(pr.tasks) -> TaskRecord]
        BY <2>5, <3>2
      <3> QED BY <3>2, <3>3
    <2> HIDE DEF tasks
    <2>9. pr.answers \cup {"Yes"} \in SUBSET Result /\ <<>> \in Seq(Nat \ {0})
      BY <2>2 DEF ProducerRecord, Result
    <2>10. pnew = [tasks |-> tasks, queue |-> <<>>, answers |-> pr.answers \cup {"Yes"}]
      <3>1. PICK a : a = pr.answers \cup {"Yes"}
        OBVIOUS
      <3>2. PICK new : new = tasks
        OBVIOUS
      <3>4. PICK q : q = <<>>
        OBVIOUS
      <3> DEFINE made == [pr EXCEPT !.tasks = new, !.queue = q, !.answers = a]
      <3>5. made = [tasks |-> new, queue |-> q, answers |-> a]
        <4>1. pr = [tasks |-> pr.tasks, queue |-> pr.queue, answers |-> pr.answers]
          BY DEF ProducerRecord
        <4>2. PICK x : x = [pr EXCEPT !.tasks = new]
          OBVIOUS
        <4>3. x = [tasks |-> new, queue |-> pr.queue, answers |-> pr.answers]
          BY <4>1, <4>2
        <4>4. PICK y : y = [x EXCEPT !.queue = q]
          OBVIOUS
        <4>5. y = [tasks |-> new, queue |-> q, answers |-> pr.answers]
          BY <4>3, <4>4
        <4>6. [y EXCEPT !.answers = a] = [tasks |-> new, queue |-> q, answers |-> a]
          BY <4>5
        <4> QED BY <4>2, <4>4, <4>6
      <3>6. pnew = made
        BY <3>1, <3>2, <3>4
      <3> HIDE DEF made, pnew
      <3> QED BY <3>1, <3>2, <3>4, <3>5, <3>6
    <2>7. pnew \in ProducerRecord /\ pnew.tasks = tasks /\ pnew.queue = <<>>
      <3> HIDE DEF pnew
      <3> QED BY <2>6, <2>9, <2>10 DEF ProducerRecord
    <2>8. producers'[p] = pnew
      BY <2>1, <2>3
    <2> HIDE DEF pnew
    <2> QED BY <2>2, <2>3, <2>5, <2>6, <2>7, <2>8
  <1>9. /\ DOMAIN producers' = DOMAIN producers /\ DOMAIN producers = {Root} \cup Frame
        /\ \A g \in {Root} \cup Frame : g # p => producers'[g] = producers[g]
    BY <1>8 DEF IInv, TypeOK
  <1>10. /\ Live(p)' = {}
         /\ \A g \in {Root} \cup Frame : g # p => Live(g)' = Live(g) /\ \A c : Task(g, c)' = Task(g, c)
    BY <1>8, <1>9 DEF Live, Task
  <1>11. ProducersOK'
    <2> SUFFICES ASSUME NEW g \in {Root} \cup Frame
                 PROVE  /\ producers'[g] \in ProducerRecord
                        /\ Len(producers'[g].tasks) = Len(Bodies(g)')
                        /\ IsInjective(producers'[g].queue)
                        /\ \A c \in DOMAIN producers'[g].tasks :
                             Task(g, c)'.waits \subseteq Frame /\ \A x, y \in Task(g, c)'.waits : x = y
      BY <1>6 DEF ProducersOK
    <2>1. Bodies(g)' = Bodies(g)
      <3>1. program' = program /\ (g = Root \/ frames'[g].query = frames[g].query)
        BY <1>3, <1>5
      <3> QED BY <3>1 DEF Bodies
    <2>2. /\ producers[g] \in ProducerRecord /\ Len(producers[g].tasks) = Len(Bodies(g))
          /\ IsInjective(producers[g].queue)
          /\ \A c \in DOMAIN producers[g].tasks :
               Task(g, c).waits \subseteq Frame /\ \A x, y \in Task(g, c).waits : x = y
      BY DEF IInv, ProducersOK
    <2>3. CASE g = p
      <3>1. IsInjective(<<>>)
        BY DEF IsInjective
      <3> QED BY <1>8, <2>1, <2>2, <2>3, <3>1 DEF Task
    <2>4. CASE g # p
      BY <1>9, <1>10, <2>1, <2>2, <2>4
    <2> QED BY <2>3, <2>4
  <1>12. /\ ready' \in Seq(Frame) /\ ToSet(ready') = ToSet(ready) \ gone /\ IsInjective(ready')
    BY <1>3, FilteredQueue DEF IInv, TypeOK
  <1>13. TypeOK'
    BY <1>1, <1>3, <1>4, <1>5, <1>6, <1>9, <1>12 DEF IInv, TypeOK, FrameRecord, Nobody
  <1>14. LoopOK'
    BY <1>p, <1>1, <1>2, <1>3, <1>6, <1>7, <1>10, <1>12 DEF IInv, LoopOK
  <1>15. Subscriptions'
    <2>1. ASSUME NEW h \in Frame, NEW s \in frames'[h].subs PROVE SubscribedBy(h, s)'
      <3>1. h \notin gone /\ s \in frames[h].subs /\ s[1] # p /\ s[1] \notin gone
        <4>1. CASE h \in gone
          BY <1>5, <2>1, <4>1
        <4>2. CASE h \notin gone
          <5>1. frames'[h].subs = {x \in frames[h].subs : x[1] # p /\ x[1] \notin gone}
            BY <1>5, <4>2
          <5> QED BY <2>1, <4>2, <5>1
        <4> QED BY <4>1, <4>2
      <3>2. SubscribedBy(h, s) /\ s[1] \in {Root} \cup Frame
        BY <1>1, <3>1 DEF IInv, Subscriptions, SubscribedBy, Polled
      <3>3. /\ h \in Pending' /\ s[1] \in Polled' /\ frames'[h].parent = frames[h].parent
        BY <1>5, <1>7, <3>1, <3>2 DEF SubscribedBy
      <3>4. s[2] \in Live(s[1])' /\ h \in Task(s[1], s[2])'.waits
        BY <1>10, <3>1, <3>2 DEF SubscribedBy
      <3>5. producers'[s[1]] = producers[s[1]] /\ s[1] # polling'
        BY <1>p, <1>3, <1>9, <3>1, <3>2
      <3>6. rootReady' = rootReady
        BY <1>3
      <3> QED BY <3>2, <3>3, <3>4, <3>5, <3>6 DEF SubscribedBy
    <2>2. ASSUME NEW h \in Pending \ gone PROVE frames'[h].subs # {}
      <3>1. PICK s \in frames[h].subs : ~ (s[1] = p \/ s[1] \in gone)
        BY <1>2
      <3> QED BY <1>1, <1>5, <3>1
    <2> QED BY <1>6, <1>7, <2>1, <2>2 DEF Subscriptions
  <1>16. NobodyForgotten'
    <2> SUFFICES ASSUME NEW g \in Polled \ gone, NEW d \in Live(g)'
                 PROVE  \/ g = Root /\ rootReady
                        \/ g # Root /\ d \in ToSet(producers'[g].queue) /\ (g = polling \/ g \in ToSet(ready'))
                        \/ \E h \in Task(g, d)'.waits : frames'[h].state = "Pending" /\ <<g, d>> \in frames'[h].subs
      BY <1>3, <1>7 DEF NobodyForgotten, Polled, Pending
    <2>1. g # p /\ g \in {Root} \cup Frame
      BY <1>1, <1>10 DEF Polled
    <2>2. d \in Live(g) /\ g # polling
      BY <1>p, <1>10, <2>1
    <2>3. CASE g = Root /\ rootReady
      BY <2>3
    <2>4. CASE g # Root /\ d \in ToSet(producers[g].queue) /\ g \in ToSet(ready)
      BY <1>9, <1>12, <2>1, <2>4
    <2>5. CASE \E h \in Task(g, d).waits : frames[h].state = "Pending" /\ <<g, d>> \in frames[h].subs
      <3>1. PICK h \in Task(g, d).waits : frames[h].state = "Pending" /\ <<g, d>> \in frames[h].subs
        BY <2>5
      <3>2. h \in Frame
        BY <2>1, <2>2, <3>1 DEF IInv, ProducersOK, Live
      <3>3. <<g, d>>[1] = g
        OBVIOUS
      <3>4. h \notin gone
        BY <1>2, <2>1, <3>1, <3>3
      <3>5. <<g, d>> \in frames'[h].subs /\ frames'[h].state = "Pending"
        BY <1>5, <2>1, <3>1, <3>2, <3>3, <3>4
      <3> QED BY <1>10, <2>1, <3>1, <3>5
    <2> QED BY <2>2, <2>3, <2>4, <2>5 DEF IInv, NobodyForgotten, Polled, Pending
  <1>17. Busy'
    <2>1. parked \subseteq Frame /\ p \notin parked
      BY <1>p, <1>1 DEF IInv, LoopOK
    <2> QED BY <1>3, <1>10, <1>12, <2>1 DEF IInv, Busy
  <1>18. Table'
    <2>5. \A f \in Frame : (f \in gone => frames'[f].state = "Abandoned")
                           /\ (f \notin gone => frames'[f].state = frames[f].state)
      BY <1>5
    <2>6. \A f \in Frame : frames'[f].query = frames[f].query /\ frames'[f].parent = frames[f].parent
                           /\ frames'[f].depth = frames[f].depth
      BY <1>5
    <2>1. entries' = {f \in Frame : frames'[f].state # "Abandoned"}
      <3>1. \A f \in Frame : f \in entries <=> frames[f].state # "Abandoned"
        BY DEF IInv, Table
      <3>2. entries \subseteq Frame
        BY DEF IInv, TypeOK
      <3>4. entries' = entries \ gone
        BY <1>3
      <3>3. \A f \in Frame : f \in entries' <=> frames'[f].state # "Abandoned"
        BY <2>5, <3>1, <3>4
      <3> QED BY <1>3, <3>2, <3>3
    <2>2. entries' \subseteq entries /\ entries \subseteq Frame
      BY <1>3 DEF IInv, Table
    <2>3. \A f, g \in entries' :
            (f # g /\ frames'[f].query = frames'[g].query) => frames'[f].parent # frames'[g].parent
      BY <2>2, <2>6 DEF IInv, Table
    <2>4. ASSUME NEW f \in Frame
          PROVE  frames'[f].depth = (IF frames'[f].parent = Root THEN 0 ELSE frames'[frames'[f].parent].depth) + 1
      <3>1. frames[f].parent = Root \/ frames[f].parent \in Frame
        BY <1>4 DEF FrameRecord, Root
      <3> QED BY <2>6, <3>1 DEF IInv, Table
    <2> QED BY <1>6, <2>1, <2>3, <2>4 DEF Table
  <1> QED BY <1>11, <1>13, <1>14, <1>15, <1>16, <1>17, <1>18 DEF IInv

LEMMA BodyDoneOK == ASSUME IInv, BodyDone PROVE IInv'
  <1>1. running # Nobody
    BY DEF BodyDone
  <1>2. PICK answer \in {"Maybe", "Yes"} : Finish(running, answer)
    BY DEF BodyDone
  <1>3. answer \in Result
    BY DEF Result
  <1>4. CASE polling # Root /\ answer = "Yes"
    BY <1>1, <1>2, <1>4, CancelOK
  <1>5. CASE ~ (polling # Root /\ answer = "Yes")
    BY <1>1, <1>2, <1>3, <1>5, FinishOK
  <1> QED BY <1>4, <1>5

-----------------------------------------------------------------------------
(* Requests that wait.                                                     *)

(* A task of a producer comes to wait for f.                               *)
WaitingTask(task, f) == [task EXCEPT !.waits = {f}]
WaitingProducer(pr, c, f) == [pr EXCEPT !.tasks[c].waits = {f}]
Waits(pr, c, f, t, new) ==
  /\ t \in TaskRecord /\ t.waits = {f} /\ t.done = pr.tasks[c].done
  /\ new \in ProducerRecord /\ new.queue = pr.queue /\ new.answers = pr.answers
  /\ new.tasks = [pr.tasks EXCEPT ![c] = t] /\ DOMAIN new.tasks = DOMAIN pr.tasks
  /\ Len(new.tasks) = Len(pr.tasks)
  /\ new = [tasks |-> new.tasks, queue |-> new.queue, answers |-> new.answers]
LEMMA Waiting ==
  ASSUME NEW pr \in ProducerRecord, NEW c \in DOMAIN pr.tasks, NEW f \in Nat
  PROVE  Waits(pr, c, f, WaitingTask(pr.tasks[c], f), WaitingProducer(pr, c, f))
  <1>t. PICK t : t = WaitingTask(pr.tasks[c], f)
    OBVIOUS
  <1>n. PICK new : new = WaitingProducer(pr, c, f)
    OBVIOUS
  <1>1. pr.tasks \in Seq(TaskRecord) /\ pr.tasks[c] \in TaskRecord
    BY DEF ProducerRecord
  <1>2. t \in TaskRecord /\ t.waits = {f} /\ t.done = pr.tasks[c].done
    BY <1>t, <1>1 DEF TaskRecord, WaitingTask
  <1>3. PICK tasks : tasks = [pr.tasks EXCEPT ![c] = t]
    OBVIOUS
  <1>4. tasks \in Seq(TaskRecord) /\ Len(tasks) = Len(pr.tasks) /\ DOMAIN tasks = DOMAIN pr.tasks
    BY <1>1, <1>2, <1>3
  <1>5. new = [pr EXCEPT !.tasks = tasks]
    BY <1>t, <1>n, <1>3 DEF WaitingProducer, WaitingTask
  <1>6. /\ new.tasks = tasks /\ new.queue = pr.queue /\ new.answers = pr.answers
        /\ new = [tasks |-> tasks, queue |-> pr.queue, answers |-> pr.answers]
    BY <1>5 DEF ProducerRecord
  <1>7. new \in ProducerRecord
    BY <1>4, <1>6 DEF ProducerRecord
  <1>8. Waits(pr, c, f, t, new)
    BY <1>2, <1>3, <1>4, <1>6, <1>7 DEF Waits
  <1> QED BY <1>t, <1>n, <1>8

(* The goal a task has reached is a query.                                 *)
LEMMA GoalIsQuery ==
  ASSUME IInv, AtGoal
  PROVE  Goal(running) \in Query /\ Depth \in Nat
  <1>1. running # Nobody /\ Task(polling, running).at <= Len(Body(running))
    BY DEF AtGoal
  <1>2. /\ polling \in {Root} \cup Frame /\ running \in DOMAIN producers[polling].tasks
        /\ Task(polling, running) \in TaskRecord
    BY <1>1, WhoRuns
  <1>3. running \in 1 .. Len(Bodies(polling))
    <2>1. DOMAIN producers[polling].tasks = 1 .. Len(producers[polling].tasks)
      BY <1>2, Tasks DEF IInv
    <2> QED BY <1>2, <2>1 DEF IInv, ProducersOK
  <1>4. Bodies(polling) \in Seq(Seq(Query))
    <2>1. CASE polling = Root
      BY <2>1, ProgramAssumption DEF Bodies
    <2>2. CASE polling # Root
      <3>1. polling \in Frame /\ frames[polling].query \in Query
        BY <1>2, <2>2, Frames DEF IInv, FrameRecord
      <3>2. program \in Programs
        BY DEF IInv, TypeOK
      <3>3. program.candidates \in [Query -> Seq(Seq(Query))]
        BY <3>2, ProgramAssumption
      <3> QED BY <2>2, <3>1, <3>3 DEF Bodies
    <2> QED BY <2>1, <2>2
  <1>5. Body(running) \in Seq(Query)
    BY <1>3, <1>4 DEF Body
  <1>6. Goal(running) \in Query
    BY <1>1, <1>2, <1>5 DEF Goal, TaskRecord
  <1>7. Depth \in Nat
    BY <1>2, Frames DEF IInv, Depth, FrameRecord, Root
  <1> QED BY <1>6, <1>7

LEMMA RequestSharedOK == ASSUME IInv, RequestShared PROVE IInv'
  <1>p. PICK p : p = polling
    OBVIOUS
  <1>c. PICK c : c = running
    OBVIOUS
  <1>1. PICK f \in Entry(Goal(running)) :
          /\ frames[f].state = "Pending"
          /\ frames' = [frames EXCEPT ![f].subs = @ \cup {<<polling, running>>}]
          /\ producers' = [producers EXCEPT ![polling].tasks[running].waits = {f}]
    BY DEF RequestShared
  <1>2. /\ running # Nobody /\ UNCHANGED <<program, entries, parked, ready, rootReady>>
        /\ running' = Nobody
        /\ IF polling = Root THEN polling' = Idle /\ phase' = "frames" ELSE UNCHANGED <<polling, phase>>
    BY DEF RequestShared, AtGoal, Suspend
  <1>3. f \in Frame /\ f \in Pending /\ frames[f].parent = p
    BY <1>p, <1>1 DEF Entry, IInv, TypeOK, Pending
  <1>4. /\ p # Root /\ p \in Frame /\ p \in Polled /\ p # Idle /\ c \in Live(p) /\ c \in Nat \ {0}
        /\ c \in DOMAIN producers[p].tasks /\ c # Nobody /\ c \notin ToSet(producers[p].queue)
        /\ Pending \subseteq Frame /\ Root \notin Frame /\ Idle \notin Frame /\ Idle # Root
    BY <1>p, <1>c, <1>2, <1>3, WhoRuns, Frames DEF IInv, Nobody
  <1>5. p = polling /\ polling' = p /\ phase' = phase /\ running' = Nobody /\ c = running
    BY <1>p, <1>c, <1>2, <1>4
  <1>6. \A h \in Frame :
          /\ frames'[h] \in FrameRecord /\ frames'[h].query = frames[h].query
          /\ frames'[h].parent = frames[h].parent /\ frames'[h].depth = frames[h].depth
          /\ frames'[h].state = frames[h].state
          /\ h # f => frames'[h].subs = frames[h].subs
          /\ h = f => frames'[h].subs = frames[h].subs \cup {<<p, c>>}
    <2>1. f \in DOMAIN frames /\ Frame = DOMAIN frames /\ \A h \in Frame : frames[h] \in FrameRecord
      BY <1>3, Frames DEF IInv
    <2>2. PICK r \in FrameRecord : r = frames[f]
      BY <1>3, <2>1
    <2>3. PICK subs : subs = r.subs \cup {<<p, c>>}
      OBVIOUS
    <2>4. <<p, c>> \in Nat \X (Nat \ {0})
      BY <1>4, Frames DEF IInv
    <2>5. subs \in SUBSET (Nat \X (Nat \ {0}))
      BY <2>3, <2>4 DEF FrameRecord
    <2>6. frames' = [frames EXCEPT ![f] = [r EXCEPT !.subs = subs]]
      BY <1>1, <1>5, <2>2, <2>3
    <2>7. PICK n : n = [r EXCEPT !.subs = subs]
      OBVIOUS
    <2>8. /\ n \in FrameRecord /\ n.query = r.query /\ n.parent = r.parent /\ n.depth = r.depth
          /\ n.state = r.state /\ n.subs = subs
      BY <2>5, <2>7 DEF FrameRecord
    <2>9. frames'[f] = n /\ \A h \in Frame : h # f => frames'[h] = frames[h]
      BY <2>1, <2>6, <2>7
    <2> QED BY <2>1, <2>2, <2>3, <2>8, <2>9
  <1>7. frames' \in Seq(FrameRecord) /\ Len(frames') = Len(frames) /\ Frame' = Frame
    <2>1. frames \in Seq(FrameRecord)
      BY DEF IInv, TypeOK, FrameRecord
    <2>2. PICK x : frames' = [frames EXCEPT ![f] = x]
      BY <1>1
    <2>3. f \in DOMAIN frames /\ x = frames'[f]
      BY <1>3, <2>2, Frames DEF IInv
    <2>4. x \in FrameRecord
      BY <1>3, <1>6, <2>3
    <2>5. frames' \in Seq(FrameRecord) /\ Len(frames') = Len(frames)
      BY <2>1, <2>2, <2>3, <2>4
    <2> QED BY <2>5 DEF Frame
  <1>8. Pending' = Pending /\ Polled' = Polled
    BY <1>6, <1>7 DEF Pending, Polled
  <1> DEFINE t == [producers[p].tasks[c] EXCEPT !.waits = {f}]
  <1>9. /\ t \in TaskRecord /\ t.waits = {f} /\ ~ t.done /\ Retasked(p, c, t)
    <2>1. PICK pr \in ProducerRecord : pr = producers[p]
      BY <1>4 DEF IInv, ProducersOK
    <2>2. PICK new : new = WaitingProducer(pr, c, f)
      OBVIOUS
    <2>3. PICK u : u = WaitingTask(pr.tasks[c], f)
      OBVIOUS
    <2>4. f \in Nat /\ c \in DOMAIN pr.tasks /\ ~ pr.tasks[c].done
      BY <1>3, <1>4, <2>1, Frames DEF IInv, Live, Task
    <2>5. Waits(pr, c, f, u, new)
      BY <2>2, <2>3, <2>4, Waiting
    <2>6. t = u
      BY <2>1, <2>3 DEF WaitingTask
    <2> HIDE DEF t
    <2>7. producers' = [producers EXCEPT ![p] = new]
      BY <1>1, <1>5, <2>1, <2>2 DEF WaitingProducer
    <2>8. p \in DOMAIN producers /\ DOMAIN producers = {Root} \cup Frame
      BY <1>4 DEF IInv, TypeOK
    <2>9. producers'[p] = new /\ DOMAIN producers' = DOMAIN producers
          /\ \A g \in {Root} \cup Frame : g # p => producers'[g] = producers[g]
      BY <2>7, <2>8
    <2>10. pr.answers \subseteq Result
      BY DEF ProducerRecord
    <2> QED BY <2>1, <2>4, <2>5, <2>6, <2>9, <2>10 DEF Retasked, Waits
  <1> HIDE DEF t
  <1>10. /\ ProducersOK'
         /\ \A g \in {Root} \cup Frame : producers'[g].queue = producers[g].queue
         /\ Task(p, c)' = t
         /\ \A g \in {Root} \cup Frame : \A d \in Live(g) : (g # p \/ d # c) => Task(g, d)' = Task(g, d)
         /\ \A g \in {Root} \cup Frame : Live(g)' = Live(g)
    <2>1. p \in {Root} \cup Frame /\ t.waits \subseteq Frame /\ \A g, h \in t.waits : g = h
      BY <1>3, <1>4, <1>9
    <2>2. UNCHANGED <<program, Len(frames)>> /\ \A g \in Frame : frames[g].query = frames'[g].query
      BY <1>2, <1>6, <1>7
    <2> QED BY <1>4, <1>9, <2>1, <2>2, TaskChanged
  <1>11. TypeOK'
    <2>1. DOMAIN producers' = DOMAIN producers
      BY <1>9 DEF Retasked
    <2>2. frames' \in Seq(FrameRecord) /\ \A h \in Frame : frames'[h].parent < h
      BY <1>6, <1>7, Frames DEF IInv
    <2>3. running' \in Nat /\ polling' \in {Idle, Root} \cup Frame
      BY <1>4, <1>5 DEF Nobody
    <2> QED BY <1>2, <1>5, <1>7, <2>1, <2>2, <2>3 DEF IInv, TypeOK, FrameRecord
  <1>12. LoopOK'
    <2>1. Live(Root)' = Live(Root)
      BY <1>10
    <2> QED BY <1>2, <1>4, <1>5, <1>7, <1>8, <2>1 DEF IInv, LoopOK
  <1>13. Subscriptions'
    <2>1. ASSUME NEW h \in Frame, NEW s \in frames'[h].subs PROVE SubscribedBy(h, s)'
      <3>1. CASE h = f /\ s = <<p, c>>
        <4>1. s[1] = p /\ s[2] = c
          BY <3>1
        <4>2. s[1] \in Polled' /\ s[2] \in Live(s[1])' /\ h \in Task(s[1], s[2])'.waits
          BY <1>4, <1>8, <1>9, <1>10, <3>1, <4>1
        <4>3. h \in Pending' /\ s[1] = frames'[h].parent
          BY <1>3, <1>6, <1>8, <3>1, <4>1
        <4>4. s[1] # Root /\ s[2] \notin ToSet(producers'[s[1]].queue) /\ s[2] # running'
          BY <1>4, <1>5, <1>10, <4>1
        <4> QED BY <4>2, <4>3, <4>4 DEF SubscribedBy
      <3>2. CASE s \in frames[h].subs
        <4>1. SubscribedBy(h, s) /\ s[1] \in {Root} \cup Frame
          BY <1>4, <3>2 DEF IInv, Subscriptions, SubscribedBy, Polled
        <4>2. s[1] # p \/ s[2] # c
          BY <1>5, <4>1 DEF SubscribedBy
        <4>3. s[1] \in Polled' /\ s[2] \in Live(s[1])' /\ h \in Task(s[1], s[2])'.waits
          BY <1>8, <1>10, <4>1, <4>2 DEF SubscribedBy
        <4>4. h \in Pending' /\ s[1] = frames'[h].parent
          BY <1>6, <1>8, <4>1 DEF SubscribedBy
        <4>5. s[2] # running'
          <5>1. Nobody \notin Live(s[1])
            BY <4>1, Tasks DEF IInv
          <5> QED BY <1>5, <4>1, <5>1 DEF SubscribedBy
        <4>6. IF s[1] = Root THEN ~ rootReady' ELSE s[2] \notin ToSet(producers'[s[1]].queue)
          BY <1>2, <1>10, <4>1 DEF SubscribedBy
        <4> QED BY <4>3, <4>4, <4>5, <4>6 DEF SubscribedBy
      <3> QED BY <1>6, <2>1, <3>1, <3>2
    <2>2. \A h \in Pending' : frames'[h].subs # {}
      BY <1>4, <1>6, <1>8 DEF IInv, Subscriptions
    <2> QED BY <1>7, <2>1, <2>2 DEF Subscriptions
  <1>14. NobodyForgotten'
    <2> SUFFICES ASSUME NEW g \in Polled, NEW d \in Live(g)
                 PROVE  \/ g = Root /\ rootReady
                        \/ g # Root /\ d \in ToSet(producers'[g].queue) /\ (g = p \/ g \in ToSet(ready))
                        \/ \E h \in Task(g, d)'.waits : frames'[h].state = "Pending" /\ <<g, d>> \in frames'[h].subs
      <3>1. \A g \in Polled : Live(g)' = Live(g)
        BY <1>4, <1>10 DEF Polled
      <3> QED BY <1>2, <1>5, <1>7, <1>8, <3>1 DEF NobodyForgotten, Polled, Pending
    <2>1. g \in {Root} \cup Frame
      BY <1>4 DEF Polled
    <2>2. CASE g = p /\ d = c
      <3>1. f \in Task(g, d)'.waits /\ frames'[f].state = "Pending" /\ <<g, d>> \in frames'[f].subs
        BY <1>3, <1>1, <1>6, <1>9, <1>10, <2>2
      <3> QED BY <3>1
    <2>3. CASE ~ (g = p /\ d = c)
      <3>1. \/ g = Root /\ rootReady
            \/ g # Root /\ d \in ToSet(producers[g].queue) /\ (g = p \/ g \in ToSet(ready))
            \/ \E h \in Task(g, d).waits : frames[h].state = "Pending" /\ <<g, d>> \in frames[h].subs
        BY <1>5, <2>3 DEF IInv, NobodyForgotten, Polled, Pending
      <3>2. Task(g, d)' = Task(g, d) /\ producers'[g].queue = producers[g].queue
        BY <1>10, <2>1, <2>3
      <3>3. Task(g, d).waits \subseteq Frame
        BY <2>1 DEF IInv, ProducersOK, Live
      <3>4. \A h \in Task(g, d).waits : frames'[h].state = frames[h].state /\ frames[h].subs \subseteq frames'[h].subs
        BY <1>6, <3>3
      <3> QED BY <3>1, <3>2, <3>4
    <2> QED BY <2>2, <2>3
  <1>15. Busy'
    <2>1. parked \subseteq Frame
      BY DEF IInv, TypeOK
    <2> QED BY <1>2, <1>10, <2>1 DEF IInv, Busy
  <1>16. Table'
    <2>1. \A h \in Frame : frames[h].parent = Root \/ frames[h].parent \in Frame
      BY Frames DEF IInv, FrameRecord, Frame, Root
    <2>2. \A h \in Frame : frames'[h].query = frames[h].query /\ frames'[h].parent = frames[h].parent
                           /\ frames'[h].depth = frames[h].depth /\ frames'[h].state = frames[h].state
      BY <1>6
    <2>3. entries' = entries /\ entries \subseteq Frame
      BY <1>2 DEF IInv, TypeOK
    <2>4. entries' = {h \in Frame : frames'[h].state # "Abandoned"}
      BY <2>2, <2>3 DEF IInv, Table
    <2>5. \A g, h \in entries' :
            (g # h /\ frames'[g].query = frames'[h].query) => frames'[g].parent # frames'[h].parent
      BY <2>2, <2>3 DEF IInv, Table
    <2>6. \A h \in Frame :
            frames'[h].depth = (IF frames'[h].parent = Root THEN 0 ELSE frames'[frames'[h].parent].depth) + 1
      BY <2>1, <2>2 DEF IInv, Table
    <2> QED BY <1>7, <2>4, <2>5, <2>6 DEF Table
  <1> QED BY <1>10, <1>11, <1>12, <1>13, <1>14, <1>15, <1>16 DEF IInv


(* A producer whose tasks are all queued.                                  *)
LEMMA Spawned ==
  ASSUME NEW n \in Nat
  PROVE  /\ NewProducer(n) \in ProducerRecord /\ Len(NewProducer(n).tasks) = n
         /\ DOMAIN NewProducer(n).tasks = 1 .. n
         /\ \A c \in 1 .. n : NewProducer(n).tasks[c] = NewTask
         /\ IsInjective(NewProducer(n).queue) /\ ToSet(NewProducer(n).queue) = 1 .. n
         /\ NewTask \in TaskRecord /\ NewTask.waits = {} /\ ~ NewTask.done
  <1>1. NewTask \in TaskRecord /\ NewTask.waits = {} /\ ~ NewTask.done
    BY DEF NewTask, TaskRecord
  <1> DEFINE tasks == [c \in 1 .. n |-> NewTask]
             queue == [c \in 1 .. n |-> c]
  <1>2. tasks \in Seq(TaskRecord) /\ Len(tasks) = n
    <2> HIDE DEF NewTask
    <2>1. tasks \in [1 .. n -> TaskRecord]
      BY <1>1
    <2> QED BY <2>1
  <1>3. queue \in Seq(Nat \ {0}) /\ IsInjective(queue) /\ ToSet(queue) = 1 .. n
    <2>1. queue \in [1 .. n -> Nat \ {0}]
      OBVIOUS
    <2>2. queue \in Seq(Nat \ {0})
      BY <2>1
    <2>3. IsInjective(queue)
      BY DEF IsInjective
    <2>4. ToSet(queue) = 1 .. n
      BY DEF ToSet
    <2> QED BY <2>2, <2>3, <2>4
  <1>4. NewProducer(n) = [tasks |-> tasks, queue |-> queue, answers |-> {}]
    BY DEF NewProducer
  <1>5. \A c \in 1 .. n : tasks[c] = NewTask
    OBVIOUS
  <1>6. DOMAIN tasks = 1 .. n
    OBVIOUS
  <1> HIDE DEF tasks, queue
  <1>7. NewProducer(n) \in ProducerRecord
    BY <1>2, <1>3, <1>4 DEF ProducerRecord
  <1> QED BY <1>1, <1>2, <1>3, <1>4, <1>5, <1>6, <1>7

LEMMA RequestNewOK == ASSUME IInv, RequestNew PROVE IInv'
  <1>p. PICK p : p = polling
    OBVIOUS
  <1>c. PICK c : c = running
    OBVIOUS
  <1>f. PICK f : f = Len(frames) + 1
    OBVIOUS
  <1>q. PICK q : q = Goal(running)
    OBVIOUS
  <1>d. PICK depth : depth = Depth
    OBVIOUS
  <1> DEFINE frame == [query |-> q, parent |-> p, depth |-> depth + 1,
                       state |-> "Pending", result |-> "Maybe", subs |-> {<<p, c>>}]
             new == NewProducer(Len(program.candidates[q]))
             waiting == WaitingProducer(producers[p], c, f)
             t == WaitingTask(producers[p].tasks[c], f)
  <1>1. /\ running # Nobody /\ depth < MaxProofDepth /\ Entry(q) = {}
        /\ frames' = Append(frames, frame)
        /\ entries' = entries \cup {f} /\ parked' = parked \cup {f} /\ ready' = Enqueue(ready, f)
        /\ UNCHANGED <<program, rootReady>> /\ running' = Nobody
        /\ IF polling = Root THEN polling' = Idle /\ phase' = "frames" ELSE UNCHANGED <<polling, phase>>
    BY <1>p, <1>c, <1>f, <1>q, <1>d DEF RequestNew, AtGoal, Suspend
  <1>2. producers' = [g \in 0 .. f |-> IF g = f THEN new ELSE IF g = p THEN waiting ELSE producers[g]]
    BY <1>p, <1>c, <1>f, <1>q DEF RequestNew, WaitingProducer
  <1>3. q \in Query /\ depth \in Nat
    BY <1>q, <1>d, GoalIsQuery DEF RequestNew
  <1>4. /\ p \in {Root} \cup Frame /\ p \in Polled /\ p # Idle /\ c \in Live(p) /\ c \in Nat \ {0}
        /\ c \in DOMAIN producers[p].tasks /\ c # Nobody
        /\ p # Root => c \notin ToSet(producers[p].queue) /\ phase = "frames" /\ p \in Pending
        /\ p = Root => phase = "root" /\ Pending = {} /\ ready = <<>> /\ ~ rootReady /\ c = 1
        /\ Pending \subseteq Frame /\ Root \notin Frame /\ Idle \notin Frame /\ Idle # Root
    BY <1>p, <1>c, <1>1, WhoRuns, Frames DEF IInv, Nobody, Polled
  <1>5. /\ p = polling /\ c = running /\ running' = Nobody /\ phase' = "frames"
        /\ p = Root => polling' = Idle
        /\ p # Root => polling' = p /\ phase = "frames"
    BY <1>p, <1>c, <1>1, <1>4
  <1>6. /\ Len(frames) \in Nat /\ Frame = 1 .. Len(frames) /\ f \in Nat \ {0} /\ f \notin Frame /\ f # Root /\ f # p
        /\ \A h \in Frame : frames[h] \in FrameRecord /\ frames[h].parent < h /\ h \in Nat
        /\ f # Idle
    <2>1. Len(frames) \in Nat /\ Frame = 1 .. Len(frames)
      BY Frames DEF IInv, Frame
    <2>2. f \in Nat \ {0} /\ f \notin Frame
      BY <1>f, <2>1
    <2> QED BY <1>4, <2>1, <2>2, Frames DEF IInv, Root, Idle
  <1>7. frame \in FrameRecord /\ p < f /\ p \in Nat
    <2>1. depth + 1 \in 1 .. MaxProofDepth
      BY <1>1, <1>3, ProgramAssumption
    <2>2. p \in Nat /\ p < f
      BY <1>f, <1>4, <1>6 DEF Root
    <2>3. <<p, c>> \in Nat \X (Nat \ {0})
      BY <1>4, <2>2
    <2>4. {<<p, c>>} \in SUBSET (Nat \X (Nat \ {0}))
      BY <2>3
    <2> QED BY <1>3, <2>1, <2>2, <2>4 DEF FrameRecord, Result
  <1>8. /\ frame.query = q /\ frame.parent = p /\ frame.depth = depth + 1 /\ frame.state = "Pending"
        /\ frame.subs = {<<p, c>>}
    OBVIOUS
  <1> HIDE DEF frame
  <1>9. /\ frames' \in Seq(FrameRecord) /\ Len(frames') = f /\ Frame' = Frame \cup {f}
        /\ frames'[f] = frame /\ \A h \in Frame : frames'[h] = frames[h]
    <2>1. frames \in Seq(FrameRecord)
      BY DEF IInv, TypeOK, FrameRecord
    <2>2. /\ frames' \in Seq(FrameRecord) /\ Len(frames') = f /\ frames'[f] = frame
          /\ \A h \in 1 .. Len(frames) : frames'[h] = frames[h]
      BY <1>f, <1>1, <1>7, <2>1
    <2>3. Frame' = Frame \cup {f}
      BY <1>f, <1>6, <2>2 DEF Frame
    <2> QED BY <1>6, <2>2, <2>3
  <1>10. Pending' = Pending \cup {f} /\ Polled' = Polled \cup {f}
    <2>1. Pending' = Pending \cup {f}
      BY <1>8, <1>9 DEF Pending
    <2> QED BY <2>1 DEF Polled
  <1>11. /\ new \in ProducerRecord /\ Len(new.tasks) = Len(program.candidates[q])
         /\ \A d \in DOMAIN new.tasks : new.tasks[d].waits = {} /\ d \in ToSet(new.queue)
         /\ IsInjective(new.queue)
    <2>1. program.candidates \in [Query -> Seq(Seq(Query))]
      BY ProgramAssumption DEF IInv, TypeOK
    <2>2. Len(program.candidates[q]) \in Nat
      BY <1>3, <2>1
    <2> QED BY <2>2, Spawned
  <1>12. Waits(producers[p], c, f, t, waiting)
    <2>1. producers[p] \in ProducerRecord
      BY <1>4 DEF IInv, ProducersOK
    <2> QED BY <1>4, <1>6, <2>1, Waiting
  <1>13. /\ DOMAIN producers' = {Root} \cup Frame'
         /\ producers'[f] = new /\ producers'[p] = waiting
         /\ \A g \in {Root} \cup Frame : g # p => producers'[g] = producers[g]
    <2>1. 0 .. f = {Root} \cup Frame \cup {f}
      BY <1>f, <1>6 DEF Root
    <2> HIDE DEF new, waiting
    <2>2. DOMAIN producers' = {Root} \cup Frame \cup {f}
      BY <1>2, <2>1
    <2>3. producers'[f] = new /\ producers'[p] = waiting
      BY <1>2, <1>4, <1>6, <2>1
    <2>4. \A g \in {Root} \cup Frame : g # p => producers'[g] = producers[g]
      BY <1>2, <1>6, <2>1
    <2> QED BY <1>9, <2>2, <2>3, <2>4
  <1> HIDE DEF new, waiting, t
  <1>14. /\ Task(p, c)' = t /\ t.waits = {f} /\ ~ t.done
         /\ \A d \in DOMAIN producers[p].tasks : d # c => Task(p, d)' = Task(p, d)
         /\ DOMAIN producers'[p].tasks = DOMAIN producers[p].tasks
    <2>1. producers[p] \in ProducerRecord /\ ~ producers[p].tasks[c].done
      BY <1>4 DEF IInv, ProducersOK, Live, Task
    <2> QED BY <1>4, <1>12, <1>13, <2>1 DEF Waits, Task, ProducerRecord
  <1>15. /\ \A g \in {Root} \cup Frame : producers'[g].queue = producers[g].queue
         /\ \A g \in {Root} \cup Frame : Live(g)' = Live(g)
         /\ \A g \in {Root} \cup Frame : \A d \in Live(g) : (g # p \/ d # c) => Task(g, d)' = Task(g, d)
    <2>1. \A g \in {Root} \cup Frame : producers'[g].queue = producers[g].queue
      BY <1>12, <1>13 DEF Waits
    <2>2. \A g \in {Root} \cup Frame : g # p => Live(g)' = Live(g) /\ \A d : Task(g, d)' = Task(g, d)
      BY <1>13 DEF Live, Task
    <2>3. \A d \in DOMAIN producers[p].tasks : ~ Task(p, d)'.done <=> ~ Task(p, d).done
      BY <1>4, <1>14 DEF Live
    <2>4. Live(p)' = Live(p)
      BY <1>14, <2>3 DEF Live
    <2> QED BY <1>14, <2>1, <2>2, <2>4 DEF Live
  <1>16. ProducersOK'
    <2>1. ASSUME NEW g \in {Root} \cup Frame
          PROVE  /\ producers'[g] \in ProducerRecord
                 /\ Len(producers'[g].tasks) = Len(Bodies(g)')
                 /\ IsInjective(producers'[g].queue)
                 /\ \A d \in DOMAIN producers'[g].tasks :
                      Task(g, d)'.waits \subseteq Frame' /\ \A x, y \in Task(g, d)'.waits : x = y
      <3>1. Bodies(g)' = Bodies(g)
        <4>1. program' = program /\ (g = Root \/ frames'[g] = frames[g])
          BY <1>1, <1>9
        <4> QED BY <4>1 DEF Bodies
      <3>2. /\ producers[g] \in ProducerRecord /\ Len(producers[g].tasks) = Len(Bodies(g))
            /\ IsInjective(producers[g].queue)
            /\ \A d \in DOMAIN producers[g].tasks :
                 Task(g, d).waits \subseteq Frame /\ \A x, y \in Task(g, d).waits : x = y
        BY DEF IInv, ProducersOK
      <3>3. CASE g # p
        <4>1. producers'[g] = producers[g] /\ \A d : Task(g, d)' = Task(g, d)
          BY <1>13, <3>3 DEF Task
        <4> QED BY <1>9, <3>1, <3>2, <4>1
      <3>4. CASE g = p
        <4>1. /\ producers'[g] \in ProducerRecord /\ Len(producers'[g].tasks) = Len(producers[g].tasks)
              /\ producers'[g].queue = producers[g].queue
          BY <1>12, <1>13, <3>4 DEF Waits
        <4>2. ASSUME NEW d \in DOMAIN producers'[g].tasks
              PROVE  Task(g, d)'.waits \subseteq Frame' /\ \A x, y \in Task(g, d)'.waits : x = y
          <5>1. CASE d = c
            BY <1>9, <1>14, <3>4, <5>1
          <5>2. CASE d # c
            <6>1. d \in DOMAIN producers[g].tasks /\ Task(g, d)' = Task(g, d)
              BY <1>14, <3>4, <4>2, <5>2
            <6> QED BY <1>9, <3>2, <6>1
          <5> QED BY <5>1, <5>2
        <4> QED BY <3>1, <3>2, <4>1, <4>2
      <3> QED BY <3>3, <3>4
    <2>2. /\ Len(producers'[f].tasks) = Len(Bodies(f)')
          /\ \A d \in DOMAIN producers'[f].tasks : Task(f, d)'.waits = {}
      <3>1. Bodies(f)' = program.candidates[q]
        BY <1>1, <1>6, <1>8, <1>9 DEF Bodies
      <3> QED BY <1>11, <1>13, <3>1 DEF Task
    <2>3. producers'[f] \in ProducerRecord /\ IsInjective(producers'[f].queue)
      BY <1>11, <1>13
    <2> QED BY <1>9, <2>1, <2>2, <2>3 DEF ProducersOK
  <1>17. /\ ready' \in Seq(Frame') /\ IsInjective(ready') /\ ToSet(ready') = ToSet(ready) \cup {f}
    <2>1. ready \in Seq(Frame') /\ f \in Frame' /\ IsInjective(ready)
      BY <1>9 DEF IInv, TypeOK
    <2> QED BY <1>1, <2>1, Enqueued
  <1>18. TypeOK'
    <2>1. frames' \in Seq(FrameRecord) /\ \A h \in Frame' : frames'[h].parent < h
      BY <1>6, <1>7, <1>8, <1>9
    <2>2. running' \in Nat /\ polling' \in {Idle, Root} \cup Frame' /\ phase' \in {"root", "frames", "done"}
      BY <1>4, <1>5, <1>9 DEF Nobody
    <2>3. entries' \subseteq Frame' /\ parked' \subseteq Frame'
      BY <1>1, <1>9 DEF IInv, TypeOK
    <2>4. program' \in Programs /\ rootReady' \in BOOLEAN
      BY <1>1 DEF IInv, TypeOK
    <2> QED BY <1>13, <1>17, <2>1, <2>2, <2>3, <2>4 DEF TypeOK, FrameRecord
  <1>19. LoopOK'
    <2>1. Live(Root)' = {1}
      BY <1>4, <1>5, <1>15 DEF IInv, LoopOK
    <2>2. parked' = Pending' \ {polling'}
      <3>1. parked = Pending \ {p}
        BY <1>5 DEF IInv, LoopOK
      <3>2. f # polling'
        BY <1>5, <1>6
      <3>3. Pending \ {polling'} = Pending \ {p}
        BY <1>4, <1>5
      <3>4. parked' = parked \cup {f}
        BY <1>1
      <3> QED BY <1>10, <3>1, <3>2, <3>3, <3>4
    <2>3. ToSet(ready') \subseteq parked'
      BY <1>1, <1>17 DEF IInv, LoopOK
    <2>4. polling' # Root /\ (polling' \in Frame' => polling' \in Pending')
      BY <1>4, <1>5, <1>6, <1>9, <1>10
    <2> QED BY <1>5, <2>1, <2>2, <2>3, <2>4 DEF LoopOK
  <1>20. Subscriptions'
    <2>1. ASSUME NEW h \in Frame, NEW s \in frames[h].subs PROVE SubscribedBy(h, s)'
      <3>1. SubscribedBy(h, s) /\ s[1] \in {Root} \cup Frame
        BY <1>4 DEF IInv, Subscriptions, SubscribedBy, Polled
      <3>2. s[1] # p \/ s[2] # c
        BY <1>5, <3>1 DEF SubscribedBy
      <3>3. s[1] \in Polled' /\ s[2] \in Live(s[1])' /\ h \in Task(s[1], s[2])'.waits
        BY <1>10, <1>15, <3>1, <3>2 DEF SubscribedBy
      <3>4. h \in Pending' /\ s[1] = frames'[h].parent
        BY <1>9, <1>10, <3>1 DEF SubscribedBy
      <3>5. s[2] # running'
        <4>1. Nobody \notin Live(s[1])
          BY <3>1, Tasks DEF IInv
        <4> QED BY <1>5, <3>1, <4>1 DEF SubscribedBy
      <3>6. IF s[1] = Root THEN ~ rootReady' ELSE s[2] \notin ToSet(producers'[s[1]].queue)
        BY <1>1, <1>15, <3>1 DEF SubscribedBy
      <3> QED BY <3>3, <3>4, <3>5, <3>6 DEF SubscribedBy
    <2>2. ASSUME NEW s \in frames'[f].subs PROVE SubscribedBy(f, s)'
      <3>1. s[1] = p /\ s[2] = c
        BY <1>8, <1>9, <2>2
      <3>2. s[1] \in Polled' /\ s[2] \in Live(s[1])' /\ f \in Task(s[1], s[2])'.waits
        BY <1>4, <1>10, <1>14, <1>15, <3>1
      <3>3. f \in Pending' /\ s[1] = frames'[f].parent
        BY <1>8, <1>9, <1>10, <3>1
      <3>4. IF s[1] = Root THEN ~ rootReady' ELSE s[2] \notin ToSet(producers'[s[1]].queue)
        BY <1>1, <1>4, <1>15, <3>1
      <3>5. s[2] # running'
        BY <1>4, <1>5, <3>1
      <3> QED BY <3>2, <3>3, <3>4, <3>5 DEF SubscribedBy
    <2>3. \A h \in Pending' : frames'[h].subs # {}
      BY <1>4, <1>8, <1>9, <1>10 DEF IInv, Subscriptions
    <2> QED BY <1>9, <2>1, <2>2, <2>3 DEF Subscriptions
  <1>21. NobodyForgotten'
    <2>1. ASSUME NEW g \in Polled, NEW d \in Live(g)
          PROVE  \/ g = Root /\ rootReady
                 \/ g # Root /\ d \in ToSet(producers'[g].queue) /\ (g = polling' \/ g \in ToSet(ready'))
                 \/ \E h \in Task(g, d)'.waits : frames'[h].state = "Pending" /\ <<g, d>> \in frames'[h].subs
      <3>1. g \in {Root} \cup Frame
        BY <1>4 DEF Polled
      <3>2. CASE g = p /\ d = c
        <4>1. f \in Task(g, d)'.waits /\ frames'[f].state = "Pending" /\ <<g, d>> \in frames'[f].subs
          BY <1>8, <1>9, <1>14, <3>2
        <4> QED BY <4>1
      <3>3. CASE ~ (g = p /\ d = c)
        <4>1. \/ g = Root /\ rootReady
              \/ g # Root /\ d \in ToSet(producers[g].queue) /\ (g = p \/ g \in ToSet(ready))
              \/ \E h \in Task(g, d).waits : frames[h].state = "Pending" /\ <<g, d>> \in frames[h].subs
          BY <1>5, <3>3 DEF IInv, NobodyForgotten, Polled, Pending
        <4>2. Task(g, d)' = Task(g, d) /\ producers'[g].queue = producers[g].queue
          BY <1>15, <3>1, <3>3
        <4>3. Task(g, d).waits \subseteq Frame
          BY <3>1 DEF IInv, ProducersOK, Live
        <4>4. \A h \in Task(g, d).waits : frames'[h] = frames[h]
          BY <1>9, <4>3
        <4> QED BY <1>5, <1>17, <4>1, <4>2, <4>4
      <3> QED BY <3>2, <3>3
    <2>2. \A g \in Polled : Live(g)' = Live(g)
      BY <1>4, <1>15 DEF Polled
    <2>3. \A d \in Live(f)' : d \in ToSet(producers'[f].queue)
      BY <1>11, <1>13 DEF Live
    <2>4. f \in ToSet(ready') /\ f # Root
      BY <1>6, <1>17
    <2>5. rootReady' = rootReady /\ Polled' = Polled \cup {f}
      BY <1>1, <1>10
    <2>6. ASSUME NEW g \in Polled', NEW d \in Live(g)'
          PROVE  \/ g = Root /\ rootReady'
                 \/ g # Root /\ d \in ToSet(producers'[g].queue) /\ (g = polling' \/ g \in ToSet(ready'))
                 \/ \E h \in Task(g, d)'.waits : frames'[h].state = "Pending" /\ <<g, d>> \in frames'[h].subs
      <3>1. CASE g = f
        BY <2>3, <2>4, <2>6, <3>1
      <3>2. CASE g \in Polled
        BY <2>1, <2>2, <2>5, <2>6, <3>2
      <3> QED BY <2>5, <3>1, <3>2
    <2> QED BY <2>6 DEF NobodyForgotten, Polled, Pending
  <1>22. Busy'
    <2>1. parked \subseteq Frame
      BY DEF IInv, TypeOK
    <2> QED BY <1>1, <1>15, <1>17, <2>1 DEF IInv, Busy
  <1>23. Table'
    <2>1. \A h \in Frame : frames[h].parent = Root \/ frames[h].parent \in Frame
      BY <1>6 DEF FrameRecord, Root
    <2>2. entries' = {h \in Frame' : frames'[h].state # "Abandoned"}
      <3>1. entries = {h \in Frame : frames[h].state # "Abandoned"} /\ entries' = entries \cup {f}
        BY <1>1 DEF IInv, Table
      <3> QED BY <1>8, <1>9, <3>1
    <2>3. depth = IF p = Root THEN 0 ELSE frames[p].depth
      BY <1>d, <1>p DEF Depth
    <2>4. \A g \in entries : frames[g].query = q => frames[g].parent # p
      <3>1. \A g \in entries : g \in Frame /\ frames[g].depth = (IF frames[g].parent = Root THEN 0 ELSE frames[frames[g].parent].depth) + 1
        BY DEF IInv, Table, TypeOK
      <3>2. \A g \in entries : ~ (frames[g].query = q /\ frames[g].parent = p /\ frames[g].depth = depth + 1)
        BY <1>1, <1>p, <1>d DEF Entry
      <3> QED BY <2>3, <3>1, <3>2
    <2>5. \A g, h \in entries' :
            (g # h /\ frames'[g].query = frames'[h].query) => frames'[g].parent # frames'[h].parent
      <3>1. entries' = entries \cup {f} /\ \A g \in entries : frames'[g] = frames[g]
        BY <1>1, <1>9 DEF IInv, TypeOK
      <3>2. \A g, h \in entries :
              (g # h /\ frames[g].query = frames[h].query) => frames[g].parent # frames[h].parent
        BY DEF IInv, Table
      <3> QED BY <1>8, <1>9, <2>4, <3>1, <3>2
    <2>6. \A h \in Frame' :
            frames'[h].depth = (IF frames'[h].parent = Root THEN 0 ELSE frames'[frames'[h].parent].depth) + 1
      <3>1. CASE p = Root
        BY <1>8, <1>9, <2>1, <2>3, <3>1 DEF IInv, Table
      <3>2. CASE p # Root
        BY <1>4, <1>8, <1>9, <2>1, <2>3, <3>2 DEF IInv, Table
      <3> QED BY <3>1, <3>2
    <2> QED BY <2>2, <2>5, <2>6 DEF Table
  <1> QED BY <1>16, <1>18, <1>19, <1>20, <1>21, <1>22, <1>23 DEF IInv


-----------------------------------------------------------------------------
(* Completing a frame.                                                     *)

LEMMA CompleteFrameOK == ASSUME IInv, CompleteFrame PROVE IInv'
  <1>p. PICK f : f = polling
    OBVIOUS
  <1>1. PICK order \in DrainOrders(frames[f].subs) : WakeSubscribers(f, order)
    BY <1>p DEF CompleteFrame
  <1>2. /\ f \in Frame /\ running = Nobody /\ f = polling /\ polling' = Idle /\ producers[f].queue = <<>> /\ Live(f) = {}
        /\ UNCHANGED <<program, entries, parked, phase, running>>
    BY <1>p DEF CompleteFrame
  <1>3. PICK result : /\ result = Merge(producers[f].answers, frames[f].query \in program.incomplete)
                      /\ frames' = [frames EXCEPT ![f].state = "Ready", ![f].result = result, ![f].subs = {}]
    BY <1>p DEF CompleteFrame
  <1>4. result \in Result
    BY <1>3 DEF Merge, Result
  <1>5. /\ Len(frames) \in Nat /\ Frame = 1 .. Len(frames) /\ Root \notin Frame /\ Idle \notin Frame /\ Idle # Root
        /\ \A h \in Frame : frames[h] \in FrameRecord /\ frames[h].parent < h /\ h \in Nat
    BY Frames DEF IInv, Frame
  <1>6. /\ f \in Pending /\ phase = "frames" /\ Pending \subseteq Frame /\ f # Root /\ f # Idle
    BY <1>2, <1>5 DEF IInv, LoopOK, Pending
  <1>7. /\ frames' \in Seq(FrameRecord) /\ Len(frames') = Len(frames) /\ Frame' = Frame
        /\ \A h \in Frame : h # f => frames'[h] = frames[h]
        /\ frames'[f] \in FrameRecord /\ frames'[f].query = frames[f].query /\ frames'[f].parent = frames[f].parent
        /\ frames'[f].depth = frames[f].depth /\ frames'[f].state = "Ready" /\ frames'[f].subs = {}
    <2>1. PICK r \in FrameRecord : r = frames[f]
      BY <1>2, <1>5
    <2>2. PICK n : n = [r EXCEPT !.state = "Ready", !.result = result, !.subs = {}]
      OBVIOUS
    <2>3. /\ n \in FrameRecord /\ n.query = r.query /\ n.parent = r.parent /\ n.depth = r.depth
          /\ n.state = "Ready" /\ n.subs = {}
      BY <1>4, <2>2 DEF FrameRecord
    <2>4. frames \in Seq(FrameRecord) /\ f \in DOMAIN frames
      BY <1>2, <1>5, Frames DEF IInv, TypeOK, FrameRecord
    <2>5. frames' = [frames EXCEPT ![f] = n]
      BY <1>3, <2>1, <2>2, <2>4
    <2>6. frames' \in Seq(FrameRecord) /\ Len(frames') = Len(frames) /\ frames'[f] = n
          /\ \A h \in Frame : h # f => frames'[h] = frames[h]
      BY <1>5, <2>3, <2>4, <2>5
    <2> QED BY <2>1, <2>3, <2>6 DEF Frame
  <1>8. Pending' = Pending \ {f} /\ Polled' = Polled \ {f}
    <2>1. Pending' = Pending \ {f}
      BY <1>7 DEF Pending
    <2> QED BY <1>6, <2>1 DEF Polled
  \* The frames that f requested are settled: nobody of f waits any more.
  <1>9. \A h \in Frame : \A s \in frames[h].subs : s[1] # f
    BY <1>2 DEF IInv, Subscriptions, SubscribedBy
  \* The subscribers of f are tasks of its parent, which waits.
  <1> DEFINE p == frames[f].parent
             woken == {s[2] : s \in frames[f].subs}
  <1>10. /\ p \in Polled /\ p \in {Root} \cup Frame /\ p # f
         /\ \A s \in frames[f].subs : s = <<p, s[2]>>
         /\ \A d \in woken : d \in Live(p) /\ f \in Task(p, d).waits /\ <<p, d>> \in frames[f].subs
         /\ woken # {} /\ (p = Root => ~ rootReady)
         /\ p # Root => p \in Pending /\ p # polling /\ woken \cap ToSet(producers[p].queue) = {}
    <2>1. \A s \in frames[f].subs : SubscribedBy(f, s)
      BY <1>2 DEF IInv, Subscriptions
    <2>2. PICK s0 : s0 \in frames[f].subs
      BY <1>6 DEF IInv, Subscriptions
    <2>3. p \in Polled
      BY <2>1, <2>2 DEF SubscribedBy
    <2>4. \A s \in frames[f].subs : s = <<s[1], s[2]>>
      BY <1>2, <1>5 DEF FrameRecord
    <2>5. p \in {Root} \cup Frame /\ p # f
      <3>1. p \in Nat /\ p < f /\ f \in Nat
        BY <1>2, <1>5 DEF FrameRecord
      <3> QED BY <1>6, <2>3, <3>1 DEF Polled
    <2>6. \A s \in frames[f].subs : s[1] = p /\ s = <<p, s[2]>>
      BY <2>1, <2>4 DEF SubscribedBy
    <2>7. \A d \in woken : d \in Live(p) /\ f \in Task(p, d).waits /\ <<p, d>> \in frames[f].subs
      BY <2>1, <2>6 DEF SubscribedBy
    <2>8. p = Root => ~ rootReady
      BY <2>1, <2>2, <2>6 DEF SubscribedBy
    <2>9. p # Root => p \in Pending /\ p # polling /\ woken \cap ToSet(producers[p].queue) = {}
      BY <1>2, <2>1, <2>3, <2>5, <2>6 DEF SubscribedBy, Polled
    <2> QED BY <2>2, <2>3, <2>5, <2>6, <2>7, <2>8, <2>9
  <1> HIDE DEF p, woken
  <1>11. /\ order \in Seq(woken) /\ ToSet(order) = woken /\ IsInjective(order) /\ order # <<>>
         /\ woken \subseteq Nat \ {0}
    <2>1. /\ woken \subseteq DOMAIN producers[p].tasks /\ Len(producers[p].tasks) \in Nat
          /\ DOMAIN producers[p].tasks = 1 .. Len(producers[p].tasks)
      BY <1>10, Tasks DEF IInv, Live
    <2>2. IsFiniteSet(woken)
      <3>1. PICK n \in Nat : n = Len(producers[p].tasks)
        BY <2>1
      <3>2. IsFiniteSet(1 .. n)
        BY FS_Interval
      <3>3. woken \subseteq 1 .. n
        BY <2>1, <3>1
      <3> QED BY <3>2, <3>3, FS_Subset
    <2>3. order \in DrainOrders(frames[f].subs)
      OBVIOUS
    <2>4. order \in SetToSeqs(woken)
      BY <2>3 DEF DrainOrders, woken
    <2>5. order \in Seq(woken) /\ ToSet(order) = woken /\ IsInjective(order)
      BY <2>2, <2>4, Drained
    <2>6. order # <<>>
      BY <1>10, <2>5 DEF ToSet
    <2> QED BY <2>1, <2>5, <2>6
  <1>12. /\ ProducersOK' /\ DOMAIN producers' = DOMAIN producers
         /\ \A g \in {Root} \cup Frame : Live(g)' = Live(g) /\ \A c : Task(g, c)' = Task(g, c)
         /\ \A g \in {Root} \cup Frame : g # p => producers'[g].queue = producers[g].queue
         /\ p = Root => rootReady' = TRUE
         /\ p # Root => /\ rootReady' = rootReady
                        /\ ToSet(producers'[p].queue) = ToSet(producers[p].queue) \cup woken
         /\ ready' \in Seq(Frame) /\ IsInjective(ready')
         /\ ToSet(ready') = ToSet(ready) \cup (IF p = Root THEN {} ELSE {p})
    <2>1. /\ Filtered(ready, {f}) \in Seq(Frame) /\ IsInjective(Filtered(ready, {f}))
          /\ ToSet(Filtered(ready, {f})) = ToSet(ready) \ {f}
      BY FilteredQueue DEF IInv, TypeOK
    <2>2. f \notin ToSet(ready)
      BY <1>2 DEF IInv, LoopOK
    <2>3. /\ \A g \in Frame : frames[g].query = frames'[g].query
          /\ UNCHANGED <<program, Len(frames)>>
      BY <1>2, <1>7
    <2>4. CASE p = Root
      <3>1. /\ rootReady' = (rootReady \/ frames[f].subs # {}) /\ ready' = Filtered(ready, {f})
            /\ producers' = producers
        BY <1>1, <2>4 DEF WakeSubscribers, p
      <3>2. frames[f].subs # {}
        BY <1>6 DEF IInv, Subscriptions
      <3>3. \A g \in {Root} \cup Frame : Bodies(g)' = Bodies(g)
        BY <2>3 DEF Bodies
      <3>4. ProducersOK'
        BY <1>7, <3>1, <3>3 DEF IInv, ProducersOK, Task
      <3>5. \A g \in {Root} \cup Frame : Live(g)' = Live(g) /\ \A c : Task(g, c)' = Task(g, c)
        BY <3>1 DEF Live, Task
      <3>6. ToSet(ready') = ToSet(ready)
        BY <2>1, <2>2, <3>1
      <3>7. ready' \in Seq(Frame) /\ IsInjective(ready')
        BY <2>1, <3>1
      <3>8. rootReady' = TRUE
        BY <3>1, <3>2
      <3> QED BY <2>4, <3>1, <3>4, <3>5, <3>6, <3>7, <3>8
    <2>5. CASE p # Root
      <3> DEFINE queue == EnqueueAll(producers[p].queue, order)
      <3>1. /\ producers' = [producers EXCEPT ![p].queue = queue] /\ UNCHANGED rootReady
            /\ ready' = Enqueue(Filtered(ready, {f}), p)
        BY <1>1, <1>11, <2>5 DEF WakeSubscribers, p
      <3>2. /\ producers[p].queue \in Seq(Nat \ {0}) /\ IsInjective(producers[p].queue)
        BY <1>10, Tasks DEF IInv
      <3>3. order \in Seq(Nat \ {0}) /\ IsInjective(order)
        <4>1. order \in Seq(woken) /\ woken \subseteq Nat \ {0} /\ IsInjective(order)
          BY <1>11
        <4>2. /\ order = [i \in 1 .. Len(order) |-> order[i]] /\ Len(order) \in Nat
              /\ \A i \in 1 .. Len(order) : order[i] \in woken
          BY <4>1
        <4>3. order \in [1 .. Len(order) -> Nat \ {0}]
          BY <4>1, <4>2
        <4> QED BY <4>1, <4>2, <4>3
      <3>4. /\ queue \in Seq(Nat \ {0}) /\ ToSet(queue) = ToSet(producers[p].queue) \cup woken
            /\ IsInjective(queue)
        BY <1>11, <3>2, <3>3, AllEnqueued
      <3> HIDE DEF queue
      <3>5. /\ ProducersOK' /\ DOMAIN producers' = DOMAIN producers
            /\ producers'[p].queue = queue
            /\ \A g \in {Root} \cup Frame : g # p => producers'[g] = producers[g]
            /\ \A g \in {Root} \cup Frame : Live(g)' = Live(g) /\ \A c : Task(g, c)' = Task(g, c)
        BY <1>10, <2>3, <3>1, <3>4, QueueChanged
      <3>6. ready' \in Seq(Frame) /\ IsInjective(ready') /\ ToSet(ready') = (ToSet(ready) \ {f}) \cup {p}
        <4>1. p \in Frame
          BY <1>10, <2>5
        <4>2. PICK q \in Seq(Frame) : q = Filtered(ready, {f})
          BY <2>1
        <4>3. IsInjective(q) /\ ToSet(q) = ToSet(ready) \ {f} /\ ready' = Enqueue(q, p)
          BY <2>1, <3>1, <4>2
        <4> QED BY <4>1, <4>3, Enqueued
      <3>7. ToSet(ready') = ToSet(ready) \cup {p}
        BY <2>2, <3>6
      <3> QED BY <2>5, <3>1, <3>4, <3>5, <3>6, <3>7
    <2> QED BY <2>4, <2>5
  <1>13. TypeOK'
    <2>1. \A h \in Frame : frames'[h].parent < h
      BY <1>2, <1>5, <1>7
    <2> QED BY <1>2, <1>7, <1>12, <2>1 DEF IInv, TypeOK, FrameRecord
  <1>14. LoopOK'
    <2>1. Live(Root)' = Live(Root)
      BY <1>12
    <2>2. parked' = Pending' \ {polling'} /\ parked = Pending \ {f}
      BY <1>2, <1>5, <1>6, <1>8 DEF IInv, LoopOK
    <2>3. ToSet(ready') \subseteq parked'
      BY <1>2, <1>10, <1>12, <2>2 DEF IInv, LoopOK
    <2> QED BY <1>2, <1>5, <1>6, <1>7, <2>1, <2>2, <2>3 DEF IInv, LoopOK
  <1>15. ASSUME NEW d \in woken, NEW h \in Task(p, d).waits
         PROVE  h = f
    <2>1. d \in DOMAIN producers[p].tasks
      BY <1>10 DEF Live
    <2> QED BY <1>10, <2>1 DEF IInv, ProducersOK
  <1>16. Subscriptions'
    <2>1. ASSUME NEW h \in Frame, NEW s \in frames'[h].subs PROVE SubscribedBy(h, s)'
      <3>1. h # f /\ s \in frames[h].subs
        BY <1>7, <2>1
      <3>2. SubscribedBy(h, s) /\ s[1] \in {Root} \cup Frame /\ s[1] # f
        BY <1>6, <1>9, <3>1 DEF IInv, Subscriptions, SubscribedBy, Polled
      <3>3. s[1] = p => s[2] \notin woken
        BY <1>15, <3>1, <3>2 DEF SubscribedBy
      <3>4. s[1] # Root \/ p # Root
        <4> SUFFICES ASSUME s[1] = Root, p = Root PROVE FALSE
          OBVIOUS
        <4>1. Live(Root) = {1}
          BY <1>6 DEF IInv, LoopOK
        <4>2. s[2] = 1 /\ 1 \in woken
          BY <1>10, <3>2, <4>1 DEF SubscribedBy
        <4> QED BY <3>3, <4>2
      <3>5. h \in Pending' /\ s[1] \in Polled' /\ s[1] = frames'[h].parent
        BY <1>7, <1>8, <3>1, <3>2 DEF SubscribedBy
      <3>6. s[2] \in Live(s[1])' /\ h \in Task(s[1], s[2])'.waits
        BY <1>12, <3>2 DEF SubscribedBy
      <3>7. s[1] # polling'
        BY <1>2, <1>5, <3>2
      <3>8. IF s[1] = Root THEN ~ rootReady' ELSE s[2] \notin ToSet(producers'[s[1]].queue)
        BY <1>12, <3>2, <3>3, <3>4 DEF SubscribedBy
      <3> QED BY <3>5, <3>6, <3>7, <3>8 DEF SubscribedBy
    <2>2. \A h \in Pending' : frames'[h].subs # {}
      BY <1>6, <1>7, <1>8 DEF IInv, Subscriptions
    <2> QED BY <1>7, <2>1, <2>2 DEF Subscriptions
  <1>17. NobodyForgotten'
    <2>1. ASSUME NEW g \in Polled, g # f, NEW d \in Live(g)
          PROVE  \/ g = Root /\ rootReady'
                 \/ g # Root /\ d \in ToSet(producers'[g].queue) /\ g \in ToSet(ready')
                 \/ \E h \in Task(g, d)'.waits : frames'[h].state = "Pending" /\ <<g, d>> \in frames'[h].subs
      <3>1. g \in {Root} \cup Frame
        BY <1>6 DEF Polled
      <3>2. \/ g = Root /\ rootReady
            \/ g # Root /\ d \in ToSet(producers[g].queue) /\ g \in ToSet(ready)
            \/ \E h \in Task(g, d).waits : frames[h].state = "Pending" /\ <<g, d>> \in frames[h].subs
        BY <1>2, <2>1 DEF IInv, NobodyForgotten, Polled, Pending
      <3>3. CASE g = Root /\ rootReady
        BY <1>12, <3>3
      <3>4. CASE g # Root /\ d \in ToSet(producers[g].queue) /\ g \in ToSet(ready)
        BY <1>12, <3>1, <3>4
      <3>5. CASE \E h \in Task(g, d).waits : frames[h].state = "Pending" /\ <<g, d>> \in frames[h].subs
        <4>1. PICK h \in Task(g, d).waits : frames[h].state = "Pending" /\ <<g, d>> \in frames[h].subs
          BY <3>5
        <4>2. h \in Frame /\ Task(g, d)' = Task(g, d)
          BY <1>12, <3>1, <4>1 DEF IInv, ProducersOK, Live
        <4>3. CASE h # f
          BY <1>7, <4>1, <4>2, <4>3
        <4>4. CASE h = f
          <5>1. <<g, d>> = <<p, <<g, d>>[2]>> /\ <<g, d>>[2] \in woken
            BY <1>10, <4>1, <4>4 DEF woken
          <5>2. g = p /\ d \in woken
            BY <5>1
          <5> QED BY <1>12, <5>2
        <4> QED BY <4>3, <4>4
      <3> QED BY <3>2, <3>3, <3>4, <3>5
    <2>2. \A g \in Polled : Live(g)' = Live(g)
      BY <1>6, <1>12 DEF Polled
    <2>3. ASSUME NEW g \in Polled', NEW d \in Live(g)'
          PROVE  \/ g = Root /\ rootReady'
                 \/ g # Root /\ d \in ToSet(producers'[g].queue) /\ g \in ToSet(ready')
                 \/ \E h \in Task(g, d)'.waits : frames'[h].state = "Pending" /\ <<g, d>> \in frames'[h].subs
      BY <1>8, <2>1, <2>2, <2>3
    <2> QED BY <2>3 DEF NobodyForgotten, Polled, Pending
  <1>18. Busy'
    <2>1. parked \subseteq Frame
      BY DEF IInv, TypeOK
    <2>2. ToSet(ready) \subseteq ToSet(ready')
      BY <1>12
    <2> QED BY <1>2, <1>12, <2>1, <2>2 DEF IInv, Busy
  <1>19. Table'
    <2>1. \A h \in Frame : frames[h].parent = Root \/ frames[h].parent \in Frame
      BY <1>5 DEF FrameRecord, Root
    <2>2. \A h \in Frame : frames'[h].query = frames[h].query /\ frames'[h].parent = frames[h].parent
                           /\ frames'[h].depth = frames[h].depth
                           /\ (frames'[h].state # "Abandoned" <=> frames[h].state # "Abandoned")
      BY <1>6, <1>7 DEF Pending
    <2>3. entries' = entries /\ entries \subseteq Frame
      BY <1>2 DEF IInv, TypeOK
    <2>4. entries' = {h \in Frame : frames'[h].state # "Abandoned"}
      BY <2>2, <2>3 DEF IInv, Table
    <2>5. \A g, h \in entries' :
            (g # h /\ frames'[g].query = frames'[h].query) => frames'[g].parent # frames'[h].parent
      BY <2>2, <2>3 DEF IInv, Table
    <2>6. \A h \in Frame :
            frames'[h].depth = (IF frames'[h].parent = Root THEN 0 ELSE frames'[frames'[h].parent].depth) + 1
      BY <2>1, <2>2 DEF IInv, Table
    <2> QED BY <1>7, <2>4, <2>5, <2>6 DEF Table
  <1> QED BY <1>12, <1>13, <1>14, <1>16, <1>17, <1>18, <1>19 DEF IInv

-----------------------------------------------------------------------------
(* The theorem.                                                            *)

LEMMA InitOK == ASSUME Init PROVE IInv
  <1>1. /\ program \in Programs /\ frames = <<>> /\ entries = {} /\ parked = {} /\ ready = <<>>
        /\ producers = [f \in {Root} |-> NewProducer(1)]
        /\ rootReady = TRUE /\ phase = "root" /\ polling = Idle /\ running = Nobody
    BY DEF Init
  <1>2. Frame = {} /\ Pending = {} /\ Polled = {Root}
    BY <1>1 DEF Frame, Pending, Polled
  <1>3. DOMAIN producers = {Root} /\ producers[Root] = NewProducer(1)
    BY <1>1
  <1>4. /\ NewProducer(1) \in ProducerRecord /\ Len(NewProducer(1).tasks) = 1
        /\ DOMAIN NewProducer(1).tasks = 1 .. 1
        /\ \A c \in 1 .. 1 : NewProducer(1).tasks[c] = NewTask
        /\ IsInjective(NewProducer(1).queue) /\ NewTask.waits = {} /\ ~ NewTask.done
    BY Spawned
  <1>5. Live(Root) = {1}
    BY <1>3, <1>4 DEF Live, Task
  <1>6. TypeOK
    BY <1>1, <1>2, <1>3 DEF TypeOK, IsInjective, Nobody
  <1>7. ProducersOK
    BY <1>2, <1>3, <1>4 DEF ProducersOK, Bodies, Task
  <1>8. LoopOK
    BY <1>1, <1>2, <1>5 DEF LoopOK, ToSet, Root, Idle
  <1>9. Subscriptions /\ Busy /\ Table
    BY <1>1, <1>2 DEF Subscriptions, Busy, Table
  <1>10. NobodyForgotten
    BY <1>1, <1>2 DEF NobodyForgotten
  <1> QED BY <1>6, <1>7, <1>8, <1>9, <1>10 DEF IInv

LEMMA StutterOK == ASSUME IInv, UNCHANGED vars PROVE IInv'
  <1>1. UNCHANGED <<program, frames, entries, producers, parked, ready, rootReady, phase, polling, running>>
    BY DEF vars
  <1>2. /\ ProducersOK' /\ Table' /\ \A f : Live(f)' = Live(f)
        /\ Pending' = Pending /\ Polled' = Polled /\ Frame' = Frame
    BY <1>1, SameBoard
  <1>3. TypeOK'
    BY <1>1, <1>2 DEF IInv, TypeOK
  <1>4. LoopOK'
    BY <1>1, <1>2 DEF IInv, LoopOK
  <1>5. Subscriptions'
    BY <1>1, <1>2 DEF IInv, Subscriptions, SubscribedBy, Task
  <1>6. NobodyForgotten'
    BY <1>1, <1>2 DEF IInv, NobodyForgotten, Task
  <1>7. Busy'
    BY <1>1, <1>2 DEF IInv, Busy
  <1> QED BY <1>2, <1>3, <1>4, <1>5, <1>6, <1>7 DEF IInv

(* The inductive invariant holds of every state: what the scheduler keeps  *)
(* of its frames, tasks, wakers and queues fits together after every step  *)
(* of drive, of ScopedTasks and of request.                                *)
THEOREM Invariant == Spec => []IInv
  <1>1. Init => IInv
    BY InitOK
  <1>2. IInv /\ [Next]_vars => IInv'
    BY PollRootOK, PopFrameOK, NextRoundOK, PollTaskOK, ProducerPendingOK, CompleteFrameOK,
       BodyDoneOK, QuietStepsOK, RequestSharedOK, RequestNewOK, StutterOK
    DEF Next, Finished
  <1> QED BY <1>1, <1>2, PTL DEF Spec

(* The types of the scheduler's state: in particular no frame is queued    *)
(* twice, and frames are numbered after the frames they answer to.         *)
THEOREM TypeCorrect == Spec => []TypeOK
  <1>1. IInv => TypeOK
    BY DEF IInv
  <1> QED BY <1>1, Invariant, PTL

(* No task is forgotten and no frame is kept for nobody, whatever the      *)
(* program, its depth bound and the order in which wakers are drained.     *)
THEOREM NobodyIsForgotten == Spec => []TableIsLive
  <1>1. IInv => TableIsLive
    <2> SUFFICES ASSUME IInv PROVE TableIsLive
      OBVIOUS
    <2>1. TypeOK /\ NobodyForgotten /\ Table
      BY DEF IInv
    <2>2. \A f \in Frame : (frames[f].state = "Pending" /\ frames[f].parent # Root) =>
            frames[frames[f].parent].state = "Pending"
      <3>1. \A f \in Pending : \E s \in frames[f].subs : s[1] = frames[f].parent /\ s[1] \in Polled
        BY DEF IInv, Subscriptions, SubscribedBy, Pending
      <3> QED BY <3>1 DEF Pending, Polled
    <2>3. phase = "done" => (/\ \A f \in Frame : frames[f].state # "Pending" /\ frames[f].subs = {}
                             /\ parked = {} /\ ready = <<>>)
      <3> SUFFICES ASSUME phase = "done"
                   PROVE  /\ \A f \in Frame : frames[f].state # "Pending" /\ frames[f].subs = {}
                          /\ parked = {} /\ ready = <<>>
        OBVIOUS
      <3>1. ready = <<>> /\ Pending = {} /\ parked = {}
        BY DEF IInv, LoopOK
      <3>2. \A f \in Frame : frames[f].subs = {}
        BY <3>1 DEF IInv, Subscriptions, SubscribedBy
      <3> QED BY <3>1, <3>2 DEF Pending
    <2> QED BY <2>1, <2>2, <2>3 DEF TableIsLive, Table
  <1> QED BY <1>1, Invariant, PTL

(* drive never panics with "trait solver deadlock": when the frames are    *)
(* done and the root future has not returned, it was woken.                *)
NoDeadlock == phase = "root" /\ polling = Idle => rootReady
THEOREM DriveNeverDeadlocks == Spec => []NoDeadlock
  <1>1. IInv => NoDeadlock
    <2> SUFFICES ASSUME IInv, phase = "root", polling = Idle PROVE rootReady
      BY DEF NoDeadlock
    <2>1. Live(Root) = {1} /\ Pending = {} /\ polling # Root /\ Root \notin Frame
      BY Frames DEF IInv, LoopOK
    <2>2. \A g \in Task(Root, 1).waits : frames[g].state # "Pending"
      BY <2>1 DEF IInv, ProducersOK, Live, Pending
    <2> QED BY <2>1, <2>2 DEF IInv, NobodyForgotten
  <1> QED BY <1>1, Invariant, PTL

-----------------------------------------------------------------------------
(* The frames above a frame.                                               *)

(* What Chain computes exists, number by number.                           *)
ChainIn(fs, n, up) == up = [f \in 0 .. n |-> IF f = Root THEN {} ELSE {f} \cup up[fs[f].parent]]
Numbered(fs) == \A f \in 1 .. Len(fs) : fs[f].parent \in Nat /\ fs[f].parent < f

LEMMA ChainExists ==
  ASSUME NEW fs, Len(fs) \in Nat, Numbered(fs)
  PROVE  \E up : ChainIn(fs, Len(fs), up)
  <1> DEFINE S == {m \in Nat : m <= Len(fs) => \E up : ChainIn(fs, m, up)}
  <1>1. 0 \in S
    <2> DEFINE up == [f \in 0 .. 0 |-> {}]
    <2>1. ChainIn(fs, 0, up)
      BY DEF ChainIn, Root
    <2> QED BY <2>1
  <1>2. ASSUME NEW m \in Nat, m \in S PROVE m + 1 \in S
    <2> SUFFICES ASSUME m + 1 <= Len(fs) PROVE \E up : ChainIn(fs, m + 1, up)
      OBVIOUS
    <2>1. PICK up : ChainIn(fs, m, up)
      BY <1>2
    <2> DEFINE more == [f \in 0 .. (m + 1) |-> IF f = m + 1 THEN {m + 1} \cup up[fs[m + 1].parent] ELSE up[f]]
    <2>2. ASSUME NEW f \in 0 .. (m + 1)
          PROVE  more[f] = IF f = Root THEN {} ELSE {f} \cup more[fs[f].parent]
      <3>1. f # Root => fs[f].parent \in 0 .. (m + 1) /\ fs[f].parent < f
        BY DEF Numbered, Root
      <3>2. CASE f = m + 1
        <4>1. f # Root /\ fs[f].parent # m + 1
          BY <3>1, <3>2 DEF Root
        <4> QED BY <3>1, <3>2, <4>1
      <3>3. CASE f # m + 1
        <4>1. f \in 0 .. m /\ (f # Root => fs[f].parent # m + 1)
          BY <3>1, <3>3 DEF Root
        <4>2. up[f] = IF f = Root THEN {} ELSE {f} \cup up[fs[f].parent]
          BY <2>1, <4>1 DEF ChainIn
        <4>3. more[f] = up[f] /\ (f # Root => more[fs[f].parent] = up[fs[f].parent])
          BY <3>1, <3>3, <4>1
        <4> HIDE DEF more
        <4> QED BY <4>2, <4>3
      <3> QED BY <3>2, <3>3
    <2>3. ChainIn(fs, m + 1, more)
      <3>1. more = [f \in 0 .. (m + 1) |-> more[f]]
        OBVIOUS
      <3> HIDE DEF more
      <3> QED BY <2>2, <3>1 DEF ChainIn
    <2> QED BY <2>3
  <1> HIDE DEF S
  <1>3. Len(fs) \in S
    BY <1>1, <1>2, EveryNumber
  <1> QED BY <1>3 DEF S

LEMMA ChainSteps ==
  ASSUME NEW fs, Len(fs) \in Nat, Numbered(fs)
  PROVE  /\ Chain(fs, Root) = {}
         /\ \A f \in 1 .. Len(fs) : Chain(fs, f) = {f} \cup Chain(fs, fs[f].parent)
  <1> DEFINE up == CHOOSE u : ChainIn(fs, Len(fs), u)
  <1>1. ChainIn(fs, Len(fs), up)
    BY ChainExists
  <1>2. \A f : Chain(fs, f) = up[f]
    BY DEF Chain, ChainIn
  <1> HIDE DEF up
  <1>3. \A f \in 0 .. Len(fs) : up[f] = IF f = Root THEN {} ELSE {f} \cup up[fs[f].parent]
    BY <1>1 DEF ChainIn
  <1>4. Root \in 0 .. Len(fs) /\ \A f \in 1 .. Len(fs) : f \in 0 .. Len(fs) /\ f # Root
    BY DEF Root
  <1> QED BY <1>2, <1>3, <1>4

(* Of a chain only the parents matter, and it stays within the frames.     *)
LEMMA ChainStays ==
  ASSUME NEW fs, NEW gs, Len(fs) \in Nat, Len(gs) \in Nat, Len(fs) <= Len(gs),
         Numbered(fs), Numbered(gs), \A f \in 1 .. Len(fs) : gs[f].parent = fs[f].parent
  PROVE  \A f \in 0 .. Len(fs) : Chain(gs, f) = Chain(fs, f) /\ Chain(fs, f) \subseteq 1 .. Len(fs)
  <1> DEFINE Same(f) == Chain(gs, f) = Chain(fs, f) /\ Chain(fs, f) \subseteq 1 .. Len(fs)
             S == {f \in 0 .. Len(fs) : ~ Same(f)}
  <1> SUFFICES ASSUME S # {} PROVE FALSE
    OBVIOUS
  <1>1. S \in SUBSET Nat
    OBVIOUS
  <1>2. PICK m \in S : \A k \in S : m <= k
    BY <1>1, LeastNumber
  <1>3. m \in 0 .. Len(fs) /\ ~ Same(m) /\ \A k \in 0 .. Len(fs) : k < m => Same(k)
    BY <1>2
  <1> HIDE DEF S
  <1>4. /\ Chain(fs, Root) = {} /\ \A f \in 1 .. Len(fs) : Chain(fs, f) = {f} \cup Chain(fs, fs[f].parent)
    BY ChainSteps
  <1>5. /\ Chain(gs, Root) = {} /\ \A f \in 1 .. Len(gs) : Chain(gs, f) = {f} \cup Chain(gs, gs[f].parent)
    BY ChainSteps
  <1>6. CASE m = Root
    BY <1>3, <1>4, <1>5, <1>6
  <1>7. CASE m # Root
    <2>1. m \in 1 .. Len(fs) /\ m \in 1 .. Len(gs)
      BY <1>3, <1>7 DEF Root
    <2>2. fs[m].parent \in 0 .. Len(fs) /\ fs[m].parent < m /\ gs[m].parent = fs[m].parent
      BY <2>1 DEF Numbered
    <2>3. Same(fs[m].parent)
      BY <1>3, <2>2
    <2>4. Chain(fs, m) = {m} \cup Chain(fs, fs[m].parent) /\ Chain(gs, m) = {m} \cup Chain(gs, fs[m].parent)
      BY <1>4, <1>5, <2>1, <2>2
    <2>5. Same(m)
      BY <2>1, <2>3, <2>4
    <2> QED BY <1>3, <2>5
  <1> QED BY <1>6, <1>7

-----------------------------------------------------------------------------
(* The reference: what a program answers at each depth.                    *)

(* The outcome of a body when `known` answers its goals.                   *)
BodyOutcome(known, body) == Conjunction({known[body[i]] : i \in DOMAIN body})
GoalAnswer(p, below, path, q) ==
  Merge({BodyOutcome(below[path \cup {q}], body) : body \in ToSet(p.candidates[q])}, q \in p.incomplete)
Level(p, left, below) ==
  [path \in SUBSET Query |-> [q \in Query |->
    IF left = 0 THEN "Maybe" ELSE IF q \in path THEN "No" ELSE GoalAnswer(p, below, path, q)]]
ReferenceIn(p, n, ref) == ref = [left \in 0 .. n |-> Level(p, left, ref[left - 1])]

LEMMA GroundLevel == ASSUME NEW p, NEW x, NEW y PROVE Level(p, 0, x) = Level(p, 0, y)
  BY DEF Level

LEMMA ReferenceExists ==
  ASSUME NEW p, NEW n \in Nat
  PROVE  \E ref : ReferenceIn(p, n, ref)
  <1> DEFINE S == {m \in Nat : \E ref : ReferenceIn(p, m, ref)}
  <1>1. 0 \in S
    <2> DEFINE ref == [left \in 0 .. 0 |-> Level(p, 0, 0)]
    <2>1. \A left \in 0 .. 0 : ref[left] = Level(p, left, ref[left - 1])
      BY GroundLevel
    <2>2. ref = [left \in 0 .. 0 |-> ref[left]]
      OBVIOUS
    <2> HIDE DEF ref
    <2>3. ReferenceIn(p, 0, ref)
      BY <2>1, <2>2 DEF ReferenceIn
    <2> QED BY <2>3
  <1>2. ASSUME NEW m \in Nat, m \in S PROVE m + 1 \in S
    <2>1. PICK ref : ReferenceIn(p, m, ref)
      BY <1>2
    <2> DEFINE last == Level(p, m + 1, ref[m])
               more == [left \in 0 .. (m + 1) |-> IF left = m + 1 THEN last ELSE ref[left]]
    <2>2. ASSUME NEW left \in 0 .. (m + 1)
          PROVE  more[left] = Level(p, left, more[left - 1])
      <3>1. CASE left = m + 1
        <4>1. left - 1 = m /\ m \in 0 .. (m + 1) /\ m # m + 1
          BY <3>1
        <4>2. more[left] = last /\ more[left - 1] = ref[m]
          BY <3>1, <4>1
        <4> QED BY <3>1, <4>2
      <3>2. CASE left # m + 1
        <4>1. left \in 0 .. m /\ more[left] = ref[left]
          BY <3>2
        <4>2. ref[left] = Level(p, left, ref[left - 1])
          BY <2>1, <4>1 DEF ReferenceIn
        <4>3. CASE left = 0
          <5>1. Level(p, left, ref[left - 1]) = Level(p, left, more[left - 1])
            BY <4>3, GroundLevel
          <5> HIDE DEF more
          <5> QED BY <4>1, <4>2, <5>1
        <4>4. CASE left # 0
          <5>1. left - 1 \in 0 .. (m + 1) /\ left - 1 # m + 1
            BY <4>1, <4>4
          <5>2. more[left - 1] = ref[left - 1]
            BY <5>1
          <5> HIDE DEF more
          <5> QED BY <4>1, <4>2, <5>2
        <4> QED BY <4>3, <4>4
      <3> QED BY <3>1, <3>2
    <2>3. ReferenceIn(p, m + 1, more)
      <3>1. more = [left \in 0 .. (m + 1) |-> more[left]]
        OBVIOUS
      <3> HIDE DEF more
      <3> QED BY <2>2, <3>1 DEF ReferenceIn
    <2> QED BY <2>3
  <1> HIDE DEF S
  <1>3. n \in S
    BY <1>1, <1>2, EveryNumber
  <1> QED BY <1>3 DEF S

LEMMA ReferenceSteps ==
  ASSUME NEW p
  PROVE  \A left \in 0 .. MaxProofDepth : Reference(p)[left] = Level(p, left, Reference(p)[left - 1])
  <1> DEFINE ref == CHOOSE r : ReferenceIn(p, MaxProofDepth, r)
  <1>1. ReferenceIn(p, MaxProofDepth, ref)
    BY ProgramAssumption, ReferenceExists
  <1>2. Reference(p) = ref
    BY DEF Reference, ReferenceIn, Level, GoalAnswer, BodyOutcome
  <1> HIDE DEF ref
  <1> QED BY <1>1, <1>2 DEF ReferenceIn


(* Its levels, goal by goal.                                               *)
LEMMA ReferenceAnswers ==
  ASSUME NEW p \in Programs, NEW left \in 0 .. MaxProofDepth, NEW path \in SUBSET Query, NEW q \in Query
  PROVE  /\ Reference(p)[left][path][q] \in Result
         /\ left = 0 => Reference(p)[left][path][q] = "Maybe"
         /\ left # 0 /\ q \in path => Reference(p)[left][path][q] = "No"
         /\ left # 0 /\ q \notin path =>
              Reference(p)[left][path][q] = GoalAnswer(p, Reference(p)[left - 1], path, q)
  <1>1. Reference(p)[left] = Level(p, left, Reference(p)[left - 1])
    BY ReferenceSteps
  <1>2. Level(p, left, Reference(p)[left - 1])[path][q] =
          IF left = 0 THEN "Maybe" ELSE IF q \in path THEN "No"
          ELSE GoalAnswer(p, Reference(p)[left - 1], path, q)
    BY DEF Level
  <1>3. GoalAnswer(p, Reference(p)[left - 1], path, q) \in Result
    BY DEF GoalAnswer, Merge, Result
  <1> QED BY <1>1, <1>2, <1>3 DEF Result

(* The bodies of a query are sequences of queries.                         *)
LEMMA BodiesTyped ==
  ASSUME program \in Programs, NEW q \in Query
  PROVE  /\ program.candidates[q] \in Seq(Seq(Query))
         /\ \A body \in ToSet(program.candidates[q]) : body \in Seq(Query) /\ ToSet(body) \subseteq Query
  <1>1. program.candidates[q] \in Seq(Seq(Query))
    BY ProgramAssumption
  <1>2. ASSUME NEW body \in ToSet(program.candidates[q]) PROVE body \in Seq(Query) /\ ToSet(body) \subseteq Query
    <2>1. PICK i \in DOMAIN program.candidates[q] : body = program.candidates[q][i]
      BY DEF ToSet
    <2>2. body \in Seq(Query)
      BY <1>1, <2>1
    <2> QED BY <2>2 DEF ToSet
  <1> QED BY <1>1, <1>2

(* What can be proved, with what is incomplete taken for true, when the    *)
(* queries of a path may not be used.                                      *)
ClosedOutside(path, s) ==
  /\ program.incomplete \ path \subseteq s
  /\ \A r \in Query \ path : (\E body \in ToSet(program.candidates[r]) : ToSet(body) \subseteq s) => r \in s
Outside(path) == {q \in Query : \A s \in SUBSET Query : ClosedOutside(path, s) => q \in s}

LEMMA OutsideIsLeast ==
  ASSUME program \in Programs, NEW path \in SUBSET Query
  PROVE  /\ ClosedOutside(path, Outside(path)) /\ Outside(path) \subseteq Query \ path
         /\ \A s \in SUBSET Query : ClosedOutside(path, s) => Outside(path) \subseteq s
  <1>1. \A s \in SUBSET Query : ClosedOutside(path, s) => Outside(path) \subseteq s
    BY DEF Outside
  <1>2. ClosedOutside(path, Query \ path)
    BY ProgramAssumption DEF ClosedOutside
  <1>3. Outside(path) \subseteq Query \ path
    BY <1>1, <1>2
  <1>4. program.incomplete \ path \subseteq Outside(path)
    BY ProgramAssumption DEF ClosedOutside, Outside
  <1>5. ASSUME NEW r \in Query \ path, NEW body \in ToSet(program.candidates[r]), ToSet(body) \subseteq Outside(path)
        PROVE  r \in Outside(path)
    <2> SUFFICES ASSUME NEW s \in SUBSET Query, ClosedOutside(path, s) PROVE r \in s
      BY DEF Outside
    <2>1. ToSet(body) \subseteq s
      BY <1>1, <1>5
    <2> QED BY <2>1 DEF ClosedOutside
  <1> QED BY <1>1, <1>3, <1>4, <1>5 DEF ClosedOutside

(* A proof of q need not use q again.                                      *)
LEMMA OutsideSteps ==
  ASSUME program \in Programs, NEW path \in SUBSET Query, NEW q \in Outside(path), q \notin program.incomplete
  PROVE  \E body \in ToSet(program.candidates[q]) : ToSet(body) \subseteq Outside(path \cup {q})
  <1> DEFINE T == Outside(path \cup {q})
  <1> SUFFICES ASSUME \A body \in ToSet(program.candidates[q]) : ~ (ToSet(body) \subseteq T) PROVE FALSE
    OBVIOUS
  <1>1. q \in Query /\ path \cup {q} \in SUBSET Query
    BY DEF Outside
  <1>2. ClosedOutside(path \cup {q}, T) /\ T \subseteq Query \ (path \cup {q})
    BY <1>1, OutsideIsLeast
  <1> HIDE DEF T
  <1>3. ClosedOutside(path, T)
    BY <1>2 DEF ClosedOutside
  <1>4. T \in SUBSET Query
    BY <1>2
  <1>5. q \in T
    BY <1>3, <1>4, OutsideIsLeast
  <1> QED BY <1>2, <1>5

LEMMA ProvableIsClosed ==
  ASSUME program \in Programs, NEW given, NEW q \in Query, NEW body \in ToSet(program.candidates[q]),
         ToSet(body) \subseteq Provable(given)
  PROVE  q \in Provable(given)
  <1> SUFFICES ASSUME NEW s \in SUBSET Query, given \subseteq s,
                      \A r \in Query : (\E b \in ToSet(program.candidates[r]) : ToSet(b) \subseteq s) => r \in s
               PROVE  q \in s
    BY DEF Provable
  <1>1. ToSet(body) \subseteq s
    BY DEF Provable
  <1> QED BY <1>1

(* Refuting cycles and cutting at the depth bound are sound.               *)
SoundAt(left) ==
  \A path \in SUBSET Query, q \in Query :
    /\ Reference(program)[left][path][q] = "Yes" => q \in Provable({})
    /\ Reference(program)[left][path][q] = "No" => q \notin Outside(path)

LEMMA ReferenceIsSound ==
  ASSUME program \in Programs
  PROVE  \A left \in 0 .. MaxProofDepth : SoundAt(left)
  <1> DEFINE S == {n \in Nat : n <= MaxProofDepth => SoundAt(n)}
  <1>1. 0 \in S
    <2>1. 0 \in 0 .. MaxProofDepth
      BY ProgramAssumption
    <2>2. SoundAt(0)
      BY <2>1, ReferenceAnswers DEF SoundAt
    <2> QED BY <2>2
  <1>2. ASSUME NEW n \in Nat, n \in S PROVE n + 1 \in S
    <2> SUFFICES ASSUME n + 1 <= MaxProofDepth PROVE SoundAt(n + 1)
      OBVIOUS
    <2>1. /\ SoundAt(n) /\ n \in 0 .. MaxProofDepth /\ n + 1 \in 0 .. MaxProofDepth
          /\ n + 1 # 0 /\ (n + 1) - 1 = n
      BY <1>2, ProgramAssumption
    <2> SUFFICES ASSUME NEW path \in SUBSET Query, NEW q \in Query
                 PROVE  /\ Reference(program)[n + 1][path][q] = "Yes" => q \in Provable({})
                        /\ Reference(program)[n + 1][path][q] = "No" => q \notin Outside(path)
      BY DEF SoundAt
    <2>2. CASE q \in path
      <3>1. Reference(program)[n + 1][path][q] = "No"
        BY <2>1, <2>2, ReferenceAnswers
      <3>2. Outside(path) \subseteq Query \ path
        BY OutsideIsLeast
      <3> QED BY <2>2, <3>1, <3>2
    <2>3. CASE q \notin path
      <3> DEFINE inner == path \cup {q}
                 known == Reference(program)[n][inner]
                 outcomes == {BodyOutcome(known, body) : body \in ToSet(program.candidates[q])}
      <3>1. Reference(program)[n + 1][path][q] = Merge(outcomes, q \in program.incomplete)
        <4>1. Reference(program)[n + 1][path][q] = GoalAnswer(program, Reference(program)[(n + 1) - 1], path, q)
          BY <2>1, <2>3, ReferenceAnswers
        <4> QED BY <2>1, <4>1 DEF GoalAnswer
      <3>2. inner \in SUBSET Query
        OBVIOUS
      <3>3. \A r \in Query : /\ known[r] \in Result
                             /\ known[r] = "Yes" => r \in Provable({})
                             /\ known[r] = "No" => r \notin Outside(inner)
        BY <2>1, <3>2, ReferenceAnswers DEF SoundAt
      <3> HIDE DEF known
      <3>4. ASSUME NEW body \in ToSet(program.candidates[q])
            PROVE  /\ BodyOutcome(known, body) = "Yes" => ToSet(body) \subseteq Provable({})
                   /\ BodyOutcome(known, body) = "No" => ~ (ToSet(body) \subseteq Outside(inner))
                   /\ BodyOutcome(known, body) \in Result
        <4> DEFINE answers == {known[body[i]] : i \in DOMAIN body}
        <4>1. BodyOutcome(known, body) = Conjunction(answers)
          BY DEF BodyOutcome
        <4>2. \A i \in DOMAIN body : known[body[i]] \in answers /\ body[i] \in Query
          BY BodiesTyped DEF ToSet
        <4>3. Conjunction(answers) \in Result
          BY DEF Conjunction, Result
        <4>4. ASSUME Conjunction(answers) = "Yes" PROVE ToSet(body) \subseteq Provable({})
          <5>1. "No" \notin answers /\ "Maybe" \notin answers
            BY <4>4 DEF Conjunction
          <5>2. \A i \in DOMAIN body : known[body[i]] = "Yes"
            BY <3>3, <4>2, <5>1 DEF Result
          <5> QED BY <3>3, <4>2, <5>2 DEF ToSet
        <4>5. ASSUME Conjunction(answers) = "No" PROVE ~ (ToSet(body) \subseteq Outside(inner))
          <5>1. "No" \in answers
            BY <4>5 DEF Conjunction
          <5>2. PICK i \in DOMAIN body : known[body[i]] = "No"
            BY <5>1
          <5>3. body[i] \notin Outside(inner) /\ body[i] \in ToSet(body)
            BY <3>3, <4>2, <5>2 DEF ToSet
          <5> QED BY <5>3
        <4> QED BY <4>1, <4>3, <4>4, <4>5
      <3>5. ASSUME Merge(outcomes, q \in program.incomplete) = "Yes" PROVE q \in Provable({})
        <4>1. "Yes" \in outcomes
          BY <3>5 DEF Merge
        <4>2. PICK body \in ToSet(program.candidates[q]) : BodyOutcome(known, body) = "Yes"
          BY <4>1
        <4> QED BY <3>4, <4>2, ProvableIsClosed
      <3>6. ASSUME Merge(outcomes, q \in program.incomplete) = "No" PROVE q \notin Outside(path)
        <4>1. "Yes" \notin outcomes /\ "Maybe" \notin outcomes /\ q \notin program.incomplete
          BY <3>6 DEF Merge
        <4>2. \A body \in ToSet(program.candidates[q]) : BodyOutcome(known, body) \in outcomes
          OBVIOUS
        <4>3. \A body \in ToSet(program.candidates[q]) : BodyOutcome(known, body) = "No"
          BY <3>4, <4>1, <4>2 DEF Result
        <4>4. \A body \in ToSet(program.candidates[q]) : ~ (ToSet(body) \subseteq Outside(inner))
          BY <3>4, <4>3
        <4> HIDE DEF outcomes
        <4> QED BY <4>1, <4>4, OutsideSteps
      <3> QED BY <3>1, <3>5, <3>6
    <2> QED BY <2>2, <2>3
  <1> HIDE DEF S
  <1>3. Nat \subseteq S
    BY <1>1, <1>2, EveryNumber
  <1> QED BY <1>3, ProgramAssumption DEF S


-----------------------------------------------------------------------------
(* The answers on the whiteboard are those of the reference.               *)

Path(g) == {frames[h].query : h \in Chain(frames, g)}
DepthOf(g) == IF g = Root THEN 0 ELSE frames[g].depth
Known(g) == Reference(program)[MaxProofDepth - DepthOf(g)][Path(g)]
Outcome(g, c) == BodyOutcome(Known(g), Bodies(g)[c])

(* A settled frame has the answer to its query, which is not asked above.  *)
FrameRight(f) ==
  /\ frames[f].query \notin Path(frames[f].parent)
  /\ frames[f].state = "Ready" => frames[f].result = Known(frames[f].parent)[frames[f].query]

(* A task has found no goal refuted so far, knows whether one was open,    *)
(* and waits for a frame of its goal.                                      *)
TaskRight(g, c) ==
  LET t == Task(g, c)
      body == Bodies(g)[c]
  IN  /\ t.at <= Len(body) + 1
      /\ \A i \in 1 .. (t.at - 1) : Known(g)[body[i]] # "No"
      /\ t.uncertain <=> \E i \in 1 .. (t.at - 1) : Known(g)[body[i]] = "Maybe"
      /\ \A f \in t.waits : t.at <= Len(body) /\ frames[f].parent = g /\ frames[f].query = body[t.at]

(* A producer has the outcomes of its finished tasks, or one that decides. *)
ProducerRight(g) ==
  /\ \A a \in producers[g].answers : \E c \in DOMAIN producers[g].tasks : a = Outcome(g, c)
  /\ \A c \in DOMAIN producers[g].tasks : Task(g, c).done =>
       "Yes" \in producers[g].answers \/ Outcome(g, c) \in producers[g].answers

Right ==
  /\ \A f \in Frame : FrameRight(f)
  /\ \A g \in Polled : \A c \in Live(g) : TaskRight(g, c)
  /\ \A g \in Polled : ProducerRight(g)

LEMMA NumberedFrames ==
  ASSUME TypeOK
  PROVE  /\ Len(frames) \in Nat /\ Frame = 1 .. Len(frames) /\ Numbered(frames)
         /\ \A f \in Frame : frames[f].query \in Query /\ frames[f].parent \in 0 .. Len(frames)
                             /\ frames[f].depth \in 1 .. MaxProofDepth
  BY Frames DEF Numbered, Frame, FrameRecord

(* What the reference answers to the goals of a producer.                  *)
LEMMA Goals ==
  ASSUME IInv, NEW g \in {Root} \cup Frame
  PROVE  /\ DepthOf(g) \in 0 .. MaxProofDepth /\ Path(g) \in SUBSET Query
         /\ \A q \in Query : Known(g)[q] \in Result
         /\ DepthOf(g) = MaxProofDepth => \A q \in Query : Known(g)[q] = "Maybe"
         /\ DepthOf(g) # MaxProofDepth => \A q \in Query \cap Path(g) : Known(g)[q] = "No"
  <1>1. /\ Len(frames) \in Nat /\ Frame = 1 .. Len(frames) /\ Numbered(frames)
        /\ \A f \in Frame : frames[f].query \in Query /\ frames[f].depth \in 1 .. MaxProofDepth
    BY NumberedFrames DEF IInv
  <1>2. g \in 0 .. Len(frames)
    BY <1>1 DEF Root
  <1>3. Len(frames) <= Len(frames)
    BY <1>1
  <1>4. Chain(frames, g) \subseteq Frame
    BY <1>1, <1>2, <1>3, ChainStays
  <1>5. Path(g) \in SUBSET Query
    BY <1>1, <1>4 DEF Path
  <1>6. DepthOf(g) \in 0 .. MaxProofDepth /\ MaxProofDepth \in Nat
    BY <1>1, ProgramAssumption DEF DepthOf
  <1>7. PICK left \in 0 .. MaxProofDepth : left = MaxProofDepth - DepthOf(g)
    BY <1>6
  <1>8. PICK path \in SUBSET Query : path = Path(g)
    BY <1>5
  <1>9. program \in Programs
    BY DEF IInv, TypeOK
  <1>10. \A q \in Query : /\ Known(g)[q] \in Result
                          /\ left = 0 => Known(g)[q] = "Maybe"
                          /\ left # 0 /\ q \in path => Known(g)[q] = "No"
    BY <1>7, <1>8, <1>9, ReferenceAnswers DEF Known
  <1> QED BY <1>5, <1>6, <1>7, <1>8, <1>10

(* The answer to the query of a frame is put together by its producer.     *)
LEMMA FrameAnswer ==
  ASSUME IInv, NEW f \in Frame, frames[f].query \notin Path(frames[f].parent)
  PROVE  Known(frames[f].parent)[frames[f].query] =
           Merge({Outcome(f, c) : c \in DOMAIN Bodies(f)}, frames[f].query \in program.incomplete)
  <1> DEFINE g == frames[f].parent
             q == frames[f].query
             left == MaxProofDepth - DepthOf(g)
             path == Path(g)
  <1>1. /\ Len(frames) \in Nat /\ Frame = 1 .. Len(frames) /\ Numbered(frames)
        /\ q \in Query /\ g \in 0 .. Len(frames) /\ frames[f].depth \in 1 .. MaxProofDepth
    BY NumberedFrames DEF IInv
  <1>2. g \in {Root} \cup Frame
    BY <1>1 DEF Root
  <1>3. frames[f].depth = DepthOf(g) + 1 /\ f # Root
    BY <1>1 DEF IInv, Table, DepthOf, Root
  <1>4. path \in SUBSET Query /\ DepthOf(g) \in 0 .. MaxProofDepth /\ MaxProofDepth \in Nat
    BY <1>2, Goals, ProgramAssumption
  <1>5. left \in 0 .. MaxProofDepth /\ left # 0 /\ left - 1 = MaxProofDepth - frames[f].depth
    BY <1>1, <1>3, <1>4
  <1>6. Path(f) = path \cup {q}
    <2>1. Chain(frames, f) = {f} \cup Chain(frames, g)
      BY <1>1, ChainSteps
    <2> QED BY <2>1 DEF Path
  <1>7. program \in Programs
    BY DEF IInv, TypeOK
  <1>8. Known(g)[q] = GoalAnswer(program, Reference(program)[left - 1], path, q)
    <2>1. PICK l \in 0 .. MaxProofDepth : l = left
      BY <1>5
    <2>2. PICK above \in SUBSET Query : above = path
      BY <1>4
    <2>3. PICK k \in Query : k = q
      BY <1>1
    <2>4. l # 0 /\ k \notin above
      BY <1>5, <2>1, <2>2, <2>3
    <2>5. Reference(program)[l][above][k] = GoalAnswer(program, Reference(program)[l - 1], above, k)
      BY <1>7, <2>4, ReferenceAnswers
    <2> QED BY <2>1, <2>2, <2>3, <2>5 DEF Known
  <1>9. Reference(program)[left - 1][path \cup {q}] = Known(f)
    BY <1>3, <1>5, <1>6 DEF Known, DepthOf
  <1>10. Bodies(f) = program.candidates[q]
    BY <1>3 DEF Bodies
  <1>11. {BodyOutcome(Known(f), body) : body \in ToSet(Bodies(f))} = {Outcome(f, c) : c \in DOMAIN Bodies(f)}
    BY DEF ToSet, Outcome
  <1> QED BY <1>8, <1>9, <1>10, <1>11 DEF GoalAnswer

(* Frames come, and stay where they are.                                   *)
Grown ==
  /\ program' = program /\ Len(frames) <= Len(frames')
  /\ \A h \in Frame : frames'[h].query = frames[h].query /\ frames'[h].parent = frames[h].parent
                      /\ frames'[h].depth = frames[h].depth

LEMMA Unmoved ==
  ASSUME IInv, IInv', Grown, NEW g \in {Root} \cup Frame
  PROVE  /\ Path(g)' = Path(g) /\ Known(g)' = Known(g) /\ Bodies(g)' = Bodies(g)
         /\ \A c : Outcome(g, c)' = Outcome(g, c)
         /\ Frame \subseteq Frame'
  <1>1. Len(frames) \in Nat /\ Frame = 1 .. Len(frames) /\ Numbered(frames)
    BY NumberedFrames DEF IInv
  <1>2. Len(frames') \in Nat /\ Numbered(frames')
    <2>1. frames' \in Seq(FrameRecord) /\ \A f \in 1 .. Len(frames') : frames'[f].parent < f
      BY DEF IInv, TypeOK, FrameRecord, Frame
    <2>2. \A f \in 1 .. Len(frames') : frames'[f] \in FrameRecord
      BY <2>1
    <2> QED BY <2>1, <2>2 DEF Numbered, FrameRecord
  <1>3. g \in 0 .. Len(frames) /\ Len(frames) <= Len(frames')
    BY <1>1 DEF Root, Grown
  <1>4. \A f \in 1 .. Len(frames) : frames'[f].parent = frames[f].parent
    BY <1>1 DEF Grown
  <1>5. Chain(frames', g) = Chain(frames, g) /\ Chain(frames, g) \subseteq Frame
    BY <1>1, <1>2, <1>3, <1>4, ChainStays
  <1>6. Path(g)' = Path(g)
    BY <1>5 DEF Path, Grown
  <1>7. DepthOf(g)' = DepthOf(g) /\ Bodies(g)' = Bodies(g)
    <2>1. g = Root \/ (frames'[g].depth = frames[g].depth /\ frames'[g].query = frames[g].query)
      BY DEF Grown
    <2> QED BY <2>1 DEF DepthOf, Bodies, Grown
  <1>8. Known(g)' = Known(g)
    BY <1>6, <1>7 DEF Known, Grown
  <1>9. \A c : Outcome(g, c)' = Outcome(g, c)
    BY <1>7, <1>8 DEF Outcome
  <1>10. Frame \subseteq Frame'
    BY <1>1, <1>2, <1>3 DEF Frame
  <1> QED BY <1>6, <1>7, <1>8, <1>9, <1>10

(* What a step leaves alone stays right.                                   *)
LEMMA FrameStaysRight ==
  ASSUME IInv, IInv', Grown, NEW f \in Frame, FrameRight(f),
         frames'[f].state = "Ready" => frames[f].state = "Ready" /\ frames'[f].result = frames[f].result
  PROVE  FrameRight(f)'
  <1>1. PICK g \in {Root} \cup Frame : g = frames[f].parent
    BY NumberedFrames DEF IInv, Root
  <1>2. Path(g)' = Path(g) /\ Known(g)' = Known(g)
    BY Unmoved
  <1>3. frames'[f].query = frames[f].query /\ frames'[f].parent = g
    BY <1>1 DEF Grown
  <1> QED BY <1>1, <1>2, <1>3 DEF FrameRight

LEMMA TaskStaysRight ==
  ASSUME IInv, IInv', Grown, NEW g \in {Root} \cup Frame, NEW c \in Live(g), TaskRight(g, c),
         Task(g, c)' = Task(g, c)
  PROVE  TaskRight(g, c)'
  <1>1. Known(g)' = Known(g) /\ Bodies(g)' = Bodies(g)
    BY Unmoved
  <1>2. Task(g, c).waits \subseteq Frame
    BY DEF IInv, ProducersOK, Live
  <1>3. \A f \in Task(g, c).waits : frames'[f].query = frames[f].query /\ frames'[f].parent = frames[f].parent
    BY <1>2 DEF Grown
  <1> QED BY <1>1, <1>3 DEF TaskRight

LEMMA ProducerStaysRight ==
  ASSUME IInv, IInv', Grown, NEW g \in {Root} \cup Frame, ProducerRight(g),
         producers'[g].answers = producers[g].answers,
         DOMAIN producers'[g].tasks = DOMAIN producers[g].tasks,
         \A c \in DOMAIN producers[g].tasks : Task(g, c)'.done => Task(g, c).done
  PROVE  ProducerRight(g)'
  <1>1. \A c : Outcome(g, c)' = Outcome(g, c)
    BY Unmoved
  <1> QED BY <1>1 DEF ProducerRight

(* What cancelling does to the frames.                                     *)
LEMMA Abandoning ==
  ASSUME IInv, NEW p, Abandon(p)
  PROVE  /\ Frame' = Frame /\ Len(frames') = Len(frames)
         /\ \A f \in Frame : /\ frames'[f].query = frames[f].query /\ frames'[f].parent = frames[f].parent
                             /\ frames'[f].depth = frames[f].depth /\ frames'[f].result = frames[f].result
                             /\ frames'[f].state \in {"Abandoned", frames[f].state}
  <1> DEFINE gone == Orphaned(p)
  <1>1. frames' = [f \in Frame |->
           IF f \in gone THEN [frames[f] EXCEPT !.state = "Abandoned", !.subs = {}]
           ELSE [frames[f] EXCEPT !.subs = {s \in @ : s[1] # p /\ s[1] \notin gone}]]
    BY DEF Abandon
  <1> HIDE DEF gone
  <1>2. Len(frames) \in Nat /\ Frame = 1 .. Len(frames) /\ \A f \in Frame : frames[f] \in FrameRecord
    BY Frames DEF IInv, Frame
  <1>3. ASSUME NEW f \in Frame
        PROVE  /\ frames'[f].query = frames[f].query /\ frames'[f].parent = frames[f].parent
               /\ frames'[f].depth = frames[f].depth /\ frames'[f].result = frames[f].result
               /\ frames'[f].state \in {"Abandoned", frames[f].state}
    <2>1. PICK r \in FrameRecord : r = frames[f]
      BY <1>2
    <2>2. CASE f \in gone
      <3>1. frames'[f] = [r EXCEPT !.state = "Abandoned", !.subs = {}]
        BY <1>1, <2>1, <2>2
      <3> QED BY <2>1, <3>1 DEF FrameRecord
    <2>3. CASE f \notin gone
      <3>1. PICK subs : subs = {s \in r.subs : s[1] # p /\ s[1] \notin gone}
        OBVIOUS
      <3>2. frames'[f] = [r EXCEPT !.subs = subs]
        BY <1>1, <2>1, <2>3, <3>1
      <3> QED BY <2>1, <3>2 DEF FrameRecord
    <2> QED BY <2>2, <2>3
  <1>4. Len(frames') = Len(frames)
    <2>1. DOMAIN frames' = 1 .. Len(frames) /\ frames' = [f \in DOMAIN frames' |-> frames'[f]]
      BY <1>1, <1>2
    <2>2. frames' \in [1 .. Len(frames) -> {frames'[f] : f \in 1 .. Len(frames)}]
      BY <2>1
    <2> QED BY <1>2, <2>2
  <1> QED BY <1>3, <1>4 DEF Frame

(* What the end of a task does to its producer.                            *)
LEMMA Ending ==
  ASSUME IInv, running # Nobody, NEW answer \in Result, Finish(running, answer), NEW p, p = polling, NEW c, c = running
  PROVE  /\ \A g \in {Root} \cup Frame : g # p => producers'[g] = producers[g]
         /\ producers'[p].answers = producers[p].answers \cup {answer}
         /\ DOMAIN producers'[p].tasks = DOMAIN producers[p].tasks
         /\ \A d \in DOMAIN producers[p].tasks :
              IF d = c \/ (p # Root /\ answer = "Yes") THEN Task(p, d)'.done ELSE Task(p, d)' = Task(p, d)
  <1>1. /\ p \in {Root} \cup Frame /\ c \in DOMAIN producers[p].tasks
        /\ DOMAIN producers = {Root} \cup Frame /\ producers[p] \in ProducerRecord
    BY WhoRuns DEF IInv, TypeOK, ProducersOK
  <1>2. PICK pr \in ProducerRecord : pr = producers[p]
    BY <1>1
  <1>3. PICK cancels \in BOOLEAN : cancels <=> (p # Root /\ answer = "Yes")
    OBVIOUS
  <1> DEFINE over(d) == d = c \/ cancels
             tasks == [d \in DOMAIN pr.tasks |->
                         IF over(d) THEN [pr.tasks[d] EXCEPT !.done = TRUE, !.waits = {}] ELSE pr.tasks[d]]
             queue == IF cancels THEN <<>> ELSE pr.queue
             new == [pr EXCEPT !.tasks = tasks, !.queue = queue, !.answers = pr.answers \cup {answer}]
  <1>4. producers' = [producers EXCEPT ![p] = new]
    BY <1>2, <1>3 DEF Finish
  <1>5. new.tasks = tasks /\ new.answers = pr.answers \cup {answer}
    <2> HIDE DEF tasks, queue
    <2> QED BY DEF ProducerRecord
  <1>6. producers'[p] = new /\ \A g \in {Root} \cup Frame : g # p => producers'[g] = producers[g]
    <2> HIDE DEF new
    <2> QED BY <1>1, <1>4
  <1> HIDE DEF new
  <1>7. ASSUME NEW d \in DOMAIN pr.tasks
        PROVE  IF over(d) THEN tasks[d].done ELSE tasks[d] = pr.tasks[d]
    <2>1. PICK t \in TaskRecord : t = pr.tasks[d]
      BY DEF ProducerRecord
    <2>2. over(d) => tasks[d] = [t EXCEPT !.done = TRUE, !.waits = {}]
      BY <2>1
    <2> QED BY <2>1, <2>2 DEF TaskRecord
  <1>8. DOMAIN tasks = DOMAIN pr.tasks
    OBVIOUS
  <1>9. \A d : Task(p, d)' = tasks[d] /\ Task(p, d) = pr.tasks[d]
    BY <1>2, <1>5, <1>6 DEF Task
  <1> HIDE DEF tasks
  <1> QED BY <1>2, <1>3, <1>5, <1>6, <1>7, <1>8, <1>9

(* A task that ends with the outcome of its body.                          *)
LEMMA FinishRight ==
  ASSUME IInv, IInv', Right, running # Nobody, NEW answer \in Result, Finish(running, answer),
         answer = Outcome(polling, running)
  PROVE  Grown /\ Right'
  <1>p. PICK p : p = polling
    OBVIOUS
  <1>c. PICK c : c = running
    OBVIOUS
  <1>1. /\ \A g \in {Root} \cup Frame : g # p => producers'[g] = producers[g]
        /\ producers'[p].answers = producers[p].answers \cup {answer}
        /\ DOMAIN producers'[p].tasks = DOMAIN producers[p].tasks
        /\ \A d \in DOMAIN producers[p].tasks :
             IF d = c \/ (p # Root /\ answer = "Yes") THEN Task(p, d)'.done ELSE Task(p, d)' = Task(p, d)
    BY <1>p, <1>c, Ending
  <1>2. /\ program' = program /\ Frame' = Frame /\ Len(frames') = Len(frames)
        /\ \A f \in Frame : /\ frames'[f].query = frames[f].query /\ frames'[f].parent = frames[f].parent
                            /\ frames'[f].depth = frames[f].depth /\ frames'[f].result = frames[f].result
                            /\ frames'[f].state \in {"Abandoned", frames[f].state}
    <2>1. Abandon(p) \/ UNCHANGED frames
      BY <1>p DEF Finish
    <2>2. CASE Abandon(p)
      BY <2>2, Abandoning DEF Finish
    <2>3. CASE UNCHANGED frames
      BY <2>3 DEF Frame, Finish
    <2> QED BY <2>1, <2>2, <2>3
  <1>3. Len(frames) \in Nat /\ Pending \subseteq Frame /\ Polled \subseteq {Root} \cup Frame
    BY Frames DEF IInv, Pending, Polled
  <1>4. Grown
    BY <1>2, <1>3 DEF Grown
  <1>5. Polled' \subseteq Polled
    BY <1>2 DEF Polled, Pending
  <1>6. /\ p \in Polled /\ p \in {Root} \cup Frame /\ c \in DOMAIN producers[p].tasks
        /\ answer = Outcome(p, c)
    BY <1>p, <1>c, WhoRuns
  <1>7. ASSUME NEW f \in Frame' PROVE FrameRight(f)'
    <2>1. f \in Frame /\ FrameRight(f)
      BY <1>2 DEF Right
    <2>2. frames'[f].state = "Ready" => frames[f].state = "Ready" /\ frames'[f].result = frames[f].result
      BY <1>2, <2>1
    <2> QED BY <1>4, <2>1, <2>2, FrameStaysRight
  <1>8. ASSUME NEW g \in Polled', NEW d \in Live(g)' PROVE TaskRight(g, d)'
    <2>1. g \in Polled /\ g \in {Root} \cup Frame
      BY <1>3, <1>5
    <2>2. d \in Live(g) /\ Task(g, d)' = Task(g, d)
      <3>1. CASE g # p
        BY <1>1, <2>1, <3>1 DEF Live, Task
      <3>2. CASE g = p
        <4>1. d \in DOMAIN producers[p].tasks /\ ~ Task(p, d)'.done
          BY <1>1, <1>8, <3>2 DEF Live
        <4>2. Task(p, d)' = Task(p, d)
          BY <1>1, <4>1
        <4> QED BY <3>2, <4>1, <4>2 DEF Live
      <3> QED BY <3>1, <3>2
    <2>3. TaskRight(g, d)
      BY <2>1, <2>2 DEF Right
    <2> QED BY <1>4, <2>1, <2>2, <2>3, TaskStaysRight
  <1>9. ASSUME NEW g \in Polled' PROVE ProducerRight(g)'
    <2>1. g \in {Root} \cup Frame /\ ProducerRight(g)
      BY <1>3, <1>5 DEF Right
    <2>2. CASE g # p
      <3>1. producers'[g] = producers[g] /\ \A d : Task(g, d)' = Task(g, d)
        BY <1>1, <2>1, <2>2 DEF Task
      <3> QED BY <1>4, <2>1, <3>1, ProducerStaysRight
    <2>3. CASE g = p
      <3>1. \A d : Outcome(p, d)' = Outcome(p, d)
        BY <1>4, <1>6, Unmoved
      <3>2. /\ \A a \in producers[p].answers : \E d \in DOMAIN producers[p].tasks : a = Outcome(p, d)
            /\ \A d \in DOMAIN producers[p].tasks : Task(p, d).done =>
                 "Yes" \in producers[p].answers \/ Outcome(p, d) \in producers[p].answers
        BY <2>1, <2>3 DEF ProducerRight
      <3>3. \A a \in producers'[p].answers : \E d \in DOMAIN producers'[p].tasks : a = Outcome(p, d)'
        BY <1>1, <1>6, <3>1, <3>2
      <3>4. ASSUME NEW d \in DOMAIN producers'[p].tasks, Task(p, d)'.done
            PROVE  "Yes" \in producers'[p].answers \/ Outcome(p, d)' \in producers'[p].answers
        BY <1>1, <1>6, <3>1, <3>2, <3>4
      <3> QED BY <2>3, <3>3, <3>4 DEF ProducerRight
    <2> QED BY <2>2, <2>3
  <1> QED BY <1>4, <1>7, <1>8, <1>9 DEF Right

(* The body of the running task.                                           *)
LEMMA RunningBody ==
  ASSUME IInv, running # Nobody, NEW p, p = polling, NEW c, c = running
  PROVE  /\ p \in Polled /\ p \in {Root} \cup Frame /\ c \in Live(p) /\ c \in DOMAIN producers[p].tasks
         /\ Task(p, c) \in TaskRecord /\ ~ Task(p, c).done
         /\ Bodies(p)[c] \in Seq(Query) /\ Body(c) = Bodies(p)[c]
  <1>1. /\ p \in Polled /\ p \in {Root} \cup Frame /\ c \in Live(p) /\ c \in DOMAIN producers[p].tasks
        /\ Task(p, c) \in TaskRecord /\ ~ Task(p, c).done
    BY WhoRuns
  <1>2. c \in 1 .. Len(Bodies(p))
    <2>1. DOMAIN producers[p].tasks = 1 .. Len(producers[p].tasks)
      BY <1>1, Tasks DEF IInv
    <2> QED BY <1>1, <2>1 DEF IInv, ProducersOK
  <1>3. Bodies(p) \in Seq(Seq(Query))
    <2>1. CASE p = Root
      BY <2>1, ProgramAssumption DEF Bodies
    <2>2. CASE p # Root
      <3>1. frames[p].query \in Query
        BY <1>1, <2>2, Frames DEF IInv, FrameRecord
      <3>2. program.candidates \in [Query -> Seq(Seq(Query))]
        BY ProgramAssumption DEF IInv, TypeOK
      <3> QED BY <2>2, <3>1, <3>2 DEF Bodies
    <2> QED BY <2>1, <2>2
  <1>4. Bodies(p)[c] \in Seq(Query)
    BY <1>2, <1>3
  <1> QED BY <1>1, <1>4 DEF Body

(* What going on to the next goal does to the producer.                    *)
LEMMA Proceeding ==
  ASSUME IInv, running # Nobody, NEW result \in Result, result # "No", Continue(running, result),
         NEW p, p = polling, NEW c, c = running
  PROVE  /\ UNCHANGED <<program, frames>>
         /\ \A g \in {Root} \cup Frame : g # p => producers'[g] = producers[g]
         /\ producers'[p].answers = producers[p].answers
         /\ DOMAIN producers'[p].tasks = DOMAIN producers[p].tasks
         /\ \A d \in DOMAIN producers[p].tasks : d # c => Task(p, d)' = Task(p, d)
         /\ Task(p, c)'.at = Task(p, c).at + 1 /\ Task(p, c)'.waits = {} /\ ~ Task(p, c)'.done
         /\ Task(p, c)'.uncertain <=> (Task(p, c).uncertain \/ result = "Maybe")
  <1>1. /\ p \in {Root} \cup Frame /\ c \in DOMAIN producers[p].tasks
        /\ Task(p, c) \in TaskRecord /\ ~ Task(p, c).done
        /\ DOMAIN producers = {Root} \cup Frame /\ producers[p] \in ProducerRecord
    BY RunningBody DEF IInv, TypeOK, ProducersOK
  <1>2. PICK old \in TaskRecord : old = Task(p, c)
    BY <1>1
  <1>3. PICK u \in BOOLEAN : u = (old.uncertain \/ result = "Maybe")
    BY DEF TaskRecord
  <1>4. PICK t : t = [old EXCEPT !.at = old.at + 1, !.waits = {}, !.uncertain = u]
    OBVIOUS
  <1>5. t.at = old.at + 1 /\ t.waits = {} /\ t.uncertain = u /\ t.done = old.done
    BY <1>4 DEF TaskRecord
  <1>6. producers' = [producers EXCEPT ![p].tasks[c] = t] /\ UNCHANGED <<program, frames>>
    BY <1>2, <1>3, <1>4 DEF Continue
  <1>7. PICK pr \in ProducerRecord : pr = producers[p]
    BY <1>1
  <1>8. PICK new : new = [pr EXCEPT !.tasks = [pr.tasks EXCEPT ![c] = t]]
    OBVIOUS
  <1>9. producers' = [producers EXCEPT ![p] = new]
    BY <1>6, <1>7, <1>8
  <1>10. producers'[p] = new /\ \A g \in {Root} \cup Frame : g # p => producers'[g] = producers[g]
    BY <1>1, <1>9
  <1>11. new.answers = pr.answers /\ new.tasks = [pr.tasks EXCEPT ![c] = t]
    BY <1>8 DEF ProducerRecord
  <1>12. /\ DOMAIN new.tasks = DOMAIN pr.tasks /\ new.tasks[c] = t
         /\ \A d \in DOMAIN pr.tasks : d # c => new.tasks[d] = pr.tasks[d]
    BY <1>1, <1>7, <1>11
  <1>13. \A d : Task(p, d)' = new.tasks[d] /\ Task(p, d) = pr.tasks[d]
    BY <1>7, <1>10 DEF Task
  <1>14. Task(p, c)' = t
    BY <1>12, <1>13
  <1>15. Task(p, c)'.uncertain <=> (Task(p, c).uncertain \/ result = "Maybe")
    BY <1>2, <1>3, <1>5, <1>14
  <1>16. Task(p, c)'.at = Task(p, c).at + 1 /\ Task(p, c)'.waits = {} /\ ~ Task(p, c)'.done
    BY <1>1, <1>2, <1>5, <1>14
  <1>17. \A d \in DOMAIN producers[p].tasks : d # c => Task(p, d)' = Task(p, d)
    BY <1>7, <1>12, <1>13
  <1>18. producers'[p].answers = producers[p].answers /\ DOMAIN producers'[p].tasks = DOMAIN producers[p].tasks
    BY <1>7, <1>10, <1>11, <1>12
  <1> QED BY <1>6, <1>10, <1>15, <1>16, <1>17, <1>18

LEMMA SameFramesRight ==
  ASSUME IInv, IInv', Right, UNCHANGED <<program, frames>>
  PROVE  /\ Grown /\ Polled' = Polled /\ Frame' = Frame /\ Polled \subseteq {Root} \cup Frame
         /\ \A f \in Frame' : FrameRight(f)'
  <1>1. Len(frames) \in Nat
    BY Frames DEF IInv
  <1>2. Grown /\ Polled' = Polled /\ Frame' = Frame
    BY <1>1 DEF Grown, Polled, Pending, Frame
  <1>3. \A f \in Frame : FrameRight(f)'
    BY <1>2, FrameStaysRight DEF Right
  <1> QED BY <1>2, <1>3 DEF Polled, Pending

(* Steps that change no task and no answer.                                *)
LEMMA QuietRight ==
  ASSUME IInv, IInv', Right, UNCHANGED <<program, frames>>,
         \A g \in {Root} \cup Frame :
           producers'[g].tasks = producers[g].tasks /\ producers'[g].answers = producers[g].answers
  PROVE  Grown /\ Right'
  <1>1. /\ Grown /\ Polled' = Polled /\ Frame' = Frame /\ Polled \subseteq {Root} \cup Frame
        /\ \A f \in Frame' : FrameRight(f)'
    BY SameFramesRight
  <1>2. ASSUME NEW g \in Polled' PROVE ProducerRight(g)' /\ \A c \in Live(g)' : TaskRight(g, c)'
    <2>1. g \in Polled /\ g \in {Root} \cup Frame
      BY <1>1
    <2>2. Live(g)' = Live(g) /\ \A c : Task(g, c)' = Task(g, c)
      BY <2>1 DEF Live, Task
    <2>3. ProducerRight(g)'
      BY <1>1, <2>1, <2>2, ProducerStaysRight DEF Right
    <2>4. ASSUME NEW c \in Live(g)' PROVE TaskRight(g, c)'
      <3>1. c \in Live(g) /\ TaskRight(g, c)
        BY <2>1, <2>2 DEF Right
      <3> QED BY <1>1, <2>1, <2>2, <3>1, TaskStaysRight
    <2> QED BY <2>3, <2>4
  <1> QED BY <1>1, <1>2 DEF Right

(* A task that hears the answer to its goal.                               *)
LEMMA ContinueRight ==
  ASSUME IInv, IInv', Right, running # Nobody, NEW result \in Result, Continue(running, result),
         Task(polling, running).at <= Len(Body(running)),
         result = Known(polling)[Goal(running)]
  PROVE  Grown /\ Right'
  <1>p. PICK p : p = polling
    OBVIOUS
  <1>c. PICK c : c = running
    OBVIOUS
  <1> DEFINE body == Bodies(p)[c]
  <1>1. /\ p \in Polled /\ p \in {Root} \cup Frame /\ c \in Live(p) /\ c \in DOMAIN producers[p].tasks
        /\ Task(p, c) \in TaskRecord /\ body \in Seq(Query) /\ Body(c) = body
    BY <1>p, <1>c, RunningBody
  <1>2. PICK at \in Nat \ {0} : at = Task(p, c).at
    BY <1>1 DEF TaskRecord
  <1>3. at \in DOMAIN body /\ at <= Len(body) /\ result = Known(p)[body[at]] /\ Len(body) \in Nat
    BY <1>p, <1>c, <1>1, <1>2 DEF Goal
  <1>4. CASE result = "No"
    <2>1. "No" \in {Known(p)[body[i]] : i \in DOMAIN body}
      BY <1>3, <1>4
    <2>2. Outcome(p, c) = "No"
      BY <2>1 DEF Outcome, BodyOutcome, Conjunction
    <2>3. Finish(running, "No") /\ "No" \in Result /\ "No" = Outcome(polling, running)
      BY <1>p, <1>c, <1>4, <2>2 DEF Continue
    <2> QED BY <2>3, FinishRight
  <1>5. CASE result # "No"
    <2>1. /\ UNCHANGED <<program, frames>>
          /\ \A g \in {Root} \cup Frame : g # p => producers'[g] = producers[g]
          /\ producers'[p].answers = producers[p].answers
          /\ DOMAIN producers'[p].tasks = DOMAIN producers[p].tasks
          /\ \A d \in DOMAIN producers[p].tasks : d # c => Task(p, d)' = Task(p, d)
          /\ Task(p, c)'.at = at + 1 /\ Task(p, c)'.waits = {} /\ ~ Task(p, c)'.done
          /\ Task(p, c)'.uncertain <=> (Task(p, c).uncertain \/ result = "Maybe")
      BY <1>p, <1>c, <1>2, <1>5, Proceeding
    <2>2. /\ Grown /\ Polled' = Polled /\ Frame' = Frame /\ Polled \subseteq {Root} \cup Frame
          /\ \A f \in Frame' : FrameRight(f)'
      BY <2>1, SameFramesRight
    <2>3. TaskRight(p, c)'
      <3>1. Known(p)' = Known(p) /\ Bodies(p)' = Bodies(p)
        BY <1>1, <2>2, Unmoved
      <3>2. /\ \A i \in 1 .. (at - 1) : Known(p)[body[i]] # "No"
            /\ Task(p, c).uncertain <=> \E i \in 1 .. (at - 1) : Known(p)[body[i]] = "Maybe"
        BY <1>1, <1>2 DEF Right, TaskRight
      <3>3. (at + 1) - 1 = at /\ 1 .. at = (1 .. (at - 1)) \cup {at} /\ at + 1 <= Len(body) + 1
        BY <1>2, <1>3
      <3> HIDE DEF body
      <3>4. /\ \A i \in 1 .. at : Known(p)[body[i]] # "No"
            /\ Task(p, c)'.uncertain <=> \E i \in 1 .. at : Known(p)[body[i]] = "Maybe"
        BY <1>3, <1>5, <2>1, <3>2, <3>3
      <3>5. /\ Task(p, c)'.at <= Len(body) + 1
            /\ \A i \in 1 .. (Task(p, c)'.at - 1) : Known(p)[body[i]] # "No"
            /\ Task(p, c)'.uncertain <=> \E i \in 1 .. (Task(p, c)'.at - 1) : Known(p)[body[i]] = "Maybe"
        BY <2>1, <3>3, <3>4
      <3> QED BY <2>1, <3>1, <3>5 DEF TaskRight, body
    <2>4. ASSUME NEW g \in Polled', NEW d \in Live(g)' PROVE TaskRight(g, d)'
      <3>1. g \in Polled /\ g \in {Root} \cup Frame
        BY <2>2
      <3>2. CASE g = p /\ d = c
        BY <2>3, <3>2
      <3>3. CASE g # p \/ d # c
        <4>1. d \in Live(g) /\ Task(g, d)' = Task(g, d)
          <5>1. CASE g # p
            BY <2>1, <3>1, <5>1 DEF Live, Task
          <5>2. CASE g = p
            <6>1. d \in DOMAIN producers[p].tasks /\ d # c /\ ~ Task(p, d)'.done
              BY <2>1, <2>4, <3>3, <5>2 DEF Live
            <6> QED BY <2>1, <5>2, <6>1 DEF Live
          <5> QED BY <5>1, <5>2
        <4>2. TaskRight(g, d)
          BY <3>1, <4>1 DEF Right
        <4> QED BY <2>2, <3>1, <4>1, <4>2, TaskStaysRight
      <3> QED BY <3>2, <3>3
    <2>5. ASSUME NEW g \in Polled' PROVE ProducerRight(g)'
      <3>1. g \in {Root} \cup Frame /\ ProducerRight(g)
        BY <2>2 DEF Right
      <3>2. /\ producers'[g].answers = producers[g].answers
            /\ DOMAIN producers'[g].tasks = DOMAIN producers[g].tasks
            /\ \A d \in DOMAIN producers[g].tasks : Task(g, d)'.done => Task(g, d).done
        <4>1. CASE g # p
          BY <2>1, <3>1, <4>1 DEF Task
        <4>2. CASE g = p
          BY <2>1, <4>2
        <4> QED BY <4>1, <4>2
      <3> QED BY <2>2, <3>1, <3>2, ProducerStaysRight
    <2> QED BY <2>2, <2>4, <2>5 DEF Right
  <1> QED BY <1>4, <1>5

(* The answers a task hears are those of the reference.                    *)
LEMMA BodyDoneRight == ASSUME IInv, IInv', Right, BodyDone PROVE Grown /\ Right'
  <1>p. PICK p : p = polling
    OBVIOUS
  <1>c. PICK c : c = running
    OBVIOUS
  <1> DEFINE body == Bodies(p)[c]
             answer == IF Task(p, c).uncertain THEN "Maybe" ELSE "Yes"
  <1>1. running # Nobody /\ Finish(running, answer) /\ Task(p, c).at > Len(Body(c))
    BY <1>p, <1>c DEF BodyDone
  <1>2. /\ p \in Polled /\ p \in {Root} \cup Frame /\ c \in Live(p)
        /\ Task(p, c) \in TaskRecord /\ body \in Seq(Query) /\ Body(c) = body
    BY <1>p, <1>c, <1>1, RunningBody
  <1>3. PICK at \in Nat \ {0} : at = Task(p, c).at
    BY <1>2 DEF TaskRecord
  <1>4. /\ at <= Len(body) + 1
        /\ \A i \in 1 .. (at - 1) : Known(p)[body[i]] # "No"
        /\ Task(p, c).uncertain <=> \E i \in 1 .. (at - 1) : Known(p)[body[i]] = "Maybe"
    BY <1>2, <1>3 DEF Right, TaskRight
  <1>5. 1 .. (at - 1) = DOMAIN body
    BY <1>1, <1>2, <1>3, <1>4
  <1> HIDE DEF body
  <1>6. BodyOutcome(Known(p), body) = answer
    BY <1>4, <1>5 DEF BodyOutcome, Conjunction
  <1>7. answer = Outcome(polling, running) /\ answer \in Result
    BY <1>p, <1>c, <1>6 DEF Outcome, body, Result
  <1> HIDE DEF answer
  <1> QED BY <1>1, <1>7, FinishRight

LEMMA AnsweredRight ==
  ASSUME IInv, IInv', Right, TooDeep \/ RequestCycle \/ RequestSettled \/ Answered
  PROVE  Grown /\ Right'
  <1>p. PICK p : p = polling
    OBVIOUS
  <1>c. PICK c : c = running
    OBVIOUS
  <1>1. running # Nobody
    BY DEF TooDeep, RequestCycle, RequestSettled, Answered, AtGoal
  <1>2. /\ p \in Polled /\ p \in {Root} \cup Frame /\ c \in Live(p) /\ c \in DOMAIN producers[p].tasks
        /\ Body(c) = Bodies(p)[c] /\ Depth = DepthOf(p)
    BY <1>p, <1>c, <1>1, RunningBody DEF Depth, DepthOf
  <1>3. TaskRight(p, c)
    BY <1>2 DEF Right
  <1>4. "Maybe" \in Result /\ "No" \in Result /\ \A f \in Frame : frames[f].result \in Result
    BY Frames DEF IInv, FrameRecord, Result
  <1>5. CASE TooDeep
    <2>1. AtGoal /\ Depth >= MaxProofDepth /\ Continue(running, "Maybe")
      BY <1>5 DEF TooDeep
    <2>2. DepthOf(p) = MaxProofDepth
      BY <1>2, <2>1, Goals, ProgramAssumption
    <2>3. "Maybe" = Known(polling)[Goal(running)]
      BY <1>p, <1>2, <2>1, <2>2, Goals, GoalIsQuery
    <2> QED BY <1>1, <1>4, <2>1, <2>3, ContinueRight DEF AtGoal
  <1>6. CASE RequestCycle
    <2>1. AtGoal /\ Depth < MaxProofDepth /\ Cyclic(Goal(running)) /\ Continue(running, "No")
      BY <1>6 DEF RequestCycle
    <2>2. DepthOf(p) # MaxProofDepth
      BY <1>2, <2>1, Goals, ProgramAssumption
    <2>3. Goal(running) \in Path(p) \cap Query
      BY <1>p, <2>1, GoalIsQuery DEF Cyclic, Ancestors, Path
    <2>4. "No" = Known(polling)[Goal(running)]
      BY <1>p, <1>2, <2>2, <2>3, Goals
    <2> QED BY <1>1, <1>4, <2>1, <2>4, ContinueRight DEF AtGoal
  <1>7. CASE RequestSettled
    <2>1. PICK f \in Entry(Goal(running)) : frames[f].state = "Ready" /\ Continue(running, frames[f].result)
      BY <1>7 DEF RequestSettled
    <2>2. f \in Frame /\ frames[f].parent = p /\ frames[f].query = Goal(running)
      BY <1>p, <2>1 DEF Entry, IInv, TypeOK
    <2>3. frames[f].result = Known(polling)[Goal(running)]
      BY <1>p, <2>1, <2>2 DEF Right, FrameRight
    <2>4. Task(polling, running).at <= Len(Body(running))
      BY <1>7 DEF RequestSettled, AtGoal
    <2> QED BY <1>1, <1>4, <2>1, <2>2, <2>3, <2>4, ContinueRight
  <1>8. CASE Answered
    <2>1. PICK f \in Task(polling, running).waits :
            frames[f].state = "Ready" /\ Continue(running, frames[f].result)
      BY <1>8 DEF Answered
    <2>2. f \in Frame
      BY <1>p, <1>c, <1>2, <2>1 DEF IInv, ProducersOK
    <2>3. /\ Task(polling, running).at <= Len(Body(running))
          /\ frames[f].parent = p /\ frames[f].query = Goal(running)
      BY <1>p, <1>c, <1>2, <1>3, <2>1 DEF TaskRight, Goal
    <2>4. frames[f].result = Known(polling)[Goal(running)]
      BY <1>p, <2>1, <2>2, <2>3 DEF Right, FrameRight
    <2> QED BY <1>1, <1>4, <2>1, <2>2, <2>3, <2>4, ContinueRight
  <1> QED BY <1>5, <1>6, <1>7, <1>8

(* A task that comes to wait for a frame of its goal.                      *)
LEMMA WaitingRight ==
  ASSUME IInv, IInv', Right, Grown, running # Nobody, NEW p, p = polling, NEW c, c = running, NEW f \in Nat,
         producers'[p] = WaitingProducer(producers[p], c, f),
         \A g \in {Root} \cup Frame : g # p => producers'[g] = producers[g],
         Task(p, c).at <= Len(Body(c)), frames'[f].parent = p, frames'[f].query = Body(c)[Task(p, c).at],
         NEW g \in Polled
  PROVE  ProducerRight(g)' /\ \A d \in Live(g)' : TaskRight(g, d)'
  <1>1. /\ p \in Polled /\ p \in {Root} \cup Frame /\ c \in Live(p) /\ c \in DOMAIN producers[p].tasks
        /\ Task(p, c) \in TaskRecord /\ Body(c) = Bodies(p)[c] /\ producers[p] \in ProducerRecord
        /\ g \in {Root} \cup Frame
    BY RunningBody DEF IInv, ProducersOK, Polled, Pending
  <1>2. PICK t : t = WaitingTask(Task(p, c), f)
    OBVIOUS
  <1>3. t.at = Task(p, c).at /\ t.uncertain = Task(p, c).uncertain
    BY <1>1, <1>2 DEF WaitingTask, TaskRecord
  <1>4. Waits(producers[p], c, f, t, producers'[p])
    BY <1>1, <1>2, Waiting DEF Task
  <1>5. /\ t.waits = {f} /\ t.done = Task(p, c).done
        /\ producers'[p].answers = producers[p].answers /\ DOMAIN producers'[p].tasks = DOMAIN producers[p].tasks
        /\ Task(p, c)' = t /\ \A d \in DOMAIN producers[p].tasks : d # c => Task(p, d)' = Task(p, d)
    BY <1>1, <1>4 DEF Waits, Task
  <1>6. /\ producers'[g].answers = producers[g].answers
        /\ DOMAIN producers'[g].tasks = DOMAIN producers[g].tasks
        /\ \A d \in DOMAIN producers[g].tasks : Task(g, d)'.done = Task(g, d).done
        /\ \A d \in DOMAIN producers[g].tasks : (g # p \/ d # c) => Task(g, d)' = Task(g, d)
    <2>1. CASE g # p
      BY <1>1, <2>1 DEF Task
    <2>2. CASE g = p
      BY <1>5, <2>2
    <2> QED BY <2>1, <2>2
  <1>7. ProducerRight(g)'
    BY <1>1, <1>6, ProducerStaysRight DEF Right
  <1>8. ASSUME NEW d \in Live(g)' PROVE TaskRight(g, d)'
    <2>1. d \in Live(g) /\ d \in DOMAIN producers[g].tasks
      BY <1>6, <1>8 DEF Live
    <2>2. TaskRight(g, d)
      BY <2>1 DEF Right
    <2>3. CASE g # p \/ d # c
      BY <1>1, <1>6, <2>1, <2>2, <2>3, TaskStaysRight
    <2>4. CASE g = p /\ d = c
      <3>1. Known(p)' = Known(p) /\ Bodies(p)' = Bodies(p)
        BY <1>1, Unmoved
      <3> QED BY <1>1, <1>3, <1>5, <2>2, <2>4, <3>1 DEF TaskRight
    <2> QED BY <2>3, <2>4
  <1> QED BY <1>7, <1>8

LEMMA RequestSharedRight == ASSUME IInv, IInv', Right, RequestShared PROVE Grown /\ Right'
  <1>p. PICK p : p = polling
    OBVIOUS
  <1>c. PICK c : c = running
    OBVIOUS
  <1>1. PICK f \in Entry(Goal(running)) :
          /\ frames' = [frames EXCEPT ![f].subs = @ \cup {<<polling, running>>}]
          /\ producers' = [producers EXCEPT ![polling].tasks[running].waits = {f}]
    BY DEF RequestShared
  <1>2. /\ running # Nobody /\ program' = program
        /\ Task(p, c).at <= Len(Body(c)) /\ Goal(running) = Body(c)[Task(p, c).at]
    BY <1>p, <1>c DEF RequestShared, AtGoal, Goal
  <1>3. f \in Frame /\ frames[f].parent = p /\ frames[f].query = Goal(running)
    BY <1>p, <1>1 DEF Entry, IInv, TypeOK
  <1>4. /\ Frame' = Frame /\ Len(frames') = Len(frames) /\ Len(frames) \in Nat /\ f \in Nat
        /\ \A h \in Frame : /\ frames'[h].query = frames[h].query /\ frames'[h].parent = frames[h].parent
                            /\ frames'[h].depth = frames[h].depth /\ frames'[h].result = frames[h].result
                            /\ frames'[h].state = frames[h].state
    <2>1. /\ frames \in Seq(FrameRecord) /\ f \in DOMAIN frames /\ Len(frames) \in Nat
          /\ f \in Nat /\ Frame = DOMAIN frames
      BY <1>3, Frames DEF IInv, TypeOK, FrameRecord
    <2>2. PICK r \in FrameRecord : r = frames[f]
      BY <2>1
    <2>3. PICK n : n = [r EXCEPT !.subs = r.subs \cup {<<polling, running>>}]
      OBVIOUS
    <2>4. /\ n.query = r.query /\ n.parent = r.parent /\ n.depth = r.depth
          /\ n.result = r.result /\ n.state = r.state
      BY <2>3 DEF FrameRecord
    <2>5. frames' = [frames EXCEPT ![f] = n]
      BY <1>1, <2>1, <2>2, <2>3
    <2>6. frames'[f] = n /\ \A h \in Frame : h # f => frames'[h] = frames[h]
      BY <2>1, <2>5
    <2>7. Len(frames') = Len(frames)
      BY <2>1, <2>5
    <2>8. Frame' = Frame
      BY <2>7 DEF Frame
    <2> QED BY <2>1, <2>2, <2>4, <2>6, <2>7, <2>8
  <1>5. Grown
    BY <1>2, <1>4 DEF Grown
  <1>6. Polled' = Polled /\ Polled \subseteq {Root} \cup Frame
    BY <1>4 DEF Polled, Pending
  <1>7. ASSUME NEW h \in Frame' PROVE FrameRight(h)'
    BY <1>4, <1>5, FrameStaysRight DEF Right
  <1>8. /\ producers'[p] = WaitingProducer(producers[p], c, f)
        /\ \A g \in {Root} \cup Frame : g # p => producers'[g] = producers[g]
    <2>1. p \in DOMAIN producers /\ DOMAIN producers = {Root} \cup Frame
      BY <1>p, <1>2, RunningBody DEF IInv, TypeOK
    <2>2. producers' = [producers EXCEPT ![p] = WaitingProducer(producers[p], c, f)]
      BY <1>p, <1>c, <1>1 DEF WaitingProducer
    <2> QED BY <2>1, <2>2
  <1>9. frames'[f].parent = p /\ frames'[f].query = Body(c)[Task(p, c).at]
    BY <1>2, <1>3, <1>4
  <1>10. ASSUME NEW g \in Polled' PROVE ProducerRight(g)' /\ \A d \in Live(g)' : TaskRight(g, d)'
    BY <1>p, <1>c, <1>2, <1>4, <1>5, <1>6, <1>8, <1>9, WaitingRight
  <1> QED BY <1>5, <1>7, <1>10 DEF Right

LEMMA RequestNewRight == ASSUME IInv, IInv', Right, RequestNew PROVE Grown /\ Right'
  <1>p. PICK p : p = polling
    OBVIOUS
  <1>c. PICK c : c = running
    OBVIOUS
  <1>f. PICK f : f = Len(frames) + 1
    OBVIOUS
  <1>q. PICK q : q = Goal(running)
    OBVIOUS
  <1>e. PICK frame : frame = [query |-> q, parent |-> p, depth |-> Depth + 1,
                              state |-> "Pending", result |-> "Maybe", subs |-> {<<p, c>>}]
    OBVIOUS
  <1>n. PICK new : new = NewProducer(Len(program.candidates[q]))
    OBVIOUS
  <1>1. /\ running # Nobody /\ program' = program /\ frames' = Append(frames, frame)
        /\ Task(p, c).at <= Len(Body(c)) /\ q = Body(c)[Task(p, c).at] /\ ~ Cyclic(q)
    BY <1>p, <1>c, <1>f, <1>q, <1>e DEF RequestNew, AtGoal, Goal
  <1>2. producers' = [g \in 0 .. f |-> IF g = f THEN new
                        ELSE IF g = p THEN WaitingProducer(producers[p], c, f) ELSE producers[g]]
    BY <1>p, <1>c, <1>f, <1>q, <1>n DEF RequestNew, WaitingProducer
  <1>3. q \in Query
    BY <1>q, GoalIsQuery DEF RequestNew
  <1>4. p \in Polled /\ p \in {Root} \cup Frame
    BY <1>p, <1>1, RunningBody
  <1>5. /\ Len(frames) \in Nat /\ Frame = 1 .. Len(frames) /\ f \in Nat \ {0} /\ f \notin Frame /\ f # Root
        /\ 0 .. f = {Root} \cup Frame \cup {f}
    BY <1>f, Frames DEF IInv, Frame, Root
  <1>6. /\ Len(frames') = f /\ frames'[f] = frame /\ \A h \in Frame : frames'[h] = frames[h]
    BY <1>f, <1>1, <1>5 DEF IInv, TypeOK
  <1>7. Frame' = Frame \cup {f}
    BY <1>f, <1>5, <1>6 DEF Frame
  <1>8. Grown
    BY <1>f, <1>1, <1>5, <1>6 DEF Grown
  <1>9. frame.query = q /\ frame.parent = p /\ frame.state = "Pending"
    BY <1>e
  <1>10. Polled' = Polled \cup {f} /\ Polled \subseteq {Root} \cup Frame
    BY <1>6, <1>7, <1>9 DEF Polled, Pending
  <1>11. /\ producers'[f] = new
         /\ producers'[p] = WaitingProducer(producers[p], c, f)
         /\ \A g \in {Root} \cup Frame : g # p => producers'[g] = producers[g]
    BY <1>2, <1>4, <1>5
  <1>12. ASSUME NEW h \in Frame' PROVE FrameRight(h)'
    <2>1. CASE h = f
      <3>1. Path(p)' = Path(p)
        BY <1>4, <1>8, Unmoved
      <3>2. q \notin Path(p)
        BY <1>p, <1>1 DEF Cyclic, Ancestors, Path
      <3> QED BY <1>6, <1>9, <2>1, <3>1, <3>2 DEF FrameRight
    <2>2. CASE h # f
      <3>1. h \in Frame /\ FrameRight(h)
        BY <1>7, <2>2 DEF Right
      <3> QED BY <1>6, <1>8, <3>1, FrameStaysRight
    <2> QED BY <2>1, <2>2
  <1>13. ASSUME NEW g \in Polled PROVE ProducerRight(g)' /\ \A d \in Live(g)' : TaskRight(g, d)'
    <2>1. frames'[f].parent = p /\ frames'[f].query = Body(c)[Task(p, c).at] /\ f \in Nat
      BY <1>1, <1>5, <1>6, <1>9
    <2> QED BY <1>p, <1>c, <1>1, <1>8, <1>11, <2>1, WaitingRight
  <1>14. ProducerRight(f)' /\ \A d \in Live(f)' : TaskRight(f, d)'
    <2>1. program.candidates[q] \in Seq(Seq(Query)) /\ Bodies(f)' = program.candidates[q]
      BY <1>1, <1>3, <1>5, <1>6, <1>9, BodiesTyped DEF IInv, TypeOK, Bodies
    <2>2. PICK n \in Nat : n = Len(program.candidates[q])
      BY <2>1
    <2>3. /\ new.answers = {} /\ DOMAIN new.tasks = 1 .. n
          /\ \A d \in 1 .. n : new.tasks[d] = NewTask
      BY <1>n, <2>2, Spawned DEF NewProducer
    <2>4. NewTask.at = 1 /\ NewTask.waits = {} /\ NewTask.uncertain = FALSE /\ NewTask.done = FALSE
      BY DEF NewTask
    <2>5. \A d \in 1 .. n : Task(f, d)' = NewTask
      BY <1>11, <2>3 DEF Task
    <2> HIDE DEF NewTask
    <2>6. ProducerRight(f)'
      BY <1>11, <2>3, <2>4, <2>5 DEF ProducerRight
    <2>7. ASSUME NEW d \in Live(f)' PROVE TaskRight(f, d)'
      <3>1. d \in 1 .. n
        BY <1>11, <2>3, <2>7 DEF Live
      <3>2. Len(program.candidates[q][d]) \in Nat
        BY <2>1, <2>2, <3>1
      <3>3. 1 <= Len(program.candidates[q][d]) + 1 /\ 1 .. (1 - 1) = {}
        BY <3>2
      <3> QED BY <2>1, <2>4, <2>5, <3>1, <3>3 DEF TaskRight
    <2> QED BY <2>6, <2>7
  <1> QED BY <1>8, <1>10, <1>12, <1>13, <1>14 DEF Right

(* A frame settles with the answer of the reference: its candidates have   *)
(* all been asked, or one of them decides.                                 *)
LEMMA SettledAnswer ==
  ASSUME IInv, Right, NEW f \in Pending, Live(f) = {}
  PROVE  Merge(producers[f].answers, frames[f].query \in program.incomplete) =
           Known(frames[f].parent)[frames[f].query]
  <1> DEFINE outcomes == {Outcome(f, c) : c \in DOMAIN Bodies(f)}
             answers == producers[f].answers
  <1>1. f \in Frame /\ f \in Polled /\ f # Root
    BY Frames DEF IInv, Pending, Polled
  <1>2. /\ \A a \in answers : \E c \in DOMAIN producers[f].tasks : a = Outcome(f, c)
        /\ \A c \in DOMAIN producers[f].tasks : "Yes" \in answers \/ Outcome(f, c) \in answers
    BY <1>1 DEF Right, ProducerRight, Live
  <1>3. DOMAIN producers[f].tasks = DOMAIN Bodies(f)
    <2>1. frames[f].query \in Query /\ Bodies(f) = program.candidates[frames[f].query]
      BY <1>1, NumberedFrames DEF IInv, Bodies
    <2>2. Bodies(f) \in Seq(Seq(Query))
      BY <2>1, BodiesTyped DEF IInv, TypeOK
    <2>3. /\ DOMAIN producers[f].tasks = 1 .. Len(producers[f].tasks)
          /\ Len(producers[f].tasks) = Len(Bodies(f))
      BY <1>1, Tasks DEF IInv, ProducersOK
    <2> QED BY <2>2, <2>3
  <1>4. answers \subseteq outcomes /\ ("Yes" \in answers \/ outcomes \subseteq answers)
    BY <1>2, <1>3
  <1>5. frames[f].query \notin Path(frames[f].parent)
    BY <1>1 DEF Right, FrameRight
  <1>6. Known(frames[f].parent)[frames[f].query] = Merge(outcomes, frames[f].query \in program.incomplete)
    BY <1>1, <1>5, FrameAnswer
  <1> HIDE DEF outcomes, answers
  <1>7. CASE "Yes" \in answers
    BY <1>4, <1>6, <1>7 DEF Merge, answers
  <1>8. CASE "Yes" \notin answers
    <2>1. answers = outcomes
      BY <1>4, <1>8
    <2> QED BY <1>6, <2>1 DEF answers
  <1> QED BY <1>7, <1>8

LEMMA CompleteFrameRight == ASSUME IInv, IInv', Right, CompleteFrame PROVE Grown /\ Right'
  <1>p. PICK f : f = polling
    OBVIOUS
  <1>1. PICK order \in DrainOrders(frames[f].subs) : WakeSubscribers(f, order)
    BY <1>p DEF CompleteFrame
  <1>2. f \in Frame /\ Live(f) = {} /\ program' = program
    BY <1>p DEF CompleteFrame
  <1>3. PICK result : /\ result = Merge(producers[f].answers, frames[f].query \in program.incomplete)
                      /\ frames' = [frames EXCEPT ![f].state = "Ready", ![f].result = result, ![f].subs = {}]
    BY <1>p DEF CompleteFrame
  <1>4. f \in Pending /\ Polled \subseteq {Root} \cup Frame
    BY <1>p, <1>2 DEF IInv, LoopOK, Polled, Pending
  <1>5. /\ Frame' = Frame /\ Len(frames') = Len(frames) /\ Len(frames) \in Nat
        /\ \A h \in Frame : h # f => frames'[h] = frames[h]
        /\ frames'[f].query = frames[f].query /\ frames'[f].parent = frames[f].parent
        /\ frames'[f].depth = frames[f].depth /\ frames'[f].state = "Ready" /\ frames'[f].result = result
    <2>1. frames \in Seq(FrameRecord) /\ f \in DOMAIN frames /\ Frame = DOMAIN frames /\ Len(frames) \in Nat
      BY <1>2, Frames DEF IInv, TypeOK, FrameRecord
    <2>2. PICK r \in FrameRecord : r = frames[f]
      BY <2>1
    <2>3. PICK n : n = [r EXCEPT !.state = "Ready", !.result = result, !.subs = {}]
      OBVIOUS
    <2>4. n.query = r.query /\ n.parent = r.parent /\ n.depth = r.depth /\ n.state = "Ready" /\ n.result = result
      BY <2>3 DEF FrameRecord
    <2>5. frames' = [frames EXCEPT ![f] = n]
      BY <1>3, <2>1, <2>2, <2>3
    <2>6. frames'[f] = n /\ (\A h \in Frame : h # f => frames'[h] = frames[h]) /\ Len(frames') = Len(frames)
      BY <2>1, <2>5
    <2>7. Frame' = Frame
      BY <2>6 DEF Frame
    <2> QED BY <2>1, <2>2, <2>4, <2>6, <2>7
  <1>6. Grown
    BY <1>2, <1>5 DEF Grown
  <1>7. Polled' \subseteq Polled
    BY <1>5 DEF Polled, Pending
  <1>8. ASSUME NEW h \in Frame' PROVE FrameRight(h)'
    <2>1. h \in Frame /\ FrameRight(h)
      BY <1>5 DEF Right
    <2>2. CASE h # f
      BY <1>5, <1>6, <2>1, <2>2, FrameStaysRight
    <2>3. CASE h = f
      <3>1. PICK g \in {Root} \cup Frame : g = frames[f].parent
        BY <1>2, NumberedFrames DEF IInv, Root
      <3>2. Path(g)' = Path(g) /\ Known(g)' = Known(g)
        BY <1>6, Unmoved
      <3>3. result = Known(g)[frames[f].query]
        BY <1>2, <1>3, <1>4, <3>1, SettledAnswer
      <3> QED BY <1>5, <2>1, <2>3, <3>1, <3>2, <3>3 DEF FrameRight
    <2> QED BY <2>2, <2>3
  <1>9. ASSUME NEW g \in {Root} \cup Frame
        PROVE  producers'[g].tasks = producers[g].tasks /\ producers'[g].answers = producers[g].answers
    <2>1. CASE producers' = producers
      BY <2>1
    <2>2. CASE producers' # producers
      <3>1. PICK p : p = frames[f].parent
        OBVIOUS
      <3>2. PICK queue : queue = EnqueueAll(producers[p].queue, order)
        OBVIOUS
      <3>3. producers' = [producers EXCEPT ![p].queue = queue]
        BY <1>1, <2>2, <3>1, <3>2 DEF WakeSubscribers
      <3>4. producers[g] \in ProducerRecord /\ g \in DOMAIN producers
        BY DEF IInv, TypeOK, ProducersOK
      <3>5. CASE g # p
        BY <3>3, <3>4, <3>5
      <3>6. CASE g = p
        <4>1. producers'[g] = [producers[g] EXCEPT !.queue = queue]
          BY <3>3, <3>4, <3>6
        <4> QED BY <3>4, <4>1 DEF ProducerRecord
      <3> QED BY <3>5, <3>6
    <2> QED BY <2>1, <2>2
  <1>10. ASSUME NEW g \in Polled' PROVE ProducerRight(g)' /\ \A c \in Live(g)' : TaskRight(g, c)'
    <2>1. g \in Polled /\ g \in {Root} \cup Frame
      BY <1>4, <1>7
    <2>2. Live(g)' = Live(g) /\ \A c : Task(g, c)' = Task(g, c)
      BY <1>9, <2>1 DEF Live, Task
    <2>3. ProducerRight(g)'
      BY <1>6, <1>9, <2>1, <2>2, ProducerStaysRight DEF Right
    <2>4. ASSUME NEW c \in Live(g)' PROVE TaskRight(g, c)'
      <3>1. c \in Live(g) /\ TaskRight(g, c)
        BY <2>1, <2>2 DEF Right
      <3> QED BY <1>6, <2>1, <2>2, <3>1, TaskStaysRight
    <2> QED BY <2>3, <2>4
  <1> QED BY <1>6, <1>8, <1>10 DEF Right

LEMMA LoopRight ==
  ASSUME IInv, IInv', Right,
         \/ PollRoot \/ PopFrame \/ NextRound \/ PollTask \/ ProducerPending \/ UNCHANGED vars
  PROVE  Grown /\ Right'
  <1>1. CASE PollTask
    <2>1. PICK p \in Frame : p = polling
      BY <1>1 DEF PollTask
    <2>2. PICK queue : queue = Tail(producers[p].queue)
      OBVIOUS
    <2>3. UNCHANGED <<program, frames>> /\ producers' = [producers EXCEPT ![p].queue = queue]
      BY <1>1, <2>1, <2>2 DEF PollTask
    <2>4. ASSUME NEW g \in {Root} \cup Frame
          PROVE  producers'[g].tasks = producers[g].tasks /\ producers'[g].answers = producers[g].answers
      <3>1. producers[g] \in ProducerRecord /\ g \in DOMAIN producers
        BY DEF IInv, TypeOK, ProducersOK
      <3>2. CASE g # p
        BY <2>3, <3>1, <3>2
      <3>3. CASE g = p
        <4>1. producers'[g] = [producers[g] EXCEPT !.queue = queue]
          BY <2>3, <3>1, <3>3
        <4> QED BY <3>1, <4>1 DEF ProducerRecord
      <3> QED BY <3>2, <3>3
    <2> QED BY <2>3, <2>4, QuietRight
  <1>2. CASE PollRoot \/ PopFrame \/ NextRound \/ ProducerPending \/ UNCHANGED vars
    <2>1. UNCHANGED <<program, frames, producers>>
      BY <1>2 DEF PollRoot, PopFrame, NextRound, ProducerPending, vars
    <2> QED BY <2>1, QuietRight
  <1> QED BY <1>1, <1>2

LEMMA InitRight == ASSUME Init PROVE Right
  <1>1. frames = <<>> /\ producers = [f \in {Root} |-> NewProducer(1)]
    BY DEF Init
  <1>2. Frame = {} /\ Polled = {Root}
    BY <1>1 DEF Frame, Pending, Polled
  <1>3. producers[Root] = NewProducer(1)
    BY <1>1
  <1>4. /\ NewProducer(1).answers = {} /\ DOMAIN NewProducer(1).tasks = 1 .. 1
        /\ \A c \in 1 .. 1 : NewProducer(1).tasks[c] = NewTask
    BY Spawned DEF NewProducer
  <1>5. NewTask.at = 1 /\ NewTask.waits = {} /\ NewTask.uncertain = FALSE /\ NewTask.done = FALSE
    BY DEF NewTask
  <1> HIDE DEF NewTask
  <1>6. \A c \in 1 .. 1 : Task(Root, c) = NewTask
    BY <1>3, <1>4 DEF Task
  <1>7. ProducerRight(Root)
    BY <1>3, <1>4, <1>5, <1>6 DEF ProducerRight
  <1>8. ASSUME NEW c \in Live(Root) PROVE TaskRight(Root, c)
    <2>1. c \in 1 .. 1 /\ Bodies(Root)[c] = RootGoals
      BY <1>3, <1>4 DEF Live, Bodies
    <2>2. 1 <= Len(RootGoals) + 1 /\ 1 .. (1 - 1) = {}
      BY ProgramAssumption
    <2> QED BY <1>5, <1>6, <2>1, <2>2 DEF TaskRight
  <1> QED BY <1>2, <1>7, <1>8 DEF Right

(* At every moment each settled frame has the answer that the program      *)
(* gives to its query below its ancestors, each task has heard such        *)
(* answers only, and each producer has the outcomes of its finished tasks  *)
(* or one that decides: sharing, cancelling and the order of waking leave  *)
(* no trace in what solve_trait_frame returns.                             *)
THEOREM AnswersFollowTheProgram == Spec => []Right
  <1>1. Init => Right
    BY InitRight
  <1>2. ASSUME IInv, IInv', Right, [Next]_vars PROVE Right'
    <2>1. CASE UNCHANGED vars
      BY <1>2, <2>1, LoopRight
    <2>2. CASE PollRoot \/ PopFrame \/ NextRound \/ PollTask \/ ProducerPending \/ Finished
      BY <1>2, <2>2, LoopRight DEF Finished
    <2>3. CASE CompleteFrame
      BY <1>2, <2>3, CompleteFrameRight
    <2>4. CASE BodyDone
      BY <1>2, <2>4, BodyDoneRight
    <2>5. CASE TooDeep \/ RequestCycle \/ RequestSettled \/ Answered
      BY <1>2, <2>5, AnsweredRight
    <2>6. CASE RequestShared
      BY <1>2, <2>6, RequestSharedRight
    <2>7. CASE RequestNew
      BY <1>2, <2>7, RequestNewRight
    <2> QED BY <1>2, <2>1, <2>2, <2>3, <2>4, <2>5, <2>6, <2>7 DEF Next
  <1>3. IInv /\ IInv' /\ Right /\ [Next]_vars => Right'
    BY <1>2
  <1> QED BY <1>1, <1>3, Invariant, PTL DEF Spec

(* Drawing the answers from the invariant.                                 *)
LEMMA RightAnswersMatch == ASSUME IInv, Right PROVE AnswersMatchReference
  <1>1. ASSUME NEW f \in Frame, frames[f].state = "Ready"
        PROVE  frames[f].result = Reference(program)[MaxProofDepth - frames[f].depth + 1]
                 [{frames[g].query : g \in Ancestors(frames[f].parent)}][frames[f].query]
    <2>1. PICK g : g = frames[f].parent
      OBVIOUS
    <2>2. frames[f].result = Known(g)[frames[f].query]
      BY <1>1, <2>1 DEF Right, FrameRight
    <2>3. g \in {Root} \cup Frame /\ frames[f].depth = DepthOf(g) + 1
      BY <2>1, NumberedFrames DEF IInv, Table, DepthOf, Root
    <2>4. MaxProofDepth - DepthOf(g) = MaxProofDepth - frames[f].depth + 1
      BY <2>3, Goals, ProgramAssumption
    <2> QED BY <2>1, <2>2, <2>4 DEF Known, Path, Ancestors
  <1>2. ASSUME phase = "done"
        PROVE  RootAnswer = {Conjunction({Reference(program)[MaxProofDepth][{}][q] : q \in ToSet(RootGoals)})}
    <2>1. Live(Root) = {} /\ Root \in Polled /\ Bodies(Root) = <<RootGoals>>
      BY <1>2 DEF IInv, LoopOK, Polled, Bodies
    <2>2. DOMAIN producers[Root].tasks = {1}
      <3>1. Len(<<RootGoals>>) = 1 /\ 1 .. 1 = {1}
        OBVIOUS
      <3>2. /\ DOMAIN producers[Root].tasks = 1 .. Len(producers[Root].tasks)
            /\ Len(producers[Root].tasks) = Len(Bodies(Root))
        BY Tasks DEF IInv, ProducersOK
      <3> QED BY <2>1, <3>1, <3>2
    <2>3. Chain(frames, Root) = {}
      BY NumberedFrames, ChainSteps DEF IInv
    <2>4. Path(Root) = {} /\ DepthOf(Root) = 0 /\ MaxProofDepth - 0 = MaxProofDepth
      BY <2>3, ProgramAssumption DEF Path, DepthOf
    <2>5. Outcome(Root, 1) = Conjunction({Reference(program)[MaxProofDepth][{}][q] : q \in ToSet(RootGoals)})
      <3>1. Outcome(Root, 1) = BodyOutcome(Reference(program)[MaxProofDepth][{}], RootGoals)
        BY <2>1, <2>4 DEF Outcome, Known
      <3>2. {Reference(program)[MaxProofDepth][{}][RootGoals[i]] : i \in DOMAIN RootGoals} =
              {Reference(program)[MaxProofDepth][{}][q] : q \in ToSet(RootGoals)}
        BY DEF ToSet
      <3> QED BY <3>1, <3>2 DEF BodyOutcome
    <2>6. /\ \A a \in RootAnswer : a = Outcome(Root, 1)
          /\ "Yes" \in RootAnswer \/ Outcome(Root, 1) \in RootAnswer
      BY <2>1, <2>2 DEF Right, ProducerRight, Live, RootAnswer
    <2> QED BY <2>5, <2>6
  <1> QED BY <1>1, <1>2 DEF AnswersMatchReference

LEMMA RightAnswersSound == ASSUME IInv, AnswersMatchReference PROVE AnswerSound
  <1> SUFFICES ASSUME phase = "done"
               PROVE  /\ "Yes" \in RootAnswer => ToSet(RootGoals) \subseteq Provable({})
                      /\ "No" \in RootAnswer => ~ (ToSet(RootGoals) \subseteq Provable(program.incomplete))
    BY DEF AnswerSound
  <1> DEFINE known == Reference(program)[MaxProofDepth][{}]
             answers == {known[q] : q \in ToSet(RootGoals)}
  <1>1. RootAnswer = {Conjunction(answers)}
    BY DEF AnswersMatchReference
  <1>2. program \in Programs /\ MaxProofDepth \in 0 .. MaxProofDepth /\ {} \in SUBSET Query
    BY ProgramAssumption DEF IInv, TypeOK
  <1>3. ToSet(RootGoals) \subseteq Query
    BY ProgramAssumption DEF ToSet
  <1>4. \A q \in Query : /\ known[q] \in Result
                         /\ known[q] = "Yes" => q \in Provable({})
                         /\ known[q] = "No" => q \notin Outside({})
    BY <1>2, ReferenceAnswers, ReferenceIsSound DEF SoundAt
  <1>5. Provable(program.incomplete) = Outside({})
    BY DEF Provable, Outside, ClosedOutside
  <1> HIDE DEF known
  <1>6. ASSUME Conjunction(answers) = "Yes" PROVE ToSet(RootGoals) \subseteq Provable({})
    BY <1>3, <1>4, <1>6 DEF Conjunction, Result
  <1>7. ASSUME Conjunction(answers) = "No" PROVE ~ (ToSet(RootGoals) \subseteq Provable(program.incomplete))
    <2>1. PICK q \in ToSet(RootGoals) : known[q] = "No"
      BY <1>7 DEF Conjunction
    <2> QED BY <1>3, <1>4, <1>5, <2>1
  <1> QED BY <1>1, <1>6, <1>7

(* The answers are those of the program, whatever the schedule, and they   *)
(* are sound: refuting an inductive cycle and cutting at MAX_PROOF_DEPTH   *)
(* never prove what the program does not prove, nor refute what it proves. *)
THEOREM AnswersAreRight == Spec => []AnswersRight
  <1>1. IInv /\ Right => AnswersRight
    BY RightAnswersMatch, RightAnswersSound DEF AnswersRight
  <1> QED BY <1>1, Invariant, AnswersFollowTheProgram, PTL

=============================================================================
