-------------------------- MODULE InspectorPage_proofs --------------------------
(* Proofs about the inspector, for any workspaces and batches, any number of        *)
(* retained revisions and events, and any edits, reloads, panics, clicks and lost   *)
(* connections: what the provider keeps of its revisions, that nobody who waits is  *)
(* forgotten, and that what the page shows is of one revision and true of it.       *)
EXTENDS InspectorPage, FiniteSetTheorems, TLAPS

-----------------------------------------------------------------------------
(* Data: revisions, sequences and records.                                     *)

Ids == Nat \X Nat

\* The revisions that may have been current: not later than the one that is.
Past == {id \in Ids : id[1] < generation \/ (id[1] = generation /\ id[2] <= salsa)}

IsSeq(s) == \E S : s \in Seq(S)
IsEntry(e) == e = [id |-> e.id, inputs |-> e.inputs, runs |-> e.runs]

LEMMA PastIsId == ASSUME NEW id \in Past PROVE id \in Ids /\ id # None
  BY DEF Past, Ids, None

(* A later revision is none of the past ones, which stay past. *)
LEMMA LaterIsNew ==
  ASSUME generation \in Nat, salsa \in Nat, generation' \in Nat, salsa' \in Nat,
         generation' > generation \/ (generation' = generation /\ salsa' > salsa)
  PROVE  /\ RevisionId' \in Past' /\ RevisionId' \in Ids
         /\ \A id \in Past : id \in Past' /\ id # RevisionId'
  BY DEF Past, RevisionId, Ids

LEMMA EntryWithRuns ==
  ASSUME NEW e, IsEntry(e), NEW names
  PROVE  [e EXCEPT !.runs = names] = [id |-> e.id, inputs |-> e.inputs, runs |-> names]
  <1>1. \A a, b, c : [[id |-> a, inputs |-> b, runs |-> c] EXCEPT !.runs = names]
                      = [id |-> a, inputs |-> b, runs |-> names]
    OBVIOUS
  <1> QED
    BY <1>1 DEF IsEntry

LEMMA AppendIsSeq ==
  ASSUME NEW s, IsSeq(s), NEW e
  PROVE  /\ IsSeq(Append(s, e)) /\ Len(Append(s, e)) = Len(s) + 1
         /\ Len(s) \in Nat
         /\ DOMAIN s = 1..Len(s) /\ DOMAIN Append(s, e) = 1..(Len(s) + 1)
         /\ \A i \in 1..Len(s) : Append(s, e)[i] = s[i]
         /\ Append(s, e)[Len(s) + 1] = e
         /\ ToSet(Append(s, e)) = ToSet(s) \cup {e}
  <1>1. PICK S : s \in Seq(S)
    BY DEF IsSeq
  <1>2. s \in Seq(S \cup {e}) /\ Append(s, e) \in Seq(S \cup {e}) /\ Len(s) \in Nat
    BY <1>1
  <1>3. /\ Len(Append(s, e)) = Len(s) + 1
        /\ DOMAIN s = 1..Len(s) /\ DOMAIN Append(s, e) = 1..(Len(s) + 1)
        /\ \A i \in 1..Len(s) : Append(s, e)[i] = s[i]
        /\ Append(s, e)[Len(s) + 1] = e
    BY <1>2
  <1>4. ToSet(Append(s, e)) = ToSet(s) \cup {e}
    <2>1. 1..(Len(s) + 1) = (1..Len(s)) \cup {Len(s) + 1}
      BY <1>2
    <2> QED
      BY <1>3, <2>1 DEF ToSet
  <1> QED
    BY <1>2, <1>3, <1>4 DEF IsSeq

LEMMA TailIsSeq ==
  ASSUME NEW s, IsSeq(s), s # <<>>
  PROVE  /\ IsSeq(Tail(s)) /\ Len(Tail(s)) = Len(s) - 1 /\ Len(s) \in Nat \ {0}
         /\ DOMAIN s = 1..Len(s) /\ DOMAIN Tail(s) = 1..(Len(s) - 1)
         /\ \A i \in 1..(Len(s) - 1) : Tail(s)[i] = s[i + 1]
         /\ Head(s) = s[1]
         /\ ToSet(s) = ToSet(Tail(s)) \cup {Head(s)}
  <1>1. PICK S : s \in Seq(S)
    BY DEF IsSeq
  <1>2. /\ Tail(s) \in Seq(S) /\ Len(Tail(s)) = Len(s) - 1 /\ Len(s) \in Nat \ {0}
        /\ DOMAIN s = 1..Len(s) /\ DOMAIN Tail(s) = 1..(Len(s) - 1)
        /\ \A i \in 1..(Len(s) - 1) : Tail(s)[i] = s[i + 1]
        /\ Head(s) = s[1]
    BY <1>1
  <1>3. ToSet(s) = ToSet(Tail(s)) \cup {Head(s)}
    <2>1. ASSUME NEW x \in ToSet(s) PROVE x \in ToSet(Tail(s)) \cup {Head(s)}
      <3>1. PICK i \in 1..Len(s) : x = s[i]
        BY <1>2 DEF ToSet
      <3>2. CASE i = 1
        BY <1>2, <3>1, <3>2
      <3>3. CASE i # 1
        <4>1. i - 1 \in 1..(Len(s) - 1) /\ (i - 1) + 1 = i
          BY <1>2, <3>3
        <4>2. Tail(s)[i - 1] = s[i]
          BY <1>2, <4>1
        <4> QED
          BY <1>2, <3>1, <4>1, <4>2 DEF ToSet
      <3> QED BY <3>2, <3>3
    <2>2. ASSUME NEW x \in ToSet(Tail(s)) \cup {Head(s)} PROVE x \in ToSet(s)
      <3>1. CASE x = Head(s)
        BY <1>2, <3>1 DEF ToSet
      <3>2. CASE x \in ToSet(Tail(s))
        <4>1. PICK i \in 1..(Len(s) - 1) : x = Tail(s)[i]
          BY <1>2, <3>2 DEF ToSet
        <4>2. i + 1 \in 1..Len(s) /\ x = s[i + 1]
          BY <1>2, <4>1
        <4> QED
          BY <1>2, <4>2 DEF ToSet
      <3> QED BY <2>2, <3>1, <3>2
    <2> QED BY <2>1, <2>2
  <1> QED
    BY <1>2, <1>3 DEF IsSeq

-----------------------------------------------------------------------------
(* The invariant.  Every revision stands for one state of the inputs: H says   *)
(* which, and all that is kept agrees with H.                                   *)

ServiceTypes ==
  /\ generation \in Nat /\ salsa \in Nat /\ nextRun \in Nat
  /\ DOMAIN texts \in {DOMAIN w : w \in Workspaces}
  /\ stale \in BOOLEAN /\ alive \in BOOLEAN
  /\ IsSeq(events) /\ Len(events) <= EventCapacity
  /\ \A id \in ToSet(events) : id \in Past
  /\ directory # None /\ ~ stale => directory = texts

Retained(H) ==
  /\ IsSeq(retained) /\ Len(retained) \in 1 .. RetainedLimit
  /\ retained[Len(retained)].id = RevisionId
  /\ \A i \in DOMAIN retained :
       /\ IsEntry(retained[i]) /\ retained[i].id \in Past
       /\ retained[i].inputs = H[retained[i].id]
       /\ retained[i].runs \subseteq 1 .. nextRun
  /\ \A i, j \in DOMAIN retained :
       retained[i].id = retained[j].id \/ retained[i].runs \cap retained[j].runs # {} => i = j
  /\ runs = UNION {retained[i].runs : i \in DOMAIN retained}

\* What is kept under a revision is one of the revision's own.
Kept(H) ==
  /\ \A id \in DOMAIN products : \E i \in DOMAIN retained :
       /\ retained[i].id = id /\ products[id].run \in retained[i].runs
       /\ products[id].texts = H[id]
  /\ \A id \in DOMAIN continuations : \E i \in DOMAIN retained :
       retained[i].id = id /\ continuations[id] = H[id]

ServiceInv(H) ==
  /\ DOMAIN H = Ids /\ H[RevisionId] = texts
  /\ ServiceTypes /\ Retained(H) /\ Kept(H)

PageTypes ==
  /\ failed \in BOOLEAN
  /\ stream \in {"off", "connecting", "open"} /\ watcher \in {"idle", "waiting"}
  /\ boot \in {"idle", "revision", "loading"} /\ dirty \subseteq Effects
  /\ select \in {"idle", "symbol", "product", "run"} /\ intent \in {"symbol", "directory"}

Inv == PageTypes /\ \E H : ServiceInv(H)

\* A run that was recorded at the revision, if it is kept.
RunAt(run, id) ==
  /\ run \in 0 .. nextRun
  /\ \A i \in DOMAIN retained : run \in retained[i].runs => retained[i].id = id

\* What was true of a revision or a run before a step is true after it.
Onward(H, G) ==
  /\ \A id \in Past : G[id] = H[id] /\ id \in Past'
  /\ \A run, id : RunAt(run, id) => RunAt(run, id)'

-----------------------------------------------------------------------------
(* What the handlers of the provider do to its state.                          *)

(* A run is recorded at the current revision, under a name of its own. *)
LEMMA RecordKeeps ==
  ASSUME NEW H, Retained(H), nextRun \in Nat, Record, UNCHANGED <<generation, salsa>>
  PROVE  /\ Retained(H)' /\ nextRun' \in Nat
         /\ DOMAIN retained' = DOMAIN retained /\ Len(retained) \in DOMAIN retained
         /\ \A i \in DOMAIN retained :
              retained'[i].id = retained[i].id /\ retained[i].runs \subseteq retained'[i].runs
         /\ nextRun' \in retained'[Len(retained)].runs
         /\ RunAt(nextRun, RevisionId)' /\ Onward(H, H)
  <1> DEFINE last == Len(retained)
             new == [retained[last] EXCEPT !.runs = @ \cup {nextRun'}]
  <1>1. PICK S : retained \in Seq(S)
    BY DEF Retained, IsSeq
  <1>2. last \in Nat \ {0} /\ DOMAIN retained = 1..last /\ last \in DOMAIN retained
    BY <1>1, LimitAssumption DEF Retained
  <1>3. /\ nextRun' = nextRun + 1 /\ runs' = runs \cup {nextRun'}
        /\ retained' = [retained EXCEPT ![last] = new]
    BY DEF Record
  <1>4. IsEntry(retained[last])
    BY <1>2 DEF Retained
  <1>5. /\ new.id = retained[last].id /\ new.inputs = retained[last].inputs
        /\ new.runs = retained[last].runs \cup {nextRun'} /\ IsEntry(new)
    <2>1. new = [id |-> retained[last].id, inputs |-> retained[last].inputs,
                 runs |-> retained[last].runs \cup {nextRun'}]
      BY <1>4, EntryWithRuns
    <2> HIDE DEF new
    <2> QED
      BY <2>1 DEF IsEntry
  <1>6. /\ retained' \in Seq(S \cup {new}) /\ Len(retained') = last
        /\ DOMAIN retained' = DOMAIN retained
        /\ retained'[last] = new
        /\ \A i \in DOMAIN retained : i # last => retained'[i] = retained[i]
    <2> HIDE DEF new
    <2>1. retained \in Seq(S \cup {new})
      BY <1>1
    <2> QED BY <1>2, <1>3, <2>1
  <1> HIDE DEF new
  <1>7. \A i \in DOMAIN retained : /\ retained'[i].id = retained[i].id
                                   /\ retained'[i].inputs = retained[i].inputs
                                   /\ retained'[i].runs = retained[i].runs \cup
                                        (IF i = last THEN {nextRun'} ELSE {})
                                   /\ IsEntry(retained'[i])
    BY <1>5, <1>6 DEF Retained
  <1>8. \A i \in DOMAIN retained : nextRun' \notin retained[i].runs
                                   /\ retained[i].runs \subseteq 1 .. nextRun
    BY <1>3 DEF Retained
  <1>9. \A id \in Past : id \in Past'
    BY DEF Past
  <1>10. RevisionId' = RevisionId
    BY DEF RevisionId
  <1>11. Retained(H)'
    <2>1. /\ IsSeq(retained)' /\ (Len(retained) \in 1 .. RetainedLimit)'
          /\ (retained[Len(retained)].id = RevisionId)'
      BY <1>2, <1>6, <1>7, <1>10 DEF Retained, IsSeq
    <2>2. (\A i \in DOMAIN retained :
            /\ IsEntry(retained[i]) /\ retained[i].id \in Past
            /\ retained[i].inputs = H[retained[i].id]
            /\ retained[i].runs \subseteq 1 .. nextRun)'
      BY <1>3, <1>6, <1>7, <1>9 DEF Retained
    <2>3. (\A i, j \in DOMAIN retained :
            retained[i].id = retained[j].id \/ retained[i].runs \cap retained[j].runs # {} => i = j)'
      BY <1>6, <1>7, <1>8 DEF Retained
    <2>4. runs' = UNION {retained'[i].runs : i \in DOMAIN retained'}
      BY <1>2, <1>3, <1>6, <1>7 DEF Retained
    <2> QED
      BY <2>1, <2>2, <2>3, <2>4 DEF Retained
  <1>12. RunAt(nextRun, RevisionId)'
    <2>1. ASSUME NEW i \in DOMAIN retained, nextRun' \in retained'[i].runs
          PROVE  retained'[i].id = RevisionId'
      <3>1. i = last
        BY <1>7, <1>8, <2>1
      <3> QED
        BY <1>2, <1>7, <1>10, <3>1 DEF Retained
    <2>2. nextRun' \in 0 .. nextRun'
      BY <1>3
    <2> QED
      BY <1>6, <2>1, <2>2 DEF RunAt
  <1>13. ASSUME NEW run, NEW id, RunAt(run, id) PROVE RunAt(run, id)'
    BY <1>3, <1>6, <1>7, <1>13 DEF RunAt
  <1>14. Onward(H, H)
    BY <1>9, <1>13 DEF Onward
  <1> QED
    BY <1>2, <1>3, <1>6, <1>7, <1>11, <1>12, <1>14

(* A revision later than all others is added; the oldest one may have to go,  *)
(* with everything that was kept under it.                                     *)
LEMMA PushKeeps ==
  ASSUME NEW H, ServiceInv(H), NEW kept,
         DOMAIN kept \subseteq DOMAIN continuations,
         \A id \in DOMAIN kept : kept[id] = continuations[id],
         generation' \in Nat, salsa' \in Nat,
         generation' > generation \/ (generation' = generation /\ salsa' > salsa),
         UNCHANGED nextRun, PushRevision(kept),
         NEW G, G = [id \in Ids |-> IF id = RevisionId' THEN texts' ELSE H[id]]
  PROVE  /\ DOMAIN G = Ids /\ G[RevisionId'] = texts'
         /\ Retained(G)' /\ Kept(G)' /\ Onward(H, G)
  <1> DEFINE new == [id |-> RevisionId', inputs |-> texts', runs |-> {}]
             all == Append(retained, new)
             n == Len(retained)
  <1>1. /\ RevisionId' \in Past' /\ RevisionId' \in Ids
        /\ \A id \in Past : id \in Past' /\ id # RevisionId' /\ id \in Ids
    BY LaterIsNew, PastIsId DEF ServiceInv, ServiceTypes
  <1>2. /\ DOMAIN G = Ids /\ G[RevisionId'] = texts'
        /\ \A id \in Past : G[id] = H[id] /\ id \in Past'
    BY <1>1
  <1>3. /\ IsSeq(all) /\ Len(all) = n + 1 /\ n \in Nat \ {0} /\ n <= RetainedLimit
        /\ DOMAIN retained = 1..n /\ DOMAIN all = 1..(n + 1)
        /\ \A i \in 1..n : all[i] = retained[i]
        /\ all[n + 1] = new
    BY AppendIsSeq, LimitAssumption DEF ServiceInv, Retained
  <1>4. IsEntry(new) /\ new.id = RevisionId' /\ new.inputs = texts' /\ new.runs = {}
    BY DEF IsEntry
  <1> HIDE DEF new, all
  <1>5. \A i \in 1..(n + 1) :
          /\ IsEntry(all[i]) /\ all[i].id \in Past' /\ all[i].inputs = G[all[i].id]
          /\ all[i].runs \subseteq 1 .. nextRun'
    <2>1. ASSUME NEW i \in 1..n
          PROVE  /\ IsEntry(all[i]) /\ all[i].id \in Past' /\ all[i].inputs = G[all[i].id]
                 /\ all[i].runs \subseteq 1 .. nextRun'
      <3>1. /\ IsEntry(retained[i]) /\ retained[i].id \in Past
            /\ retained[i].inputs = H[retained[i].id] /\ retained[i].runs \subseteq 1 .. nextRun
        BY <1>3 DEF ServiceInv, Retained
      <3> QED BY <1>2, <1>3, <3>1
    <2>2. \A i \in 1..(n + 1) : i \in 1..n \/ i = n + 1
      BY <1>3
    <2> QED BY <1>1, <1>2, <1>3, <1>4, <2>1, <2>2
  <1>6. \A i, j \in 1..(n + 1) :
          all[i].id = all[j].id \/ all[i].runs \cap all[j].runs # {} => i = j
    <2>1. \A i \in 1..n : all[i].id # RevisionId'
      BY <1>1, <1>3 DEF ServiceInv, Retained
    <2>2. \A i, j \in 1..n :
            all[i].id = all[j].id \/ all[i].runs \cap all[j].runs # {} => i = j
      BY <1>3 DEF ServiceInv, Retained
    <2>3. \A i \in 1..(n + 1) : i \in 1..n \/ i = n + 1
      BY <1>3
    <2> QED BY <1>3, <1>4, <2>1, <2>2, <2>3
  <1>7. runs = UNION {all[i].runs : i \in 1..(n + 1)}
    <2>1. runs = UNION {all[i].runs : i \in 1..n}
      BY <1>3 DEF ServiceInv, Retained
    <2>2. 1..(n + 1) = (1..n) \cup {n + 1}
      BY <1>3
    <2> QED BY <1>3, <1>4, <2>1, <2>2
  <1>8. CASE Len(all) <= RetainedLimit
    <2>1. retained' = all /\ continuations' = kept /\ runs' = runs /\ products' = products
      BY <1>8 DEF PushRevision, all, new
    <2>2. Retained(G)'
      BY <1>3, <1>4, <1>5, <1>6, <1>7, <1>8, <2>1 DEF Retained
    <2>3. Kept(G)'
      <3>1. ASSUME NEW id \in DOMAIN products
            PROVE  \E i \in DOMAIN retained' :
                     /\ retained'[i].id = id /\ products[id].run \in retained'[i].runs
                     /\ products[id].texts = G[id]
        <4>1. PICK i \in 1..n : /\ retained[i].id = id /\ products[id].run \in retained[i].runs
                                /\ products[id].texts = H[id]
          BY <1>3 DEF ServiceInv, Kept
        <4>2. id \in Past
          BY <1>3, <4>1 DEF ServiceInv, Retained
        <4>3. i \in DOMAIN retained' /\ retained'[i] = retained[i]
          BY <1>3, <2>1
        <4> QED BY <1>2, <4>1, <4>2, <4>3
      <3>2. ASSUME NEW id \in DOMAIN kept
            PROVE  \E i \in DOMAIN retained' : retained'[i].id = id /\ kept[id] = G[id]
        <4>1. PICK i \in 1..n : retained[i].id = id /\ kept[id] = H[id]
          BY <1>3 DEF ServiceInv, Kept
        <4>2. id \in Past
          BY <1>3, <4>1 DEF ServiceInv, Retained
        <4>3. i \in DOMAIN retained' /\ retained'[i] = retained[i]
          BY <1>3, <2>1
        <4> QED BY <1>2, <4>1, <4>2, <4>3
      <3> QED BY <2>1, <3>1, <3>2 DEF Kept
    <2>4. ASSUME NEW run, NEW id, RunAt(run, id) PROVE RunAt(run, id)'
      BY <1>3, <1>4, <2>1, <2>4 DEF RunAt
    <2>5. Onward(H, G)
      BY <1>2, <2>4 DEF Onward
    <2> QED BY <1>2, <2>2, <2>3, <2>5
  <1>9. CASE ~(Len(all) <= RetainedLimit)
    <2>1. /\ retained' = Tail(all) /\ runs' = runs \ Head(all).runs
          /\ products' = [id \in DOMAIN products \ {Head(all).id} |-> products[id]]
          /\ continuations' = [id \in DOMAIN kept \ {Head(all).id} |-> kept[id]]
      BY <1>9 DEF PushRevision, all, new
    <2>2. all # <<>>
      BY <1>3
    <2>3. /\ IsSeq(retained') /\ Len(retained') = n /\ DOMAIN retained' = 1..n
          /\ \A i \in 1..n : retained'[i] = all[i + 1]
          /\ Head(all) = all[1]
      BY <1>3, <2>1, <2>2, TailIsSeq
    <2>4. Retained(G)'
      <3>1. \A i \in 1..n : i + 1 \in 1..(n + 1)
        BY <1>3
      <3>2. retained'[n].id = RevisionId'
        BY <1>3, <1>4, <2>3
      <3>3. \A i \in 1..n : /\ IsEntry(retained'[i]) /\ retained'[i].id \in Past'
                            /\ retained'[i].inputs = G[retained'[i].id]
                            /\ retained'[i].runs \subseteq 1 .. nextRun'
        BY <1>5, <2>3, <3>1
      <3>4. \A i, j \in 1..n :
              retained'[i].id = retained'[j].id \/ retained'[i].runs \cap retained'[j].runs # {}
                => i = j
        <4> SUFFICES ASSUME NEW i \in 1..n, NEW j \in 1..n,
                            retained'[i].id = retained'[j].id
                              \/ retained'[i].runs \cap retained'[j].runs # {}
                     PROVE  i = j
          OBVIOUS
        <4>1. i + 1 = j + 1
          BY <1>6, <2>3, <3>1
        <4> QED BY <4>1
      <3>5. runs' = UNION {retained'[i].runs : i \in 1..n}
        <4>1. ASSUME NEW r \in runs' PROVE \E i \in 1..n : r \in retained'[i].runs
          <5>1. PICK j \in 1..(n + 1) : r \in all[j].runs
            BY <1>7, <2>1, <4>1
          <5>2. j # 1
            BY <2>1, <2>3, <4>1, <5>1
          <5>3. j - 1 \in 1..n /\ (j - 1) + 1 = j
            BY <1>3, <5>2
          <5> QED BY <2>3, <5>1, <5>3
        <4>2. ASSUME NEW i \in 1..n, NEW r \in retained'[i].runs PROVE r \in runs'
          <5>1. i + 1 \in 1..(n + 1) /\ i + 1 # 1 /\ 1 \in 1..(n + 1) /\ r \in all[i + 1].runs
            BY <1>3, <2>3, <3>1, <4>2
          <5>2. r \in runs
            BY <1>7, <5>1
          <5>3. r \notin all[1].runs
            BY <1>6, <5>1
          <5> QED BY <2>1, <2>3, <5>2, <5>3
        <4> QED BY <4>1, <4>2
      <3> QED BY <1>3, <2>3, <3>2, <3>3, <3>4, <3>5 DEF Retained
    <2>5. ASSUME NEW i \in 1..n, retained[i].id # Head(all).id
          PROVE  \E j \in DOMAIN retained' : retained'[j] = retained[i]
      <3>1. i # 1
        BY <1>3, <2>3, <2>5
      <3>2. i - 1 \in 1..n /\ (i - 1) + 1 = i
        BY <1>3, <3>1
      <3>3. retained'[i - 1] = all[(i - 1) + 1]
        BY <2>3, <3>2
      <3>4. retained'[i - 1] = retained[i]
        BY <1>3, <3>2, <3>3
      <3> QED BY <2>3, <3>2, <3>4
    <2>6. Kept(G)'
      <3>1. ASSUME NEW id \in DOMAIN products'
            PROVE  \E i \in DOMAIN retained' :
                     /\ retained'[i].id = id /\ products'[id].run \in retained'[i].runs
                     /\ products'[id].texts = G[id]
        <4>1. id \in DOMAIN products /\ id # Head(all).id /\ products'[id] = products[id]
          BY <2>1, <3>1
        <4>2. PICK i \in 1..n : /\ retained[i].id = id /\ products[id].run \in retained[i].runs
                                /\ products[id].texts = H[id]
          BY <1>3, <4>1 DEF ServiceInv, Kept
        <4>3. id \in Past
          BY <1>3, <4>2 DEF ServiceInv, Retained
        <4> QED BY <1>2, <2>5, <4>1, <4>2, <4>3
      <3>2. ASSUME NEW id \in DOMAIN continuations'
            PROVE  \E i \in DOMAIN retained' :
                     retained'[i].id = id /\ continuations'[id] = G[id]
        <4>1. id \in DOMAIN kept /\ id # Head(all).id /\ continuations'[id] = kept[id]
          BY <2>1, <3>2
        <4>2. PICK i \in 1..n : retained[i].id = id /\ kept[id] = H[id]
          BY <1>3, <4>1 DEF ServiceInv, Kept
        <4>3. id \in Past
          BY <1>3, <4>2 DEF ServiceInv, Retained
        <4> QED BY <1>2, <2>5, <4>1, <4>2, <4>3
      <3> QED BY <3>1, <3>2 DEF Kept
    <2>7. ASSUME NEW run, NEW id, RunAt(run, id) PROVE RunAt(run, id)'
      <3>1. ASSUME NEW i \in 1..n, run \in retained'[i].runs PROVE retained'[i].id = id
        <4>1. i + 1 \in 1..n \/ i + 1 = n + 1
          BY <1>3
        <4> QED BY <1>3, <1>4, <2>3, <2>7, <3>1, <4>1 DEF RunAt
      <3> QED BY <2>3, <2>7, <3>1 DEF RunAt
    <2>8. Onward(H, G)
      BY <1>2, <2>7 DEF Onward
    <2> QED BY <1>2, <2>4, <2>6, <2>8
  <1> QED
    BY <1>8, <1>9

LEMMA PublishKeeps ==
  ASSUME IsSeq(events), Len(events) <= EventCapacity, ToSet(events) \subseteq Past',
         RevisionId' \in Past', Publish
  PROVE  /\ IsSeq(events') /\ Len(events') <= EventCapacity /\ ToSet(events') \subseteq Past'
  <1> DEFINE all == Append(events, RevisionId')
  <1>1. /\ IsSeq(all) /\ Len(all) = Len(events) + 1 /\ Len(events) \in Nat
        /\ ToSet(all) = ToSet(events) \cup {RevisionId'} /\ all # <<>>
    <2>1. PICK S : events \in Seq(S)
      BY DEF IsSeq
    <2>2. all # <<>>
      BY <2>1
    <2> HIDE DEF all
    <2> QED BY <2>2, AppendIsSeq DEF all
  <1>2. events' = events \/ (events' = all /\ Len(all) <= EventCapacity)
          \/ (events' = Tail(all) /\ Len(all) > EventCapacity)
    BY LimitAssumption, <1>1 DEF Publish
  <1> HIDE DEF all
  <1>3. CASE events' = Tail(all)
    <2>1. IsSeq(Tail(all)) /\ Len(Tail(all)) = Len(events) /\ ToSet(Tail(all)) \subseteq ToSet(all)
      BY <1>1, TailIsSeq
    <2> QED BY <1>1, <1>3, <2>1
  <1> QED
    BY <1>1, <1>2, <1>3

(* A request that is answered from the current inputs. *)
LEMMA AnsweredNow ==
  ASSUME NEW H, ServiceInv(H), NEW m, Symbols(m) \/ Symbol(m) \/ Product(m), UNCHANGED alive
  PROVE  ServiceInv(H)' /\ Onward(H, H)
  <1>1. /\ UNCHANGED <<generation, salsa, texts, events>>
        /\ \/ Record \/ Unrecorded
        /\ \/ UNCHANGED <<products, continuations>>
           \/ /\ Record
              /\ products' = Insert(products, RevisionId, [texts |-> texts, run |-> nextRun'])
              /\ continuations' = Insert(continuations, RevisionId, texts)
    BY DEF Symbols, Symbol, Product
  <1>2. /\ Past' = Past /\ RevisionId' = RevisionId /\ generation \in Nat /\ salsa \in Nat
        /\ nextRun \in Nat /\ Retained(H) /\ H[RevisionId] = texts
    BY <1>1 DEF Past, RevisionId, ServiceInv, ServiceTypes
  <1>3. /\ Retained(H)' /\ nextRun' \in Nat
        /\ DOMAIN retained' = DOMAIN retained
        /\ \A i \in DOMAIN retained :
             retained'[i].id = retained[i].id /\ retained[i].runs \subseteq retained'[i].runs
        /\ Onward(H, H)
    <2>1. CASE Record
      BY <1>1, <1>2, <2>1, RecordKeeps
    <2>2. CASE Unrecorded
      BY <1>1, <1>2, <2>2 DEF Unrecorded, Retained, RunAt, Onward
    <2> QED BY <1>1, <2>1, <2>2
  <1>4. Kept(H)'
    <2>1. CASE UNCHANGED <<products, continuations>>
      BY <1>3, <2>1 DEF ServiceInv, Kept
    <2>2. CASE /\ Record
               /\ products' = Insert(products, RevisionId, [texts |-> texts, run |-> nextRun'])
               /\ continuations' = Insert(continuations, RevisionId, texts)
      <3>1. Len(retained) \in DOMAIN retained /\ nextRun' \in retained'[Len(retained)].runs
        BY <1>1, <1>2, <2>2, RecordKeeps
      <3>2. retained'[Len(retained)].id = RevisionId
        BY <1>2, <1>3, <3>1 DEF Retained
      <3>3. ASSUME NEW id \in DOMAIN products'
            PROVE  \E i \in DOMAIN retained' :
                     /\ retained'[i].id = id /\ products'[id].run \in retained'[i].runs
                     /\ products'[id].texts = H[id]
        <4>1. CASE id = RevisionId
          <5>1. products'[id] = [texts |-> texts, run |-> nextRun']
            BY <2>2, <4>1 DEF Insert
          <5> QED BY <1>2, <1>3, <3>1, <3>2, <4>1, <5>1
        <4>2. CASE id # RevisionId
          <5>1. id \in DOMAIN products /\ products'[id] = products[id]
            BY <2>2, <3>3, <4>2 DEF Insert
          <5> QED BY <1>3, <5>1 DEF ServiceInv, Kept
        <4> QED BY <4>1, <4>2
      <3>4. ASSUME NEW id \in DOMAIN continuations'
            PROVE  \E i \in DOMAIN retained' : retained'[i].id = id /\ continuations'[id] = H[id]
        <4>1. CASE id = RevisionId
          <5>1. continuations'[id] = texts
            BY <2>2, <4>1 DEF Insert
          <5> QED BY <1>2, <1>3, <3>1, <3>2, <4>1, <5>1
        <4>2. CASE id # RevisionId
          <5>1. id \in DOMAIN continuations /\ continuations'[id] = continuations[id]
            BY <2>2, <3>4, <4>2 DEF Insert
          <5> QED BY <1>3, <5>1 DEF ServiceInv, Kept
        <4> QED BY <4>1, <4>2
      <3> QED BY <3>3, <3>4 DEF Kept
    <2> QED BY <1>1, <2>1, <2>2
  <1>5. ServiceTypes'
    <2>1. /\ (stale \in BOOLEAN)' /\ (alive \in BOOLEAN)'
      BY DEF ServiceInv, ServiceTypes, Symbols, Symbol, Product
    <2>2. (directory # None /\ ~ stale => directory = texts)'
      BY DEF ServiceInv, ServiceTypes, Symbols, Symbol, Product, Fresh
    <2> QED BY <1>1, <1>2, <1>3, <2>1, <2>2 DEF ServiceInv, ServiceTypes
  <1> QED
    BY <1>1, <1>2, <1>3, <1>4, <1>5 DEF ServiceInv

(* A step that leaves what is kept alone, and publishes nothing. *)
LEMMA Untouched ==
  ASSUME NEW H, ServiceInv(H), UNCHANGED provider, alive' \in BOOLEAN,
         \/ events' = events \/ events' = <<>>
         \/ events # <<>> /\ events' = Tail(events)
  PROVE  ServiceInv(H)' /\ Onward(H, H)
  <1>1. /\ UNCHANGED <<generation, salsa, texts, retained, nextRun, runs>>
        /\ UNCHANGED <<products, continuations, directory, stale>>
    BY DEF provider
  <1>2. Past' = Past /\ RevisionId' = RevisionId
    BY <1>1 DEF Past, RevisionId
  <1>3. Retained(H)' /\ Kept(H)'
    BY <1>1, <1>2 DEF ServiceInv, Retained, Kept
  <1>4. IsSeq(events)' /\ Len(events') <= EventCapacity /\ ToSet(events') \subseteq ToSet(events)
    <2>1. CASE events' = events
      BY <2>1 DEF ServiceInv, ServiceTypes, IsSeq
    <2>2. CASE events' = <<>>
      <3>1. <<>> \in Seq({}) /\ Len(<<>>) = 0 /\ DOMAIN <<>> = {}
        OBVIOUS
      <3>2. ToSet(<<>>) = {}
        BY <3>1 DEF ToSet
      <3> QED BY <2>2, <3>1, <3>2, LimitAssumption DEF IsSeq
    <2>3. CASE events # <<>> /\ events' = Tail(events)
      <3>1. /\ IsSeq(events) /\ Len(events) <= EventCapacity
        BY DEF ServiceInv, ServiceTypes
      <3> QED BY <2>3, <3>1, TailIsSeq, LimitAssumption
    <2> QED BY <2>1, <2>2, <2>3
  <1>5. ServiceTypes'
    BY <1>1, <1>2, <1>4 DEF ServiceInv, ServiceTypes
  <1>6. Onward(H, H)
    BY <1>1, <1>2 DEF Onward, RunAt
  <1> QED
    BY <1>1, <1>2, <1>3, <1>5, <1>6 DEF ServiceInv

(* A revision that is pushed and published, after the inputs changed. *)
LEMMA RevisionKeeps ==
  ASSUME NEW H, ServiceInv(H), NEW kept,
         DOMAIN kept \subseteq DOMAIN continuations,
         \A id \in DOMAIN kept : kept[id] = continuations[id],
         generation' \in Nat, salsa' \in Nat,
         generation' > generation \/ (generation' = generation /\ salsa' > salsa),
         UNCHANGED <<nextRun, alive>>, PushRevision(kept), Publish,
         stale' \in BOOLEAN, directory' = None \/ stale',
         DOMAIN texts' \in {DOMAIN w : w \in Workspaces}
  PROVE  \E G : ServiceInv(G)' /\ Onward(H, G)
  <1>1. PICK G : G = [id \in Ids |-> IF id = RevisionId' THEN texts' ELSE H[id]]
    OBVIOUS
  <1>2. /\ DOMAIN G = Ids /\ G[RevisionId'] = texts'
        /\ Retained(G)' /\ Kept(G)' /\ Onward(H, G)
    BY <1>1, PushKeeps
  <1>3. RevisionId' \in Past' /\ IsSeq(events) /\ Len(events) <= EventCapacity
        /\ ToSet(events) \subseteq Past'
    BY <1>2, LaterIsNew DEF ServiceInv, ServiceTypes, Onward
  <1>4. IsSeq(events') /\ Len(events') <= EventCapacity /\ ToSet(events') \subseteq Past'
    BY <1>3, PublishKeeps
  <1>5. ServiceTypes'
    BY <1>4 DEF ServiceInv, ServiceTypes
  <1>6. ServiceInv(G)'
    BY <1>2, <1>5 DEF ServiceInv
  <1> QED BY <1>2, <1>6

(* A batch that changes anything is a later revision of the same database. *)
LEMMA ApplyKeeps ==
  ASSUME NEW H, ServiceInv(H), NEW m, ApplyUpdates(m), UNCHANGED alive
  PROVE  \E G : ServiceInv(G)' /\ Onward(H, G)
  <1> DEFINE changed == {f \in DOMAIN m.arg \cap DOMAIN texts : m.arg[f] # texts[f]}
  <1>1. CASE UNCHANGED <<provider, events>>
    BY <1>1, Untouched DEF ServiceInv, ServiceTypes
  <1>2. CASE ~ UNCHANGED <<provider, events>>
    <2>1. /\ changed # {}
          /\ texts' = [f \in DOMAIN texts |-> IF f \in changed THEN m.arg[f] ELSE texts[f]]
          /\ salsa' = salsa + Cardinality(changed) /\ stale' = TRUE
          /\ UNCHANGED <<generation, nextRun, directory>>
          /\ PushRevision(continuations) /\ Publish
      BY <1>2 DEF ApplyUpdates
    <2>2. PICK w \in Workspaces : DOMAIN texts = DOMAIN w
      BY DEF ServiceInv, ServiceTypes
    <2>3. changed \subseteq DOMAIN w
      BY <2>2
    <2> HIDE DEF changed
    <2>4. Cardinality(changed) \in Nat /\ Cardinality(changed) # 0
      BY <2>1, <2>2, <2>3, WorkspacesAssumption, FS_Subset, FS_EmptySet, FS_CardinalityType
    <2>5. /\ generation \in Nat /\ salsa \in Nat
      BY DEF ServiceInv, ServiceTypes
    <2>6. salsa' \in Nat /\ salsa' > salsa
      BY <2>1, <2>4, <2>5
    <2>7. DOMAIN texts' \in {DOMAIN v : v \in Workspaces}
      BY <2>1, <2>2
    <2> QED BY <2>1, <2>5, <2>6, <2>7, RevisionKeeps
  <1> QED BY <1>1, <1>2

(* A reload is a new database, which begins with no continuation. *)
LEMMA ReloadKeeps ==
  ASSUME NEW H, ServiceInv(H), NEW m, ReloadWorkspace(m), UNCHANGED alive
  PROVE  \E G : ServiceInv(G)' /\ Onward(H, G)
  <1>1. CASE UNCHANGED <<provider, events>>
    BY <1>1, Untouched DEF ServiceInv, ServiceTypes
  <1>2. CASE ~ UNCHANGED <<provider, events>>
    <2>1. /\ texts' \in Workspaces /\ salsa' = 1 /\ directory' = None /\ stale' = FALSE
          /\ generation' = generation + 1 /\ UNCHANGED nextRun
          /\ PushRevision(<< >>) /\ Publish
      BY <1>2 DEF ReloadWorkspace
    <2>2. generation' \in Nat /\ generation' > generation /\ salsa' \in Nat
      BY <2>1 DEF ServiceInv, ServiceTypes
    <2>3. DOMAIN << >> = {}
      OBVIOUS
    <2> QED BY <2>1, <2>2, <2>3, RevisionKeeps
  <1> QED BY <1>1, <1>2

-----------------------------------------------------------------------------
(* Every step.                                                                 *)

LEMMA ServiceStep ==
  ASSUME NEW H, ServiceInv(H), Serve \/ Panic \/ Edit \/ DirectProduct
  PROVE  \E G : ServiceInv(G)' /\ Onward(H, G)
  <1>1. CASE Serve
    <2>1. PICK m :
            \/ Symbols(m) \/ Symbol(m) \/ Product(m)
            \/ Read(m)
            \/ ApplyUpdates(m)
            \/ ReloadWorkspace(m)
      BY <1>1 DEF Serve
    <2>2. UNCHANGED alive
      BY <1>1 DEF Serve
    <2>3. CASE Read(m)
      <3>1. UNCHANGED <<provider, events>>
        BY <2>3 DEF Read
      <3> QED BY <2>2, <3>1, Untouched DEF ServiceInv, ServiceTypes
    <2> QED BY <2>1, <2>2, <2>3, AnsweredNow, ApplyKeeps, ReloadKeeps
  <1>2. CASE Panic \/ Edit \/ DirectProduct
    <2>1. UNCHANGED <<provider, events>> /\ alive' \in BOOLEAN
      BY <1>2 DEF Panic, Edit, DirectProduct, ServiceInv, ServiceTypes
    <2> QED BY <2>1, Untouched
  <1> QED BY <1>1, <1>2

\* The steps of the page.
OfPage == Receive \/ Continue \/ Commit \/ Connect \/ Deliver \/ Cut

LEMMA PageStep ==
  ASSUME NEW H, ServiceInv(H), OfPage
  PROVE  ServiceInv(H)' /\ Onward(H, H)
  <1>1. UNCHANGED <<provider, alive>>
    BY DEF OfPage, Receive, Continue, Commit, Connect, Deliver, Cut
  <1>2. \/ events' = events \/ events' = <<>>
        \/ events # <<>> /\ events' = Tail(events)
    BY DEF OfPage, Receive, Continue, Commit, Connect, Deliver, Cut
  <1> QED BY <1>1, <1>2, Untouched DEF ServiceInv, ServiceTypes

LEMMA TypesStep ==
  ASSUME PageTypes, Next
  PROVE  PageTypes'
  <1>1. CASE OfService
    <2>1. UNCHANGED <<client, stream>>
      BY <1>1 DEF OfService, Serve, Panic, Edit, DirectProduct
    <2>2. watcher' \in {"idle", "waiting"}
      BY <1>1 DEF OfService, Serve, Panic, Edit, DirectProduct, PageTypes
    <2> QED BY <2>1, <2>2 DEF PageTypes, client
  <1>2. CASE Receive
    <2>1. UNCHANGED <<stream, watcher>>
      BY <1>2 DEF Receive
    <2>2. PICK r : BootRevision(r) \/ BootLoaded(r) \/ Handshake(r) \/ Selection(r)
                   \/ Continuation(r)
      BY <1>2 DEF Receive
    <2>3. CASE BootRevision(r)
      BY <2>1, <2>3 DEF BootRevision, PageTypes, Effects
    <2>4. CASE BootLoaded(r)
      BY <2>1, <2>4 DEF BootLoaded, Reset, PageTypes, Effects
    <2>5. CASE Handshake(r)
      BY <2>1, <2>5 DEF Handshake, Reset, PageTypes, Effects
    <2>6. CASE Selection(r)
      BY <2>1, <2>6 DEF Selection, Reset, PageTypes, Effects
    <2>7. CASE Continuation(r)
      BY <2>1, <2>7 DEF Continuation, PageTypes
    <2> QED BY <2>2, <2>3, <2>4, <2>5, <2>6, <2>7
  <1>3. CASE Continue \/ Connect \/ Cut
    BY <1>3 DEF Continue, Connect, Cut, client, PageTypes
  <1>4. CASE Commit
    BY <1>4 DEF Commit, PageTypes, Effects
  <1>5. CASE Deliver
    BY <1>5 DEF Deliver, Reset, PageTypes, Effects
  <1> QED BY <1>1, <1>2, <1>3, <1>4, <1>5 DEF Next

LEMMA InvStep ==
  ASSUME Inv, [Next]_vars
  PROVE  Inv'
  <1>1. CASE Next
    <2>1. PageTypes'
      BY <1>1, TypesStep DEF Inv
    <2>2. PICK H : ServiceInv(H)
      BY DEF Inv
    <2>3. \E G : ServiceInv(G)'
      BY <1>1, <2>2, ServiceStep, PageStep DEF Next, OfService, OfPage
    <2> QED BY <2>1, <2>3 DEF Inv
  <1>2. CASE UNCHANGED vars
    <2>1. PageTypes'
      BY <1>2 DEF Inv, PageTypes, vars, client, service
    <2>2. PICK H : ServiceInv(H)
      BY DEF Inv
    <2>3. UNCHANGED <<provider, alive, events>>
      BY <1>2 DEF vars, service
    <2>4. ServiceInv(H)'
      BY <2>2, <2>3, Untouched DEF ServiceInv, ServiceTypes
    <2> QED BY <2>1, <2>4 DEF Inv
  <1> QED BY <1>1, <1>2

LEMMA InvStart ==
  ASSUME Init
  PROVE  Inv
  <1>1. /\ generation = 0 /\ salsa = 1 /\ texts \in Workspaces
        /\ retained = <<[id |-> <<0, 1>>, inputs |-> texts, runs |-> {}]>>
        /\ nextRun = 0 /\ runs = {} /\ products = << >> /\ continuations = << >>
        /\ directory = None /\ stale = FALSE /\ alive = TRUE /\ events = <<>>
    BY DEF Init, ServiceInit
  <1>2. PICK H : H = [id \in Ids |-> texts]
    OBVIOUS
  <1>3. RevisionId = <<0, 1>> /\ <<0, 1>> \in Ids /\ <<0, 1>> \in Past
    BY <1>1 DEF RevisionId, Ids, Past
  <1>4. DOMAIN << >> = {} /\ Len(<<>>) = 0 /\ <<>> \in Seq({})
    OBVIOUS
  <1> DEFINE first == [id |-> <<0, 1>>, inputs |-> texts, runs |-> {}]
  <1>5. IsEntry(first) /\ first.id = <<0, 1>> /\ first.inputs = texts /\ first.runs = {}
    BY DEF IsEntry
  <1> HIDE DEF first
  <1>6. /\ IsSeq(retained) /\ Len(retained) = 1 /\ DOMAIN retained = {1} /\ retained[1] = first
    <2>1. <<first>> \in Seq({first}) /\ Len(<<first>>) = 1 /\ DOMAIN <<first>> = {1}
          /\ <<first>>[1] = first
      OBVIOUS
    <2> QED BY <1>1, <2>1 DEF IsSeq, first
  <1>7. Retained(H)
    <2>1. IsSeq(retained) /\ Len(retained) \in 1 .. RetainedLimit
          /\ retained[Len(retained)].id = RevisionId
      BY <1>3, <1>5, <1>6, LimitAssumption
    <2>2. \A i \in DOMAIN retained :
            /\ IsEntry(retained[i]) /\ retained[i].id \in Past
            /\ retained[i].inputs = H[retained[i].id]
            /\ retained[i].runs \subseteq 1 .. nextRun
      BY <1>2, <1>3, <1>5, <1>6
    <2>3. \A i, j \in DOMAIN retained :
            retained[i].id = retained[j].id \/ retained[i].runs \cap retained[j].runs # {} => i = j
      BY <1>6
    <2>4. runs = UNION {retained[i].runs : i \in DOMAIN retained}
      BY <1>1, <1>5, <1>6
    <2> QED BY <2>1, <2>2, <2>3, <2>4 DEF Retained
  <1>8. Kept(H)
    BY <1>1, <1>4 DEF Kept
  <1>9. ServiceTypes
    <2>1. ToSet(events) = {}
      BY <1>1, <1>4 DEF ToSet
    <2>2. IsSeq(events) /\ Len(events) <= EventCapacity
      BY <1>1, <1>4, LimitAssumption DEF IsSeq
    <2>3. generation \in Nat /\ salsa \in Nat /\ nextRun \in Nat
      BY <1>1
    <2>4. /\ DOMAIN texts \in {DOMAIN w : w \in Workspaces}
          /\ stale \in BOOLEAN /\ alive \in BOOLEAN
          /\ directory # None /\ ~ stale => directory = texts
      BY <1>1
    <2> QED BY <2>1, <2>2, <2>3, <2>4 DEF ServiceTypes
  <1>10. ServiceInv(H)
    BY <1>2, <1>3, <1>7, <1>8, <1>9 DEF ServiceInv
  <1>11. PageTypes
    BY DEF Init, ServiceInit, PageTypes
  <1> QED BY <1>10, <1>11 DEF Inv

(* The invariant says of what is kept what RetainedTogether says. *)
LEMMA InvKeeps ==
  ASSUME Inv
  PROVE  RetainedTogether
  <1>1. PICK H : ServiceInv(H)
    BY DEF Inv
  <1> DEFINE at(id) == CHOOSE i \in DOMAIN retained : retained[i].id = id
  <1>2. \A i \in DOMAIN retained : /\ at(retained[i].id) = i
                                   /\ retained[i].inputs = H[retained[i].id]
    BY <1>1 DEF ServiceInv, Retained
  <1> HIDE DEF at
  <1>3. TypeOK
    BY <1>1 DEF Inv, PageTypes, ServiceInv, ServiceTypes, Retained, TypeOK
  <1>4. Len(retained) \in DOMAIN retained
    BY <1>1, LimitAssumption DEF ServiceInv, Retained, IsSeq
  <1>5. /\ retained[Len(retained)].id = RevisionId
        /\ retained[Len(retained)].inputs = texts
        /\ \A i, j \in DOMAIN retained : retained[i].id = retained[j].id => i = j
        /\ runs = UNION {retained[i].runs : i \in DOMAIN retained}
        /\ directory # None /\ ~ stale => directory = texts
    BY <1>1, <1>4 DEF ServiceInv, ServiceTypes, Retained
  <1>6. \A id \in DOMAIN products :
          /\ id \in {retained[i].id : i \in DOMAIN retained}
          /\ products[id].texts = retained[at(id)].inputs /\ products[id].run \in runs
    BY <1>1, <1>2, <1>5 DEF ServiceInv, Kept
  <1>7. \A id \in DOMAIN continuations :
          /\ id \in {retained[i].id : i \in DOMAIN retained}
          /\ continuations[id] = retained[at(id)].inputs
    BY <1>1, <1>2 DEF ServiceInv, Kept
  <1> QED BY <1>3, <1>5, <1>6, <1>7 DEF RetainedTogether, at

(* What is kept belongs to a retained revision and all of it is there (record,     *)
(* push_revision, reload_workspace in src/inspector.rs): Spec => [] RetainedTogether.  *)
THEOREM KeptWithItsRevision == Spec => []RetainedTogether
  <1>1. Init => Inv
    BY InvStart
  <1>2. Inv /\ [Next]_vars => Inv'
    BY InvStep
  <1>3. Inv => RetainedTogether
    BY InvKeeps
  <1> QED
    BY <1>1, <1>2, <1>3, PTL DEF Spec

-----------------------------------------------------------------------------
(* Requests and answers under way.                                             *)

IsRequest(m) == m = [from |-> m.from, kind |-> m.kind, arg |-> m.arg]
Updates == {"apply-updates", "reload-workspace"}
\* Only the watcher's requests are answered to nobody else.
Asked(m) == IsRequest(m) /\ (m.kind \in Updates => m.from = "watcher")

Clients == Effects \cup {"more"}

Pending(who, kind) ==
  \/ \E m \in ToSet(mailbox) : m.from = who /\ m.kind = kind
  \/ \E r \in replies : r.to = who /\ r.kind = kind

\* Both requests of the bootstrap are under way or answered; at most one is answered.
Loading ==
  /\ \A k \in {"session", "symbols"} : Pending("boot", k) \/ \E s \in loaded : s.kind = k
  /\ \A s, u \in loaded : s = u

Waiting ==
  /\ IsSeq(mailbox) /\ \A m \in ToSet(mailbox) : Asked(m)
  /\ alive \in BOOLEAN
  /\ watcher = "waiting" => \E m \in ToSet(mailbox) : m.from = "watcher"
  /\ boot \in {"idle", "revision", "loading"}
  /\ boot = "revision" => \E k : Pending("boot", k)
  /\ boot = "loading" => Loading
  /\ select # "idle" => \E k : Pending("select", k)

LEMMA ConcatIsSeq ==
  ASSUME NEW s, IsSeq(s), NEW t, IsSeq(t)
  PROVE  IsSeq(s \o t) /\ ToSet(s \o t) = ToSet(s) \cup ToSet(t)
  <1>1. PICK S : s \in Seq(S)
    BY DEF IsSeq
  <1>2. PICK T : t \in Seq(T)
    BY DEF IsSeq
  <1>3. s \in Seq(S \cup T) /\ t \in Seq(S \cup T)
    BY <1>1, <1>2
  <1>4. /\ s \o t \in Seq(S \cup T) /\ Len(s \o t) = Len(s) + Len(t)
        /\ Len(s) \in Nat /\ Len(t) \in Nat
        /\ DOMAIN s = 1..Len(s) /\ DOMAIN t = 1..Len(t)
        /\ DOMAIN (s \o t) = 1..(Len(s) + Len(t))
        /\ \A i \in 1..(Len(s) + Len(t)) : (s \o t)[i] = IF i <= Len(s) THEN s[i] ELSE t[i - Len(s)]
    BY <1>3
  <1>5. ASSUME NEW x \in ToSet(s \o t) PROVE x \in ToSet(s) \cup ToSet(t)
    <2>1. PICK i \in 1..(Len(s) + Len(t)) : x = (s \o t)[i]
      BY <1>4, <1>5 DEF ToSet
    <2>2. CASE i <= Len(s)
      BY <1>4, <2>1, <2>2 DEF ToSet
    <2>3. CASE ~(i <= Len(s))
      <3>1. i - Len(s) \in 1..Len(t) /\ x = t[i - Len(s)]
        BY <1>4, <2>1, <2>3
      <3> QED BY <1>4, <3>1 DEF ToSet
    <2> QED BY <2>2, <2>3
  <1>6. ASSUME NEW x \in ToSet(s) PROVE x \in ToSet(s \o t)
    <2>1. PICK i \in 1..Len(s) : x = s[i]
      BY <1>4, <1>6 DEF ToSet
    <2>2. i \in 1..(Len(s) + Len(t)) /\ x = (s \o t)[i]
      BY <1>4, <2>1
    <2> QED BY <1>4, <2>2 DEF ToSet
  <1>7. ASSUME NEW x \in ToSet(t) PROVE x \in ToSet(s \o t)
    <2>1. PICK i \in 1..Len(t) : x = t[i]
      BY <1>4, <1>7 DEF ToSet
    <2>2. i + Len(s) \in 1..(Len(s) + Len(t)) /\ ~(i + Len(s) <= Len(s)) /\ (i + Len(s)) - Len(s) = i
      BY <1>4, <2>1
    <2>3. x = (s \o t)[i + Len(s)]
      BY <1>4, <2>1, <2>2
    <2> QED BY <1>4, <2>2, <2>3 DEF ToSet
  <1> QED BY <1>4, <1>5, <1>6, <1>7 DEF IsSeq

LEMMA RequestFrom ==
  ASSUME NEW m, IsRequest(m), NEW who
  PROVE  [m EXCEPT !.from = who] = [from |-> who, kind |-> m.kind, arg |-> m.arg]
  <1>1. \A a, b, c : [[from |-> a, kind |-> b, arg |-> c] EXCEPT !.from = who]
                      = [from |-> who, kind |-> b, arg |-> c]
    OBVIOUS
  <1> QED
    BY <1>1 DEF IsRequest

LEMMA UnavailableIs ==
  ASSUME NEW m
  PROVE  Unavailable(m).to = m.from /\ Unavailable(m).kind = m.kind /\ Unavailable(m).error # ""
  BY DEF Unavailable, Reply

(* What an exchange sends is under way, and so is all that is not forgotten but  *)
(* the answer that was taken.                                                     *)
LEMMA ExchangeDoes ==
  ASSUME Waiting, NEW ms, IsSeq(ms), \A m \in ToSet(ms) : Asked(m) /\ m.from \in Clients,
         NEW taken, NEW forgotten, forgotten \subseteq Clients,
         Exchange(ms, taken, forgotten)
  PROVE  /\ IsSeq(mailbox)' /\ \A m \in ToSet(mailbox') : Asked(m)
         /\ \A m \in ToSet(mailbox) : m.from \notin forgotten => m \in ToSet(mailbox')
         /\ \A r \in replies \ taken : r.to \notin forgotten => r \in replies'
         /\ \A m \in ToSet(ms) : Pending(m.from, m.kind)'
         /\ \A m \in ToSet(mailbox') : \/ m \in ToSet(mailbox) /\ m.from \notin forgotten
                                     \/ m.from = "gone" \/ m \in ToSet(ms)
         /\ \A r \in replies' : \/ r \in replies /\ r.to \notin forgotten
                               \/ \E m \in ToSet(ms) : r.to = m.from /\ r.error # ""
  <1> DEFINE forget(m) == IF m.from \in forgotten THEN [m EXCEPT !.from = "gone"] ELSE m
             kept == [i \in DOMAIN mailbox |-> forget(mailbox[i])]
  <1>1. /\ mailbox' = Posted(kept, ms)
        /\ replies' = {s \in replies \ taken : s.to \notin forgotten} \cup Refused(ms)
    BY DEF Exchange
  <1>2. PICK S : mailbox \in Seq(S)
    BY DEF Waiting, IsSeq
  <1>3. \A m \in ToSet(mailbox) : Asked(forget(m))
    <2>1. ASSUME NEW m \in ToSet(mailbox) PROVE Asked(forget(m))
      <3>1. Asked(m)
        BY DEF Waiting
      <3>2. CASE m.from \in forgotten
        <4>1. m.kind \notin Updates
          BY <3>1, <3>2 DEF Asked, Clients, Effects
        <4>2. forget(m) = [from |-> "gone", kind |-> m.kind, arg |-> m.arg]
          BY <3>1, <3>2, RequestFrom DEF Asked
        <4> QED BY <4>1, <4>2 DEF Asked, IsRequest
      <3>3. CASE m.from \notin forgotten
        BY <3>1, <3>3
      <3> QED BY <3>2, <3>3
    <2> QED BY <2>1
  <1>4. /\ \A m : m.from \notin forgotten => forget(m) = m
        /\ kept = [i \in DOMAIN mailbox |-> forget(mailbox[i])]
    OBVIOUS
  <1> HIDE DEF forget, kept
  <1>5. IsSeq(kept) /\ ToSet(kept) = {forget(m) : m \in ToSet(mailbox)}
    <2>1. DOMAIN mailbox = 1..Len(mailbox) /\ Len(mailbox) \in Nat
      BY <1>2
    <2>2. kept \in [1..Len(mailbox) -> {forget(m) : m \in ToSet(mailbox)}]
      BY <1>4, <2>1 DEF ToSet
    <2>3. kept \in Seq({forget(m) : m \in ToSet(mailbox)})
      BY <2>1, <2>2
    <2>4. DOMAIN kept = DOMAIN mailbox
      BY <1>4
    <2> QED BY <1>4, <2>3, <2>4 DEF IsSeq, ToSet
  <1>6. /\ IsSeq(mailbox)' /\ ToSet(kept) \subseteq ToSet(mailbox')
        /\ ToSet(mailbox') \subseteq ToSet(kept) \cup ToSet(ms)
        /\ alive => ToSet(ms) \subseteq ToSet(mailbox')
    <2>1. CASE alive
      BY <1>1, <1>5, <2>1, ConcatIsSeq DEF Posted
    <2>2. CASE ~alive
      BY <1>1, <1>5, <2>2 DEF Posted, IsSeq
    <2> QED BY <2>1, <2>2
  <1>7. ASSUME NEW m \in ToSet(ms) PROVE Pending(m.from, m.kind)'
    <2>1. CASE alive
      BY <1>6, <1>7, <2>1 DEF Pending
    <2>2. CASE ~alive
      <3>1. Unavailable(m) \in Refused(ms)
        <4>1. Unavailable(m).to \notin {"gone", "watcher"}
          BY UnavailableIs DEF Clients, Effects
        <4> QED BY <2>2, <4>1 DEF Refused, Heard
      <3> QED BY <1>1, <3>1, UnavailableIs DEF Pending
    <2> QED BY <2>1, <2>2
  <1>8. \A m \in ToSet(mailbox) : m.from \notin forgotten => m \in ToSet(mailbox')
    BY <1>4, <1>5, <1>6
  <1>9. ASSUME NEW m \in ToSet(mailbox')
        PROVE  \/ m \in ToSet(mailbox) /\ m.from \notin forgotten
               \/ m.from = "gone" \/ m \in ToSet(ms)
    <2>1. CASE m \in ToSet(kept)
      <3>1. PICK n \in ToSet(mailbox) : m = forget(n)
        BY <1>5, <2>1
      <3>2. CASE n.from \in forgotten
        <4>1. m = [from |-> "gone", kind |-> n.kind, arg |-> n.arg]
          BY <3>1, <3>2, RequestFrom DEF Waiting, Asked, forget
        <4> QED BY <4>1
      <3> QED BY <1>4, <3>1, <3>2
    <2> QED BY <1>6, <1>9, <2>1
  <1>10. \A r \in Refused(ms) : \E m \in ToSet(ms) : r.to = m.from /\ r.error # ""
    BY UnavailableIs DEF Refused, Heard
  <1> QED
    BY <1>1, <1>3, <1>5, <1>6, <1>7, <1>8, <1>9, <1>10

LEMMA ExchangeKeeps ==
  ASSUME Waiting, NEW ms, IsSeq(ms), \A m \in ToSet(ms) : Asked(m) /\ m.from \in Clients,
         NEW taken, NEW forgotten, forgotten \subseteq Clients,
         Exchange(ms, taken, forgotten)
  PROVE  /\ IsSeq(mailbox)' /\ \A m \in ToSet(mailbox') : Asked(m)
         /\ \A m \in ToSet(mailbox) : m.from \notin forgotten => m \in ToSet(mailbox')
         /\ \A r \in replies \ taken : r.to \notin forgotten => r \in replies'
         /\ \A m \in ToSet(ms) : Pending(m.from, m.kind)'
  BY ExchangeDoes

(* Nothing else is under way after it. *)
LEMMA ExchangeMakes ==
  ASSUME Waiting, NEW ms, IsSeq(ms), \A m \in ToSet(ms) : Asked(m) /\ m.from \in Clients,
         NEW taken, NEW forgotten, forgotten \subseteq Clients,
         Exchange(ms, taken, forgotten)
  PROVE  /\ \A m \in ToSet(mailbox') : \/ m \in ToSet(mailbox) /\ m.from \notin forgotten
                                     \/ m.from = "gone" \/ m \in ToSet(ms)
         /\ \A r \in replies' : \/ r \in replies /\ r.to \notin forgotten
                               \/ \E m \in ToSet(ms) : r.to = m.from /\ r.error # ""
  BY ExchangeDoes

LEMMA StillPending ==
  ASSUME Waiting, NEW ms, IsSeq(ms), \A m \in ToSet(ms) : Asked(m) /\ m.from \in Clients,
         NEW taken, NEW forgotten, forgotten \subseteq Clients,
         Exchange(ms, taken, forgotten),
         NEW who, who \notin forgotten, NEW kind, Pending(who, kind),
         \A r \in taken : ~(r.to = who /\ r.kind = kind)
  PROVE  Pending(who, kind)'
  <1>1. CASE \E m \in ToSet(mailbox) : m.from = who /\ m.kind = kind
    BY <1>1, ExchangeKeeps DEF Pending
  <1>2. CASE \E r \in replies : r.to = who /\ r.kind = kind
    BY <1>2, ExchangeKeeps DEF Pending
  <1> QED
    BY <1>1, <1>2 DEF Pending

(* The watcher's request is not one that an exchange touches. *)
LEMMA WatcherStays ==
  ASSUME Waiting, NEW ms, IsSeq(ms), \A m \in ToSet(ms) : Asked(m) /\ m.from \in Clients,
         NEW taken, NEW forgotten, forgotten \subseteq Clients,
         Exchange(ms, taken, forgotten), UNCHANGED <<watcher, alive>>
  PROVE  /\ IsSeq(mailbox)' /\ (\A m \in ToSet(mailbox) : Asked(m))' /\ (alive \in BOOLEAN)'
         /\ (watcher = "waiting" => \E m \in ToSet(mailbox) : m.from = "watcher")'
  <1>1. "watcher" \notin forgotten
    BY DEF Clients, Effects
  <1> QED
    BY <1>1, ExchangeKeeps DEF Waiting

LEMMA FewRequests ==
  /\ IsSeq(<<>>) /\ ToSet(<<>>) = {}
  /\ \A m : IsSeq(<<m>>) /\ ToSet(<<m>>) = {m}
  /\ \A m, n : IsSeq(<<m, n>>) /\ ToSet(<<m, n>>) = {m, n}
  <1>1. IsSeq(<<>>) /\ ToSet(<<>>) = {}
    <2>1. <<>> \in Seq({}) /\ DOMAIN <<>> = {}
      OBVIOUS
    <2> QED BY <2>1 DEF IsSeq, ToSet
  <1>2. ASSUME NEW m PROVE IsSeq(<<m>>) /\ ToSet(<<m>>) = {m}
    <2> DEFINE s == <<m>>
    <2>1. s \in Seq({m}) /\ DOMAIN s = {1} /\ s[1] = m
      OBVIOUS
    <2> HIDE DEF s
    <2>2. IsSeq(s) /\ ToSet(s) = {m}
      BY <2>1 DEF IsSeq, ToSet
    <2> QED BY <2>2 DEF s
  <1>3. ASSUME NEW m, NEW n PROVE IsSeq(<<m, n>>) /\ ToSet(<<m, n>>) = {m, n}
    <2> DEFINE s == <<m, n>>
    <2>1. s \in Seq({m, n}) /\ DOMAIN s = {1, 2} /\ s[1] = m /\ s[2] = n
      OBVIOUS
    <2> HIDE DEF s
    <2>2. IsSeq(s) /\ ToSet(s) = {m, n}
      BY <2>1 DEF IsSeq, ToSet
    <2> QED BY <2>2 DEF s
  <1> QED
    BY <1>1, <1>2, <1>3

LEMMA AskIs ==
  ASSUME NEW from \in Clients, NEW kind, kind \notin Updates, NEW arg
  PROVE  /\ Asked(Ask(from, kind, arg)) /\ Ask(from, kind, arg).from = from
         /\ Ask(from, kind, arg).kind = kind
  BY DEF Asked, IsRequest, Ask

(* Whoever is answered has the answer under way. *)
LEMMA AnswerOf ==
  ASSUME NEW m, Symbols(m) \/ Symbol(m) \/ Product(m) \/ Read(m)
  PROVE  \E x : replies' = replies \cup Heard({x}) /\ x.to = m.from /\ x.kind = m.kind
  <1>1. \A id, error, value : LET x == Reply(m, id, error, value) IN
          x.to = m.from /\ x.kind = m.kind
    BY DEF Reply
  <1>2. CASE Symbols(m)
    <2>1. replies' = replies \cup Heard({Reply(m, RevisionId, "", texts)})
      BY <1>2 DEF Symbols
    <2> QED BY <1>1, <2>1
  <1>3. CASE Symbol(m)
    <2>1. \/ replies' = replies \cup Heard({Reply(m, RevisionId, "", texts)})
          \/ replies' = replies \cup Heard({Reply(m, RevisionId, "symbol-not-found", None)})
      BY <1>3 DEF Symbol
    <2> QED BY <1>1, <2>1
  <1>4. CASE Product(m)
    <2>1. \/ replies' = replies \cup
                 Heard({[Reply(m, RevisionId, "", texts) EXCEPT !.run = nextRun']})
          \/ replies' = replies \cup Heard({Reply(m, RevisionId, "product-not-found", None)})
      BY <1>4 DEF Product
    <2> DEFINE x == [Reply(m, RevisionId, "", texts) EXCEPT !.run = nextRun']
    <2>2. x.to = m.from /\ x.kind = m.kind
      BY DEF Reply
    <2> HIDE DEF x
    <2>3. CASE replies' = replies \cup Heard({x})
      BY <2>2, <2>3
    <2>4. CASE replies' = replies \cup Heard({Reply(m, RevisionId, "product-not-found", None)})
      BY <1>1, <2>4
    <2> QED BY <2>1, <2>3, <2>4 DEF x
  <1>5. CASE Read(m)
    <2>1. \/ replies' = replies \cup Heard({Reply(m, RevisionId, "", Stored(m))})
          \/ replies' = replies \cup Heard({Reply(m, RevisionId, NotFound(m), None)})
      BY <1>5 DEF Read
    <2> QED BY <1>1, <2>1
  <1> QED BY <1>2, <1>3, <1>4, <1>5

LEMMA ServeWaits ==
  ASSUME Waiting, Serve, UNCHANGED client
  PROVE  Waiting'
  <1> DEFINE m == Head(mailbox)
  <1>1. /\ mailbox # <<>> /\ mailbox' = Tail(mailbox) /\ IsSeq(mailbox)
        /\ watcher' = IF m.from = "watcher" THEN "idle" ELSE watcher
        /\ UNCHANGED <<alive, boot, loaded, select>>
    BY DEF Serve, Waiting, client
  <1>2. \/ Symbols(m) \/ Symbol(m) \/ Product(m) \/ Read(m)
        \/ m.kind \in Updates /\ UNCHANGED replies
    BY DEF Serve, Updates
  <1> HIDE DEF m
  <1>3. IsSeq(mailbox') /\ ToSet(mailbox) = ToSet(mailbox') \cup {m}
    BY <1>1, TailIsSeq DEF m
  <1>4. Asked(m) /\ replies \subseteq replies'
    BY <1>2, <1>3, AnswerOf DEF Waiting
  <1>5. ASSUME NEW who \in Clients, NEW kind, Pending(who, kind)
        PROVE  Pending(who, kind)'
    <2>1. CASE m.from = who /\ m.kind = kind
      <3>1. m.kind \notin Updates
        BY <1>4, <2>1 DEF Asked, Clients, Effects
      <3>2. PICK x : replies' = replies \cup Heard({x}) /\ x.to = m.from /\ x.kind = m.kind
        BY <1>2, <3>1, AnswerOf
      <3>3. x \in replies'
        BY <2>1, <3>2 DEF Heard, Clients, Effects
      <3> QED BY <2>1, <3>2, <3>3 DEF Pending
    <2>2. CASE ~(m.from = who /\ m.kind = kind)
      BY <1>3, <1>4, <1>5, <2>2 DEF Pending
    <2> QED BY <2>1, <2>2
  <1>6. boot = "loading" => Loading'
    BY <1>1, <1>5 DEF Waiting, Loading, Clients, Effects
  <1>7. /\ boot = "revision" => \E k : Pending("boot", k)'
        /\ select # "idle" => \E k : Pending("select", k)'
    BY <1>5 DEF Waiting, Clients, Effects
  <1>8. watcher' = "waiting" => \E x \in ToSet(mailbox') : x.from = "watcher"
    BY <1>1, <1>3 DEF Waiting
  <1>9. \A x \in ToSet(mailbox') : Asked(x)
    BY <1>3 DEF Waiting
  <1> QED
    BY <1>1, <1>3, <1>6, <1>7, <1>8, <1>9 DEF Waiting

LEMMA PanicWaits ==
  ASSUME Waiting, Panic, UNCHANGED client
  PROVE  Waiting'
  <1>1. /\ mailbox' = <<>> /\ watcher' = "idle" /\ alive' = FALSE
        /\ replies' = replies \cup Heard({Unavailable(m) : m \in ToSet(mailbox)})
        /\ UNCHANGED <<boot, loaded, select>>
    BY DEF Panic, client
  <1>2. ASSUME NEW who \in Clients, NEW kind, Pending(who, kind)
        PROVE  Pending(who, kind)'
    <2>1. CASE \E m \in ToSet(mailbox) : m.from = who /\ m.kind = kind
      <3>1. PICK m \in ToSet(mailbox) : m.from = who /\ m.kind = kind
        BY <2>1
      <3>2. Unavailable(m) \in replies'
        BY <1>1, <3>1, UnavailableIs DEF Heard, Clients, Effects
      <3> QED BY <3>1, <3>2, UnavailableIs DEF Pending
    <2>2. CASE \E r \in replies : r.to = who /\ r.kind = kind
      BY <1>1, <2>2 DEF Pending
    <2> QED BY <1>2, <2>1, <2>2 DEF Pending
  <1>3. IsSeq(mailbox') /\ ToSet(mailbox') = {}
    BY <1>1, FewRequests
  <1>4. boot = "loading" => Loading'
    BY <1>1, <1>2 DEF Waiting, Loading, Clients, Effects
  <1>5. /\ boot = "revision" => \E k : Pending("boot", k)'
        /\ select # "idle" => \E k : Pending("select", k)'
    BY <1>2 DEF Waiting, Clients, Effects
  <1> QED
    BY <1>1, <1>3, <1>4, <1>5 DEF Waiting

(* The watcher, or another client, sends a request, or is refused at once. *)
LEMMA SendWaits ==
  ASSUME Waiting, Edit \/ DirectProduct, UNCHANGED client
  PROVE  Waiting'
  <1>1. PICK m : /\ Asked(m) /\ Send(m)
                 /\ m.from = "watcher" \/ UNCHANGED watcher
                 /\ watcher' = "waiting" => UNCHANGED watcher \/ alive
    <2>1. CASE Edit
      <3>1. PICK m : /\ Send(m) /\ m.from = "watcher" /\ IsRequest(m)
        <4>1. \A k, a : LET m == [from |-> "watcher", kind |-> k, arg |-> a] IN
                m.from = "watcher" /\ IsRequest(m)
          BY DEF IsRequest
        <4>2. \E k, a : Send([from |-> "watcher", kind |-> k, arg |-> a])
          BY <2>1 DEF Edit
        <4> QED BY <4>1, <4>2
      <3>2. watcher' = "waiting" => alive
        BY <2>1 DEF Edit
      <3> QED BY <3>1, <3>2 DEF Asked
    <2>2. CASE DirectProduct
      <3>1. [from |-> "gone", kind |-> "product", arg |-> None].kind \notin Updates
        BY DEF Updates
      <3> QED BY <2>2, <3>1 DEF DirectProduct, Asked, IsRequest
    <2> QED BY <2>1, <2>2
  <1>2. /\ UNCHANGED <<alive, boot, loaded, select>>
        /\ mailbox' = Posted(mailbox, <<m>>) /\ replies \subseteq replies'
    BY <1>1 DEF Edit, DirectProduct, client, Send
  <1>3. /\ IsSeq(mailbox') /\ ToSet(mailbox) \subseteq ToSet(mailbox')
        /\ ToSet(mailbox') \subseteq ToSet(mailbox) \cup {m}
        /\ alive => m \in ToSet(mailbox')
    <2>1. IsSeq(mailbox) /\ IsSeq(<<m>>) /\ ToSet(<<m>>) = {m}
      BY FewRequests DEF Waiting
    <2> QED BY <1>2, <2>1, ConcatIsSeq DEF Posted, IsSeq
  <1>4. \A who, kind : Pending(who, kind) => Pending(who, kind)'
    BY <1>2, <1>3 DEF Pending
  <1>5. boot = "loading" => Loading'
    BY <1>2, <1>4 DEF Waiting, Loading
  <1>6. /\ boot = "revision" => \E k : Pending("boot", k)'
        /\ select # "idle" => \E k : Pending("select", k)'
    BY <1>4 DEF Waiting
  <1>7. watcher' = "waiting" => \E x \in ToSet(mailbox') : x.from = "watcher"
    BY <1>1, <1>3 DEF Waiting
  <1>8. \A x \in ToSet(mailbox') : Asked(x)
    BY <1>1, <1>3 DEF Waiting
  <1> QED
    BY <1>2, <1>3, <1>5, <1>6, <1>7, <1>8 DEF Waiting

(* An answer to an effect that the step leaves where it is, or ends.  *)
LEMMA OthersWait ==
  ASSUME Waiting, NEW ms, IsSeq(ms), \A m \in ToSet(ms) : Asked(m) /\ m.from \in Clients,
         NEW r, NEW forgotten, forgotten \subseteq Clients,
         Exchange(ms, {r}, forgotten), UNCHANGED <<watcher, alive>>,
         boot' = "idle" \/ (UNCHANGED <<boot, loaded>> /\ r.to # "boot" /\ "boot" \notin forgotten),
         select' = "idle"
           \/ (UNCHANGED select /\ r.to # "select" /\ "select" \notin forgotten)
           \/ \E k : Pending("select", k)'
  PROVE  Waiting'
  <1>1. /\ IsSeq(mailbox)' /\ (\A m \in ToSet(mailbox) : Asked(m))' /\ (alive \in BOOLEAN)'
        /\ (watcher = "waiting" => \E m \in ToSet(mailbox) : m.from = "watcher")'
    BY WatcherStays
  <1>2. ASSUME boot' # "idle"
        PROVE  /\ boot' \in {"revision", "loading"}
               /\ boot' = "revision" => \E k : Pending("boot", k)'
               /\ boot' = "loading" => Loading'
    <2>1. \A k : Pending("boot", k) => Pending("boot", k)'
      BY <1>2, StillPending
    <2> QED BY <1>2, <2>1 DEF Waiting, Loading
  <1>3. select' # "idle" => \E k : Pending("select", k)'
    <2>1. ASSUME UNCHANGED select, r.to # "select", "select" \notin forgotten
          PROVE  \A k : Pending("select", k) => Pending("select", k)'
      BY <2>1, StillPending
    <2> QED BY <2>1 DEF Waiting
  <1> QED
    BY <1>1, <1>2, <1>3 DEF Waiting

LEMMA BootRevisionWaits ==
  ASSUME Waiting, NEW r \in replies, BootRevision(r), UNCHANGED <<watcher, alive>>
  PROVE  Waiting'
  <1>1. r.to = "boot" /\ UNCHANGED select
    BY DEF BootRevision
  <1>2. CASE r.error = ""
    <2>1. boot' = "loading" /\ loaded' = {}
      BY <1>2 DEF BootRevision
    <2> DEFINE session == Ask("boot", "session", None)
               symbols == Ask("boot", "symbols", None)
    <2>2. /\ Asked(session) /\ session.from = "boot" /\ session.kind = "session"
          /\ Asked(symbols) /\ symbols.from = "boot" /\ symbols.kind = "symbols"
      BY AskIs DEF Clients, Effects, Updates
    <2>3. \/ Exchange(<<session, symbols>>, {r}, {})
          \/ Exchange(<<symbols, session>>, {r}, {})
      BY <1>2 DEF BootRevision
    <2> HIDE DEF session, symbols
    <2>4. PICK ms : /\ IsSeq(ms) /\ ToSet(ms) = {session, symbols} /\ Exchange(ms, {r}, {})
      BY <2>3, FewRequests
    <2>5. \A m \in ToSet(ms) : Asked(m) /\ m.from \in Clients
      BY <2>2, <2>4 DEF Clients, Effects
    <2>6. Pending("boot", "session")' /\ Pending("boot", "symbols")'
      <3>1. \A m \in ToSet(ms) : Pending(m.from, m.kind)'
        BY <2>4, <2>5, ExchangeKeeps
      <3> QED BY <2>2, <2>4, <3>1
    <2>7. /\ IsSeq(mailbox)' /\ (\A m \in ToSet(mailbox) : Asked(m))' /\ (alive \in BOOLEAN)'
          /\ (watcher = "waiting" => \E m \in ToSet(mailbox) : m.from = "watcher")'
      BY <2>4, <2>5, WatcherStays
    <2>8. \A k : Pending("select", k) => Pending("select", k)'
      BY <1>1, <2>4, <2>5, StillPending
    <2> QED
      BY <1>1, <2>1, <2>6, <2>7, <2>8 DEF Waiting, Loading
  <1>3. CASE r.error # ""
    <2>1. boot' = "idle" /\ Exchange(<<>>, {r}, {})
      BY <1>3 DEF BootRevision
    <2> QED BY <1>1, <2>1, FewRequests, OthersWait
  <1> QED BY <1>2, <1>3

LEMMA BootLoadedWaits ==
  ASSUME Waiting, NEW r \in replies, BootLoaded(r), UNCHANGED <<watcher, alive>>
  PROVE  Waiting'
  <1> DEFINE all == loaded \cup {r}
  <1>1. r.to = "boot" /\ boot = "loading" /\ UNCHANGED select
    BY DEF BootLoaded
  <1>2. PICK forgotten \in {{}, {"boot"}} :
          /\ Exchange(<<>>, {r}, forgotten)
          /\ \/ boot' = "idle"
             \/ boot' = "loading" /\ loaded' = all /\ Cardinality(all) < 2 /\ forgotten = {}
    BY DEF BootLoaded
  <1>3. CASE boot' = "idle"
    <2>1. "select" \notin forgotten /\ forgotten \subseteq Clients
      BY <1>2 DEF Clients, Effects
    <2> QED BY <1>1, <1>2, <1>3, <2>1, FewRequests, OthersWait
  <1>4. CASE boot' = "loading" /\ loaded' = all /\ Cardinality(all) < 2 /\ forgotten = {}
    <2>1. PICK ms : /\ Exchange(ms, {r}, {}) /\ IsSeq(ms)
                    /\ \A m \in ToSet(ms) : Asked(m) /\ m.from \in Clients
      BY <1>2, <1>4, FewRequests
    <2>2. \A s, u \in all : s = u
      <3>1. CASE loaded = {}
        BY <3>1
      <3>2. CASE loaded # {}
        <4>1. PICK x \in loaded : loaded = {x}
          BY <1>1, <3>2 DEF Waiting, Loading
        <4>2. x = r
          <5>1. IsFiniteSet({x}) /\ Cardinality({x}) = 1 /\ all = {x} \cup {r}
            BY <4>1, FS_Singleton
          <5>2. x # r => Cardinality({x} \cup {r}) = 2
            BY <5>1, FS_AddElement
          <5> QED BY <1>4, <5>1, <5>2
        <4> QED BY <4>1, <4>2
      <3> QED BY <3>1, <3>2
    <2>3. ASSUME NEW who, NEW k, Pending(who, k), ~(r.to = who /\ r.kind = k)
          PROVE  Pending(who, k)'
      <3>1. PICK taken, none : taken = {r} /\ none = {} /\ Exchange(ms, taken, none)
        BY <2>1
      <3>2. /\ none \subseteq Clients /\ who \notin none
            /\ \A x \in taken : ~(x.to = who /\ x.kind = k)
        BY <2>3, <3>1
      <3>3. /\ IsSeq(ms) /\ \A m \in ToSet(ms) : Asked(m) /\ m.from \in Clients
        BY <2>1
      <3>4. Exchange(ms, taken, none)
        BY <3>1
      <3> QED BY <2>3, <3>2, <3>3, <3>4, StillPending
    <2>4. \A k \in {"session", "symbols"} : Pending("boot", k)' \/ \E s \in all : s.kind = k
      BY <1>1, <2>3 DEF Waiting, Loading
    <2>5. \A k : Pending("select", k) => Pending("select", k)'
      BY <1>1, <2>3
    <2>6. /\ IsSeq(mailbox)' /\ (\A m \in ToSet(mailbox) : Asked(m))' /\ (alive \in BOOLEAN)'
          /\ (watcher = "waiting" => \E m \in ToSet(mailbox) : m.from = "watcher")'
      BY <1>2, <1>4, FewRequests, WatcherStays
    <2> QED
      BY <1>1, <1>4, <2>2, <2>4, <2>5, <2>6 DEF Waiting, Loading
  <1> QED BY <1>2, <1>3, <1>4

LEMMA SelectionWaits ==
  ASSUME Waiting, NEW r \in replies, Selection(r), UNCHANGED <<watcher, alive>>
  PROVE  Waiting'
  <1>1. r.to = "select" /\ UNCHANGED <<boot, loaded>>
    BY DEF Selection
  <1>2. CASE select' = "idle"
    <2>1. Exchange(<<>>, {r}, {})
      BY <1>2 DEF Selection
    <2> QED BY <1>1, <1>2, <2>1, FewRequests, OthersWait
  <1>3. CASE select' # "idle"
    <2>1. PICK kind \in {"product", "run"} :
            \E arg : Exchange(<<Ask("select", kind, arg)>>, {r}, {})
      BY <1>3 DEF Selection
    <2>2. PICK arg : Exchange(<<Ask("select", kind, arg)>>, {r}, {})
      BY <2>1
    <2> DEFINE m == Ask("select", kind, arg)
    <2>3. Asked(m) /\ m.from = "select"
      BY AskIs DEF Clients, Effects, Updates
    <2>4. Exchange(<<m>>, {r}, {})
      BY <2>2
    <2> HIDE DEF m
    <2>5. /\ IsSeq(<<m>>) /\ m \in ToSet(<<m>>)
          /\ \A x \in ToSet(<<m>>) : Asked(x) /\ x.from \in Clients
      BY <2>3, FewRequests DEF Clients, Effects
    <2>6. Pending("select", m.kind)'
      BY <2>3, <2>4, <2>5, ExchangeKeeps
    <2> QED BY <1>1, <2>4, <2>5, <2>6, OthersWait
  <1> QED BY <1>2, <1>3

LEMMA ReceiveWaits ==
  ASSUME Waiting, Receive
  PROVE  Waiting'
  <1>1. PICK r \in replies : BootRevision(r) \/ BootLoaded(r) \/ Handshake(r) \/ Selection(r)
                             \/ Continuation(r)
    BY DEF Receive
  <1>2. UNCHANGED <<watcher, alive>>
    BY DEF Receive
  <1>3. CASE Handshake(r)
    <2>1. r.to = "events" /\ Exchange(<<>>, {r}, {}) /\ UNCHANGED <<boot, loaded, select>>
      BY <1>3 DEF Handshake
    <2> QED BY <1>2, <2>1, FewRequests, OthersWait
  <1>4. CASE Continuation(r)
    <2>1. r.to = "more" /\ Exchange(<<>>, {r}, {}) /\ UNCHANGED <<boot, loaded, select>>
      BY <1>4 DEF Continuation
    <2> QED BY <1>2, <2>1, FewRequests, OthersWait
  <1> QED
    BY <1>1, <1>2, <1>3, <1>4, BootRevisionWaits, BootLoadedWaits, SelectionWaits

(* A commit asks again for the effects it forgets, or leaves them idle. *)
LEMMA CommitWaits ==
  ASSUME Waiting, dirty \subseteq Effects, Commit
  PROVE  Waiting'
  <1> DEFINE selecting == intent = "symbol" /\ page.index # None /\ page.revision # None
             first == IF "boot" \in dirty THEN <<Ask("boot", "revision", None)>> ELSE <<>>
             second == IF "select" \in dirty /\ selecting
                       THEN <<Ask("select", "symbol", None)>> ELSE <<>>
             ms == first \o second
             forgotten == IF "boot" \in dirty THEN dirty \cup {"more"} ELSE dirty
  <1>1. /\ Exchange(ms, {}, forgotten)
        /\ boot' = (IF "boot" \in dirty THEN "revision" ELSE boot)
        /\ loaded' = (IF "boot" \in dirty THEN {} ELSE loaded)
        /\ select' = (IF "select" \notin dirty THEN select
                      ELSE IF selecting THEN "symbol" ELSE "idle")
        /\ UNCHANGED <<alive, watcher>>
    BY DEF Commit
  <1>2. /\ IsSeq(first) /\ IsSeq(second)
        /\ ToSet(first) = IF "boot" \in dirty THEN {Ask("boot", "revision", None)} ELSE {}
        /\ ToSet(second) = IF "select" \in dirty /\ selecting
                           THEN {Ask("select", "symbol", None)} ELSE {}
    BY FewRequests
  <1>3. /\ Asked(Ask("boot", "revision", None)) /\ Ask("boot", "revision", None).from = "boot"
        /\ Asked(Ask("select", "symbol", None)) /\ Ask("select", "symbol", None).from = "select"
    BY AskIs DEF Clients, Effects, Updates
  <1> HIDE DEF first, second, selecting
  <1>4. IsSeq(ms) /\ ToSet(ms) = ToSet(first) \cup ToSet(second)
    BY <1>2, ConcatIsSeq
  <1>5. \A m \in ToSet(ms) : Asked(m) /\ m.from \in Clients
    BY <1>2, <1>3, <1>4 DEF Clients, Effects
  <1>6. forgotten \subseteq Clients
    BY DEF Clients
  <1> HIDE DEF ms
  <1>7. \A m \in ToSet(ms) : Pending(m.from, m.kind)'
    BY <1>1, <1>5, <1>4, <1>6, ExchangeKeeps
  <1>8. \A who, k : who \notin forgotten /\ Pending(who, k) => Pending(who, k)'
    BY <1>1, <1>4, <1>5, <1>6, StillPending
  <1>9. /\ IsSeq(mailbox)' /\ (\A m \in ToSet(mailbox) : Asked(m))' /\ (alive \in BOOLEAN)'
        /\ (watcher = "waiting" => \E m \in ToSet(mailbox) : m.from = "watcher")'
    BY <1>1, <1>4, <1>5, <1>6, WatcherStays
  <1>10. /\ boot' \in {"idle", "revision", "loading"}
         /\ boot' = "revision" => \E k : Pending("boot", k)'
         /\ boot' = "loading" => Loading'
    <2>1. CASE "boot" \in dirty
      <3>1. \E k : Pending("boot", k)'
        BY <1>2, <1>3, <1>4, <1>7, <2>1
      <3> QED BY <1>1, <2>1, <3>1
    <2>2. CASE "boot" \notin dirty
      <3>1. \A k : Pending("boot", k) => Pending("boot", k)'
        BY <1>8, <2>2
      <3>2. boot' = boot /\ loaded' = loaded
        BY <1>1, <2>2
      <3> QED BY <3>1, <3>2 DEF Waiting, Loading
    <2> QED BY <2>1, <2>2
  <1>11. select' # "idle" => \E k : Pending("select", k)'
    <2>1. CASE "select" \in dirty /\ selecting
      BY <1>2, <1>3, <1>4, <1>7, <2>1
    <2>2. CASE "select" \in dirty /\ ~selecting
      BY <1>1, <2>2
    <2>3. CASE "select" \notin dirty
      BY <1>1, <1>8, <2>3 DEF Waiting
    <2> QED BY <2>1, <2>2, <2>3
  <1> QED
    BY <1>9, <1>10, <1>11 DEF Waiting

(* The steps that take no answer. *)
LEMMA QuietWaits ==
  ASSUME Waiting, Continue \/ Connect \/ Deliver \/ Cut
  PROVE  Waiting'
  <1>1. UNCHANGED <<alive, watcher, boot, loaded, select>>
    BY DEF Continue, Connect, Deliver, Cut, client
  <1>2. CASE UNCHANGED <<mailbox, replies>>
    BY <1>1, <1>2 DEF Waiting, Loading, Pending
  <1>3. CASE Continue \/ Connect
    <2>1. PICK from, kind, arg : /\ from \in Clients /\ kind \notin Updates
                                 /\ Exchange(<<Ask(from, kind, arg)>>, {}, {})
      BY <1>3 DEF Continue, Connect, Clients, Effects, Updates
    <2> DEFINE m == Ask(from, kind, arg)
    <2>2. Asked(m) /\ m.from \in Clients
      BY <2>1, AskIs
    <2>3. Exchange(<<m>>, {}, {})
      BY <2>1
    <2> HIDE DEF m
    <2>4. PICK ms, none : /\ Exchange(ms, none, none) /\ none = {}
                          /\ IsSeq(ms) /\ \A x \in ToSet(ms) : Asked(x) /\ x.from \in Clients
      BY <2>2, <2>3, FewRequests
    <2>5. \A who, k : Pending(who, k) => Pending(who, k)'
      BY <2>4, StillPending
    <2>6. /\ IsSeq(mailbox)' /\ (\A x \in ToSet(mailbox) : Asked(x))' /\ (alive \in BOOLEAN)'
          /\ (watcher = "waiting" => \E x \in ToSet(mailbox) : x.from = "watcher")'
      BY <1>1, <2>4, WatcherStays
    <2> QED BY <1>1, <2>5, <2>6 DEF Waiting, Loading
  <1> QED
    BY <1>2, <1>3 DEF Deliver, Cut

LEMMA WaitingStep ==
  ASSUME Waiting, PageTypes, [Next]_vars
  PROVE  Waiting'
  <1>1. CASE OfService
    BY <1>1, ServeWaits, PanicWaits, SendWaits DEF OfService
  <1>2. CASE Receive
    BY <1>2, ReceiveWaits
  <1>3. CASE Commit
    BY <1>3, CommitWaits DEF PageTypes
  <1>4. CASE Continue \/ Connect \/ Deliver \/ Cut
    BY <1>4, QuietWaits
  <1>5. CASE UNCHANGED vars
    BY <1>5 DEF vars, service, client, Waiting, Loading, Pending
  <1> QED
    BY <1>1, <1>2, <1>3, <1>4, <1>5 DEF Next

LEMMA WaitingSays ==
  ASSUME Waiting
  PROVE  NobodyForgotten
  <1>1. ASSUME NEW who, NEW k, Pending(who, k)
        PROVE  who \in {m.from : m \in ToSet(mailbox)} \cup {r.to : r \in replies}
    BY <1>1 DEF Pending
  <1>2. boot = "loading" => \E k : Pending("boot", k)
    <2>1. ASSUME NEW s \in loaded, NEW u \in loaded, s.kind = "session", u.kind = "symbols", Loading
          PROVE  FALSE
      BY <2>1 DEF Loading
    <2> QED BY <2>1 DEF Waiting, Loading
  <1> QED
    BY <1>1, <1>2 DEF Waiting, NobodyForgotten

(* Nobody waits for ever: whoever waits for an answer has a request or an answer   *)
(* under way, also after the actor died with a full mailbox (send, serve_actor):    *)
(* Spec => [] NobodyForgotten.                                                      *)
THEOREM WhoeverWaitsIsHeard == Spec => []NobodyForgotten
  <1>1. Init => Inv /\ Waiting
    <2>1. ASSUME Init PROVE Waiting
      BY <2>1, FewRequests DEF Init, ServiceInit, Waiting
    <2> QED BY <2>1, InvStart
  <1>2. Inv /\ Waiting /\ [Next]_vars => (Inv /\ Waiting)'
    BY InvStep, WaitingStep DEF Inv
  <1>3. Waiting => NobodyForgotten
    BY WaitingSays
  <1> QED
    BY <1>1, <1>2, <1>3, PTL DEF Spec

-----------------------------------------------------------------------------
(* What the page displays.                                                     *)

PageFields == {"revision", "session", "index", "selected", "product", "run", "more"}
Parts == {page.index, page.selected, page.product, page.run, page.more}

\* A page with a session asks for runs and continuations of what it displays.
AsksForShown(m) ==
  /\ m.from = "select" =>
       m.kind \in {"symbol", "product", "run"} /\ (m.kind = "run" => RunAt(m.arg, expected))
  /\ m.from = "more" => m.kind = "continuation" /\ m.arg = expected

\* An answer that the page would install is true of the revision it displays.
IsTrue(H, r) ==
  r.error = "" =>
    /\ r.id \in Past
    /\ r.kind = "symbols" => r.texts = H[r.id]
    /\ page.session /\ r.id = expected =>
         /\ r.to \in {"select", "more"} => r.texts = H[r.id]
         /\ r.to = "select" => RunAt(r.run, r.id)

Underway(H) ==
  /\ page.session => \A m \in ToSet(mailbox) : AsksForShown(m)
  /\ \A r \in replies : IsTrue(H, r)

\* Nothing is under way for the effects that need a session.
Sessional == {"select", "more", "events"}
Silent ==
  /\ \A m \in ToSet(mailbox) : m.from \notin Sessional
  /\ \A r \in replies : r.to \notin Sessional

\* The page has a session, is about to start again, or boots with nothing else under way.
Quiet ==
  /\ page.selected = None /\ page.product = None /\ page.run = None /\ page.more = None
  /\ select = "idle" /\ stream = "off" /\ Silent

Displayed(H) ==
  /\ DOMAIN page = PageFields /\ page.session \in BOOLEAN
  /\ expected = page.revision
  /\ page.session <=> page.index # None
  /\ "boot" \in dirty => dirty = Effects /\ boot = "idle" /\ ~page.session
  /\ page.session =>
       /\ boot = "idle" /\ expected \in Past
       /\ \A t \in Parts \ {None} : t.id = expected /\ t.texts = H[expected]
  /\ ~page.session /\ "boot" \notin dirty => Quiet
  /\ boot = "loading" =>
       /\ expected \in Past
       /\ \A s \in loaded : /\ s.id = expected
                            /\ s.kind = "symbols" => s.texts = H[expected]

Displays(H) == Underway(H) /\ Displayed(H)

LEMMA TagIs ==
  ASSUME NEW r, NEW v
  PROVE  Tag(r, v) # None /\ Tag(r, v).id = r.id /\ Tag(r, v).texts = v
  <1>1. DOMAIN Tag(r, v) = {"id", "texts"} /\ DOMAIN None = {}
    BY DEF Tag, None
  <1> QED
    BY <1>1 DEF Tag

(* Steps of the service leave the page alone, and answer what is true. *)
LEMMA ServiceDisplays ==
  ASSUME NEW H, NEW G, Displays(H), Onward(H, G), UNCHANGED <<client, stream>>,
         \A m \in ToSet(mailbox') : m \in ToSet(mailbox) \/ m.from \in {"gone", "watcher"},
         \A r \in replies' : \/ r \in replies
                             \/ /\ \E m \in ToSet(mailbox) : r.to = m.from
                                /\ IsTrue(G, r)'
  PROVE  Displays(G)'
  <1>1. UNCHANGED <<expected, page, boot, loaded, select, dirty, stream>>
    BY DEF client
  <1>2. /\ \A id \in Past : G[id] = H[id] /\ id \in Past'
        /\ \A run, id : RunAt(run, id) => RunAt(run, id)'
    BY DEF Onward
  <1>3. ASSUME NEW m \in ToSet(mailbox'), page.session PROVE AsksForShown(m)'
    BY <1>1, <1>2, <1>3 DEF Displays, Underway, AsksForShown
  <1>4. ASSUME NEW r \in replies PROVE IsTrue(G, r)'
    BY <1>1, <1>2 DEF Displays, Underway, IsTrue
  <1>5. Silent => Silent'
    BY DEF Silent, Sessional
  <1>6. Underway(G)'
    BY <1>1, <1>3, <1>4 DEF Underway
  <1>7. Displayed(G)'
    <2>1. page.session =>
            /\ boot' = "idle" /\ expected' \in Past'
            /\ \A t \in Parts' \ {None} : t.id = expected' /\ t.texts = G[expected']
      BY <1>1, <1>2 DEF Displays, Displayed, Parts
    <2>2. ~page.session /\ "boot" \notin dirty => Quiet'
      BY <1>1, <1>5 DEF Displays, Displayed, Quiet
    <2>3. boot = "loading" =>
            /\ expected' \in Past'
            /\ \A s \in loaded' : /\ s.id = expected'
                                  /\ s.kind = "symbols" => s.texts = G[expected']
      BY <1>1, <1>2 DEF Displays, Displayed
    <2> QED BY <1>1, <2>1, <2>2, <2>3 DEF Displays, Displayed
  <1> QED
    BY <1>6, <1>7 DEF Displays

\* RunAt, after the step.
RunAfter(run, id) ==
  /\ run \in 0 .. nextRun'
  /\ \A i \in DOMAIN retained' : run \in retained'[i].runs => retained'[i].id = id

\* What is asked for is of the current revision.
OfNow(m) ==
  \/ m.kind \in {"symbols", "symbol", "product"}
  \/ m.kind = "run" /\ RunAt(m.arg, RevisionId)
  \/ m.kind = "continuation" /\ m.arg = RevisionId

Honest(m, x) ==
  /\ x.to = m.from /\ x.kind = m.kind
  /\ x.error = "" => /\ x.id = RevisionId /\ RunAfter(x.run, RevisionId)
                     /\ OfNow(m) => x.texts = texts

(* What is answered to a request is true of the revision the answer carries, if   *)
(* what was asked for is of that revision.                                        *)
LEMMA AnswerTrue ==
  ASSUME NEW H, ServiceInv(H), UNCHANGED alive,
         NEW m, Symbols(m) \/ Symbol(m) \/ Product(m) \/ Read(m)
  PROVE  \E x : replies' = replies \cup Heard({x}) /\ Honest(m, x)
  <1>1. \A id, error, value :
          LET x == Reply(m, id, error, value) IN
          /\ x.to = m.from /\ x.kind = m.kind /\ x.id = id /\ x.error = error
          /\ x.texts = value /\ x.run = 0
    BY DEF Reply
  <1>2. RunAfter(0, RevisionId)
    <2>1. ServiceInv(H)'
      <3>1. CASE Read(m)
        BY <3>1, Untouched DEF Read, ServiceInv, ServiceTypes
      <3> QED BY <3>1, AnsweredNow
    <2>2. nextRun' \in Nat /\ \A i \in DOMAIN retained' : 0 \notin retained'[i].runs
      BY <2>1 DEF ServiceInv, ServiceTypes, Retained
    <2> QED BY <2>2 DEF RunAfter
  <1>3. ASSUME NEW error, NEW value, error # "" \/ (OfNow(m) => value = texts)
        PROVE  Honest(m, Reply(m, RevisionId, error, value))
    <2>1. PICK x : x = Reply(m, RevisionId, error, value)
      OBVIOUS
    <2>2. /\ x.to = m.from /\ x.kind = m.kind /\ x.id = RevisionId /\ x.error = error
          /\ x.texts = value /\ x.run = 0
      BY <1>1, <2>1
    <2>3. Honest(m, x)
      BY <1>2, <1>3, <2>2 DEF Honest
    <2> QED BY <2>1, <2>3
  <1>4. CASE Symbols(m)
    <2>1. replies' = replies \cup Heard({Reply(m, RevisionId, "", texts)})
      BY <1>4 DEF Symbols
    <2> QED BY <1>3, <2>1
  <1>5. CASE Symbol(m)
    <2>1. \/ replies' = replies \cup Heard({Reply(m, RevisionId, "", texts)})
          \/ replies' = replies \cup Heard({Reply(m, RevisionId, "symbol-not-found", None)})
      BY <1>5 DEF Symbol
    <2> QED BY <1>3, <2>1
  <1>6. CASE Product(m)
    <2> DEFINE x == [Reply(m, RevisionId, "", texts) EXCEPT !.run = nextRun']
    <2>1. \/ replies' = replies \cup Heard({x}) /\ Record
          \/ replies' = replies \cup Heard({Reply(m, RevisionId, "product-not-found", None)})
      BY <1>6 DEF Product
    <2>2. /\ x.to = m.from /\ x.kind = m.kind /\ x.id = RevisionId /\ x.texts = texts
          /\ x.run = nextRun'
      BY DEF Reply
    <2>3. Record => RunAfter(nextRun', RevisionId)
      <3>1. ASSUME Record PROVE RunAt(nextRun, RevisionId)' /\ RevisionId' = RevisionId
        BY <1>6, <3>1, RecordKeeps DEF Product, ServiceInv, ServiceTypes, RevisionId
      <3> QED BY <3>1 DEF RunAfter, RunAt
    <2> HIDE DEF x
    <2>4. Record => Honest(m, x)
      BY <2>2, <2>3 DEF Honest
    <2> QED BY <1>3, <2>1, <2>4
  <1>7. CASE Read(m)
    <2>1. replies' = replies \cup Heard({IF Found(m) THEN Reply(m, RevisionId, "", Stored(m))
                                         ELSE Reply(m, RevisionId, NotFound(m), None)})
          /\ m.kind \in {"revision", "session", "run", "continuation"}
      BY <1>7 DEF Read
    <2>2. NotFound(m) # ""
      BY DEF NotFound
    <2>3. ASSUME Found(m), OfNow(m) PROVE Stored(m) = texts
      <3>1. CASE m.kind = "run"
        <4> DEFINE e == CHOOSE e \in ToSet(retained) : m.arg \in e.runs
        <4>1. m.arg \in runs /\ RunAt(m.arg, RevisionId) /\ Stored(m) = e.inputs
          BY <2>3, <3>1 DEF Found, OfNow, Stored
        <4>2. PICK i \in DOMAIN retained : m.arg \in retained[i].runs
          BY <4>1 DEF ServiceInv, Retained
        <4>3. e \in ToSet(retained) /\ m.arg \in e.runs
          BY <4>2 DEF ToSet
        <4> HIDE DEF e
        <4>4. PICK j \in DOMAIN retained : e = retained[j]
          BY <4>3 DEF ToSet
        <4> QED BY <4>1, <4>3, <4>4 DEF ServiceInv, Retained, RunAt
      <3>2. CASE m.kind = "continuation"
        <4>1. /\ m.arg \in DOMAIN continuations /\ m.arg = RevisionId
              /\ Stored(m) = continuations[m.arg]
          BY <2>3, <3>2 DEF Found, OfNow, Stored
        <4> QED BY <4>1 DEF ServiceInv, Kept
      <3> QED BY <2>1, <2>3, <3>1, <3>2 DEF OfNow
    <2>4. Found(m) => Honest(m, Reply(m, RevisionId, "", Stored(m)))
      BY <1>3, <2>3
    <2>5. Honest(m, Reply(m, RevisionId, NotFound(m), None))
      BY <1>3, <2>2
    <2> QED BY <2>1, <2>4, <2>5
  <1> QED BY <1>4, <1>5, <1>6, <1>7

LEMMA ServeDisplays ==
  ASSUME NEW H, ServiceInv(H), Waiting, Displays(H), Serve, UNCHANGED client
  PROVE  \E G : ServiceInv(G)' /\ Displays(G)'
  <1> DEFINE m == Head(mailbox)
  <1>1. /\ mailbox # <<>> /\ mailbox' = Tail(mailbox) /\ IsSeq(mailbox)
        /\ UNCHANGED <<alive, stream>>
    BY DEF Serve, Waiting
  <1>2. \/ Symbols(m) \/ Symbol(m) \/ Product(m) \/ Read(m)
        \/ UNCHANGED replies
    BY DEF Serve
  <1> HIDE DEF m
  <1>3. ToSet(mailbox) = ToSet(mailbox') \cup {m}
    BY <1>1, TailIsSeq DEF m
  <1>4. CASE UNCHANGED replies
    <2>1. PICK G : ServiceInv(G)' /\ Onward(H, G)
      BY ServiceStep
    <2> QED BY <1>1, <1>3, <1>4, <2>1, ServiceDisplays
  <1>5. CASE Symbols(m) \/ Symbol(m) \/ Product(m) \/ Read(m)
    <2>1. ServiceInv(H)' /\ Onward(H, H) /\ UNCHANGED <<generation, salsa>>
      <3>1. CASE Read(m)
        BY <1>1, <3>1, Untouched DEF Read, ServiceInv, ServiceTypes, provider
      <3>2. CASE Symbols(m) \/ Symbol(m) \/ Product(m)
        BY <1>1, <3>2, AnsweredNow DEF Symbols, Symbol, Product
      <3> QED BY <1>5, <3>1, <3>2
    <2>2. PICK x : replies' = replies \cup Heard({x}) /\ Honest(m, x)
      BY <1>1, <1>5, AnswerTrue
    <2>3. x \in replies' /\ x \notin replies => IsTrue(H, x)'
      <3>1. UNCHANGED <<page, expected>>
        BY DEF client
      <3>2. RevisionId' = RevisionId /\ RevisionId \in Past /\ H[RevisionId] = texts
        BY <2>1 DEF RevisionId, ServiceInv, ServiceTypes, Past, Ids
      <3>3. ASSUME x.error = "" PROVE x.id = RevisionId /\ RunAt(x.run, x.id)'
        BY <2>2, <3>2, <3>3 DEF Honest, RunAfter, RunAt
      <3>4. ASSUME page.session, x.error = "", RevisionId = expected, x.to \in {"select", "more"}
            PROVE  OfNow(m)
        BY <1>3, <2>2, <3>4 DEF Displays, Underway, AsksForShown, Honest, OfNow
      <3>5. x.kind = "symbols" => OfNow(m)
        BY <2>2 DEF OfNow, Honest
      <3>6. x.error = "" /\ OfNow(m) => x.texts = H[RevisionId]
        BY <2>2, <3>2 DEF Honest
      <3>7. RevisionId \in Past'
        BY <2>1, <3>2 DEF Onward
      <3> QED BY <3>1, <3>3, <3>4, <3>5, <3>6, <3>7 DEF IsTrue
    <2>4. \A r \in replies' : \/ r \in replies
                              \/ (\E n \in ToSet(mailbox) : r.to = n.from) /\ IsTrue(H, r)'
      BY <1>3, <2>2, <2>3 DEF Heard, Honest
    <2> QED BY <1>1, <1>3, <2>1, <2>4, ServiceDisplays
  <1> QED BY <1>2, <1>4, <1>5

LEMMA OthersDisplay ==
  ASSUME NEW H, ServiceInv(H), Waiting, Displays(H), Panic \/ Edit \/ DirectProduct,
         UNCHANGED client
  PROVE  \E G : ServiceInv(G)' /\ Displays(G)'
  <1>1. PICK G : ServiceInv(G)' /\ Onward(H, G)
    BY ServiceStep
  <1>2. CASE Panic
    <2>1. mailbox' = <<>> /\ UNCHANGED stream
          /\ replies' = replies \cup Heard({Unavailable(m) : m \in ToSet(mailbox)})
      BY <1>2 DEF Panic
    <2>2. \A m : Unavailable(m).to = m.from /\ IsTrue(G, Unavailable(m))'
      BY DEF Unavailable, Reply, IsTrue
    <2>3. ToSet(mailbox') = {}
      BY <2>1, FewRequests
    <2>4. \A r \in replies' : \/ r \in replies
                              \/ (\E n \in ToSet(mailbox) : r.to = n.from) /\ IsTrue(G, r)'
      BY <2>1, <2>2 DEF Heard
    <2> QED BY <1>1, <2>1, <2>3, <2>4, ServiceDisplays
  <1>3. CASE Edit \/ DirectProduct
    <2>1. PICK m : m.from \in {"watcher", "gone"} /\ Send(m)
      <3>1. CASE Edit
        <4>1. \A k, a : [from |-> "watcher", kind |-> k, arg |-> a].from = "watcher"
          OBVIOUS
        <4>2. \E k, a : Send([from |-> "watcher", kind |-> k, arg |-> a])
          BY <3>1 DEF Edit
        <4> QED BY <4>1, <4>2
      <3>2. CASE DirectProduct
        <4>1. [from |-> "gone", kind |-> "product", arg |-> None].from = "gone"
          OBVIOUS
        <4> QED BY <3>2, <4>1 DEF DirectProduct
      <3> QED BY <1>3, <3>1, <3>2
    <2>2. UNCHANGED stream
      BY <1>3 DEF Edit, DirectProduct
    <2>3. /\ IsSeq(mailbox) /\ IsSeq(<<m>>) /\ ToSet(<<m>>) = {m}
      BY FewRequests DEF Waiting
    <2>4. \A n \in ToSet(mailbox') : n \in ToSet(mailbox) \/ n = m
      BY <2>1, <2>3, ConcatIsSeq DEF Send, Posted
    <2>5. replies' = replies
      <3>1. Refused(<<m>>) = {}
        BY <2>1, <2>3, UnavailableIs DEF Refused, Heard
      <3> QED BY <2>1, <3>1 DEF Send
    <2> QED BY <1>1, <2>1, <2>2, <2>4, <2>5, ServiceDisplays
  <1> QED BY <1>2, <1>3

(* Exchanges of the page keep what is under way true. *)
LEMMA UnderwayStays ==
  ASSUME NEW H, Waiting, Underway(H), Onward(H, H),
         NEW ms, IsSeq(ms), \A m \in ToSet(ms) : Asked(m) /\ m.from \in Clients,
         NEW taken, NEW forgotten, forgotten \subseteq Clients,
         Exchange(ms, taken, forgotten),
         page'.session => (page.session /\ expected' = expected) \/ Silent,
         \A m \in ToSet(ms) : page'.session => AsksForShown(m)'
  PROVE  Underway(H)'
  <1>1. /\ \A m \in ToSet(mailbox') : m \in ToSet(mailbox) \/ m.from = "gone" \/ m \in ToSet(ms)
        /\ \A r \in replies' : r \in replies \/ r.error # ""
    BY ExchangeMakes
  <1>2. /\ \A id \in Past : id \in Past'
        /\ \A run, id : RunAt(run, id) => RunAt(run, id)'
    BY DEF Onward
  <1>3. ASSUME NEW m \in ToSet(mailbox), page'.session PROVE AsksForShown(m)'
    <2>1. CASE page.session /\ expected' = expected
      BY <1>2, <2>1 DEF Underway, AsksForShown
    <2>2. CASE Silent
      BY <2>2 DEF Silent, Sessional, AsksForShown
    <2> QED BY <1>3, <2>1, <2>2
  <1>4. ASSUME NEW r \in replies PROVE IsTrue(H, r)'
    <2>1. IsTrue(H, r)
      BY DEF Underway
    <2>2. CASE page.session /\ expected' = expected
      BY <1>2, <2>1, <2>2 DEF IsTrue
    <2>3. CASE Silent \/ ~ page'.session
      BY <1>2, <2>1, <2>3 DEF Silent, Sessional, IsTrue
    <2> QED BY <2>2, <2>3
  <1>5. \A m : m.from = "gone" => AsksForShown(m)'
    BY DEF AsksForShown
  <1>6. \A r : r.error # "" => IsTrue(H, r)'
    BY DEF IsTrue
  <1> QED
    BY <1>1, <1>3, <1>4, <1>5, <1>6 DEF Underway

(* Only the bootstrap speaks, and what was under way for others is forgotten. *)
LEMMA SilentStays ==
  ASSUME Waiting, NEW ms, IsSeq(ms),
         \A m \in ToSet(ms) : Asked(m) /\ m.from \in Clients /\ m.from \notin Sessional,
         NEW taken, NEW forgotten, forgotten \subseteq Clients,
         Exchange(ms, taken, forgotten),
         Silent \/ Sessional \subseteq forgotten
  PROVE  Silent'
  <1>1. "gone" \notin Sessional
    BY DEF Sessional
  <1> QED
    BY <1>1, ExchangeMakes DEF Silent

LEMMA ResetDisplays ==
  ASSUME NEW H, NEW id, Reset(id), boot' = "idle"
  PROVE  Displayed(H)' /\ ~ page'.session
  <1>1. /\ DOMAIN page' = PageFields /\ page'.revision = id /\ page'.session = FALSE
        /\ page'.index = None
    BY DEF Reset, Blank, PageFields
  <1> QED
    BY <1>1 DEF Reset, Displayed, Effects

(* The parts of the page, when one of them is installed. *)
LEMMA Installed ==
  ASSUME DOMAIN page = PageFields, NEW field \in PageFields, NEW value,
         page' = [page EXCEPT ![field] = value]
  PROVE  /\ DOMAIN page' = PageFields /\ page'[field] = value
         /\ \A other \in PageFields \ {field} : page'[other] = page[other]
  OBVIOUS

\* The exchange of a step that gets on with r: what it sends, and what it forgets.
Trade(ms, r, forgotten) ==
  /\ IsSeq(ms) /\ \A m \in ToSet(ms) : Asked(m) /\ m.from \in Clients
  /\ forgotten \subseteq Clients /\ Exchange(ms, r, forgotten)

LEMMA NoTrade ==
  ASSUME NEW r, NEW forgotten \in SUBSET Clients, Exchange(<<>>, r, forgotten)
  PROVE  Trade(<<>>, r, forgotten) /\ ToSet(<<>>) = {}
  BY FewRequests DEF Trade

LEMMA OneTrade ==
  ASSUME NEW from \in Clients, NEW kind, kind \notin Updates, NEW arg,
         NEW r, NEW forgotten \in SUBSET Clients,
         Exchange(<<Ask(from, kind, arg)>>, r, forgotten)
  PROVE  /\ Trade(<<Ask(from, kind, arg)>>, r, forgotten)
         /\ ToSet(<<Ask(from, kind, arg)>>) = {Ask(from, kind, arg)}
  BY FewRequests, AskIs DEF Trade

(* A step that resets the page, or that leaves it without a session. *)
LEMMA BlankDisplays ==
  ASSUME NEW H, Waiting, Displays(H), Onward(H, H), NEW ms, NEW r, NEW forgotten,
         Trade(ms, r, forgotten), ~ page'.session, Displayed(H)'
  PROVE  Displays(H)'
  BY UnderwayStays DEF Trade, Displays

(* A session, a request for one, or an answer to it: the page does not boot. *)
LEMMA NotQuiet ==
  ASSUME NEW H, Displayed(H), ~ Quiet
  PROVE  boot = "idle" /\ (page.session \/ "boot" \in dirty)
  BY DEF Displayed

LEMMA BootRevisionDisplays ==
  ASSUME NEW H, Waiting, Displays(H), Onward(H, H), UNCHANGED stream,
         NEW r \in replies, BootRevision(r)
  PROVE  Displays(H)'
  <1>1. ~ page.session /\ "boot" \notin dirty /\ Quiet /\ boot = "revision"
    BY DEF Displays, Displayed, BootRevision
  <1>2. CASE r.error = ""
    <2>1. /\ expected' = r.id /\ page' = [page EXCEPT !.revision = r.id]
          /\ dirty' \in {dirty, dirty \cup {"events", "select"}}
          /\ boot' = "loading" /\ loaded' = {} /\ UNCHANGED select
      BY <1>2 DEF BootRevision
    <2> DEFINE session == Ask("boot", "session", None)
               symbols == Ask("boot", "symbols", None)
    <2>2. /\ Asked(session) /\ session.from = "boot" /\ Asked(symbols) /\ symbols.from = "boot"
      BY AskIs DEF Clients, Effects, Updates
    <2>3. \/ Exchange(<<session, symbols>>, {r}, {})
          \/ Exchange(<<symbols, session>>, {r}, {})
      BY <1>2 DEF BootRevision
    <2> HIDE DEF session, symbols
    <2>4. PICK ms : IsSeq(ms) /\ ToSet(ms) = {session, symbols} /\ Exchange(ms, {r}, {})
      BY <2>3, FewRequests
    <2>5. Trade(ms, {r}, {}) /\ \A m \in ToSet(ms) : m.from \notin Sessional
      BY <2>2, <2>4 DEF Trade, Clients, Effects, Sessional
    <2>6. Silent'
      BY <1>1, <2>5, SilentStays DEF Quiet, Trade
    <2>7. /\ DOMAIN page' = PageFields /\ page'.revision = r.id
          /\ \A other \in PageFields \ {"revision"} : page'[other] = page[other]
      BY <2>1, Installed DEF Displays, Displayed, PageFields
    <2>8. /\ page'.session = page.session /\ page'.index = page.index
          /\ page'.selected = page.selected /\ page'.product = page.product
          /\ page'.run = page.run /\ page'.more = page.more
      BY <2>7 DEF PageFields
    <2>9. r.id \in Past'
      BY <1>2 DEF Displays, Underway, IsTrue, Onward
    <2>10. Displayed(H)'
      BY <1>1, <2>1, <2>6, <2>7, <2>8, <2>9 DEF Displays, Displayed, Quiet
    <2> QED BY <1>1, <2>5, <2>8, <2>10, BlankDisplays
  <1>3. CASE r.error # ""
    <2>1. boot' = "idle" /\ Exchange(<<>>, {r}, {}) /\ UNCHANGED <<expected, page, dirty, select>>
      BY <1>3 DEF BootRevision
    <2>2. Trade(<<>>, {r}, {}) /\ ToSet(<<>>) = {}
      BY <2>1, NoTrade
    <2>3. Silent'
      BY <1>1, <2>2, SilentStays DEF Quiet, Trade
    <2>4. Displayed(H)'
      BY <1>1, <2>1, <2>3 DEF Displays, Displayed, Quiet
    <2> QED BY <1>1, <2>1, <2>2, <2>4, BlankDisplays
  <1> QED BY <1>2, <1>3

LEMMA BootLoadedDisplays ==
  ASSUME NEW H, Waiting, Displays(H), Onward(H, H), UNCHANGED stream,
         NEW r \in replies, BootLoaded(r)
  PROVE  Displays(H)'
  <1> DEFINE all == loaded \cup {r}
  <1>1. /\ ~ page.session /\ "boot" \notin dirty /\ Quiet /\ boot = "loading"
        /\ expected \in Past /\ expected # None /\ UNCHANGED select
    BY PastIsId DEF Displays, Displayed, BootLoaded
  <1>2. PICK forgotten \in {{}, {"boot"}} : Exchange(<<>>, {r}, forgotten)
    BY DEF BootLoaded
  <1>3. Trade(<<>>, {r}, forgotten) /\ ToSet(<<>>) = {}
    BY <1>2, NoTrade DEF Clients, Effects
  <1>4. Silent'
    BY <1>1, <1>3, SilentStays DEF Quiet, Trade
  <1>5. CASE Changed(r)
    <2>1. Reset(r.id) /\ boot' = "idle"
      BY <1>5 DEF BootLoaded
    <2> QED BY <1>3, <2>1, ResetDisplays, BlankDisplays
  <1>6. CASE ~ Changed(r) /\ r.error # ""
    <2>1. boot' = "idle" /\ UNCHANGED <<expected, page, dirty>>
      BY <1>6 DEF BootLoaded
    <2>2. Displayed(H)'
      BY <1>1, <1>4, <2>1 DEF Displays, Displayed, Quiet
    <2> QED BY <1>1, <1>3, <2>1, <2>2, BlankDisplays
  <1>7. CASE ~ Changed(r) /\ r.error = ""
    <2>1. r.id = expected /\ (r.kind = "symbols" => r.texts = H[expected])
      BY <1>1, <1>7 DEF Changed, Displays, Underway, IsTrue
    <2>2. \A s \in all : s.id = expected /\ (s.kind = "symbols" => s.texts = H[expected])
      BY <1>1, <2>1 DEF Displays, Displayed
    <2>3. UNCHANGED expected /\ expected \in Past'
      BY <1>1, <1>7 DEF BootLoaded, Onward
    <2>4. CASE boot' = "loading"
      <3>1. loaded' = all /\ UNCHANGED <<page, dirty>>
        BY <1>7, <2>4 DEF BootLoaded
      <3>2. Displayed(H)'
        BY <1>1, <1>4, <2>2, <2>3, <2>4, <3>1 DEF Displays, Displayed, Quiet
      <3> QED BY <1>1, <1>3, <3>1, <3>2, BlankDisplays
    <2>5. CASE boot' # "loading"
      <3>1. /\ boot' = "idle" /\ dirty' = dirty \cup {"events", "select"}
            /\ \E s \in all : s.kind = "symbols" /\
                 page' = [page EXCEPT !.session = TRUE, !.index = Tag(s, s.texts)]
        BY <1>1, <1>7, <2>5 DEF BootLoaded
      <3>2. PICK s \in all : s.kind = "symbols" /\
                 page' = [page EXCEPT !.session = TRUE, !.index = Tag(s, s.texts)]
        BY <3>1
      <3>3. PICK index : index = Tag(s, s.texts)
        OBVIOUS
      <3>4. index # None /\ index.id = expected /\ index.texts = H[expected]
        BY <2>2, <3>2, <3>3, TagIs
      <3>5. page' = [page EXCEPT !.session = TRUE, !.index = index]
        BY <3>2, <3>3
      <3>6. /\ DOMAIN page' = PageFields /\ page'.session = TRUE /\ page'.index = index
            /\ page'.revision = page.revision
            /\ page'.selected = None /\ page'.product = None
            /\ page'.run = None /\ page'.more = None
        BY <1>1, <3>5 DEF Displays, Displayed, PageFields, Quiet
      <3>7. Displayed(H)'
        BY <1>1, <2>3, <3>1, <3>4, <3>6 DEF Displays, Displayed, Parts
      <3>8. Underway(H)'
        BY <1>1, <1>3, UnderwayStays DEF Trade, Quiet, Displays
      <3> QED BY <3>7, <3>8 DEF Displays
    <2> QED BY <2>4, <2>5
  <1> QED BY <1>5, <1>6, <1>7

LEMMA HandshakeDisplays ==
  ASSUME NEW H, Waiting, Displays(H), Onward(H, H), UNCHANGED stream,
         NEW r \in replies, Handshake(r)
  PROVE  Displays(H)'
  <1>1. r.to = "events" /\ Exchange(<<>>, {r}, {}) /\ UNCHANGED <<boot, loaded, select>>
    BY DEF Handshake
  <1>2. Trade(<<>>, {r}, {}) /\ ToSet(<<>>) = {}
    BY <1>1, NoTrade
  <1>3. ~ Quiet
    BY <1>1 DEF Quiet, Silent, Sessional
  <1>4. boot = "idle" /\ (page.session \/ "boot" \in dirty)
    BY <1>3, NotQuiet DEF Displays
  <1>5. CASE Reset(r.id)
    BY <1>1, <1>2, <1>4, <1>5, ResetDisplays, BlankDisplays
  <1>6. CASE UNCHANGED <<expected, page, dirty>>
    <2>1. Displayed(H)'
      BY <1>1, <1>4, <1>6 DEF Displays, Displayed, Parts, Onward
    <2>2. Underway(H)'
      <3>1. page'.session => page.session /\ expected' = expected
        BY <1>6
      <3> QED BY <1>2, <3>1, UnderwayStays DEF Trade, Displays
    <2> QED BY <2>1, <2>2 DEF Displays
  <1> QED BY <1>5, <1>6 DEF Handshake

(* A part is installed that is of the revision on display. *)
LEMMA PartDisplays ==
  ASSUME NEW H, Displays(H), Onward(H, H), boot = "idle", UNCHANGED <<expected, boot, loaded>>,
         page.session \/ "boot" \in dirty,
         dirty' = dirty \/ dirty' = dirty \cup {"select"},
         DOMAIN page' = PageFields, page'.revision = page.revision,
         page'.session = page.session, page'.index = page.index,
         page.session => \A t \in Parts' \ {None} :
                           t \in Parts \/ (t.id = expected /\ t.texts = H[expected])
  PROVE  Displayed(H)'
  <1>1. page.session => \A t \in Parts' \ {None} : t.id = expected /\ t.texts = H[expected]
    BY DEF Displays, Displayed
  <1>2. page.session => expected \in Past'
    BY DEF Displays, Displayed, Onward
  <1>3. "boot" \in dirty' => dirty' = Effects /\ ~ page.session /\ "boot" \in dirty
    BY DEF Displays, Displayed, Effects
  <1>4. "boot" \in dirty => "boot" \in dirty'
    OBVIOUS
  <1> QED
    BY <1>1, <1>2, <1>3, <1>4 DEF Displays, Displayed

LEMMA SelectionDisplays ==
  ASSUME NEW H, Waiting, Displays(H), Onward(H, H), UNCHANGED stream,
         NEW r \in replies, Selection(r)
  PROVE  Displays(H)'
  <1>1. r.to = "select" /\ UNCHANGED <<boot, loaded>> /\ select # "idle"
    BY DEF Selection
  <1>2. boot = "idle" /\ (page.session \/ "boot" \in dirty)
    BY <1>1, NotQuiet DEF Quiet, Displays
  <1>3. CASE Changed(r)
    <2>1. Reset(r.id) /\ Exchange(<<>>, {r}, {})
      BY <1>3 DEF Selection
    <2> QED BY <1>1, <1>2, <2>1, NoTrade, ResetDisplays, BlankDisplays
  <1>4. CASE ~ Changed(r) /\ r.error # ""
    <2>1. /\ Exchange(<<>>, {r}, {}) /\ UNCHANGED <<expected, page>>
          /\ dirty' = dirty \/ dirty' = dirty \cup {"select"}
      BY <1>4 DEF Selection
    <2>2. Displayed(H)'
      BY <1>1, <1>2, <2>1, PartDisplays DEF Displays, Displayed, Parts
    <2>3. Underway(H)'
      <3>1. page'.session => page.session /\ expected' = expected
        BY <2>1
      <3>2. Trade(<<>>, {r}, {}) /\ ToSet(<<>>) = {}
        BY <2>1, NoTrade
      <3> QED BY <3>1, <3>2, UnderwayStays DEF Trade, Displays
    <2> QED BY <2>2, <2>3 DEF Displays
  <1>5. CASE ~ Changed(r) /\ r.error = ""
    <2>1. page.session => /\ r.id = expected /\ r.texts = H[expected]
                          /\ RunAt(r.run, expected)
      <3>1. ASSUME page.session PROVE r.id = expected
        BY <1>5, <3>1, PastIsId DEF Changed, Displays, Displayed
      <3> QED BY <1>1, <1>5, <3>1 DEF Displays, Underway, IsTrue
    <2>2. PICK part : part = Tag(r, r.texts)
      OBVIOUS
    <2>3. page.session => part.id = expected /\ part.texts = H[expected]
      BY <2>1, <2>2, TagIs
    <2>4. \/ page' = [page EXCEPT !.selected = part, !.run = None]
          \/ page' = [page EXCEPT !.product = part]
          \/ page' = [page EXCEPT !.run = part]
      BY <1>5, <2>2 DEF Selection
    <2>5. DOMAIN page = PageFields
      BY DEF Displays, Displayed
    <2>6. /\ DOMAIN page' = PageFields /\ page'.revision = page.revision
          /\ page'.session = page.session /\ page'.index = page.index
          /\ page'.selected \in {page.selected, part} /\ page'.product \in {page.product, part}
          /\ page'.run \in {page.run, part, None} /\ page'.more = page.more
      BY <2>4, <2>5 DEF PageFields
    <2>7. UNCHANGED <<expected, dirty>>
      BY <1>5 DEF Selection
    <2>8. Displayed(H)'
      <3>1. page.session => \A t \in Parts' \ {None} :
                              t \in Parts \/ (t.id = expected /\ t.texts = H[expected])
        BY <2>3, <2>6 DEF Parts
      <3> QED BY <1>1, <1>2, <2>6, <2>7, <3>1, PartDisplays
    <2>9. PICK ms : Trade(ms, {r}, {}) /\ \A m \in ToSet(ms) : page.session => AsksForShown(m)'
      <3>1. CASE Exchange(<<>>, {r}, {})
        BY <3>1, NoTrade
      <3>2. CASE \E kind \in {"product", "run"} : \E arg :
                   /\ kind = "run" => arg = r.run
                   /\ Exchange(<<Ask("select", kind, arg)>>, {r}, {})
        <4>1. PICK kind, arg :
                /\ kind \in {"product", "run"} /\ (kind = "run" => arg = r.run)
                /\ Exchange(<<Ask("select", kind, arg)>>, {r}, {})
          BY <3>2
        <4>2. PICK m : m = Ask("select", kind, arg)
          OBVIOUS
        <4>3. m.from = "select" /\ m.kind = kind /\ m.arg = arg
          BY <4>2 DEF Ask
        <4>4. ASSUME page.session PROVE AsksForShown(m)'
          <5>1. kind = "run" => RunAt(m.arg, expected)'
            BY <2>1, <2>7, <4>1, <4>3, <4>4 DEF Onward
          <5> QED BY <4>1, <4>3, <5>1 DEF AsksForShown
        <4>5. Trade(<<m>>, {r}, {}) /\ ToSet(<<m>>) = {m}
          BY <4>1, <4>2, OneTrade DEF Clients, Effects, Updates
        <4> QED BY <4>4, <4>5
      <3>3. \/ Exchange(<<>>, {r}, {})
            \/ \E kind \in {"product", "run"} : \E arg :
                 /\ kind = "run" => arg = r.run
                 /\ Exchange(<<Ask("select", kind, arg)>>, {r}, {})
        BY <1>5 DEF Selection
      <3> QED BY <3>1, <3>2, <3>3
    <2>10. Underway(H)'
      <3>1. page'.session => page.session /\ expected' = expected
        BY <2>6, <2>7
      <3> QED BY <2>9, <3>1, UnderwayStays DEF Trade, Displays
    <2> QED BY <2>8, <2>10 DEF Displays
  <1> QED BY <1>3, <1>4, <1>5

LEMMA ContinuationDisplays ==
  ASSUME NEW H, Waiting, Displays(H), Onward(H, H), UNCHANGED stream,
         NEW r \in replies, Continuation(r)
  PROVE  Displays(H)'
  <1>1. /\ r.to = "more" /\ UNCHANGED <<boot, loaded, select, expected, dirty>>
        /\ Exchange(<<>>, {r}, {})
    BY DEF Continuation
  <1>2. ~ Quiet
    BY <1>1 DEF Quiet, Silent, Sessional
  <1>3. boot = "idle" /\ (page.session \/ "boot" \in dirty)
    BY <1>2, NotQuiet DEF Displays
  <1>4. PICK part : part = Tag(r, r.texts)
    OBVIOUS
  <1>5. \/ page' = page
        \/ ~ Changed(r) /\ r.error = "" /\ page' = [page EXCEPT !.more = part]
    BY <1>4 DEF Continuation
  <1>6. page.session /\ page' # page => part.id = expected /\ part.texts = H[expected]
    <2>1. ASSUME page.session, page' # page PROVE r.id = expected
      BY <1>5, <2>1, PastIsId DEF Changed, Displays, Displayed
    <2>2. part.id = r.id /\ part.texts = r.texts
      BY <1>4, TagIs
    <2>3. IsTrue(H, r) /\ r.to \in {"select", "more"}
      BY <1>1 DEF Displays, Underway
    <2>4. page' # page => r.error = ""
      BY <1>5
    <2> QED BY <2>1, <2>2, <2>3, <2>4 DEF IsTrue
  <1>7. /\ DOMAIN page' = PageFields /\ page'.revision = page.revision
        /\ page'.session = page.session /\ page'.index = page.index
        /\ page'.selected = page.selected /\ page'.product = page.product
        /\ page'.run = page.run
        /\ page'.more = page.more \/ (page' # page /\ page'.more = part)
    <2>1. DOMAIN page = PageFields
      BY DEF Displays, Displayed
    <2> QED BY <1>5, <2>1 DEF PageFields
  <1>8. Displayed(H)'
    <2>1. page.session => \A t \in Parts' \ {None} :
                            t \in Parts \/ (t.id = expected /\ t.texts = H[expected])
      BY <1>6, <1>7 DEF Parts
    <2> QED BY <1>1, <1>3, <1>7, <2>1, PartDisplays
  <1>9. Underway(H)'
    <2>1. page'.session => page.session /\ expected' = expected
      BY <1>1, <1>7
    <2>2. Trade(<<>>, {r}, {}) /\ ToSet(<<>>) = {}
      BY <1>1, NoTrade
    <2> QED BY <2>1, <2>2, UnderwayStays DEF Trade, Displays
  <1> QED BY <1>8, <1>9 DEF Displays

(* A commit that starts the bootstrap again forgets everything else. *)
LEMMA CommitDisplays ==
  ASSUME NEW H, Waiting, Displays(H), Onward(H, H), dirty \subseteq Effects, Commit
  PROVE  Displays(H)'
  <1> DEFINE selecting == intent = "symbol" /\ page.index # None /\ page.revision # None
             first == IF "boot" \in dirty THEN <<Ask("boot", "revision", None)>> ELSE <<>>
             second == IF "select" \in dirty /\ selecting
                       THEN <<Ask("select", "symbol", None)>> ELSE <<>>
             ms == first \o second
             forgotten == IF "boot" \in dirty THEN dirty \cup {"more"} ELSE dirty
             cleared == [page EXCEPT !.selected = None, !.product = None, !.run = None, !.more = None]
  <1>1. /\ Exchange(ms, {}, forgotten)
        /\ boot' = (IF "boot" \in dirty THEN "revision" ELSE boot)
        /\ loaded' = (IF "boot" \in dirty THEN {} ELSE loaded)
        /\ stream' = (IF "events" \notin dirty THEN stream
                      ELSE IF page.session THEN "connecting" ELSE "off")
        /\ select' = (IF "select" \notin dirty THEN select
                      ELSE IF selecting THEN "symbol" ELSE "idle")
        /\ page' = (IF "select" \in dirty /\ ~ selecting THEN cleared ELSE page)
        /\ dirty' = {} /\ UNCHANGED expected
    BY DEF Commit
  <1>2. /\ IsSeq(first) /\ IsSeq(second)
        /\ ToSet(first) = IF "boot" \in dirty THEN {Ask("boot", "revision", None)} ELSE {}
        /\ ToSet(second) = IF "select" \in dirty /\ selecting
                           THEN {Ask("select", "symbol", None)} ELSE {}
    BY FewRequests
  <1>3. /\ Asked(Ask("boot", "revision", None)) /\ Ask("boot", "revision", None).from = "boot"
        /\ Asked(Ask("select", "symbol", None)) /\ Ask("select", "symbol", None).from = "select"
        /\ Ask("select", "symbol", None).kind = "symbol"
    BY AskIs DEF Clients, Effects, Updates
  <1>4. /\ DOMAIN page = PageFields /\ (page.session <=> page.index # None)
        /\ page.session \in BOOLEAN /\ expected = page.revision
        /\ "boot" \in dirty => dirty = Effects /\ ~ page.session
    BY DEF Displays, Displayed
  <1>5. ~ page.session => ~ selecting
    BY <1>4
  <1>6. /\ DOMAIN cleared = PageFields /\ cleared.revision = page.revision
        /\ cleared.session = page.session /\ cleared.index = page.index
        /\ cleared.selected = None /\ cleared.product = None
        /\ cleared.run = None /\ cleared.more = None
    BY <1>4 DEF PageFields
  <1> HIDE DEF first, second, selecting, cleared
  <1>7. IsSeq(ms) /\ ToSet(ms) = ToSet(first) \cup ToSet(second)
    BY <1>2, ConcatIsSeq
  <1>8. Trade(ms, {}, forgotten)
    <2>1. \A m \in ToSet(ms) : Asked(m) /\ m.from \in Clients
      BY <1>2, <1>3, <1>7 DEF Clients, Effects
    <2>2. forgotten \subseteq Clients
      BY DEF Clients
    <2> QED BY <1>1, <1>7, <2>1, <2>2 DEF Trade
  <1> HIDE DEF ms
  <1>9. CASE ~ page.session
    <2>1. \A m \in ToSet(ms) : m.from \notin Sessional
      BY <1>2, <1>3, <1>5, <1>7, <1>9 DEF Sessional
    <2>2. Silent'
      <3>1. CASE "boot" \in dirty
        <4>1. Sessional \subseteq forgotten
          BY <1>4, <3>1 DEF Sessional, Effects
        <4> HIDE DEF forgotten
        <4> QED BY <1>8, <2>1, <4>1, SilentStays DEF Trade
      <3>2. CASE "boot" \notin dirty
        <4>1. Silent
          BY <1>9, <3>2 DEF Displays, Displayed, Quiet
        <4> HIDE DEF forgotten
        <4> QED BY <1>8, <2>1, <4>1, SilentStays DEF Trade
      <3> QED BY <3>1, <3>2
    <2>3. /\ page'.session = FALSE /\ page'.index = None /\ page'.revision = page.revision
          /\ DOMAIN page' = PageFields
      BY <1>1, <1>4, <1>6, <1>9
    <2>4. /\ page'.selected = None /\ page'.product = None /\ page'.run = None
          /\ page'.more = None /\ select' = "idle" /\ stream' = "off"
      <3>1. CASE "boot" \in dirty
        BY <1>1, <1>4, <1>5, <1>6, <1>9, <3>1 DEF Effects
      <3>2. CASE "boot" \notin dirty
        <4>1. /\ page.selected = None /\ page.product = None /\ page.run = None
              /\ page.more = None /\ select = "idle" /\ stream = "off"
          BY <1>9, <3>2 DEF Displays, Displayed, Quiet
        <4> QED BY <1>1, <1>5, <1>6, <1>9, <4>1
      <3> QED BY <3>1, <3>2
    <2>5. boot' = "loading" => boot = "loading" /\ loaded' = loaded
      BY <1>1
    <2>6. boot' = "loading" =>
            /\ expected' \in Past'
            /\ \A s \in loaded' : /\ s.id = expected'
                                  /\ s.kind = "symbols" => s.texts = H[expected']
      BY <1>1, <2>5 DEF Displays, Displayed, Onward
    <2>7. Displayed(H)'
      BY <1>1, <1>4, <2>2, <2>3, <2>4, <2>6 DEF Displayed, Quiet
    <2> HIDE DEF forgotten
    <2> QED BY <1>8, <2>3, <2>7, BlankDisplays
  <1>10. CASE page.session
    <2>1. "boot" \notin dirty /\ boot' = "idle" /\ boot = "idle"
      BY <1>1, <1>4, <1>10 DEF Displays, Displayed
    <2>2. /\ DOMAIN page' = PageFields /\ page'.revision = page.revision
          /\ page'.session = page.session /\ page'.index = page.index
          /\ page'.selected \in {page.selected, None} /\ page'.product \in {page.product, None}
          /\ page'.run \in {page.run, None} /\ page'.more \in {page.more, None}
      BY <1>1, <1>4, <1>6
    <2>3. Displayed(H)'
      <3>1. \A t \in Parts' \ {None} : t.id = expected /\ t.texts = H[expected]
        BY <1>10, <2>2 DEF Displays, Displayed, Parts
      <3>2. expected \in Past'
        BY <1>10 DEF Displays, Displayed, Onward
      <3> QED BY <1>1, <1>4, <1>10, <2>1, <2>2, <3>1, <3>2 DEF Displayed
    <2>4. \A m \in ToSet(ms) : AsksForShown(m)'
      BY <1>2, <1>3, <1>7, <2>1 DEF AsksForShown
    <2>5. Underway(H)'
      <3>1. page'.session => page.session /\ expected' = expected
        BY <1>1, <2>2
      <3> HIDE DEF forgotten
      <3> QED BY <1>8, <2>4, <3>1, UnderwayStays DEF Trade, Displays
    <2> QED BY <2>3, <2>5 DEF Displays
  <1> QED BY <1>4, <1>9, <1>10

LEMMA QuietDisplays ==
  ASSUME NEW H, Waiting, Displays(H), Onward(H, H), Continue \/ Connect \/ Deliver \/ Cut
  PROVE  Displays(H)'
  <1>1. UNCHANGED <<boot, loaded, select>>
    BY DEF Continue, Connect, Deliver, Cut, client
  <1>2. ~ Quiet
    BY DEF Continue, Connect, Deliver, Cut, Quiet
  <1>3. boot = "idle" /\ (page.session \/ "boot" \in dirty)
    BY <1>2, NotQuiet DEF Displays
  <1>4. UNCHANGED <<expected, page, dirty>> => Displayed(H)'
    BY <1>1, <1>3 DEF Displays, Displayed, Parts, Onward
  <1>5. CASE Continue \/ Connect
    <2>1. UNCHANGED <<expected, page, dirty>>
      BY <1>5 DEF Continue, Connect, client
    <2>2. PICK m, none : /\ Trade(<<m>>, none, none) /\ ToSet(<<m>>) = {m}
                         /\ page.session => AsksForShown(m)'
      <3>1. CASE Continue
        <4>1. PICK m : m = Ask("more", "continuation", page.product.id)
          OBVIOUS
        <4>2. m.from = "more" /\ m.kind = "continuation" /\ m.arg = page.product.id
          BY <4>1 DEF Ask
        <4>3. Trade(<<m>>, {}, {}) /\ ToSet(<<m>>) = {m}
          BY <3>1, <4>1, OneTrade DEF Continue, Clients, Effects, Updates
        <4>4. page.session => page.product.id = expected
          BY <3>1 DEF Continue, Displays, Displayed, Parts
        <4>5. page.session => AsksForShown(m)'
          BY <2>1, <4>2, <4>4 DEF AsksForShown
        <4> QED BY <4>3, <4>5
      <3>2. CASE Connect
        <4>1. PICK m : m = Ask("events", "revision", None)
          OBVIOUS
        <4>2. m.from = "events"
          BY <4>1 DEF Ask
        <4>3. Trade(<<m>>, {}, {}) /\ ToSet(<<m>>) = {m}
          BY <3>2, <4>1, OneTrade DEF Connect, Clients, Effects, Updates
        <4>4. AsksForShown(m)'
          BY <4>2 DEF AsksForShown
        <4> QED BY <4>3, <4>4
      <3> QED BY <1>5, <3>1, <3>2
    <2>3. Underway(H)'
      <3>1. page'.session => page.session /\ expected' = expected
        BY <2>1
      <3> QED BY <2>1, <2>2, <3>1, UnderwayStays DEF Trade, Displays
    <2> QED BY <1>4, <2>1, <2>3 DEF Displays
  <1>6. CASE UNCHANGED <<mailbox, replies>>
    <2>1. ASSUME page'.session => page.session /\ expected' = expected PROVE Underway(H)'
      BY <1>6, <2>1 DEF Displays, Underway, AsksForShown, IsTrue, Onward
    <2>2. CASE UNCHANGED <<expected, page, dirty>>
      BY <1>4, <2>1, <2>2 DEF Displays
    <2>3. CASE Reset(Head(events))
      BY <1>1, <1>3, <2>1, <2>3, ResetDisplays DEF Displays
    <2> QED BY <2>2, <2>3 DEF Continue, Connect, Deliver, Cut, client
  <1> QED BY <1>5, <1>6 DEF Deliver, Cut

\* All three invariants together.
Whole == PageTypes /\ Waiting /\ \E H : ServiceInv(H) /\ Displays(H)

LEMMA WholeStep ==
  ASSUME Whole, [Next]_vars
  PROVE  Whole'
  <1>1. PageTypes' /\ Waiting'
    <2>1. CASE Next
      BY <2>1, TypesStep, WaitingStep DEF Whole
    <2>2. CASE UNCHANGED vars
      BY <2>2, WaitingStep DEF Whole, PageTypes, vars, client, service
    <2> QED BY <2>1, <2>2
  <1>2. PICK H : ServiceInv(H) /\ Displays(H)
    BY DEF Whole
  <1>3. Waiting /\ dirty \subseteq Effects
    BY DEF Whole, PageTypes
  <1>4. CASE OfService
    BY <1>2, <1>3, <1>4, ServeDisplays, OthersDisplay, <1>1 DEF OfService, Whole
  <1>5. CASE OfPage
    <2>1. ServiceInv(H)' /\ Onward(H, H)
      BY <1>2, <1>5, PageStep
    <2>2. CASE Receive
      <3>1. UNCHANGED stream
        BY <2>2 DEF Receive
      <3>2. PICK r \in replies : BootRevision(r) \/ BootLoaded(r) \/ Handshake(r)
                                 \/ Selection(r) \/ Continuation(r)
        BY <2>2 DEF Receive
      <3>3. Displays(H)'
        BY <1>2, <1>3, <2>1, <3>1, <3>2, BootRevisionDisplays, BootLoadedDisplays,
           HandshakeDisplays, SelectionDisplays, ContinuationDisplays
      <3> QED BY <1>1, <2>1, <3>3 DEF Whole
    <2>3. CASE Commit
      BY <1>1, <1>2, <1>3, <2>1, <2>3, CommitDisplays DEF Whole
    <2>4. CASE Continue \/ Connect \/ Deliver \/ Cut
      BY <1>1, <1>2, <1>3, <2>1, <2>4, QuietDisplays DEF Whole
    <2> QED BY <1>5, <2>2, <2>3, <2>4 DEF OfPage
  <1>6. CASE UNCHANGED vars
    <2>1. UNCHANGED <<provider, alive, events, stream, mailbox, replies, client>>
      BY <1>6 DEF vars, service
    <2>2. ServiceInv(H)' /\ Onward(H, H)
      BY <1>2, <2>1, Untouched DEF ServiceInv, ServiceTypes
    <2>3. Displays(H)'
      BY <1>2, <2>1, <2>2, ServiceDisplays
    <2> QED BY <1>1, <2>2, <2>3 DEF Whole
  <1> QED BY <1>4, <1>5, <1>6 DEF Next, OfService, OfPage

LEMMA WholeStart ==
  ASSUME Init
  PROVE  Whole
  <1>1. Inv /\ Waiting
    BY InvStart, FewRequests DEF Init, ServiceInit, Waiting
  <1>2. PICK H : ServiceInv(H)
    BY <1>1 DEF Inv
  <1>3. /\ mailbox = <<>> /\ replies = {} /\ expected = None /\ page = Blank(None)
        /\ boot = "idle" /\ dirty = Effects
    BY DEF Init, ServiceInit
  <1>4. /\ DOMAIN page = PageFields /\ page.revision = None /\ page.session = FALSE
        /\ page.index = None
    BY <1>3 DEF Blank, PageFields
  <1>5. Displays(H)
    BY <1>3, <1>4, FewRequests DEF Displays, Displayed, Underway, Effects
  <1> QED BY <1>1, <1>2, <1>5 DEF Inv, Whole

LEMMA WholeSays ==
  ASSUME Whole
  PROVE  DisplayCoherent /\ DisplayTrue
  <1>1. PICK H : ServiceInv(H) /\ Displays(H)
    BY DEF Whole
  <1>2. \A t \in Shown : t.id = page.revision /\ t.texts = H[page.revision]
    BY <1>1 DEF Displays, Displayed, Shown, Parts
  <1>3. H[RevisionId] = texts
    BY <1>1 DEF ServiceInv
  <1> QED BY <1>2, <1>3 DEF DisplayCoherent, DisplayTrue

(* All that the page shows is of the revision it displays and was computed from    *)
(* the same texts ("never installs a response whose ID differs", api.ts and         *)
(* InspectorApp.tsx): Spec => [] DisplayCoherent.                                   *)
THEOREM ShownTogether == Spec => []DisplayCoherent
  <1>1. Init => Whole
    BY WholeStart
  <1>2. Whole /\ [Next]_vars => Whole'
    BY WholeStep
  <1>3. Whole => DisplayCoherent
    BY WholeSays
  <1> QED
    BY <1>1, <1>2, <1>3, PTL DEF Spec

(* What a page shows of the current revision is true of the host's files           *)
(* (revision_id, push_revision): Spec => [] DisplayTrue.                            *)
THEOREM ShownIsTrue == Spec => []DisplayTrue
  <1>1. Init => Whole
    BY WholeStart
  <1>2. Whole /\ [Next]_vars => Whole'
    BY WholeStep
  <1>3. Whole => DisplayTrue
    BY WholeSays
  <1> QED
    BY <1>1, <1>2, <1>3, PTL DEF Spec

=============================================================================
