----------------------------- MODULE Whiteboard -----------------------------
(***************************************************************************)
(* The scheduler of the trait solver (sage-ir, check/solve/prove.rs): one  *)
(* whiteboard of proof frames per query, driven by a single-threaded loop. *)
(*                                                                         *)
(* The logic program is data chosen at the start: each query has a list of *)
(* candidates, each candidate a body of queries it must prove in order.    *)
(* Queries are ground, so a candidate answers "Yes", "No" or "Maybe" and   *)
(* the inference state of prove_conjunction never changes.  A producer is  *)
(* the future of solve_trait_frame: a ScopedTasks with one task for each   *)
(* candidate.  Frame 0 stands for the root future, which `drive` polls     *)
(* itself; the other frames are numbered as the frames vector numbers them.*)
(***************************************************************************)
EXTENDS Integers, Sequences, FiniteSets, SequencesExt

CONSTANTS
  Query,         \* canonical atomic queries
  Programs,      \* the logic programs to run: records [candidates, incomplete]
  RootGoals,     \* the goals of the root conjunction, as a sequence of queries
  MaxProofDepth  \* MAX_PROOF_DEPTH

ASSUME ProgramAssumption ==
  /\ \A p \in Programs :
       /\ p.candidates \in [Query -> Seq(Seq(Query))]
       /\ p.incomplete \in SUBSET Query
  /\ RootGoals \in Seq(Query)
  /\ MaxProofDepth \in Nat

VARIABLES
  program,    \* the chosen program
  frames,     \* ProofFrame: query, parent, depth, state, result, subscriptions
  entries,    \* the frames the lookup table still holds
  producers,  \* each frame's producer: its tasks, their queue and their answers
  parked,     \* the frames whose producer sits in the producers vector
  ready,      \* the queue of frames whose producer is to be polled
  rootReady,  \* RootWake
  phase,      \* the part of the drive loop: "root", "frames" or "done"
  polling,    \* the producer being polled, 0 for the root future
  running     \* the task of it being polled

vars == <<program, frames, entries, producers, parked, ready, rootReady, phase, polling, running>>

Root == 0
Nobody == 0                \* no task is running
Idle == -1                 \* no future is being polled
Result == {"Yes", "No", "Maybe"}
Frame == 1 .. Len(frames)

Bodies(f) == IF f = Root THEN <<RootGoals>> ELSE program.candidates[frames[f].query]
NewTask == [at |-> 1, waits |-> {}, uncertain |-> FALSE, done |-> FALSE]

(* ScopedTasks with every task spawned: all queued, none answered. *)
NewProducer(n) ==
  [tasks |-> [c \in 1 .. n |-> NewTask], queue |-> [c \in 1 .. n |-> c], answers |-> {}]

(* ReadyQueue: a queue without duplicates. *)
Enqueue(queue, x) == IF Contains(queue, x) THEN queue ELSE Append(queue, x)

(* A queue without the elements of a set. *)
Filtered(queue, gone) ==
  LET kept[i \in 0 .. Len(queue)] ==
        IF i = 0 THEN <<>>
        ELSE IF queue[i] \in gone THEN kept[i - 1] ELSE Append(kept[i - 1], queue[i])
  IN  kept[Len(queue)]

(* Elements of which no two are equal are queued in turn. *)
EnqueueAll(queue, order) == queue \o Filtered(order, ToSet(queue))

Task(f, c) == producers[f].tasks[c]
Live(f) == {c \in DOMAIN producers[f].tasks : ~ Task(f, c).done}

Init ==
  /\ program \in Programs
  /\ frames = <<>>
  /\ entries = {}
  /\ producers = [f \in {Root} |-> NewProducer(1)]
  /\ parked = {}
  /\ ready = <<>>
  /\ rootReady = TRUE
  /\ phase = "root"
  /\ polling = Idle
  /\ running = Nobody

-----------------------------------------------------------------------------
(* merge_candidate_results on ground answers. *)
MergeIgnoringSources(answers, incomplete) ==
  IF "Yes" \in answers THEN "Yes"
  ELSE IF "Maybe" \in answers THEN "Maybe" ELSE "No"
Merge(answers, incomplete) ==
  IF "Yes" \in answers THEN "Yes"
  ELSE IF "Maybe" \in answers \/ incomplete THEN "Maybe" ELSE "No"

-----------------------------------------------------------------------------
(* Dropping the tasks of a producer.  A frame whose last subscriber goes   *)
(* is abandoned, and its own producer with all its tasks is dropped in     *)
(* turn: in the end the frames to which only p and one another subscribed  *)
(* are gone (subscribers are older than the frames they subscribe to).     *)
Orphaned(p) ==
  UNION {gone \in SUBSET {f \in Frame : frames[f].state = "Pending"} :
           \A f \in gone : \A s \in frames[f].subs : s[1] = p \/ s[1] \in gone}

(* A mistake comes first: the lookup key is forgotten.                     *)
AbandonKeepingKey(p) ==
  LET gone == Orphaned(p)
  IN  /\ frames' = [f \in Frame |->
           IF f \in gone THEN [frames[f] EXCEPT !.state = "Abandoned", !.subs = {}]
           ELSE [frames[f] EXCEPT !.subs = {s \in @ : s[1] # p /\ s[1] \notin gone}]]
      /\ parked' = parked \ gone
      /\ ready' = Filtered(ready, gone)
      /\ UNCHANGED entries
Abandon(p) ==
  LET gone == Orphaned(p)
  IN  /\ frames' = [f \in Frame |->
           IF f \in gone THEN [frames[f] EXCEPT !.state = "Abandoned", !.subs = {}]
           ELSE [frames[f] EXCEPT !.subs = {s \in @ : s[1] # p /\ s[1] \notin gone}]]
      /\ entries' = entries \ gone
      /\ parked' = parked \ gone
      /\ ready' = Filtered(ready, gone)

-----------------------------------------------------------------------------
(* The drive loop: the root if it was woken, then producers until none is  *)
(* queued.  With nothing queued and the root not woken no action is        *)
(* enabled; drive panics there, "trait solver deadlock".                   *)

PollRoot ==
  /\ phase = "root" /\ polling = Idle
  /\ rootReady
  /\ rootReady' = FALSE
  /\ polling' = Root
  /\ running' = 1
  /\ UNCHANGED <<program, frames, entries, producers, parked, ready, phase>>

(* Take the next queued producer; a frame that is settled, or whose        *)
(* producer is gone, is passed over.                                       *)
PopFrame ==
  /\ phase = "frames" /\ polling = Idle
  /\ ready # <<>>
  /\ LET f == Head(ready)
     IN  IF frames[f].state = "Pending" /\ f \in parked
         THEN polling' = f /\ parked' = parked \ {f}
         ELSE UNCHANGED <<polling, parked>>
  /\ ready' = Tail(ready)
  /\ UNCHANGED <<program, frames, entries, producers, rootReady, phase, running>>

NextRound ==
  /\ phase = "frames" /\ polling = Idle
  /\ ready = <<>>
  /\ phase' = "root"
  /\ UNCHANGED <<program, frames, entries, producers, parked, ready, rootReady, polling, running>>

-----------------------------------------------------------------------------
(* ScopedTasks::poll_next inside the producer being polled. *)

PollTask ==
  /\ polling \in Frame /\ running = Nobody
  /\ producers[polling].queue # <<>>
  /\ LET c == Head(producers[polling].queue)
     IN  running' = IF c \in Live(polling) THEN c ELSE Nobody
  /\ producers' = [producers EXCEPT ![polling].queue = Tail(@)]
  /\ UNCHANGED <<program, frames, entries, parked, ready, rootReady, phase, polling>>

(* Every runnable task is blocked: the producer goes back to its slot. *)
ProducerPending ==
  /\ polling \in Frame /\ running = Nobody
  /\ producers[polling].queue = <<>>
  /\ Live(polling) # {}
  /\ parked' = parked \cup {polling}
  /\ polling' = Idle
  /\ UNCHANGED <<program, frames, entries, producers, ready, rootReady, phase, running>>

(* complete: settle the frame and wake its subscribers.  They are tasks of *)
(* the parent's producer, woken in the order a hash map drains them; the   *)
(* waker of a task queues the task and then its frame.  The mistake below  *)
(* queues the frame only.                                                  *)
WakeFrameOnly(f, order) ==
  IF frames[f].parent = Root
  THEN rootReady' = TRUE /\ UNCHANGED producers /\ ready' = Filtered(ready, {f})
  ELSE /\ ready' = Enqueue(Filtered(ready, {f}), frames[f].parent)
       /\ UNCHANGED <<producers, rootReady>>
WakeSubscribers(f, order) ==
  IF frames[f].parent = Root
  THEN /\ rootReady' = (rootReady \/ frames[f].subs # {})
       /\ ready' = Filtered(ready, {f})
       /\ UNCHANGED producers
  ELSE /\ producers' = [producers EXCEPT ![frames[f].parent].queue = EnqueueAll(@, order)]
       /\ ready' = IF order = <<>> THEN Filtered(ready, {f})
                   ELSE Enqueue(Filtered(ready, {f}), frames[f].parent)
       /\ UNCHANGED rootReady

(* The orders in which a set of subscriptions can be drained. *)
DrainOrders(subs) == SetToSeqs({s[2] : s \in subs})

CompleteFrame ==
  /\ polling \in Frame /\ running = Nobody
  /\ producers[polling].queue = <<>>
  /\ Live(polling) = {}
  /\ LET f == polling
     IN  /\ frames' = [frames EXCEPT
              ![f].state = "Ready",
              ![f].result = Merge(producers[f].answers, frames[f].query \in program.incomplete),
              ![f].subs = {}]
         /\ \E order \in DrainOrders(frames[f].subs) : WakeSubscribers(f, order)
  /\ polling' = Idle
  /\ UNCHANGED <<program, entries, parked, phase, running>>

-----------------------------------------------------------------------------
(* One task: a candidate proving its body goal by goal. *)

Body(c) == Bodies(polling)[c]
Depth == IF polling = Root THEN 0 ELSE frames[polling].depth
Goal(c) == Body(c)[Task(polling, c).at]

(* A frame of `fs` and the frames above it, up to the root. *)
Chain(fs, frame) ==
  LET up[f \in 0 .. Len(fs)] == IF f = Root THEN {} ELSE {f} \cup up[fs[f].parent]
  IN  up[frame]
Ancestors(frame) == Chain(frames, frame)
Cyclic(q) == \E f \in Ancestors(polling) : frames[f].query = q

(* The live entry for the running task's next goal, as a set of at most    *)
(* one frame.                                                              *)
EntryOfAnyParent(q) ==
  {f \in entries : frames[f].query = q /\ frames[f].depth = Depth + 1}
Entry(q) ==
  {f \in entries : /\ frames[f].query = q
                   /\ frames[f].parent = polling
                   /\ frames[f].depth = Depth + 1}

(* The task is over.  Outside the root, an unconditional "Yes" cancels     *)
(* every other candidate (cancel_all).                                     *)
Finish(c, answer) ==
  LET cancels == polling # Root /\ answer = "Yes"
      finished == [producers[polling] EXCEPT
        !.tasks = [d \in DOMAIN @ |->
          IF d = c \/ cancels THEN [@[d] EXCEPT !.done = TRUE, !.waits = {}] ELSE @[d]],
        !.queue = IF cancels THEN <<>> ELSE @,
        !.answers = @ \cup {answer}]
  IN  /\ producers' = [producers EXCEPT ![polling] = finished]
      /\ IF cancels THEN Abandon(polling) ELSE UNCHANGED <<frames, entries, parked, ready>>
      /\ running' = Nobody
      /\ IF polling = Root THEN phase' = "done" /\ polling' = Idle
         ELSE UNCHANGED <<phase, polling>>
      /\ UNCHANGED <<program, rootReady>>

(* A goal of the body is answered: go on to the next, or give up.  The     *)
(* mistake: forget that an uncertain goal was attempted at this revision.  *)
ContinueRetryingMaybe(c, result) ==
  IF result = "No" THEN Finish(c, "No")
  ELSE /\ producers' = [producers EXCEPT ![polling].tasks[c] =
            [Task(polling, c) EXCEPT !.at = IF result = "Maybe" THEN @ ELSE @ + 1,
                                     !.waits = {}, !.uncertain = @ \/ result = "Maybe"]]
       /\ UNCHANGED <<program, frames, entries, parked, ready, rootReady, phase, polling, running>>
Continue(c, result) ==
  IF result = "No" THEN Finish(c, "No")
  ELSE /\ producers' = [producers EXCEPT ![polling].tasks[c] =
            [Task(polling, c) EXCEPT !.at = @ + 1, !.waits = {},
                                     !.uncertain = @ \/ result = "Maybe"]]
       /\ UNCHANGED <<program, frames, entries, parked, ready, rootReady, phase, polling, running>>

(* The future returns Pending; polling the root future ends with it. *)
Suspend ==
  /\ running' = Nobody
  /\ IF polling = Root THEN polling' = Idle /\ phase' = "frames" ELSE UNCHANGED <<polling, phase>>

BodyDone ==
  /\ running # Nobody
  /\ Task(polling, running).at > Len(Body(running))
  /\ Finish(running, IF Task(polling, running).uncertain THEN "Maybe" ELSE "Yes")

AtGoal ==
  /\ running # Nobody
  /\ Task(polling, running).at <= Len(Body(running))
  /\ Task(polling, running).waits = {}

(* prove_atom at the depth bound. *)
TooDeep == AtGoal /\ Depth >= MaxProofDepth /\ Continue(running, "Maybe")

(* request: an ancestor with the same query refutes an inductive cycle. *)
RequestCycle ==
  /\ AtGoal /\ Depth < MaxProofDepth
  /\ Cyclic(Goal(running))
  /\ Continue(running, "No")

(* request: a settled entry answers at once. *)
RequestSettled ==
  /\ AtGoal /\ Depth < MaxProofDepth
  /\ ~ Cyclic(Goal(running))
  /\ \E f \in Entry(Goal(running)) :
       frames[f].state = "Ready" /\ Continue(running, frames[f].result)

(* request: share the pending frame. *)
RequestShared ==
  /\ AtGoal /\ Depth < MaxProofDepth
  /\ ~ Cyclic(Goal(running))
  /\ \E f \in Entry(Goal(running)) :
       /\ frames[f].state = "Pending"
       /\ frames' = [frames EXCEPT ![f].subs = @ \cup {<<polling, running>>}]
       /\ producers' = [producers EXCEPT ![polling].tasks[running].waits = {f}]
  /\ Suspend
  /\ UNCHANGED <<program, entries, parked, ready, rootReady>>

(* request: a new frame, its producer queued. *)
RequestNew ==
  /\ AtGoal /\ Depth < MaxProofDepth
  /\ ~ Cyclic(Goal(running))
  /\ Entry(Goal(running)) = {}
  /\ LET f == Len(frames) + 1
         q == Goal(running)
     IN  /\ frames' = Append(frames,
              [query |-> q, parent |-> polling, depth |-> Depth + 1,
               state |-> "Pending", result |-> "Maybe", subs |-> {<<polling, running>>}])
         /\ entries' = entries \cup {f}
         /\ producers' = [g \in 0 .. f |->
              IF g = f THEN NewProducer(Len(program.candidates[q]))
              ELSE IF g = polling THEN [producers[g] EXCEPT !.tasks[running].waits = {f}]
              ELSE producers[g]]
         /\ parked' = parked \cup {f}
         /\ ready' = Enqueue(ready, f)
  /\ Suspend
  /\ UNCHANGED <<program, rootReady>>

(* ProofFuture::poll after the request.  Only the completion of the frame  *)
(* wakes the task, so the branch that registers the waker again is dead.   *)
Answered ==
  /\ running # Nobody
  /\ \E f \in Task(polling, running).waits :
       frames[f].state = "Ready" /\ Continue(running, frames[f].result)

(* drive returned; the process goes on elsewhere. *)
Finished == phase = "done" /\ UNCHANGED vars

Next ==
  \/ PollRoot \/ PopFrame \/ NextRound
  \/ PollTask \/ ProducerPending \/ CompleteFrame
  \/ BodyDone \/ TooDeep \/ RequestCycle \/ RequestSettled
  \/ RequestShared \/ RequestNew \/ Answered
  \/ Finished

(* The loop is a plain while loop in one thread: it takes its next step.   *)
Spec == Init /\ [][Next]_vars /\ WF_vars(Next)

-----------------------------------------------------------------------------
(* What the scheduler promises. *)

(* A conjunction: one "No" refutes, one "Maybe" leaves it open. *)
Conjunction(results) ==
  IF "No" \in results THEN "No" ELSE IF "Maybe" \in results THEN "Maybe" ELSE "Yes"

(* The answer to a goal, from the program p alone: `left` is the depth     *)
(* that remains and `path` the queries of the frames above.                *)
Reference(p) ==
  LET ref[left \in 0 .. MaxProofDepth] ==
        [path \in SUBSET Query |-> [q \in Query |->
          IF left = 0 THEN "Maybe"
          ELSE IF q \in path THEN "No"
          ELSE Merge({Conjunction({ref[left - 1][path \cup {q}][body[i]] : i \in DOMAIN body}) :
                       body \in ToSet(p.candidates[q])},
                     q \in p.incomplete)]]
  IN  ref

RootAnswer == producers[Root].answers

(* What a program proves when the queries in `given` are assumed: the      *)
(* least set of queries closed under its candidates.                       *)
Provable(given) ==
  {q \in Query : \A s \in SUBSET Query :
    (/\ given \subseteq s
     /\ \A r \in Query : (\E body \in ToSet(program.candidates[r]) : ToSet(body) \subseteq s) => r \in s)
    => q \in s}

TypeOK ==
  /\ program \in Programs
  /\ frames \in Seq([query : Query, parent : Nat, depth : 1 .. MaxProofDepth,
                     state : {"Pending", "Ready", "Abandoned"}, result : Result,
                     subs : SUBSET (Nat \X (Nat \ {0}))])
  /\ \A f \in Frame : frames[f].parent < f
  /\ entries \subseteq Frame /\ parked \subseteq Frame
  /\ DOMAIN producers = {Root} \cup Frame
  /\ ready \in Seq(Frame) /\ IsInjective(ready)
  /\ rootReady \in BOOLEAN
  /\ phase \in {"root", "frames", "done"}
  /\ polling \in {Idle, Root} \cup Frame
  /\ running \in Nat

(* Every settled frame holds the answer the program gives for its query    *)
(* under its ancestors, and so does the root: neither the order in which   *)
(* candidates run nor what is shared or cancelled shows in an answer       *)
(* (schedule_independence in merge_candidate_results).                     *)
AnswersMatchReference ==
  /\ \A f \in Frame : frames[f].state = "Ready" =>
       frames[f].result = Reference(program)[MaxProofDepth - frames[f].depth + 1]
         [{frames[g].query : g \in Ancestors(frames[f].parent)}][frames[f].query]
  /\ phase = "done" =>
       RootAnswer = {Conjunction({Reference(program)[MaxProofDepth][{}][q] : q \in ToSet(RootGoals)})}

(* Refuting a cycle and cutting off at the depth bound are sound: "Yes"    *)
(* only for what the program proves, "No" only for what it does not prove  *)
(* even if every query with an incomplete source held.                     *)
AnswerSound ==
  phase = "done" =>
    /\ "Yes" \in RootAnswer => ToSet(RootGoals) \subseteq Provable({})
    /\ "No" \in RootAnswer => ~ ToSet(RootGoals) \subseteq Provable(program.incomplete)

(* The answers are right: they are the ones the program gives, whatever    *)
(* the schedule, and those are sound.                                      *)
AnswersRight == AnswersMatchReference /\ AnswerSound

(* A future that has to wait is woken: a task that is not queued waits for *)
(* a pending frame that holds its waker, and a producer with a queued task *)
(* is queued itself (the panic "trait solver deadlock" of drive).          *)
NobodyForgotten ==
  \A f \in {Root} \cup {g \in Frame : frames[g].state = "Pending"} :
    \A c \in Live(f) :
      \/ f = polling /\ c = running
      \/ f = Root /\ rootReady
      \/ f # Root /\ c \in ToSet(producers[f].queue)
                  /\ (f = polling \/ f \in ToSet(ready))
      \/ \E g \in Task(f, c).waits : frames[g].state = "Pending" /\ <<f, c>> \in frames[g].subs

(* Nobody is forgotten, and nothing is kept for nobody.  The lookup table  *)
(* holds each frame that is not abandoned and no other                     *)
(* (the panic "abandoned whiteboard frame retained a lookup key"), under a *)
(* key of its own; a frame is pending only while its parent is; and at the *)
(* end nothing is left of frames that nobody waited for any more.          *)
TableIsLive ==
  /\ TypeOK
  /\ NobodyForgotten
  /\ entries = {f \in Frame : frames[f].state # "Abandoned"}
  /\ \A f, g \in entries :
       (f # g /\ frames[f].query = frames[g].query) => frames[f].parent # frames[g].parent
  /\ \A f \in Frame : (frames[f].state = "Pending" /\ frames[f].parent # Root) =>
       frames[frames[f].parent].state = "Pending"
  /\ phase = "done" =>
       /\ \A f \in Frame : frames[f].state # "Pending" /\ frames[f].subs = {}
       /\ parked = {} /\ ready = <<>>

(* The drive loop returns: no cycle of queries, of waiting frames or of    *)
(* retried goals keeps it going for ever.                                  *)
Termination == <>(phase = "done")

=============================================================================
