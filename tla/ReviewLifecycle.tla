--------------------------- MODULE ReviewLifecycle ---------------------------
(* Saved specification reviews (sage-meta, review.rs): the files               *)
(* validations/<anchor>/{input,summary,output}.json, the three commands a      *)
(* reviewer runs on them (start, read, record) and the gate of `cargo meta     *)
(* check`, which accepts a saved review only for the sources it judged.        *)
(*                                                                             *)
(* Every command is a process of its own that takes a lock on the parent       *)
(* directory for part of its run, may be killed between two file operations,   *)
(* and reads sources that are edited meanwhile: a comparison selects one       *)
(* fragment after another, and files change between them, also back to what    *)
(* they were.  A source text is its version; an anchor has one initial         *)
(* fragment, of the file Impl, and may read any file.  One reviewer owns an    *)
(* anchor at a time (reviews.md), so a reviewer is named by its anchor.        *)
EXTENDS Naturals, Sequences, FiniteSets

CONSTANTS Anchors, Gate,
          Files, Impl,    \* source files, and the one every anchor is about
          VersionBound,   \* the versions a file has
          EditBound,      \* how often files are edited
          ReadBound       \* how many fragments a reviewer reads

Processes == Anchors \cup {Gate}
None == <<>>
Nobody == "nobody"

ASSUME ReviewAssumption ==
    /\ Gate \notin Anchors /\ Nobody \notin Processes
    /\ Impl \in Files
    /\ VersionBound \in Nat \ {0} /\ EditBound \in Nat /\ ReadBound \in Nat

VARIABLES source,   \* the version of each source file
          changes,  \* how many edits there were
          disk,     \* per anchor, the files of its directory
          lock,     \* the process that holds the lock of validations/
          pc,       \* what each process does next
          text,     \* per process, the fragment it read last
          progress, \* per process, how far its comparison of fragments is
          seen,     \* per anchor, the inputs its reviewer has been shown
          saved,    \* what the gate loaded, per anchor
          left,     \* anchors the gate has still to judge
          stood,    \* the workspaces there were since it began to judge this one
          approved  \* per anchor: which passes of the gate accepted the review

vars == <<source, changes, disk, lock, pc, text, progress, seen, saved, left, stood, approved>>

-----------------------------------------------------------------------------
(* Data.                                                                       *)

Versions == 1..VersionBound
Fragments == [path : Files, contents : Versions]
Inputs == [initial : Fragments, reads : UNION {[1..n -> Fragments] : n \in 0..ReadBound}]
Outputs == [basis : Inputs, edits : BOOLEAN]
Directory == [input : Inputs \cup {None}, output : Outputs \cup {None},
              summary : {"missing", "open", "recorded"}]
EmptyDirectory == [input |-> None, output |-> None, summary |-> "missing"]
NothingSaved == [a \in Anchors |-> EmptyDirectory]
NothingApproved == [a \in Anchors |-> {}]

\* The gate goes over the anchors twice: for what to report, and for what to count.
Passes == {"validate", "accept"}

\* select: the fragment a selector denotes in the workspace now.
Selected(f) == [path |-> f, contents |-> source[f]]

\* review.rs:384, input_errors, the initial fragments: their order and text.
InitialMatches(input, current) == input.initial = current

\* review.rs:408, a fragment read later is selected again in the workspace.
\* Mutant: the gate and the recorder trust the fragments the reviewer read.
Trusted(fragment) == TRUE
StillReads(fragment) == fragment = Selected(fragment.path)

\* A comparison of `a`, with the initial fragments compared already.
Progress == [of : Anchors, next : Nat \ {0}, matches : BOOLEAN]
Begun(a, input, current) == [of |-> a, next |-> 1, matches |-> InitialMatches(input, current)]

\* Mutant: an output without a recorded summary does not count as completed.
SummaryOpen(a) == disk[a].summary = "open"

\* read_summary succeeds and the attempt is not completed.
AttemptOpen(a) == disk[a].summary = "open" /\ disk[a].output = None

Init ==
    /\ source = [f \in Files |-> 1] /\ changes = 0
    /\ disk = [a \in Anchors |-> EmptyDirectory]
    /\ lock = Nobody
    /\ pc = [p \in Processes |-> "idle"]
    /\ text = [p \in Processes |-> None]
    /\ progress = [p \in Processes |-> None]
    /\ seen = [a \in Anchors |-> None]
    /\ saved = NothingSaved /\ left = {} /\ stood = {} /\ approved = NothingApproved

-----------------------------------------------------------------------------
(* The environment: edits, and processes that are killed.                      *)

\* A file gets another text, perhaps one it had before.
Edit(f) ==
    /\ changes < EditBound
    /\ \E v \in Versions \ {source[f]} : source' = [source EXCEPT ![f] = v]
    /\ changes' = changes + 1
    /\ stood' = IF progress[Gate] = None THEN stood ELSE stood \cup {source'}
    /\ UNCHANGED <<disk, lock, pc, text, progress, seen, saved, left, approved>>

\* A command ends: by returning, by an early error, or because it is killed.
\* The file lock goes with the process that held it.
Release(p) == lock' = IF lock = p THEN Nobody ELSE lock

End(p) ==
    /\ pc' = [pc EXCEPT ![p] = "idle"]
    /\ text' = [text EXCEPT ![p] = None]
    /\ progress' = [progress EXCEPT ![p] = None]
    /\ Release(p)

\* With the gate goes what it had loaded and found.
Forget ==
    saved' = NothingSaved /\ left' = {} /\ stood' = {} /\ approved' = NothingApproved

\* Mutant: the lock is a file, which outlives its process.
CrashKeepingLock(p) ==
    /\ pc[p] # "idle"
    /\ pc' = [pc EXCEPT ![p] = "idle"]
    /\ text' = [text EXCEPT ![p] = None]
    /\ progress' = [progress EXCEPT ![p] = None]
    /\ IF p = Gate THEN Forget ELSE UNCHANGED <<saved, left, stood, approved>>
    /\ UNCHANGED <<source, changes, disk, lock, seen>>

\* A reviewer that lost its `start` cannot review: it has not been shown the inputs.
Crash(p) ==
    /\ pc[p] # "idle"
    /\ End(p)
    /\ IF p = Gate THEN Forget ELSE UNCHANGED <<saved, left, stood, approved>>
    /\ UNCHANGED <<source, changes, disk, seen>>

\* The coordinator gives the anchor to another subagent between two commands.
Reassign(a) ==
    /\ pc[a] = "idle" /\ seen[a] # None
    /\ seen' = [seen EXCEPT ![a] = None]
    /\ UNCHANGED <<source, changes, disk, lock, pc, text, progress, saved, left, stood, approved>>

-----------------------------------------------------------------------------
(* What every command does first: the inventory, then the lock.                *)

\* current_inventory, before the lock: the text of the initial fragments is the
\* one of this moment.  A reviewer records only what it has reviewed.
TakeInventory(p, command) ==
    /\ pc[p] = "idle"
    /\ IF p = Gate THEN command = "load" ELSE command \in {"start", "record"}
    /\ command = "record" => seen[p] # None
    /\ pc' = [pc EXCEPT ![p] = command]
    /\ text' = [text EXCEPT ![p] = Selected(Impl)]
    /\ seen' = IF command = "start" THEN [seen EXCEPT ![p] = None] ELSE seen
    /\ UNCHANGED <<source, changes, disk, lock, progress, saved, left, stood, approved>>

\* capture_read has no inventory to take.
RequestRead(a) ==
    /\ pc[a] = "idle" /\ seen[a] # None
    /\ disk[a].input # None => Len(disk[a].input.reads) < ReadBound
    /\ pc' = [pc EXCEPT ![a] = "read"]
    /\ UNCHANGED <<source, changes, disk, lock, text, progress, seen, saved, left, stood, approved>>

\* What each command does once it has the lock.
Entry == [start |-> "clear", read |-> "select", record |-> "check", load |-> "summaries"]

Waiting(p) == pc[p] \in DOMAIN Entry

\* lock_directory: an exclusive, blocking file lock.
Acquire(p) ==
    /\ Waiting(p)
    /\ lock = Nobody
    /\ lock' = p
    /\ pc' = [pc EXCEPT ![p] = Entry[@]]
    /\ UNCHANGED <<source, changes, disk, text, progress, seen, saved, left, stood, approved>>

-----------------------------------------------------------------------------
(* start                                                                       *)

\* Mutant: the new files are written over the old ones.
OverwriteInPlace(a) ==
    /\ pc[a] = "clear"
    /\ pc' = [pc EXCEPT ![a] = "input"]
    /\ UNCHANGED <<source, changes, disk, lock, text, progress, seen, saved, left, stood, approved>>

\* remove_dir_all unlinks the files of the directory one by one, in any order.
Clear(a) ==
    /\ pc[a] = "clear"
    /\ \/ /\ disk[a].input # None
          /\ disk' = [disk EXCEPT ![a].input = None]
          /\ UNCHANGED pc
       \/ /\ disk[a].output # None
          /\ disk' = [disk EXCEPT ![a].output = None]
          /\ UNCHANGED pc
       \/ /\ disk[a].summary # "missing"
          /\ disk' = [disk EXCEPT ![a].summary = "missing"]
          /\ UNCHANGED pc
       \/ /\ disk[a] = EmptyDirectory
          /\ pc' = [pc EXCEPT ![a] = "input"]
          /\ UNCHANGED disk
    /\ UNCHANGED <<source, changes, lock, text, progress, seen, saved, left, stood, approved>>

\* write_json replaces a file by renaming a complete temporary over it.
WriteInput(a) ==
    /\ pc[a] = "input"
    /\ disk' = [disk EXCEPT ![a].input = [initial |-> text[a], reads |-> <<>>]]
    /\ pc' = [pc EXCEPT ![a] = "open"]
    /\ UNCHANGED <<source, changes, lock, text, progress, seen, saved, left, stood, approved>>

WriteSummary(a) ==
    /\ pc[a] = "open"
    /\ disk' = [disk EXCEPT ![a].summary = "open"]
    /\ pc' = [pc EXCEPT ![a] = "started"]
    /\ UNCHANGED <<source, changes, lock, text, progress, seen, saved, left, stood, approved>>

\* The prepared inputs are printed to the reviewer.
Started(a) ==
    /\ pc[a] = "started"
    /\ seen' = [seen EXCEPT ![a] = [initial |-> text[a], reads |-> <<>>]]
    /\ End(a)
    /\ UNCHANGED <<source, changes, disk, saved, left, stood, approved>>

-----------------------------------------------------------------------------
(* read                                                                        *)

\* Mutant: the text is printed before it is saved.
PrintBeforeSaving(a) ==
    /\ pc[a] = "select" /\ AttemptOpen(a) /\ disk[a].input # None
    /\ \E f \in Files :
         /\ text' = [text EXCEPT ![a] = Selected(f)]
         /\ seen' = [seen EXCEPT ![a].reads = Append(@, Selected(f))]
    /\ pc' = [pc EXCEPT ![a] = "save"]
    /\ UNCHANGED <<source, changes, disk, lock, progress, saved, left, stood, approved>>

\* capture_read up to select: refused on a completed or unreadable attempt.
SelectText(a) ==
    /\ pc[a] = "select"
    /\ IF AttemptOpen(a) /\ disk[a].input # None
         THEN /\ \E f \in Files : text' = [text EXCEPT ![a] = Selected(f)]
              /\ pc' = [pc EXCEPT ![a] = "save"]
              /\ UNCHANGED <<lock, progress>>
         ELSE End(a)
    /\ UNCHANGED <<source, changes, disk, seen, saved, left, stood, approved>>

SaveRead(a) ==
    /\ pc[a] = "save"
    /\ disk' = [disk EXCEPT ![a].input.reads = Append(@, text[a])]
    /\ pc' = [pc EXCEPT ![a] = "show"]
    /\ UNCHANGED <<source, changes, lock, text, progress, seen, saved, left, stood, approved>>

ShowRead(a) ==
    /\ pc[a] = "show"
    /\ seen' = [seen EXCEPT ![a].reads = Append(@, text[a])]
    /\ End(a)
    /\ UNCHANGED <<source, changes, disk, saved, left, stood, approved>>

-----------------------------------------------------------------------------
(* record                                                                      *)

\* record up to input_errors: the initial fragments are compared first.
CheckRecord(a) ==
    /\ pc[a] = "check"
    /\ IF AttemptOpen(a) /\ disk[a].input # None
         THEN /\ progress' = [progress EXCEPT ![a] = Begun(a, disk[a].input, text[a])]
              /\ pc' = [pc EXCEPT ![a] = "compare"]
              /\ UNCHANGED <<text, lock>>
         ELSE End(a)
    /\ UNCHANGED <<source, changes, disk, seen, saved, left, stood, approved>>

\* The loop of input_errors, of a recorder and of the gate: the next fragment that
\* was read is selected from the file as it is now.  A difference is noted and the
\* loop goes on.
Checked(p) == IF p = Gate THEN saved[progress[p].of].input ELSE disk[p].input
CompareNext(p) ==
    /\ progress[p] # None
    /\ progress[p].next \in DOMAIN Checked(p).reads
    /\ progress' = [progress EXCEPT ![p] =
         [of |-> progress[p].of, next |-> progress[p].next + 1,
          matches |-> progress[p].matches /\ StillReads(Checked(p).reads[progress[p].next])]]
    /\ UNCHANGED <<source, changes, disk, lock, pc, text, seen, saved, left, stood, approved>>

Compared(p) == progress[p] # None /\ progress[p].next \notin DOMAIN Checked(p).reads

\* input_errors returns to record: any difference refuses the report.
RecordCompared(a) ==
    /\ pc[a] = "compare" /\ Compared(a)
    /\ IF progress[a].matches
         THEN /\ progress' = [progress EXCEPT ![a] = None]
              /\ pc' = [pc EXCEPT ![a] = "output"]
              /\ UNCHANGED <<text, lock>>
         ELSE End(a)
    /\ UNCHANGED <<source, changes, disk, seen, saved, left, stood, approved>>

\* The report is about what the reviewer was shown; it may ask for edits.
WriteOutput(a) ==
    /\ pc[a] = "output"
    /\ \E edits \in BOOLEAN :
         disk' = [disk EXCEPT ![a].output = [basis |-> seen[a], edits |-> edits]]
    /\ pc' = [pc EXCEPT ![a] = "seal"]
    /\ UNCHANGED <<source, changes, lock, text, progress, seen, saved, left, stood, approved>>

Seal(a) ==
    /\ pc[a] = "seal"
    /\ disk' = [disk EXCEPT ![a].summary = "recorded"]
    /\ End(a)
    /\ UNCHANGED <<source, changes, seen, saved, left, stood, approved>>

-----------------------------------------------------------------------------
(* The gate                                                                    *)

\* load_saved reads the files of a directory one after the other, the output only
\* when the summary says it was recorded; a file that is missing drops the review.
LoadSummary(a) ==
    /\ pc[Gate] = "summaries" /\ saved[a].summary = "missing" /\ disk[a].summary # "missing"
    /\ saved' = [saved EXCEPT ![a].summary = disk[a].summary]
    /\ UNCHANGED <<source, changes, disk, lock, pc, text, progress, seen, left, stood, approved>>

LoadInput(a) ==
    /\ pc[Gate] = "summaries" /\ saved[a].summary # "missing"
    /\ saved[a].input = None /\ disk[a].input # None
    /\ saved' = [saved EXCEPT ![a].input = disk[a].input]
    /\ UNCHANGED <<source, changes, disk, lock, pc, text, progress, seen, left, stood, approved>>

LoadOutput(a) ==
    /\ pc[Gate] = "summaries" /\ saved[a].summary = "recorded" /\ saved[a].input # None
    /\ saved[a].output = None /\ disk[a].output # None
    /\ saved' = [saved EXCEPT ![a].output = disk[a].output]
    /\ UNCHANGED <<source, changes, disk, lock, pc, text, progress, seen, left, stood, approved>>

\* Nothing of the anchor is left to read, or a file it needs is missing.
Loaded(a) ==
    \/ saved[a].summary = "missing" /\ disk[a].summary = "missing"
    \/ saved[a].summary # "missing" /\ saved[a].input = None /\ disk[a].input = None
    \/ saved[a].summary = "open" /\ saved[a].input # None
    \/ saved[a].summary = "recorded" /\ saved[a].input # None
       /\ (saved[a].output # None \/ disk[a].output = None)

LoadSaved ==
    /\ pc[Gate] = "summaries"
    /\ \A a \in Anchors : Loaded(a)
    /\ pc' = [pc EXCEPT ![Gate] = "validate"]
    /\ left' = Anchors
    /\ Release(Gate)
    /\ UNCHANGED <<source, changes, disk, text, progress, seen, saved, stood, approved>>

\* A review that is missing, unfinished or asks for edits is refused whatever its
\* fragments are (validate lists them all the same).
Accepting(a) == saved[a].output # None /\ ~saved[a].output.edits

\* validate and then acceptable, after the lock is gone: each anchor against the
\* inventory taken before it, and against the files as they are one by one.
BeginJudging(a) ==
    /\ pc[Gate] \in Passes /\ progress[Gate] = None /\ a \in left
    /\ left' = left \ {a}
    /\ IF Accepting(a)
         THEN /\ progress' = [progress EXCEPT ![Gate] = Begun(a, saved[a].input, text[Gate])]
              /\ stood' = {source}
         ELSE UNCHANGED <<progress, stood>>
    /\ UNCHANGED <<source, changes, disk, lock, pc, text, seen, saved, approved>>

Judge ==
    /\ pc[Gate] \in Passes /\ Compared(Gate)
    /\ approved' = IF progress[Gate].matches
                    THEN [approved EXCEPT ![progress[Gate].of] = @ \cup {pc[Gate]}]
                    ELSE approved
    /\ progress' = [progress EXCEPT ![Gate] = None]
    /\ stood' = {}
    /\ UNCHANGED <<source, changes, disk, lock, pc, text, seen, saved, left>>

Validated ==
    /\ pc[Gate] = "validate" /\ progress[Gate] = None /\ left = {}
    /\ pc' = [pc EXCEPT ![Gate] = "accept"]
    /\ left' = Anchors
    /\ UNCHANGED <<source, changes, disk, lock, text, progress, seen, saved, stood, approved>>

\* The verdicts are printed, and the gate ends.
Accepted ==
    /\ pc[Gate] = "accept" /\ progress[Gate] = None /\ left = {}
    /\ End(Gate) /\ Forget
    /\ UNCHANGED <<source, changes, disk, seen>>

-----------------------------------------------------------------------------
Step(p) ==
    \/ Acquire(p)
    \/ p \in Anchors /\ (Clear(p) \/ WriteInput(p) \/ WriteSummary(p) \/ Started(p))
    \/ p \in Anchors /\ (SelectText(p) \/ SaveRead(p) \/ ShowRead(p))
    \/ p \in Anchors /\ (CheckRecord(p) \/ RecordCompared(p) \/ WriteOutput(p) \/ Seal(p))
    \/ CompareNext(p)
    \/ /\ p = Gate
       /\ \/ \E a \in Anchors : LoadSummary(a) \/ LoadInput(a) \/ LoadOutput(a)
          \/ LoadSaved
          \/ \E a \in Anchors : BeginJudging(a)
          \/ Judge \/ Validated \/ Accepted

Next ==
    \/ \E f \in Files : Edit(f)
    \/ \E p \in Processes : Crash(p)
    \/ \E a \in Anchors : Reassign(a) \/ RequestRead(a)
    \/ \E p \in Processes, command \in {"start", "record", "load"} : TakeInventory(p, command)
    \/ \E p \in Processes : Step(p)

\* The operating system schedules every command, and a process that waits for
\* the lock while it is free again and again gets it.
Spec ==
    /\ Init /\ [][Next]_vars
    /\ \A p \in Processes : WF_vars(Step(p) /\ ~Waiting(p)) /\ SF_vars(Acquire(p))

-----------------------------------------------------------------------------
TypeOK ==
    /\ source \in [Files -> Versions] /\ changes \in 0..EditBound
    /\ disk \in [Anchors -> Directory]
    /\ lock \in Processes \cup {Nobody}
    /\ text \in [Processes -> Fragments \cup {None}]
    /\ progress \in [Processes -> Progress \cup {None}]
    /\ seen \in [Anchors -> Inputs \cup {None}]
    /\ saved \in [Anchors -> Directory]
    /\ left \subseteq Anchors /\ stood \subseteq [Files -> Versions]
    /\ approved \in [Anchors -> SUBSET Passes]

\* Every text of `shown` is among those of `input`, in the order they were shown.
Covers(input, shown) ==
    /\ input # None
    /\ input.initial = shown.initial
    /\ \E f \in [DOMAIN shown.reads -> DOMAIN input.reads] :
         /\ \A i \in DOMAIN shown.reads : input.reads[f[i]] = shown.reads[i]
         /\ \A i, j \in DOMAIN shown.reads : i < j => f[i] < f[j]

\* SeenIsSaved: what a reviewer has been shown is in the saved inputs, whatever
\* command was killed and whenever (review.rs:577, a read is saved before it is
\* printed; :542, the inputs are on disk before start returns them).
SeenIsSaved ==
    /\ TypeOK
    /\ \A a \in Anchors : seen[a] # None => Covers(disk[a].input, seen[a])

\* ReportOfTheseInputs: a report stands beside the inputs its author was shown, at
\* every moment of every command (review.rs:538, the old report is removed before
\* any new inputs become visible).
ReportOfTheseInputs ==
    \A a \in Anchors :
        disk[a].output # None /\ disk[a].input # None =>
            Covers(disk[a].input, disk[a].output.basis)

\* ApprovalIsCurrent: when a pass of the gate accepts an anchor, its author had been
\* shown the initial fragment of the gate's inventory and, of each file it read, a
\* text that stood there at some moment of this judgement, and asked for no edit
\* (review.rs:654, acceptable; :408, each fragment is selected on its own; :618,
\* the files of the review are loaded under the lock).
ApprovalIsCurrent ==
    [][\A a \in Anchors : approved'[a] \ approved[a] # {} =>
          LET report == saved[a].output
          IN  /\ report.basis.initial = text[Gate]
              /\ \A i \in DOMAIN report.basis.reads :
                   LET fragment == report.basis.reads[i]
                   IN  \E w \in stood : w[fragment.path] = fragment.contents
              /\ ~report.edits]_vars

\* JudgedInputsStay: while a report is on disk its inputs do not change: they are
\* removed, or the report is (review.rs:567 and :594, both signs of a completed
\* review are consulted, since a crash may leave only one).
JudgedInputsStay ==
    [][\A a \in Anchors :
          disk[a].output # None /\ disk'[a].output # None =>
              disk'[a].input \in {disk[a].input, None} /\ disk'[a].output = disk[a].output]_vars

\* NobodyWaits: every command gets the lock, whatever process dies holding it
\* (review.rs:475, OS locks are released automatically if a reviewer crashes).
NobodyWaits == \A p \in Processes : Waiting(p) ~> ~Waiting(p)

-----------------------------------------------------------------------------
(* A claim the code does not keep.                                             *)

\* ApprovedTogether: checking resolves "every fragment's selector against current
\* source" (reviews.md:286), read as one state of the sources: the texts an accepted
\* review was about stood together in some workspace of the judgement.  One file
\* that was changed, and is changed back between two selections after another was
\* changed, makes the gate accept texts that never did.
ApprovedTogether ==
    [][\A a \in Anchors : approved'[a] \ approved[a] # {} =>
          \E w \in stood : \A i \in DOMAIN saved[a].output.basis.reads :
            LET fragment == saved[a].output.basis.reads[i]
            IN  w[fragment.path] = fragment.contents]_vars
=============================================================================
