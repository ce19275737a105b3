--------------------------- MODULE ModuleExpansion ---------------------------
(***************************************************************************)
(* The expanded items of the modules of a crate (sage-ir, local_syms and   *)
(* check/resolve), computed by Salsa's fixed-point iteration.              *)
(*                                                                         *)
(* A module's query expands each of its macro calls.  To resolve the name  *)
(* it reads the expanded items of the module itself and of every module it *)
(* imports by a glob, so the queries are mutually recursive.  A query that *)
(* is still running answers with its last provisional list, at first the   *)
(* empty one; the outermost query of a cycle is run again until nothing in *)
(* the cycle changes.                                                      *)
(*                                                                         *)
(* An item is a macro definition (name, and the items its expansion emits),*)
(* a call, a glob import, an ordinary item, or opaque: one that does not   *)
(* parse or stands under an attribute that is not expanded.  Derives, named*)
(* imports, paths of several segments and incremental reuse are left out.  *)
(***************************************************************************)
EXTENDS Naturals, Sequences, FiniteSets, SequencesExt, FiniteSetsExt

CONSTANTS
  Programs,       \* the crates: the items of each module, and the prelude's macros
  MaxDepth,       \* MAX_EXPANSION_DEPTH
  MaxIterations   \* MAX_ITERATIONS

(* A crate has finitely many modules; the two limits are counts.           *)
ASSUME CratesAreFinite == \A p \in Programs : IsFiniteSet(DOMAIN p.source)
ASSUME LimitsAreCounts == MaxDepth \in Nat /\ MaxIterations \in Nat

VARIABLES
  program,   \* the crate
  memo,      \* the memo of each module's query
  iter,      \* the iteration count of each query
  stack,     \* the queries that run, the innermost last
  asked,     \* the order in which this build asks for the modules
  earlier,   \* the lists an earlier build of the same crate produced
  outcome    \* "running", "built" or "panic"

vars == <<program, memo, iter, stack, asked, earlier, outcome>>

Symbol(id, item) == [id |-> id, item |-> item]
Represented == {"def", "glob", "ordinary"}

-----------------------------------------------------------------------------
(* Resolution and expansion, as functions of the crate and of the lists    *)
(* that were read.                                                         *)
ModulesOf(crate) == DOMAIN crate.source

(* unexpanded_items, with an identity for each. *)
Source(crate, m) ==
  [i \in DOMAIN crate.source[m] |-> Symbol(<<m, i>>, crate.source[m][i])]
(* parse_output *)
Output(def, call) ==
  [i \in DOMAIN def.item.emits |-> Symbol(<<def.id, call.id, i>>, def.item.emits[i])]

OfKind(symbols, kind) == {s \in ToSet(symbols) : s.item.kind = kind}
GlobsOf(symbols) == {s.item.name : s \in OfKind(symbols, "glob")}
Calls(crate, m) == OfKind(Source(crate, m), "call") # {}

(* The least part of the nodes that holds base and, with each of its       *)
(* members, the nodes that next leads to from there.                       *)
Closure(nodes, base, next) ==
  {x \in nodes : \A S \in SUBSET nodes :
     base \subseteq S /\ (\A y \in S : next[y] \cap nodes \subseteq S) => x \in S}

(* The modules a lookup in m visits: m, and through globs, as far as the   *)
(* lists are known.  A module already being visited adds nothing, nor does *)
(* a path that is no module.                                               *)
Reach(crate, lists, m) ==
  Closure(ModulesOf(crate), {m},
          [x \in ModulesOf(crate) |-> IF x \in DOMAIN lists THEN GlobsOf(lists[x]) ELSE {}])

(* What the expansion of m looks at: nothing unless it has calls.          *)
Scope(crate, lists, m) == IF Calls(crate, m) THEN Reach(crate, lists, m) ELSE {}
Visible(crate, lists, m) == UNION {OfKind(lists[x], "def") : x \in Scope(crate, lists, m)}

PreludeMacros(crate, n) ==
  {Symbol(<<"prelude", n>>, item) : item \in {p \in crate.prelude : p.name = n}}

(* flexibly_resolve_name_from_module, during macro expansion: named items  *)
(* and globs together, and only then the prelude.                          *)
Resolved(crate, visible, n) ==
  LET found == {d \in visible : d.item.name = n}
  IN  IF found # {} THEN found ELSE PreludeMacros(crate, n)

(* resolve_bang_macro: the definition must be the only one. *)
Expandable(crate, visible, s) ==
  s.item.kind = "call" /\ Cardinality(Resolved(crate, visible, s.item.name)) = 1
Definition(crate, visible, s) == CHOOSE d \in Resolved(crate, visible, s.item.name) : TRUE

(* expand_unexpanded_items_at_depth, one depth after the other. *)
ExpandedOnce(crate, visible, items) ==
  FlattenSeq([i \in DOMAIN items |->
    IF Expandable(crate, visible, items[i])
    THEN Output(Definition(crate, visible, items[i]), items[i])
    ELSE <<items[i]>>])
Expanded(crate, visible, m) ==
  LET upTo[depth \in 0 .. MaxDepth] ==
        IF depth = 0 THEN Source(crate, m) ELSE ExpandedOnce(crate, visible, upTo[depth - 1])
  IN  upTo[MaxDepth]

IsRepresented(s) == s.item.kind \in Represented
Listed(crate, visible, m) == SelectSeq(Expanded(crate, visible, m), IsRepresented)
ExpandedItems(crate, lists, m) == Listed(crate, Visible(crate, lists, m), m)

(* bang_macro_expansion_complete, over the items of a module: no call is   *)
(* left, and nothing that is not listed.                                   *)
ExpansionCompleteWithoutCalls(crate, lists, m) == OfKind(Source(crate, m), "opaque") = {}
ExpansionComplete(crate, lists, m) ==
  \A s \in ToSet(Expanded(crate, Visible(crate, lists, m), m)) : IsRepresented(s)

-----------------------------------------------------------------------------
(* Salsa. *)
Module == ModulesOf(program)

NoMemo == [value |-> <<>>, stored |-> FALSE, heads |-> {}, at |-> <<>>, converged |-> FALSE,
           final |-> FALSE]
Memo(value, heads, converged, final, counts) ==
  [value |-> value, stored |-> TRUE, heads |-> heads, at |-> [h \in heads |-> counts[h]],
   converged |-> converged, final |-> final]

Frame(m) == [module |-> m, known |-> <<>>, heads |-> {}]
Top == Last(stack)
Running == {stack[i].module : i \in DOMAIN stack}
Read(frame, m, value, heads) ==
  [frame EXCEPT !.known = [x \in DOMAIN @ \cup {m} |-> IF x = m THEN value ELSE @[x]],
                !.heads = @ \cup heads]

(* The orders in which the modules of the crate can be asked for.          *)
Orders ==
  {order \in [1 .. Cardinality(Module) -> Module] : \A m \in Module : m \in ToSet(order)}

Init ==
  /\ program \in Programs
  /\ memo = [m \in Module |-> NoMemo] /\ iter = [m \in Module |-> 0]
  /\ stack = <<>>
  /\ asked \in Orders
  /\ earlier = <<>>
  /\ outcome = "running"

(* What the innermost query reads next. *)
Active == outcome = "running" /\ stack # <<>>
Needed == IF Active THEN Scope(program, Top.known, Top.module) \ DOMAIN Top.known ELSE {}

(* A memo holds if it is final, or its heads were finalized in the         *)
(* iteration it belongs to (validate_provisional), or that iteration still *)
(* runs (validate_same_iteration).  The second asks whether this thread    *)
(* holds the locks of the other heads.  It holds that of every provisional *)
(* one: the query runs, or it completed inside a cycle and left its lock   *)
(* to a query that runs.                                                   *)
AtCounts(m) == \A h \in memo[m].heads : memo[m].at[h] = iter[h]
Settled(m) ==
  /\ memo[m].stored
  /\ \/ memo[m].final
     \/ memo[m].heads # {} /\ AtCounts(m) /\ \A h \in memo[m].heads : memo[h].final
SameIterationOnStack(m) ==
  /\ memo[m].stored /\ memo[m].heads \ {m} # {} /\ AtCounts(m)
  /\ memo[m].heads \subseteq Running
SameIteration(m) ==
  /\ memo[m].stored /\ memo[m].heads \ {m} # {} /\ AtCounts(m)
  /\ \A h \in memo[m].heads : ~ memo[h].final
Holds(m) == Settled(m) \/ SameIteration(m)

(* The next module is asked for, unless it is known. *)
Ask ==
  /\ outcome = "running" /\ stack = <<>> /\ asked # <<>>
  /\ asked' = Tail(asked)
  /\ stack' = IF Holds(Head(asked)) THEN stack ELSE <<Frame(Head(asked))>>
  /\ UNCHANGED <<program, memo, iter, earlier, outcome>>

(* A running query is read: its last provisional value, or the initial one.*)
ReadCycle ==
  \E m \in Needed \cap Running :
    /\ LET provisional == IF m \in memo[m].heads THEN memo[m].value ELSE <<>>
       IN  /\ stack' = [stack EXCEPT ![Len(stack)] = Read(Top, m, provisional, {m})]
           /\ memo' = [memo EXCEPT ![m] = Memo(provisional, {m}, @.converged, FALSE, iter)]
    /\ UNCHANGED <<program, iter, asked, earlier, outcome>>

ReadMemo ==
  \E m \in Needed \ Running :
    /\ Holds(m)
    /\ LET heads == IF Settled(m) THEN {} ELSE memo[m].heads
       IN  stack' = [stack EXCEPT ![Len(stack)] = Read(Top, m, memo[m].value, heads)]
    /\ UNCHANGED <<program, memo, iter, asked, earlier, outcome>>

Execute ==
  \E m \in Needed \ Running :
    /\ ~ Holds(m)
    /\ stack' = Append(stack, Frame(m))
    /\ UNCHANGED <<program, memo, iter, asked, earlier, outcome>>

(* The query has all it reads. *)
ReadAll == Active /\ Needed = {}
Value == ExpandedItems(program, Top.known, Top.module)
Return(value, heads) ==
  stack' = IF Len(stack) = 1 THEN <<>>
           ELSE [Front(stack) EXCEPT ![Len(stack) - 1] = Read(@, Top.module, value, heads)]

(* collect_all_cycle_heads: the heads of the provisional values it read,   *)
(* and their heads.                                                        *)
AllHeads ==
  Closure(Module, Top.heads, [x \in Module |-> IF x = Top.module THEN {} ELSE memo[x].heads])
IsHead == Top.module \in AllHeads
Outer == (AllHeads \ {Top.module}) \cap Running

(* A query that is no head, but was run again, has a count of its own.     *)
Counts(bump) == IF bump THEN [iter EXCEPT ![Top.module] = @ + 1] ELSE iter
Plain == Top.heads = {}
Inside == ~ Plain /\ Outer # {}
Driving == ReadAll /\ ~ Plain /\ Outer = {}
Bumps == (Plain /\ iter[Top.module] > 0) \/ (Inside /\ ~ IsHead)
AtLimit == Bumps /\ iter[Top.module] = MaxIterations

(* No cycle: the value is final. *)
CompletePlain ==
  /\ ReadAll /\ Plain /\ ~ AtLimit
  /\ iter' = Counts(Bumps)
  /\ memo' = [memo EXCEPT ![Top.module] = Memo(Value, {}, TRUE, TRUE, iter)]
  /\ Return(Value, {})
  /\ UNCHANGED <<program, asked, earlier, outcome>>

(* Part of a cycle that another query drives. *)
CompleteInside ==
  /\ ReadAll /\ Inside /\ ~ AtLimit
  /\ iter' = Counts(Bumps)
  /\ LET converged == ~ IsHead \/ Value = memo[Top.module].value
     IN  memo' = [memo EXCEPT ![Top.module] = Memo(Value, AllHeads, converged, FALSE, iter)]
  /\ Return(Value, AllHeads)
  /\ UNCHANGED <<program, asked, earlier, outcome>>

(* The outermost query of a cycle: it is done when neither its own value   *)
(* nor that of a head inside has changed.                                  *)
ConvergedAlone == Value = memo[Top.module].value
Converged ==
  /\ Value = memo[Top.module].value
  /\ \A h \in AllHeads \ {Top.module} : memo[h].converged
CompleteCycle ==
  /\ Driving /\ Converged
  /\ memo' = [m \in Module |->
                IF m = Top.module THEN Memo(Value, AllHeads, TRUE, TRUE, iter)
                ELSE IF m \in AllHeads THEN [memo[m] EXCEPT !.final = TRUE] ELSE memo[m]]
  /\ Return(Value, {})
  /\ UNCHANGED <<program, iter, asked, earlier, outcome>>

(* Run again, with the new value as the provisional one. *)
LatestCount == Max({iter[h] : h \in AllHeads})
Iterate ==
  /\ Driving /\ ~ Converged /\ LatestCount < MaxIterations
  /\ iter' = [m \in Module |-> IF m \in AllHeads THEN LatestCount + 1 ELSE iter[m]]
  /\ memo' = [memo EXCEPT ![Top.module] = Memo(Value, AllHeads, FALSE, FALSE, iter')]
  /\ stack' = [stack EXCEPT ![Len(stack)] = Frame(Top.module)]
  /\ UNCHANGED <<program, asked, earlier, outcome>>

TooManyIterations ==
  /\ \/ Driving /\ ~ Converged /\ LatestCount = MaxIterations
     \/ ReadAll /\ AtLimit
  /\ outcome' = "panic"
  /\ UNCHANGED <<program, memo, iter, stack, asked, earlier>>

Lists == [m \in Module |-> memo[m].value]
Built ==
  /\ outcome = "running" /\ stack = <<>> /\ asked = <<>>
  /\ outcome' = "built"
  /\ UNCHANGED <<program, memo, iter, stack, asked, earlier>>

(* A cold build of the same crate that asks in any order. *)
Rebuild ==
  /\ outcome = "built" /\ earlier = <<>>
  /\ earlier' = Lists
  /\ memo' = [m \in Module |-> NoMemo] /\ iter' = [m \in Module |-> 0]
  /\ asked' \in Orders
  /\ outcome' = "running"
  /\ UNCHANGED <<program, stack>>

Ended == outcome = "panic" \/ (outcome = "built" /\ earlier # <<>>)
Next ==
  \/ Ask \/ ReadCycle \/ ReadMemo \/ Execute
  \/ CompletePlain \/ CompleteInside \/ CompleteCycle \/ Iterate \/ TooManyIterations
  \/ Built \/ Rebuild
  \/ Ended /\ UNCHANGED vars

Spec == Init /\ [][Next]_vars

-----------------------------------------------------------------------------
TypeOK ==
  /\ IsFiniteSet(Module)
  /\ DOMAIN memo = Module
  /\ \A m \in Module :
       /\ DOMAIN memo[m] = DOMAIN NoMemo
       /\ {memo[m].stored, memo[m].converged, memo[m].final} \subseteq BOOLEAN
       /\ memo[m].heads \subseteq Module /\ memo[m].at \in [memo[m].heads -> Nat]
  /\ iter \in [Module -> 0 .. MaxIterations]
  /\ stack \in Seq(ToSet(stack))
  /\ \A i \in DOMAIN stack :
       /\ DOMAIN stack[i] = {"module", "known", "heads"} /\ stack[i].module \in Module
       /\ DOMAIN stack[i].known \cup stack[i].heads \subseteq Module
       /\ \A j \in DOMAIN stack : stack[i].module = stack[j].module => i = j
  /\ asked \in Seq(Module)
  /\ outcome \in {"running", "built", "panic"}

(* What a build ends with is one fixed point: each list is the expansion   *)
(* of its module against all the others as they are now, those of queries  *)
(* that ran inside another one's cycle included.                           *)
SettledTogether ==
  /\ TypeOK
  /\ outcome = "built" => \A m \in Module : Holds(m) /\ Lists[m] = ExpandedItems(program, Lists, m)

(* Two builds in which every expansion is complete produce the same lists, *)
(* whatever module was asked for first.                                    *)
AllComplete(lists) == \A m \in Module : ExpansionComplete(program, lists, m)
CompleteIsUnique ==
  outcome = "built" /\ earlier # <<>> /\ AllComplete(earlier) /\ AllComplete(Lists) =>
    Lists = earlier

(* Claims of the repository the code does not keep. *)

(* "iteration stops when the ordered symbol sequence is unchanged": a call *)
(* that defines its own macro again undoes itself in every other iteration.*)
Converges == outcome # "panic"

(* "The result preserves deterministic order and provenance": the same     *)
(* crate is expanded differently when another module is asked for first.   *)
OrderIndependent == outcome = "built" /\ earlier # <<>> => Lists = earlier

=============================================================================
