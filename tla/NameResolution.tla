--------------------------- MODULE NameResolution ---------------------------
(***************************************************************************)
(* Module-level name resolution of sage-ir (check/resolve/mod.rs): what a  *)
(* name or a path means in a module, through items, named and glob         *)
(* imports and the preludes, and the audit of imports after expansion      *)
(* (local_syms/uses.rs).                                                   *)
(*                                                                         *)
(* Lookups recurse along imports, which may be cyclic.  The resolver keeps *)
(* the queries (module, name, namespace) that are in flight and answers a  *)
(* query that is already there with nothing.                               *)
(*                                                                         *)
(* The crate is written item by item; a macro call hides the item it will  *)
(* emit until it is expanded.  A list of results, from which duplicates    *)
(* are removed, is a set.                                                  *)
(***************************************************************************)
EXTENDS Naturals, Sequences, FiniteSets

CONSTANTS
    Modules, Root,    \* the modules of the crate
    Parent,           \* [Modules \ {Root} -> Modules]
    ModName,          \* the name of each module other than the root
    Names,            \* the names that can be asked for
    Externs,          \* the extern crates: modules that import nothing
    Exports,          \* [Externs -> SUBSET [name, ns, symbol]]
    StdPrelude,       \* the names of the standard prelude: [name, ns, symbol]
    LangPrelude,      \* the names of the primitive types
    Written,          \* <<module, item>>: what a programmer may write
    Emitted,          \* <<module, item>>: what a macro call may emit
    MaxItems          \* bound: items and calls of the crate

VARIABLES
    items,            \* [Modules -> SUBSET Item]: expanded_module_items
    hidden            \* [Modules -> SUBSET Item]: outputs of unexpanded macro calls

vars == <<items, hidden>>

Namespaces == {"type", "value"}
Phases == {"normal", "expansion"}

-----------------------------------------------------------------------------
(* Symbols: definitions, the variants of an enum, and modules.             *)
Definition(m, i) == [kind |-> "def", module |-> m, item |-> i]
Variant(s, n, ns) == [kind |-> "variant", of |-> s, name |-> n, ns |-> ns]
ModSymbol(m) == [kind |-> "mod", module |-> m]

Children(m) == {c \in Modules \ {Root} : Parent[c] = m}
DirectItems(m) == {i \in items[m] : i.kind = "def"}
(* A use under an attribute that is not expanded is passed over.           *)
Imports(m) == {i \in items[m] : i.kind = "use" /\ ~i.blocked}

Exported(x, n, ns) == {e.symbol : e \in {y \in Exports[x] : y.name = n /\ y.ns = ns}}

(* lookup_extern_prelude, lookup_std_prelude and lookup_lang_prelude, in   *)
(* this order, for a name that the module does not know.                   *)
ExternPrelude(n, ns) == IF ns = "type" THEN {ModSymbol(x) : x \in {y \in Externs : y = n}} ELSE {}
StdNames(n, ns) == {e.symbol : e \in {y \in StdPrelude : y.name = n /\ y.ns = ns}}
LangNames(n, ns) == IF ns = "type" /\ n \in LangPrelude THEN {[kind |-> "lang", name |-> n]} ELSE {}

FirstNonEmpty(sets) ==
    IF \E k \in DOMAIN sets : sets[k] # {}
    THEN sets[CHOOSE k \in DOMAIN sets : sets[k] # {} /\ \A j \in 1 .. (k - 1) : sets[j] = {}]
    ELSE {}

Flexible(results, n, ns) ==
    FirstNonEmpty(<<results, ExternPrelude(n, ns), StdNames(n, ns), LangNames(n, ns)>>)

(* resolve_anchor: self, crate or an extern crate, then some supers.       *)
RECURSIVE Ancestors(_, _)
Ancestors(ms, ups) ==
    IF ups = 0 THEN ms
    ELSE Ancestors({Parent[m] : m \in ms \ ({Root} \cup Externs)}, ups - 1)

Anchor(m, path) ==
    Ancestors(CASE path.anchor = "self" -> {m}
                [] path.anchor = "crate" -> {Root}
                [] OTHER -> {x \in Externs : x = path.anchor}, path.ups)

(* NamedLookup: none, all, or those that a macro emitted.                  *)
Includes(named, i) == named = "all" \/ (named = "generated" /\ i.generated)

-----------------------------------------------------------------------------
(* f is the set of queries in flight, p the phase.                         *)
RECURSIVE ResolveName(_, _, _, _, _), Segments(_, _, _, _, _)

(* resolve_name_in: a module, or the flat children of an enum.             *)
ResolveIn(p, f, s, n, ns) ==
    CASE s.kind = "mod" /\ s.module \in Externs -> Exported(s.module, n, ns)
      [] s.kind = "mod" -> ResolveName(p, f, s.module, n, ns)
      [] s.kind = "def" /\ n \in s.item.variants -> {Variant(s, n, ns)}
      [] OTHER -> {}

Segments(p, f, symbols, segs, ns) ==
    IF segs = <<>> THEN symbols
    ELSE LET space == IF Len(segs) = 1 THEN ns ELSE "type"
         IN  Segments(p, f, UNION {ResolveIn(p, f, s, Head(segs), space) : s \in symbols},
                      Tail(segs), ns)

(* resolve_use, and resolve_path_in_module, which does the same.           *)
ResolveUse(p, f, m, path, ns) ==
    IF path.anchor = "relative"
    THEN LET first == Head(path.segs)
             space == IF Len(path.segs) = 1 THEN ns ELSE "type"
         IN  Segments(p, f, Flexible(ResolveName(p, f, m, first, space), first, space),
                      Tail(path.segs), ns)
    ELSE IF path.segs = <<>> /\ ns # "type" THEN {}
    ELSE Segments(p, f, {ModSymbol(x) : x \in Anchor(m, path)}, path.segs, ns)

(* resolve_glob: out of modules and enums.                                 *)
ResolveGlob(p, f, from, n, ns) == UNION {ResolveIn(p, f, s, n, ns) : s \in from}

LookupNamed(p, f, named, m, n, ns) ==
    {Definition(m, i) : i \in {d \in DirectItems(m) : d.name = n /\ d.ns = ns /\ Includes(named, d)}}
      \cup {ModSymbol(c) : c \in {k \in Children(m) : named = "all" /\ ns = "type" /\ ModName[k] = n}}
      \cup UNION {ResolveUse(p, f, m, u.path, ns) :
                    u \in {v \in Imports(m) : v.bind = n /\ Includes(named, v)}}

LookupGlobs(p, f, m, n, ns) ==
    UNION {ResolveGlob(p, f, ResolveUse(p, f, m, u.path, "type"), n, ns) :
             u \in {v \in Imports(m) : v.bind = "*"}}

(* Named bindings before globs, or, while macros are expanded, together.   *)
Bucket(p, f, m, n, ns) ==
    LET named == LookupNamed(p, f, "all", m, n, ns)
    IN  IF p = "expansion" THEN named \cup LookupGlobs(p, f, m, n, ns)
        ELSE IF named # {} THEN named ELSE LookupGlobs(p, f, m, n, ns)

\* Mutant: any query of the same module cuts a lookup off.
ResolveNameByModule(p, f, m, n, ns) ==
    IF \E q \in f : q[1] = m THEN {}
    ELSE IF m \in Externs THEN Exported(m, n, ns)
    ELSE Bucket(p, f \cup {<<m, n, ns>>}, m, n, ns)

(* resolve_name_from_module                                                *)
ResolveName(p, f, m, n, ns) ==
    IF <<m, n, ns>> \in f THEN {}
    ELSE IF m \in Externs THEN Exported(m, n, ns)
    ELSE Bucket(p, f \cup {<<m, n, ns>>}, m, n, ns)

(* A name and a path (resolve_path), as they are first asked for.          *)
NameIn(p, m, n, ns) == ResolveName(p, {}, m, n, ns)
PathIn(p, m, path, ns) == ResolveUse(p, {}, m, path, ns)

-----------------------------------------------------------------------------
(* import_root_is_expansion_ambiguous                                      *)
RootAmbiguous(m, path, ns) ==
    LET first == Head(path.segs)
        space == IF Len(path.segs) = 1 THEN ns ELSE "type"
        f == {<<m, first, space>>}
    IN  /\ path.anchor = "relative"
        /\ \E g \in LookupNamed("normal", f, "generated", m, first, space) :
              LookupGlobs("normal", f, m, first, space) \ {g} # {}

\* Mutant: a glob import is not audited.
DiagnosisNamedOnly(m, u) ==
    IF u.bind # "*" /\ \E ns \in Namespaces : RootAmbiguous(m, u.path, ns) THEN "ambiguous"
    ELSE IF \A ns \in Namespaces : PathIn("normal", m, u.path, ns) = {} THEN "unresolved"
    ELSE "fine"

(* LocalUseSym::diagnostics                                                *)
Diagnosis(m, u) ==
    IF \E ns \in (IF u.bind = "*" THEN {"type"} ELSE Namespaces) : RootAmbiguous(m, u.path, ns)
    THEN "ambiguous"
    ELSE IF \A ns \in Namespaces : PathIn("normal", m, u.path, ns) = {} THEN "unresolved"
    ELSE "fine"

-----------------------------------------------------------------------------
(* What the receiver's goal on a trait is known to be ("none": no trait).  *)
Certainty(s) == CASE s.kind = "def" -> s.item.trait
                  [] s.kind = "ext" -> s.trait
                  [] OTHER -> "none"
TraitsOf(symbols) == {s \in symbols : Certainty(s) # "none"}

(* trait_symbols_in_module                                                 *)
TraitsIn(m) == TraitsOf(IF m \in Externs THEN {e.symbol : e \in Exports[m]}
                        ELSE {Definition(m, i) : i \in DirectItems(m)})

(* module_expansion_complete_for_method_providers                          *)
RECURSIVE ExpansionComplete(_)
ExpansionComplete(m) ==
    /\ hidden[m] = {}
    /\ \A i \in items[m] : i.kind = "use" => ~i.blocked
    /\ \A c \in Children(m) : ExpansionComplete(c)

(* traits_in_method_scope: the traits, and whether they are all.           *)
Uses(m, glob) == {u \in Imports(m) : (u.bind = "*") = glob}
GlobModules(m, u) ==
    {s.module : s \in {t \in ResolveUse("normal", {}, m, u.path, "type") : t.kind = "mod"}}

TraitsInScope(m) ==
    TraitsIn(m)
      \cup UNION {TraitsOf(ResolveUse("normal", {}, m, u.path, "type")) : u \in Uses(m, FALSE)}
      \cup UNION {UNION {TraitsIn(x) : x \in GlobModules(m, u) \cap Externs} : u \in Uses(m, TRUE)}
      \cup TraitsOf({e.symbol : e \in StdPrelude})

\* Mutant: a glob of a local module is taken to bring in nothing more.
ScopeCompleteLocalGlobs(m) ==
    /\ ExpansionComplete(m)
    /\ \A u \in Uses(m, FALSE) :
          \E ns \in Namespaces : ResolveUse("normal", {}, m, u.path, ns) # {}
    /\ \A u \in Uses(m, TRUE) : GlobModules(m, u) # {}

ScopeComplete(m) ==
    /\ ExpansionComplete(m)
    /\ \A u \in Uses(m, FALSE) :
          \E ns \in Namespaces : ResolveUse("normal", {}, m, u.path, ns) # {}
    /\ \A u \in Uses(m, TRUE) : GlobModules(m, u) # {} /\ GlobModules(m, u) \subseteq Externs

(* resolve_trait_method, on a receiver without methods of its own and with *)
(* traits that all declare the method: what a call in module m finds.      *)
Method(m) ==
    LET definite == {t \in TraitsInScope(m) : Certainty(t) = "yes"}
        unknown == ~ScopeComplete(m) \/ \E t \in TraitsInScope(m) : Certainty(t) = "maybe"
    IN  CASE Cardinality(definite) > 1 -> [found |-> "ambiguous"]
          [] Cardinality(definite) <= 1 /\ unknown -> [found |-> "incomplete"]
          [] definite = {} /\ ~unknown -> [found |-> "nothing"]
          [] OTHER -> [found |-> "method", trait |-> CHOOSE t \in definite : TRUE]

-----------------------------------------------------------------------------
Size == Cardinality(UNION {{m} \X (items[m] \cup hidden[m]) : m \in Modules})

Init == /\ items = [m \in Modules |-> {}]
        /\ hidden = [m \in Modules |-> {}]

Write(m, i) == /\ Size < MaxItems
               /\ items' = [items EXCEPT ![m] = @ \cup {i}]
               /\ UNCHANGED hidden

(* A call that cannot be expanded yet.                                     *)
Call(m, i) == /\ Size < MaxItems
              /\ i \notin items[m]
              /\ hidden' = [hidden EXCEPT ![m] = @ \cup {i}]
              /\ UNCHANGED items

Expand(m, i) == /\ i \in hidden[m]
                /\ items' = [items EXCEPT ![m] = @ \cup {i}]
                /\ hidden' = [hidden EXCEPT ![m] = @ \ {i}]

Next == \/ \E w \in Written : Write(w[1], w[2])
        \/ \E e \in Emitted : Call(e[1], e[2])
        \/ \E m \in Modules : \E i \in hidden[m] : Expand(m, i)

Spec == Init /\ [][Next]_vars

-----------------------------------------------------------------------------
(* Reference: the modules that an import names.                            *)
Mentioned(m, u) ==
    {k \in Modules \ {Root} : \E j \in DOMAIN u.path.segs : u.path.segs[j] = ModName[k]}
      \cup (IF u.path.anchor = "relative" THEN {} ELSE Anchor(m, u.path) \ Externs)

RECURSIVE ReachFrom(_)
ReachFrom(ms) ==
    LET more == ms \cup UNION {UNION {Mentioned(m, u) : u \in Imports(m)} : m \in ms}
    IN  IF more = ms THEN ms ELSE ReachFrom(more)

(* The only cyclic imports are globs.                                      *)
GlobCyclesOnly ==
    \A m \in Modules : \A u \in Imports(m) :
        u.bind # "*" => m \notin ReachFrom(Mentioned(m, u))

(* What a module says of a name follows from its own bindings and from     *)
(* what the modules they lead to say when they are asked themselves: the   *)
(* cut of a query in flight loses and adds nothing, as long as cycles go   *)
(* through globs only.                                                     *)
Coherent ==
    GlobCyclesOnly =>
        \A p \in Phases, m \in Modules, n \in Names, ns \in Namespaces :
            NameIn(p, m, n, ns) = Bucket(p, {}, m, n, ns)

(* Negative reasoning requires completeness (resolution.sage,              *)
(* lookup.completeness): a call that selects a method, or finds that there *)
(* is none, has no rival among the traits that any name of the module      *)
(* leads to.                                                               *)
MethodUnrivalled ==
    \A m \in Modules :
        Method(m).found \in {"method", "nothing"} =>
            \A n \in Names : \A t \in TraitsOf(NameIn("normal", m, n, "type")) :
                Certainty(t) = "no" \/ (Method(m).found = "method" /\ Method(m).trait = t)

(* What the first segment of a relative import means, and whether the      *)
(* module has it from its globs only.                                      *)
Relatives(m) == {u \in Imports(m) : u.path.anchor = "relative"}
RootSpace(u, ns) == IF Len(u.path.segs) = 1 /\ u.bind # "*" THEN ns ELSE "type"

RootIn(m, u, ns) ==
    LET first == Head(u.path.segs)
        space == RootSpace(u, ns)
    IN  Flexible(NameIn("normal", m, first, space), first, space)

GlobRoot(m, u, ns) ==
    LET first == Head(u.path.segs)
        space == RootSpace(u, ns)
    IN  /\ NameIn("normal", m, first, space) # {}
        /\ LookupNamed("normal", {<<m, first, space>>}, "all", m, first, space) = {}

(* Final import validation rejects an import whose root has a generated    *)
(* and a glob binding (resolution.sage, expansion_import_ambiguity): when  *)
(* a macro of a module is expanded and an import of that module, whose     *)
(* root the module had from its globs, has another root afterwards, the    *)
(* audit of that very import reports it.                                   *)
RootsStay ==
    [][\A m \in Modules :
          hidden'[m] # hidden[m] =>
            \A u \in Relatives(m), ns \in Namespaces :
                GlobRoot(m, u, ns) =>
                    RootIn(m, u, ns)' = RootIn(m, u, ns) \/ Diagnosis(m, u)' = "ambiguous"]_items

(* Claims of the repository the code does not keep.                        *)

(* A module that has no named binding for a name gets through its globs    *)
(* only what the modules they lead to say themselves: a named binding      *)
(* keeps its precedence over the globs beside it, wherever the question    *)
(* starts ("module lookup then follows the applicable Rust namespace,      *)
(* imports, ancestry [...] rules rather than combining every visible       *)
(* name", resolution.sage).                                                *)
NamedFirst ==
    \A m \in Modules, n \in Names, ns \in Namespaces :
        LookupNamed("normal", {}, "all", m, n, ns) = {} =>
            NameIn("normal", m, n, ns) \subseteq LookupGlobs("normal", {}, m, n, ns)

(* "Expansion cannot silently change an unqualified import root"           *)
(* (resolution.sage:18): a root that meant something and means something   *)
(* else after an expansion is reported, wherever it came from.  A name of  *)
(* a prelude, and a name that another module's macro emits behind a glob,  *)
(* is replaced without a report.                                           *)
RootsNeverSilent ==
    [][hidden' # hidden =>
          \A m \in Modules : \A u \in Relatives(m), ns \in Namespaces :
              \/ RootIn(m, u, ns) \in {{}, RootIn(m, u, ns)'}
              \/ Diagnosis(m, u)' = "ambiguous"]_items

(* "The boolean is false when an unresolved import or macro could          *)
(* contribute another trait" (traits_in_method_scope): where it is true,   *)
(* no macro that is expanded later brings a trait into scope.              *)
ProvidersFinal ==
    [][\A m \in Modules :
          ScopeComplete(m) /\ hidden' # hidden => TraitsInScope(m)' \subseteq TraitsInScope(m)]_items
=============================================================================
