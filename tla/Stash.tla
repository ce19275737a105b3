------------------------------- MODULE Stash -------------------------------
(***************************************************************************)
(* The arena of crates/sage-stash/src/lib.rs: append-only storage in which *)
(* every value and every slice is hash-consed.  A handle (Ptr<T>,          *)
(* Slice<T>) is an index into the entries of one stash; two handles are    *)
(* equal when their indices are, so equality of handles stands for         *)
(* equality of content only if no content is ever stored twice.            *)
(*                                                                         *)
(* An entry holds values: records of a tag (the enum variant and whatever  *)
(* the type hashes directly) and of the handles in its fields.  Bytes,     *)
(* offsets and alignment of the buffer are left out.  A hash is a value of *)
(* a small set, so that different contents do collide.                     *)
(***************************************************************************)
EXTENDS Naturals, Sequences, FiniteSets

CONSTANTS
    Stashes,        \* names of places a Stash can live in
    Types,          \* the stash data types (TypeId of StaticSelf)
    Tags,           \* the variants
    Fields,         \* [Types -> [variants of the type -> Seq([many, type])]]
    Hash(_),        \* FxHasher: from what is written to it to a small set
    Kinds,          \* [many, type]: the handle types the program allocates
    None,           \* no stash lives here
    MaxEntries,     \* bound: entries of all stashes together
    MaxSlice,       \* bound: elements of one slice
    MaxIds          \* bound: stashes ever created

ASSUME FieldsAssumption ==
    \A T \in Types : /\ DOMAIN Fields[T] \subseteq Tags
                     /\ \A t \in DOMAIN Fields[T] : Len(Fields[T][t]) \in Nat

ASSUME BoundsAssumption == MaxSlice \in Nat

VARIABLES
    stash,          \* the stash at each place: entries, intern_map, id
    nextId          \* NEXT_STASH_ID

vars == <<stash, nextId>>

Live == {s \in Stashes : stash[s] # None}

(* The bound on the entries when the stash at s becomes st.                *)
Room(s, st) ==
    Cardinality({<<s, i>> : i \in DOMAIN st.entries}
                  \cup UNION {{<<t, i>> : i \in DOMAIN stash[t].entries} : t \in Live \ {s}})
      <= MaxEntries

-----------------------------------------------------------------------------
(* What the hasher is given: for a value its tag and, for each field, the  *)
(* hash stored in the entry the field points to (no recursion).  A slice   *)
(* writes its length first, which keeps a value and a slice of one element *)
(* apart: multiplication by FxHasher's odd constant is injective.          *)
Words(es, values) ==
    [i \in DOMAIN values |->
        [tag |-> values[i].tag,
         kids |-> [k \in DOMAIN values[i].kids |-> es[values[i].kids[k]].hash]]]

ContentHash(es, many, values) == [many |-> many, word |-> Hash(Words(es, values))]

InternKey(type, values, hash) == [type |-> type, count |-> Len(values), hash |-> hash]

(* The entries that intern_map holds under a key, in the order of their    *)
(* collision numbers.                                                      *)
Chain(st, key) == IF key \in DOMAIN st.intern THEN st.intern[key] ELSE <<>>

\* Mutant: the search looks at the first entry under a hash only.
MatchesFirst(st, type, many, values) ==
    LET chain == Chain(st, InternKey(type, values, ContentHash(st.entries, many, values)))
    IN  {chain[c] : c \in {d \in DOMAIN chain : d = 1 /\ st.entries[chain[d]].values = values}}

\* Mutant: entries found by their hash are taken for equal.
MatchesByHash(st, type, many, values) ==
    LET chain == Chain(st, InternKey(type, values, ContentHash(st.entries, many, values)))
    IN  {chain[c] : c \in DOMAIN chain}

(* The walk over the collision numbers compares contents, not hashes.      *)
Matches(st, type, many, values) ==
    LET key == InternKey(type, values, ContentHash(st.entries, many, values))
        chain == Chain(st, key)
    IN  {chain[c] : c \in {d \in DOMAIN chain : st.entries[chain[d]].values = values}}

(* push_raw and the insertion under the first free collision number.       *)
Pushed(st, type, many, values) ==
    LET hash == ContentHash(st.entries, many, values)
        key == InternKey(type, values, hash)
    IN  [entries |-> Append(st.entries, [type |-> type, many |-> many,
                                         values |-> values, hash |-> hash]),
         intern |-> [q \in DOMAIN st.intern \cup {key} |->
                        IF q = key THEN Append(Chain(st, key), Len(st.entries) + 1)
                        ELSE st.intern[q]],
         id |-> st.id]

(* alloc (many is FALSE) and alloc_slice: the stash afterwards, the handle.*)
Interned(st, type, many, values) ==
    LET found == Matches(st, type, many, values)
    IN  IF found # {} THEN [stash |-> st, index |-> CHOOSE i \in found : TRUE]
        ELSE [stash |-> Pushed(st, type, many, values), index |-> Len(st.entries) + 1]

(* The values of a type that a client of st can write down: every field is *)
(* a handle that this stash has returned for the field's type.             *)
ValuesOf(st, T) ==
    UNION {{[tag |-> t, kids |-> ks] :
              ks \in {f \in [1 .. Len(Fields[T][t]) -> 1 .. Len(st.entries)] :
                        \A k \in DOMAIN f : /\ st.entries[f[k]].type = Fields[T][t][k].type
                                            /\ st.entries[f[k]].many = Fields[T][t][k].many}} :
           t \in DOMAIN Fields[T]}

-----------------------------------------------------------------------------
NewStash == [entries |-> <<>>, intern |-> [q \in {} |-> <<>>], id |-> nextId]

Init == /\ stash = [s \in Stashes |-> None]
        /\ nextId = 1

New(s) == /\ stash[s] = None
          /\ nextId <= MaxIds
          /\ stash' = [stash EXCEPT ![s] = NewStash]
          /\ nextId' = nextId + 1

(* derive(Clone): the debug identity is copied with the rest.              *)
CloneStash(s, t) == /\ stash[s] # None
                    /\ stash[t] = None
                    /\ Room(t, stash[s])
                    /\ stash' = [stash EXCEPT ![t] = stash[s]]
                    /\ UNCHANGED nextId

Drop(s) == /\ stash[s] # None
           /\ stash' = [stash EXCEPT ![s] = None]
           /\ UNCHANGED nextId

Intern(s, T, many, values) ==
    LET after == Interned(stash[s], T, many, values).stash
    IN  /\ Room(s, after)
        /\ stash' = [stash EXCEPT ![s] = after]
        /\ UNCHANGED nextId

Alloc(s, T) == /\ stash[s] # None
               /\ [many |-> FALSE, type |-> T] \in Kinds
               /\ \E v \in ValuesOf(stash[s], T) : Intern(s, T, FALSE, <<v>>)

AllocSlice(s, T) ==
    /\ stash[s] # None
    /\ [many |-> TRUE, type |-> T] \in Kinds
    /\ \E n \in 0 .. MaxSlice : \E vs \in [1 .. n -> ValuesOf(stash[s], T)] :
          Intern(s, T, TRUE, vs)

AppendOne(s, T) ==
    /\ stash[s] # None
    /\ \E i \in DOMAIN stash[s].entries : \E v \in ValuesOf(stash[s], T) :
          LET e == stash[s].entries[i]
          IN  /\ e.many /\ e.type = T
              /\ Len(e.values) < MaxSlice
              /\ Intern(s, T, TRUE, Append(e.values, v))

Step(s) == \/ New(s)
           \/ Drop(s)
           \/ \E t \in Stashes : CloneStash(s, t)
           \/ \E T \in Types : Alloc(s, T) \/ AllocSlice(s, T) \/ AppendOne(s, T)

Next == \E s \in Stashes : Step(s)

Spec == Init /\ [][Next]_vars

-----------------------------------------------------------------------------
ValueOf == [tag : Tags, kids : Seq(Nat)]

EntryOK(e) == /\ e.type \in Types /\ e.many \in BOOLEAN
              /\ e.values \in Seq(ValueOf)
              /\ ~e.many => Len(e.values) = 1

StashOK(st) == /\ \A i \in DOMAIN st.entries : EntryOK(st.entries[i])
               /\ st.id \in Nat

(* Every stash is a table of well-formed entries; ids were handed out.     *)
TypeOK == /\ nextId \in Nat
          /\ \A s \in Live : StashOK(stash[s]) /\ stash[s].id < nextId

(* Content is stored once: "Equal content of the same stash data type      *)
(* yields the same handle, while hash collisions are resolved by actual    *)
(* content comparison rather than sharing" (storage.sage).  The hash of a  *)
(* value is taken again at every allocation, from the hashes its fields'   *)
(* entries hold by then.                                                   *)
HashConsed ==
    \A s \in Live : \A i, j \in DOMAIN stash[s].entries :
        LET a == stash[s].entries[i]
            b == stash[s].entries[j]
        IN  a.type = b.type /\ a.many = b.many /\ a.values = b.values => i = j
=============================================================================
