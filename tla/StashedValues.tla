--------------------------- MODULE StashedValues ---------------------------
(***************************************************************************)
(* Values across stashes: the deep copy of StashCopy (lib.rs and the       *)
(* derive of sage-stash-macros), and the fingerprint by which two          *)
(* Stashed<T> are compared (Stashed::new, FingerprintHasher).              *)
(*                                                                         *)
(* Both follow the handles of an entry, which always point to entries      *)
(* stored before it.  The 128-bit digest is taken to be injective: a       *)
(* fingerprint is the sequence of words given to the hasher.               *)
(***************************************************************************)
EXTENDS Stash, SequencesExt

\* Mutant: a handle is hashed as it is, by its index.
EntryFingerprintByIndex(cache, e) ==
    LET items == [v \in DOMAIN e.values |-> <<e.values[v].tag, e.values[v].kids>>]
    IN  IF e.many THEN <<Len(e.values), items>> ELSE items[1]

(* entry_fingerprint and stash_hash_slice: what is written for an entry,  *)
(* given the fingerprints of the entries below it.                         *)
EntryFingerprint(cache, e) ==
    LET items == [v \in DOMAIN e.values |->
                    <<e.values[v].tag,
                      [k \in DOMAIN e.values[v].kids |-> cache[e.values[v].kids[k]]]>>]
    IN  IF e.many THEN <<Len(e.values), items>> ELSE items[1]

(* FingerprintHasher computes each once and keeps it in its cache.         *)
Fingerprints(st) ==
    LET cache[i \in DOMAIN st.entries] == EntryFingerprint(cache, st.entries[i])
    IN  cache

(* Stashed::new and eq: the pairs of roots that compare equal.             *)
SameRoot(st, other) ==
    LET a == Fingerprints(st)
        b == Fingerprints(other)
    IN  {ij \in (DOMAIN a) \X (DOMAIN b) : a[ij[1]] = b[ij[2]]}

(* The entries that the copy of each entry allocates, in the order of the  *)
(* calls: for each value and each of its fields the field first, the entry *)
(* itself last.  A part that is shared is copied, and interned, again.     *)
FieldOrders(orders, v) == FlattenSeq([k \in DOMAIN v.kids |-> orders[v.kids[k]]])

EntryOrder(orders, e) == FlattenSeq([v \in DOMAIN e.values |-> FieldOrders(orders, e.values[v])])

WithOrder(orders, e) == Append(orders, EntryOrder(orders, e) \o <<Len(orders) + 1>>)

CopyOrders(st) ==
    LET orders[n \in 0 .. Len(st.entries)] ==
            IF n = 0 THEN <<>> ELSE WithOrder(orders[n - 1], st.entries[n])
    IN  orders[Len(st.entries)]

(* One alloc or alloc_slice of the copy.  at[i] is the handle in the       *)
(* target of what was copied from entry i.                                 *)
CopyEntry(st, acc, i) ==
    LET e == st.entries[i]
        values == [v \in DOMAIN e.values |->
                     [e.values[v] EXCEPT !.kids = [k \in DOMAIN @ |-> acc.at[@[k]]]]]
        r == Interned(acc.stash, e.type, e.many, values)
    IN  [stash |-> r.stash, at |-> [acc.at EXCEPT ![i] = r.index]]

(* stash_copy of the handle i of st into the stash target.                 *)
StashCopy(st, i, target) ==
    LET order == CopyOrders(st)[i]
        copied[n \in 0 .. Len(order)] ==
            IF n = 0 THEN [stash |-> target, at |-> [j \in DOMAIN st.entries |-> 0]]
            ELSE CopyEntry(st, copied[n - 1], order[n])
        end == copied[Len(order)]
    IN  [stash |-> end.stash, index |-> end.at[i]]

CopyInto(s, t) ==
    /\ s \in Live /\ t \in Live /\ s # t
    /\ \E i \in DOMAIN stash[s].entries :
          LET r == StashCopy(stash[s], i, stash[t])
          IN  /\ Room(t, r.stash)
              /\ stash' = [stash EXCEPT ![t] = r.stash]
    /\ UNCHANGED nextId

ValuesNext == Next \/ \E s, t \in Stashes : CopyInto(s, t)

ValuesSpec == Init /\ [][ValuesNext]_vars

-----------------------------------------------------------------------------
(* Index: the debug identity, then the bounds and the type of the entry.   *)
Accepts(st, id, i, type) ==
    id = st.id /\ i \in DOMAIN st.entries /\ st.entries[i].type = type

(* Reference: the tree each entry stands for, with nothing shared.         *)
Tree(trees, e) ==
    [type |-> e.type, many |-> e.many,
     values |-> [v \in DOMAIN e.values |->
                   [tag |-> e.values[v].tag,
                    kids |-> [k \in DOMAIN e.values[v].kids |-> trees[e.values[v].kids[k]]]]]]

Unfold(st) ==
    LET trees[i \in DOMAIN st.entries] == Tree(trees, st.entries[i])
    IN  trees

(* "The equality [...] of Stashed<T> use[s] a deterministic structural     *)
(* fingerprint of the reachable root, not stash addresses, allocation      *)
(* order, padding, or unreachable allocations" (storage.sage): roots of    *)
(* one type, in whatever stashes, have equal fingerprints exactly when     *)
(* they stand for equal trees.  Salsa backdates a query on this.           *)
RootedEquality ==
    \A s, t \in Live :
        LET a == Unfold(stash[s])
            b == Unfold(stash[t])
            same == SameRoot(stash[s], stash[t])
        IN  \A i \in DOMAIN a, j \in DOMAIN b :
              a[i].type = b[j].type /\ a[i].many = b[j].many =>
                (<<i, j>> \in same <=> a[i] = b[j])

(* "Copying between stashes preserves semantic content" (storage.sage): in *)
(* every state, copying any handle into any other stash gives a handle for *)
(* an equal tree, whatever the target held before, and leaves what the     *)
(* target held in place.                                                   *)
CopyPreserves ==
    \A s, t \in Live : s # t =>
        LET tree == Unfold(stash[s])
        IN  \A i \in DOMAIN tree :
              LET r == StashCopy(stash[s], i, stash[t])
              IN  /\ Unfold(r.stash)[r.index] = tree[i]
                  /\ IsPrefix(stash[t].entries, r.stash.entries)

(* A claim of the repository the code does not keep.                       *)

(* "A Ptr<T> or Slice<T> is interpreted only by its allocating Stash"      *)
(* (storage.sage): a handle of s that t accepts, by its identity check and *)
(* its type check, means to t what it means to s.                          *)
HandlesStayHome ==
    \A s, t \in Live : \A i \in DOMAIN stash[s].entries :
        Accepts(stash[t], stash[s].id, i, stash[s].entries[i].type) =>
            Unfold(stash[s])[i] = Unfold(stash[t])[i]
=============================================================================
