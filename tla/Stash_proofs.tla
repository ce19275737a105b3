---------------------------- MODULE Stash_proofs ----------------------------
(***************************************************************************)
(* Content is stored once in every stash, fingerprints decide equality of  *)
(* trees, and a copy stands for the tree it was made of: for every set of  *)
(* types, every hash function and every sequence of calls and copies.      *)
(*                                                                         *)
(* The search of alloc looks only at the entries of one key, so what has   *)
(* to be known is that an equal entry can be found there: the hash it was  *)
(* stored with is the one taken now (HashesStand, no entry it depends on   *)
(* has changed), and it is in the chain of that key (AllInterned).  About  *)
(* trees, that handles point to earlier entries (KidsBefore) of the type   *)
(* declared for the field (AllDeclared), and that what is found under a    *)
(* key has that key (ChainsKeyed).                                         *)
(***************************************************************************)
EXTENDS StashedValues, SequenceTheorems, WellFoundedInduction, TLAPS

KeyOf(e) == InternKey(e.type, e.values, e.hash)

(* The handles in values point to entries that are there.                  *)
Below(values, n) ==
    \A v \in DOMAIN values : \A k \in DOMAIN values[v].kids : values[v].kids[k] \in 1 .. n

Rows(st) == /\ Len(st.entries) \in Nat
            /\ st.entries \in Seq({st.entries[i] : i \in DOMAIN st.entries})

Chains(st) == \A q \in DOMAIN st.intern : st.intern[q] \in Seq(Nat)

KidsBefore(st) ==
    \A i \in 1 .. Len(st.entries) : Below(st.entries[i].values, i - 1)

(* They are of the types and kinds declared for the fields of the variant. *)
DeclaredOne(es, T, value) ==
    \A k \in DOMAIN value.kids :
        /\ es[value.kids[k]].type = Fields[T][value.tag][k].type
        /\ es[value.kids[k]].many = Fields[T][value.tag][k].many

Declared(es, T, values) == \A v \in DOMAIN values : DeclaredOne(es, T, values[v])

AllDeclared(st) ==
    \A i \in 1 .. Len(st.entries) :
        Declared(st.entries, st.entries[i].type, st.entries[i].values)

HashesStand(st) ==
    \A i \in 1 .. Len(st.entries) :
        st.entries[i].hash = ContentHash(st.entries, st.entries[i].many, st.entries[i].values)

AllInterned(st) ==
    \A i \in 1 .. Len(st.entries) :
        LET chain == Chain(st, KeyOf(st.entries[i]))
        IN  \E c \in DOMAIN chain : chain[c] = i

(* The chain of a key holds entries of that key only.                      *)
ChainsKeyed(st) ==
    \A q \in DOMAIN st.intern : \A c \in DOMAIN st.intern[q] :
        /\ st.intern[q][c] \in 1 .. Len(st.entries)
        /\ KeyOf(st.entries[st.intern[q][c]]) = q

Consed(st) ==
    \A i, j \in 1 .. Len(st.entries) :
        /\ st.entries[i].type = st.entries[j].type
        /\ st.entries[i].many = st.entries[j].many
        /\ st.entries[i].values = st.entries[j].values
        => i = j

Good(st) == /\ Rows(st)
            /\ Chains(st)
            /\ StashOK(st)
            /\ KidsBefore(st)
            /\ AllDeclared(st)
            /\ HashesStand(st)
            /\ AllInterned(st)
            /\ ChainsKeyed(st)
            /\ Consed(st)

IInv == /\ nextId \in Nat
        /\ stash = [s \in Stashes |-> stash[s]]
        /\ \A s \in Live : Good(stash[s]) /\ stash[s].id < nextId

-----------------------------------------------------------------------------
(* A hash depends on the entries below it only.                            *)
LEMMA WordsStand ==
    ASSUME NEW es, NEW fs, NEW n \in Nat, NEW values, Below(values, n),
           \A j \in 1 .. n : fs[j] = es[j]
    PROVE  Words(fs, values) = Words(es, values)
BY DEF Words, Below

LEMMA FunctionIsSeq ==
    ASSUME NEW S, NEW n \in Nat, NEW f \in [1 .. n -> S]
    PROVE  f \in Seq(S)
BY SeqDef

OneMore(es, fs, e) ==
    /\ fs \in Seq({fs[i] : i \in DOMAIN fs})
    /\ Len(fs) = Len(es) + 1
    /\ \A i \in 1 .. Len(es) : fs[i] = es[i]
    /\ fs[Len(es) + 1] = e

(* What push_raw leaves of the rows that are there.                        *)
LEMMA PushedRows ==
    ASSUME NEW st, Rows(st), NEW e, NEW es, es = Append(st.entries, e)
    PROVE  OneMore(st.entries, es, e)
<1> DEFINE R == {st.entries[i] : i \in DOMAIN st.entries}
<1>1. st.entries \in Seq(R \cup {e})
  BY DEF Rows
<1>2. es \in Seq(R \cup {e})
  BY <1>1
<1>3. Len(es) = Len(st.entries) + 1 /\ Len(st.entries) \in Nat
  BY <1>1
<1>4. \A i \in 1 .. Len(st.entries) : es[i] = st.entries[i]
  BY <1>1
<1>5. es[Len(st.entries) + 1] = e
  BY <1>1
<1>6. es \in Seq({es[i] : i \in DOMAIN es})
  <2>1. es \in [1 .. Len(es) -> R \cup {e}] /\ DOMAIN es = 1 .. Len(es)
    BY <1>2, LenProperties, Zenon
  <2>2. es \in [1 .. Len(es) -> {es[i] : i \in DOMAIN es}]
    BY <2>1
  <2>3. Len(es) \in Nat
    BY <1>3
  <2> HIDE DEF R
  <2> QED BY <2>2, <2>3, FunctionIsSeq
<1> QED BY <1>3, <1>4, <1>5, <1>6 DEF OneMore

(* A chain with a member is one the intern table holds.                    *)
LEMMA ChainOfKey ==
    ASSUME NEW st, NEW key, NEW c \in DOMAIN Chain(st, key)
    PROVE  key \in DOMAIN st.intern /\ Chain(st, key) = st.intern[key]
BY DEF Chain

(* An allocation that finds nothing: the hashes of the rows that are there *)
(* stand, the new row is in the chain of its key, and an equal row would   *)
(* have been in that chain before, and found.                              *)
LEMMA PushGood ==
    ASSUME NEW st, Good(st),
           NEW T \in Types, NEW many \in BOOLEAN, NEW values \in Seq(ValueOf),
           ~many => Len(values) = 1,
           Below(values, Len(st.entries)), Declared(st.entries, T, values),
           Matches(st, T, many, values) = {}
    PROVE  /\ Good(Pushed(st, T, many, values))
           /\ Pushed(st, T, many, values).id = st.id
<1> DEFINE es == st.entries
           n == Len(es)
           hash == ContentHash(es, many, values)
           key == InternKey(T, values, hash)
           e == [type |-> T, many |-> many, values |-> values, hash |-> hash]
           fs == Append(es, e)
           after == Pushed(st, T, many, values)
           longer == [q \in DOMAIN st.intern \cup {key} |->
                        IF q = key THEN Append(Chain(st, key), n + 1) ELSE st.intern[q]]
<1>1. after = [entries |-> fs, intern |-> longer, id |-> st.id]
  BY DEF Pushed
<1>2. after.entries = fs /\ after.intern = longer /\ after.id = st.id
  BY <1>1
<1> HIDE DEF after
<1>3. /\ n \in Nat
      /\ fs \in Seq({fs[i] : i \in DOMAIN fs})
      /\ Len(fs) = n + 1
      /\ \A i \in 1 .. n : fs[i] = es[i]
      /\ fs[n + 1] = e
  <2>1. Rows(st) /\ n \in Nat
    BY DEF Good, Rows
  <2>2. fs = Append(es, e)
    OBVIOUS
  <2> HIDE DEF e, fs
  <2>3. Rows(st)
    BY <2>1
  <2>4. OneMore(es, fs, e)
    BY <2>2, <2>3, PushedRows, Zenon
  <2> QED BY <2>1, <2>4 DEF OneMore
<1>4. DOMAIN es = 1 .. n /\ DOMAIN fs = 1 .. (n + 1)
  <2>1. DOMAIN es = 1 .. n
    BY LenProperties, Zenon DEF Good, Rows
  <2>2. DOMAIN fs = 1 .. Len(fs)
    BY <1>3, LenProperties, Zenon
  <2> QED BY <2>1, <2>2, <1>3
<1> HIDE DEF fs
<1>5. ASSUME NEW vs, Below(vs, n)
      PROVE  Words(fs, vs) = Words(es, vs)
  <2>1. n \in Nat
    BY <1>3
  <2>2. \A i \in 1 .. n : fs[i] = es[i]
    BY <1>3
  <2> HIDE DEF n, es
  <2> QED BY <1>5, <2>1, <2>2, WordsStand
<1>6. \A i \in 1 .. n : Below(es[i].values, n)
  <2>1. \A i \in 1 .. n : Below(es[i].values, i - 1)
    BY DEF Good, KidsBefore
  <2>2. n \in Nat
    BY <1>3
  <2> HIDE DEF n, es
  <2> QED BY <2>1, <2>2 DEF Below
<1>7. Rows(after)
  BY <1>2, <1>3 DEF Rows
<1>8. StashOK(after)
  <2>1. \A i \in 1 .. n : EntryOK(es[i])
    BY <1>4 DEF Good, StashOK
  <2>2. EntryOK(e)
    BY DEF EntryOK
  <2>3. st.id \in Nat
    BY DEF Good, StashOK
  <2>4. ASSUME NEW i \in 1 .. (n + 1)
        PROVE  EntryOK(fs[i])
    <3> HIDE DEF e
    <3>1. CASE i \in 1 .. n
      BY <3>1, <1>3, <2>1
    <3>2. CASE i = n + 1
      BY <3>2, <1>3, <2>2
    <3> QED BY <1>3, <3>1, <3>2
  <2> QED BY <1>2, <1>4, <2>3, <2>4 DEF StashOK
<1>9. KidsBefore(after) /\ AllDeclared(after)
  <2>1. \A i \in 1 .. n : Below(es[i].values, i - 1)
    BY DEF Good, KidsBefore
  <2>2. \A i \in 1 .. n : Declared(es, es[i].type, es[i].values)
    BY DEF Good, AllDeclared
  <2>3. \A i \in 1 .. (n + 1) : i \in 1 .. n \/ i = n + 1
    BY <1>3
  <2>4. ASSUME NEW T2, NEW vs, Below(vs, n), Declared(es, T2, vs)
        PROVE  Declared(fs, T2, vs)
    <3>1. \A i \in 1 .. n : fs[i] = es[i]
      BY <1>3
    <3> HIDE DEF n, es
    <3> SUFFICES ASSUME NEW v \in DOMAIN vs, NEW k \in DOMAIN vs[v].kids
                 PROVE  fs[vs[v].kids[k]] = es[vs[v].kids[k]]
      BY <2>4 DEF Declared, DeclaredOne
    <3> QED BY <2>4, <3>1 DEF Below
  <2>5. ASSUME NEW i \in 1 .. (n + 1)
        PROVE  Below(fs[i].values, i - 1) /\ Declared(fs, fs[i].type, fs[i].values)
    <3>1. CASE i \in 1 .. n
      <4>1. fs[i] = es[i]
        BY <3>1, <1>3
      <4> QED BY <3>1, <4>1, <1>6, <2>1, <2>2, <2>4
    <3>2. CASE i = n + 1
      <4>1. fs[i].values = values /\ fs[i].type = T /\ i - 1 = n
        BY <3>2, <1>3
      <4> QED BY <4>1, <2>4
    <3> QED BY <3>1, <3>2, <2>3
  <2> QED BY <1>2, <1>3, <2>5 DEF KidsBefore, AllDeclared
<1>10. HashesStand(after)
  <2>1. ASSUME NEW i \in 1 .. n
        PROVE  fs[i].hash = ContentHash(fs, fs[i].many, fs[i].values)
    <3>1. es[i].hash = ContentHash(es, es[i].many, es[i].values)
      BY DEF Good, HashesStand
    <3>2. Words(fs, es[i].values) = Words(es, es[i].values)
      BY <1>5, <1>6
    <3> QED BY <1>3, <3>1, <3>2 DEF ContentHash
  <2>2. fs[n + 1].hash = ContentHash(fs, fs[n + 1].many, fs[n + 1].values)
    <3>1. Words(fs, values) = Words(es, values)
      BY <1>5
    <3> QED BY <1>3, <3>1 DEF ContentHash
  <2>3. \A i \in 1 .. (n + 1) : i \in 1 .. n \/ i = n + 1
    BY <1>3
  <2> QED BY <1>2, <1>3, <2>1, <2>2, <2>3 DEF HashesStand
<1>11. /\ Chain(st, key) \in Seq(Nat)
       /\ Append(Chain(st, key), n + 1) \in Seq(Nat)
       /\ DOMAIN Append(Chain(st, key), n + 1) = 1 .. (Len(Chain(st, key)) + 1)
       /\ DOMAIN Chain(st, key) = 1 .. Len(Chain(st, key))
       /\ Len(Chain(st, key)) \in Nat
       /\ \A c \in DOMAIN Chain(st, key) : Append(Chain(st, key), n + 1)[c] = Chain(st, key)[c]
       /\ Append(Chain(st, key), n + 1)[Len(Chain(st, key)) + 1] = n + 1
  <2>1. Chain(st, key) \in Seq(Nat)
    BY DEF Chain, Good, Chains
  <2> DEFINE ch == Chain(st, key)
  <2> HIDE DEF ch
  <2>2. ch \in Seq(Nat)
    BY <2>1 DEF ch
  <2>3. n + 1 \in Nat
    BY <1>3
  <2> HIDE DEF n
  <2>4. /\ Append(ch, n + 1) \in Seq(Nat)
        /\ DOMAIN Append(ch, n + 1) = 1 .. (Len(ch) + 1)
        /\ DOMAIN ch = 1 .. Len(ch)
        /\ Len(ch) \in Nat
        /\ \A c \in DOMAIN ch : Append(ch, n + 1)[c] = ch[c]
        /\ Append(ch, n + 1)[Len(ch) + 1] = n + 1
    BY <2>2, <2>3
  <2> QED BY <2>2, <2>4 DEF ch
<1>12. Chains(after)
  <2>1. \A q \in DOMAIN st.intern : st.intern[q] \in Seq(Nat)
    BY DEF Good, Chains
  <2>2. DOMAIN longer = DOMAIN st.intern \cup {key}
    OBVIOUS
  <2>3. \A q \in DOMAIN longer : longer[q] \in Seq(Nat)
    BY <1>11, <2>1
  <2> HIDE DEF longer
  <2> QED BY <1>2, <2>3 DEF Chains
<1>13. AllInterned(after)
  <2>1. ASSUME NEW i \in 1 .. n
        PROVE  \E c \in DOMAIN Chain(after, KeyOf(fs[i])) : Chain(after, KeyOf(fs[i]))[c] = i
    <3>1. PICK c \in DOMAIN Chain(st, KeyOf(es[i])) : Chain(st, KeyOf(es[i]))[c] = i
      BY DEF Good, AllInterned
    <3>2. KeyOf(es[i]) \in DOMAIN st.intern
      BY <3>1 DEF Chain
    <3>3. CASE KeyOf(es[i]) = key
      <4>1. Chain(after, key) = Append(Chain(st, key), n + 1)
        BY <1>2 DEF Chain
      <4>2. c \in DOMAIN Append(Chain(st, key), n + 1)
        BY <1>11, <3>1, <3>3
      <4>3. Append(Chain(st, key), n + 1)[c] = i
        BY <1>11, <3>1, <3>3
      <4>4. KeyOf(fs[i]) = key
        BY <1>3, <3>3
      <4> HIDE DEF n, es, key
      <4> QED BY <4>1, <4>2, <4>3, <4>4
    <3>4. CASE KeyOf(es[i]) # key
      <4>1. Chain(after, KeyOf(es[i])) = Chain(st, KeyOf(es[i]))
        BY <1>2, <3>2, <3>4 DEF Chain
      <4> QED BY <1>3, <3>1, <4>1
    <3> QED BY <3>3, <3>4
  <2>2. \E c \in DOMAIN Chain(after, KeyOf(fs[n + 1])) : Chain(after, KeyOf(fs[n + 1]))[c] = n + 1
    <3>1. KeyOf(fs[n + 1]) = key
      BY <1>3 DEF KeyOf
    <3>2. Chain(after, key) = Append(Chain(st, key), n + 1)
      BY <1>2 DEF Chain
    <3>3. Len(Chain(st, key)) + 1 \in DOMAIN Append(Chain(st, key), n + 1)
      BY <1>11
    <3> QED BY <1>11, <3>1, <3>2, <3>3
  <2>3. \A i \in 1 .. (n + 1) : i \in 1 .. n \/ i = n + 1
    BY <1>3
  <2> QED BY <1>2, <1>3, <2>1, <2>2, <2>3 DEF AllInterned
<1>14. ChainsKeyed(after)
  <2>1. ASSUME NEW q \in DOMAIN longer, NEW c \in DOMAIN longer[q]
        PROVE  longer[q][c] \in 1 .. (n + 1) /\ KeyOf(fs[longer[q][c]]) = q
    <3>1. \A p \in DOMAIN st.intern : \A d \in DOMAIN st.intern[p] :
            st.intern[p][d] \in 1 .. n /\ KeyOf(es[st.intern[p][d]]) = p
      BY DEF Good, ChainsKeyed
    <3>2. \A p \in DOMAIN st.intern : \A d \in DOMAIN st.intern[p] :
            st.intern[p][d] \in 1 .. (n + 1) /\ KeyOf(fs[st.intern[p][d]]) = p
      <4>1. \A i \in 1 .. n : i \in 1 .. (n + 1) /\ fs[i] = es[i]
        BY <1>3
      <4> HIDE DEF n, es
      <4> QED BY <3>1, <4>1
    <3>3. CASE q # key
      BY <2>1, <3>2, <3>3
    <3>4. CASE q = key
      <4>1. longer[q] = Append(Chain(st, key), n + 1)
        BY <3>4
      <4>2. c \in DOMAIN Chain(st, key) \/ c = Len(Chain(st, key)) + 1
        BY <1>11, <2>1, <4>1
      <4>3. CASE c \in DOMAIN Chain(st, key)
        <5>1. key \in DOMAIN st.intern /\ Chain(st, key) = st.intern[key]
          BY <4>3, ChainOfKey, Zenon
        <5>2. longer[q][c] = st.intern[key][c]
          BY <1>11, <4>1, <4>3, <5>1
        <5>3. st.intern[key][c] \in 1 .. (n + 1) /\ KeyOf(fs[st.intern[key][c]]) = key
          BY <3>2, <4>3, <5>1
        <5> HIDE DEF n, es, key, longer
        <5> QED BY <3>4, <5>2, <5>3
      <4>4. CASE c = Len(Chain(st, key)) + 1
        <5>1. longer[q][c] = n + 1
          BY <1>11, <4>1, <4>4
        <5>2. KeyOf(fs[n + 1]) = key
          BY <1>3 DEF KeyOf
        <5>3. n \in Nat
          BY <1>3
        <5> HIDE DEF n, es, key, longer
        <5> QED BY <3>4, <5>1, <5>2, <5>3
      <4> QED BY <4>2, <4>3, <4>4
    <3> QED BY <3>3, <3>4
  <2> HIDE DEF longer
  <2> QED BY <1>2, <1>3, <2>1 DEF ChainsKeyed
<1>15. Consed(after)
  <2>1. ASSUME NEW i \in 1 .. n,
               es[i].type = T, es[i].many = many, es[i].values = values
        PROVE  FALSE
    <3>1. es[i].hash = hash
      BY <2>1 DEF Good, HashesStand
    <3>2. KeyOf(es[i]) = key
      BY <2>1, <3>1 DEF KeyOf
    <3>3. PICK c \in DOMAIN Chain(st, key) : Chain(st, key)[c] = i
      BY <3>2 DEF Good, AllInterned
    <3>4. i \in Matches(st, T, many, values)
      BY <2>1, <3>3 DEF Matches
    <3> QED BY <3>4
  <2>2. \A i, j \in 1 .. n : /\ es[i].type = es[j].type
                            /\ es[i].many = es[j].many
                            /\ es[i].values = es[j].values
                            => i = j
    BY DEF Good, Consed
  <2>3. \A i \in 1 .. (n + 1) : i \in 1 .. n \/ i = n + 1
    BY <1>3
  <2>4. e.type = T /\ e.many = many /\ e.values = values
    OBVIOUS
  <2>5. ASSUME NEW i \in 1 .. (n + 1), NEW j \in 1 .. (n + 1),
               fs[i].type = fs[j].type, fs[i].many = fs[j].many, fs[i].values = fs[j].values
        PROVE  i = j
    <3>1. CASE i \in 1 .. n /\ j \in 1 .. n
      <4>1. fs[i] = es[i] /\ fs[j] = es[j]
        BY <3>1, <1>3
      <4> QED BY <2>2, <2>5, <3>1, <4>1
    <3>2. CASE i \in 1 .. n /\ j = n + 1
      <4>1. fs[i] = es[i] /\ fs[j] = e
        BY <3>2, <1>3
      <4>2. es[i].type = T /\ es[i].many = many /\ es[i].values = values
        BY <2>5, <4>1, <2>4
      <4> QED BY <2>1, <3>2, <4>2
    <3>3. CASE i = n + 1 /\ j \in 1 .. n
      <4>1. fs[j] = es[j] /\ fs[i] = e
        BY <3>3, <1>3
      <4>2. es[j].type = T /\ es[j].many = many /\ es[j].values = values
        BY <2>5, <4>1, <2>4
      <4> QED BY <2>1, <3>3, <4>2
    <3>4. CASE i = n + 1 /\ j = n + 1
      BY <3>4
    <3> QED BY <3>1, <3>2, <3>3, <3>4, <2>3
  <2> QED BY <1>2, <1>3, <2>5 DEF Consed
<1> QED BY <1>2, <1>7, <1>8, <1>9, <1>10, <1>12, <1>13, <1>14, <1>15 DEF Good, after

(* What a client can write down is a value whose handles are there.        *)
LEMMA ValuesThere ==
    ASSUME NEW st, Good(st), NEW T \in Types, NEW v \in ValuesOf(st, T)
    PROVE  /\ v \in ValueOf
           /\ \A k \in DOMAIN v.kids : v.kids[k] \in 1 .. Len(st.entries)
           /\ DeclaredOne(st.entries, T, v)
<1>1. PICK t \in DOMAIN Fields[T] :
        \E ks \in [1 .. Len(Fields[T][t]) -> 1 .. Len(st.entries)] :
           /\ v = [tag |-> t, kids |-> ks]
           /\ \A k \in DOMAIN ks : /\ st.entries[ks[k]].type = Fields[T][t][k].type
                                   /\ st.entries[ks[k]].many = Fields[T][t][k].many
  BY DEF ValuesOf
<1>2. PICK ks \in [1 .. Len(Fields[T][t]) -> 1 .. Len(st.entries)] :
        /\ v = [tag |-> t, kids |-> ks]
        /\ \A k \in DOMAIN ks : /\ st.entries[ks[k]].type = Fields[T][t][k].type
                                /\ st.entries[ks[k]].many = Fields[T][t][k].many
  BY <1>1
<1>3. t \in Tags
  BY FieldsAssumption
<1>4. ks \in Seq(Nat)
  <2>1. Len(Fields[T][t]) \in Nat
    BY FieldsAssumption
  <2>2. ks \in [1 .. Len(Fields[T][t]) -> Nat]
    BY <1>2
  <2> QED BY <2>1, <2>2, SeqDef
<1>5. DeclaredOne(st.entries, T, v)
  BY <1>2 DEF DeclaredOne
<1> QED BY <1>2, <1>3, <1>4, <1>5 DEF ValueOf

(* Any allocation keeps a stash in order.                                  *)
LEMMA InternedGood ==
    ASSUME NEW st, Good(st),
           NEW T \in Types, NEW many \in BOOLEAN, NEW values \in Seq(ValueOf),
           ~many => Len(values) = 1,
           Below(values, Len(st.entries)), Declared(st.entries, T, values)
    PROVE  /\ Good(Interned(st, T, many, values).stash)
           /\ Interned(st, T, many, values).stash.id = st.id
<1>1. CASE Matches(st, T, many, values) = {}
  <2>1. Interned(st, T, many, values).stash = Pushed(st, T, many, values)
    BY <1>1 DEF Interned
  <2> QED BY <1>1, <2>1, PushGood
<1>2. CASE Matches(st, T, many, values) # {}
  <2>1. Interned(st, T, many, values).stash = st
    BY <1>2 DEF Interned
  <2> QED BY <2>1
<1> QED BY <1>1, <1>2

(* What a stash holds stays where it is.                                   *)
Extends(st, after) ==
    /\ Len(st.entries) <= Len(after.entries)
    /\ \A i \in 1 .. Len(st.entries) : after.entries[i] = st.entries[i]

(* The handle returned is for what was asked, whether found or stored.     *)
LEMMA InternedThere ==
    ASSUME NEW st, Good(st), NEW T, NEW many, NEW values
    PROVE  LET r == Interned(st, T, many, values)
           IN  /\ Extends(st, r.stash)
               /\ r.index \in 1 .. Len(r.stash.entries)
               /\ r.stash.entries[r.index].type = T
               /\ r.stash.entries[r.index].many = many
               /\ r.stash.entries[r.index].values = values
<1> DEFINE found == Matches(st, T, many, values)
           hash == ContentHash(st.entries, many, values)
           key == InternKey(T, values, hash)
<1>1. CASE found = {}
  <2>1. /\ Interned(st, T, many, values).stash = Pushed(st, T, many, values)
        /\ Interned(st, T, many, values).index = Len(st.entries) + 1
    BY <1>1 DEF Interned
  <2> DEFINE e == [type |-> T, many |-> many, values |-> values, hash |-> hash]
             es == Append(st.entries, e)
  <2>2. Pushed(st, T, many, values).entries = es
    BY DEF Pushed
  <2>3. e.type = T /\ e.many = many /\ e.values = values
    OBVIOUS
  <2>4. Rows(st) /\ es = Append(st.entries, e)
    BY DEF Good
  <2> HIDE DEF e, es
  <2>5. OneMore(st.entries, es, e)
    BY <2>4, PushedRows, Zenon
  <2> QED BY <2>1, <2>2, <2>3, <2>4, <2>5 DEF OneMore, Extends, Rows
<1>2. CASE found # {}
  <2> DEFINE i == CHOOSE j \in found : TRUE
  <2>1. /\ Interned(st, T, many, values).stash = st
        /\ Interned(st, T, many, values).index = i
    BY <1>2 DEF Interned
  <2>2. i \in found
    BY <1>2
  <2> HIDE DEF i
  <2>3. PICK c \in DOMAIN Chain(st, key) : Chain(st, key)[c] = i /\ st.entries[i].values = values
    BY <2>2 DEF Matches
  <2>4. key \in DOMAIN st.intern /\ Chain(st, key) = st.intern[key]
    BY <2>3 DEF Chain
  <2>5. i \in 1 .. Len(st.entries) /\ KeyOf(st.entries[i]) = key
    BY <2>3, <2>4 DEF Good, ChainsKeyed
  <2>6. st.entries[i].type = T /\ st.entries[i].hash = hash
    BY <2>5 DEF KeyOf, InternKey
  <2>7. st.entries[i].many = many
    <3>1. st.entries[i].hash.many = st.entries[i].many
      <4> DEFINE e == st.entries[i]
      <4>1. e.hash = ContentHash(st.entries, e.many, e.values)
        BY <2>5 DEF Good, HashesStand
      <4> HIDE DEF e
      <4>2. e.hash.many = e.many
        BY <4>1 DEF ContentHash
      <4> QED BY <4>2 DEF e
    <3>2. hash.many = many
      BY DEF ContentHash
    <3> QED BY <2>6, <3>1, <3>2
  <2> QED BY <2>1, <2>3, <2>5, <2>6, <2>7 DEF Extends, Good, Rows
<1> QED BY <1>1, <1>2

LEMMA InternKeeps ==
    ASSUME IInv, NEW s \in Live, NEW T \in Types, NEW many \in BOOLEAN,
           NEW values \in Seq(ValueOf), ~many => Len(values) = 1,
           Below(values, Len(stash[s].entries)), Declared(stash[s].entries, T, values),
           Intern(s, T, many, values)
    PROVE  IInv'
<1> DEFINE after == Interned(stash[s], T, many, values).stash
<1>1. Good(after) /\ after.id = stash[s].id
  BY InternedGood DEF IInv
<1>2. stash' = [stash EXCEPT ![s] = after] /\ nextId' = nextId
  BY DEF Intern
<1> HIDE DEF after
<1>3. s \in Stashes
  BY DEF Live
<1>4. stash' = [t \in Stashes |-> stash'[t]]
  BY <1>2, <1>3 DEF IInv
<1>5. ASSUME NEW t \in Live'
      PROVE  Good(stash'[t]) /\ stash'[t].id < nextId'
  <2>1. CASE t = s
    BY <1>1, <1>2, <1>3, <2>1 DEF IInv
  <2>2. CASE t # s
    BY <1>2, <1>3, <1>5, <2>2 DEF IInv, Live
  <2> QED BY <2>1, <2>2
<1> QED BY <1>2, <1>4, <1>5 DEF IInv

LEMMA NewGood == nextId \in Nat => Good(NewStash) /\ NewStash.id = nextId
<1> SUFFICES ASSUME nextId \in Nat
             PROVE  Good(NewStash) /\ NewStash.id = nextId
  OBVIOUS
<1>1. NewStash.entries = <<>> /\ NewStash.id = nextId /\ DOMAIN NewStash.intern = {}
  BY DEF NewStash
<1>2. Len(<<>>) = 0 /\ DOMAIN <<>> = {} /\ 1 .. 0 = {}
  BY SMT
<1>3. <<>> \in Seq({NewStash.entries[i] : i \in DOMAIN NewStash.entries})
  BY EmptySeq
<1> HIDE DEF NewStash
<1>4. Rows(NewStash)
  BY <1>1, <1>2, <1>3 DEF Rows
<1> QED BY <1>1, <1>2, <1>4
        DEF Good, Chains, StashOK, KidsBefore, AllDeclared, HashesStand, AllInterned,
            ChainsKeyed, Consed

LEMMA InvInit == Init => IInv
BY DEF Init, IInv, Live

LEMMA InvStep == IInv /\ [Next]_vars => IInv'
<1> SUFFICES ASSUME IInv, [Next]_vars PROVE IInv'
  OBVIOUS
<1>1. CASE UNCHANGED vars
  BY <1>1 DEF vars, IInv, Live
<1>2. ASSUME NEW s \in Stashes, New(s)
      PROVE  IInv'
  <2>1. Good(NewStash) /\ NewStash.id = nextId
    BY NewGood DEF IInv
  <2>2. stash' = [stash EXCEPT ![s] = NewStash] /\ nextId' = nextId + 1
    BY <1>2 DEF New
  <2> HIDE DEF NewStash
  <2>3. ASSUME NEW t \in Live'
        PROVE  Good(stash'[t]) /\ stash'[t].id < nextId'
    <3>1. CASE t = s
      BY <2>1, <2>2, <3>1 DEF IInv
    <3>2. CASE t # s
      <4>1. stash'[t] = stash[t] /\ t \in Live
        BY <2>2, <2>3, <3>2 DEF IInv, Live
      <4>2. Good(stash[t]) /\ stash[t].id < nextId /\ stash[t].id \in Nat
        BY <4>1 DEF IInv, Good, StashOK
      <4> QED BY <2>2, <4>1, <4>2 DEF IInv
    <3> QED BY <3>1, <3>2
  <2> QED BY <2>2, <2>3 DEF IInv
<1>3. ASSUME NEW s \in Stashes, Drop(s)
      PROVE  IInv'
  BY <1>3 DEF Drop, IInv, Live
<1>4. ASSUME NEW s \in Stashes, NEW t \in Stashes, CloneStash(s, t)
      PROVE  IInv'
  <2>1. stash' = [stash EXCEPT ![t] = stash[s]] /\ nextId' = nextId /\ s \in Live
    BY <1>4 DEF CloneStash, Live
  <2>2. ASSUME NEW u \in Live'
        PROVE  Good(stash'[u]) /\ stash'[u].id < nextId'
    <3>1. CASE u = t
      BY <2>1, <3>1 DEF IInv
    <3>2. CASE u # t
      BY <2>1, <2>2, <3>2 DEF IInv, Live
    <3> QED BY <3>1, <3>2
  <2> QED BY <2>1, <2>2 DEF IInv
<1>5. ASSUME NEW s \in Stashes, NEW T \in Types, Alloc(s, T)
      PROVE  IInv'
  <2>1. s \in Live /\ Good(stash[s])
    BY <1>5 DEF Alloc, Live, IInv
  <2>2. PICK v \in ValuesOf(stash[s], T) : Intern(s, T, FALSE, <<v>>)
    BY <1>5 DEF Alloc
  <2>3. /\ v \in ValueOf
        /\ \A k \in DOMAIN v.kids : v.kids[k] \in 1 .. Len(stash[s].entries)
        /\ DeclaredOne(stash[s].entries, T, v)
    BY <2>1, ValuesThere
  <2>4. <<v>> \in Seq(ValueOf) /\ Len(<<v>>) = 1 /\ DOMAIN <<v>> = {1} /\ <<v>>[1] = v
    BY <2>3
  <2>5. Below(<<v>>, Len(stash[s].entries))
    BY <2>3, <2>4 DEF Below
  <2>6. Declared(stash[s].entries, T, <<v>>)
    BY <2>3, <2>4 DEF Declared
  <2> QED BY <2>1, <2>2, <2>4, <2>5, <2>6, InternKeeps
<1>6. ASSUME NEW s \in Stashes, NEW T \in Types, AllocSlice(s, T)
      PROVE  IInv'
  <2>1. s \in Live /\ Good(stash[s])
    BY <1>6 DEF AllocSlice, Live, IInv
  <2>2. PICK n \in 0 .. MaxSlice : \E vs \in [1 .. n -> ValuesOf(stash[s], T)] : Intern(s, T, TRUE, vs)
    BY <1>6 DEF AllocSlice
  <2>3. PICK vs \in [1 .. n -> ValuesOf(stash[s], T)] : Intern(s, T, TRUE, vs)
    BY <2>2
  <2>4. n \in Nat
    BY <2>2, BoundsAssumption
  <2>5. \A v \in ValuesOf(stash[s], T) :
          /\ v \in ValueOf
          /\ \A k \in DOMAIN v.kids : v.kids[k] \in 1 .. Len(stash[s].entries)
          /\ DeclaredOne(stash[s].entries, T, v)
    BY <2>1, ValuesThere
  <2>6. vs \in Seq(ValueOf)
    BY <2>3, <2>4, <2>5, FunctionIsSeq
  <2>7. Below(vs, Len(stash[s].entries))
    BY <2>3, <2>5 DEF Below
  <2>8. Declared(stash[s].entries, T, vs)
    BY <2>3, <2>5 DEF Declared
  <2> QED BY <2>1, <2>3, <2>6, <2>7, <2>8, InternKeeps
<1>7. ASSUME NEW s \in Stashes, NEW T \in Types, AppendOne(s, T)
      PROVE  IInv'
  <2>1. s \in Live /\ Good(stash[s])
    BY <1>7 DEF AppendOne, Live, IInv
  <2>2. PICK i \in DOMAIN stash[s].entries, v \in ValuesOf(stash[s], T) :
          /\ stash[s].entries[i].type = T
          /\ Intern(s, T, TRUE, Append(stash[s].entries[i].values, v))
    BY <1>7 DEF AppendOne
  <2> DEFINE old == stash[s].entries[i].values
  <2>3. old \in Seq(ValueOf)
    BY <2>1 DEF Good, StashOK, EntryOK
  <2>4. DOMAIN stash[s].entries = 1 .. Len(stash[s].entries)
    BY <2>1, LenProperties, Zenon DEF Good, Rows
  <2>5. Below(old, Len(stash[s].entries))
    <3>1. Below(old, i - 1) /\ i \in 1 .. Len(stash[s].entries)
      BY <2>1, <2>4 DEF Good, KidsBefore
    <3>2. Len(stash[s].entries) \in Nat
      BY <2>1 DEF Good, Rows
    <3> HIDE DEF old
    <3> QED BY <3>1, <3>2 DEF Below
  <2>6. /\ v \in ValueOf
        /\ \A k \in DOMAIN v.kids : v.kids[k] \in 1 .. Len(stash[s].entries)
        /\ DeclaredOne(stash[s].entries, T, v)
    BY <2>1, ValuesThere
  <2> DEFINE new == Append(old, v)
  <2>7. /\ new \in Seq(ValueOf)
        /\ \A c \in DOMAIN new : (c \in DOMAIN old /\ new[c] = old[c]) \/ new[c] = v
    <3> HIDE DEF old
    <3> QED BY <2>3, <2>6
  <2>8. Below(new, Len(stash[s].entries))
    <3> HIDE DEF new, old
    <3> QED BY <2>5, <2>6, <2>7 DEF Below
  <2>9. Declared(stash[s].entries, T, new)
    <3>1. Declared(stash[s].entries, T, old)
      BY <2>1, <2>2, <2>4 DEF Good, AllDeclared
    <3> HIDE DEF new, old
    <3> QED BY <2>6, <2>7, <3>1 DEF Declared
  <2> QED BY <2>1, <2>2, <2>7, <2>8, <2>9, InternKeeps
<1> QED BY <1>1, <1>2, <1>3, <1>4, <1>5, <1>6, <1>7 DEF Next, Step

-----------------------------------------------------------------------------
(* Induction over the natural numbers, about sets.                         *)

LEMMA LeastNumber ==
  ASSUME NEW S \in SUBSET Nat, S # {}
  PROVE  \E m \in S : \A k \in S : m <= k
  <1>1. IsWellFoundedOn(OpToRel(<, Nat), Nat)
    BY NatLessThanWellFounded
  <1>2. PICK m \in S : \A k \in S : ~ (<<k, m>> \in OpToRel(<, Nat))
    BY <1>1, WFMin
  <1>3. OpToRel(<, Nat) = {p \in Nat \X Nat : p[1] < p[2]}
    BY DEF OpToRel
  <1>4. ASSUME NEW k \in S PROVE m <= k
    <2>1. <<k, m>> \in Nat \X Nat /\ <<k, m>>[1] = k /\ <<k, m>>[2] = m
      OBVIOUS
    <2>2. ~ (k < m)
      BY <1>2, <1>3, <2>1
    <2> QED BY <2>2
  <1> QED BY <1>4

LEMMA EveryNumber ==
  ASSUME NEW S, 0 \in S, \A n \in Nat : n \in S => n + 1 \in S
  PROVE  Nat \subseteq S
  <1> SUFFICES ASSUME Nat \ S # {} PROVE FALSE
    OBVIOUS
  <1>1. PICK m \in Nat \ S : \A k \in Nat \ S : m <= k
    BY LeastNumber
  <1>2. m # 0
    OBVIOUS
  <1>3. m - 1 \in Nat /\ ~ (m <= m - 1)
    BY <1>2
  <1>4. m - 1 \in S
    BY <1>1, <1>3
  <1> QED BY <1>3, <1>4

-----------------------------------------------------------------------------
(* The trees that entries stand for, and their fingerprints.               *)

Table(st) == DOMAIN st.entries = 1 .. Len(st.entries) /\ Len(st.entries) \in Nat

LEMMA GoodTable == ASSUME NEW st, Good(st) PROVE Table(st)
BY LenProperties, Zenon DEF Good, Rows, Table

Kids(e) == UNION {{e.values[v].kids[k] : k \in DOMAIN e.values[v].kids} : v \in DOMAIN e.values}

LEMMA KidsOfRow ==
    ASSUME NEW st, Good(st), NEW i \in 1 .. Len(st.entries), NEW j \in Kids(st.entries[i])
    PROVE  j \in 1 .. (i - 1) /\ j \in 1 .. Len(st.entries) /\ j < i
<1>1. Below(st.entries[i].values, i - 1)
  BY DEF Good, KidsBefore
<1>2. j \in 1 .. (i - 1)
  BY <1>1 DEF Below, Kids
<1> QED BY <1>2 DEF Good, Rows

Items(cache, e) ==
    [v \in DOMAIN e.values |->
        <<e.values[v].tag, [k \in DOMAIN e.values[v].kids |-> cache[e.values[v].kids[k]]]>>]

LEMMA FingerprintOfItems ==
    ASSUME NEW cache, NEW e
    PROVE  EntryFingerprint(cache, e) =
             IF e.many THEN <<Len(e.values), Items(cache, e)>> ELSE Items(cache, e)[1]
BY DEF EntryFingerprint, Items

(* A tree, and a fingerprint, depends on those of the kids only.           *)
LEMMA TreeByKids ==
    ASSUME NEW e, NEW f, NEW g, \A j \in Kids(e) : f[j] = g[j]
    PROVE  Tree(f, e) = Tree(g, e) /\ EntryFingerprint(f, e) = EntryFingerprint(g, e)
<1>1. ASSUME NEW v \in DOMAIN e.values, NEW k \in DOMAIN e.values[v].kids
      PROVE  f[e.values[v].kids[k]] = g[e.values[v].kids[k]]
  BY DEF Kids
<1>2. \A v \in DOMAIN e.values :
        [k \in DOMAIN e.values[v].kids |-> f[e.values[v].kids[k]]]
          = [k \in DOMAIN e.values[v].kids |-> g[e.values[v].kids[k]]]
  BY <1>1
<1>3. Tree(f, e) = Tree(g, e)
  BY <1>2 DEF Tree
<1>4. Items(f, e) = Items(g, e)
  BY <1>2 DEF Items
<1>5. EntryFingerprint(f, e) = EntryFingerprint(g, e)
  BY <1>4, FingerprintOfItems, Zenon
<1> QED BY <1>3, <1>5

(* What Unfold computes exists, entry by entry.                            *)
TreesIn(st, n, trees) == trees = [i \in 1 .. n |-> Tree(trees, st.entries[i])]

LEMMA TreesExist ==
    ASSUME NEW st, Good(st)
    PROVE  \E trees : TreesIn(st, Len(st.entries), trees)
<1> DEFINE n == Len(st.entries)
           S == {m \in Nat : m <= n => \E trees : TreesIn(st, m, trees)}
<1>1. n \in Nat
  BY DEF Good, Rows
<1>2. 0 \in S
  <2> DEFINE trees == [i \in 1 .. 0 |-> 0]
  <2>1. TreesIn(st, 0, trees)
    BY DEF TreesIn
  <2> QED BY <2>1
<1>3. ASSUME NEW m \in Nat, m \in S PROVE m + 1 \in S
  <2> SUFFICES ASSUME m + 1 <= n PROVE \E trees : TreesIn(st, m + 1, trees)
    OBVIOUS
  <2>1. PICK trees : TreesIn(st, m, trees)
    BY <1>1, <1>3
  <2> DEFINE more == [i \in 1 .. (m + 1) |->
                        IF i = m + 1 THEN Tree(trees, st.entries[m + 1]) ELSE trees[i]]
  <2>2. \A i \in 1 .. m : more[i] = trees[i]
    OBVIOUS
  <2>3. more[m + 1] = Tree(trees, st.entries[m + 1]) /\ more = [i \in 1 .. (m + 1) |-> more[i]]
    OBVIOUS
  <2> HIDE DEF more
  <2>4. ASSUME NEW i \in 1 .. (m + 1)
        PROVE  more[i] = Tree(more, st.entries[i])
    <3>1. i \in 1 .. n
      BY <1>1
    <3>2. ASSUME NEW j \in Kids(st.entries[i]) PROVE j \in 1 .. m
      <4>1. j \in 1 .. (i - 1) /\ i \in Nat
        BY <3>1, KidsOfRow
      <4> QED BY <4>1
    <3>3. Tree(more, st.entries[i]) = Tree(trees, st.entries[i])
      BY <2>2, <3>2, TreeByKids
    <3>4. CASE i = m + 1
      BY <2>3, <3>3, <3>4
    <3>5. CASE i # m + 1
      <4>1. i \in 1 .. m
        BY <3>5
      <4>2. trees[i] = Tree(trees, st.entries[i])
        BY <2>1, <4>1 DEF TreesIn
      <4> QED BY <2>2, <3>3, <4>1, <4>2
    <3> QED BY <3>4, <3>5
  <2>5. TreesIn(st, m + 1, more)
    BY <2>3, <2>4 DEF TreesIn
  <2> QED BY <2>5
<1> HIDE DEF S
<1>4. n \in S
  BY <1>1, <1>2, <1>3, EveryNumber
<1> QED BY <1>1, <1>4 DEF S

LEMMA UnfoldSteps ==
    ASSUME NEW st, Good(st)
    PROVE  /\ DOMAIN Unfold(st) = 1 .. Len(st.entries)
           /\ \A i \in 1 .. Len(st.entries) : Unfold(st)[i] = Tree(Unfold(st), st.entries[i])
<1> DEFINE trees == CHOOSE f : TreesIn(st, Len(st.entries), f)
<1>1. TreesIn(st, Len(st.entries), trees)
  BY TreesExist
<1>2. Unfold(st) = trees
  BY GoodTable DEF Unfold, TreesIn, Table
<1> HIDE DEF trees
<1> QED BY <1>1, <1>2 DEF TreesIn

(* What Fingerprints computes exists too.                                  *)
CacheIn(st, n, cache) == cache = [i \in 1 .. n |-> EntryFingerprint(cache, st.entries[i])]

LEMMA CacheExists ==
    ASSUME NEW st, Good(st)
    PROVE  \E cache : CacheIn(st, Len(st.entries), cache)
<1> DEFINE n == Len(st.entries)
           S == {m \in Nat : m <= n => \E cache : CacheIn(st, m, cache)}
<1>1. n \in Nat
  BY DEF Good, Rows
<1>2. 0 \in S
  <2> DEFINE cache == [i \in 1 .. 0 |-> 0]
  <2>1. CacheIn(st, 0, cache)
    BY DEF CacheIn
  <2> QED BY <2>1
<1>3. ASSUME NEW m \in Nat, m \in S PROVE m + 1 \in S
  <2> SUFFICES ASSUME m + 1 <= n PROVE \E cache : CacheIn(st, m + 1, cache)
    OBVIOUS
  <2>1. PICK cache : CacheIn(st, m, cache)
    BY <1>1, <1>3
  <2> DEFINE more == [i \in 1 .. (m + 1) |->
                        IF i = m + 1 THEN EntryFingerprint(cache, st.entries[m + 1]) ELSE cache[i]]
  <2>2. \A i \in 1 .. m : more[i] = cache[i]
    OBVIOUS
  <2>3. /\ more[m + 1] = EntryFingerprint(cache, st.entries[m + 1])
        /\ more = [i \in 1 .. (m + 1) |-> more[i]]
    OBVIOUS
  <2> HIDE DEF more
  <2>4. ASSUME NEW i \in 1 .. (m + 1)
        PROVE  more[i] = EntryFingerprint(more, st.entries[i])
    <3>1. i \in 1 .. n
      BY <1>1
    <3>2. ASSUME NEW j \in Kids(st.entries[i]) PROVE j \in 1 .. m
      <4>1. j \in 1 .. (i - 1) /\ i \in Nat
        BY <3>1, KidsOfRow
      <4> QED BY <4>1
    <3>3. EntryFingerprint(more, st.entries[i]) = EntryFingerprint(cache, st.entries[i])
      BY <2>2, <3>2, TreeByKids
    <3>4. CASE i = m + 1
      BY <2>3, <3>3, <3>4
    <3>5. CASE i # m + 1
      <4>1. i \in 1 .. m
        BY <3>5
      <4>2. cache[i] = EntryFingerprint(cache, st.entries[i])
        BY <2>1, <4>1 DEF CacheIn
      <4> QED BY <2>2, <3>3, <4>1, <4>2
    <3> QED BY <3>4, <3>5
  <2>5. CacheIn(st, m + 1, more)
    BY <2>3, <2>4 DEF CacheIn
  <2> QED BY <2>5
<1> HIDE DEF S
<1>4. n \in S
  BY <1>1, <1>2, <1>3, EveryNumber
<1> QED BY <1>1, <1>4 DEF S

LEMMA FingerprintSteps ==
    ASSUME NEW st, Good(st)
    PROVE  /\ DOMAIN Fingerprints(st) = 1 .. Len(st.entries)
           /\ \A i \in 1 .. Len(st.entries) :
                 Fingerprints(st)[i] = EntryFingerprint(Fingerprints(st), st.entries[i])
<1> DEFINE cache == CHOOSE f : CacheIn(st, Len(st.entries), f)
<1>1. CacheIn(st, Len(st.entries), cache)
  BY CacheExists
<1>2. Fingerprints(st) = cache
  BY GoodTable DEF Fingerprints, CacheIn, Table
<1> HIDE DEF cache
<1> QED BY <1>1, <1>2 DEF CacheIn

(* A larger stash gives the old handles the trees they had.                *)
LEMMA UnfoldStays ==
    ASSUME NEW st, NEW after, Good(st), Good(after), Extends(st, after)
    PROVE  \A i \in 1 .. Len(st.entries) : Unfold(after)[i] = Unfold(st)[i]
<1> DEFINE n == Len(st.entries)
           S == {i \in 1 .. n : Unfold(after)[i] # Unfold(st)[i]}
<1> SUFFICES ASSUME S # {} PROVE FALSE
  OBVIOUS
<1>1. S \in SUBSET Nat
  OBVIOUS
<1>2. PICK m \in S : \A k \in S : m <= k
  BY <1>1, LeastNumber
<1>3. /\ m \in 1 .. n /\ Unfold(after)[m] # Unfold(st)[m]
      /\ \A k \in 1 .. n : k < m => Unfold(after)[k] = Unfold(st)[k]
  BY <1>2
<1> HIDE DEF S
<1>4. m \in 1 .. Len(after.entries) /\ after.entries[m] = st.entries[m]
  BY <1>3 DEF Extends, Good, Rows
<1>5. \A j \in Kids(st.entries[m]) : Unfold(after)[j] = Unfold(st)[j]
  BY <1>3, KidsOfRow
<1>6. Tree(Unfold(after), st.entries[m]) = Tree(Unfold(st), st.entries[m])
  BY <1>5, TreeByKids
<1>7. Unfold(st)[m] = Tree(Unfold(st), st.entries[m])
  BY <1>3, UnfoldSteps
<1>8. Unfold(after)[m] = Tree(Unfold(after), after.entries[m])
  BY <1>4, UnfoldSteps
<1> QED BY <1>3, <1>4, <1>6, <1>7, <1>8

(* Two entries with the same variants, and fields that f and g give the    *)
(* same meaning.                                                           *)
Alike(f, e, g, d) ==
    /\ DOMAIN e.values = DOMAIN d.values
    /\ \A v \in DOMAIN e.values :
          /\ e.values[v].tag = d.values[v].tag
          /\ DOMAIN e.values[v].kids = DOMAIN d.values[v].kids
          /\ \A k \in DOMAIN e.values[v].kids : f[e.values[v].kids[k]] = g[d.values[v].kids[k]]

FieldValues(f, v) == [k \in DOMAIN v.kids |-> f[v.kids[k]]]

LEMMA FieldsAlike ==
    ASSUME NEW f, NEW v, NEW g, NEW w
    PROVE  FieldValues(f, v) = FieldValues(g, w)
             <=> /\ DOMAIN v.kids = DOMAIN w.kids
                 /\ \A k \in DOMAIN v.kids : f[v.kids[k]] = g[w.kids[k]]
<1>1. /\ DOMAIN FieldValues(f, v) = DOMAIN v.kids
      /\ \A k \in DOMAIN v.kids : FieldValues(f, v)[k] = f[v.kids[k]]
  BY DEF FieldValues
<1>2. /\ DOMAIN FieldValues(g, w) = DOMAIN w.kids
      /\ \A k \in DOMAIN w.kids : FieldValues(g, w)[k] = g[w.kids[k]]
  BY DEF FieldValues
<1>3. ASSUME DOMAIN v.kids = DOMAIN w.kids,
             \A k \in DOMAIN v.kids : f[v.kids[k]] = g[w.kids[k]]
      PROVE  FieldValues(f, v) = FieldValues(g, w)
  BY <1>3 DEF FieldValues
<1> QED BY <1>1, <1>2, <1>3

LEMMA ItemsAlike ==
    ASSUME NEW f, NEW e, NEW g, NEW d
    PROVE  Items(f, e) = Items(g, d) <=> Alike(f, e, g, d)
<1>1. /\ DOMAIN Items(f, e) = DOMAIN e.values
      /\ \A v \in DOMAIN e.values :
            Items(f, e)[v] = <<e.values[v].tag, FieldValues(f, e.values[v])>>
  BY DEF Items, FieldValues
<1>2. /\ DOMAIN Items(g, d) = DOMAIN d.values
      /\ \A v \in DOMAIN d.values :
            Items(g, d)[v] = <<d.values[v].tag, FieldValues(g, d.values[v])>>
  BY DEF Items, FieldValues
<1>3. ASSUME DOMAIN e.values = DOMAIN d.values,
             \A v \in DOMAIN e.values : Items(f, e)[v] = Items(g, d)[v]
      PROVE  Items(f, e) = Items(g, d)
  <2>1. Items(f, e) = [v \in DOMAIN e.values |-> Items(f, e)[v]]
    BY DEF Items
  <2>2. Items(g, d) = [v \in DOMAIN d.values |-> Items(g, d)[v]]
    BY DEF Items
  <2> QED BY <1>3, <2>1, <2>2
<1>4. ASSUME NEW v \in DOMAIN e.values, DOMAIN e.values = DOMAIN d.values
      PROVE  Items(f, e)[v] = Items(g, d)[v]
               <=> /\ e.values[v].tag = d.values[v].tag
                   /\ DOMAIN e.values[v].kids = DOMAIN d.values[v].kids
                   /\ \A k \in DOMAIN e.values[v].kids :
                         f[e.values[v].kids[k]] = g[d.values[v].kids[k]]
  <2>1. Items(f, e)[v] = Items(g, d)[v]
          <=> /\ e.values[v].tag = d.values[v].tag
              /\ FieldValues(f, e.values[v]) = FieldValues(g, d.values[v])
    BY <1>1, <1>2, <1>4
  <2> QED BY <2>1, FieldsAlike
<1> QED BY <1>1, <1>2, <1>3, <1>4 DEF Alike

(* Trees are equal when the entries are alike, and so are fingerprints: a  *)
(* fingerprint leaves out the type and the kind, which the type of the     *)
(* field or the root gives.                                                *)
LEMMA TreesAlike ==
    ASSUME NEW f, NEW e, NEW g, NEW d
    PROVE  Tree(f, e) = Tree(g, d) <=> e.type = d.type /\ e.many = d.many /\ Alike(f, e, g, d)
<1> DEFINE Vals(h, r) == [v \in DOMAIN r.values |->
                            [tag |-> r.values[v].tag, kids |-> FieldValues(h, r.values[v])]]
<1>1. \A h, r : Tree(h, r) = [type |-> r.type, many |-> r.many, values |-> Vals(h, r)]
  BY DEF Tree, FieldValues
<1>2. \A h, r : /\ DOMAIN Vals(h, r) = DOMAIN r.values
                /\ \A v \in DOMAIN r.values :
                      Vals(h, r)[v] = [tag |-> r.values[v].tag, kids |-> FieldValues(h, r.values[v])]
                /\ Vals(h, r) = [v \in DOMAIN r.values |-> Vals(h, r)[v]]
  OBVIOUS
<1> HIDE DEF Vals
<1>3. Tree(f, e) = Tree(g, d) <=> e.type = d.type /\ e.many = d.many /\ Vals(f, e) = Vals(g, d)
  BY <1>1
<1>4. ASSUME NEW v \in DOMAIN e.values, DOMAIN e.values = DOMAIN d.values
      PROVE  Vals(f, e)[v] = Vals(g, d)[v]
               <=> /\ e.values[v].tag = d.values[v].tag
                   /\ DOMAIN e.values[v].kids = DOMAIN d.values[v].kids
                   /\ \A k \in DOMAIN e.values[v].kids :
                         f[e.values[v].kids[k]] = g[d.values[v].kids[k]]
  <2>1. Vals(f, e)[v] = [tag |-> e.values[v].tag, kids |-> FieldValues(f, e.values[v])]
    BY <1>2
  <2>2. Vals(g, d)[v] = [tag |-> d.values[v].tag, kids |-> FieldValues(g, d.values[v])]
    BY <1>2, <1>4
  <2>3. Vals(f, e)[v] = Vals(g, d)[v]
          <=> /\ e.values[v].tag = d.values[v].tag
              /\ FieldValues(f, e.values[v]) = FieldValues(g, d.values[v])
    BY <2>1, <2>2
  <2> QED BY <2>3, FieldsAlike
<1>5. ASSUME DOMAIN e.values = DOMAIN d.values,
             \A v \in DOMAIN e.values : Vals(f, e)[v] = Vals(g, d)[v]
      PROVE  Vals(f, e) = Vals(g, d)
  <2>1. Vals(f, e) = [v \in DOMAIN e.values |-> Vals(f, e)[v]]
    BY <1>2
  <2>2. Vals(g, d) = [v \in DOMAIN d.values |-> Vals(g, d)[v]]
    BY <1>2
  <2> QED BY <1>5, <2>1, <2>2
<1>6. Vals(f, e) = Vals(g, d) => DOMAIN e.values = DOMAIN d.values
  BY <1>2
<1> QED BY <1>3, <1>4, <1>5, <1>6 DEF Alike

LEMMA TreeSays ==
    ASSUME NEW f, NEW e
    PROVE  Tree(f, e).type = e.type /\ Tree(f, e).many = e.many
BY DEF Tree

LEMMA FingerprintsAlike ==
    ASSUME NEW f, NEW e, NEW g, NEW d, EntryOK(e), EntryOK(d), e.many = d.many
    PROVE  EntryFingerprint(f, e) = EntryFingerprint(g, d) <=> Alike(f, e, g, d)
<1>1. /\ EntryFingerprint(f, e) = IF e.many THEN <<Len(e.values), Items(f, e)>> ELSE Items(f, e)[1]
      /\ EntryFingerprint(g, d) = IF d.many THEN <<Len(d.values), Items(g, d)>> ELSE Items(g, d)[1]
  BY FingerprintOfItems, Zenon
<1>2. Items(f, e) = Items(g, d) <=> Alike(f, e, g, d)
  BY ItemsAlike
<1>3. e.values \in Seq(ValueOf) /\ d.values \in Seq(ValueOf)
  BY DEF EntryOK
<1>4. CASE e.many
  <2>1. Alike(f, e, g, d) => Len(e.values) = Len(d.values)
    <3>1. Len(e.values) \in Nat /\ DOMAIN e.values = 1 .. Len(e.values)
      BY <1>3
    <3>2. Len(d.values) \in Nat /\ DOMAIN d.values = 1 .. Len(d.values)
      BY <1>3
    <3>3. ASSUME NEW a \in Nat, NEW b \in Nat, 1 .. a = 1 .. b PROVE a = b
      <4>1. a > 0 => a \in 1 .. b
        BY <3>3
      <4>2. b > 0 => b \in 1 .. a
        BY <3>3
      <4> QED BY <4>1, <4>2
    <3> QED BY <3>1, <3>2, <3>3 DEF Alike
  <2> QED BY <1>1, <1>2, <1>4, <2>1
<1>5. CASE ~ e.many
  <2>1. DOMAIN e.values = {1} /\ DOMAIN d.values = {1}
    BY <1>3, <1>5 DEF EntryOK
  <2>2. Items(f, e)[1] = Items(g, d)[1] <=> Items(f, e) = Items(g, d)
    <3>1. Items(f, e) = [v \in {1} |-> Items(f, e)[v]]
      BY <2>1 DEF Items
    <3>2. Items(g, d) = [v \in {1} |-> Items(g, d)[v]]
      BY <2>1 DEF Items
    <3> QED BY <3>1, <3>2
  <2> QED BY <1>1, <1>2, <1>5, <2>2
<1> QED BY <1>4, <1>5

(* Equality of fingerprints is equality of trees: of two fields of one     *)
(* variant the types and kinds are equal by declaration.                   *)
LEMMA SameTrees ==
    ASSUME NEW st, NEW other, Good(st), Good(other)
    PROVE  \A i \in 1 .. Len(st.entries), j \in 1 .. Len(other.entries) :
              /\ st.entries[i].type = other.entries[j].type
              /\ st.entries[i].many = other.entries[j].many
              => (Fingerprints(st)[i] = Fingerprints(other)[j] <=> Unfold(st)[i] = Unfold(other)[j])
<1> DEFINE Fp == Fingerprints(st)
           Gp == Fingerprints(other)
           Ut == Unfold(st)
           Vt == Unfold(other)
           n == Len(st.entries)
           m == Len(other.entries)
           Same(i) == \A j \in 1 .. m : /\ st.entries[i].type = other.entries[j].type
                                        /\ st.entries[i].many = other.entries[j].many
                                        => (Fp[i] = Gp[j] <=> Ut[i] = Vt[j])
           S == {i \in 1 .. n : ~ Same(i)}
<1> SUFFICES ASSUME S # {} PROVE FALSE
  OBVIOUS
<1>1. S \in SUBSET Nat
  OBVIOUS
<1>2. PICK i \in S : \A k \in S : i <= k
  BY <1>1, LeastNumber
<1>3. i \in 1 .. n /\ ~ Same(i) /\ \A k \in 1 .. n : k < i => Same(k)
  BY <1>2
<1> HIDE DEF S
<1>4. PICK j \in 1 .. m : /\ st.entries[i].type = other.entries[j].type
                          /\ st.entries[i].many = other.entries[j].many
                          /\ ~ (Fp[i] = Gp[j] <=> Ut[i] = Vt[j])
  BY <1>3
<1> DEFINE e == st.entries[i]
           d == other.entries[j]
<1>5. /\ Fp[i] = EntryFingerprint(Fp, e) /\ Gp[j] = EntryFingerprint(Gp, d)
      /\ Ut[i] = Tree(Ut, e) /\ Vt[j] = Tree(Vt, d)
  BY <1>3, <1>4, UnfoldSteps, FingerprintSteps
<1>6. \A k \in 1 .. n : k < i => Same(k)
  BY <1>3
<1>7. \A k \in Kids(e) : k \in 1 .. n /\ k < i
  BY <1>3, KidsOfRow
<1>8. \A k \in Kids(d) : k \in 1 .. m
  BY <1>4, KidsOfRow
<1>9. EntryOK(e) /\ EntryOK(d)
  BY <1>3, <1>4, GoodTable DEF Good, StashOK, Table
<1>10. Declared(st.entries, e.type, e.values) /\ Declared(other.entries, d.type, d.values)
  BY <1>3, <1>4 DEF Good, AllDeclared
<1>11. e.type = d.type /\ e.many = d.many
  BY <1>4
<1> HIDE DEF e, d, Fp, Gp, Ut, Vt, n, m
<1>12. ASSUME NEW v \in DOMAIN e.values, DOMAIN e.values = DOMAIN d.values,
              e.values[v].tag = d.values[v].tag,
              DOMAIN e.values[v].kids = DOMAIN d.values[v].kids,
              NEW k \in DOMAIN e.values[v].kids
       PROVE  Fp[e.values[v].kids[k]] = Gp[d.values[v].kids[k]]
                <=> Ut[e.values[v].kids[k]] = Vt[d.values[v].kids[k]]
  <2> DEFINE a == e.values[v].kids[k]
             b == d.values[v].kids[k]
  <2>1. /\ a \in Kids(e)
        /\ b \in Kids(d)
    BY <1>12 DEF Kids
  <2>2. a \in 1 .. n /\ b \in 1 .. m /\ a < i
    <3> HIDE DEF a, b
    <3>1. a \in 1 .. n /\ a < i
      BY <1>7, <2>1, Zenon
    <3>2. b \in 1 .. m
      BY <1>8, <2>1, Zenon
    <3> QED BY <3>1, <3>2
  <2>3. st.entries[a].type = other.entries[b].type /\ st.entries[a].many = other.entries[b].many
    BY <1>10, <1>11, <1>12 DEF Declared, DeclaredOne
  <2> HIDE DEF a, b
  <2>4. Same(a)
    BY <1>6, <2>2
  <2>5. Fp[a] = Gp[b] <=> Ut[a] = Vt[b]
    BY <2>2, <2>3, <2>4
  <2> QED BY <2>5 DEF a, b
<1>13. Alike(Fp, e, Gp, d) <=> Alike(Ut, e, Vt, d)
  BY <1>12 DEF Alike
<1>14. Fp[i] = Gp[j] <=> Alike(Fp, e, Gp, d)
  BY <1>5, <1>9, <1>11, FingerprintsAlike
<1>15. Ut[i] = Vt[j] <=> Alike(Ut, e, Vt, d)
  BY <1>5, <1>11, TreesAlike
<1> QED BY <1>4, <1>13, <1>14, <1>15

-----------------------------------------------------------------------------
(* The order of a copy: what an entry points to is copied before it.       *)

Closed(es, order) ==
    /\ order \in Seq(Nat)
    /\ \A p \in 1 .. Len(order) :
          /\ order[p] \in 1 .. Len(es)
          /\ \A j \in Kids(es[order[p]]) : \E q \in 1 .. (p - 1) : order[q] = j

Joined(a, b, c) == c = a \o b

LEMMA ClosedConcat ==
    ASSUME NEW es, NEW a, NEW b, Closed(es, a), Closed(es, b), NEW c, Joined(a, b, c)
    PROVE  Closed(es, c) /\ ToSet(c) = ToSet(a) \cup ToSet(b)
<1>1. /\ a \in Seq(Nat) /\ b \in Seq(Nat) /\ a \o b \in Seq(Nat)
      /\ Len(a) \in Nat /\ Len(b) \in Nat /\ Len(a \o b) = Len(a) + Len(b)
      /\ DOMAIN a = 1 .. Len(a) /\ DOMAIN b = 1 .. Len(b) /\ DOMAIN (a \o b) = 1 .. Len(a \o b)
  BY DEF Closed
<1>2. /\ \A p \in 1 .. Len(a) : (a \o b)[p] = a[p]
      /\ \A p \in 1 .. Len(b) : (a \o b)[Len(a) + p] = b[p]
  BY <1>1
<1>3. /\ c \in Seq(Nat) /\ Len(c) = Len(a) + Len(b) /\ DOMAIN c = 1 .. Len(c)
      /\ \A p \in 1 .. Len(a) : c[p] = a[p]
      /\ \A p \in 1 .. Len(b) : c[Len(a) + p] = b[p]
  BY <1>1, <1>2 DEF Joined
<1>4. ASSUME NEW p \in 1 .. Len(c)
      PROVE  \/ p \in 1 .. Len(a)
             \/ p - Len(a) \in 1 .. Len(b) /\ p = Len(a) + (p - Len(a))
  BY <1>1, <1>3
<1>5. ASSUME NEW p \in 1 .. Len(c)
      PROVE  /\ c[p] \in 1 .. Len(es)
             /\ \A j \in Kids(es[c[p]]) : \E q \in 1 .. (p - 1) : c[q] = j
  <2>1. CASE p \in 1 .. Len(a)
    <3>1. c[p] = a[p] /\ a[p] \in 1 .. Len(es)
      BY <1>3, <2>1 DEF Closed
    <3>2. ASSUME NEW j \in Kids(es[a[p]]) PROVE \E q \in 1 .. (p - 1) : c[q] = j
      <4>1. PICK q \in 1 .. (p - 1) : a[q] = j
        BY <2>1 DEF Closed
      <4>2. q \in 1 .. Len(a)
        BY <1>1, <2>1
      <4> QED BY <1>3, <4>1, <4>2
    <3> QED BY <3>1, <3>2
  <2>2. CASE p \notin 1 .. Len(a)
    <3> DEFINE r == p - Len(a)
    <3>1. r \in 1 .. Len(b) /\ p = Len(a) + r
      BY <1>4, <2>2
    <3> HIDE DEF r
    <3>2. c[p] = b[r] /\ b[r] \in 1 .. Len(es)
      BY <1>3, <3>1 DEF Closed
    <3>3. ASSUME NEW j \in Kids(es[b[r]]) PROVE \E q \in 1 .. (p - 1) : c[q] = j
      <4>1. PICK q \in 1 .. (r - 1) : b[q] = j
        BY <3>1 DEF Closed
      <4>2. q \in 1 .. Len(b) /\ Len(a) + q \in 1 .. (p - 1)
        BY <1>1, <3>1
      <4> QED BY <1>3, <4>1, <4>2
    <3> QED BY <3>2, <3>3
  <2> QED BY <2>1, <2>2
<1>6. ToSet(c) = ToSet(a) \cup ToSet(b)
  <2>1. ASSUME NEW p \in 1 .. Len(c) PROVE c[p] \in ToSet(a) \cup ToSet(b)
    BY <1>1, <1>3, <1>4 DEF ToSet
  <2>2. ASSUME NEW p \in 1 .. Len(a) PROVE a[p] \in ToSet(c)
    <3>1. p \in 1 .. Len(c)
      BY <1>1, <1>3
    <3> QED BY <1>3, <3>1 DEF ToSet
  <2>3. ASSUME NEW p \in 1 .. Len(b) PROVE b[p] \in ToSet(c)
    <3>1. Len(a) + p \in 1 .. Len(c)
      BY <1>1, <1>3
    <3> QED BY <1>3, <3>1 DEF ToSet
  <2>4. /\ ToSet(c) = {c[p] : p \in 1 .. Len(c)}
        /\ ToSet(a) = {a[p] : p \in 1 .. Len(a)}
        /\ ToSet(b) = {b[p] : p \in 1 .. Len(b)}
    BY <1>1, <1>3, Zenon DEF ToSet
  <2> QED BY <2>1, <2>2, <2>3, <2>4
<1> QED BY <1>3, <1>5, <1>6 DEF Closed

(* What FlattenSeq computes exists, part by part.                          *)
FlatIn(parts, n, flat) ==
    flat = [i \in 1 .. n |-> IF i = 1 THEN parts[i] ELSE flat[i - 1] \o parts[i]]

LEMMA FlatExists ==
    ASSUME NEW parts, NEW n \in Nat
    PROVE  \E flat : FlatIn(parts, n, flat)
<1> DEFINE S == {m \in Nat : \E flat : FlatIn(parts, m, flat)}
<1>1. 0 \in S
  <2> DEFINE flat == [i \in 1 .. 0 |-> 0]
  <2>1. FlatIn(parts, 0, flat)
    BY DEF FlatIn
  <2> QED BY <2>1
<1>2. ASSUME NEW m \in Nat, m \in S PROVE m + 1 \in S
  <2>1. PICK flat : FlatIn(parts, m, flat)
    BY <1>2
  <2> DEFINE last == IF m = 0 THEN parts[1] ELSE flat[m] \o parts[m + 1]
             more == [i \in 1 .. (m + 1) |-> IF i = m + 1 THEN last ELSE flat[i]]
  <2>2. \A i \in 1 .. m : more[i] = flat[i]
    OBVIOUS
  <2>3. more[m + 1] = last /\ more = [i \in 1 .. (m + 1) |-> more[i]]
    OBVIOUS
  <2> HIDE DEF more
  <2>4. ASSUME NEW i \in 1 .. (m + 1)
        PROVE  more[i] = IF i = 1 THEN parts[i] ELSE more[i - 1] \o parts[i]
    <3>1. CASE i = m + 1
      <4>1. i # 1 => m # 0 /\ i - 1 = m /\ more[m] = flat[m]
        BY <2>2, <3>1
      <4> QED BY <2>3, <3>1, <4>1
    <3>2. CASE i # m + 1
      <4>1. i \in 1 .. m /\ (i # 1 => i - 1 \in 1 .. m)
        BY <3>2
      <4>2. flat[i] = IF i = 1 THEN parts[i] ELSE flat[i - 1] \o parts[i]
        BY <2>1, <4>1 DEF FlatIn
      <4> QED BY <2>2, <4>1, <4>2
    <3> QED BY <3>1, <3>2
  <2>5. FlatIn(parts, m + 1, more)
    BY <2>3, <2>4 DEF FlatIn
  <2> QED BY <2>5
<1> HIDE DEF S
<1>3. n \in S
  BY <1>1, <1>2, EveryNumber
<1> QED BY <1>3 DEF S

LEMMA FlattenClosed ==
    ASSUME NEW es, NEW parts, NEW n \in Nat, parts \in Seq(Seq(Nat)), Len(parts) = n,
           \A i \in 1 .. n : Closed(es, parts[i])
    PROVE  /\ Closed(es, FlattenSeq(parts))
           /\ \A i \in 1 .. n : ToSet(parts[i]) \subseteq ToSet(FlattenSeq(parts))
<1>1. CASE n = 0
  <2>1. FlattenSeq(parts) = <<>>
    BY <1>1 DEF FlattenSeq
  <2>2. Closed(es, <<>>)
    BY DEF Closed
  <2> QED BY <1>1, <2>1, <2>2
<1>2. CASE n # 0
  <2> DEFINE flat == CHOOSE f : FlatIn(parts, n, f)
  <2>1. FlatIn(parts, n, flat)
    BY FlatExists
  <2>2. FlattenSeq(parts) = flat[n]
    BY <1>2 DEF FlattenSeq, FlatIn
  <2> HIDE DEF flat
  <2> DEFINE Fine(i) == /\ Closed(es, flat[i])
                        /\ \A k \in 1 .. i : ToSet(parts[k]) \subseteq ToSet(flat[i])
             S == {i \in Nat : i + 1 <= n => Fine(i + 1)}
  <2>3. 0 \in S
    <3>1. flat[1] = parts[1]
      BY <1>2, <2>1 DEF FlatIn
    <3>2. \A k \in 1 .. 1 : k = 1
      OBVIOUS
    <3>3. Fine(1)
      BY <1>2, <3>1, <3>2
    <3> QED BY <3>3
  <2>4. ASSUME NEW i \in Nat, i \in S PROVE i + 1 \in S
    <3> SUFFICES ASSUME (i + 1) + 1 <= n PROVE Fine((i + 1) + 1)
      OBVIOUS
    <3>1. Fine(i + 1)
      BY <2>4
    <3> DEFINE m == (i + 1) + 1
    <3>2. m \in 1 .. n /\ m # 1 /\ m - 1 = i + 1
      OBVIOUS
    <3>3. flat[m] = flat[m - 1] \o parts[m]
      BY <2>1, <3>2 DEF FlatIn
    <3>4. Closed(es, parts[m])
      BY <3>2
    <3>5. Closed(es, flat[m]) /\ ToSet(flat[m]) = ToSet(flat[i + 1]) \cup ToSet(parts[m])
      <4>1. Closed(es, flat[i + 1]) /\ Joined(flat[i + 1], parts[m], flat[m])
        BY <3>1, <3>2, <3>3 DEF Joined
      <4> HIDE DEF m
      <4> QED BY <3>4, <4>1, ClosedConcat
    <3>6. \A k \in 1 .. m : k \in 1 .. (i + 1) \/ k = m
      OBVIOUS
    <3> HIDE DEF m
    <3>7. Fine(m)
      BY <3>1, <3>5, <3>6
    <3> QED BY <3>7 DEF m
  <2> HIDE DEF S
  <2>5. n - 1 \in S
    <3>1. n - 1 \in Nat
      BY <1>2
    <3> QED BY <2>3, <2>4, <3>1, EveryNumber
  <2>6. Fine((n - 1) + 1)
    BY <1>2, <2>5 DEF S
  <2>7. (n - 1) + 1 = n
    OBVIOUS
  <2> QED BY <2>2, <2>6, <2>7
<1> QED BY <1>1, <1>2

LEMMA EntryOrderClosed ==
    ASSUME NEW es, NEW e, e.values \in Seq(ValueOf), NEW orders,
           \A j \in Kids(e) : Closed(es, orders[j]) /\ j \in ToSet(orders[j])
    PROVE  Closed(es, EntryOrder(orders, e)) /\ Kids(e) \subseteq ToSet(EntryOrder(orders, e))
<1>1. ASSUME NEW v \in DOMAIN e.values
      PROVE  /\ Closed(es, FieldOrders(orders, e.values[v]))
             /\ \A k \in DOMAIN e.values[v].kids :
                   e.values[v].kids[k] \in ToSet(FieldOrders(orders, e.values[v]))
  <2> DEFINE ks == e.values[v].kids
             parts == [k \in DOMAIN ks |-> orders[ks[k]]]
  <2>1. ks \in Seq(Nat)
    <3>1. e.values[v] \in ValueOf
      OBVIOUS
    <3> QED BY <3>1 DEF ValueOf
  <2>2. \A k \in DOMAIN ks : ks[k] \in Kids(e)
    BY DEF Kids
  <2>3. FieldOrders(orders, e.values[v]) = FlattenSeq(parts)
    BY DEF FieldOrders
  <2> HIDE DEF ks
  <2>4. DOMAIN ks = 1 .. Len(ks) /\ Len(ks) \in Nat
    BY <2>1
  <2>5. \A k \in 1 .. Len(ks) : parts[k] = orders[ks[k]]
    BY <2>4
  <2>6. \A k \in 1 .. Len(ks) : Closed(es, parts[k]) /\ ks[k] \in ToSet(parts[k])
    BY <2>2, <2>4, <2>5
  <2>7. parts \in [1 .. Len(ks) -> Seq(Nat)]
    BY <2>4, <2>6 DEF Closed
  <2>8. parts \in Seq(Seq(Nat)) /\ Len(parts) = Len(ks)
    <3>1. parts \in Seq(Seq(Nat))
      BY <2>4, <2>7, FunctionIsSeq
    <3>2. DOMAIN parts = 1 .. Len(ks)
      BY <2>4
    <3> HIDE DEF parts
    <3> QED BY <2>4, <3>1, <3>2, LenProperties
  <2> HIDE DEF parts
  <2>9. /\ Closed(es, FlattenSeq(parts))
        /\ \A k \in 1 .. Len(ks) : ToSet(parts[k]) \subseteq ToSet(FlattenSeq(parts))
    BY <2>4, <2>6, <2>8, FlattenClosed
  <2>10. \A k \in DOMAIN ks : ks[k] \in ToSet(FlattenSeq(parts))
    BY <2>4, <2>6, <2>9
  <2> QED BY <2>3, <2>9, <2>10 DEF ks
<1> DEFINE vs == e.values
           parts == [v \in DOMAIN vs |-> FieldOrders(orders, vs[v])]
<1>2. EntryOrder(orders, e) = FlattenSeq(parts)
  BY DEF EntryOrder
<1>3. DOMAIN vs = 1 .. Len(vs) /\ Len(vs) \in Nat
  OBVIOUS
<1>4. \A v \in 1 .. Len(vs) : parts[v] = FieldOrders(orders, vs[v])
  BY <1>3
<1>5. parts \in [1 .. Len(vs) -> Seq(Nat)]
  BY <1>1, <1>3 DEF Closed
<1>6. parts \in Seq(Seq(Nat)) /\ Len(parts) = Len(vs)
  <2>1. parts \in Seq(Seq(Nat))
    BY <1>3, <1>5, FunctionIsSeq
  <2>2. DOMAIN parts = 1 .. Len(vs)
    BY <1>3
  <2> HIDE DEF parts, vs
  <2> QED BY <1>3, <2>1, <2>2, LenProperties
<1>7. \A v \in 1 .. Len(vs) : Closed(es, parts[v])
  BY <1>1, <1>3, <1>4
<1> HIDE DEF parts
<1>8. /\ Closed(es, FlattenSeq(parts))
      /\ \A v \in 1 .. Len(vs) : ToSet(parts[v]) \subseteq ToSet(FlattenSeq(parts))
  <2> HIDE DEF vs
  <2> QED BY <1>3, <1>6, <1>7, FlattenClosed
<1>9. ASSUME NEW v \in DOMAIN e.values, NEW k \in DOMAIN e.values[v].kids
      PROVE  e.values[v].kids[k] \in ToSet(FlattenSeq(parts))
  BY <1>1, <1>3, <1>4, <1>8
<1> QED BY <1>2, <1>8, <1>9 DEF Kids

(* What CopyOrders computes exists, entry by entry.                        *)
OrdersIn(st, n, orders) ==
    orders = [i \in 0 .. n |-> IF i = 0 THEN <<>> ELSE WithOrder(orders[i - 1], st.entries[i])]

LEMMA OrdersExist ==
    ASSUME NEW st, NEW n \in Nat
    PROVE  \E orders : OrdersIn(st, n, orders)
<1> DEFINE S == {m \in Nat : \E orders : OrdersIn(st, m, orders)}
<1>1. 0 \in S
  <2> DEFINE orders == [i \in 0 .. 0 |-> <<>>]
  <2>1. OrdersIn(st, 0, orders)
    BY DEF OrdersIn
  <2> QED BY <2>1
<1>2. ASSUME NEW m \in Nat, m \in S PROVE m + 1 \in S
  <2>1. PICK orders : OrdersIn(st, m, orders)
    BY <1>2
  <2> DEFINE last == WithOrder(orders[m], st.entries[m + 1])
             more == [i \in 0 .. (m + 1) |-> IF i = m + 1 THEN last ELSE orders[i]]
  <2>2. \A i \in 0 .. m : more[i] = orders[i]
    OBVIOUS
  <2>3. more[m + 1] = last /\ more = [i \in 0 .. (m + 1) |-> more[i]]
    OBVIOUS
  <2> HIDE DEF more
  <2>4. ASSUME NEW i \in 0 .. (m + 1)
        PROVE  more[i] = IF i = 0 THEN <<>> ELSE WithOrder(more[i - 1], st.entries[i])
    <3>1. CASE i = m + 1
      <4>1. i # 0 /\ i - 1 = m /\ more[m] = orders[m]
        BY <2>2, <3>1
      <4> QED BY <2>3, <3>1, <4>1
    <3>2. CASE i # m + 1
      <4>1. i \in 0 .. m /\ (i # 0 => i - 1 \in 0 .. m)
        BY <3>2
      <4>2. orders[i] = IF i = 0 THEN <<>> ELSE WithOrder(orders[i - 1], st.entries[i])
        BY <2>1, <4>1 DEF OrdersIn
      <4> QED BY <2>2, <4>1, <4>2
    <3> QED BY <3>1, <3>2
  <2>5. OrdersIn(st, m + 1, more)
    BY <2>3, <2>4 DEF OrdersIn
  <2> QED BY <2>5
<1> HIDE DEF S
<1>3. n \in S
  BY <1>1, <1>2, EveryNumber
<1> QED BY <1>3 DEF S

(* The order of every entry ends with it, and nothing comes before what it *)
(* points to.                                                              *)
OrderOf(es, order, i) == /\ Closed(es, order)
                         /\ Len(order) > 0
                         /\ order[Len(order)] = i

LEMMA OrdersClosed ==
    ASSUME NEW st, Good(st)
    PROVE  \A i \in 1 .. Len(st.entries) : OrderOf(st.entries, CopyOrders(st)[i], i)
<1> DEFINE n == Len(st.entries)
           es == st.entries
           orders == CHOOSE f : OrdersIn(st, n, f)
<1>1. n \in Nat
  BY DEF Good, Rows
<1>2. OrdersIn(st, n, orders)
  BY <1>1, OrdersExist
<1>3. CopyOrders(st) = orders[n]
  BY DEF CopyOrders, OrdersIn
<1> HIDE DEF orders
<1> DEFINE Fine(m) == /\ orders[m] \in Seq(Seq(Nat)) /\ Len(orders[m]) = m
                      /\ \A i \in 1 .. m : OrderOf(es, orders[m][i], i)
           S == {m \in Nat : m <= n => Fine(m)}
<1>4. 0 \in S
  <2>1. orders[0] = <<>>
    BY <1>1, <1>2 DEF OrdersIn
  <2>2. Fine(0)
    BY <2>1
  <2> QED BY <2>2
<1>5. ASSUME NEW m \in Nat, m \in S PROVE m + 1 \in S
  <2> SUFFICES ASSUME m + 1 <= n PROVE Fine(m + 1)
    OBVIOUS
  <2> DEFINE i == m + 1
             old == orders[m]
             e == es[i]
             below == EntryOrder(old, e)
             order == below \o <<i>>
  <2>1. Fine(m)
    BY <1>1, <1>5
  <2>2. i \in 1 .. n /\ i \in 0 .. n /\ i # 0 /\ i - 1 = m
    BY <1>1
  <2>3. orders[i] = Append(old, order)
    <3>1. orders[i] = WithOrder(orders[m], es[i])
      BY <1>2, <2>2 DEF OrdersIn
    <3> QED BY <2>1, <3>1 DEF WithOrder
  <2>4. \A j \in Kids(e) : j \in 1 .. m /\ j \in 1 .. n
    <3>1. ASSUME NEW j \in Kids(e) PROVE j \in 1 .. (i - 1) /\ j \in 1 .. n
      BY <2>2, KidsOfRow
    <3> QED BY <2>2, <3>1
  <2>5. e.values \in Seq(ValueOf)
    BY <2>2, GoodTable DEF Good, StashOK, EntryOK, Table
  <2>6. \A j \in Kids(e) : Closed(es, old[j]) /\ j \in ToSet(old[j])
    <3>1. ASSUME NEW j \in 1 .. m PROVE Closed(es, old[j]) /\ j \in ToSet(old[j])
      <4>1. OrderOf(es, old[j], j)
        BY <2>1
      <4> HIDE DEF old, es
      <4>2. old[j] \in Seq(Nat) /\ Len(old[j]) > 0 /\ old[j][Len(old[j])] = j
        BY <4>1 DEF OrderOf, Closed
      <4>3. Len(old[j]) \in DOMAIN old[j]
        BY <4>2
      <4> QED BY <4>1, <4>2, <4>3 DEF OrderOf, ToSet
    <3> QED BY <2>4, <3>1
  <2> HIDE DEF i, old, es, n, e
  <2>7. Closed(es, below) /\ Kids(e) \subseteq ToSet(below)
    BY <2>5, <2>6, EntryOrderClosed
  <2> HIDE DEF below
  <2>8. OrderOf(es, order, i)
    <3>1. below \in Seq(Nat) /\ i \in Nat
      BY <2>2, <2>7, <1>1 DEF Closed, i
    <3>2. /\ order \in Seq(Nat) /\ Len(order) = Len(below) + 1 /\ Len(below) \in Nat
          /\ order[Len(below) + 1] = i
          /\ \A p \in 1 .. Len(below) : order[p] = below[p]
          /\ DOMAIN below = 1 .. Len(below)
      BY <3>1
    <3> HIDE DEF order
    <3>3. ASSUME NEW p \in 1 .. Len(order)
          PROVE  /\ order[p] \in 1 .. Len(es)
                 /\ \A j \in Kids(es[order[p]]) : \E q \in 1 .. (p - 1) : order[q] = j
      <4>1. CASE p \in 1 .. Len(below)
        <5>1. order[p] = below[p] /\ below[p] \in 1 .. Len(es)
          BY <2>7, <3>2, <4>1 DEF Closed
        <5>2. ASSUME NEW j \in Kids(es[below[p]]) PROVE \E q \in 1 .. (p - 1) : order[q] = j
          <6>1. PICK q \in 1 .. (p - 1) : below[q] = j
            BY <2>7, <4>1 DEF Closed
          <6>2. q \in 1 .. Len(below)
            BY <3>2, <4>1
          <6> QED BY <3>2, <6>1, <6>2
        <5> QED BY <5>1, <5>2
      <4>2. CASE p = Len(below) + 1
        <5>1. order[p] = i /\ i \in 1 .. Len(es) /\ es[order[p]] = e
          BY <2>2, <3>2, <4>2 DEF n, es, e
        <5>2. ASSUME NEW j \in Kids(e) PROVE \E q \in 1 .. (p - 1) : order[q] = j
          <6>1. PICK q \in DOMAIN below : below[q] = j
            BY <2>7 DEF ToSet
          <6>2. q \in 1 .. (p - 1) /\ q \in 1 .. Len(below)
            BY <3>2, <4>2
          <6> QED BY <3>2, <6>1, <6>2
        <5> QED BY <5>1, <5>2
      <4> QED BY <3>2, <4>1, <4>2
    <3> QED BY <3>2, <3>3 DEF OrderOf, Closed
  <2>9. order \in Seq(Nat)
    BY <2>8 DEF OrderOf, Closed
  <2> HIDE DEF order
  <2>10. /\ orders[i] \in Seq(Seq(Nat)) /\ Len(orders[i]) = m + 1
         /\ \A j \in 1 .. m : orders[i][j] = old[j]
         /\ orders[i][m + 1] = order
    <3>1. old \in Seq(Seq(Nat)) /\ Len(old) = m
      BY <2>1 DEF old
    <3> QED BY <2>3, <2>9, <3>1
  <2>11. ASSUME NEW j \in 1 .. (m + 1) PROVE OrderOf(es, orders[i][j], j)
    <3>1. CASE j \in 1 .. m
      BY <2>1, <2>10, <3>1 DEF old
    <3>2. CASE j = m + 1
      BY <2>8, <2>10, <3>2 DEF i
    <3> QED BY <3>1, <3>2
  <2> QED BY <2>10, <2>11 DEF i
<1> HIDE DEF S
<1>6. n \in S
  BY <1>1, <1>4, <1>5, EveryNumber
<1>7. Fine(n)
  BY <1>1, <1>6 DEF S
<1> QED BY <1>3, <1>7

-----------------------------------------------------------------------------
(* The copy, one allocation after the other.                               *)

CopiedValues(e, at) ==
    [v \in DOMAIN e.values |->
        [e.values[v] EXCEPT !.kids = [k \in DOMAIN @ |-> at[@[k]]]]]

LEMMA CopyEntryIs ==
    ASSUME NEW st, NEW acc, NEW i
    PROVE  LET r == Interned(acc.stash, st.entries[i].type, st.entries[i].many,
                             CopiedValues(st.entries[i], acc.at))
           IN  CopyEntry(st, acc, i) =
                 [stash |-> r.stash, at |-> [acc.at EXCEPT ![i] = r.index]]
BY DEF CopyEntry, CopiedValues

LEMMA CopiedAre ==
    ASSUME NEW e, e.values \in Seq(ValueOf), NEW at, NEW n \in Nat,
           \A j \in Kids(e) : at[j] \in 1 .. n
    PROVE  LET cs == CopiedValues(e, at)
           IN  /\ cs \in Seq(ValueOf) /\ DOMAIN cs = DOMAIN e.values /\ Len(cs) = Len(e.values)
               /\ \A v \in DOMAIN e.values :
                     /\ cs[v].tag = e.values[v].tag
                     /\ DOMAIN cs[v].kids = DOMAIN e.values[v].kids
                     /\ \A k \in DOMAIN e.values[v].kids : cs[v].kids[k] = at[e.values[v].kids[k]]
<1> DEFINE vs == e.values
           cs == CopiedValues(e, at)
<1>1. DOMAIN vs = 1 .. Len(vs) /\ Len(vs) \in Nat
  OBVIOUS
<1>2. DOMAIN cs = DOMAIN vs
  BY DEF CopiedValues
<1>3. ASSUME NEW v \in DOMAIN vs
      PROVE  /\ cs[v] \in ValueOf
             /\ cs[v].tag = vs[v].tag
             /\ DOMAIN cs[v].kids = DOMAIN vs[v].kids
             /\ \A k \in DOMAIN vs[v].kids : cs[v].kids[k] = at[vs[v].kids[k]]
  <2> DEFINE w == vs[v]
             ks == [k \in DOMAIN w.kids |-> at[w.kids[k]]]
  <2>1. w \in ValueOf
    OBVIOUS
  <2>2. cs[v] = [w EXCEPT !.kids = ks]
    BY DEF CopiedValues
  <2>3. \A k \in DOMAIN w.kids : w.kids[k] \in Kids(e)
    BY DEF Kids
  <2> HIDE DEF w
  <2>4. w.kids \in Seq(Nat) /\ w.tag \in Tags /\ w = [tag |-> w.tag, kids |-> w.kids]
    BY <2>1 DEF ValueOf
  <2>5. DOMAIN w.kids = 1 .. Len(w.kids) /\ Len(w.kids) \in Nat
    BY <2>4
  <2>6. ks \in [1 .. Len(w.kids) -> Nat]
    BY <2>3, <2>5
  <2>7. ks \in Seq(Nat)
    BY <2>5, <2>6, FunctionIsSeq
  <2>8. DOMAIN ks = DOMAIN w.kids /\ \A k \in DOMAIN w.kids : ks[k] = at[w.kids[k]]
    OBVIOUS
  <2> HIDE DEF ks, cs
  <2>9. cs[v] = [tag |-> w.tag, kids |-> ks]
    BY <2>2, <2>4
  <2> QED BY <2>4, <2>7, <2>8, <2>9 DEF ValueOf, w
<1>4. cs \in [1 .. Len(vs) -> ValueOf]
  <2>1. cs = [v \in DOMAIN vs |-> cs[v]]
    BY DEF CopiedValues
  <2> HIDE DEF cs, vs
  <2> QED BY <1>1, <1>3, <2>1
<1>5. cs \in Seq(ValueOf)
  BY <1>1, <1>4, FunctionIsSeq
<1>6. Len(cs) = Len(vs)
  <2> HIDE DEF cs, vs
  <2> QED BY <1>1, <1>2, <1>5, LenProperties
<1> QED BY <1>2, <1>3, <1>5, <1>6

(* What has been copied stands for the same trees in the target.           *)
Copied(st, target, acc, done) ==
    /\ Good(acc.stash)
    /\ acc.stash.id = target.id
    /\ Extends(target, acc.stash)
    /\ acc.at = [j \in DOMAIN st.entries |-> acc.at[j]]
    /\ \A j \in done : /\ acc.at[j] \in 1 .. Len(acc.stash.entries)
                       /\ Unfold(acc.stash)[acc.at[j]] = Unfold(st)[j]

LEMMA CopyOne ==
    ASSUME NEW st, Good(st), NEW target, Good(target), NEW acc, NEW done,
           done \subseteq 1 .. Len(st.entries), Copied(st, target, acc, done),
           NEW i \in 1 .. Len(st.entries), Kids(st.entries[i]) \subseteq done
    PROVE  Copied(st, target, CopyEntry(st, acc, i), done \cup {i})
<1> DEFINE e == st.entries[i]
           cs == CopiedValues(e, acc.at)
           r == Interned(acc.stash, e.type, e.many, cs)
           next == CopyEntry(st, acc, i)
           n == Len(acc.stash.entries)
<1>1. next.stash = r.stash /\ next.at = [acc.at EXCEPT ![i] = r.index]
  BY CopyEntryIs
<1>2. n \in Nat /\ Good(acc.stash)
  BY DEF Copied, Good, Rows
<1>3. EntryOK(e)
  BY GoodTable DEF Good, StashOK, Table
<1>4. \A j \in Kids(e) : /\ acc.at[j] \in 1 .. n
                         /\ Unfold(acc.stash)[acc.at[j]] = Unfold(st)[j]
  BY DEF Copied
<1>5. /\ cs \in Seq(ValueOf) /\ DOMAIN cs = DOMAIN e.values /\ Len(cs) = Len(e.values)
      /\ \A v \in DOMAIN e.values :
            /\ cs[v].tag = e.values[v].tag
            /\ DOMAIN cs[v].kids = DOMAIN e.values[v].kids
            /\ \A k \in DOMAIN e.values[v].kids : cs[v].kids[k] = acc.at[e.values[v].kids[k]]
  <2>1. e.values \in Seq(ValueOf)
    BY <1>3 DEF EntryOK
  <2>2. \A j \in Kids(e) : acc.at[j] \in 1 .. n
    BY <1>4
  <2> HIDE DEF e, n
  <2> QED BY <1>2, <2>1, <2>2, CopiedAre
<1> HIDE DEF cs, r, next
<1>6. Below(cs, n)
  <2>1. ASSUME NEW v \in DOMAIN e.values, NEW k \in DOMAIN e.values[v].kids
        PROVE  acc.at[e.values[v].kids[k]] \in 1 .. n
    <3>1. e.values[v].kids[k] \in Kids(e)
      BY DEF Kids
    <3> QED BY <1>4, <3>1
  <2> HIDE DEF e, n
  <2> QED BY <1>5, <2>1 DEF Below
<1>7. \A j \in 1 .. Len(st.entries) :
         Unfold(st)[j].type = st.entries[j].type /\ Unfold(st)[j].many = st.entries[j].many
  <2>1. \A j \in 1 .. Len(st.entries) : Unfold(st)[j] = Tree(Unfold(st), st.entries[j])
    BY UnfoldSteps
  <2> QED BY <2>1, TreeSays
<1>8. \A j \in 1 .. n : /\ Unfold(acc.stash)[j].type = acc.stash.entries[j].type
                        /\ Unfold(acc.stash)[j].many = acc.stash.entries[j].many
  <2>1. \A j \in 1 .. n : Unfold(acc.stash)[j] = Tree(Unfold(acc.stash), acc.stash.entries[j])
    BY <1>2, UnfoldSteps
  <2> QED BY <2>1, TreeSays
<1>9. Declared(acc.stash.entries, e.type, cs)
  <2> SUFFICES ASSUME NEW v \in DOMAIN cs, NEW k \in DOMAIN cs[v].kids
               PROVE  /\ acc.stash.entries[cs[v].kids[k]].type = Fields[e.type][cs[v].tag][k].type
                      /\ acc.stash.entries[cs[v].kids[k]].many = Fields[e.type][cs[v].tag][k].many
    BY DEF Declared, DeclaredOne
  <2> DEFINE j == e.values[v].kids[k]
  <2>1. v \in DOMAIN e.values /\ k \in DOMAIN e.values[v].kids
    BY <1>5
  <2>2. j \in Kids(e) /\ j \in 1 .. Len(st.entries)
    <3>1. Kids(e) \subseteq 1 .. Len(st.entries)
      OBVIOUS
    <3> HIDE DEF e
    <3>2. j \in Kids(e)
      BY <2>1 DEF Kids
    <3> QED BY <3>1, <3>2
  <2>3. /\ st.entries[j].type = Fields[e.type][e.values[v].tag][k].type
        /\ st.entries[j].many = Fields[e.type][e.values[v].tag][k].many
    <3>1. Declared(st.entries, e.type, e.values)
      BY DEF Good, AllDeclared
    <3> HIDE DEF e
    <3> QED BY <2>1, <3>1 DEF Declared, DeclaredOne
  <2>4. cs[v].kids[k] = acc.at[j] /\ cs[v].tag = e.values[v].tag
    BY <1>5, <2>1
  <2> HIDE DEF e, j, n
  <2> DEFINE b == acc.at[j]
  <2>5. b \in 1 .. n /\ Unfold(acc.stash)[b] = Unfold(st)[j]
    BY <1>4, <2>2
  <2>6. /\ acc.stash.entries[b].type = st.entries[j].type
        /\ acc.stash.entries[b].many = st.entries[j].many
    <3> HIDE DEF b
    <3> QED BY <1>7, <1>8, <2>2, <2>5
  <2> QED BY <2>3, <2>4, <2>6
<1>10. Good(r.stash) /\ r.stash.id = acc.stash.id
  <2> HIDE DEF e
  <2> QED BY <1>2, <1>3, <1>5, <1>6, <1>9, InternedGood DEF EntryOK, r, n
<1>11. /\ Extends(acc.stash, r.stash)
       /\ r.index \in 1 .. Len(r.stash.entries)
       /\ r.stash.entries[r.index].type = e.type
       /\ r.stash.entries[r.index].many = e.many
       /\ r.stash.entries[r.index].values = cs
  <2> HIDE DEF e, n
  <2> QED BY <1>2, InternedThere DEF r
<1>12. \A j \in 1 .. n : Unfold(r.stash)[j] = Unfold(acc.stash)[j]
  BY <1>2, <1>10, <1>11, UnfoldStays
<1>13. Unfold(r.stash)[r.index] = Unfold(st)[i]
  <2> DEFINE d == r.stash.entries[r.index]
  <2>1. Unfold(r.stash)[r.index] = Tree(Unfold(r.stash), d)
    BY <1>10, <1>11, UnfoldSteps
  <2>2. Unfold(st)[i] = Tree(Unfold(st), e)
    BY UnfoldSteps
  <2>3. d.type = e.type /\ d.many = e.many /\ d.values = cs
    BY <1>11
  <2> HIDE DEF d, e
  <2>4. ASSUME NEW v \in DOMAIN e.values, NEW k \in DOMAIN e.values[v].kids
        PROVE  Unfold(r.stash)[cs[v].kids[k]] = Unfold(st)[e.values[v].kids[k]]
    <3>1. e.values[v].kids[k] \in Kids(e)
      BY DEF Kids
    <3> DEFINE a == e.values[v].kids[k]
    <3>2. acc.at[a] \in 1 .. n /\ Unfold(acc.stash)[acc.at[a]] = Unfold(st)[a]
      BY <1>4, <3>1
    <3>3. cs[v].kids[k] = acc.at[a]
      BY <1>5
    <3> HIDE DEF a, n
    <3> QED BY <1>12, <3>2, <3>3 DEF a
  <2>5. Alike(Unfold(r.stash), d, Unfold(st), e)
    BY <1>5, <2>3, <2>4 DEF Alike
  <2> QED BY <2>1, <2>2, <2>3, <2>5, TreesAlike
<1>14. next.at = [j \in DOMAIN st.entries |-> next.at[j]]
  BY <1>1 DEF Copied
<1>15. next.at[i] = r.index /\ \A j \in done : j # i => next.at[j] = acc.at[j]
  <2>1. DOMAIN st.entries = 1 .. Len(st.entries)
    BY GoodTable DEF Table
  <2> QED BY <1>1, <2>1 DEF Copied
<1>16. n <= Len(r.stash.entries) /\ Len(r.stash.entries) \in Nat
  BY <1>10, <1>11 DEF Extends, Good, Rows
<1>17. \A j \in done : acc.at[j] \in 1 .. n /\ Unfold(acc.stash)[acc.at[j]] = Unfold(st)[j]
  BY DEF Copied
<1>18. ASSUME NEW j \in done \cup {i}
       PROVE  /\ next.at[j] \in 1 .. Len(r.stash.entries)
              /\ Unfold(r.stash)[next.at[j]] = Unfold(st)[j]
  <2>1. CASE j = i
    BY <1>11, <1>13, <1>15, <2>1
  <2>2. CASE j # i
    <3>1. j \in done /\ next.at[j] = acc.at[j] /\ acc.at[j] \in 1 .. n
      BY <1>15, <1>17, <2>2
    <3>2. acc.at[j] \in 1 .. Len(r.stash.entries)
      BY <1>2, <1>16, <3>1
    <3> QED BY <1>12, <1>17, <3>1, <3>2
  <2> QED BY <2>1, <2>2
<1>19. Extends(target, r.stash) /\ r.stash.id = target.id
  <2>1. Extends(target, acc.stash) /\ acc.stash.id = target.id /\ Len(target.entries) \in Nat
    BY DEF Copied, Good, Rows
  <2> QED BY <1>2, <1>10, <1>11, <1>16, <2>1 DEF Extends
<1> QED BY <1>1, <1>10, <1>14, <1>18, <1>19 DEF Copied, next

(* What StashCopy computes exists, call by call.                           *)
CallsIn(st, order, start, n, copied) ==
    copied = [p \in 0 .. n |-> IF p = 0 THEN start ELSE CopyEntry(st, copied[p - 1], order[p])]

LEMMA CopiesExist ==
    ASSUME NEW st, NEW order, NEW start, NEW n \in Nat
    PROVE  \E copied : CallsIn(st, order, start, n, copied)
<1> DEFINE S == {m \in Nat : \E copied : CallsIn(st, order, start, m, copied)}
<1>1. 0 \in S
  <2> DEFINE copied == [p \in 0 .. 0 |-> start]
  <2>1. CallsIn(st, order, start, 0, copied)
    BY DEF CallsIn
  <2> QED BY <2>1
<1>2. ASSUME NEW m \in Nat, m \in S PROVE m + 1 \in S
  <2>1. PICK copied : CallsIn(st, order, start, m, copied)
    BY <1>2
  <2> DEFINE last == CopyEntry(st, copied[m], order[m + 1])
             more == [p \in 0 .. (m + 1) |-> IF p = m + 1 THEN last ELSE copied[p]]
  <2>2. \A p \in 0 .. m : more[p] = copied[p]
    OBVIOUS
  <2>3. more[m + 1] = last /\ more = [p \in 0 .. (m + 1) |-> more[p]]
    OBVIOUS
  <2> HIDE DEF more
  <2>4. ASSUME NEW p \in 0 .. (m + 1)
        PROVE  more[p] = IF p = 0 THEN start ELSE CopyEntry(st, more[p - 1], order[p])
    <3>1. CASE p = m + 1
      <4>1. p # 0 /\ p - 1 = m /\ more[m] = copied[m]
        BY <2>2, <3>1
      <4> QED BY <2>3, <3>1, <4>1
    <3>2. CASE p # m + 1
      <4>1. p \in 0 .. m /\ (p # 0 => p - 1 \in 0 .. m)
        BY <3>2
      <4>2. copied[p] = IF p = 0 THEN start ELSE CopyEntry(st, copied[p - 1], order[p])
        BY <2>1, <4>1 DEF CallsIn
      <4> QED BY <2>2, <4>1, <4>2
    <3> QED BY <3>1, <3>2
  <2>5. CallsIn(st, order, start, m + 1, more)
    BY <2>3, <2>4 DEF CallsIn
  <2> QED BY <2>5
<1> HIDE DEF S
<1>3. n \in S
  BY <1>1, <1>2, EveryNumber
<1> QED BY <1>3 DEF S

(* A copy keeps the target in order, leaves what it held in place, and     *)
(* gives a handle for an equal tree.                                       *)
LEMMA CopyRight ==
    ASSUME NEW st, Good(st), NEW target, Good(target), NEW i \in 1 .. Len(st.entries)
    PROVE  LET r == StashCopy(st, i, target)
           IN  /\ Good(r.stash) /\ r.stash.id = target.id
               /\ Extends(target, r.stash)
               /\ Unfold(r.stash)[r.index] = Unfold(st)[i]
<1> DEFINE order == CopyOrders(st)[i]
           n == Len(order)
           start == [stash |-> target, at |-> [j \in DOMAIN st.entries |-> 0]]
           copied == CHOOSE c : CallsIn(st, order, start, n, c)
           end == copied[n]
           Before(p) == {order[q] : q \in 1 .. p}
           Fine(p) == Copied(st, target, copied[p], Before(p))
           S == {p \in Nat : p <= n => Fine(p)}
<1>1. OrderOf(st.entries, order, i)
  BY OrdersClosed
<1> HIDE DEF order
<1>2. /\ order \in Seq(Nat) /\ n \in Nat /\ n > 0 /\ order[n] = i
      /\ \A p \in 1 .. n : /\ order[p] \in 1 .. Len(st.entries)
                           /\ Kids(st.entries[order[p]]) \subseteq Before(p - 1)
  <2>1. order \in Seq(Nat) /\ n \in Nat /\ n > 0 /\ order[n] = i
    BY <1>1 DEF OrderOf, Closed
  <2>2. ASSUME NEW p \in 1 .. n
        PROVE  /\ order[p] \in 1 .. Len(st.entries)
               /\ \A j \in Kids(st.entries[order[p]]) : \E q \in 1 .. (p - 1) : order[q] = j
    BY <1>1 DEF OrderOf, Closed
  <2> HIDE DEF n
  <2> QED BY <2>1, <2>2
<1>3. CallsIn(st, order, start, n, copied)
  BY <1>2, CopiesExist
<1>4. StashCopy(st, i, target) = [stash |-> end.stash, index |-> end.at[i]]
  BY DEF StashCopy, CallsIn, order
<1> HIDE DEF copied, n
<1>5. 0 \in S
  <2>1. copied[0] = start
    BY <1>2, <1>3 DEF CallsIn
  <2>2. Before(0) = {}
    OBVIOUS
  <2>3. start.stash = target /\ start.at = [j \in DOMAIN st.entries |-> start.at[j]]
    OBVIOUS
  <2>4. Extends(target, target)
    BY DEF Extends, Good, Rows
  <2> HIDE DEF start, Before
  <2>5. Fine(0)
    BY <2>1, <2>2, <2>3, <2>4 DEF Copied
  <2> QED BY <2>5
<1>6. ASSUME NEW p \in Nat, p \in S PROVE p + 1 \in S
  <2> SUFFICES ASSUME p + 1 <= n PROVE Fine(p + 1)
    OBVIOUS
  <2>1. Copied(st, target, copied[p], Before(p))
    BY <1>2, <1>6
  <2>2. p + 1 \in 0 .. n /\ p + 1 \in 1 .. n /\ p + 1 # 0 /\ (p + 1) - 1 = p
    BY <1>2
  <2>3. copied[p + 1] = CopyEntry(st, copied[p], order[p + 1])
    BY <1>3, <2>2 DEF CallsIn
  <2>4. order[p + 1] \in 1 .. Len(st.entries) /\ Kids(st.entries[order[p + 1]]) \subseteq Before(p)
    BY <1>2, <2>2
  <2>5. Before(p) \subseteq 1 .. Len(st.entries)
    <3>1. \A q \in 1 .. p : q \in 1 .. n
      BY <1>2
    <3> QED BY <1>2, <3>1
  <2>6. Before(p + 1) = Before(p) \cup {order[p + 1]}
    <3>1. 1 .. (p + 1) = (1 .. p) \cup {p + 1}
      OBVIOUS
    <3> QED BY <3>1
  <2> HIDE DEF Before
  <2> QED BY <2>1, <2>3, <2>4, <2>5, <2>6, CopyOne
<1> HIDE DEF S
<1>7. n \in S
  BY <1>2, <1>5, <1>6, EveryNumber
<1>8. Copied(st, target, end, Before(n))
  BY <1>2, <1>7 DEF S
<1>9. i \in Before(n)
  <2>1. n \in 1 .. n
    BY <1>2
  <2> QED BY <1>2, <2>1
<1> HIDE DEF Before, end
<1>10. /\ StashCopy(st, i, target).stash = end.stash
       /\ StashCopy(st, i, target).index = end.at[i]
  BY <1>4
<1> QED BY <1>8, <1>9, <1>10 DEF Copied

-----------------------------------------------------------------------------
(* The steps of several stashes.                                           *)

LEMMA CopyKeeps ==
    ASSUME IInv, NEW s \in Stashes, NEW t \in Stashes, CopyInto(s, t)
    PROVE  IInv'
<1>1. s \in Live /\ t \in Live /\ Good(stash[s]) /\ Good(stash[t])
  BY DEF CopyInto, IInv
<1>2. DOMAIN stash[s].entries = 1 .. Len(stash[s].entries)
  BY <1>1, GoodTable DEF Table
<1>3. PICK i \in 1 .. Len(stash[s].entries) :
        stash' = [stash EXCEPT ![t] = StashCopy(stash[s], i, stash[t]).stash]
  BY <1>2 DEF CopyInto
<1> DEFINE after == StashCopy(stash[s], i, stash[t]).stash
<1>4. Good(after) /\ after.id = stash[t].id
  BY <1>1, CopyRight
<1>5. stash' = [stash EXCEPT ![t] = after] /\ nextId' = nextId
  BY <1>3 DEF CopyInto
<1> HIDE DEF after
<1>6. ASSUME NEW u \in Live'
      PROVE  Good(stash'[u]) /\ stash'[u].id < nextId'
  <2>1. CASE u = t
    BY <1>1, <1>4, <1>5, <2>1 DEF IInv
  <2>2. CASE u # t
    BY <1>5, <1>6, <2>2 DEF IInv, Live
  <2> QED BY <2>1, <2>2
<1> QED BY <1>5, <1>6 DEF IInv

LEMMA ValuesStep == IInv /\ [ValuesNext]_vars => IInv'
BY InvStep, CopyKeeps DEF ValuesNext

(* What the steps of all stashes, copies between them included, preserve.  *)
THEOREM Invariant == ValuesSpec => []IInv
BY InvInit, ValuesStep, PTL DEF ValuesSpec

(* In every reachable state each stash is a table of well-formed entries.  *)
(* (Stash::alloc, alloc_slice, append_one, clone and drop, and copies.)    *)
THEOREM TablesWellFormed == ValuesSpec => []TypeOK
<1>1. IInv => TypeOK
  BY DEF IInv, TypeOK, Good
<1> QED BY <1>1, Invariant, PTL

(* Content is stored once, whatever the hash: alloc and alloc_slice return *)
(* one handle for equal content of one type.                               *)
THEOREM ContentStoredOnce == ValuesSpec => []HashConsed
<1>1. IInv => HashConsed
  <2> SUFFICES ASSUME IInv, NEW s \in Live PROVE
        \A i, j \in DOMAIN stash[s].entries :
            LET a == stash[s].entries[i]
                b == stash[s].entries[j]
            IN  a.type = b.type /\ a.many = b.many /\ a.values = b.values => i = j
    BY DEF HashConsed
  <2>1. Good(stash[s])
    BY DEF IInv
  <2>2. DOMAIN stash[s].entries = 1 .. Len(stash[s].entries)
    BY <2>1, GoodTable DEF Table
  <2> QED BY <2>1, <2>2 DEF Good, Consed
<1> QED BY <1>1, Invariant, PTL

(* Stashed::eq decides equality of the trees, of whatever stashes, filled  *)
(* in whatever order: what Salsa backdates a query on.                     *)
THEOREM FingerprintsDecideEquality == ValuesSpec => []RootedEquality
<1>1. IInv => RootedEquality
  <2> SUFFICES ASSUME IInv, NEW s \in Live, NEW t \in Live,
                      NEW i \in DOMAIN Unfold(stash[s]), NEW j \in DOMAIN Unfold(stash[t]),
                      Unfold(stash[s])[i].type = Unfold(stash[t])[j].type,
                      Unfold(stash[s])[i].many = Unfold(stash[t])[j].many
               PROVE  <<i, j>> \in SameRoot(stash[s], stash[t])
                        <=> Unfold(stash[s])[i] = Unfold(stash[t])[j]
    BY DEF RootedEquality
  <2>1. Good(stash[s]) /\ Good(stash[t])
    BY DEF IInv
  <2> DEFINE st == stash[s]
             other == stash[t]
  <2> HIDE DEF st, other
  <2>2. Good(st) /\ Good(other) /\ i \in DOMAIN Unfold(st) /\ j \in DOMAIN Unfold(other)
    BY <2>1 DEF st, other
  <2>3. i \in 1 .. Len(st.entries) /\ j \in 1 .. Len(other.entries)
    BY <2>2, UnfoldSteps
  <2>4. /\ Unfold(st)[i] = Tree(Unfold(st), st.entries[i])
        /\ Unfold(other)[j] = Tree(Unfold(other), other.entries[j])
    BY <2>2, <2>3, UnfoldSteps
  <2>5. st.entries[i].type = other.entries[j].type /\ st.entries[i].many = other.entries[j].many
    BY <2>4, TreeSays DEF st, other
  <2>6. Fingerprints(st)[i] = Fingerprints(other)[j] <=> Unfold(st)[i] = Unfold(other)[j]
    BY <2>2, <2>3, <2>5, SameTrees
  <2>7. i \in DOMAIN Fingerprints(st) /\ j \in DOMAIN Fingerprints(other)
    BY <2>2, <2>3, FingerprintSteps
  <2>8. <<i, j>> \in SameRoot(st, other) <=> Fingerprints(st)[i] = Fingerprints(other)[j]
    BY <2>7 DEF SameRoot
  <2> QED BY <2>6, <2>8 DEF st, other
<1> QED BY <1>1, Invariant, PTL

(* Stashed::copy_into gives a handle for an equal tree, whatever the       *)
(* target held before, and leaves what it held in place.                   *)
THEOREM CopiesKeepMeaning == ValuesSpec => []CopyPreserves
<1>1. IInv => CopyPreserves
  <2> SUFFICES ASSUME IInv, NEW s \in Live, NEW t \in Live,
                      NEW i \in DOMAIN Unfold(stash[s])
               PROVE  LET r == StashCopy(stash[s], i, stash[t])
                      IN  /\ Unfold(r.stash)[r.index] = Unfold(stash[s])[i]
                          /\ IsPrefix(stash[t].entries, r.stash.entries)
    BY DEF CopyPreserves
  <2>1. Good(stash[s]) /\ Good(stash[t])
    BY DEF IInv
  <2>2. i \in 1 .. Len(stash[s].entries)
    BY <2>1, UnfoldSteps
  <2> DEFINE r == StashCopy(stash[s], i, stash[t])
             es == stash[t].entries
             fs == r.stash.entries
  <2>3. /\ Good(r.stash) /\ Extends(stash[t], r.stash)
        /\ Unfold(r.stash)[r.index] = Unfold(stash[s])[i]
    BY <2>1, <2>2, CopyRight
  <2>4. /\ Len(es) \in Nat /\ Len(fs) \in Nat /\ Len(es) <= Len(fs)
        /\ \A k \in 1 .. Len(es) : fs[k] = es[k]
    BY <2>1, <2>3 DEF Good, Rows, Extends
  <2> HIDE DEF r, es, fs
  <2>5. IsPrefix(es, fs)
    <3>1. \A k \in 1 .. ((Len(es) - 1) + 1) : (k + 1) - 1 = k /\ k \in 1 .. Len(es)
      BY <2>4
    <3>2. SubSeq(es, 1, Len(es)) = SubSeq(fs, 1, Len(es))
      BY <2>4, <3>1
    <3> QED BY <2>4, <3>2 DEF IsPrefix
  <2> QED BY <2>3, <2>5 DEF r, es, fs
<1> QED BY <1>1, Invariant, PTL
=============================================================================
