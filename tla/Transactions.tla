---------------------------- MODULE Transactions ----------------------------
(***************************************************************************)
(* What the inference state promises to its users: nested transactions     *)
(* with copy semantics.  Every open transaction owns a complete private    *)
(* copy of the store, taken from its parent when it began.  A transaction  *)
(* with open children is frozen.  Committing an only, childless child      *)
(* replaces its parent's copy; aborting a transaction drops it with all    *)
(* the transactions nested in it and touches no other copy.                *)
(*                                                                         *)
(* VersionedStore implements this with sparse differences and no copying.  *)
(***************************************************************************)
EXTENDS Naturals

CONSTANTS VersionBound,  \* number of version identities a behaviour may use
          Keys,          \* what the store maps
          Values,        \* the values a key can be given
          None           \* a key that was never given a value

VARIABLES open,          \* the transactions that are neither committed nor aborted
          used,          \* how many identities have been handed out
          within,        \* the transaction each transaction was begun in
          copy           \* each open transaction's private copy

vars == <<open, used, within, copy>>

Version == 0 .. VersionBound - 1
Root == 0
EmptyCopy == [k \in Keys |-> None]

(* The transactions begun in t that are still open. *)
Nested(t) == {c \in open : c # Root /\ within[c] = t}

Init ==
  /\ open = {Root}
  /\ used = 1
  /\ within = [t \in Version |-> Root]
  /\ copy = [t \in Version |-> EmptyCopy]

Begin(t) ==
  /\ t \in open
  /\ used \in Version
  /\ open' = open \cup {used}
  /\ used' = used + 1
  /\ within' = [within EXCEPT ![used] = t]
  /\ copy' = [copy EXCEPT ![used] = copy[t]]

Put(t, k, x) ==
  /\ t \in open
  /\ Nested(t) = {}
  /\ copy' = [copy EXCEPT ![t][k] = x]
  /\ UNCHANGED <<open, used, within>>

Commit(t) ==
  /\ t \in open \ {Root}
  /\ Nested(t) = {}
  /\ Nested(within[t]) = {t}
  /\ open' = open \ {t}
  /\ copy' = [copy EXCEPT ![within[t]] = copy[t], ![t] = EmptyCopy]
  /\ UNCHANGED <<used, within>>

(* Aborting closes a set of transactions that contains t, leaves the       *)
(* transaction t was begun in alone, and leaves nothing open inside what   *)
(* it closes.                                                              *)
Abort(t, closed) ==
  /\ t \in open \ {Root}
  /\ t \in closed
  /\ \A c \in closed \ {t} : within[c] \in closed
  /\ \A c \in open \ closed : c = Root \/ within[c] \notin closed
  /\ open' = open \ closed
  /\ copy' = [c \in Version |-> IF c \in closed THEN EmptyCopy ELSE copy[c]]
  /\ UNCHANGED <<used, within>>

Next ==
  \/ \E t \in open : Begin(t)
  \/ \E t \in open, k \in Keys, x \in Values : Put(t, k, x)
  \/ \E t \in open : Commit(t)
  \/ \E t \in open : \E closed \in SUBSET open : Abort(t, closed)

Spec == Init /\ [][Next]_vars

=============================================================================
