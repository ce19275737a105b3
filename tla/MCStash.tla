------------------------------ MODULE MCStash ------------------------------
(***************************************************************************)
(* Two stashes and two types: a leaf with two variants, and a node that is *)
(* either a tip holding a slice of leaves or a pair of nodes.  The hash   *)
(* sees how much is written but not which tag, so that contents collide.   *)
(***************************************************************************)
EXTENDS StashedValues

CONSTANTS s1, s2, Leaf, Node, ta, tb, tip, pair

MCFields ==
    (Leaf :> (ta :> <<>> @@ tb :> <<>>))
      @@ (Node :> (tip :> <<[many |-> TRUE, type |-> Leaf]>>
                     @@ pair :> <<[many |-> FALSE, type |-> Node], [many |-> FALSE, type |-> Node]>>))

Symmetry == Permutations({s1, s2}) \cup Permutations({ta, tb})

MCKinds == {[many |-> TRUE, type |-> Leaf], [many |-> FALSE, type |-> Node]}

MCHash(words) == [w \in DOMAIN words |-> Len(words[w].kids)]

=============================================================================
