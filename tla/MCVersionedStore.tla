-------------------------- MODULE MCVersionedStore --------------------------
(* Model values for the store's data; the values are interchangeable. *)
EXTENDS VersionedStore, TLC

DataSymmetry == Permutations(Values)

=============================================================================
