----------------------------- MODULE MCKVStore ------------------------------
(***************************************************************************)
(* A small instance of KVStore: alice owns every path, bob may be given    *)
(* access.                                                                 *)
(***************************************************************************)
EXTENDS KVStore, TLC

CONSTANTS alice, bob

MCOwner == [p \in Paths |-> alice]
MCAsked == {{"WRITE"}}
Symmetry == Permutations(Values) \cup Permutations(Tasks) \cup Permutations(Paths)
=============================================================================
