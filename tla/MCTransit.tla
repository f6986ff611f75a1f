----------------------------- MODULE MCTransit -----------------------------
(***************************************************************************)
(* Small instances of Transit: alice owns every key, bob may be given      *)
(* access.                                                                 *)
(***************************************************************************)
EXTENDS Transit, TLC

CONSTANTS alice, bob

MCOwner == [k \in Keys |-> alice]
AllAsked == SUBSET Permissions
FewAsked == {{"ENCRYPT"}}
Symmetry == Permutations(Materials) \cup Permutations(Tasks) \cup Permutations(Keys)

(* The same, from a document in which alice has created every key.         *)
InitCreated ==
    /\ \E m \in [Keys -> Materials] :
          /\ keys = [k \in Keys |-> [usage |-> "ENCRYPT_DECRYPT", versions |-> <<m[k]>>]]
          /\ drawn = {m[k] : k \in Keys}
    /\ policies = [k \in Keys |-> NoGrants]
    /\ pc = [t \in Tasks |-> "idle"]
    /\ call = [t \in Tasks |-> None]
    /\ rec = [t \in Tasks |-> None]
    /\ kdoc = [t \in Tasks |-> None]
    /\ pdoc = [t \in Tasks |-> None]
    /\ last = [t \in Tasks |-> "none"]
    /\ issued = {}
    /\ entitled = [k \in Keys |-> NoGrants]
    /\ halfway = {}

SpecCreated == InitCreated /\ [][Next]_vars
=============================================================================
