------------------------------- MODULE KVAbs --------------------------------
(***************************************************************************)
(* What Mini Vault promises about its versioned secrets as long as calls   *)
(* do not overlap and none is disturbed: every write, deletion, grant and  *)
(* withdrawal takes effect at one moment and as a whole, the deletion of a *)
(* secret and of its access list at the same moment, and a read gives out  *)
(* what is there.                                                          *)
(***************************************************************************)
EXTENDS Naturals, Sequences

CONSTANTS Tasks, Users, Paths, Owner, Values,  \* as in KVStore
          None

VARIABLES secrets,  \* secrets[p]: the versions written to path p, in order
          grants,   \* grants[p][u]: what user u may do with path p
          spent,    \* the values that were ever written
          given     \* given[t]: the version a task has been given, or None

vars == <<secrets, grants, spent, given>>

NoGrants == [u \in Users |-> {}]

Init == /\ secrets = [p \in Paths |-> <<>>]
        /\ grants = [p \in Paths |-> NoGrants]
        /\ spent = {}
        /\ given = [t \in Tasks |-> None]

(* A new version comes behind the older ones, which all stay; what was     *)
(* deleted is never written again.                                         *)
Write(p) ==
    /\ \E v \in Values \ spent :
          /\ secrets' = [secrets EXCEPT ![p] = Append(@, v)]
          /\ spent' = spent \cup {v}
    /\ UNCHANGED <<grants, given>>

Delete(p) ==
    /\ secrets[p] # <<>>
    /\ secrets' = [secrets EXCEPT ![p] = <<>>]
    /\ grants' = [grants EXCEPT ![p] = NoGrants]
    /\ UNCHANGED <<spent, given>>

Read(t, p) ==
    /\ \E n \in 1 .. Len(secrets[p]) :
          given' = [given EXCEPT ![t] = [path |-> p, number |-> n,
                                         value |-> secrets[p][n]]]
    /\ UNCHANGED <<secrets, grants, spent>>

(* The next call of the task begins.                                       *)
Forget(t) ==
    /\ given' = [given EXCEPT ![t] = None]
    /\ UNCHANGED <<secrets, grants, spent>>

Grant(p, u, P) ==
    /\ secrets[p] # <<>>
    /\ grants' = [grants EXCEPT ![p][u] = @ \cup P]
    /\ UNCHANGED <<secrets, spent, given>>

Withdraw(p, u, P) ==
    /\ secrets[p] # <<>>
    /\ grants' = [grants EXCEPT ![p][u] = @ \ P]
    /\ UNCHANGED <<secrets, spent, given>>

(* No one is granted anything on his own paths, nor has it withdrawn.      *)
Next ==
    \/ \E p \in Paths :
          \/ Write(p) \/ Delete(p)
          \/ \E t \in Tasks : Read(t, p)
          \/ \E u \in Users \ {Owner[p]}, P \in SUBSET {"READ", "WRITE", "DELETE"} :
                Grant(p, u, P) \/ Withdraw(p, u, P)
    \/ \E t \in Tasks : Forget(t)

Spec == Init /\ [][Next]_vars
=============================================================================
