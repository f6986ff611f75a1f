------------------------------ MODULE VaultAbs ------------------------------
(***************************************************************************)
(* What Mini Vault promises about its Data Encryption Key (DEK).  There is *)
(* at most one sealed envelope on disk, ever.  A process either holds no   *)
(* DEK (it is locked) or holds the DEK of that envelope; it comes to hold  *)
(* it only through a credential that opens the envelope, and it may lose   *)
(* it at any time (a restart, a failed attempt to unlock).                 *)
(***************************************************************************)
CONSTANTS Procs,      \* the processes that use one data directory
          Envelopes,  \* the envelopes that could be sealed; each has a dek
          None        \* no envelope, no DEK

VARIABLES sealed,     \* the envelope on disk, or None
          open        \* open[p]: the DEK process p holds, or None

vars == <<sealed, open>>

Init == sealed = None /\ open = [p \in Procs |-> None]

(* The one initialization that succeeds.  It leaves every process locked.  *)
Seal == /\ sealed = None
        /\ sealed' \in Envelopes
        /\ open' = open

Open(p) == /\ sealed # None
           /\ open' = [open EXCEPT ![p] = sealed.dek]
           /\ sealed' = sealed

Lock(p) == /\ open' = [open EXCEPT ![p] = None]
           /\ sealed' = sealed

Next == Seal \/ \E p \in Procs : Open(p) \/ Lock(p)

Spec == Init /\ [][Next]_vars
=============================================================================
