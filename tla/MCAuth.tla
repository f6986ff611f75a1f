------------------------------- MODULE MCAuth -------------------------------
(***************************************************************************)
(* Small instances of Auth.  In the serial one a single caller uses two    *)
(* accounts; in the concurrent one two threads of a process use one.       *)
(***************************************************************************)
EXTENDS Auth, TLC

CONSTANTS server, a, b

MCProcs == {server}
MCHome == [t \in Tasks |-> server]

(* The same, from a document in which every account is registered.        *)
InitRegistered ==
    /\ users \in [Emails -> {NewAccount(pw) : pw \in Passwords}]
    /\ sessions = [p \in Procs |-> [k \in Tokens |-> None]]
    /\ now = 0
    /\ pc = [t \in Tasks |-> "idle"]
    /\ call = [t \in Tasks |-> None]
    /\ acct = [t \in Tasks |-> None]
    /\ doc = [t \in Tasks |-> None]
    /\ stamp = [t \in Tasks |-> 0]
    /\ last = [t \in Tasks |-> "none"]
    /\ drawn = {}
    /\ secrets = {}
    /\ streak = [e \in Emails |-> 0]

SpecRegistered == InitRegistered /\ [][Next]_vars

(* Passphrases and tokens are interchangeable.                             *)
Symmetry == Permutations(Passwords) \cup Permutations(Tokens)
                \cup Permutations(Emails) \cup Permutations(Seeds)
=============================================================================
