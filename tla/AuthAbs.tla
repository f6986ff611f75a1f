------------------------------ MODULE AuthAbs ------------------------------
(***************************************************************************)
(* What Mini Vault promises about its accounts and sessions as long as     *)
(* calls that work on an account do not overlap: a registration, a failed  *)
(* or a successful authentication and an enrolment each see an account and *)
(* change it at one moment, and each authentication opens one session at   *)
(* most.  A call goes by a time at which it has looked at the clock.       *)
(***************************************************************************)
EXTENDS Integers

CONSTANTS Procs, Tasks, Home, Emails, Passwords, Seeds, Tokens,  \* as in Auth
          MaxFailures, LockoutLifetime, SessionLifetime,
          None

VARIABLES accounts,  \* accounts[e]: the account of e, or None
          sessions,  \* sessions[p][k]: the session of token k in process p
          entered,   \* entered[t]: the authentication that task t has still
                     \* to open a session for, or None
          secrets,   \* the seeds that were answered to a user
          now        \* the clock

vars == <<accounts, sessions, entered, secrets, now>>

Init == /\ accounts = [e \in Emails |-> None]
        /\ sessions = [p \in Procs |-> [k \in Tokens |-> None]]
        /\ entered = [t \in Tasks |-> None]
        /\ secrets = {}
        /\ now = 0

(* There is an account, and it was not locked at time n.                   *)
Free(e, n) ==
    /\ accounts[e] # None
    /\ accounts[e].locked # None => n >= accounts[e].locked

Clear(a) == [a EXCEPT !.failed = 0, !.locked = None]

Register(e) ==
    /\ accounts[e] = None
    /\ \E pw \in Passwords :
          accounts' = [accounts EXCEPT ![e] =
              [password |-> pw, failed |-> 0, locked |-> None, mfa |-> None]]
    /\ UNCHANGED <<sessions, entered, secrets, now>>

Failed(a, n) ==
    [a EXCEPT !.failed = @ + 1,
              !.locked = IF a.failed + 1 >= MaxFailures THEN n + LockoutLifetime
                         ELSE None]

(* No failure goes uncounted, and each from MaxFailures on locks.          *)
Fail(e) ==
    /\ \E n \in 0 .. now :
          /\ Free(e, n)
          /\ accounts' = [accounts EXCEPT ![e] = Failed(@, n)]
    /\ UNCHANGED <<sessions, entered, secrets, now>>

(* A login may fail once it is stored: then it opens no session.           *)
Login(t, e) ==
    /\ \E n \in 0 .. now :
          /\ Free(e, n)
          /\ entered' \in {entered, [entered EXCEPT ![t] = [email |-> e, at |-> n]]}
    /\ accounts' = [accounts EXCEPT ![e] = Clear(@)]
    /\ UNCHANGED <<sessions, secrets, now>>

(* A seed that no other account has, sealed under the passphrase.  An      *)
(* enrolment may fail once it is stored: then the seed is not answered.    *)
Enrol(e) ==
    /\ \E n \in 0 .. now : Free(e, n)
    /\ accounts[e].mfa = None
    /\ \E s \in Seeds :
          /\ \A f \in Emails : accounts[f] # None /\ accounts[f].mfa # None =>
                accounts[f].mfa.seed # s
          /\ accounts' = [accounts EXCEPT ![e] = [Clear(@) EXCEPT
                !.mfa = [seed |-> s, sealedUnder |-> accounts[e].password]]]
    /\ UNCHANGED <<sessions, entered, secrets, now>>

(* The user of an account is told the seed that it has.                    *)
Tell(e) ==
    /\ accounts[e] # None
    /\ accounts[e].mfa # None
    /\ secrets' = secrets \cup {[email |-> e, seed |-> accounts[e].mfa.seed]}
    /\ UNCHANGED <<accounts, sessions, entered, now>>

(* A session lasts from the time the login went by; nothing has locked the *)
(* account since.                                                          *)
Open(t, k) ==
    /\ entered[t] # None
    /\ accounts[entered[t].email] # None
    /\ accounts[entered[t].email].locked = None
    /\ \A p \in Procs : sessions[p][k] = None
    /\ sessions' = [sessions EXCEPT ![Home[t]][k] =
          [email |-> entered[t].email, expires |-> entered[t].at + SessionLifetime]]
    /\ entered' = [entered EXCEPT ![t] = None]
    /\ UNCHANGED <<accounts, secrets, now>>

(* A session goes when its time is over, or with its process.              *)
Close(p, k) ==
    /\ sessions[p][k] # None
    /\ now >= sessions[p][k].expires
    /\ sessions' = [sessions EXCEPT ![p][k] = None]
    /\ UNCHANGED <<accounts, entered, secrets, now>>

Restart(p) ==
    /\ sessions' = [sessions EXCEPT ![p] = [k \in Tokens |-> None]]
    /\ entered' = [t \in Tasks |-> IF Home[t] = p THEN None ELSE entered[t]]
    /\ UNCHANGED <<accounts, secrets, now>>

Tick == now' = now + 1 /\ UNCHANGED <<accounts, sessions, entered, secrets>>

Next ==
    \/ \E e \in Emails : \/ Register(e) \/ Fail(e) \/ Enrol(e) \/ Tell(e)
                         \/ \E t \in Tasks : Login(t, e)
    \/ \E k \in Tokens : \/ \E t \in Tasks : Open(t, k)
                         \/ \E p \in Procs : Close(p, k)
    \/ \E p \in Procs : Restart(p)
    \/ Tick

Spec == Init /\ [][Next]_vars
=============================================================================
