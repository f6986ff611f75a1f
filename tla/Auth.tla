-------------------------------- MODULE Auth --------------------------------
(***************************************************************************)
(* Accounts, logins and sessions: src/auth/service.py over the account     *)
(* repository of src/storage/repository.py and the second factor of        *)
(* src/auth/totp.py.                                                       *)
(*                                                                         *)
(* The account document is one JSON file that all processes share and that *)
(* is replaced as a whole, atomically; nothing locks it.  A call reads one *)
(* account, decides on that copy, reads the document again and writes the  *)
(* document back with the copy in it.  Each access to the file, to the     *)
(* session table of the process or to the clock is one step of the task    *)
(* (thread) that runs the call.                                            *)
(*                                                                         *)
(* The unit of time is the TOTP period.  Hashing, AES-GCM and HMAC are     *)
(* ideal: a password verifies against its own hash only, a code is the     *)
(* pair of the seed and the counter it was computed for.                   *)
(***************************************************************************)
EXTENDS Integers

CONSTANTS Procs, Tasks, Home,  \* processes, threads, the process of a thread
          Emails,              \* canonical addresses
          Passwords,           \* acceptable passphrases
          Seeds,               \* TOTP seeds
          Tokens,              \* session tokens
          MaxFailures,         \* failures that lock an account, 5 in the code
          LockoutLifetime,     \* 5 minutes in the code
          SessionLifetime,     \* 30 minutes in the code
          MaxTime,             \* bound on the clock
          MaxCount,            \* bound on the failures of one account
          None

Time == Nat

ASSUME AuthAssumption ==
    /\ Home \in [Tasks -> Procs]
    /\ MaxFailures \in Nat \ {0}
    /\ LockoutLifetime \in Nat \ {0}
    /\ SessionLifetime \in Nat \ {0}
    /\ MaxTime \in Nat /\ MaxCount \in Nat
    /\ None \notin Nat /\ None \notin Seeds /\ None \notin Tokens
    /\ None \notin Emails

VARIABLES users,    \* users[e]: the account of e in the document, or None
          sessions, \* sessions[p][k]: what token k stands for in process p
          now,      \* the clock
          pc,       \* where the call of a task stands
          call,     \* call[t]: the call and the account it is about
          acct,     \* acct[t]: the copy of the account the call works on
          doc,      \* doc[t]: the document read for the replacement
          stamp,    \* stamp[t]: the time, or the expiry, the call goes by
          last,     \* last[t]: the outcome of the task's last call
          drawn,    \* seeds and tokens already drawn
          secrets,  \* the seeds that were answered to a user
          streak    \* failures answered to e since it last authenticated
vars == <<users, sessions, now, pc, call, acct, doc, stamp, last, drawn,
          secrets, streak>>
-----------------------------------------------------------------------------
(* The persisted account.  The seed is sealed under the passphrase.        *)
Mfa == [seed : Seeds, sealedUnder : Passwords]
Account == [password : Passwords, failed : Nat,
            locked : Time \cup {None}, mfa : Mfa \cup {None}]
Document == [Emails -> Account \cup {None}]
Session == [email : Emails, expires : Time]

NewAccount(pw) == [password |-> pw, failed |-> 0, locked |-> None, mfa |-> None]

(* Mutant: a login opens the account but keeps the count of its failures. *)
Authenticated_KeepsCount(a) == [a EXCEPT !.locked = None]
Authenticated(a) == [a EXCEPT !.failed = 0, !.locked = None]

(* Mutants: an account is locked one failure late; the failure count is    *)
(* cleared when it locks the account; further failures lock it longer.     *)
Rejected_Late(a, n) ==
    [a EXCEPT !.failed = a.failed + 1,
              !.locked = IF a.failed >= MaxFailures
                         THEN n + LockoutLifetime ELSE None]
Rejected_Restarts(a, n) ==
    IF a.failed + 1 >= MaxFailures
    THEN [a EXCEPT !.failed = 0, !.locked = n + LockoutLifetime]
    ELSE [a EXCEPT !.failed = a.failed + 1, !.locked = None]

Rejected_Escalates(a, n) ==
    [a EXCEPT !.failed = a.failed + 1,
              !.locked = IF a.failed + 1 >= MaxFailures
                         THEN n + LockoutLifetime * (a.failed + 2 - MaxFailures)
                         ELSE None]

(* _reject_authentication counts the failure and locks from the fifth on:  *)
(* the count is not cleared when a lock runs out.                          *)
Rejected(a, n) ==
    [a EXCEPT !.failed = a.failed + 1,
              !.locked = IF a.failed + 1 >= MaxFailures
                         THEN n + LockoutLifetime ELSE None]

IsLocked(a, n) == a.locked # None /\ n < a.locked

(* verify_totp accepts the code of the current period and of its two       *)
(* neighbours; nothing remembers the codes that were used.                 *)
Window == 1
OtpValid(m, pw, otp, n) ==
    /\ otp # None
    /\ m.sealedUnder = pw
    /\ otp.seed = m.seed
    /\ otp.counter \in n - Window .. n + Window
Otps == [seed : Seeds, counter : 0 .. MaxTime + Window + 1] \cup {None}

(* What a user may type for the second factor.                             *)
Verifies(a, pw, otp, n) ==
    /\ a.password = pw
    /\ a.mfa # None => OtpValid(a.mfa, pw, otp, n)

Calls == [op : {"register", "login", "enable_mfa", "reject"}, email : Emails]
             \cup [op : {"validate"}, token : Tokens]

ASSUME NoneAssumption ==
    None \notin Mfa /\ None \notin Account /\ None \notin Document
        /\ None \notin Session /\ None \notin Calls

Outcomes == {"none", "registered", "session", "enrolled", "valid",
             "INVALID_CREDENTIALS", "ACCOUNT_LOCKED", "DUPLICATE_USER",
             "INVALID_INPUT", "UNAUTHENTICATED", "KeyError"}
-----------------------------------------------------------------------------
Init == /\ users = [e \in Emails |-> None]
        /\ sessions = [p \in Procs |-> [k \in Tokens |-> None]]
        /\ now = 0
        /\ pc = [t \in Tasks |-> "idle"]
        /\ call = [t \in Tasks |-> None]
        /\ acct = [t \in Tasks |-> None]
        /\ doc = [t \in Tasks |-> None]
        /\ stamp = [t \in Tasks |-> 0]
        /\ last = [t \in Tasks |-> "none"]
        /\ drawn = {}
        /\ secrets = {}
        /\ streak = [e \in Emails |-> 0]

Forget(t) ==
    /\ pc' = [pc EXCEPT ![t] = "idle"]
    /\ call' = [call EXCEPT ![t] = None]
    /\ acct' = [acct EXCEPT ![t] = None]
    /\ doc' = [doc EXCEPT ![t] = None]
    /\ stamp' = [stamp EXCEPT ![t] = 0]

Return(t, outcome) == Forget(t) /\ last' = [last EXCEPT ![t] = outcome]

Goto(t, label) == pc' = [pc EXCEPT ![t] = label]
-----------------------------------------------------------------------------
(* Mutant: create_account does not look for the address. *)
Register_Overwrites(t, e, pw) ==
    /\ pc[t] = "idle"
    /\ call' = [call EXCEPT ![t] = [op |-> "register", email |-> e]]
    /\ acct' = [acct EXCEPT ![t] = NewAccount(pw)]
    /\ doc' = [doc EXCEPT ![t] = users]
    /\ Goto(t, "write")
    /\ last' = [last EXCEPT ![t] = "none"]
    /\ UNCHANGED <<stamp, users, sessions, now, drawn, secrets, streak>>

(* register hashes the passphrase and lets create_account read the         *)
(* document.  Acceptable input is assumed: anything else returns           *)
(* INVALID_INPUT before the file is touched.                               *)
Register(t, e, pw) ==
    /\ pc[t] = "idle"
    /\ \/ /\ users[e] # None
          /\ Return(t, "DUPLICATE_USER")
       \/ /\ users[e] = None
          /\ call' = [call EXCEPT ![t] = [op |-> "register", email |-> e]]
          /\ acct' = [acct EXCEPT ![t] = NewAccount(pw)]
          /\ doc' = [doc EXCEPT ![t] = users]
          /\ Goto(t, "write")
          /\ last' = [last EXCEPT ![t] = "none"]
          /\ UNCHANGED stamp
    /\ UNCHANGED <<users, sessions, now, drawn, secrets, streak>>

(* login and enable_mfa start alike: they take a copy of the account.      *)
ReadAccount(t, op, e) ==
    /\ pc[t] = "idle"
    /\ \/ /\ users[e] = None
          /\ Return(t, "INVALID_CREDENTIALS")
       \/ /\ users[e] # None
          /\ call' = [call EXCEPT ![t] = [op |-> op, email |-> e]]
          /\ acct' = [acct EXCEPT ![t] = users[e]]
          /\ Goto(t, "verify")
          /\ last' = [last EXCEPT ![t] = "none"]
          /\ UNCHANGED <<doc, stamp>>
    /\ UNCHANGED <<users, sessions, now, drawn, secrets, streak>>

(* The clock is read once; a locked copy ends the call before any          *)
(* verification, whatever was typed.                                       *)
Refuse(t) ==
    /\ pc[t] = "verify"
    /\ IsLocked(acct[t], now)
    /\ Return(t, "ACCOUNT_LOCKED")
    /\ UNCHANGED <<users, sessions, now, drawn, secrets, streak>>

(* A failure is counted on the copy and the copy is to be stored.          *)
Reject(t, pw, otp) ==
    /\ pc[t] = "verify"
    /\ ~IsLocked(acct[t], now)
    /\ acct[t].failed < MaxCount /\ streak[call[t].email] < MaxCount
    /\ \/ call[t].op = "login" /\ ~Verifies(acct[t], pw, otp, now)
       \/ call[t].op = "enable_mfa" /\ acct[t].password # pw
    /\ acct' = [acct EXCEPT ![t] = Rejected(acct[t], now)]
    /\ call' = [call EXCEPT ![t].op = "reject"]
    /\ Goto(t, "read")
    /\ UNCHANGED <<users, sessions, now, doc, stamp, last, drawn, secrets,
                   streak>>

(* Mutant: the right factors open a locked account. *)
AcceptLogin_DespiteLock(t, pw, otp) ==
    /\ pc[t] = "verify"
    /\ call[t].op = "login"
    /\ Verifies(acct[t], pw, otp, now)
    /\ acct' = [acct EXCEPT ![t] = Authenticated(acct[t])]
    /\ stamp' = [stamp EXCEPT ![t] = now]
    /\ Goto(t, "read")
    /\ UNCHANGED <<users, sessions, now, call, doc, last, drawn, secrets, streak>>

(* Both factors of a login hold: the counters of the copy are cleared.     *)
AcceptLogin(t, pw, otp) ==
    /\ pc[t] = "verify"
    /\ call[t].op = "login"
    /\ ~IsLocked(acct[t], now)
    /\ Verifies(acct[t], pw, otp, now)
    /\ acct' = [acct EXCEPT ![t] = Authenticated(acct[t])]
    /\ stamp' = [stamp EXCEPT ![t] = now]
    /\ Goto(t, "read")
    /\ UNCHANGED <<users, sessions, now, call, doc, last, drawn, secrets, streak>>

(* Mutant: the seed is answered before it is stored. *)
AcceptEnrolment_AnswersFirst(t, pw) ==
    /\ pc[t] = "verify"
    /\ call[t].op = "enable_mfa"
    /\ ~IsLocked(acct[t], now)
    /\ acct[t].password = pw
    /\ acct[t].mfa = None
    /\ \E s \in Seeds \ drawn :
         /\ drawn' = drawn \cup {s}
         /\ acct' = [acct EXCEPT ![t] =
                [Authenticated(@) EXCEPT !.mfa = [seed |-> s, sealedUnder |-> pw]]]
         /\ secrets' = secrets \cup {[email |-> call[t].email, seed |-> s]}
    /\ Goto(t, "read")
    /\ UNCHANGED <<users, sessions, now, call, doc, stamp, last, streak>>

(* enable_mfa: the passphrase holds and no seed is there yet.              *)
AcceptEnrolment(t, pw) ==
    /\ pc[t] = "verify"
    /\ call[t].op = "enable_mfa"
    /\ ~IsLocked(acct[t], now)
    /\ acct[t].password = pw
    /\ acct[t].mfa = None
    /\ \E s \in Seeds \ drawn :
         /\ drawn' = drawn \cup {s}
         /\ acct' = [acct EXCEPT ![t] =
                [Authenticated(@) EXCEPT !.mfa = [seed |-> s, sealedUnder |-> pw]]]
    /\ Goto(t, "read")
    /\ UNCHANGED <<users, sessions, now, call, doc, stamp, last, secrets, streak>>

RefuseEnrolment(t, pw) ==
    /\ pc[t] = "verify"
    /\ call[t].op = "enable_mfa"
    /\ ~IsLocked(acct[t], now)
    /\ acct[t].password = pw
    /\ acct[t].mfa # None
    /\ Return(t, "INVALID_INPUT")
    /\ UNCHANGED <<users, sessions, now, drawn, secrets, streak>>
-----------------------------------------------------------------------------
(* replace_account reads the whole document again; the copy will replace   *)
(* whatever account it finds there.                                        *)
ReplaceRead(t) ==
    /\ pc[t] = "read"
    /\ \/ /\ users[call[t].email] = None
          /\ Return(t, "INVALID_INPUT")
       \/ /\ users[call[t].email] # None
          /\ doc' = [doc EXCEPT ![t] = users]
          /\ Goto(t, "write")
          /\ UNCHANGED <<call, acct, stamp, last>>
    /\ UNCHANGED <<users, sessions, now, drawn, secrets, streak>>

Stored(t) == [doc[t] EXCEPT ![call[t].email] = acct[t]]

(* os.replace: the document holds the copy of the call now.               *)
(* replace_account returns; a login still has its token to draw.           *)
Write(t) ==
    /\ pc[t] = "write"
    /\ users' = Stored(t)
    /\ Goto(t, IF call[t].op = "login" THEN "token" ELSE "answer")
    /\ doc' = [doc EXCEPT ![t] = None]
    /\ streak' = IF call[t].op = "reject" THEN streak
                 ELSE [streak EXCEPT ![call[t].email] = 0]
    /\ UNCHANGED <<sessions, now, call, acct, stamp, last, drawn, secrets>>

(* The call returns what it has stored: a seed and a failure are known to  *)
(* the user from here on.                                                  *)
Answer(t) ==
    LET e == call[t].email
        op == call[t].op
    IN  /\ pc[t] = "answer"
        /\ \/ /\ op = "register"
              /\ Return(t, "registered")
              /\ UNCHANGED <<secrets, streak>>
           \/ /\ op = "reject"
              /\ Return(t, "INVALID_CREDENTIALS")
              /\ streak' = [streak EXCEPT ![e] = @ + 1]
              /\ UNCHANGED secrets
           \/ /\ op = "enable_mfa"
              /\ Return(t, "enrolled")
              /\ secrets' = secrets \cup {[email |-> e, seed |-> acct[t].mfa.seed]}
              /\ UNCHANGED streak
        /\ UNCHANGED <<users, sessions, now, drawn>>

(* The operating system refuses: reading or writing the temporary file     *)
(* before the document is replaced, or the fsync of the directory after.   *)
Fault(t) ==
    /\ \/ /\ pc[t] \in {"read", "write"}
          /\ UNCHANGED <<users, streak>>
       \/ /\ pc[t] = "write"
          /\ users' = Stored(t)
          /\ streak' = IF call[t].op = "reject" THEN streak
                       ELSE [streak EXCEPT ![call[t].email] = 0]
    /\ Return(t, "INVALID_INPUT")
    /\ UNCHANGED <<sessions, now, drawn, secrets>>

(* Mutant: a session without an end. *)
IssueToken_NoExpiry(t) ==
    /\ pc[t] = "token"
    /\ \E k \in Tokens \ drawn :
         /\ drawn' = drawn \cup {k}
         /\ sessions' = [sessions EXCEPT ![Home[t]][k] =
                           [email |-> call[t].email, expires |-> None]]
    /\ Return(t, "session")
    /\ UNCHANGED <<users, now, secrets, streak>>

(* A session lasts from the time the login read, not from its end.         *)
IssueToken(t) ==
    /\ pc[t] = "token"
    /\ \E k \in Tokens \ drawn :
         /\ drawn' = drawn \cup {k}
         /\ sessions' = [sessions EXCEPT ![Home[t]][k] =
                [email |-> call[t].email, expires |-> stamp[t] + SessionLifetime]]
    /\ Return(t, "session")
    /\ UNCHANGED <<users, now, secrets, streak>>
-----------------------------------------------------------------------------
(* Mutant: the clock is read before the table is, so the answer is that of *)
(* an earlier moment.                                                      *)
ValidateLookup_ClockFirst(t, k) ==
    /\ pc[t] = "idle"
    /\ LET s == sessions[Home[t]][k]
       IN  \/ /\ s = None
              /\ Return(t, "UNAUTHENTICATED")
           \/ /\ s # None
              /\ call' = [call EXCEPT ![t] = [op |-> "validate", token |-> k]]
              /\ stamp' = [stamp EXCEPT ![t] =
                              IF now < s.expires THEN MaxTime + 1 ELSE 0]
              /\ Goto(t, "expiry")
              /\ last' = [last EXCEPT ![t] = "none"]
              /\ UNCHANGED <<acct, doc>>
    /\ UNCHANGED <<users, sessions, now, drawn, secrets, streak>>

(* validate_session finds the token, then reads the clock, then removes    *)
(* the entry if it has expired: it may be gone by then.                    *)
ValidateLookup(t, k) ==
    /\ pc[t] = "idle"
    /\ LET s == sessions[Home[t]][k]
       IN  \/ /\ s = None
              /\ Return(t, "UNAUTHENTICATED")
           \/ /\ s # None
              /\ call' = [call EXCEPT ![t] = [op |-> "validate", token |-> k]]
              /\ stamp' = [stamp EXCEPT ![t] = s.expires]
              /\ Goto(t, "expiry")
              /\ last' = [last EXCEPT ![t] = "none"]
              /\ UNCHANGED <<acct, doc>>
    /\ UNCHANGED <<users, sessions, now, drawn, secrets, streak>>

ValidateExpiry(t) ==
    LET k == call[t].token
    IN  /\ pc[t] = "expiry"
        /\ \/ /\ now < stamp[t]
              /\ Return(t, "valid")
              /\ UNCHANGED sessions
           \/ /\ now >= stamp[t]
              /\ sessions[Home[t]][k] # None
              /\ sessions' = [sessions EXCEPT ![Home[t]][k] = None]
              /\ Return(t, "UNAUTHENTICATED")
           \/ /\ now >= stamp[t]
              /\ sessions[Home[t]][k] = None
              /\ Return(t, "KeyError")
              /\ UNCHANGED sessions
        /\ UNCHANGED <<users, now, drawn, secrets, streak>>
-----------------------------------------------------------------------------
Tick == /\ now < MaxTime
        /\ now' = now + 1
        /\ UNCHANGED <<users, sessions, pc, call, acct, doc, stamp, last, drawn,
                       secrets, streak>>

Cleared(p, f, v) == [t \in Tasks |-> IF Home[t] = p THEN v ELSE f[t]]

(* A process ends and starts again: sessions and calls are gone, the       *)
(* document stays.                                                         *)
Restart(p) ==
    /\ sessions' = [sessions EXCEPT ![p] = [k \in Tokens |-> None]]
    /\ pc' = Cleared(p, pc, "idle")
    /\ call' = Cleared(p, call, None)
    /\ acct' = Cleared(p, acct, None)
    /\ doc' = Cleared(p, doc, None)
    /\ stamp' = Cleared(p, stamp, 0)
    /\ last' = Cleared(p, last, "none")
    /\ UNCHANGED <<users, now, drawn, secrets, streak>>

Step(t) ==
    \/ \E e \in Emails : \/ \E pw \in Passwords : Register(t, e, pw)
                         \/ ReadAccount(t, "login", e)
                         \/ ReadAccount(t, "enable_mfa", e)
    \/ Refuse(t)
    \/ \E pw \in Passwords : AcceptEnrolment(t, pw) \/ RefuseEnrolment(t, pw)
    \/ \E pw \in Passwords, otp \in Otps : \/ Reject(t, pw, otp)
                                           \/ AcceptLogin(t, pw, otp)
    \/ ReplaceRead(t) \/ Write(t) \/ Answer(t) \/ Fault(t) \/ IssueToken(t)
    \/ \E k \in Tokens : ValidateLookup(t, k)
    \/ ValidateExpiry(t)

Next == \/ \E t \in Tasks : Step(t)
        \/ \E p \in Procs : Restart(p)
        \/ Tick

Spec == Init /\ [][Next]_vars
-----------------------------------------------------------------------------
TypeOK ==
    /\ users \in Document
    /\ sessions \in [Procs -> [Tokens -> Session \cup {None}]]
    /\ now \in Time
    /\ pc \in [Tasks -> {"idle", "verify", "read", "write", "answer", "token",
                     "expiry"}]
    /\ call \in [Tasks -> Calls \cup {None}]
    /\ acct \in [Tasks -> Account \cup {None}]
    /\ doc \in [Tasks -> Document \cup {None}]
    /\ stamp \in [Tasks -> Time]
    /\ last \in [Tasks -> Outcomes]
    /\ drawn \in SUBSET (Seeds \cup Tokens)
    /\ secrets \in SUBSET [email : Emails, seed : Seeds]
    /\ streak \in [Emails -> Nat]

(* However calls interleave, an account that is stored, or about to be, is *)
(* one that some sequence of calls could have left: it is locked exactly   *)
(* when its count has reached the limit, and its seed opens with its own   *)
(* passphrase, so that the second factor stays usable (service.py:92-130,  *)
(* 162-171, totp.py:105-144).                                              *)
Sound(a) == /\ a.locked # None <=> a.failed >= MaxFailures
            /\ a.mfa # None => a.mfa.sealedUnder = a.password
RecordsSound ==
    /\ \A e \in Emails : users[e] # None => Sound(users[e])
    /\ \A t \in Tasks : acct[t] # None => Sound(acct[t])

(* No lockout reaches further than the lockout time from now, no session   *)
(* further than its lifetime, however late a slow call stores its result   *)
(* (service.py:98, 165).                                                   *)
DeadlinesBounded ==
    /\ \A e \in Emails : users[e] # None /\ users[e].locked # None =>
          users[e].locked <= now + LockoutLifetime
    /\ \A p \in Procs, k \in Tokens : sessions[p][k] # None =>
          sessions[p][k].expires <= now + SessionLifetime

(* Every failure that was answered is counted: five answers in a row lock  *)
(* the account (SPEC.md:151, service.py:162).                              *)
FailuresCounted ==
    \A e \in Emails : users[e] # None => users[e].failed >= streak[e]

(* While an account is locked nothing changes it and no session is issued  *)
(* for it, even for the correct passphrase (SPEC.md:152, service.py:71).   *)
LockHolds ==
    [][\A e \in Emails : users[e] # None /\ IsLocked(users[e], now) =>
          /\ users'[e] = users[e]
          /\ \A p \in Procs, k \in Tokens :
                sessions'[p][k] # None /\ sessions[p][k] = None =>
                    sessions'[p][k].email # e]_vars

(* A seed that was answered to a user is the seed its account is checked   *)
(* against (service.py:124-134).                                           *)
SecretsInForce ==
    \A s \in secrets : /\ users[s.email] # None
                       /\ users[s.email].mfa # None
                       /\ users[s.email].mfa.seed = s.seed

(* A registered account stays, with its passphrase and its second factor:  *)
(* no registration and no other account's update replaces it, and one that *)
(* requires a second factor never stops requiring it and never changes its *)
(* seed (SPEC.md:144, specs/004-mfa-totp.md:7, service.py:92-94,           *)
(* repository.py:171).                                                     *)
AccountsPersist ==
    [][\A e \in Emails : users[e] # None =>
          /\ users'[e] # None
          /\ users'[e].password = users[e].password
          /\ users[e].mfa # None => users'[e].mfa = users[e].mfa]_vars

(* Whatever other threads validate meanwhile, an open session is left as   *)
(* it was opened: it goes only when its time is over or with its process,  *)
(* a new one has a token never seen before, so that none that ended comes  *)
(* back, and a validation that found its entry some time ago answers       *)
(* "valid" only while that very session is still open                      *)
(* (service.py:98-101, 141-148).                                           *)
SessionsEnd ==
    [][/\ \A p \in Procs, k \in Tokens :
            sessions[p][k] # None /\ sessions'[p][k] # sessions[p][k] =>
                /\ sessions'[p][k] = None
                /\ now >= sessions[p][k].expires \/ Restart(p)
       /\ \A p \in Procs, k \in Tokens :
            sessions[p][k] = None /\ sessions'[p][k] # None => k \notin drawn
       /\ \A t \in Tasks :
            pc[t] = "expiry" /\ last'[t] = "valid" =>
                /\ sessions'[Home[t]][call[t].token] # None
                /\ now < sessions'[Home[t]][call[t].token].expires]_vars
-----------------------------------------------------------------------------
(* AuthAbs as this module keeps it: an account changes when the document   *)
(* with the copy in it is written; from then on a login has a session to   *)
(* open.                                                                   *)
Entered == [t \in Tasks |-> IF pc[t] = "token"
                            THEN [email |-> call[t].email, at |-> stamp[t]]
                            ELSE None]
Entry == [email : Emails, at : Time]

ASSUME EntryAssumption == None \notin Entry

Abs == INSTANCE AuthAbs WITH accounts <- users, entered <- Entered

(* While calls that work on an account do not overlap, each takes effect   *)
(* at one moment, although it reads the account, decides, reads the        *)
(* document again and replaces it (service.py:45-134, repository.py:171).  *)
Refinement == Abs!Spec
=============================================================================
