----------------------------- MODULE AuthProofs -----------------------------
(***************************************************************************)
(* Proofs about Auth for every set of processes, threads, accounts,        *)
(* passphrases and seeds, and every limit and lifetime.                    *)
(***************************************************************************)
EXTENDS Auth, TLAPS

(* What holds of an account record, or of a copy of one, at time n.        *)
Good(a, n) == a # None =>
                  /\ Sound(a)
                  /\ a.locked # None => a.locked <= n + LockoutLifetime

(* What a call in progress has at hand, by the point it has reached.       *)
CallShape ==
    \A t \in Tasks :
        /\ pc[t] \in {"verify", "read", "write", "answer", "token"} =>
              call[t] # None /\ call[t] \in Calls /\ acct[t] # None
        /\ pc[t] = "verify" => call[t].op \in {"login", "enable_mfa"}
        /\ pc[t] = "read" => call[t].op \in {"login", "enable_mfa", "reject"}
        /\ pc[t] = "write" =>
              /\ call[t].op \in {"register", "login", "enable_mfa", "reject"}
              /\ doc[t] # None
        /\ pc[t] = "answer" => call[t].op \in {"register", "enable_mfa", "reject"}
        /\ pc[t] \in {"read", "write", "answer"} /\ call[t].op = "enable_mfa" =>
              acct[t].mfa # None
        /\ pc[t] = "token" => call[t].op = "login"
        /\ pc[t] = "expiry" => call[t] # None /\ call[t].op = "validate"
        /\ pc[t] \in {"idle", "verify", "read", "write", "answer", "token"} =>
              stamp[t] <= now

CopiesGood ==
    /\ \A e \in Emails : Good(users[e], now)
    /\ \A t \in Tasks : Good(acct[t], now)
    /\ \A t \in Tasks, e \in Emails : doc[t] # None => Good(doc[t][e], now)

SessionsBounded ==
    \A p \in Procs, k \in Tokens : sessions[p][k] # None =>
        sessions[p][k].expires <= now + SessionLifetime

IInv == TypeOK /\ CallShape /\ CopiesGood /\ SessionsBounded

(* A call that works on a copy of an account, and two such calls never     *)
(* overlap.  Nothing in the code sees to that: the document is not locked. *)
Busy(t) == pc[t] \in {"verify", "read", "write", "answer", "token"}
CallsApart == \A t, u \in Tasks : Busy(t) /\ Busy(u) => t = u

(* As long as that is so the copy is the account, then what the call makes *)
(* of it; and an account on which a call has decided is not locked.        *)
Faithful(t) ==
    LET a == acct[t]
        u == users[call[t].email]
    IN  /\ pc[t] = "verify" => u = a
        /\ pc[t] \in {"read", "write"} /\ call[t].op # "register" =>
              /\ u # None /\ ~IsLocked(u, now)
              /\ a.password = u.password
              /\ u.mfa # None => a.mfa = u.mfa
              /\ call[t].op = "enable_mfa" => u.mfa = None
              /\ call[t].op = "reject" => a.failed = u.failed + 1
              /\ call[t].op = "login" => a.locked = None
        /\ pc[t] = "write" => doc[t] = users
        /\ pc[t] = "write" /\ call[t].op = "register" => u = None
        /\ pc[t] = "answer" =>
              u = a /\ (call[t].op = "reject" => u.failed > streak[call[t].email])
        /\ pc[t] = "token" => u # None /\ u.locked = None

SInv == (\A t \in Tasks : Faithful(t)) /\ FailuresCounted /\ SecretsInForce

(* A call that is about an account has an email and no token.              *)
LEMMA CallFields ==
    \A c \in Calls :
        /\ c.op \in {"register", "login", "enable_mfa", "reject"} =>
              /\ c \in [op : {"register", "login", "enable_mfa", "reject"},
                        email : Emails]
              /\ c.email \in Emails
        /\ c.op = "validate" => c.token \in Tokens
BY DEF Calls

(* The three ways a call changes the copy of an account keep it sound.     *)
LEMMA RejectedGood ==
    ASSUME NEW a \in Account, NEW n \in Nat, Good(a, n)
    PROVE  Rejected(a, n) \in Account /\ Good(Rejected(a, n), n)
<1>1. a # None /\ a.failed \in Nat /\ n + LockoutLifetime \in Nat
  BY NoneAssumption, AuthAssumption DEF Account
<1>2. Rejected(a, n) \in Account
  <2>1. ASSUME NEW f \in Nat, NEW l \in Time \cup {None}
        PROVE  [a EXCEPT !.failed = f, !.locked = l] \in Account
    BY DEF Account
  <2>2. a.failed + 1 \in Nat /\ n + LockoutLifetime \in Time \cup {None}
    BY <1>1 DEF Time
  <2> QED BY <2>1, <2>2 DEF Rejected
<1>3. /\ Rejected(a, n).failed = a.failed + 1
      /\ Rejected(a, n).locked = IF a.failed + 1 >= MaxFailures
                                 THEN n + LockoutLifetime ELSE None
      /\ Rejected(a, n).mfa = a.mfa
      /\ Rejected(a, n).password = a.password
  BY DEF Account, Rejected
<1>4. n + LockoutLifetime # None
  BY <1>1, AuthAssumption
<1> QED BY <1>1, <1>2, <1>3, <1>4 DEF Good, Sound

(* The cleared copy of a call that was accepted.                           *)
LEMMA AuthenticatedGood ==
    ASSUME NEW a \in Account, NEW n \in Nat, Good(a, n)
    PROVE  Authenticated(a) \in Account /\ Good(Authenticated(a), n)
<1>1. a # None
  BY NoneAssumption
<1>2. Authenticated(a) \in Account
  BY DEF Account, Authenticated
<1>3. /\ Authenticated(a).failed = 0 /\ Authenticated(a).locked = None
      /\ Authenticated(a).mfa = a.mfa /\ Authenticated(a).password = a.password
  BY DEF Account, Authenticated
<1> QED BY <1>1, <1>2, <1>3, AuthAssumption DEF Good, Sound

(* The copy of a call that adds a seed, sealed under its own passphrase.   *)
LEMMA EnrolledGood ==
    ASSUME NEW a \in Account, NEW n \in Nat, NEW s \in Seeds, Good(a, n),
           NEW pw \in Passwords, a.password = pw
    PROVE  LET b == [Authenticated(a) EXCEPT
                        !.mfa = [seed |-> s, sealedUnder |-> pw]]
           IN  b \in Account /\ b.mfa # None /\ Good(b, n)
<1> DEFINE b == [Authenticated(a) EXCEPT
                    !.mfa = [seed |-> s, sealedUnder |-> pw]]
<1>1. [seed |-> s, sealedUnder |-> pw] \in Mfa
  BY DEF Mfa
<1>2. b \in Account
  BY <1>1 DEF Account, Authenticated
<1>3. /\ b.failed = 0 /\ b.locked = None /\ b.password = pw
      /\ b.mfa = [seed |-> s, sealedUnder |-> pw]
  BY DEF Account, Authenticated
<1> QED BY <1>1, <1>2, <1>3, AuthAssumption, NoneAssumption DEF Good, Sound

(* A new account is sound.                                                 *)
LEMMA NewGood ==
    ASSUME NEW pw \in Passwords, NEW n \in Nat
    PROVE  NewAccount(pw) \in Account /\ Good(NewAccount(pw), n)
BY AuthAssumption DEF NewAccount, Account, Good, Sound

(* Time only loosens the bounds.                                           *)
LEMMA GoodLater ==
    ASSUME NEW a \in Account \cup {None}, NEW n \in Nat, Good(a, n)
    PROVE  Good(a, n + 1)
<1>1. CASE a = None
  BY <1>1 DEF Good
<1>2. CASE a # None
  <2>1. a.locked # None => a.locked \in Nat
    BY <1>2 DEF Account, Time
  <2> QED BY <1>2, <2>1, AuthAssumption DEF Good
<1> QED BY <1>1, <1>2
-----------------------------------------------------------------------------
(* The invariant holds before the first call.                              *)
LEMMA InitInv == Init => IInv
<1> SUFFICES ASSUME Init PROVE IInv
  OBVIOUS
<1>1. TypeOK
  BY DEF Init, TypeOK, Document, Time, Outcomes
<1> QED BY <1>1, NoneAssumption
        DEF Init, IInv, CallShape, CopiesGood, SessionsBounded, Good, Time

(* A call that ends leaves the other calls as they were.                   *)
LEMMA ReturnInv ==
    ASSUME IInv, NEW t \in Tasks, NEW o \in Outcomes, Return(t, o), now' = now
    PROVE  /\ pc' \in [Tasks -> {"idle", "verify", "read", "write", "answer", "token", "expiry"}]
           /\ call' \in [Tasks -> Calls \cup {None}]
           /\ acct' \in [Tasks -> Account \cup {None}]
           /\ doc' \in [Tasks -> Document \cup {None}]
           /\ stamp' \in [Tasks -> Time]
           /\ last' \in [Tasks -> Outcomes]
           /\ CallShape'
           /\ \A u \in Tasks : Good(acct'[u], now)
           /\ \A u \in Tasks, e \in Emails : doc'[u] # None => Good(doc'[u][e], now)
<1> USE DEF IInv
<1>1. /\ pc'[t] = "idle" /\ acct'[t] = None /\ doc'[t] = None /\ stamp'[t] = 0
      /\ \A u \in Tasks \ {t} :
            /\ pc'[u] = pc[u] /\ call'[u] = call[u] /\ acct'[u] = acct[u]
            /\ doc'[u] = doc[u] /\ stamp'[u] = stamp[u]
  BY DEF TypeOK, Return, Forget
<1>2. CallShape'
  BY <1>1 DEF CallShape, TypeOK, Time
<1>3. /\ \A u \in Tasks : Good(acct'[u], now)
      /\ \A u \in Tasks, e \in Emails : doc'[u] # None => Good(doc'[u][e], now)
  BY <1>1 DEF CopiesGood, Good
<1> QED BY <1>2, <1>3 DEF TypeOK, Return, Forget, Time

(* A call that is refused changes nothing but its own record.              *)
LEMMA RefusedInv ==
    ASSUME IInv, NEW t \in Tasks, NEW o \in Outcomes, Return(t, o),
           UNCHANGED <<users, sessions, now, drawn, secrets, streak>>
    PROVE  IInv'
<1>1. TypeOK'
  BY ReturnInv DEF IInv, TypeOK
<1>2. CopiesGood' /\ CallShape'
  BY ReturnInv DEF IInv, CopiesGood, Good
<1>3. SessionsBounded'
  BY DEF IInv, SessionsBounded
<1> QED BY <1>1, <1>2, <1>3 DEF IInv

(* The steps one by one, first a registration.                             *)
LEMMA RegisterInv ==
    ASSUME IInv, NEW t \in Tasks, NEW e \in Emails, NEW pw \in Passwords,
           Register(t, e, pw)
    PROVE  IInv'
<1> USE DEF IInv
<1>1. CASE Return(t, "DUPLICATE_USER")
  BY <1>1, RefusedInv DEF Register, Outcomes
<1>2. CASE call' = [call EXCEPT ![t] = [op |-> "register", email |-> e]]
           /\ acct' = [acct EXCEPT ![t] = NewAccount(pw)]
           /\ doc' = [doc EXCEPT ![t] = users]
           /\ Goto(t, "write") /\ last' = [last EXCEPT ![t] = "none"]
           /\ UNCHANGED stamp
  <2>1. [op |-> "register", email |-> e] \in Calls
    BY DEF Calls
  <2>2. NewAccount(pw) \in Account /\ Good(NewAccount(pw), now)
    BY NewGood DEF TypeOK, Time
  <2>3. TypeOK'
    BY <1>2, <2>1, <2>2 DEF Register, Goto, TypeOK, Outcomes
  <2>4. CallShape'
    BY <1>2, <2>1, <2>2, NoneAssumption DEF Register, Goto, TypeOK, CallShape
  <2>5. CopiesGood'
    BY <1>2, <2>2 DEF Register, TypeOK, CopiesGood, Good
  <2> QED BY <2>3, <2>4, <2>5 DEF Register, SessionsBounded
<1> QED BY <1>1, <1>2 DEF Register

(* A login or an enrolment takes its copy.                                 *)
LEMMA ReadAccountInv ==
    ASSUME IInv, NEW t \in Tasks, NEW op \in {"login", "enable_mfa"},
           NEW e \in Emails, ReadAccount(t, op, e)
    PROVE  IInv'
<1> USE DEF IInv
<1>1. CASE Return(t, "INVALID_CREDENTIALS")
  BY <1>1, RefusedInv DEF ReadAccount, Outcomes
<1>2. CASE /\ users[e] # None
           /\ call' = [call EXCEPT ![t] = [op |-> op, email |-> e]]
           /\ acct' = [acct EXCEPT ![t] = users[e]]
           /\ Goto(t, "verify") /\ last' = [last EXCEPT ![t] = "none"]
           /\ UNCHANGED <<doc, stamp>>
  <2>1. [op |-> op, email |-> e] \in Calls
    BY DEF Calls
  <2>2. users[e] \in Account /\ Good(users[e], now)
    BY <1>2 DEF TypeOK, Document, CopiesGood
  <2>3. TypeOK'
    BY <1>2, <2>1, <2>2 DEF ReadAccount, Goto, TypeOK, Outcomes
  <2>4. CallShape'
    BY <1>2, <2>1, <2>2, NoneAssumption DEF ReadAccount, Goto, TypeOK, CallShape
  <2>5. CopiesGood'
    BY <1>2, <2>2 DEF ReadAccount, TypeOK, CopiesGood, Good
  <2> QED BY <2>3, <2>4, <2>5 DEF ReadAccount, SessionsBounded
<1> QED BY <1>1, <1>2 DEF ReadAccount

(* The decision of a login or an enrolment replaces the copy by a sound one. *)
LEMMA DecidedInv ==
    ASSUME IInv, NEW t \in Tasks, pc[t] = "verify", Goto(t, "read"),
           NEW b \in Account, Good(b, now), acct' = [acct EXCEPT ![t] = b],
           call' = call \/ call' = [call EXCEPT ![t].op = "reject"],
           call'[t].op = "enable_mfa" => b.mfa # None,
           stamp' = stamp \/ stamp' = [stamp EXCEPT ![t] = now],
           drawn' \in SUBSET (Seeds \cup Tokens),
           UNCHANGED <<users, sessions, now, doc, last, secrets, streak>>
    PROVE  IInv'
<1> USE DEF IInv
<1>1. call[t] \in [op : {"register", "login", "enable_mfa", "reject"}, email : Emails]
  BY CallFields DEF CallShape
<1>2. /\ call'[t] \in [op : {"register", "login", "enable_mfa", "reject"},
                        email : Emails]
      /\ call'[t].op \in {"login", "enable_mfa", "reject"}
      /\ \A u \in Tasks \ {t} : call'[u] = call[u]
      /\ call' \in [Tasks -> Calls \cup {None}]
  <2>1. CASE call' = call
    BY <1>1, <2>1 DEF CallShape, TypeOK
  <2>2. CASE call' = [call EXCEPT ![t].op = "reject"]
    <3>1. [call[t] EXCEPT !.op = "reject"]
              \in [op : {"register", "login", "enable_mfa", "reject"}, email : Emails]
      BY <1>1
    <3>2. [call[t] EXCEPT !.op = "reject"].op = "reject"
      BY <1>1
    <3>3. call' = [call EXCEPT ![t] = [call[t] EXCEPT !.op = "reject"]]
      BY <2>2
    <3> QED BY <3>1, <3>2, <3>3 DEF TypeOK, Calls
  <2> QED BY <2>1, <2>2
<1>3. call'[t] \in Calls /\ call'[t] # None /\ b # None
  BY <1>2, NoneAssumption DEF Calls
<1>4. /\ pc'[t] = "read" /\ acct'[t] = b /\ stamp'[t] <= now
      /\ \A u \in Tasks \ {t} : /\ pc'[u] = pc[u] /\ acct'[u] = acct[u]
                                /\ stamp'[u] = stamp[u]
  BY DEF Goto, TypeOK, CallShape, Time
<1>5. CallShape'
  BY <1>2, <1>3, <1>4 DEF CallShape
<1>6. TypeOK'
  BY ZenonT(40), <1>2 DEF Goto, TypeOK
<1>7. CopiesGood'
  BY <1>4 DEF CopiesGood, Good
<1> QED BY <1>5, <1>6, <1>7 DEF SessionsBounded

(* The decisions of a login and of an enrolment.                           *)
LEMMA VerifyInv ==
    ASSUME IInv, NEW t \in Tasks, NEW pw \in Passwords, NEW otp \in Otps,
           \/ RefuseEnrolment(t, pw) \/ Reject(t, pw, otp)
           \/ AcceptLogin(t, pw, otp) \/ AcceptEnrolment(t, pw)
    PROVE  IInv'
<1> DEFINE a == acct[t]
<1>1. CASE RefuseEnrolment(t, pw)
  BY <1>1, RefusedInv DEF RefuseEnrolment, Outcomes
<1>2. ASSUME pc[t] = "verify" PROVE a \in Account /\ Good(a, now) /\ now \in Nat
  BY <1>2 DEF IInv, TypeOK, CallShape, CopiesGood, Time
<1>3. CASE Reject(t, pw, otp)
  <2> DEFINE b == Rejected(a, now)
  <2>1. pc[t] = "verify" /\ Goto(t, "read") /\ acct' = [acct EXCEPT ![t] = b]
        /\ call' = [call EXCEPT ![t].op = "reject"]
        /\ UNCHANGED <<users, sessions, now, doc, stamp, last, drawn, secrets, streak>>
    BY <1>3 DEF Reject
  <2>2. b \in Account /\ Good(b, now)
    BY <1>2, <2>1, RejectedGood
  <2>3. call'[t].op # "enable_mfa"
    <3>1. call[t] \in [op : {"register", "login", "enable_mfa", "reject"}, email : Emails]
      BY <2>1, CallFields DEF IInv, CallShape
    <3> QED BY <2>1, <3>1 DEF IInv, TypeOK
  <2>4. drawn' \in SUBSET (Seeds \cup Tokens)
    BY <2>1 DEF IInv, TypeOK
  <2> HIDE DEF b
  <2> QED BY <2>1, <2>2, <2>3, <2>4, DecidedInv
<1>4. CASE AcceptLogin(t, pw, otp)
  <2> DEFINE b == Authenticated(a)
  <2>1. pc[t] = "verify" /\ Goto(t, "read") /\ acct' = [acct EXCEPT ![t] = b]
        /\ call' = call /\ call[t].op = "login"
        /\ stamp' = [stamp EXCEPT ![t] = now]
        /\ UNCHANGED <<users, sessions, now, doc, last, drawn, secrets, streak>>
    BY <1>4 DEF AcceptLogin
  <2>2. b \in Account /\ Good(b, now)
    BY <1>2, <2>1, AuthenticatedGood
  <2>3. call'[t].op # "enable_mfa" /\ drawn' \in SUBSET (Seeds \cup Tokens)
    BY <2>1 DEF IInv, TypeOK
  <2> HIDE DEF b
  <2> QED BY <2>1, <2>2, <2>3, DecidedInv
<1>5. CASE AcceptEnrolment(t, pw)
  <2>1. PICK s \in Seeds \ drawn :
           /\ drawn' = drawn \cup {s}
           /\ acct' = [acct EXCEPT ![t] =
                [Authenticated(@) EXCEPT !.mfa = [seed |-> s, sealedUnder |-> pw]]]
    BY <1>5 DEF AcceptEnrolment
  <2> DEFINE b == [Authenticated(a) EXCEPT
                      !.mfa = [seed |-> s, sealedUnder |-> pw]]
  <2>2. pc[t] = "verify" /\ Goto(t, "read") /\ call' = call /\ a.password = pw
        /\ UNCHANGED <<users, sessions, now, doc, stamp, last, secrets, streak>>
    BY <1>5 DEF AcceptEnrolment
  <2>3. b \in Account /\ Good(b, now) /\ b.mfa # None
    BY <1>2, <2>2, EnrolledGood
  <2>4. acct' = [acct EXCEPT ![t] = b]
    BY <2>1
  <2>5. drawn' \in SUBSET (Seeds \cup Tokens)
    BY <2>1 DEF IInv, TypeOK
  <2> HIDE DEF b
  <2> QED BY <2>2, <2>3, <2>4, <2>5, DecidedInv
<1> QED BY <1>1, <1>3, <1>4, <1>5

(* A call reads the document it is to replace.                             *)
LEMMA ReplaceReadInv ==
    ASSUME IInv, NEW t \in Tasks, ReplaceRead(t)
    PROVE  IInv'
<1> USE DEF IInv
<1>1. CASE Return(t, "INVALID_INPUT")
  BY <1>1, RefusedInv DEF ReplaceRead, Outcomes
<1>2. CASE /\ doc' = [doc EXCEPT ![t] = users] /\ Goto(t, "write")
           /\ UNCHANGED <<call, acct, stamp, last>>
  <2>1. pc[t] = "read" /\ users # None
    BY NoneAssumption DEF ReplaceRead, TypeOK
  <2>2. TypeOK'
    BY <1>2 DEF ReplaceRead, Goto, TypeOK
  <2>3. CallShape'
    BY <1>2, <2>1 DEF ReplaceRead, Goto, TypeOK, CallShape
  <2>4. CopiesGood'
    BY <1>2 DEF ReplaceRead, TypeOK, CopiesGood, Good
  <2> QED BY <2>2, <2>3, <2>4 DEF ReplaceRead, SessionsBounded
<1> QED BY <1>1, <1>2 DEF ReplaceRead

(* The document a call stores is sound: what it read, with its own copy.   *)
LEMMA StoredGood ==
    ASSUME IInv, NEW t \in Tasks, pc[t] = "write"
    PROVE  /\ Stored(t) \in Document
           /\ \A e \in Emails : Good(Stored(t)[e], now)
           /\ call[t].email \in Emails
<1>1. /\ doc[t] \in Document /\ acct[t] \in Account /\ call[t].email \in Emails
      /\ Good(acct[t], now) /\ \A e \in Emails : Good(doc[t][e], now)
  BY CallFields DEF IInv, TypeOK, CallShape, CopiesGood
<1>2. Stored(t) \in Document
  BY <1>1 DEF Stored, Document
<1>3. \A e \in Emails : Stored(t)[e] = acct[t] \/ Stored(t)[e] = doc[t][e]
  BY <1>1 DEF Stored, Document
<1> QED BY <1>1, <1>2, <1>3

(* A call stores its copy, and goes on to answer or to draw a token.       *)
LEMMA WriteInv ==
    ASSUME IInv, NEW t \in Tasks, Write(t)
    PROVE  IInv'
<1>1. /\ pc[t] = "write" /\ users' = Stored(t)
      /\ UNCHANGED <<sessions, now, call, acct, stamp, last, drawn, secrets>>
      /\ users' \in Document /\ call[t].email \in Emails
      /\ \A f \in Emails : Good(users'[f], now)
  BY StoredGood DEF Write
<1>2. \/ pc' = [pc EXCEPT ![t] = "token"] /\ call[t].op = "login"
      \/ pc' = [pc EXCEPT ![t] = "answer"] /\ call[t].op # "login"
  BY DEF Write, Goto
<1>3. doc' = [doc EXCEPT ![t] = None]
      /\ \/ streak' = streak
         \/ streak' = [streak EXCEPT ![call[t].email] = 0]
  BY DEF Write
<1>4. TypeOK'
  <2>1. pc' \in [Tasks -> {"idle", "verify", "read", "write", "answer", "token", "expiry"}]
    BY <1>2 DEF IInv, TypeOK
  <2>2. doc' \in [Tasks -> Document \cup {None}] /\ streak' \in [Emails -> Nat]
    BY <1>1, <1>3 DEF IInv, TypeOK
  <2> QED BY <1>1, <2>1, <2>2 DEF IInv, TypeOK
<1>5. CallShape'
  BY <1>1, <1>2, <1>3 DEF IInv, TypeOK, CallShape
<1>6. CopiesGood'
  BY <1>1, <1>3 DEF IInv, TypeOK, CopiesGood
<1> QED BY <1>1, <1>4, <1>5, <1>6 DEF IInv, SessionsBounded

(* A call returns what it has stored.                                      *)
LEMMA AnswerInv ==
    ASSUME IInv, NEW t \in Tasks, Answer(t)
    PROVE  IInv'
<1> DEFINE e == call[t].email
<1>1. pc[t] = "answer" /\ e \in Emails /\ UNCHANGED <<users, sessions, now, drawn>>
  BY CallFields DEF Answer, IInv, CallShape
<1>2. PICK o \in Outcomes : Return(t, o)
  BY DEF Answer, Outcomes
<1>3. /\ streak' \in [Emails -> Nat]
      /\ secrets' \in SUBSET [email : Emails, seed : Seeds]
  <2>1. streak' = streak \/ streak' = [streak EXCEPT ![e] = @ + 1]
    BY DEF Answer
  <2>2. \/ secrets' = secrets
        \/ /\ call[t].op = "enable_mfa"
           /\ secrets' = secrets \cup {[email |-> e, seed |-> acct[t].mfa.seed]}
    BY DEF Answer
  <2>3. call[t].op = "enable_mfa" => acct[t].mfa.seed \in Seeds
    BY <1>1 DEF IInv, TypeOK, CallShape, Account, Mfa
  <2>4. streak' \in [Emails -> Nat]
    BY <1>1, <2>1 DEF IInv, TypeOK
  <2>5. secrets' \in SUBSET [email : Emails, seed : Seeds]
    BY <1>1, <2>2, <2>3 DEF IInv, TypeOK
  <2> QED BY <2>4, <2>5
<1>4. TypeOK'
  BY <1>1, <1>2, <1>3, ReturnInv DEF IInv, TypeOK
<1>5. CopiesGood' /\ CallShape'
  BY <1>1, <1>2, ReturnInv DEF IInv, CopiesGood
<1> QED BY <1>1, <1>4, <1>5 DEF IInv, SessionsBounded

(* A call that fails before or after the document is replaced.             *)
LEMMA FaultInv ==
    ASSUME IInv, NEW t \in Tasks, Fault(t)
    PROVE  IInv'
<1>1. Return(t, "INVALID_INPUT") /\ "INVALID_INPUT" \in Outcomes
      /\ UNCHANGED <<sessions, now, drawn, secrets>>
  BY DEF Fault, Outcomes
<1>2. /\ users' \in Document /\ streak' \in [Emails -> Nat]
      /\ \A f \in Emails : Good(users'[f], now)
  <2>1. CASE UNCHANGED <<users, streak>>
    BY <2>1 DEF IInv, TypeOK, CopiesGood
  <2>2. CASE /\ pc[t] = "write" /\ users' = Stored(t)
             /\ streak' = IF call[t].op = "reject" THEN streak
                          ELSE [streak EXCEPT ![call[t].email] = 0]
    <3>1. streak' \in [Emails -> Nat]
      BY <2>2, StoredGood DEF IInv, TypeOK
    <3> QED BY <2>2, <3>1, StoredGood
  <2> QED BY <2>1, <2>2 DEF Fault
<1>3. TypeOK'
  BY <1>1, <1>2, ReturnInv DEF IInv, TypeOK
<1>4. CopiesGood' /\ CallShape'
  BY <1>1, <1>2, ReturnInv DEF CopiesGood
<1> QED BY <1>1, <1>3, <1>4 DEF IInv, SessionsBounded

(* The end of a login: the session counts from the time it read.           *)
LEMMA IssueTokenInv ==
    ASSUME IInv, NEW t \in Tasks, IssueToken(t)
    PROVE  IInv'
<1>1. PICK k \in Tokens \ drawn :
         /\ drawn' = drawn \cup {k}
         /\ sessions' = [sessions EXCEPT ![Home[t]][k] =
                [email |-> call[t].email, expires |-> stamp[t] + SessionLifetime]]
  BY DEF IssueToken
<1>2. Return(t, "session") /\ UNCHANGED <<users, now, secrets, streak>>
      /\ "session" \in Outcomes /\ pc[t] = "token" /\ Home[t] \in Procs
  BY AuthAssumption DEF IssueToken, Outcomes
<1> DEFINE s == [email |-> call[t].email, expires |-> stamp[t] + SessionLifetime]
<1>3. s \in Session /\ s.expires <= now + SessionLifetime
  <2>1. call[t] \in Calls /\ call[t].op = "login"
    BY <1>2 DEF IInv, CallShape
  <2>2. call[t].email \in Emails
    BY <2>1, CallFields
  <2>3. stamp[t] \in Nat /\ now \in Nat /\ SessionLifetime \in Nat
    BY AuthAssumption DEF IInv, TypeOK, Time
  <2>4. stamp[t] <= now
    BY <1>2 DEF IInv, CallShape
  <2>5. stamp[t] + SessionLifetime \in Nat
    BY <2>3
  <2>6. stamp[t] + SessionLifetime <= now + SessionLifetime
    BY <2>3, <2>4
  <2> QED BY <2>2, <2>5, <2>6 DEF Session, Time
<1> HIDE DEF s
<1>4. /\ sessions' \in [Procs -> [Tokens -> Session \cup {None}]]
      /\ \A p \in Procs, l \in Tokens :
            sessions'[p][l] = s \/ sessions'[p][l] = sessions[p][l]
  BY <1>1, <1>2, <1>3 DEF s, IInv, TypeOK
<1>5. TypeOK'
  BY <1>1, <1>2, <1>4, ReturnInv DEF IInv, TypeOK
<1>6. CopiesGood' /\ CallShape'
  BY <1>2, ReturnInv DEF IInv, CopiesGood
<1>7. SessionsBounded'
  BY <1>2, <1>3, <1>4 DEF IInv, SessionsBounded
<1> QED BY <1>5, <1>6, <1>7 DEF IInv

(* The two steps of a validation.                                          *)
LEMMA ValidateInv ==
    ASSUME IInv, NEW t \in Tasks,
           ValidateExpiry(t) \/ \E k \in Tokens : ValidateLookup(t, k)
    PROVE  IInv'
<1>h. Home[t] \in Procs
  BY AuthAssumption
<1>1. ASSUME NEW k \in Tokens, ValidateLookup(t, k) PROVE IInv'
  <2> DEFINE s == sessions[Home[t]][k]
  <2>1. CASE Return(t, "UNAUTHENTICATED")
    BY <1>1, <2>1, RefusedInv DEF ValidateLookup, Outcomes
  <2>2. CASE /\ s # None
             /\ call' = [call EXCEPT ![t] = [op |-> "validate", token |-> k]]
             /\ stamp' = [stamp EXCEPT ![t] = s.expires]
             /\ Goto(t, "expiry")
             /\ last' = [last EXCEPT ![t] = "none"]
             /\ UNCHANGED <<acct, doc>>
    <3>1. s.expires \in Nat
      BY <1>h, <2>2 DEF IInv, TypeOK, Session, Time
    <3>2. [op |-> "validate", token |-> k] \in Calls
      BY DEF Calls
    <3>3. TypeOK'
      BY <1>1, <2>2, <3>1, <3>2 DEF IInv, ValidateLookup, TypeOK, Goto, Outcomes, Time
    <3>4. CallShape'
      BY <1>1, <2>2, <3>2, NoneAssumption DEF IInv, ValidateLookup, TypeOK, CallShape, Goto
    <3>5. CopiesGood'
      BY <1>1, <2>2 DEF IInv, ValidateLookup, CopiesGood
    <3> QED BY <1>1, <3>3, <3>4, <3>5 DEF IInv, ValidateLookup, SessionsBounded
  <2> QED BY <1>1, <2>1, <2>2 DEF ValidateLookup
<1>2. CASE ValidateExpiry(t)
  <2>1. PICK o \in Outcomes : Return(t, o)
    BY <1>2 DEF ValidateExpiry, Outcomes
  <2>2. pc[t] = "expiry" /\ UNCHANGED <<users, now, drawn, secrets, streak>>
        /\ \/ sessions' = sessions
           \/ sessions' = [sessions EXCEPT ![Home[t]][call[t].token] = None]
    BY <1>2 DEF ValidateExpiry
  <2>3. call[t].token \in Tokens
    BY <2>2, CallFields DEF IInv, TypeOK, CallShape
  <2>4. /\ sessions' \in [Procs -> [Tokens -> Session \cup {None}]]
        /\ \A p \in Procs, l \in Tokens :
              sessions'[p][l] = None \/ sessions'[p][l] = sessions[p][l]
    <3>1. CASE sessions' = sessions
      BY <3>1 DEF IInv, TypeOK
    <3>2. CASE sessions' = [sessions EXCEPT ![Home[t]][call[t].token] = None]
      BY <1>h, <2>3, <3>2 DEF IInv, TypeOK
    <3> QED BY <2>2, <3>1, <3>2
  <2>5. TypeOK'
    BY <2>1, <2>2, <2>4, ReturnInv DEF IInv, TypeOK
  <2>6. CopiesGood' /\ CallShape'
    BY <2>1, <2>2, ReturnInv DEF IInv, CopiesGood
  <2> QED BY <2>2, <2>4, <2>5, <2>6 DEF IInv, SessionsBounded
<1> QED BY <1>1, <1>2

(* Time goes by.                                                           *)
LEMMA TickInv == ASSUME IInv, Tick PROVE IInv'
<1>1. now \in Nat /\ now' = now + 1
      /\ UNCHANGED <<users, sessions, pc, call, acct, doc, stamp, last, drawn,
                     secrets, streak>>
  BY DEF Tick, IInv, TypeOK, Time
<1>2. TypeOK'
  BY <1>1 DEF IInv, TypeOK, Time
<1>3. CallShape'
  BY <1>1 DEF IInv, TypeOK, CallShape, Time
<1>4. CopiesGood'
  <2>1. \A e \in Emails : Good(users[e], now + 1)
    BY <1>1, GoodLater DEF IInv, TypeOK, Document, CopiesGood
  <2>2. \A t \in Tasks : Good(acct[t], now + 1)
    BY <1>1, GoodLater DEF IInv, TypeOK, CopiesGood
  <2>3. \A t \in Tasks, e \in Emails : doc[t] # None => Good(doc[t][e], now + 1)
    BY <1>1, GoodLater DEF IInv, TypeOK, Document, CopiesGood
  <2> QED BY <1>1, <2>1, <2>2, <2>3 DEF CopiesGood
<1>5. SessionsBounded'
  BY <1>1, AuthAssumption DEF IInv, TypeOK, SessionsBounded, Session, Time
<1> QED BY <1>2, <1>3, <1>4, <1>5 DEF IInv

(* A process restarts.                                                     *)
LEMMA RestartInv ==
    ASSUME IInv, NEW p \in Procs, Restart(p)
    PROVE  IInv'
<1> USE DEF IInv, Restart, Cleared
<1>1. TypeOK'
  BY DEF TypeOK, Outcomes, Time
<1>2. CallShape'
  BY DEF CallShape, TypeOK, Time
<1>3. CopiesGood'
  BY DEF CopiesGood, Good
<1>4. SessionsBounded'
  BY DEF SessionsBounded, TypeOK
<1> QED BY <1>1, <1>2, <1>3, <1>4
-----------------------------------------------------------------------------
(* The strengthened invariant holds in every reachable state.              *)
THEOREM Inductive == Spec => []IInv
<1>1. ASSUME IInv, [Next]_vars PROVE IInv'
  <2>1. CASE UNCHANGED vars
    BY <1>1, <2>1 DEF vars, IInv, TypeOK, CallShape, CopiesGood, SessionsBounded
  <2>2. ASSUME NEW t \in Tasks, Step(t) PROVE IInv'
    <3>1. None \in Otps
      BY DEF Otps
    <3>2. ASSUME NEW e \in Emails, NEW pw \in Passwords, Register(t, e, pw)
          PROVE  IInv'
      BY <1>1, <3>2, RegisterInv
    <3>3. ASSUME NEW e \in Emails,
                 ReadAccount(t, "login", e) \/ ReadAccount(t, "enable_mfa", e)
          PROVE  IInv'
      BY <1>1, <3>3, ReadAccountInv
    <3>4. ASSUME NEW pw \in Passwords,
                 AcceptEnrolment(t, pw) \/ RefuseEnrolment(t, pw)
          PROVE  IInv'
      BY <1>1, <3>1, <3>4, VerifyInv
    <3>5. ASSUME NEW pw \in Passwords, NEW otp \in Otps,
                 Reject(t, pw, otp) \/ AcceptLogin(t, pw, otp)
          PROVE  IInv'
      BY <1>1, <3>5, VerifyInv
    <3>6. CASE Refuse(t)
      BY <1>1, <3>6, RefusedInv DEF Refuse, Outcomes
    <3>7. CASE ValidateExpiry(t) \/ \E k \in Tokens : ValidateLookup(t, k)
      BY <1>1, <3>7, ValidateInv
    <3> QED BY <1>1, <2>2, <3>2, <3>3, <3>4, <3>5, <3>6, <3>7,
               ReplaceReadInv, WriteInv, AnswerInv, FaultInv, IssueTokenInv DEF Step
  <2> QED BY <1>1, <2>1, <2>2, TickInv, RestartInv DEF Next
<1> QED BY <1>1, InitInv, PTL DEF Spec

(* The state of the authentication service is well typed.                  *)
THEOREM TypeCorrect == Spec => []TypeOK
<1>1. IInv => TypeOK
  BY DEF IInv
<1> QED BY <1>1, Inductive, PTL

(* Whatever calls interleave, fail and crash, every stored account is      *)
(* locked exactly when its count has reached the limit and its seed opens  *)
(* with its own passphrase (service.py:92-130, 162-171).                   *)
THEOREM AccountsSound == Spec => []RecordsSound
<1>1. IInv => RecordsSound
  BY DEF IInv, CopiesGood, Good, RecordsSound
<1> QED BY <1>1, Inductive, PTL

(* No lockout outlasts the lockout time, no session its lifetime,          *)
(* measured from now (service.py:98, 165).                                 *)
THEOREM NoLateDeadline == Spec => []DeadlinesBounded
<1>1. IInv => DeadlinesBounded
  BY DEF IInv, CopiesGood, Good, SessionsBounded, DeadlinesBounded
<1> QED BY <1>1, Inductive, PTL
-----------------------------------------------------------------------------
(* The fields of what a decision makes of an account.                      *)
LEMMA DecisionFields ==
    ASSUME NEW a \in Account, NEW n \in Nat
    PROVE  /\ Rejected(a, n).failed = a.failed + 1
           /\ Rejected(a, n).mfa = a.mfa
           /\ Rejected(a, n).password = a.password
           /\ Authenticated(a).locked = None
           /\ Authenticated(a).mfa = a.mfa
           /\ Authenticated(a).password = a.password
BY DEF Account, Rejected, Authenticated

(* And of an enrolment, which adds the seed.                               *)
LEMMA EnrolmentFields ==
    ASSUME NEW a \in Account, NEW m \in Mfa
    PROVE  /\ [Authenticated(a) EXCEPT !.mfa = m].password = a.password
           /\ [Authenticated(a) EXCEPT !.mfa = m].mfa = m
BY DEF Account, Authenticated

(* A task without a copy is faithful to it.                                *)
LEMMA NotBusy ==
    ASSUME NEW t \in Tasks, ~Busy(t)
    PROVE  Faithful(t)
BY DEF Busy, Faithful

(* Steps of one task that leave the document alone do not disturb others.  *)
LEMMA OthersFaithful ==
    ASSUME SInv, NEW t \in Tasks, UNCHANGED <<users, now, secrets, streak>>,
           \A u \in Tasks \ {t} : /\ pc'[u] = pc[u] /\ call'[u] = call[u]
                                 /\ acct'[u] = acct[u] /\ doc'[u] = doc[u],
           Faithful(t)'
    PROVE  SInv'
<1>1. ASSUME NEW u \in Tasks, u # t PROVE Faithful(u)'
  BY <1>1 DEF SInv, Faithful
<1>2. FailuresCounted' /\ SecretsInForce'
  BY DEF SInv, FailuresCounted, SecretsInForce
<1> QED BY <1>1, <1>2 DEF SInv

(* A call that ends has no copy any more.                                  *)
LEMMA EndsFaithful ==
    ASSUME IInv, NEW t \in Tasks, NEW o, Return(t, o)
    PROVE  /\ pc'[t] = "idle" /\ ~Busy(t)' /\ Faithful(t)'
           /\ \A u \in Tasks \ {t} : /\ pc'[u] = pc[u] /\ call'[u] = call[u]
                                    /\ acct'[u] = acct[u] /\ doc'[u] = doc[u]
<1>1. /\ pc'[t] = "idle"
      /\ \A u \in Tasks \ {t} : /\ pc'[u] = pc[u] /\ call'[u] = call[u]
                               /\ acct'[u] = acct[u] /\ doc'[u] = doc[u]
  BY DEF IInv, TypeOK, Return, Forget
<1>2. ~Busy(t)' /\ Faithful(t)'
  BY <1>1 DEF Busy, Faithful
<1> QED BY <1>1, <1>2

(* The steps that neither replace the document nor answer what is in it.   *)
LEMMA QuietFaithful ==
    ASSUME IInv, SInv, NEW t \in Tasks, Step(t), ~Write(t), ~Fault(t), ~Answer(t)
    PROVE  SInv'
<1>t. /\ pc \in [Tasks -> {"idle", "verify", "read", "write", "answer", "token", "expiry"}]
      /\ call \in [Tasks -> Calls \cup {None}] /\ acct \in [Tasks -> Account \cup {None}]
      /\ doc \in [Tasks -> Document \cup {None}] /\ now \in Nat /\ users \in Document
  BY DEF IInv, TypeOK, Time
<1>f. Faithful(t)
  BY DEF SInv
<1>1. UNCHANGED <<users, now, secrets, streak>>
  BY DEF Step, Register, ReadAccount, Refuse, AcceptEnrolment, RefuseEnrolment, Reject,
         AcceptLogin, ReplaceRead, IssueToken, ValidateLookup, ValidateExpiry
<1>r. ASSUME NEW o, Return(t, o) PROVE SInv'
  BY <1>1, <1>r, EndsFaithful, OthersFaithful
<1>d. ASSUME NEW e \in Emails, NEW op \in {"login", "enable_mfa", "register", "reject"}
      PROVE  [op |-> op, email |-> e].email = e /\ [op |-> op, email |-> e].op = op
  OBVIOUS
<1>2. ASSUME NEW e \in Emails, NEW pw \in Passwords, Register(t, e, pw) PROVE SInv'
  <2>1. CASE Return(t, "DUPLICATE_USER")
    BY <1>r, <2>1
  <2>2. CASE ~Return(t, "DUPLICATE_USER")
    <3>1. /\ users[e] = None
          /\ call' = [call EXCEPT ![t] = [op |-> "register", email |-> e]]
          /\ acct' = [acct EXCEPT ![t] = NewAccount(pw)]
          /\ doc' = [doc EXCEPT ![t] = users] /\ pc' = [pc EXCEPT ![t] = "write"]
      BY <1>2, <2>2 DEF Register, Goto
    <3>2. /\ pc'[t] = "write" /\ doc'[t] = users
          /\ call'[t].op = "register" /\ call'[t].email = e
      BY <1>t, <1>d, <3>1
    <3>3. Faithful(t)'
      BY <1>1, <3>1, <3>2 DEF Faithful
    <3> QED BY <1>1, <3>1, <3>3, OthersFaithful
  <2> QED BY <2>1, <2>2
<1>3. ASSUME NEW e \in Emails, NEW op \in {"login", "enable_mfa"}, ReadAccount(t, op, e)
      PROVE  SInv'
  <2>1. CASE Return(t, "INVALID_CREDENTIALS")
    BY <1>r, <2>1
  <2>2. CASE ~Return(t, "INVALID_CREDENTIALS")
    <3>1. /\ call' = [call EXCEPT ![t] = [op |-> op, email |-> e]]
          /\ acct' = [acct EXCEPT ![t] = users[e]]
          /\ doc' = doc /\ pc' = [pc EXCEPT ![t] = "verify"]
      BY <1>3, <2>2 DEF ReadAccount, Goto
    <3>2. pc'[t] = "verify" /\ acct'[t] = users[e] /\ call'[t].email = e
      BY <1>t, <1>d, <3>1
    <3>3. Faithful(t)'
      BY <1>1, <3>2 DEF Faithful
    <3> QED BY <1>1, <3>1, <3>3, OthersFaithful
  <2> QED BY <2>1, <2>2
<1>4. CASE Refuse(t) \/ \E pw \in Passwords : RefuseEnrolment(t, pw)
  BY <1>r, <1>4 DEF Refuse, RefuseEnrolment
<1>v. ASSUME pc[t] = "verify"
      PROVE  /\ acct[t] \in Account /\ users[call[t].email] = acct[t] /\ acct[t] # None
             /\ call[t] \in [op : {"register", "login", "enable_mfa", "reject"}, email : Emails]
             /\ call[t].op \in {"login", "enable_mfa"}
  BY <1>t, <1>f, <1>v, CallFields DEF IInv, CallShape, Faithful
<1>5. ASSUME NEW pw \in Passwords, NEW otp \in Otps, Reject(t, pw, otp) PROVE SInv'
  <2>1. /\ pc[t] = "verify" /\ ~IsLocked(acct[t], now)
        /\ acct' = [acct EXCEPT ![t] = Rejected(acct[t], now)]
        /\ call' = [call EXCEPT ![t].op = "reject"]
        /\ pc' = [pc EXCEPT ![t] = "read"] /\ doc' = doc
    BY <1>5 DEF Reject, Goto
  <2>2. call'[t] = [call[t] EXCEPT !.op = "reject"] /\ pc'[t] = "read"
        /\ acct'[t] = Rejected(acct[t], now)
    BY <1>t, <2>1
  <2>3. call'[t].email = call[t].email /\ call'[t].op = "reject"
    BY <1>v, <2>1, <2>2
  <2>4. /\ acct'[t].failed = acct[t].failed + 1 /\ acct'[t].mfa = acct[t].mfa
        /\ acct'[t].password = acct[t].password
    BY <1>t, <1>v, <2>1, <2>2, DecisionFields
  <2>5. Faithful(t)'
    BY <1>1, <1>v, <2>1, <2>2, <2>3, <2>4 DEF Faithful, IsLocked
  <2> QED BY <1>1, <2>1, <2>5, OthersFaithful
<1>6. ASSUME NEW pw \in Passwords, NEW otp \in Otps, AcceptLogin(t, pw, otp) PROVE SInv'
  <2>1. /\ pc[t] = "verify" /\ ~IsLocked(acct[t], now) /\ call[t].op = "login"
        /\ acct' = [acct EXCEPT ![t] = Authenticated(acct[t])]
        /\ call' = call /\ pc' = [pc EXCEPT ![t] = "read"] /\ doc' = doc
    BY <1>6 DEF AcceptLogin, Goto
  <2>2. pc'[t] = "read" /\ acct'[t] = Authenticated(acct[t])
    BY <1>t, <2>1
  <2>3. /\ acct'[t].locked = None /\ acct'[t].mfa = acct[t].mfa
        /\ acct'[t].password = acct[t].password
    BY <1>t, <1>v, <2>1, <2>2, DecisionFields
  <2>4. Faithful(t)'
    BY <1>1, <1>v, <2>1, <2>2, <2>3 DEF Faithful, IsLocked
  <2> QED BY <1>1, <2>1, <2>4, OthersFaithful
<1>7. ASSUME NEW pw \in Passwords, AcceptEnrolment(t, pw) PROVE SInv'
  <2>1. PICK s \in Seeds :
           acct' = [acct EXCEPT ![t] =
                [Authenticated(@) EXCEPT !.mfa = [seed |-> s, sealedUnder |-> pw]]]
    BY <1>7 DEF AcceptEnrolment
  <2>2. /\ pc[t] = "verify" /\ ~IsLocked(acct[t], now) /\ call[t].op = "enable_mfa"
        /\ acct[t].mfa = None
        /\ call' = call /\ pc' = [pc EXCEPT ![t] = "read"] /\ doc' = doc
    BY <1>7 DEF AcceptEnrolment, Goto
  <2>3. [seed |-> s, sealedUnder |-> pw] \in Mfa
    BY DEF Mfa
  <2>4. pc'[t] = "read" /\ acct'[t].password = acct[t].password
    BY <1>t, <1>v, <2>1, <2>2, <2>3, EnrolmentFields
  <2>5. Faithful(t)'
    BY <1>1, <1>v, <2>2, <2>4 DEF Faithful, IsLocked
  <2> QED BY <1>1, <2>1, <2>2, <2>5, OthersFaithful
<1>8. CASE ReplaceRead(t)
  <2>1. CASE Return(t, "INVALID_INPUT")
    BY <1>r, <2>1
  <2>2. CASE ~Return(t, "INVALID_INPUT")
    <3>1. /\ pc[t] = "read" /\ doc' = [doc EXCEPT ![t] = users]
          /\ pc' = [pc EXCEPT ![t] = "write"] /\ UNCHANGED <<call, acct>>
      BY <1>8, <2>2 DEF ReplaceRead, Goto
    <3>2. pc'[t] = "write" /\ doc'[t] = users /\ call[t].op # "register"
      BY <1>t, <3>1 DEF IInv, CallShape
    <3>3. Faithful(t)'
      BY <1>1, <1>f, <3>1, <3>2 DEF Faithful, IsLocked
    <3> QED BY <1>1, <3>1, <3>3, OthersFaithful
  <2> QED BY <2>1, <2>2
<1>9. CASE IssueToken(t) \/ ValidateExpiry(t)
  BY <1>r, <1>9 DEF IssueToken, ValidateExpiry
<1>10. ASSUME NEW k \in Tokens, ValidateLookup(t, k) PROVE SInv'
  <2>1. CASE Return(t, "UNAUTHENTICATED")
    BY <1>r, <2>1
  <2>2. CASE ~Return(t, "UNAUTHENTICATED")
    <3>1. /\ call' = [call EXCEPT ![t] = [op |-> "validate", token |-> k]]
          /\ pc' = [pc EXCEPT ![t] = "expiry"] /\ UNCHANGED <<acct, doc>>
      BY <1>10, <2>2 DEF ValidateLookup, Goto
    <3>2. pc'[t] = "expiry"
      BY <1>t, <3>1
    <3>3. Faithful(t)'
      BY <3>2 DEF Faithful
    <3> QED BY <1>1, <3>1, <3>3, OthersFaithful
  <2> QED BY <2>1, <2>2
<1> QED BY <1>2, <1>3, <1>4, <1>5, <1>6, <1>7, <1>8, <1>9, <1>10 DEF Step

(* What a call is about to store differs from the document in its own      *)
(* account only, and keeps what that account must keep.                    *)
LEMMA StoredFields ==
    ASSUME IInv, SInv, NEW t \in Tasks, pc[t] = "write"
    PROVE  LET e == call[t].email
           IN  /\ e \in Emails /\ acct[t] \in Account /\ acct[t] # None
               /\ Stored(t)[e] = acct[t]
               /\ \A f \in Emails \ {e} : Stored(t)[f] = users[f]
               /\ users[e] # None =>
                     /\ call[t].op # "register" /\ ~IsLocked(users[e], now)
                     /\ acct[t].password = users[e].password
                     /\ users[e].mfa # None =>
                           /\ acct[t].mfa = users[e].mfa
                           /\ call[t].op # "enable_mfa"
               /\ call[t].op = "reject" =>
                     users[e] # None /\ acct[t].failed = users[e].failed + 1
               /\ call[t].op = "login" => acct[t].locked = None
               /\ call[t].op = "enable_mfa" => acct[t].mfa # None
<1> DEFINE e == call[t].email
<1>1. /\ e \in Emails /\ acct[t] \in Account /\ acct[t] # None
      /\ users \in Document
      /\ call[t].op = "enable_mfa" => acct[t].mfa # None
  BY CallFields DEF IInv, TypeOK, CallShape
<1>2. Faithful(t)
  BY DEF SInv
<1>3. doc[t] = users
  BY <1>2 DEF Faithful
<1>4. Stored(t)[e] = acct[t] /\ \A f \in Emails \ {e} : Stored(t)[f] = users[f]
  BY <1>1, <1>3 DEF Stored, Document
<1> QED BY <1>1, <1>2, <1>4 DEF Faithful

(* A call that stores its copy, to its end or to a fault, finds the        *)
(* document as it read it: no other call works on a copy.                  *)
LEMMA StoreFaithful ==
    ASSUME IInv, SInv, CallsApart, NEW t \in Tasks, Write(t) \/ Fault(t)
    PROVE  SInv'
<1> DEFINE e == call[t].email
<1>1. CASE Fault(t) /\ UNCHANGED <<users, streak>>
  BY <1>1, EndsFaithful, OthersFaithful DEF Fault
<1>2. CASE /\ pc[t] = "write" /\ users' = Stored(t)
           /\ Write(t) \/ ~UNCHANGED <<users, streak>>
  <2>1. /\ e \in Emails /\ acct[t] \in Account /\ acct[t] # None
        /\ users'[e] = acct[t] /\ \A f \in Emails \ {e} : users'[f] = users[f]
        /\ users[e] # None =>
              /\ call[t].op # "register" /\ ~IsLocked(users[e], now)
              /\ acct[t].password = users[e].password
              /\ users[e].mfa # None =>
                    acct[t].mfa = users[e].mfa /\ call[t].op # "enable_mfa"
        /\ call[t].op = "reject" =>
              users[e] # None /\ acct[t].failed = users[e].failed + 1
        /\ call[t].op = "login" => acct[t].locked = None
        /\ call[t].op = "enable_mfa" => acct[t].mfa # None
    BY <1>2, StoredFields
  <2>2. ASSUME NEW u \in Tasks, u # t PROVE pc'[u] = pc[u] /\ ~Busy(u)
    <3>1. pc'[u] = pc[u]
      BY <2>2 DEF IInv, TypeOK, Write, Fault, Return, Forget, Goto
    <3>2. ~Busy(u)
      BY <1>2, <2>2 DEF CallsApart, Busy
    <3> QED BY <3>1, <3>2
  <2>3. ASSUME NEW u \in Tasks, u # t PROVE Faithful(u)'
    BY <2>2, <2>3 DEF Busy, Faithful
  <2>4. /\ streak \in [Emails -> Nat] /\ acct[t].failed \in Nat
        /\ \A f \in Emails \ {e} : streak'[f] = streak[f]
        /\ streak'[e] = 0 \/ (call[t].op = "reject" /\ streak'[e] = streak[e])
    <3>1. streak \in [Emails -> Nat] /\ acct[t].failed \in Nat
      BY <2>1 DEF IInv, TypeOK, Account
    <3>2. \/ streak' = [streak EXCEPT ![e] = 0]
          \/ call[t].op = "reject" /\ streak' = streak
      BY <1>2 DEF Write, Fault
    <3> QED BY <2>1, <3>1, <3>2
  <2>5. call[t].op = "reject" => acct[t].failed > streak[e]
    <3> SUFFICES ASSUME call[t].op = "reject" PROVE acct[t].failed > streak[e]
      OBVIOUS
    <3>1. users[e].failed >= streak[e] /\ acct[t].failed = users[e].failed + 1
      BY <2>1 DEF SInv, FailuresCounted
    <3>2. users[e].failed \in Nat /\ streak[e] \in Nat
      BY <2>1, <2>4 DEF IInv, TypeOK, Document, Account
    <3> QED BY <3>1, <3>2
  <2>6. FailuresCounted'
    <3>1. acct[t].failed >= streak'[e]
      BY <2>1, <2>4, <2>5
    <3> QED BY <2>1, <2>4, <3>1 DEF SInv, FailuresCounted
  <2>7. Faithful(t)'
    <3>1. CASE \E o \in Outcomes : Return(t, o)
      BY <3>1, EndsFaithful
    <3>2. CASE Write(t)
      <4>1. call' = call /\ acct' = acct
        BY <3>2 DEF Write
      <4>2. CASE pc'[t] = "token" /\ call[t].op = "login"
        BY <2>1, <4>1, <4>2 DEF Faithful
      <4>3. CASE pc'[t] = "answer"
        <5>1. call[t].op = "reject" => users'[e].failed > streak'[e]
          BY <2>1, <2>4, <2>5
        <5> QED BY <2>1, <4>1, <4>3, <5>1 DEF Faithful
      <4> QED BY <3>2, <4>2, <4>3 DEF Write, Goto, IInv, TypeOK
    <3> QED BY <3>1, <3>2 DEF Fault, Outcomes
  <2>8. SecretsInForce'
    <3>1. secrets' = secrets
      BY DEF Write, Fault
    <3>2. ASSUME NEW s \in secrets
          PROVE  /\ users'[s.email] # None /\ users'[s.email].mfa # None
                 /\ users'[s.email].mfa.seed = s.seed
      <4>1. /\ users[s.email] # None /\ users[s.email].mfa # None
            /\ users[s.email].mfa.seed = s.seed
        BY DEF SInv, SecretsInForce
      <4>2. s.email \in Emails
        BY DEF IInv, TypeOK
      <4>3. CASE s.email = e
        BY <2>1, <4>1, <4>3
      <4>4. CASE s.email # e
        BY <2>1, <4>1, <4>2, <4>4
      <4> QED BY <4>3, <4>4
    <3> QED BY <3>1, <3>2 DEF SecretsInForce
  <2> QED BY <2>3, <2>6, <2>7, <2>8 DEF SInv
<1>3. Write(t) => pc[t] = "write" /\ users' = Stored(t)
  BY DEF Write
<1>4. Fault(t) => \/ UNCHANGED <<users, streak>>
                  \/ pc[t] = "write" /\ users' = Stored(t)
  BY DEF Fault
<1> QED BY <1>1, <1>2, <1>3, <1>4

(* What is answered is in the document: the failure has been counted, the  *)
(* seed is there.                                                          *)
LEMMA AnswerFaithful ==
    ASSUME IInv, SInv, CallsApart, NEW t \in Tasks, Answer(t)
    PROVE  SInv'
<1> DEFINE e == call[t].email
<1>1. /\ pc[t] = "answer" /\ e \in Emails /\ UNCHANGED <<users, now>>
      /\ acct[t] # None /\ users[e] = acct[t]
      /\ call[t].op = "reject" => users[e].failed > streak[e]
      /\ call[t].op = "enable_mfa" => acct[t].mfa # None
  BY CallFields DEF Answer, IInv, CallShape, SInv, Faithful
<1>2. ASSUME NEW u \in Tasks PROVE Faithful(u)'
  <2>1. PICK o : Return(t, o)
    BY DEF Answer
  <2>2. CASE u = t
    BY <2>1, <2>2, EndsFaithful
  <2>3. CASE u # t
    <3>1. pc'[u] = pc[u] /\ ~Busy(u)
      BY <1>1, <2>1, <2>3, EndsFaithful DEF CallsApart, Busy
    <3> QED BY <3>1 DEF Busy, Faithful
  <2> QED BY <2>2, <2>3
<1>3. FailuresCounted'
  <2>1. streak \in [Emails -> Nat] /\ users[e].failed \in Nat
    <3>1. users[e] \in Account
      BY <1>1 DEF IInv, TypeOK, Document
    <3> QED BY <3>1 DEF IInv, TypeOK, Account
  <2>2. CASE streak' = streak
    BY <1>1, <2>2 DEF SInv, FailuresCounted
  <2>3. CASE call[t].op = "reject" /\ streak' = [streak EXCEPT ![e] = @ + 1]
    <3>1. users'[e].failed >= streak'[e]
      BY <1>1, <2>1, <2>3
    <3>2. \A f \in Emails \ {e} : streak'[f] = streak[f]
      BY <1>1, <2>1, <2>3
    <3> QED BY <1>1, <3>1, <3>2 DEF SInv, FailuresCounted
  <2> QED BY <2>2, <2>3 DEF Answer
<1>4. SecretsInForce'
  <2> DEFINE r == [email |-> e, seed |-> acct[t].mfa.seed]
  <2>1. \/ secrets' = secrets
        \/ call[t].op = "enable_mfa" /\ secrets' = secrets \cup {r}
    BY DEF Answer
  <2>2. r.email = e /\ r.seed = acct[t].mfa.seed
    OBVIOUS
  <2>3. users' = users
    BY <1>1
  <2> HIDE DEF r
  <2> QED BY <1>1, <2>1, <2>2, <2>3 DEF SInv, SecretsInForce
<1> QED BY <1>2, <1>3, <1>4 DEF SInv

(* A lock that had run out does not come back as time goes by.             *)
LEMMA TickFaithful ==
    ASSUME IInv, SInv, Tick
    PROVE  SInv'
<1>1. now \in Nat /\ now' = now + 1 /\ users \in Document
      /\ UNCHANGED <<users, pc, call, acct, doc, secrets, streak>>
  BY DEF Tick, IInv, TypeOK, Time
<1>2. ASSUME NEW u \in Account, ~IsLocked(u, now) PROVE ~IsLocked(u, now + 1)
  <2>1. u.locked = None \/ u.locked \in Nat
    BY DEF Account, Time
  <2> QED BY <1>1, <1>2, <2>1 DEF IsLocked
<1>3. ASSUME NEW t \in Tasks PROVE Faithful(t)'
  <2>1. Faithful(t)
    BY DEF SInv
  <2>2. CASE pc[t] \in {"read", "write"} /\ call[t].op # "register"
    <3>1. /\ users[call[t].email] # None /\ ~IsLocked(users[call[t].email], now)
          /\ call[t].email \in Emails
      BY <2>1, <2>2, CallFields DEF Faithful, IInv, CallShape
    <3>2. users[call[t].email] \in Account
      BY <1>1, <3>1 DEF Document
    <3>3. ~IsLocked(users[call[t].email], now + 1)
      BY <1>2, <3>1, <3>2
    <3> QED BY <1>1, <2>1, <2>2, <3>3 DEF Faithful
  <2>3. CASE ~(pc[t] \in {"read", "write"} /\ call[t].op # "register")
    BY <1>1, <2>1, <2>3 DEF Faithful
  <2> QED BY <2>2, <2>3
<1> QED BY <1>1, <1>3 DEF SInv, FailuresCounted, SecretsInForce

(* The calls of a process that restarts are gone, the others go on.        *)
LEMMA RestartFaithful ==
    ASSUME SInv, NEW p \in Procs, Restart(p)
    PROVE  SInv'
<1>1. UNCHANGED <<users, now, secrets, streak>>
  BY DEF Restart
<1>2. ASSUME NEW t \in Tasks PROVE Faithful(t)'
  <2>1. CASE Home[t] = p
    <3>1. pc'[t] = "idle"
      BY <2>1 DEF Restart, Cleared
    <3> QED BY <3>1 DEF Faithful
  <2>2. CASE Home[t] # p
    <3>1. /\ pc'[t] = pc[t] /\ call'[t] = call[t] /\ acct'[t] = acct[t]
          /\ doc'[t] = doc[t]
      BY <2>2 DEF Restart, Cleared
    <3> QED BY <1>1, <3>1 DEF SInv, Faithful
  <2> QED BY <2>1, <2>2
<1> QED BY <1>1, <1>2 DEF SInv, FailuresCounted, SecretsInForce

(* While calls stay apart, every copy is faithful.                         *)
LEMMA SerialInductive == Spec /\ []CallsApart => []SInv
<1>1. Init => SInv
  BY DEF Init, SInv, Faithful, FailuresCounted, SecretsInForce
<1>2. IInv /\ SInv /\ CallsApart /\ [Next]_vars => SInv'
  <2> SUFFICES ASSUME IInv, SInv, CallsApart, [Next]_vars PROVE SInv'
    OBVIOUS
  <2>1. CASE UNCHANGED vars
    BY <2>1 DEF vars, SInv, Faithful, FailuresCounted, SecretsInForce
  <2>2. ASSUME NEW t \in Tasks, Step(t) PROVE SInv'
    BY <2>2, QuietFaithful, StoreFaithful, AnswerFaithful
  <2> QED BY <2>1, <2>2, TickFaithful, RestartFaithful DEF Next
<1> QED BY <1>1, <1>2, Inductive, PTL DEF Spec

(* The condition holds wherever a single thread makes all the calls.       *)
LEMMA OneThreadSuffices ==
    ASSUME \A t, u \in Tasks : t = u
    PROVE  CallsApart
BY DEF CallsApart
-----------------------------------------------------------------------------
(* While calls that work on a copy of an account do not overlap, every     *)
(* failure that was answered is counted, so that the fifth in a row locks  *)
(* the account (SPEC.md:151, service.py:162-171).                          *)
THEOREM FailuresAreCounted == Spec /\ []CallsApart => []FailuresCounted
<1>1. SInv => FailuresCounted
  BY DEF SInv
<1> QED BY <1>1, SerialInductive, PTL

(* Under the same condition a seed that was answered to a user is the seed *)
(* its account is checked against (service.py:124-134).                    *)
THEOREM SecretsAreInForce == Spec /\ []CallsApart => []SecretsInForce
<1>1. SInv => SecretsInForce
  BY DEF SInv
<1> QED BY <1>1, SerialInductive, PTL

(* Only a call at the point of its write changes the document, and only a  *)
(* login at its end opens a session, for the account it logged in to.      *)
LEMMA DocumentChanges ==
    ASSUME [Next]_vars
    PROVE  \/ users' = users
           \/ \E t \in Tasks : pc[t] = "write" /\ users' = Stored(t)
<1>1. ASSUME NEW t \in Tasks, Step(t)
      PROVE  \/ users' = users
             \/ pc[t] = "write" /\ users' = Stored(t)
  <2>1. CASE Write(t)
    BY <2>1 DEF Write
  <2>2. CASE Fault(t)
    BY <2>2 DEF Fault
  <2>3. CASE ~Write(t) /\ ~Fault(t)
    BY <1>1, <2>3 DEF Step, Register, ReadAccount, Refuse, AcceptEnrolment,
                      RefuseEnrolment, Reject, AcceptLogin, ReplaceRead, Answer,
                      IssueToken, ValidateLookup, ValidateExpiry
  <2> QED BY <2>1, <2>2, <2>3
<1>2. CASE Tick \/ UNCHANGED vars \/ \E p \in Procs : Restart(p)
  BY <1>2 DEF Tick, Restart, vars
<1> QED BY <1>1, <1>2 DEF Next

(* A session that was not there is one that a login opens at its end.      *)
LEMMA SessionOpens ==
    ASSUME IInv, [Next]_vars, NEW p \in Procs, NEW k \in Tokens,
           sessions'[p][k] # None, sessions[p][k] = None
    PROVE  \E t \in Tasks : /\ pc[t] = "token"
                            /\ sessions'[p][k].email = call[t].email
                            /\ users' = users
<1>1. sessions \in [Procs -> [Tokens -> Session \cup {None}]]
      /\ \A t \in Tasks : Home[t] \in Procs
  BY AuthAssumption DEF IInv, TypeOK
<1>2. ASSUME NEW t \in Tasks, IssueToken(t)
      PROVE  /\ pc[t] = "token" /\ sessions'[p][k].email = call[t].email
             /\ users' = users
  <2>1. PICK l \in Tokens :
           sessions' = [sessions EXCEPT ![Home[t]][l] =
               [email |-> call[t].email, expires |-> stamp[t] + SessionLifetime]]
    BY <1>2 DEF IssueToken
  <2>2. p = Home[t] /\ k = l
    BY <1>1, <2>1
  <2>3. sessions'[p][k] =
            [email |-> call[t].email, expires |-> stamp[t] + SessionLifetime]
    BY <1>1, <2>1, <2>2
  <2> QED BY <1>2, <2>3 DEF IssueToken
<1>3. ASSUME NEW t \in Tasks, ValidateExpiry(t) PROVE FALSE
  <2>1. call[t].token \in Tokens
    BY <1>3, CallFields DEF ValidateExpiry, IInv, CallShape, TypeOK
  <2>2. \/ sessions' = sessions
        \/ sessions' = [sessions EXCEPT ![Home[t]][call[t].token] = None]
    BY <1>3 DEF ValidateExpiry
  <2> QED BY <1>1, <2>1, <2>2
<1>4. ASSUME NEW q \in Procs, Restart(q) PROVE FALSE
  BY <1>1, <1>4 DEF Restart
<1>5. ASSUME NEW t \in Tasks, Step(t), ~IssueToken(t), ~ValidateExpiry(t)
      PROVE  FALSE
  <2>1. sessions' = sessions
    BY <1>5 DEF Step, Register, ReadAccount, Refuse, AcceptEnrolment,
                RefuseEnrolment, Reject, AcceptLogin, ReplaceRead, Write,
                Answer, Fault, ValidateLookup
  <2> QED BY <2>1
<1>6. CASE Tick \/ UNCHANGED vars
  BY <1>6 DEF Tick, vars
<1> QED BY <1>2, <1>3, <1>4, <1>5, <1>6 DEF Next

(* The whole of what a step may not do to a stored account.                *)
LEMMA StepKeepsAccounts ==
    ASSUME IInv, SInv, [Next]_vars, NEW e \in Emails, users[e] # None
    PROVE  /\ users'[e] # None /\ users'[e].password = users[e].password
           /\ users[e].mfa # None => users'[e].mfa = users[e].mfa
           /\ IsLocked(users[e], now) => users'[e] = users[e]
<1>1. CASE users' = users
  BY <1>1
<1>2. ASSUME NEW t \in Tasks, pc[t] = "write", users' = Stored(t)
      PROVE  /\ users'[e] # None /\ users'[e].password = users[e].password
             /\ users[e].mfa # None => users'[e].mfa = users[e].mfa
             /\ IsLocked(users[e], now) => users'[e] = users[e]
  <2>1. /\ acct[t] # None /\ users'[call[t].email] = acct[t]
        /\ \A f \in Emails \ {call[t].email} : users'[f] = users[f]
        /\ users[call[t].email] # None =>
              /\ ~IsLocked(users[call[t].email], now)
              /\ acct[t].password = users[call[t].email].password
              /\ users[call[t].email].mfa # None =>
                    acct[t].mfa = users[call[t].email].mfa
    BY <1>2, StoredFields
  <2>2. CASE e = call[t].email
    BY <2>1, <2>2
  <2>3. CASE e # call[t].email
    BY <2>1, <2>3
  <2> QED BY <2>2, <2>3
<1> QED BY <1>1, <1>2, DocumentChanges

(* While calls stay apart, nothing changes a locked account and no session *)
(* is issued for it (SPEC.md:152, service.py:71-82).                       *)
THEOREM LocksHold == Spec /\ []CallsApart => LockHolds
<1>1. IInv /\ SInv /\ [Next]_vars =>
          \A e \in Emails : users[e] # None /\ IsLocked(users[e], now) =>
              /\ users'[e] = users[e]
              /\ \A p \in Procs, k \in Tokens :
                    sessions'[p][k] # None /\ sessions[p][k] = None =>
                        sessions'[p][k].email # e
  <2> SUFFICES ASSUME IInv, SInv, [Next]_vars, NEW e \in Emails,
                      users[e] # None, IsLocked(users[e], now)
               PROVE  /\ users'[e] = users[e]
                      /\ \A p \in Procs, k \in Tokens :
                            sessions'[p][k] # None /\ sessions[p][k] = None =>
                                sessions'[p][k].email # e
    OBVIOUS
  <2>1. users'[e] = users[e]
    BY StepKeepsAccounts
  <2>2. ASSUME NEW p \in Procs, NEW k \in Tokens,
               sessions'[p][k] # None, sessions[p][k] = None
        PROVE  sessions'[p][k].email # e
    <3>1. PICK t \in Tasks : /\ pc[t] = "token"
                             /\ sessions'[p][k].email = call[t].email
      BY <2>2, SessionOpens
    <3>2. users[call[t].email].locked = None
      BY <3>1 DEF SInv, Faithful
    <3> QED BY <3>1, <3>2 DEF IsLocked
  <2> QED BY <2>1, <2>2
<1> QED BY <1>1, Inductive, SerialInductive, PTL DEF Spec, LockHolds

(* While calls stay apart, a registered account stays, with its passphrase *)
(* and, once it has one, its second factor and its seed (SPEC.md:144,      *)
(* service.py:92-94, 114-130, repository.py:171-201).                      *)
THEOREM AccountsStay == Spec /\ []CallsApart => AccountsPersist
<1>1. IInv /\ SInv /\ [Next]_vars =>
          \A e \in Emails : users[e] # None =>
              /\ users'[e] # None
              /\ users'[e].password = users[e].password
              /\ users[e].mfa # None => users'[e].mfa = users[e].mfa
  BY StepKeepsAccounts
<1> QED BY <1>1, Inductive, SerialInductive, PTL DEF Spec, AccountsPersist
-----------------------------------------------------------------------------
(* No token is given out twice, and a validation goes by the end of the    *)
(* session it has found.                                                   *)
TokensOnce ==
    /\ \A p \in Procs, k \in Tokens : sessions[p][k] # None => k \in drawn
    /\ \A t \in Tasks : pc[t] = "expiry" =>
          /\ call[t].token \in drawn
          /\ LET s == sessions[Home[t]][call[t].token]
             IN  s = None \/ s.expires = stamp[t]

(* A step of a task changes what other tasks have at hand in no way.       *)
Alone(t) ==
    \A u \in Tasks \ {t} : /\ pc'[u] = pc[u] /\ call'[u] = call[u]
                           /\ acct'[u] = acct[u] /\ doc'[u] = doc[u]
                           /\ stamp'[u] = stamp[u] /\ last'[u] = last[u]

LEMMA StepAlone ==
    ASSUME IInv, NEW t \in Tasks, Step(t)
    PROVE  Alone(t)
<1>t. /\ pc \in [Tasks -> {"idle", "verify", "read", "write", "answer", "token", "expiry"}]
      /\ call \in [Tasks -> Calls \cup {None}] /\ acct \in [Tasks -> Account \cup {None}]
      /\ doc \in [Tasks -> Document \cup {None}] /\ stamp \in [Tasks -> Time]
      /\ last \in [Tasks -> Outcomes]
  BY DEF IInv, TypeOK
<1>r. ASSUME NEW o, Return(t, o) PROVE Alone(t)
  BY <1>t, <1>r DEF Return, Forget, Alone
<1>1. CASE \E e \in Emails, pw \in Passwords : Register(t, e, pw)
  BY <1>t, <1>r, <1>1 DEF Register, Goto, Alone
<1>2. CASE \E e \in Emails, op \in {"login", "enable_mfa"} : ReadAccount(t, op, e)
  BY <1>t, <1>r, <1>2 DEF ReadAccount, Goto, Alone
<1>3. CASE Refuse(t) \/ \E pw \in Passwords : RefuseEnrolment(t, pw)
  BY <1>r, <1>3 DEF Refuse, RefuseEnrolment
<1>4. CASE \E pw \in Passwords, otp \in Otps :
           AcceptEnrolment(t, pw) \/ Reject(t, pw, otp) \/ AcceptLogin(t, pw, otp)
  BY <1>t, <1>4 DEF AcceptEnrolment, Reject, AcceptLogin, Goto, Alone
<1>5. CASE ReplaceRead(t) \/ Write(t) \/ Answer(t) \/ Fault(t)
  BY <1>t, <1>r, <1>5 DEF ReplaceRead, Write, Answer, Fault, Goto, Alone
<1>6. CASE IssueToken(t) \/ ValidateExpiry(t)
  BY <1>r, <1>6 DEF IssueToken, ValidateExpiry
<1>7. CASE \E k \in Tokens : ValidateLookup(t, k)
  BY <1>t, <1>r, <1>7 DEF ValidateLookup, Goto, Alone
<1>8. None \in Otps
  BY DEF Otps
<1> QED BY <1>1, <1>2, <1>3, <1>4, <1>5, <1>6, <1>7, <1>8 DEF Step

(* A session is a record, and a token that was drawn is not drawn again.   *)
LEMMA TokensStep ==
    ASSUME IInv, TokensOnce, NEW t \in Tasks, Step(t)
    PROVE  TokensOnce'
<1>t. /\ sessions \in [Procs -> [Tokens -> Session \cup {None}]]
      /\ \A u \in Tasks : Home[u] \in Procs
      /\ \A u \in Tasks : pc[u] = "expiry" => call[u].token \in Tokens
      /\ pc \in [Tasks -> {"idle", "verify", "read", "write", "answer", "token", "expiry"}]
      /\ call \in [Tasks -> Calls \cup {None}] /\ stamp \in [Tasks -> Time]
  BY AuthAssumption, CallFields DEF IInv, TypeOK, CallShape
<1>a. Alone(t)
  BY StepAlone
<1>n. ASSUME sessions' = sessions, drawn \subseteq drawn', pc'[t] # "expiry"
      PROVE  TokensOnce'
  BY <1>a, <1>n DEF Alone, TokensOnce
<1>r. ASSUME NEW o, Return(t, o), sessions' = sessions, drawn' = drawn PROVE TokensOnce'
  <2>1. pc'[t] = "idle"
    BY <1>t, <1>r DEF Return, Forget
  <2> QED BY <1>n, <1>r, <2>1
<1>1. CASE IssueToken(t)
  <2>1. PICK k \in Tokens \ drawn :
           /\ drawn' = drawn \cup {k}
           /\ sessions' = [sessions EXCEPT ![Home[t]][k] =
                [email |-> call[t].email, expires |-> stamp[t] + SessionLifetime]]
    BY <1>1 DEF IssueToken
  <2> DEFINE s == [email |-> call[t].email, expires |-> stamp[t] + SessionLifetime]
  <2> HIDE DEF s
  <2>2. sessions' = [sessions EXCEPT ![Home[t]][k] = s]
    BY <2>1 DEF s
  <2>3. pc'[t] = "idle"
    BY <1>1, <1>t DEF IssueToken, Return, Forget
  <2>4. \A p \in Procs, l \in Tokens : l # k => sessions'[p][l] = sessions[p][l]
    BY <1>t, <2>2
  <2>5. \A p \in Procs, l \in Tokens : sessions'[p][l] # None => l \in drawn'
    BY <2>1, <2>4 DEF TokensOnce
  <2>6. ASSUME NEW u \in Tasks, pc'[u] = "expiry"
        PROVE  /\ call'[u].token \in drawn'
               /\ \/ sessions'[Home[u]][call'[u].token] = None
                  \/ sessions'[Home[u]][call'[u].token].expires = stamp'[u]
    <3>1. u # t /\ pc[u] = "expiry" /\ call'[u] = call[u] /\ stamp'[u] = stamp[u]
      BY <1>a, <2>3, <2>6 DEF Alone
    <3>2. call[u].token \in drawn /\ call[u].token \in Tokens
      BY <1>t, <3>1 DEF TokensOnce
    <3>3. sessions'[Home[u]][call[u].token] = sessions[Home[u]][call[u].token]
      BY <1>t, <2>1, <2>4, <3>2
    <3> QED BY <2>1, <3>1, <3>2, <3>3 DEF TokensOnce
  <2> QED BY <2>5, <2>6 DEF TokensOnce
<1>2. CASE ValidateExpiry(t)
  <2>1. drawn' = drawn /\ pc[t] = "expiry"
    BY <1>2 DEF ValidateExpiry
  <2>2. CASE sessions' = sessions
    <3>1. PICK o : Return(t, o)
      BY <1>2 DEF ValidateExpiry
    <3> QED BY <1>r, <2>1, <2>2, <3>1
  <2>3. CASE sessions' = [sessions EXCEPT ![Home[t]][call[t].token] = None]
    <3>1. pc'[t] = "idle"
      BY <1>2, <1>t DEF ValidateExpiry, Return, Forget
    <3>2. \A p \in Procs, l \in Tokens :
             sessions'[p][l] = None \/ sessions'[p][l] = sessions[p][l]
      BY <1>t, <2>1, <2>3
    <3>3. ASSUME NEW u \in Tasks, pc'[u] = "expiry"
          PROVE  /\ call'[u].token \in drawn'
                 /\ \/ sessions'[Home[u]][call'[u].token] = None
                    \/ sessions'[Home[u]][call'[u].token].expires = stamp'[u]
      <4>1. pc[u] = "expiry" /\ call'[u] = call[u] /\ stamp'[u] = stamp[u]
        BY <1>a, <3>1, <3>3 DEF Alone
      <4>2. \/ sessions'[Home[u]][call[u].token] = None
            \/ sessions'[Home[u]][call[u].token] = sessions[Home[u]][call[u].token]
        BY <1>t, <3>2, <4>1
      <4> QED BY <2>1, <4>1, <4>2 DEF TokensOnce
    <3> QED BY <2>1, <3>2, <3>3 DEF TokensOnce
  <2> QED BY <1>2, <2>2, <2>3 DEF ValidateExpiry
<1>3. ASSUME NEW k \in Tokens, ValidateLookup(t, k) PROVE TokensOnce'
  <2>1. sessions' = sessions /\ drawn' = drawn
    BY <1>3 DEF ValidateLookup
  <2>2. CASE Return(t, "UNAUTHENTICATED")
    BY <1>r, <2>1, <2>2
  <2>3. CASE ~Return(t, "UNAUTHENTICATED")
    <3>1. /\ sessions[Home[t]][k] # None
          /\ call' = [call EXCEPT ![t] = [op |-> "validate", token |-> k]]
          /\ stamp' = [stamp EXCEPT ![t] = sessions[Home[t]][k].expires]
      BY <1>3, <2>3 DEF ValidateLookup
    <3>2. call'[t].token = k /\ stamp'[t] = sessions[Home[t]][k].expires
      BY <1>t, <3>1
    <3>3. k \in drawn
      BY <1>t, <3>1 DEF TokensOnce
    <3> QED BY <1>a, <2>1, <3>2, <3>3 DEF Alone, TokensOnce
  <2> QED BY <2>2, <2>3
<1>4. ASSUME ~IssueToken(t), ~ValidateExpiry(t), \A k \in Tokens : ~ValidateLookup(t, k)
      PROVE  TokensOnce'
  <2>1. sessions' = sessions /\ drawn \subseteq drawn'
    BY <1>4 DEF Step, Register, ReadAccount, Refuse, AcceptEnrolment, RefuseEnrolment,
                Reject, AcceptLogin, ReplaceRead, Write, Answer, Fault
  <2>2. pc'[t] # "expiry"
    BY <1>4, <1>t DEF Step, Register, ReadAccount, Refuse, AcceptEnrolment,
       RefuseEnrolment, Reject, AcceptLogin, ReplaceRead, Write, Answer, Fault, Goto, Return,
       Forget
  <2> QED BY <1>n, <2>1, <2>2
<1> QED BY <1>1, <1>2, <1>3, <1>4

LEMMA TokensInductive == Spec => []TokensOnce
<1>1. Init => TokensOnce
  BY DEF Init, TokensOnce
<1>2. IInv /\ TokensOnce /\ [Next]_vars => TokensOnce'
  <2> SUFFICES ASSUME IInv, TokensOnce, [Next]_vars PROVE TokensOnce'
    OBVIOUS
  <2>1. CASE UNCHANGED vars \/ Tick
    BY <2>1 DEF vars, Tick, TokensOnce
  <2>2. ASSUME NEW p \in Procs, Restart(p) PROVE TokensOnce'
    <3>1. sessions \in [Procs -> [Tokens -> Session \cup {None}]]
          /\ \A u \in Tasks : Home[u] \in Procs
      BY AuthAssumption DEF IInv, TypeOK
    <3>2. \A q \in Procs : sessions'[q] = IF q = p THEN [k \in Tokens |-> None]
                                          ELSE sessions[q]
      BY <2>2, <3>1 DEF Restart
    <3>3. ASSUME NEW u \in Tasks, pc'[u] = "expiry"
          PROVE  /\ Home[u] # p /\ pc[u] = "expiry" /\ call'[u] = call[u]
                 /\ stamp'[u] = stamp[u]
      BY <2>2, <3>3 DEF Restart, Cleared
    <3>4. drawn' = drawn
      BY <2>2 DEF Restart
    <3> QED BY <3>1, <3>2, <3>3, <3>4 DEF TokensOnce
  <2> QED BY <2>1, <2>2, TokensStep DEF Next
<1> QED BY <1>1, <1>2, Inductive, PTL DEF Spec

(* What a step may do to the sessions.                                     *)
LEMMA StepEndsSessions ==
    ASSUME IInv, TokensOnce, [Next]_vars, NEW p \in Procs, NEW k \in Tokens
    PROVE  /\ sessions[p][k] # None /\ sessions'[p][k] # sessions[p][k] =>
                 /\ sessions'[p][k] = None
                 /\ now >= sessions[p][k].expires \/ Restart(p)
           /\ sessions[p][k] = None /\ sessions'[p][k] # None => k \notin drawn
<1>t. /\ sessions \in [Procs -> [Tokens -> Session \cup {None}]]
      /\ \A u \in Tasks : Home[u] \in Procs
  BY AuthAssumption DEF IInv, TypeOK
<1>1. CASE sessions' = sessions
  BY <1>1
<1>2. ASSUME NEW t \in Tasks, IssueToken(t)
      PROVE  sessions'[p][k] = sessions[p][k] \/ (sessions[p][k] = None /\ k \notin drawn)
  <2>1. PICK l \in Tokens \ drawn :
           sessions' = [sessions EXCEPT ![Home[t]][l] =
               [email |-> call[t].email, expires |-> stamp[t] + SessionLifetime]]
    BY <1>2 DEF IssueToken
  <2> DEFINE s == [email |-> call[t].email, expires |-> stamp[t] + SessionLifetime]
  <2> HIDE DEF s
  <2>2. sessions' = [sessions EXCEPT ![Home[t]][l] = s]
    BY <2>1 DEF s
  <2>3. CASE k = l
    BY <2>1, <2>3 DEF TokensOnce
  <2>4. CASE k # l
    BY <1>t, <2>2, <2>4
  <2> QED BY <2>3, <2>4
<1>3. ASSUME NEW t \in Tasks, ValidateExpiry(t)
      PROVE  \/ sessions'[p][k] = sessions[p][k]
             \/ sessions'[p][k] = None /\ now >= sessions[p][k].expires
  <2>1. pc[t] = "expiry" /\ call[t].token \in Tokens
    BY <1>3, CallFields DEF ValidateExpiry, IInv, TypeOK, CallShape
  <2>2. CASE sessions' = sessions
    BY <2>2
  <2>3. CASE /\ now >= stamp[t] /\ sessions[Home[t]][call[t].token] # None
             /\ sessions' = [sessions EXCEPT ![Home[t]][call[t].token] = None]
    <3>1. sessions[Home[t]][call[t].token].expires = stamp[t]
      BY <2>1, <2>3 DEF TokensOnce
    <3>2. CASE p = Home[t] /\ k = call[t].token
      BY <1>t, <2>1, <2>3, <3>1, <3>2
    <3>3. CASE p # Home[t] \/ k # call[t].token
      BY <1>t, <2>1, <2>3, <3>3
    <3> QED BY <3>2, <3>3
  <2> QED BY <1>3, <2>2, <2>3 DEF ValidateExpiry
<1>4. ASSUME NEW q \in Procs, Restart(q)
      PROVE  \/ sessions'[p][k] = sessions[p][k]
             \/ sessions'[p][k] = None /\ Restart(p)
  <2>1. sessions' = [sessions EXCEPT ![q] = [l \in Tokens |-> None]]
    BY <1>4 DEF Restart
  <2>2. CASE p = q
    BY <1>t, <1>4, <2>1, <2>2
  <2>3. CASE p # q
    BY <1>t, <2>1, <2>3
  <2> QED BY <2>2, <2>3
<1>5. ASSUME NEW t \in Tasks, Step(t), ~IssueToken(t), ~ValidateExpiry(t)
      PROVE  sessions' = sessions
  BY <1>5 DEF Step, Register, ReadAccount, Refuse, AcceptEnrolment, RefuseEnrolment,
              Reject, AcceptLogin, ReplaceRead, Write, Answer, Fault, ValidateLookup
<1>6. CASE Tick \/ UNCHANGED vars
  BY <1>6 DEF Tick, vars
<1> QED BY <1>1, <1>2, <1>3, <1>4, <1>5, <1>6 DEF Next

(* A validation has not answered yet, and if the entry it found is gone    *)
(* then because its time is over.                                          *)
Found ==
    \A t \in Tasks : pc[t] = "expiry" =>
        /\ last[t] = "none"
        /\ sessions[Home[t]][call[t].token] = None => now >= stamp[t]

(* Only the first step of a validation brings a task to the second.        *)
LEMMA LookupLeads ==
    ASSUME IInv, NEW t \in Tasks, Step(t), pc'[t] = "expiry"
    PROVE  \E k \in Tokens : /\ sessions[Home[t]][k] # None /\ sessions' = sessions
                             /\ call'[t].token = k /\ last'[t] = "none"
<1>t. /\ pc \in [Tasks -> {"idle", "verify", "read", "write", "answer", "token", "expiry"}]
      /\ call \in [Tasks -> Calls \cup {None}] /\ last \in [Tasks -> Outcomes]
  BY DEF IInv, TypeOK
<1>1. ASSUME \A k \in Tokens : ~ValidateLookup(t, k) PROVE FALSE
  BY <1>1, <1>t DEF Step, Register, ReadAccount, Refuse, AcceptEnrolment, RefuseEnrolment,
     Reject, AcceptLogin, ReplaceRead, Write, Answer, Fault, IssueToken, ValidateExpiry,
     Goto, Return, Forget
<1>2. PICK k \in Tokens : ValidateLookup(t, k)
  BY <1>1
<1>3. ~Return(t, "UNAUTHENTICATED")
  BY <1>t DEF Return, Forget
<1>4. /\ sessions[Home[t]][k] # None /\ sessions' = sessions
      /\ call' = [call EXCEPT ![t] = [op |-> "validate", token |-> k]]
      /\ last' = [last EXCEPT ![t] = "none"]
  BY <1>2, <1>3 DEF ValidateLookup
<1> QED BY <1>t, <1>4

LEMMA FoundStep ==
    ASSUME IInv, TokensOnce, Found, [Next]_vars
    PROVE  Found'
<1> SUFFICES ASSUME NEW t \in Tasks, pc'[t] = "expiry"
             PROVE  /\ last'[t] = "none"
                    /\ sessions'[Home[t]][call'[t].token] = None => now' >= stamp'[t]
  BY DEF Found
<1> DEFINE p == Home[t]
           k == call[t].token
<1>1. now \in Nat /\ stamp[t] \in Nat /\ p \in Procs
  BY AuthAssumption DEF IInv, TypeOK, Time
<1>2. ~Restart(p)
  BY DEF Restart, Cleared
<1>3. CASE /\ pc[t] = "expiry" /\ call'[t] = call[t] /\ stamp'[t] = stamp[t]
           /\ last'[t] = last[t] /\ now' \in {now, now + 1}
  <2>1. k \in Tokens /\ last[t] = "none"
    BY <1>3, CallFields DEF IInv, TypeOK, CallShape, Found
  <2>2. ASSUME sessions'[p][k] = None PROVE now >= stamp[t]
    <3>1. CASE sessions[p][k] = None
      BY <1>3, <3>1 DEF Found
    <3>2. CASE sessions[p][k] # None
      <4>1. now >= sessions[p][k].expires
        BY <1>1, <1>2, <2>1, <2>2, <3>2, StepEndsSessions
      <4> QED BY <1>3, <3>2, <4>1 DEF TokensOnce
    <3> QED BY <3>1, <3>2
  <2> QED BY <1>1, <1>3, <2>1, <2>2
<1>4. CASE Step(t)
  BY <1>4, LookupLeads
<1>5. ASSUME NEW u \in Tasks, u # t, Step(u) PROVE now' = now /\ Alone(u)
  <2>1. now' = now
    BY <1>5 DEF Step, Register, ReadAccount, Refuse, AcceptEnrolment, RefuseEnrolment,
       Reject, AcceptLogin, ReplaceRead, Write, Answer, Fault, IssueToken, ValidateLookup,
       ValidateExpiry
  <2> QED BY <1>5, <2>1, StepAlone
<1>6. ASSUME NEW u \in Tasks, u # t, Step(u)
      PROVE  /\ last'[t] = "none"
             /\ sessions'[Home[t]][call'[t].token] = None => now' >= stamp'[t]
  BY <1>3, <1>5, <1>6 DEF Alone
<1>7. CASE Tick \/ UNCHANGED vars
  BY <1>3, <1>7 DEF Tick, vars
<1>8. ASSUME NEW q \in Procs, Restart(q)
      PROVE  /\ last'[t] = "none"
             /\ sessions'[Home[t]][call'[t].token] = None => now' >= stamp'[t]
  <2>1. /\ pc'[t] = pc[t] /\ call'[t] = call[t] /\ stamp'[t] = stamp[t]
        /\ last'[t] = last[t] /\ now' = now
    BY <1>8 DEF Restart, Cleared
  <2> QED BY <1>3, <2>1
<1> QED BY <1>4, <1>6, <1>7, <1>8 DEF Next

LEMMA FoundInductive == Spec => []Found
<1>1. Init => Found
  BY DEF Init, Found
<1>2. IInv /\ TokensOnce /\ Found /\ [Next]_vars => Found'
  BY FoundStep
<1> QED BY <1>1, <1>2, Inductive, TokensInductive, PTL DEF Spec

(* A session is answered to be valid only by the look at the clock, and    *)
(* while it is open.                                                       *)
LEMMA ValidIsOpen ==
    ASSUME IInv, TokensOnce, Found, [Next]_vars, NEW t \in Tasks,
           pc[t] = "expiry", last'[t] = "valid"
    PROVE  /\ sessions'[Home[t]][call[t].token] # None
           /\ now < sessions'[Home[t]][call[t].token].expires
<1>1. last[t] = "none" /\ last \in [Tasks -> Outcomes]
  BY DEF Found, IInv, TypeOK
<1>2. ASSUME NEW u \in Tasks, Step(u) PROVE u = t
  BY <1>1, <1>2, StepAlone DEF Alone
<1>3. Step(t)
  BY <1>1, <1>2 DEF Next, Tick, Restart, Cleared, vars
<1>4. ValidateExpiry(t)
  BY <1>3 DEF Step, Register, ReadAccount, Refuse, AcceptEnrolment, RefuseEnrolment,
     Reject, AcceptLogin, ReplaceRead, Write, Answer, Fault, IssueToken, ValidateLookup
<1>5. ASSUME NEW o, Return(t, o) PROVE o = "valid"
  BY <1>1, <1>5 DEF Return
<1>6. now < stamp[t] /\ sessions' = sessions
  BY <1>4, <1>5 DEF ValidateExpiry
<1>7. now \in Nat /\ stamp[t] \in Nat
  BY DEF IInv, TypeOK, Time
<1>8. sessions[Home[t]][call[t].token] # None
  BY <1>6, <1>7 DEF Found
<1> QED BY <1>6, <1>8 DEF TokensOnce

(* However validations, logins and restarts interleave, a session is never *)
(* altered, it leaves the table only when its time is over or with its     *)
(* process and does not come back, and a validation answers "valid" only   *)
(* while the session it found is open (service.py:98-101, 141-148).        *)
THEOREM SessionsHold == Spec => SessionsEnd
<1>1. IInv /\ TokensOnce /\ Found /\ [Next]_vars =>
          /\ \A p \in Procs, k \in Tokens :
                sessions[p][k] # None /\ sessions'[p][k] # sessions[p][k] =>
                    /\ sessions'[p][k] = None
                    /\ now >= sessions[p][k].expires \/ Restart(p)
          /\ \A p \in Procs, k \in Tokens :
                sessions[p][k] = None /\ sessions'[p][k] # None => k \notin drawn
          /\ \A t \in Tasks :
                pc[t] = "expiry" /\ last'[t] = "valid" =>
                    /\ sessions'[Home[t]][call[t].token] # None
                    /\ now < sessions'[Home[t]][call[t].token].expires
  BY StepEndsSessions, ValidIsOpen
<1> QED BY <1>1, Inductive, TokensInductive, FoundInductive, PTL DEF Spec, SessionsEnd
-----------------------------------------------------------------------------
(* The seed that an account is checked against.                            *)
HasSeed(a, s) == a # None /\ a.mfa # None /\ a.mfa.seed = s

(* What a call that is to store its copy has decided on, of the account as *)
(* it is: to register it, to count a failure, to let it in, to enrol it.   *)
Enrolled(a, s) ==
    [Authenticated(a) EXCEPT !.mfa = [seed |-> s, sealedUnder |-> a.password]]
Decided(t) ==
    LET a == acct[t]
        u == users[call[t].email]
    IN  /\ pc[t] = "write" /\ call[t].op = "register" =>
              \E pw \in Passwords : a = NewAccount(pw)
        /\ pc[t] \in {"read", "write"} /\ call[t].op = "reject" =>
              \E n \in 0 .. now : ~IsLocked(u, n) /\ a = Rejected(u, n)
        /\ pc[t] \in {"read", "write"} /\ call[t].op = "login" =>
              ~IsLocked(u, stamp[t]) /\ a = Authenticated(u)
        /\ pc[t] \in {"read", "write"} /\ call[t].op = "enable_mfa" =>
              /\ \E n \in 0 .. now : ~IsLocked(u, n)
              /\ \E s \in Seeds \cap drawn :
                    /\ \A e \in Emails : ~HasSeed(users[e], s)
                    /\ a = Enrolled(u, s)

DInv == /\ \A t \in Tasks : Decided(t)
        /\ \A e \in Emails, s \in Seeds : HasSeed(users[e], s) => s \in drawn

(* A step that leaves the document alone.                                  *)
LEMMA OthersDecided ==
    ASSUME IInv, DInv, NEW t \in Tasks, Alone(t), UNCHANGED <<users, now>>,
           drawn \subseteq drawn', Decided(t)'
    PROVE  DInv'
<1>1. ASSUME NEW u \in Tasks, u # t PROVE Decided(u)'
  BY <1>1 DEF DInv, Decided, Alone
<1> QED BY <1>1 DEF DInv

(* The call that has decided; the others do not work on a copy.            *)
LEMMA StepDecided ==
    ASSUME IInv, SInv, DInv, CallsApart, NEW t \in Tasks, Step(t)
    PROVE  DInv'
<1>t. /\ pc \in [Tasks -> {"idle", "verify", "read", "write", "answer", "token", "expiry"}]
      /\ call \in [Tasks -> Calls \cup {None}] /\ acct \in [Tasks -> Account \cup {None}]
      /\ stamp \in [Tasks -> Time] /\ now \in Nat /\ users \in Document
  BY DEF IInv, TypeOK, Time
<1>a. Alone(t)
  BY StepAlone
<1>v. ASSUME pc[t] = "verify"
      PROVE  /\ acct[t] \in Account /\ users[call[t].email] = acct[t]
             /\ call[t] \in [op : {"register", "login", "enable_mfa", "reject"}, email : Emails]
  BY <1>t, <1>v, CallFields DEF IInv, CallShape, SInv, Faithful
<1>q. ASSUME UNCHANGED <<users, now>>, drawn \subseteq drawn', pc'[t] \notin {"read", "write"}
      PROVE  DInv'
  BY <1>a, <1>q, OthersDecided DEF Decided
<1>r. ASSUME NEW o, Return(t, o), UNCHANGED <<users, now>>, drawn' = drawn PROVE DInv'
  <2>1. pc'[t] = "idle"
    BY <1>t, <1>r DEF Return, Forget
  <2> QED BY <1>q, <1>r, <2>1
<1>1. ASSUME NEW e \in Emails, NEW pw \in Passwords, Register(t, e, pw) PROVE DInv'
  <2>1. UNCHANGED <<users, now>> /\ drawn' = drawn
    BY <1>1 DEF Register
  <2>2. CASE Return(t, "DUPLICATE_USER")
    BY <1>r, <2>1, <2>2
  <2>3. CASE ~Return(t, "DUPLICATE_USER")
    <3>1. /\ call' = [call EXCEPT ![t] = [op |-> "register", email |-> e]]
          /\ acct' = [acct EXCEPT ![t] = NewAccount(pw)]
      BY <1>1, <2>3 DEF Register
    <3>2. call'[t].op = "register" /\ acct'[t] = NewAccount(pw)
      BY <1>t, <3>1
    <3>3. Decided(t)'
      BY <3>2 DEF Decided
    <3> QED BY <1>a, <2>1, <3>3, OthersDecided
  <2> QED BY <2>2, <2>3
<1>2. ASSUME NEW e \in Emails, NEW op \in {"login", "enable_mfa"}, ReadAccount(t, op, e)
      PROVE  DInv'
  <2>1. UNCHANGED <<users, now>> /\ drawn' = drawn
    BY <1>2 DEF ReadAccount
  <2>2. pc'[t] \notin {"read", "write"}
    BY <1>t, <1>2 DEF ReadAccount, Goto, Return, Forget
  <2> QED BY <1>q, <2>1, <2>2
<1>3. ASSUME NEW pw \in Passwords, NEW otp \in Otps, Reject(t, pw, otp) PROVE DInv'
  <2>1. /\ pc[t] = "verify" /\ ~IsLocked(acct[t], now) /\ UNCHANGED <<users, now, drawn>>
        /\ acct'[t] = Rejected(acct[t], now) /\ call'[t] = [call[t] EXCEPT !.op = "reject"]
    BY <1>3, <1>t DEF Reject
  <2>2. call'[t].email = call[t].email /\ call'[t].op = "reject"
    BY <1>v, <2>1
  <2>3. now \in 0 .. now
    BY <1>t
  <2>4. Decided(t)'
    BY <1>v, <2>1, <2>2, <2>3 DEF Decided
  <2> QED BY <1>a, <2>1, <2>4, OthersDecided
<1>4. ASSUME NEW pw \in Passwords, NEW otp \in Otps, AcceptLogin(t, pw, otp) PROVE DInv'
  <2>1. /\ pc[t] = "verify" /\ ~IsLocked(acct[t], now) /\ UNCHANGED <<users, now, drawn>>
        /\ acct'[t] = Authenticated(acct[t]) /\ stamp'[t] = now
        /\ call[t].op = "login" /\ call' = call
    BY <1>4, <1>t DEF AcceptLogin
  <2>2. Decided(t)'
    BY <1>v, <2>1 DEF Decided
  <2> QED BY <1>a, <2>1, <2>2, OthersDecided
<1>5. ASSUME NEW pw \in Passwords, AcceptEnrolment(t, pw) PROVE DInv'
  <2>1. PICK s \in Seeds \ drawn :
           /\ drawn' = drawn \cup {s}
           /\ acct' = [acct EXCEPT ![t] =
                [Authenticated(@) EXCEPT !.mfa = [seed |-> s, sealedUnder |-> pw]]]
    BY <1>5 DEF AcceptEnrolment
  <2>2. /\ pc[t] = "verify" /\ ~IsLocked(acct[t], now) /\ UNCHANGED <<users, now>>
        /\ call[t].op = "enable_mfa" /\ call' = call /\ acct[t].password = pw
    BY <1>5 DEF AcceptEnrolment
  <2>3. acct'[t] = Enrolled(acct[t], s)
    BY <1>t, <2>1, <2>2 DEF Enrolled
  <2>4. \A e \in Emails : ~HasSeed(users[e], s)
    BY <2>1 DEF DInv
  <2>5. now \in 0 .. now
    BY <1>t
  <2>6. Decided(t)'
    BY <1>v, <2>1, <2>2, <2>3, <2>4, <2>5 DEF Decided, HasSeed
  <2> QED BY <1>a, <2>1, <2>2, <2>6, OthersDecided
<1>6. CASE ReplaceRead(t)
  <2>1. UNCHANGED <<users, now, drawn>> /\ pc[t] = "read"
    BY <1>6 DEF ReplaceRead
  <2>2. CASE Return(t, "INVALID_INPUT")
    BY <1>r, <2>1, <2>2
  <2>3. CASE UNCHANGED <<call, acct, stamp>>
    <3>1. call[t].op # "register"
      BY <2>1 DEF IInv, CallShape
    <3>2. Decided(t)'
      BY <2>1, <2>3, <3>1 DEF DInv, Decided
    <3> QED BY <1>a, <2>1, <3>2, OthersDecided
  <2> QED BY <1>6, <2>2, <2>3 DEF ReplaceRead
<1>7. CASE Write(t) \/ Fault(t)
  <2>1. now' = now /\ drawn' = drawn /\ pc'[t] \notin {"read", "write"}
    BY <1>t, <1>7 DEF Write, Fault, Goto, Return, Forget
  <2>2. CASE users' = users
    BY <1>q, <2>1, <2>2
  <2>3. CASE pc[t] = "write" /\ users' = Stored(t)
    <3>1. ASSUME NEW u \in Tasks PROVE Decided(u)'
      <4>1. pc'[u] \notin {"read", "write"}
        BY <1>a, <2>1, <2>3 DEF CallsApart, Busy, Alone
      <4> QED BY <4>1 DEF Decided
    <3>2. ASSUME NEW e \in Emails, NEW s \in Seeds, HasSeed(users'[e], s) PROVE s \in drawn
      <4> DEFINE f == call[t].email
                 a == acct[t]
      <4>1. /\ f \in Emails /\ users'[f] = a /\ \A g \in Emails \ {f} : users'[g] = users[g]
            /\ call[t].op # "register" => users[f] # None
        BY <2>3, StoredFields DEF SInv, Faithful, IInv, CallShape
      <4>2. CASE e # f
        BY <3>2, <4>1, <4>2 DEF DInv
      <4>3. CASE e = f /\ call[t].op = "register"
        <5>1. PICK pw \in Passwords : a = NewAccount(pw)
          BY <2>3, <4>3 DEF DInv, Decided
        <5>2. a.mfa = None
          BY <5>1 DEF NewAccount
        <5> QED BY <3>2, <4>1, <4>3, <5>2 DEF HasSeed
      <4>4. CASE e = f /\ call[t].op # "register"
        <5>1. users[f] \in Account
          BY <1>t, <4>1, <4>4 DEF Document
        <5>2. CASE call[t].op = "reject"
          BY <2>3, <3>2, <4>1, <4>4, <5>1, <5>2, DecisionFields DEF DInv, Decided, HasSeed
        <5>3. CASE call[t].op = "login"
          <6>1. a = Authenticated(users[f])
            BY <2>3, <5>3 DEF DInv, Decided
          <6>2. a.mfa = users[f].mfa
            BY <1>t, <5>1, <6>1, DecisionFields
          <6>3. users[f] # None
            BY <4>1, <4>4
          <6> QED BY <3>2, <4>1, <4>4, <6>2, <6>3 DEF DInv, HasSeed
        <5>4. CASE call[t].op = "enable_mfa"
          <6>1. PICK r \in Seeds \cap drawn : a = Enrolled(users[f], r)
            BY <2>3, <5>4 DEF DInv, Decided
          <6>2. a.mfa = [seed |-> r, sealedUnder |-> users[f].password]
            BY <5>1, <6>1 DEF Enrolled, Authenticated, Account
          <6> QED BY <3>2, <4>1, <4>4, <6>2 DEF HasSeed
        <5> QED BY <2>3, <4>4, <5>2, <5>3, <5>4 DEF IInv, CallShape
      <4> QED BY <4>2, <4>3, <4>4
    <3> QED BY <2>1, <3>1, <3>2 DEF DInv
  <2> QED BY <1>7, <2>2, <2>3 DEF Write, Fault
<1>8. CASE IssueToken(t)
  <2>1. UNCHANGED <<users, now>> /\ drawn \subseteq drawn' /\ pc'[t] \notin {"read", "write"}
    BY <1>t, <1>8 DEF IssueToken, Return, Forget
  <2> QED BY <1>q, <2>1
<1>9. CASE Refuse(t) \/ Answer(t) \/ ValidateExpiry(t) \/ (\E pw \in Passwords : RefuseEnrolment(t, pw))
           \/ \E k \in Tokens : ValidateLookup(t, k)
  <2>1. UNCHANGED <<users, now>> /\ drawn' = drawn
    BY <1>9 DEF Refuse, Answer, ValidateExpiry, RefuseEnrolment, ValidateLookup
  <2>2. pc'[t] \notin {"read", "write"}
    BY <1>t, <1>9 DEF Refuse, Answer, ValidateExpiry, RefuseEnrolment, ValidateLookup,
                      Goto, Return, Forget
  <2> QED BY <1>q, <2>1, <2>2
<1> QED BY <1>1, <1>2, <1>3, <1>4, <1>5, <1>6, <1>7, <1>8, <1>9 DEF Step

(* While calls stay apart, what a call stores is what it made of the       *)
(* account as it still is.                                                 *)
LEMMA DecisionsInductive == Spec /\ []CallsApart => []DInv
<1>1. Init => DInv
  BY DEF Init, DInv, Decided, HasSeed
<1>2. IInv /\ SInv /\ DInv /\ CallsApart /\ [Next]_vars => DInv'
  <2> SUFFICES ASSUME IInv, SInv, DInv, CallsApart, [Next]_vars PROVE DInv'
    OBVIOUS
  <2>1. CASE UNCHANGED vars
    BY <2>1 DEF vars, DInv, Decided, HasSeed
  <2>2. CASE Tick
    <3>1. /\ now \in Nat /\ now' = now + 1
          /\ UNCHANGED <<users, pc, call, acct, stamp, drawn>>
      BY <2>2 DEF Tick, IInv, TypeOK, Time
    <3>2. 0 .. now \subseteq 0 .. now + 1
      BY <3>1
    <3> QED BY <3>1, <3>2 DEF DInv, Decided, HasSeed
  <2>3. ASSUME NEW p \in Procs, Restart(p) PROVE DInv'
    <3>1. UNCHANGED <<users, now, drawn>>
      BY <2>3 DEF Restart
    <3>2. ASSUME NEW u \in Tasks PROVE Decided(u)'
      <4>1. CASE Home[u] = p
        BY <2>3, <4>1 DEF Restart, Cleared, Decided
      <4>2. CASE Home[u] # p
        <5>1. pc'[u] = pc[u] /\ call'[u] = call[u] /\ acct'[u] = acct[u] /\ stamp'[u] = stamp[u]
          BY <2>3, <4>2 DEF Restart, Cleared
        <5> QED BY <3>1, <5>1 DEF DInv, Decided
      <4> QED BY <4>1, <4>2
    <3> QED BY <3>1, <3>2 DEF DInv
  <2> QED BY <2>1, <2>2, <2>3, StepDecided DEF Next
<1> QED BY <1>1, <1>2, Inductive, SerialInductive, PTL DEF Spec
-----------------------------------------------------------------------------
(* How the logins that have a session to open follow the steps of a task.  *)
LEMMA EnteredStays ==
    ASSUME NEW t \in Tasks, Alone(t), pc[t] # "token", pc'[t] # "token"
    PROVE  Entered' = Entered
BY DEF Entered, Alone

LEMMA EnteredLogin ==
    ASSUME NEW t \in Tasks, Alone(t), pc'[t] = "token",
           call'[t] = call[t], stamp'[t] = stamp[t]
    PROVE  Entered' = [Entered EXCEPT ![t] = [email |-> call[t].email, at |-> stamp[t]]]
BY DEF Entered, Alone

LEMMA EnteredLeaves ==
    ASSUME NEW t \in Tasks, Alone(t), pc'[t] # "token"
    PROVE  Entered' = [Entered EXCEPT ![t] = None]
BY DEF Entered, Alone

(* A document with the copy of a call in it is one change of one account,  *)
(* the one that the call decided on.                                       *)
LEMMA StoreIsOneStep ==
    ASSUME IInv, SInv, DInv, NEW t \in Tasks, pc[t] = "write", users' = Stored(t),
           UNCHANGED <<sessions, secrets, now>>,
           \/ Entered' = Entered
           \/ /\ call[t].op = "login"
              /\ Entered' = [Entered EXCEPT ![t] =
                    [email |-> call[t].email, at |-> stamp[t]]]
    PROVE  Abs!Next
<1> DEFINE f == call[t].email
           a == acct[t]
           u == users[f]
<1>1. /\ f \in Emails /\ users \in Document /\ now \in Nat /\ stamp[t] \in Nat
      /\ stamp[t] <= now
  BY StoredFields DEF IInv, TypeOK, CallShape, Time
<1>2. users' = [users EXCEPT ![f] = a]
  BY DEF Stored, SInv, Faithful
<1>3. call[t].op \in {"register", "login", "enable_mfa", "reject"}
  BY DEF IInv, CallShape
<1>4. call[t].op = "register" => u = None
  BY DEF SInv, Faithful
<1>5. call[t].op # "register" => u # None /\ u \in Account
  BY <1>1, StoredFields DEF SInv, Faithful, Document
<1>6. Decided(t)
  BY DEF DInv
<1>7. ASSUME u \in Account, NEW n \in Nat, ~IsLocked(u, n) PROVE Abs!Free(f, n)
  <2>1. u # None
    BY <1>7, NoneAssumption
  <2>2. u.locked # None => u.locked \in Nat /\ n >= u.locked
    BY <1>7 DEF IsLocked, Account, Time
  <2> QED BY <2>1, <2>2 DEF Abs!Free
<1>8. CASE call[t].op = "register"
  <2>1. PICK pw \in Passwords : a = NewAccount(pw)
    BY <1>6, <1>8 DEF Decided
  <2>2. Abs!Register(f)
    BY <1>2, <1>4, <1>8, <2>1 DEF Abs!Register, NewAccount
  <2> QED BY <1>1, <2>2 DEF Abs!Next
<1>9. CASE call[t].op = "reject"
  <2>1. PICK n \in 0 .. now : ~IsLocked(u, n) /\ a = Rejected(u, n)
    BY <1>6, <1>9 DEF Decided
  <2>2. Abs!Free(f, n) /\ n \in 0 .. now
    BY <1>1, <1>5, <1>7, <1>9, <2>1
  <2>3. a = Abs!Failed(u, n)
    BY <1>5, <1>9, <2>1 DEF Rejected, Abs!Failed, Account
  <2>4. Abs!Fail(f)
    BY <1>2, <1>9, <2>2, <2>3 DEF Abs!Fail
  <2> QED BY <1>1, <2>4 DEF Abs!Next
<1>10. CASE call[t].op = "login"
  <2>1. ~IsLocked(u, stamp[t]) /\ a = Authenticated(u)
    BY <1>6, <1>10 DEF Decided
  <2>2. Abs!Free(f, stamp[t]) /\ stamp[t] \in 0 .. now
    BY <1>1, <1>5, <1>7, <1>10, <2>1
  <2>3. a = Abs!Clear(u)
    BY <2>1 DEF Authenticated, Abs!Clear
  <2>4. Abs!Login(t, f)
    BY <1>2, <1>10, <2>2, <2>3 DEF Abs!Login
  <2> QED BY <1>1, <2>4 DEF Abs!Next
<1>11. CASE call[t].op = "enable_mfa"
  <2>1. PICK n \in 0 .. now : ~IsLocked(u, n)
    BY <1>6, <1>11 DEF Decided
  <2>2. Abs!Free(f, n) /\ n \in 0 .. now
    BY <1>1, <1>5, <1>7, <1>11, <2>1
  <2>3. PICK s \in Seeds \cap drawn :
           /\ \A e \in Emails : ~HasSeed(users[e], s)
           /\ a = Enrolled(u, s)
    BY <1>6, <1>11 DEF Decided
  <2>4. \A e \in Emails : users[e] # None /\ users[e].mfa # None => users[e].mfa.seed # s
    BY <2>3 DEF HasSeed
  <2>5. u.mfa = None
    BY <1>11 DEF SInv, Faithful
  <2>6. a = [Abs!Clear(u) EXCEPT !.mfa = [seed |-> s, sealedUnder |-> u.password]]
    BY <2>3 DEF Enrolled, Authenticated, Abs!Clear
  <2>7. secrets' = secrets /\ Entered' = Entered
    BY <1>11
  <2>8. users' = [users EXCEPT ![f] = [Abs!Clear(@) EXCEPT
            !.mfa = [seed |-> s, sealedUnder |-> users[f].password]]]
    BY <1>2, <2>6
  <2>9. Abs!Enrol(f)
    BY <2>2, <2>3, <2>4, <2>5, <2>7, <2>8 DEF Abs!Enrol
  <2> QED BY <1>1, <2>9 DEF Abs!Next
<1> QED BY <1>3, <1>8, <1>9, <1>10, <1>11

(* A seed is told that the account is checked against, if any is told.     *)
LEMMA AnswerIsOneStep ==
    ASSUME IInv, SInv, NEW t \in Tasks, Answer(t)
    PROVE  [Abs!Next]_(Abs!vars)
<1> DEFINE e == call[t].email
<1>1. /\ pc[t] = "answer" /\ pc'[t] = "idle" /\ Alone(t)
      /\ UNCHANGED <<users, sessions, now>>
  BY EndsFaithful, StepAlone DEF Answer, Step
<1>2. Entered' = Entered
  BY <1>1, EnteredStays
<1>3. CASE secrets' = secrets
  BY <1>1, <1>2, <1>3 DEF Abs!vars
<1>4. CASE /\ call[t].op = "enable_mfa"
           /\ secrets' = secrets \cup {[email |-> e, seed |-> acct[t].mfa.seed]}
  <2>1. e \in Emails /\ users[e] = acct[t] /\ acct[t] # None /\ acct[t].mfa # None
    BY <1>1, <1>4, CallFields DEF SInv, Faithful, IInv, CallShape
  <2>2. Abs!Tell(e)
    BY <1>1, <1>2, <1>4, <2>1 DEF Abs!Tell
  <2> QED BY <2>1, <2>2 DEF Abs!Next
<1> QED BY <1>3, <1>4 DEF Answer

(* A session opens for the login that has one to open, under a token that  *)
(* no process knows.                                                       *)
LEMMA IssueIsOneStep ==
    ASSUME IInv, SInv, TokensOnce, NEW t \in Tasks, IssueToken(t)
    PROVE  Abs!Next
<1>1. PICK k \in Tokens \ drawn :
         sessions' = [sessions EXCEPT ![Home[t]][k] =
             [email |-> call[t].email, expires |-> stamp[t] + SessionLifetime]]
  BY DEF IssueToken
<1>2. /\ pc[t] = "token" /\ UNCHANGED <<users, now, secrets>> /\ pc'[t] = "idle"
      /\ Alone(t)
  BY EndsFaithful, StepAlone DEF IssueToken, Step
<1>3. call[t].email \in Emails /\ stamp[t] \in Time
  BY <1>2, CallFields DEF IInv, TypeOK, CallShape
<1>4. Entered[t] = [email |-> call[t].email, at |-> stamp[t]]
  BY <1>2 DEF Entered
<1>5. Entered[t] # None
  BY <1>3, <1>4, EntryAssumption DEF Entry
<1>6. users[Entered[t].email] # None /\ users[Entered[t].email].locked = None
  BY <1>2, <1>4 DEF SInv, Faithful
<1>7. \A p \in Procs : sessions[p][k] = None
  BY <1>1 DEF TokensOnce
<1>8. Entered' = [Entered EXCEPT ![t] = None]
  BY <1>2, EnteredLeaves
<1>9. sessions' = [sessions EXCEPT ![Home[t]][k] =
          [email |-> Entered[t].email, expires |-> Entered[t].at + SessionLifetime]]
  BY <1>1, <1>4
<1>10. Abs!Open(t, k)
  BY <1>2, <1>5, <1>6, <1>7, <1>8, <1>9 DEF Abs!Open
<1> QED BY <1>1, <1>10 DEF Abs!Next

(* A session that is removed has ended: it is the one that was found.      *)
LEMMA ExpiryIsOneStep ==
    ASSUME IInv, TokensOnce, NEW t \in Tasks, ValidateExpiry(t)
    PROVE  [Abs!Next]_(Abs!vars)
<1> DEFINE k == call[t].token
           p == Home[t]
<1>1. /\ pc[t] = "expiry" /\ UNCHANGED <<users, now, secrets>> /\ Alone(t)
      /\ pc'[t] = "idle"
  BY EndsFaithful, StepAlone DEF ValidateExpiry, Step
<1>2. k \in Tokens /\ p \in Procs
  BY <1>1, CallFields, AuthAssumption DEF IInv, TypeOK, CallShape
<1>3. Entered' = Entered
  BY <1>1, EnteredStays
<1>4. CASE sessions' = sessions
  BY <1>1, <1>3, <1>4 DEF Abs!vars
<1>5. CASE /\ now >= stamp[t] /\ sessions[p][k] # None
           /\ sessions' = [sessions EXCEPT ![p][k] = None]
  <2>1. sessions[p][k].expires = stamp[t]
    BY <1>1, <1>5 DEF TokensOnce
  <2>2. Abs!Close(p, k)
    BY <1>1, <1>3, <1>5, <2>1 DEF Abs!Close
  <2> QED BY <1>2, <2>2 DEF Abs!Next
<1> QED BY <1>4, <1>5 DEF ValidateExpiry

(* Every step of a task is one of the accounts and sessions, or none.      *)
LEMMA StepIsOneStep ==
    ASSUME IInv, SInv, TokensOnce, DInv, NEW t \in Tasks, Step(t)
    PROVE  [Abs!Next]_(Abs!vars)
<1>t. /\ pc \in [Tasks -> {"idle", "verify", "read", "write", "answer", "token", "expiry"}]
  BY DEF IInv, TypeOK
<1>a. Alone(t)
  BY StepAlone
<1>n. ASSUME UNCHANGED <<users, sessions, secrets, now>>, pc[t] # "token", pc'[t] # "token"
      PROVE  [Abs!Next]_(Abs!vars)
  BY <1>a, <1>n, EnteredStays DEF Abs!vars
<1>r. ASSUME NEW o, Return(t, o) PROVE pc'[t] = "idle"
  BY <1>t, <1>r DEF Return, Forget
<1>1. ASSUME NEW e \in Emails, NEW pw \in Passwords, Register(t, e, pw)
      PROVE  [Abs!Next]_(Abs!vars)
  <2>1. pc'[t] # "token"
    BY <1>t, <1>r, <1>1 DEF Register, Goto
  <2> QED BY <1>n, <1>1, <2>1 DEF Register
<1>2. ASSUME NEW e \in Emails, NEW op \in {"login", "enable_mfa"}, ReadAccount(t, op, e)
      PROVE  [Abs!Next]_(Abs!vars)
  <2>1. pc'[t] # "token"
    BY <1>t, <1>r, <1>2 DEF ReadAccount, Goto
  <2> QED BY <1>n, <1>2, <2>1 DEF ReadAccount
<1>3. CASE Refuse(t) \/ \E pw \in Passwords : RefuseEnrolment(t, pw)
  <2>1. pc'[t] # "token"
    BY <1>r, <1>3 DEF Refuse, RefuseEnrolment
  <2> QED BY <1>n, <1>3, <2>1 DEF Refuse, RefuseEnrolment
<1>4. CASE \E pw \in Passwords : \/ AcceptEnrolment(t, pw)
                                 \/ \E otp \in Otps : \/ Reject(t, pw, otp)
                                                      \/ AcceptLogin(t, pw, otp)
  <2>1. pc'[t] # "token"
    BY <1>t, <1>4 DEF AcceptEnrolment, Reject, AcceptLogin, Goto
  <2> QED BY <1>n, <1>4, <2>1 DEF AcceptEnrolment, Reject, AcceptLogin
<1>5. CASE ReplaceRead(t)
  <2>1. pc'[t] # "token"
    BY <1>t, <1>r, <1>5 DEF ReplaceRead, Goto
  <2> QED BY <1>n, <1>5, <2>1 DEF ReplaceRead
<1>6. CASE Write(t)
  <2>1. /\ pc[t] = "write" /\ users' = Stored(t) /\ UNCHANGED <<sessions, secrets, now>>
        /\ UNCHANGED <<call, stamp>>
    BY <1>6 DEF Write
  <2>2. CASE call[t].op = "login"
    <3>1. pc'[t] = "token"
      BY <1>t, <1>6, <2>2 DEF Write, Goto
    <3>2. Entered' = [Entered EXCEPT ![t] = [email |-> call[t].email, at |-> stamp[t]]]
      BY <1>a, <2>1, <3>1, EnteredLogin
    <3> QED BY <2>1, <2>2, <3>2, StoreIsOneStep
  <2>3. CASE call[t].op # "login"
    <3>1. pc'[t] # "token"
      BY <1>t, <1>6, <2>3 DEF Write, Goto
    <3>2. Entered' = Entered
      BY <1>a, <2>1, <3>1, EnteredStays
    <3> QED BY <2>1, <3>2, StoreIsOneStep
  <2> QED BY <2>2, <2>3
<1>7. CASE Fault(t)
  <2>1. pc'[t] = "idle" /\ pc[t] # "token" /\ UNCHANGED <<sessions, now, secrets>>
    BY <1>r, <1>7 DEF Fault
  <2>2. CASE users' = users
    BY <1>n, <2>1, <2>2
  <2>3. CASE pc[t] = "write" /\ users' = Stored(t)
    <3>1. Entered' = Entered
      BY <1>a, <2>1, EnteredStays
    <3> QED BY <2>1, <2>3, <3>1, StoreIsOneStep
  <2> QED BY <1>7, <2>2, <2>3 DEF Fault
<1>8. ASSUME NEW k \in Tokens, ValidateLookup(t, k) PROVE [Abs!Next]_(Abs!vars)
  <2>1. pc'[t] # "token"
    BY <1>t, <1>r, <1>8 DEF ValidateLookup, Goto
  <2> QED BY <1>n, <1>8, <2>1 DEF ValidateLookup
<1>9. CASE IssueToken(t) \/ ValidateExpiry(t)
  BY <1>9, IssueIsOneStep, ExpiryIsOneStep
<1>10. CASE Answer(t)
  BY <1>10, AnswerIsOneStep
<1> QED BY <1>1, <1>2, <1>3, <1>4, <1>5, <1>6, <1>7, <1>8, <1>9, <1>10 DEF Step

(* While calls that work on an account do not overlap, each registration,  *)
(* failure, login and enrolment takes effect at one moment, as a whole or  *)
(* not at all, on the account as it is at that moment, and each session    *)
(* opens once and ends at its time or with its process; for any processes, *)
(* threads, accounts, seeds, tokens and limits (service.py:45-189,         *)
(* repository.py:148-176).                                                 *)
THEOREM Implements == Spec /\ []CallsApart => Refinement
<1>1. Init => Abs!Init
  BY DEF Init, Abs!Init, Entered
<1>2. IInv /\ SInv /\ TokensOnce /\ DInv /\ [Next]_vars => [Abs!Next]_(Abs!vars)
  <2> SUFFICES ASSUME IInv, SInv, TokensOnce, DInv, [Next]_vars
               PROVE  [Abs!Next]_(Abs!vars)
    OBVIOUS
  <2>1. CASE UNCHANGED vars
    BY <2>1 DEF vars, Abs!vars, Entered
  <2>2. CASE Tick
    BY <2>2 DEF Tick, Abs!Next, Abs!Tick, Entered
  <2>3. ASSUME NEW p \in Procs, Restart(p) PROVE [Abs!Next]_(Abs!vars)
    <3>1. Entered' = [t \in Tasks |-> IF Home[t] = p THEN None ELSE Entered[t]]
      BY <2>3 DEF Restart, Cleared, Entered
    <3>2. Abs!Restart(p)
      BY <2>3, <3>1 DEF Restart, Abs!Restart
    <3> QED BY <3>2 DEF Abs!Next
  <2> QED BY <2>1, <2>2, <2>3, StepIsOneStep DEF Next
<1>3. Spec /\ []CallsApart => [][Abs!Next]_(Abs!vars)
  BY <1>2, Inductive, SerialInductive, TokensInductive, DecisionsInductive, PTL DEF Spec
<1> QED BY <1>1, <1>3, PTL DEF Spec, Refinement, Abs!Spec
=============================================================================
