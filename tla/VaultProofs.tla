---------------------------- MODULE VaultProofs ----------------------------
(***************************************************************************)
(* Proofs about Vault for every set of processes, tasks, passphrases,      *)
(* Shamir configurations and draws.                                        *)
(***************************************************************************)
EXTENDS Vault, TLAPS

(* What a call in progress knows about the file: the credential it was     *)
(* given is there, the envelope it read is still the one on disk, and      *)
(* after the link the file holds the envelope the call constructed.        *)
CallsAgree ==
    \A t \in Tasks :
        /\ pc[t] \in {"check", "link", "sync"} => sealing[t] # None
        /\ pc[t] \in {"read", "unwrap"} => cred[t] # None
        /\ pc[t] = "unwrap" => seen[t] # None
        /\ pc[t] = "sync" => meta = sealing[t]
        /\ seen[t] # None => meta = seen[t]

IInv == TypeOK /\ CallsAgree /\ DekIsPersisted /\ AckedIsPersisted

(* Every envelope carries a draw, and what an acceptable request asks for  *)
(* makes an envelope.                                                      *)
LEMMA EnvelopeFields ==
    /\ \A m \in Envelopes : m.dek \in Draws
    /\ \A r \in Requests, d \in Draws : Acceptable(r) =>
          [mode |-> r.mode, key |-> r.key, dek |-> d] \in Envelopes
<1>1. \A m \in Envelopes : m.dek \in Draws
  BY DEF Envelopes, PassphraseEnvelopes, ShamirEnvelopes
<1>2. ASSUME NEW r \in Requests, NEW d \in Draws, Acceptable(r)
      PROVE  [mode |-> r.mode, key |-> r.key, dek |-> d] \in Envelopes
  <2>1. CASE r.mode = "kdf"
    <3>1. r.key \in Strong
      BY <1>2, <2>1 DEF Acceptable
    <3> QED BY <2>1, <3>1 DEF Envelopes, PassphraseEnvelopes
  <2>2. CASE r.mode = "shamir"
    <3>1. r.key \in Configs /\ ValidConfig(r.key)
      BY <1>2, <2>2 DEF Acceptable, Requests
    <3> QED BY <2>2, <3>1 DEF Envelopes, ShamirEnvelopes
  <2> QED BY <1>2, <2>1, <2>2 DEF Acceptable
<1> QED BY <1>1, <1>2

(* The initial state satisfies the inductive invariant.                    *)
LEMMA InitInv == Init => IInv
BY VaultAssumption, NoneAssumption
   DEF Init, IInv, TypeOK, CallsAgree, DekIsPersisted, AckedIsPersisted, Outcomes

(* A call that ends forgets what it knew, so it disturbs only its outcome. *)
LEMMA ReturnInv ==
    ASSUME IInv, NEW t \in Tasks, NEW o \in Outcomes, Return(t, o)
    PROVE  /\ pc' \in [Tasks -> {"idle", "check", "link", "sync", "read", "unwrap"}]
           /\ sealing' \in [Tasks -> Envelopes \cup {None}]
           /\ cred' \in [Tasks -> Credentials \cup {None}]
           /\ seen' \in [Tasks -> Envelopes \cup {None}]
           /\ last' \in [Tasks -> Outcomes]
           /\ meta' = meta => CallsAgree'
<1>1. TypeOK /\ CallsAgree
  BY DEF IInv
<1>2. /\ pc'[t] = "idle" /\ seen'[t] = None
      /\ \A u \in Tasks \ {t} : /\ pc'[u] = pc[u] /\ sealing'[u] = sealing[u]
                                /\ cred'[u] = cred[u] /\ seen'[u] = seen[u]
  BY <1>1 DEF TypeOK, Return
<1>3. meta' = meta => CallsAgree'
  BY <1>1, <1>2 DEF CallsAgree
<1> QED BY <1>1, <1>3 DEF TypeOK, Return

(* Every step of initialize and initialize_shamir preserves the invariant. *)
LEMMA InitializeInv ==
    ASSUME IInv, NEW t \in Tasks, Initialize(t)
    PROVE  IInv'
<1> USE DEF IInv
<1>h. Home[t] \in Procs
  BY VaultAssumption
<1>1. ASSUME NEW r \in Requests, InitRefused(t, r) PROVE IInv'
  BY <1>1, ReturnInv DEF InitRefused, Outcomes, TypeOK, DekIsPersisted, AckedIsPersisted
<1>2. ASSUME NEW r \in Requests, InitBegin(t, r) PROVE IInv'
  <2>1. PICK d \in Draws \ drawn :
           /\ drawn' = drawn \cup {d}
           /\ sealing' = [sealing EXCEPT
                             ![t] = [mode |-> r.mode, key |-> r.key, dek |-> d]]
    BY <1>2 DEF InitBegin
  <2>2. [mode |-> r.mode, key |-> r.key, dek |-> d] \in Envelopes
    BY <1>2, EnvelopeFields DEF InitBegin
  <2>3. TypeOK'
    BY <1>2, <2>1, <2>2 DEF InitBegin, TypeOK, Outcomes
  <2>4. CallsAgree'
    BY <1>2, <2>1, <2>2, NoneAssumption DEF InitBegin, TypeOK, CallsAgree
  <2> QED BY <1>2, <2>3, <2>4 DEF InitBegin, DekIsPersisted, AckedIsPersisted
<1>3. CASE CreateCheck(t)
  BY <1>3 DEF CreateCheck, TypeOK, CallsAgree, DekIsPersisted, AckedIsPersisted
<1>4. CASE CreateLink(t)
  <2>1. sealing[t] \in Envelopes /\ sealing[t] # None
    BY <1>4, NoneAssumption DEF CreateLink, TypeOK, CallsAgree
  <2>2. TypeOK'
    BY <1>4, <2>1 DEF CreateLink, TypeOK
  <2>3. CallsAgree'
    BY <1>4, <2>1 DEF CreateLink, TypeOK, CallsAgree
  <2>4. \A p \in Procs : dek[p] = None
    BY <1>4 DEF CreateLink, DekIsPersisted
  <2>5. acked = {}
    BY <1>4, NoneAssumption DEF CreateLink, TypeOK, AckedIsPersisted
  <2> QED BY <1>4, <2>2, <2>3, <2>4, <2>5
          DEF CreateLink, DekIsPersisted, AckedIsPersisted
<1>5. CASE CreateLost(t)
  BY <1>5, <1>h, ReturnInv
     DEF CreateLost, SetDek, Outcomes, TypeOK, DekIsPersisted, AckedIsPersisted
<1>6. CASE CreateFault(t)
  BY <1>6, <1>h, ReturnInv
     DEF CreateFault, SetDek, Outcomes, TypeOK, DekIsPersisted, AckedIsPersisted
<1>7. CASE InitDone(t)
  <2>1. sealing[t] = meta /\ sealing[t] \in Envelopes
    BY <1>7, NoneAssumption DEF InitDone, TypeOK, CallsAgree
  <2> QED BY <1>7, <2>1, <1>h, ReturnInv
          DEF InitDone, SetDek, Outcomes, TypeOK, DekIsPersisted, AckedIsPersisted
<1> QED BY <1>1, <1>2, <1>3, <1>4, <1>5, <1>6, <1>7 DEF Initialize

(* Every step of unlock and unlock_with_shares preserves the invariant.    *)
LEMMA UnlockInv ==
    ASSUME IInv, NEW t \in Tasks, Unlock(t)
    PROVE  IInv'
<1> USE DEF IInv
<1>h. Home[t] \in Procs
  BY VaultAssumption
<1>1. ASSUME NEW c \in Credentials, UnlockBegin(t, c) PROVE IInv'
  <2>1. TypeOK' /\ CallsAgree'
    BY <1>1, <1>h, NoneAssumption DEF UnlockBegin, SetDek, TypeOK, CallsAgree, Outcomes
  <2> QED BY <1>1, <2>1, <1>h
          DEF UnlockBegin, SetDek, TypeOK, DekIsPersisted, AckedIsPersisted
<1>2. CASE UnlockRead(t)
  BY <1>2 DEF UnlockRead, TypeOK, CallsAgree, DekIsPersisted, AckedIsPersisted
<1>3. CASE UnlockDone(t)
  <2>1. seen[t] = meta /\ meta # None /\ meta.dek \in Draws
    BY <1>3, EnvelopeFields DEF UnlockDone, TypeOK, CallsAgree
  <2> QED BY <1>3, <2>1, <1>h, ReturnInv
          DEF UnlockDone, SetDek, Outcomes, TypeOK, DekIsPersisted, AckedIsPersisted
<1>4. CASE UnlockFail(t)
  BY <1>4, <1>h, ReturnInv
     DEF UnlockFail, SetDek, Outcomes, TypeOK, DekIsPersisted, AckedIsPersisted
<1> QED BY <1>1, <1>2, <1>3, <1>4 DEF Unlock

(* A restart loses only memory.                                            *)
LEMMA RestartInv ==
    ASSUME IInv, NEW p \in Procs, Restart(p)
    PROVE  IInv'
BY VaultAssumption
   DEF IInv, Restart, Cleared, TypeOK, CallsAgree, DekIsPersisted,
       AckedIsPersisted, Outcomes

(* The strengthened invariant holds in every reachable state.              *)
THEOREM Inductive == Spec => []IInv
<1>1. ASSUME IInv, [Next]_vars PROVE IInv'
  <2>1. CASE UNCHANGED vars
    BY <1>1, <2>1
       DEF vars, IInv, TypeOK, CallsAgree, DekIsPersisted, AckedIsPersisted
  <2> QED BY <1>1, <2>1, InitializeInv, UnlockInv, RestartInv DEF Next
<1> QED BY <1>1, InitInv, PTL DEF Spec

(* The state of the vault is well typed (vault.py:41-192).                 *)
THEOREM TypeCorrect == Spec => []TypeOK
<1>1. IInv => TypeOK
  BY DEF IInv
<1> QED BY <1>1, Inductive, PTL

(* An unlocked process holds the DEK of the envelope on disk, whatever     *)
(* initializations, unlocks and restarts raced (vault.py:51-107).          *)
THEOREM DekSafe == Spec => []DekIsPersisted
<1>1. IInv => DekIsPersisted
  BY DEF IInv
<1> QED BY <1>1, Inductive, PTL

(* An initialization reported as done is the one on disk: at most one of   *)
(* any number of racing initializations succeeds (repository.py:98-140).   *)
THEOREM AckedSafe == Spec => []AckedIsPersisted
<1>1. IInv => AckedIsPersisted
  BY DEF IInv
<1> QED BY <1>1, Inductive, PTL

(* Vault implements the abstract vault: one envelope ever, and every       *)
(* change of a process's DEK is a lock or an unlock with that envelope.    *)
THEOREM Implements == Spec => Refinement
<1>1. Init => Abs!Init
  BY DEF Init, Abs!Init
<1>2. ASSUME IInv, [Next]_vars PROVE [Abs!Next]_(Abs!vars)
  <2> USE <1>2 DEF Abs!vars
  <2>1. CASE UNCHANGED vars
    BY <2>1 DEF vars
  <2>2. ASSUME NEW t \in Tasks, Initialize(t) PROVE [Abs!Next]_(Abs!vars)
    <3>h. Home[t] \in Procs
      BY VaultAssumption
    <3>1. ASSUME NEW r \in Requests, InitRefused(t, r) \/ InitBegin(t, r)
          PROVE  UNCHANGED Abs!vars
      BY <3>1 DEF InitRefused, InitBegin
    <3>2. CASE CreateCheck(t)
      BY <3>2 DEF CreateCheck
    <3>3. CASE CreateLink(t)
      <4>1. meta' \in Envelopes /\ meta = None /\ dek' = dek
        BY <3>3 DEF CreateLink, IInv, TypeOK, CallsAgree
      <4> QED BY <4>1 DEF Abs!Next, Abs!Seal
    <3>4. CASE CreateLost(t) \/ CreateFault(t) \/ InitDone(t)
      <4>1. Abs!Lock(Home[t])
        BY <3>4 DEF CreateLost, CreateFault, InitDone, SetDek, Abs!Lock
      <4> QED BY <4>1, <3>h DEF Abs!Next
    <3> QED BY <2>2, <3>1, <3>2, <3>3, <3>4 DEF Initialize
  <2>3. ASSUME NEW t \in Tasks, Unlock(t) PROVE [Abs!Next]_(Abs!vars)
    <3>h. Home[t] \in Procs
      BY VaultAssumption
    <3>1. ASSUME NEW c \in Credentials, UnlockBegin(t, c)
          PROVE  Abs!Lock(Home[t])
      BY <3>1 DEF UnlockBegin, SetDek, Abs!Lock
    <3>2. CASE UnlockRead(t)
      BY <3>2 DEF UnlockRead
    <3>3. CASE UnlockDone(t)
      <4>1. seen[t] = meta /\ meta # None
        BY <3>3 DEF UnlockDone, IInv, TypeOK, CallsAgree
      <4>2. Abs!Open(Home[t])
        BY <3>3, <4>1 DEF UnlockDone, SetDek, Abs!Open
      <4> QED BY <4>2, <3>h DEF Abs!Next
    <3>4. CASE UnlockFail(t)
      <4>1. Abs!Lock(Home[t])
        BY <3>4 DEF UnlockFail, SetDek, Abs!Lock
      <4> QED BY <4>1, <3>h DEF Abs!Next
    <3> QED BY <2>3, <3>h, <3>1, <3>2, <3>3, <3>4 DEF Unlock, Abs!Next
  <2>4. ASSUME NEW p \in Procs, Restart(p) PROVE [Abs!Next]_(Abs!vars)
    BY <2>4 DEF Restart, Abs!Next, Abs!Lock
  <2> QED BY <2>1, <2>2, <2>3, <2>4 DEF Next
<1> QED BY <1>1, <1>2, Inductive, PTL DEF Spec, Refinement, Abs!Spec

(* What a call does to the DEK and to the outcomes: it leaves the DEK of   *)
(* its process alone, drops it, or opens the envelope on disk; and of the  *)
(* outcomes it sets its own, which tells which.                            *)
LEMMA CallEffect ==
    ASSUME IInv, NEW t \in Tasks, Initialize(t) \/ Unlock(t)
    PROVE  /\ \A q \in Procs \ {Home[t]} : dek'[q] = dek[q]
           /\ \A u \in Tasks \ {t} : last'[u] = last[u]
           /\ \/ /\ dek'[Home[t]] = dek[Home[t]]
                 /\ \/ last'[t] = last[t]
                    \/ last'[t] \in {"none", "ALREADY_INITIALIZED", "INVALID_INPUT"}
              \/ dek'[Home[t]] = None /\ last'[t] # "unlocked"
              \/ UnlockDone(t) /\ dek'[Home[t]] = seen[t].dek /\ last'[t] = "unlocked"
<1>t. /\ dek \in [Procs -> Draws \cup {None}] /\ last \in [Tasks -> Outcomes]
      /\ Home[t] \in Procs
  BY VaultAssumption DEF IInv, TypeOK
<1>1. ASSUME NEW r \in Requests, InitRefused(t, r) \/ InitBegin(t, r)
      PROVE  /\ dek' = dek /\ \A u \in Tasks \ {t} : last'[u] = last[u]
             /\ last'[t] \in {"none", "ALREADY_INITIALIZED", "INVALID_INPUT"}
  BY <1>1, <1>t DEF InitRefused, InitBegin, Return
<1>2. CASE CreateCheck(t) \/ CreateLink(t) \/ UnlockRead(t)
  BY <1>2 DEF CreateCheck, CreateLink, UnlockRead
<1>3. CASE CreateLost(t) \/ CreateFault(t) \/ InitDone(t) \/ UnlockFail(t)
  BY <1>3, <1>t DEF CreateLost, CreateFault, InitDone, UnlockFail, Return, SetDek
<1>4. ASSUME NEW c \in Credentials, UnlockBegin(t, c)
      PROVE  /\ \A q \in Procs \ {Home[t]} : dek'[q] = dek[q]
             /\ \A u \in Tasks \ {t} : last'[u] = last[u]
             /\ dek'[Home[t]] = None /\ last'[t] = "none"
  BY <1>4, <1>t DEF UnlockBegin, SetDek
<1>5. CASE UnlockDone(t)
  BY <1>5, <1>t DEF UnlockDone, Return, SetDek
<1> QED BY <1>t, <1>1, <1>2, <1>3, <1>4, <1>5 DEF Initialize, Unlock

(* Shares that were handed out once stay so: what was presented when a     *)
(* call began may be presented as long as it runs.                         *)
CredentialsPresented == \A t \in Tasks : cred[t] # None => CanPresent(cred[t])

(* Every step keeps it that an unlock has presented credentials.           *)
LEMMA PresentedInv ==
    ASSUME IInv, CredentialsPresented, [Next]_vars
    PROVE  CredentialsPresented'
<1>1. acked \subseteq acked'
  BY DEF Next, Initialize, Unlock, Restart, InitRefused, InitBegin, CreateCheck, CreateLink,
         CreateLost, CreateFault, InitDone, UnlockBegin, UnlockRead, UnlockDone, UnlockFail,
         vars
<1>2. ASSUME NEW u \in Tasks, cred'[u] # None PROVE cred'[u] = cred[u] \/ CanPresent(cred'[u])
  <2>t. cred \in [Tasks -> Credentials \cup {None}]
    BY DEF IInv, TypeOK
  <2>1. ASSUME NEW t \in Tasks, NEW o, Return(t, o) PROVE cred'[u] = cred[u]
    BY <1>2, <2>t, <2>1 DEF Return
  <2>2. ASSUME NEW t \in Tasks, NEW c \in Credentials, UnlockBegin(t, c)
        PROVE  cred'[u] = cred[u] \/ CanPresent(cred'[u])
    <3>1. CanPresent(c) /\ cred' = [cred EXCEPT ![t] = c]
      BY <2>2 DEF UnlockBegin
    <3>2. cred'[u] = cred[u] \/ cred'[u] = c
      BY <2>t, <3>1
    <3> QED BY <3>1, <3>2
  <2>3. ASSUME NEW t \in Tasks, Initialize(t) PROVE cred'[u] = cred[u]
    BY <2>1, <2>3 DEF Initialize, InitRefused, InitBegin, CreateCheck, CreateLink,
       CreateLost, CreateFault, InitDone
  <2>4. ASSUME NEW t \in Tasks, Unlock(t) PROVE cred'[u] = cred[u] \/ CanPresent(cred'[u])
    BY <2>1, <2>2, <2>4 DEF Unlock, UnlockRead, UnlockDone, UnlockFail
  <2>5. ASSUME NEW p \in Procs, Restart(p) PROVE cred'[u] = cred[u]
    BY <1>2, <2>5 DEF Restart, Cleared
  <2>6. CASE UNCHANGED vars
    BY <2>6 DEF vars
  <2> QED BY <2>3, <2>4, <2>5, <2>6 DEF Next
<1>3. ASSUME NEW u \in Tasks, cred'[u] # None PROVE CanPresent(cred[u])'
  <2>1. cred'[u] = cred[u] \/ CanPresent(cred'[u])
    BY <1>2, <1>3
  <2>2. CASE CanPresent(cred'[u])
    BY <1>1, <2>2 DEF CanPresent, HandedOut
  <2>3. CASE cred'[u] = cred[u]
    <3>1. CanPresent(cred[u])
      BY <1>3, <2>3 DEF CredentialsPresented
    <3> QED BY <1>1, <2>3, <3>1 DEF CanPresent, HandedOut
  <2> QED BY <2>1, <2>2, <2>3
<1> QED BY <1>3 DEF CredentialsPresented

(* A process becomes unlocked only by a call that was given a credential   *)
(* that opens the envelope on disk, made only of shares that operators had *)
(* been handed when it began (vault.py:80-107, 151-175).                   *)
THEOREM UnlocksAreEarned == Spec => OpenedByCredential
<1>1. Init => CredentialsPresented
  BY DEF Init, CredentialsPresented
<1>2. IInv /\ CredentialsPresented /\ [Next]_vars => CredentialsPresented'
  BY PresentedInv
<1>3. ASSUME IInv, CredentialsPresented, [Next]_vars,
             NEW p \in Procs, dek[p] = None, dek'[p] # None
      PROVE  \E t \in Tasks : /\ Home[t] = p
                              /\ cred[t] # None
                              /\ CanPresent(cred[t])
                              /\ meta # None
                              /\ Opens(cred[t], meta)
  <2>1. ASSUME NEW q \in Procs, Restart(q) PROVE FALSE
    BY <1>3, <2>1 DEF Restart, IInv, TypeOK
  <2>2. ~UNCHANGED vars
    BY <1>3 DEF vars
  <2>3. PICK t \in Tasks : Initialize(t) \/ Unlock(t)
    BY <1>3, <2>1, <2>2 DEF Next
  <2>4. UnlockDone(t) /\ Home[t] = p
    BY <1>3, <2>3, CallEffect
  <2>5. /\ pc[t] = "unwrap" /\ Opens(cred[t], seen[t])
        /\ cred[t] # None /\ seen[t] # None /\ meta = seen[t]
    BY <1>3, <2>4 DEF UnlockDone, IInv, CallsAgree
  <2> QED BY <1>3, <2>4, <2>5 DEF CredentialsPresented
<1>4. IInv /\ CredentialsPresented /\ [Next]_vars =>
         \A p \in Procs : dek[p] = None /\ dek'[p] # None =>
            \E t \in Tasks : /\ Home[t] = p
                             /\ cred[t] # None
                             /\ CanPresent(cred[t])
                             /\ meta # None
                             /\ Opens(cred[t], meta)
  BY <1>3
<1> QED BY <1>1, <1>2, <1>4, Inductive, PTL DEF Spec, OpenedByCredential

(* In a process with one caller the vault stays as the last call reported  *)
(* it: nobody else locks or unlocks it (vault.py:51-175).                  *)
THEOREM ReportsHold == Spec => []ReportedStateHolds
<1>1. Init => ReportedStateHolds
  BY VaultAssumption DEF Init, ReportedStateHolds
<1>2. ASSUME IInv, ReportedStateHolds, [Next]_vars PROVE ReportedStateHolds'
  <2> DEFINE Holds(u) == /\ last[u] = "unlocked" => dek[Home[u]] # None
                         /\ last[u] \in {"UNLOCK_FAILED", "initialized"} =>
                               dek[Home[u]] = None
  <2>s. SUFFICES ASSUME NEW u \in Tasks, Alone(u) PROVE Holds(u)'
    BY DEF ReportedStateHolds, Alone
  <2>0. Holds(u)
    BY <1>2, <2>s DEF ReportedStateHolds
  <2>h. Home[u] \in Procs
    BY VaultAssumption
  <2>1. ASSUME NEW t \in Tasks, Initialize(t) \/ Unlock(t) PROVE Holds(u)'
    <3>1. CASE t = u
      <4>1. CASE UnlockDone(t)
        <5>1. seen[t] # None /\ seen[t] \in Envelopes
          BY <1>2, <4>1 DEF UnlockDone, IInv, TypeOK, CallsAgree
        <5>2. seen[t].dek # None
          BY <5>1, EnvelopeFields, VaultAssumption
        <5>3. dek'[Home[t]] = seen[t].dek /\ last'[t] = "unlocked"
          BY <1>2, <4>1, <2>h, <3>1 DEF UnlockDone, SetDek, Return, IInv, TypeOK
        <5> QED BY <3>1, <5>2, <5>3
      <4>2. CASE ~UnlockDone(t)
        BY <1>2, <2>0, <2>1, <3>1, <4>2, CallEffect
      <4> QED BY <4>1, <4>2
    <3>2. CASE t # u
      <4>1. Home[t] # Home[u]
        BY <2>s, <3>2 DEF Alone
      <4>2. dek'[Home[u]] = dek[Home[u]] /\ last'[u] = last[u]
        BY <1>2, <2>1, <2>h, <3>2, <4>1, CallEffect
      <4> QED BY <2>0, <4>2
    <3> QED BY <3>1, <3>2
  <2>2. ASSUME NEW p \in Procs, Restart(p) PROVE Holds(u)'
    BY <1>2, <2>0, <2>2, <2>h DEF Restart, Cleared, IInv, TypeOK
  <2>3. CASE UNCHANGED vars
    BY <2>0, <2>3 DEF vars
  <2> QED BY <1>2, <2>1, <2>2, <2>3 DEF Next
<1>3. IInv /\ ReportedStateHolds /\ [Next]_vars => ReportedStateHolds'
  BY <1>2
<1> QED BY <1>1, <1>3, Inductive, PTL DEF Spec
=============================================================================
