--------------------------- MODULE TransitProofs ---------------------------
(***************************************************************************)
(* Proofs about Transit for every set of tasks, users, keys, owners and    *)
(* materials.                                                              *)
(***************************************************************************)
EXTENDS Transit, TLAPS

(* What a call carries from step to step: an idle task nothing; a call     *)
(* about to replace a document, the document; and the record to be stored  *)
(* belongs to a creation or a rotation.                                    *)
CallsAgree ==
    \A t \in Tasks :
        /\ pc[t] = "idle" <=> call[t] = None
        /\ rec[t] # None =>
              call[t] # None /\ call[t].op \in {"create_key", "rotate_key"}
        /\ kdoc[t] # None => call[t] # None
        /\ pdoc[t] # None => call[t] # None
        /\ pc[t] = "storeKey" =>
              /\ kdoc[t] # None
              /\ call[t].op \in {"create_key", "rotate_key", "revoke_key"}
        /\ pc[t] = "replaceKey" => call[t].op = "rotate_key"
        /\ pc[t] = "dropAcl" => call[t].op = "revoke_key"
        /\ pc[t] = "change" =>
              call[t].op \in {"grant_key_access", "revoke_key_access"}
        /\ pc[t] = "storeAcl" =>
              /\ pdoc[t] # None
              /\ call[t].op \in {"revoke_key", "grant_key_access",
                                 "revoke_key_access"}
        /\ pc[t] = "use" => call[t].op = "use"

TInv == TypeOK /\ CallsAgree

Labels == {"idle", "storeKey", "replaceKey", "dropAcl", "change", "storeAcl",
           "use"}

(* The variables that hold the calls in progress. *)
LocalType ==
    /\ pc \in [Tasks -> Labels]
    /\ call \in [Tasks -> Call \cup {None}]
    /\ rec \in [Tasks -> Record \cup {None}]
    /\ kdoc \in [Tasks -> KeyDoc \cup {None}]
    /\ pdoc \in [Tasks -> PolicyDoc \cup {None}]
    /\ last \in [Tasks -> Outcomes]

(* After a step, the types of the calls and of the documents are the whole *)
(* type invariant.                                                         *)
LEMMA TypeJoin ==
    /\ LocalType'
    /\ keys' \in KeyDoc /\ policies' \in PolicyDoc
    /\ drawn' \in SUBSET Materials /\ issued' \in SUBSET Ciphertext
    /\ entitled' \in PolicyDoc /\ halfway' \in SUBSET Keys
    => TypeOK'
BY DEF TypeOK, LocalType, Labels

(* The fields that a call has, by its operation.                           *)
LEMMA CallFields ==
    ASSUME NEW c \in Call
    PROVE  /\ c.key \in Keys /\ c # None
           /\ c.op \in {"create_key", "rotate_key", "revoke_key",
                        "grant_key_access", "revoke_key_access", "use"}
           /\ c.op \in {"grant_key_access", "revoke_key_access"} =>
                 c.to \in Users /\ c.perms \in SUBSET Permissions
           /\ c.op = "use" => c.by \in Users /\ c.perm \in Permissions
BY NoneAssumption DEF Call

(* A call that ends leaves nothing behind but its outcome.                 *)
LEMMA ReturnInv ==
    ASSUME TInv, NEW t \in Tasks, NEW o \in Outcomes, Return(t, o)
    PROVE  LocalType' /\ CallsAgree'
<1>1. LocalType'
  BY DEF TInv, TypeOK, LocalType, Labels, Return
<1>2. CallsAgree'
  BY DEF TInv, TypeOK, CallsAgree, Return
<1> QED BY <1>1, <1>2

(* A call that ends and changes no document keeps every type.              *)
LEMMA RefusalType ==
    ASSUME TInv, NEW t \in Tasks, NEW o \in Outcomes, Return(t, o),
           UNCHANGED <<keys, policies, issued, entitled>>,
           drawn' \in SUBSET Materials, halfway' \in SUBSET Keys
    PROVE  TInv'
<1>1. LocalType' /\ CallsAgree'
  BY ReturnInv
<1>2. TypeOK'
  BY <1>1, TypeJoin DEF TInv, TypeOK
<1> QED BY <1>1, <1>2 DEF TInv

(* Writing the key document keeps the types of both documents.             *)
LEMMA KeyStoredType ==
    ASSUME TInv, NEW t \in Tasks, pc[t] = "storeKey", KeyStored(t)
    PROVE  /\ keys' \in KeyDoc /\ issued' \in SUBSET Ciphertext
           /\ entitled' \in PolicyDoc /\ halfway' \in SUBSET Keys
           /\ policies' \in PolicyDoc
<1>1. kdoc[t] \in KeyDoc /\ rec[t] \in Record \cup {None} /\ call[t] \in Call
  BY DEF TInv, TypeOK, CallsAgree
<1>2. call[t].key \in Keys
  BY <1>1, CallFields
<1>3. keys' \in KeyDoc
  BY <1>1, <1>2 DEF KeyStored, KeyDoc
<1>4. entitled' \in PolicyDoc
  BY <1>2 DEF KeyStored, TInv, TypeOK, PolicyDoc, NoGrants
<1> QED BY <1>2, <1>3, <1>4 DEF KeyStored, TInv, TypeOK

(* And so does writing the policy document.                                *)
LEMMA AclStoredType ==
    ASSUME TInv, NEW t \in Tasks, pc[t] = "storeAcl", AclStored(t)
    PROVE  /\ keys' \in KeyDoc /\ issued' \in SUBSET Ciphertext
           /\ entitled' \in PolicyDoc /\ halfway' \in SUBSET Keys
           /\ policies' \in PolicyDoc
<1>1. pdoc[t] \in PolicyDoc /\ call[t] \in Call
  BY DEF TInv, TypeOK, CallsAgree
<1>2. entitled' \in PolicyDoc
  <2>1. CASE call[t].op = "grant_key_access"
    BY <1>1, <2>1, CallFields DEF AclStored, TInv, TypeOK, PolicyDoc
  <2>2. CASE call[t].op = "revoke_key_access"
    BY <1>1, <2>2, CallFields DEF AclStored, TInv, TypeOK, PolicyDoc
  <2>3. CASE call[t].op \notin {"grant_key_access", "revoke_key_access"}
    BY <2>3 DEF AclStored, TInv, TypeOK
  <2> QED BY <2>1, <2>2, <2>3
<1> QED BY <1>1, <1>2 DEF AclStored, TInv, TypeOK

(* The steps of key creation, rotation and revocation.                     *)
LEMMA KeyStepsType ==
    ASSUME TInv, NEW t \in Tasks,
           \/ \E k \in Keys : \/ CreateKey(t, k) \/ CreateSigningKey(t, k)
                              \/ RotateKey(t, k) \/ RevokeKey(t, k)
           \/ ReplaceKey(t) \/ StoreKey(t) \/ DropAcl(t)
    PROVE  TInv'
<1> USE DEF TInv
<1>1. ASSUME NEW k \in Keys, NEW usage \in Usages, Create(t, k, usage)
      PROVE  TInv'
  <2>1. CASE keys[k] # None
    BY <1>1, <2>1, RefusalType DEF Create, stores, Outcomes, TypeOK
  <2>2. CASE keys[k] = None
    <3>1. PICK m \in Materials \ drawn :
             /\ drawn' = drawn \cup {m}
             /\ rec' = [rec EXCEPT ![t] = [usage |-> usage, versions |-> <<m>>]]
      BY <1>1, <2>2 DEF Create
    <3> DEFINE c == [op |-> "create_key", key |-> k]
    <3>2. c \in Call /\ c # None /\ [usage |-> usage, versions |-> <<m>>] \in Record
      BY NoneAssumption DEF Call, Record
    <3>3. /\ kdoc' = [kdoc EXCEPT ![t] = keys] /\ UNCHANGED <<pdoc, stores>>
          /\ Begin(t, c, "storeKey")
      BY <1>1, <2>2 DEF Create
    <3>4. TypeOK'
      BY <3>1, <3>2, <3>3 DEF Begin, TypeOK, stores, Outcomes
    <3>5. CallsAgree'
      BY <3>1, <3>2, <3>3, NoneAssumption DEF Begin, TypeOK, CallsAgree
    <3> QED BY <3>4, <3>5
  <2> QED BY <2>1, <2>2
<1>2. ASSUME NEW k \in Keys, RotateKey(t, k) PROVE TInv'
  <2>1. ASSUME NEW o \in Outcomes, Return(t, o), UNCHANGED <<drawn, stores>>
        PROVE  TInv'
    BY <2>1, RefusalType DEF stores, TypeOK
  <2>2. ASSUME keys[k] # None, NEW m \in Materials \ drawn,
               drawn' = drawn \cup {m},
               rec' = [rec EXCEPT ![t] = [keys[k] EXCEPT !.versions = Append(@, m)]],
               Begin(t, [op |-> "rotate_key", key |-> k], "replaceKey"),
               UNCHANGED <<kdoc, pdoc, stores>>
        PROVE  TInv'
    <3> DEFINE c == [op |-> "rotate_key", key |-> k]
               r == [keys[k] EXCEPT !.versions = Append(@, m)]
    <3>1. c \in Call /\ c # None
      BY NoneAssumption DEF Call
    <3>2. keys[k] \in Record
      BY <2>2 DEF TypeOK, KeyDoc
    <3>3. r \in Record
      BY SMTT(30), <3>2 DEF Record
    <3>4. TypeOK'
      BY <2>2, <3>1, <3>3 DEF Begin, TypeOK, stores, Outcomes
    <3>5. CallsAgree'
      BY <2>2, <1>2, <3>1 DEF Begin, TypeOK, CallsAgree, RotateKey
    <3> QED BY <3>4, <3>5
  <2> QED BY <1>2, <2>1, <2>2 DEF RotateKey, Outcomes
<1>3. ASSUME NEW k \in Keys, RevokeKey(t, k) PROVE TInv'
  <2>1. CASE keys[k] = None
    BY <1>3, <2>1, RefusalType DEF RevokeKey, stores, Outcomes, TypeOK
  <2>2. CASE keys[k] # None
    <3>1. [op |-> "revoke_key", key |-> k] \in Call
      BY DEF Call
    <3>2. TypeOK'
      BY <1>3, <2>2, <3>1 DEF RevokeKey, Begin, TypeOK, stores, Outcomes
    <3>3. CallsAgree'
      BY <1>3, <2>2, <3>1, NoneAssumption DEF RevokeKey, Begin, TypeOK, CallsAgree
    <3> QED BY <3>2, <3>3
  <2> QED BY <2>1, <2>2
<1>4. CASE ReplaceKey(t)
  <2>1. CASE keys[call[t].key] = None
    BY <1>4, <2>1, RefusalType DEF ReplaceKey, stores, Outcomes, TypeOK
  <2>2. CASE keys[call[t].key] # None
    <3>1. TypeOK'
      BY <1>4, <2>2 DEF ReplaceKey, Goto, TypeOK, stores
    <3>2. CallsAgree'
      BY <1>4, <2>2, NoneAssumption DEF ReplaceKey, Goto, TypeOK, CallsAgree
    <3> QED BY <3>1, <3>2
  <2> QED BY <2>1, <2>2
<1>5. CASE StoreKey(t)
  <2>1. CASE call[t].op = "revoke_key"
    <3>1. LocalType'
      BY <1>5, <2>1 DEF StoreKey, Goto, LocalType, Labels, TypeOK
    <3>2. CallsAgree'
      BY <1>5, <2>1 DEF StoreKey, Goto, TypeOK, CallsAgree
    <3> QED BY <1>5, <3>1, <3>2, KeyStoredType, TypeJoin DEF StoreKey, TypeOK
  <2>2. CASE call[t].op # "revoke_key"
    <3>1. Return(t, "done") /\ "done" \in Outcomes
      BY <1>5, <2>2 DEF StoreKey, Outcomes
    <3> QED BY <1>5, <3>1, ReturnInv, KeyStoredType, TypeJoin DEF StoreKey, TypeOK
  <2> QED BY <2>1, <2>2
<1>6. CASE DropAcl(t)
  <2>1. CASE policies[call[t].key] = NoGrants
    BY <1>6, <2>1, RefusalType DEF DropAcl, Outcomes, TypeOK
  <2>2. CASE policies[call[t].key] # NoGrants
    <3>1. call[t].key \in Keys
      BY <1>6, CallFields DEF DropAcl, TypeOK, CallsAgree
    <3>2. [policies EXCEPT ![call[t].key] = NoGrants] \in PolicyDoc
      BY <3>1 DEF TypeOK, PolicyDoc, NoGrants
    <3>3. TypeOK'
      BY <1>6, <2>2, <3>2 DEF DropAcl, Goto, TypeOK
    <3>4. CallsAgree'
      BY <1>6, <2>2, <3>2, NoneAssumption DEF DropAcl, Goto, TypeOK, CallsAgree
    <3> QED BY <3>3, <3>4
  <2> QED BY <2>1, <2>2
<1>7. \A k \in Keys : CreateKey(t, k) \/ CreateSigningKey(t, k) => TInv'
  BY <1>1 DEF CreateKey, CreateSigningKey, Usages
<1> QED BY <1>2, <1>3, <1>4, <1>5, <1>6, <1>7

(* The steps of granting and withdrawing access.                           *)
LEMMA AccessStepsType ==
    ASSUME TInv, NEW t \in Tasks,
           \/ \E k \in Keys, op \in {"grant_key_access", "revoke_key_access"},
                 u \in Users, P \in Asked : ChangeAccess(t, op, k, u, P)
           \/ Grant(t) \/ Withdraw(t) \/ StoreAcl(t)
    PROVE  TInv'
<1> USE DEF TInv
<1>1. ASSUME NEW k \in Keys, NEW op \in {"grant_key_access", "revoke_key_access"},
             NEW u \in Users, NEW P \in Asked, ChangeAccess(t, op, k, u, P)
      PROVE  TInv'
  <2>1. ASSUME NEW o \in Outcomes, Return(t, o) PROVE TInv'
    BY <1>1, <2>1, RefusalType DEF ChangeAccess, stores, TypeOK
  <2>2. ASSUME Begin(t, [op |-> op, key |-> k, to |-> u, perms |-> P], "change"),
               UNCHANGED <<rec, kdoc, pdoc>>
        PROVE  TInv'
    <3>1. [op |-> op, key |-> k, to |-> u, perms |-> P] \in Call
      BY AskedAssumption DEF Call
    <3>2. TypeOK'
      BY <1>1, <2>2, <3>1 DEF ChangeAccess, Begin, TypeOK, stores, Outcomes
    <3>3. CallsAgree'
      BY <1>1, <2>2, <3>1, NoneAssumption
         DEF ChangeAccess, Begin, TypeOK, CallsAgree
    <3> QED BY <3>2, <3>3
  <2> QED BY <1>1, <2>1, <2>2 DEF ChangeAccess, Outcomes
<1>2. ASSUME pc[t] = "change", NEW d \in PolicyDoc,
             pdoc' = [pdoc EXCEPT ![t] = d], Goto(t, "storeAcl"),
             UNCHANGED <<call, rec, kdoc, last, drawn, stores>>
      PROVE  TInv'
  <2>1. TypeOK'
    BY <1>2 DEF Goto, TypeOK, stores
  <2>2. CallsAgree'
    BY <1>2, NoneAssumption DEF Goto, TypeOK, CallsAgree
  <2> QED BY <2>1, <2>2
<1>3. ASSUME pc[t] = "change"
      PROVE  /\ call[t].key \in Keys /\ call[t].to \in Users
             /\ call[t].perms \in SUBSET Permissions
  BY <1>3, CallFields DEF TypeOK, CallsAgree
<1>e. ASSUME NEW d \in PolicyDoc, NEW k \in Keys, NEW u \in Users,
             NEW P \in SUBSET Permissions
      PROVE  /\ [d EXCEPT ![k][u] = @ \cup P] \in PolicyDoc
             /\ [d EXCEPT ![k][u] = @ \ P] \in PolicyDoc
  <2>1. d[k] \in [Users -> SUBSET Permissions] /\ d[k][u] \in SUBSET Permissions
    BY DEF PolicyDoc
  <2>2. d[k][u] \cup P \in SUBSET Permissions /\ d[k][u] \ P \in SUBSET Permissions
    BY <2>1
  <2>3. ASSUME NEW Q \in SUBSET Permissions
        PROVE  [d EXCEPT ![k] = [d[k] EXCEPT ![u] = Q]] \in PolicyDoc
    BY <2>1 DEF PolicyDoc
  <2> QED BY <2>2, <2>3
<1>4. CASE Grant(t)
  <2>1. [policies EXCEPT ![call[t].key][call[t].to] = @ \cup call[t].perms]
            \in PolicyDoc
    <3>1. pc[t] = "change" /\ policies \in PolicyDoc
      BY <1>4 DEF Grant, TypeOK
    <3> QED BY <1>3, <1>e, <3>1
  <2> QED BY <1>2, <1>4, <2>1 DEF Grant
<1>5. CASE Withdraw(t)
  <2>1. [policies EXCEPT ![call[t].key][call[t].to] = @ \ call[t].perms]
            \in PolicyDoc
    <3>1. pc[t] = "change" /\ policies \in PolicyDoc
      BY <1>5 DEF Withdraw, TypeOK
    <3> QED BY <1>3, <1>e, <3>1
  <2>2. ASSUME Return(t, "done") PROVE TInv'
    BY <1>5, <2>2, RefusalType DEF Withdraw, stores, Outcomes, TypeOK
  <2> QED BY <1>2, <1>5, <2>1, <2>2 DEF Withdraw
<1>6. CASE StoreAcl(t)
  BY <1>6, ReturnInv, AclStoredType, TypeJoin DEF StoreAcl, Outcomes, TypeOK
<1> QED BY <1>1, <1>4, <1>5, <1>6

(* The steps of using a key.                                               *)
LEMMA UseStepsType ==
    ASSUME TInv, NEW t \in Tasks,
           \/ \E k \in Keys, u \in Users, perm \in Permissions :
                 Authorize(t, u, k, perm)
           \/ UseRefused(t) \/ Encrypt(t) \/ Decrypt(t) \/ SignOrVerify(t)
    PROVE  TInv'
<1> USE DEF TInv
<1>1. ASSUME NEW k \in Keys, NEW u \in Users, NEW perm \in Permissions,
             Authorize(t, u, k, perm)
      PROVE  TInv'
  <2>1. ASSUME Return(t, "PERMISSION_DENIED") PROVE TInv'
    BY <1>1, <2>1, RefusalType DEF Authorize, stores, Outcomes, TypeOK
  <2>2. ASSUME Begin(t, [op |-> "use", key |-> k, by |-> u, perm |-> perm], "use"),
               UNCHANGED <<rec, kdoc, pdoc>>
        PROVE  TInv'
    <3>1. [op |-> "use", key |-> k, by |-> u, perm |-> perm] \in Call
      BY DEF Call
    <3>2. TypeOK'
      BY <1>1, <2>2, <3>1 DEF Authorize, Begin, TypeOK, stores, Outcomes
    <3>3. CallsAgree'
      BY <1>1, <2>2, <3>1, NoneAssumption DEF Authorize, Begin, TypeOK, CallsAgree
    <3> QED BY <3>2, <3>3
  <2> QED BY <1>1, <2>1, <2>2 DEF Authorize
<1>2. CASE UseRefused(t)
  BY <1>2, RefusalType DEF UseRefused, stores, Outcomes, TypeOK
<1>3. CASE Encrypt(t)
  <2> DEFINE k == call[t].key
             v == Len(keys[k].versions)
             c == [key |-> k, version |-> v, material |-> keys[k].versions[v]]
  <2>1. k \in Keys
    BY <1>3, CallFields DEF Encrypt, UseBy, TypeOK, CallsAgree
  <2>2. keys[k] \in Record
    BY <1>3, <2>1 DEF Encrypt, UseBy, TypeOK, KeyDoc
  <2>3. c \in Ciphertext
    BY <2>1, <2>2 DEF Record, Ciphertext
  <2>4. issued' \in SUBSET Ciphertext
    BY <1>3, <2>3 DEF Encrypt, TypeOK
  <2>5. LocalType' /\ CallsAgree'
    BY <1>3, ReturnInv DEF Encrypt, Outcomes
  <2> QED BY <1>3, <2>4, <2>5, TypeJoin DEF Encrypt, TypeOK
<1>4. CASE Decrypt(t)
  <2>1. PICK o \in Outcomes : Return(t, o)
    BY <1>4 DEF Decrypt, Outcomes
  <2> QED BY <1>4, <2>1, RefusalType DEF Decrypt, stores, TypeOK
<1>5. CASE SignOrVerify(t)
  BY <1>5, RefusalType DEF SignOrVerify, stores, Outcomes, TypeOK
<1> QED BY <1>1, <1>2, <1>3, <1>4, <1>5

(* Faults of the operating system and restarts.                            *)
LEMMA InterruptType ==
    ASSUME TInv, NEW t \in Tasks, Fault(t) \/ Restart(t)
    PROVE  TInv'
<1> USE DEF TInv
<1>1. CASE Fault(t) /\ UNCHANGED stores
  BY <1>1, RefusalType DEF Fault, stores, Outcomes, TypeOK
<1>2. CASE Fault(t) /\ pc[t] = "storeKey" /\ KeyStored(t)
  BY <1>2, ReturnInv, KeyStoredType, TypeJoin DEF Fault, Outcomes, TypeOK
<1>3. CASE Fault(t) /\ pc[t] = "storeAcl" /\ AclStored(t)
  BY <1>3, ReturnInv, AclStoredType, TypeJoin DEF Fault, Outcomes, TypeOK
<1>4. CASE Restart(t)
  BY <1>4, RefusalType DEF Restart, stores, Outcomes, TypeOK
<1> QED BY <1>1, <1>2, <1>3, <1>4 DEF Fault

(* The types hold at the start ...                                         *)
LEMMA InitType == Init => TInv
BY DEF Init, TInv, TypeOK, CallsAgree, KeyDoc, PolicyDoc, NoGrants, Outcomes

(* ... after each step of a call ...                                       *)
LEMMA StepType ==
    ASSUME TInv, NEW t \in Tasks, Step(t)
    PROVE  TInv'
BY KeyStepsType, AccessStepsType, UseStepsType, InterruptType DEF Step

(* ... and so in every reachable state.                                    *)
LEMMA TypeInductive == Spec => []TInv
<1>1. ASSUME TInv, [Next]_vars PROVE TInv'
  <2>1. CASE UNCHANGED vars
    BY <1>1, <2>1 DEF vars, TInv, TypeOK, CallsAgree
  <2> QED BY <1>1, <2>1, StepType DEF Next
<1> QED BY <1>1, InitType, PTL DEF Spec

(* The documents, the calls in progress and the ciphertexts keep their     *)
(* shape, and no version list is ever empty (service.py:92-197).           *)
THEOREM TypeCorrect == Spec => []TypeOK
<1>1. TInv => TypeOK
  BY DEF TInv
<1> QED BY <1>1, TypeInductive, PTL
-----------------------------------------------------------------------------
(* The place of a material: a version of a key, in the key document, in a  *)
(* document or a record that a call holds, or in a ciphertext.             *)
At(r, m, i) == r # None /\ i \in 1 .. Len(r.versions) /\ r.versions[i] = m
Placed(m, k, i) ==
    \/ At(keys[k], m, i)
    \/ \E t \in Tasks : kdoc[t] # None /\ At(kdoc[t][k], m, i)
    \/ \E t \in Tasks : call[t] # None /\ call[t].key = k /\ At(rec[t], m, i)
    \/ \E c \in issued : c.key = k /\ c.version = i /\ c.material = m

(* A material is drawn for one place, and is never seen at another.        *)
OnePlace ==
    \A m \in Materials, k \in Keys, i \in Nat : Placed(m, k, i) =>
        /\ m \in drawn
        /\ \A l \in Keys, j \in Nat : Placed(m, l, j) => l = k /\ j = i

(* Where the steps that are not rotations, creations and writes may take   *)
(* their documents and records from.                                       *)
LEMMA NothingNew ==
    ASSUME TInv, OnePlace, drawn \subseteq drawn', keys' = keys,
           \A u \in Tasks : kdoc'[u] \in {None, kdoc[u], keys},
           \A u \in Tasks : rec'[u] = None \/ UNCHANGED <<rec[u], call[u]>>,
           \A c \in issued' \ issued : Placed(c.material, c.key, c.version)
    PROVE  OnePlace'
<1>1. ASSUME NEW k \in Keys, NEW m \in Materials, NEW i \in Nat,
             Placed(m, k, i)'
      PROVE  Placed(m, k, i)
  <2>1. CASE At(keys'[k], m, i)
    BY <2>1 DEF Placed
  <2>2. ASSUME NEW u \in Tasks, kdoc'[u] # None, At(kdoc'[u][k], m, i)
        PROVE  Placed(m, k, i)
    BY <2>2 DEF Placed
  <2>3. ASSUME NEW u \in Tasks, call'[u] # None, call'[u].key = k,
               At(rec'[u], m, i)
        PROVE  Placed(m, k, i)
    BY <2>3 DEF Placed, At
  <2>4. ASSUME NEW c \in issued', c.key = k, c.version = i, c.material = m
        PROVE  Placed(m, k, i)
    BY <2>4 DEF Placed
  <2> QED BY <1>1, <2>1, <2>2, <2>3, <2>4 DEF Placed
<1> QED BY <1>1 DEF OnePlace

(* A call that ends lets go of its record and its document.                *)
LEMMA ReturnPlace ==
    ASSUME TInv, OnePlace, NEW t \in Tasks, NEW o, Return(t, o),
           keys' = keys, issued' \subseteq issued, drawn' = drawn
    PROVE  OnePlace'
<1>1. \A u \in Tasks : kdoc'[u] \in {None, kdoc[u], keys}
  BY DEF TInv, TypeOK, Return
<1>2. \A u \in Tasks : rec'[u] = None \/ UNCHANGED <<rec[u], call[u]>>
  BY DEF TInv, TypeOK, Return
<1> QED BY <1>1, <1>2, NothingNew

(* A call that writes the key document puts there the document and the     *)
(* record it held.                                                         *)
LEMMA StorePlace ==
    ASSUME TInv, OnePlace, NEW t \in Tasks, pc[t] = "storeKey", KeyStored(t),
           drawn' = drawn,
           \A u \in Tasks : kdoc'[u] \in {None, kdoc[u]},
           \A u \in Tasks : rec'[u] = None \/ UNCHANGED <<rec[u], call[u]>>
    PROVE  OnePlace'
<1> DEFINE q == call[t].key
<1>1. kdoc[t] \in KeyDoc /\ kdoc[t] # None /\ call[t] # None /\ q \in Keys
  BY CallFields DEF TInv, TypeOK, CallsAgree
<1>2. keys' = [kdoc[t] EXCEPT ![q] = rec[t]] /\ issued' \subseteq issued
  BY DEF KeyStored
<1>3. ASSUME NEW k \in Keys, NEW m \in Materials, NEW i \in Nat,
             Placed(m, k, i)'
      PROVE  Placed(m, k, i)
  <2>1. CASE At(keys'[k], m, i)
    <3>1. CASE k = q
      BY <1>1, <1>2, <2>1, <3>1 DEF Placed, KeyDoc
    <3>2. CASE k # q
      BY <1>1, <1>2, <2>1, <3>2 DEF Placed, KeyDoc
    <3> QED BY <3>1, <3>2
  <2>2. ASSUME NEW u \in Tasks, kdoc'[u] # None, At(kdoc'[u][k], m, i)
        PROVE  Placed(m, k, i)
    BY <2>2 DEF Placed
  <2>3. ASSUME NEW u \in Tasks, call'[u] # None, call'[u].key = k,
               At(rec'[u], m, i)
        PROVE  Placed(m, k, i)
    BY <2>3 DEF Placed, At
  <2>4. ASSUME NEW c \in issued', c.key = k, c.version = i, c.material = m
        PROVE  Placed(m, k, i)
    BY <1>2, <2>4 DEF Placed
  <2> QED BY <1>3, <2>1, <2>2, <2>3, <2>4 DEF Placed
<1> QED BY <1>3 DEF OnePlace

(* A call that draws a material holds it at one version of its key, with   *)
(* older versions that are in force.                                       *)
LEMMA DrawPlace ==
    ASSUME TInv, OnePlace, NEW t \in Tasks, NEW d \in Materials \ drawn,
           drawn' = drawn \cup {d}, keys' = keys, issued' = issued,
           NEW c \in Call, call' = [call EXCEPT ![t] = c],
           NEW r \in Record, rec' = [rec EXCEPT ![t] = r],
           \A u \in Tasks : kdoc'[u] \in {kdoc[u], keys},
           \A m \in Materials, i \in Nat : At(r, m, i) =>
              Placed(m, c.key, i) \/ (m = d /\ i = Len(r.versions))
    PROVE  OnePlace'
<1>1. ASSUME NEW k \in Keys, NEW m \in Materials, NEW i \in Nat,
             Placed(m, k, i)'
      PROVE  Placed(m, k, i) \/ (m = d /\ k = c.key /\ i = Len(r.versions))
  <2>1. CASE At(keys'[k], m, i)
    BY <2>1 DEF Placed
  <2>2. ASSUME NEW u \in Tasks, kdoc'[u] # None, At(kdoc'[u][k], m, i)
        PROVE  Placed(m, k, i)
    BY <2>2 DEF Placed
  <2>3. ASSUME NEW u \in Tasks, call'[u] # None, call'[u].key = k,
               At(rec'[u], m, i)
        PROVE  Placed(m, k, i) \/ (m = d /\ k = c.key /\ i = Len(r.versions))
    <3>1. CASE u = t
      BY <2>3, <3>1 DEF TInv, TypeOK
    <3>2. CASE u # t
      BY <2>3, <3>2 DEF TInv, TypeOK, Placed
    <3> QED BY <3>1, <3>2
  <2>4. ASSUME NEW x \in issued', x.key = k, x.version = i, x.material = m
        PROVE  Placed(m, k, i)
    BY <2>4 DEF Placed
  <2> QED BY <1>1, <2>1, <2>2, <2>3, <2>4 DEF Placed
<1> QED BY <1>1 DEF OnePlace

(* Creation and rotation draw; the other steps place nothing new.          *)
LEMMA StepPlace ==
    ASSUME TInv, OnePlace, NEW t \in Tasks, Step(t)
    PROVE  OnePlace'
<1> USE DEF TInv
<1>1. ASSUME NEW o, Return(t, o), UNCHANGED <<drawn, keys, issued>>
      PROVE  OnePlace'
  BY <1>1, ReturnPlace
<1>2. ASSUME NEW k \in Keys, NEW usage \in Usages, Create(t, k, usage)
      PROVE  OnePlace'
  <2>1. CASE keys[k] # None
    BY <1>1, <1>2, <2>1 DEF Create, stores
  <2>2. CASE keys[k] = None
    <3>1. PICK m \in Materials \ drawn :
             /\ drawn' = drawn \cup {m}
             /\ rec' = [rec EXCEPT ![t] = [usage |-> usage, versions |-> <<m>>]]
      BY <1>2, <2>2 DEF Create
    <3> DEFINE c == [op |-> "create_key", key |-> k]
               r == [usage |-> usage, versions |-> <<m>>]
    <3>2. c \in Call /\ r \in Record
      BY DEF Call, Record
    <3>3. \A n \in Materials, i \in Nat :
             At(r, n, i) => Placed(n, c.key, i) \/ (n = m /\ i = Len(r.versions))
      BY DEF At
    <3>4. \A u \in Tasks : kdoc'[u] \in {kdoc[u], keys}
      BY <1>2, <2>2 DEF Create, TypeOK
    <3>5. /\ call' = [call EXCEPT ![t] = c]
          /\ UNCHANGED <<keys, issued>>
      BY <1>2, <2>2 DEF Create, Begin, stores
    <3>6. rec' = [rec EXCEPT ![t] = r] /\ drawn' = drawn \cup {m}
      BY <3>1
    <3> HIDE DEF c, r
    <3> QED BY <3>2, <3>3, <3>4, <3>5, <3>6, DrawPlace
  <2> QED BY <2>1, <2>2
<1>3. ASSUME NEW k \in Keys, RotateKey(t, k) PROVE OnePlace'
  <2>1. ASSUME keys[k] # None, NEW m \in Materials \ drawn,
               drawn' = drawn \cup {m},
               rec' = [rec EXCEPT ![t] = [keys[k] EXCEPT !.versions = Append(@, m)]],
               Begin(t, [op |-> "rotate_key", key |-> k], "replaceKey"),
               UNCHANGED <<kdoc, keys, issued>>
        PROVE  OnePlace'
    <3> DEFINE c == [op |-> "rotate_key", key |-> k]
               r == [keys[k] EXCEPT !.versions = Append(@, m)]
    <3>1. keys[k] \in Record
      BY <2>1 DEF TypeOK, KeyDoc
    <3>2. c \in Call /\ r \in Record
      BY SMTT(30), <3>1 DEF Call, Record
    <3>3. \A n \in Materials, i \in Nat : At(r, n, i) =>
             At(keys[k], n, i) \/ (n = m /\ i = Len(r.versions))
      BY <2>1, <3>1 DEF At, Record
    <3>4. \A n \in Materials, i \in Nat : At(r, n, i) =>
             Placed(n, c.key, i) \/ (n = m /\ i = Len(r.versions))
      BY <3>3 DEF Placed
    <3> QED BY <2>1, <3>2, <3>4, DrawPlace DEF Begin
  <2> QED BY <1>1, <1>3, <2>1 DEF RotateKey, stores
<1>4. ASSUME UNCHANGED <<keys, issued, drawn, rec, call>>,
             \A u \in Tasks : kdoc'[u] \in {None, kdoc[u], keys}
      PROVE  OnePlace'
  BY <1>4, NothingNew
<1>5. ASSUME NEW c, NEW l, Begin(t, c, l), pc[t] = "idle",
             UNCHANGED <<keys, issued, drawn, rec>>,
             \A u \in Tasks : kdoc'[u] \in {None, kdoc[u], keys}
      PROVE  OnePlace'
  <2>1. \A u \in Tasks : rec'[u] = None \/ UNCHANGED <<rec[u], call[u]>>
    BY <1>5 DEF Begin, TypeOK, CallsAgree
  <2> QED BY <1>5, <2>1, NothingNew
<1>6. ASSUME NEW k \in Keys, RevokeKey(t, k) PROVE OnePlace'
  <2>1. kdoc' = [kdoc EXCEPT ![t] = keys] =>
           \A u \in Tasks : kdoc'[u] \in {None, kdoc[u], keys}
    BY DEF TypeOK
  <2> QED BY <1>1, <1>5, <1>6, <2>1 DEF RevokeKey, stores
<1>7. CASE ReplaceKey(t)
  <2>1. kdoc' = [kdoc EXCEPT ![t] = keys] =>
           \A u \in Tasks : kdoc'[u] \in {None, kdoc[u], keys}
    BY DEF TypeOK
  <2> QED BY <1>1, <1>4, <1>7, <2>1 DEF ReplaceKey, stores
<1>8. ASSUME NEW o, Return(t, o)
      PROVE  /\ \A u \in Tasks : kdoc'[u] \in {None, kdoc[u]}
             /\ \A u \in Tasks : rec'[u] = None \/ UNCHANGED <<rec[u], call[u]>>
  BY <1>8 DEF Return, TypeOK
<1>9. CASE StoreKey(t)
  BY <1>8, <1>9, StorePlace DEF StoreKey
<1>10. CASE DropAcl(t) \/ Grant(t) \/ Withdraw(t)
  BY <1>1, <1>4, <1>10 DEF DropAcl, Grant, Withdraw, stores
<1>11. CASE StoreAcl(t)
  BY <1>1, <1>11 DEF StoreAcl, AclStored
<1>12. ASSUME NEW k \in Keys, NEW op \in {"grant_key_access", "revoke_key_access"},
              NEW u \in Users, NEW P \in Asked, ChangeAccess(t, op, k, u, P)
       PROVE  OnePlace'
  BY <1>1, <1>5, <1>12 DEF ChangeAccess, stores
<1>13. ASSUME NEW k \in Keys, NEW u \in Users, NEW perm \in Permissions,
              Authorize(t, u, k, perm)
       PROVE  OnePlace'
  BY <1>1, <1>5, <1>13 DEF Authorize, stores
<1>14. CASE UseRefused(t) \/ Decrypt(t) \/ SignOrVerify(t)
  BY <1>1, <1>14 DEF UseRefused, Decrypt, SignOrVerify, stores
<1>15. CASE Encrypt(t)
  <2> DEFINE k == call[t].key
             v == Len(keys[k].versions)
             c == [key |-> k, version |-> v, material |-> keys[k].versions[v]]
  <2>1. k \in Keys /\ keys[k] # None
    BY <1>15, CallFields DEF Encrypt, UseBy, TypeOK, CallsAgree
  <2>2. keys[k] \in Record
    BY <2>1 DEF TypeOK, KeyDoc
  <2>3. v \in 1 .. v
    BY <2>2 DEF Record
  <2>4. Placed(c.material, c.key, c.version)
    BY <2>1, <2>3 DEF Placed, At
  <2>5. /\ issued' = issued \cup {c} /\ keys' = keys /\ drawn' = drawn
        /\ Return(t, "used")
    BY <1>15 DEF Encrypt
  <2> QED BY <1>8, <2>4, <2>5, NothingNew
<1>16. CASE Fault(t)
  BY <1>1, <1>8, <1>16, StorePlace DEF Fault, AclStored, stores
<1>17. CASE Restart(t)
  BY <1>1, <1>17 DEF Restart, stores
<1>18. \A k \in Keys : CreateKey(t, k) \/ CreateSigningKey(t, k) => OnePlace'
  BY <1>2 DEF CreateKey, CreateSigningKey, Usages
<1> QED BY <1>3, <1>6, <1>7, <1>9, <1>10, <1>11, <1>12, <1>13, <1>14, <1>15,
           <1>16, <1>17, <1>18 DEF Step

(* No material is ever in two places.                                      *)
LEMMA PlaceInductive == Spec => [](TInv /\ OnePlace)
<1>1. Init => OnePlace
  BY DEF Init, OnePlace, Placed, At
<1>2. ASSUME TInv, OnePlace, [Next]_vars PROVE OnePlace'
  <2>1. CASE UNCHANGED vars
    BY <1>2, <2>1 DEF vars, OnePlace, Placed
  <2> QED BY <1>2, <2>1, StepPlace DEF Next
<1> QED BY <1>1, <1>2, TypeInductive, PTL DEF Spec

(* No two versions of any keys ever share a material, and a material found *)
(* by a ciphertext is under the key and the version that the ciphertext    *)
(* names, however creations, rotations and revocations interleave, fail or *)
(* are cut short, although every one of them may write a document that is  *)
(* out of date (service.py:92-197, 417-529, repository.py:291-342).        *)
THEOREM MaterialsStayInPlace == Spec => []InPlace
<1>1. ASSUME TInv, OnePlace,
             NEW k \in Keys, NEW l \in Keys, keys[k] # None, keys[l] # None,
             NEW i \in 1 .. Len(keys[k].versions),
             NEW j \in 1 .. Len(keys[l].versions),
             keys[k].versions[i] = keys[l].versions[j]
      PROVE  k = l /\ i = j
  <2> DEFINE m == keys[k].versions[i]
  <2>1. m \in Materials /\ i \in Nat /\ j \in Nat
    BY <1>1 DEF TInv, TypeOK, KeyDoc, Record
  <2>2. Placed(m, k, i) /\ Placed(m, l, j)
    BY <1>1 DEF Placed, At
  <2> QED BY <1>1, <2>1, <2>2 DEF OnePlace
<1>2. ASSUME TInv, OnePlace, NEW c \in issued, NEW k \in Keys, keys[k] # None,
             NEW i \in 1 .. Len(keys[k].versions),
             keys[k].versions[i] = c.material
      PROVE  k = c.key /\ i = c.version
  <2>1. c \in Ciphertext /\ i \in Nat
    BY <1>2 DEF TInv, TypeOK, KeyDoc, Record
  <2>2. /\ c.material \in Materials /\ c.key \in Keys /\ c.version \in Nat
        /\ Placed(c.material, k, i) /\ Placed(c.material, c.key, c.version)
    BY <1>2, <2>1 DEF Ciphertext, Placed, At
  <2> QED BY <1>2, <2>1, <2>2 DEF OnePlace
<1>3. TInv /\ OnePlace => InPlace
  BY <1>1, <1>2 DEF InPlace
<1> QED BY <1>3, PlaceInductive, PTL
-----------------------------------------------------------------------------
(* No two calls are in progress at once.  Neither document is locked, so   *)
(* what follows holds only of such behaviours; any number of tasks may     *)
(* take turns, fail and restart in them.                                   *)
NoOverlap == \A t, u \in Tasks : pc[t] # "idle" /\ pc[u] # "idle" => t = u

(* In a program with one thread no two calls ever are.                     *)
LEMMA OneTaskSuffices ==
    ASSUME \A t, u \in Tasks : t = u
    PROVE  NoOverlap
BY DEF NoOverlap

(* A record with one version more. *)
Grows(r, s) ==
    /\ r # None /\ r.usage = "ENCRYPT_DECRYPT"
    /\ \E m \in Materials : s = [r EXCEPT !.versions = Append(@, m)]

LEMMA GrowsKeeps ==
    ASSUME NEW r \in Record, NEW s, Grows(r, s)
    PROVE  /\ s \in Record /\ s # None
           /\ Len(s.versions) = Len(r.versions) + 1
           /\ \A i \in 1 .. Len(r.versions) : s.versions[i] = r.versions[i]
<1>1. PICK m \in Materials : s = [r EXCEPT !.versions = Append(@, m)]
  BY DEF Grows
<1>2. r.versions \in Seq(Materials) /\ r.usage \in Usages
  BY DEF Record
<1>3. s = [usage |-> r.usage, versions |-> Append(r.versions, m)]
  BY <1>1 DEF Record
<1>4. /\ Append(r.versions, m) \in Seq(Materials) \ {<<>>}
      /\ Len(Append(r.versions, m)) = Len(r.versions) + 1
      /\ \A i \in 1 .. Len(r.versions) : Append(r.versions, m)[i] = r.versions[i]
  BY <1>2
<1>5. s \in Record /\ s.versions = Append(r.versions, m)
  BY <1>2, <1>3, <1>4 DEF Record
<1> QED BY <1>4, <1>5, NoneAssumption

(* What a call knows that no other call runs beside: the documents it read *)
(* are still in force, the record it will store keeps every version there  *)
(* is, and the policies it will store differ from those in force by what   *)
(* it was asked.                                                           *)
KeyCall(t, c) ==
    /\ pc[t] = "storeKey" => kdoc[t] = keys
    /\ pc[t] = "storeKey" /\ c.op = "create_key" =>
          /\ keys[c.key] = None
          /\ \E usage \in Usages, m \in Materials :
                rec[t] = [usage |-> usage, versions |-> <<m>>]
    /\ pc[t] \in {"replaceKey", "storeKey"} /\ c.op = "rotate_key" =>
           Grows(keys[c.key], rec[t])
    /\ pc[t] = "storeKey" /\ c.op = "revoke_key" => keys[c.key] # None

Target(c) ==
    /\ keys[c.key] # None /\ c.to # Owner[c.key]
    /\ c.op = "grant_key_access" => c.perms \subseteq PermissionsFor(keys[c.key])

Revoked(c) == keys[c.key] = None /\ entitled[c.key] = NoGrants

AccessCall(t, c) ==
    /\ pc[t] = "dropAcl" => Revoked(c)
    /\ pc[t] = "change" => Target(c)
    /\ pc[t] = "storeAcl" /\ c.op = "revoke_key" =>
          Revoked(c) /\ pdoc[t] = [policies EXCEPT ![c.key] = NoGrants]
    /\ pc[t] = "storeAcl" /\ c.op = "grant_key_access" =>
          /\ Target(c)
          /\ pdoc[t] = [policies EXCEPT ![c.key][c.to] = @ \cup c.perms]
    /\ pc[t] = "storeAcl" /\ c.op = "revoke_key_access" =>
          /\ Target(c)
          /\ pdoc[t] = [policies EXCEPT ![c.key][c.to] = @ \ c.perms]
    /\ pc[t] = "use" /\ c.by # Owner[c.key] => c.perm \in policies[c.key][c.by]

CallsKnow == \A t \in Tasks : KeyCall(t, call[t]) /\ AccessCall(t, call[t])

(* No list but that of a half revoked key holds more than was granted.     *)
NothingAdded ==
    \A k \in Keys \ halfway, u \in Users : policies[k][u] \subseteq entitled[k][u]

Promises == Decryptable /\ GrantsKept /\ NothingAdded

SInv == TInv /\ CallsKnow /\ Promises

(* A call in progress is the only one that has to know anything.           *)
LEMMA OnlyCaller ==
    ASSUME NoOverlap', NEW t \in Tasks, pc'[t] # "idle",
           KeyCall(t, call[t])', AccessCall(t, call[t])'
    PROVE  CallsKnow'
<1>1. \A u \in Tasks \ {t} : pc'[u] = "idle"
  BY DEF NoOverlap
<1>2. ASSUME NEW u \in Tasks, u # t
      PROVE  KeyCall(u, call[u])' /\ AccessCall(u, call[u])'
  <2>1. pc'[u] = "idle"
    BY <1>1, <1>2
  <2> QED BY <2>1 DEF KeyCall, AccessCall
<1> QED BY <1>2 DEF CallsKnow

(* When a call ends, no call is in progress; when it is refused at once,   *)
(* the others know what they knew.                                         *)
LEMMA NoCaller ==
    ASSUME SInv, NoOverlap, NEW t \in Tasks, NEW o, Return(t, o),
           pc[t] # "idle" \/ UNCHANGED stores
    PROVE  CallsKnow'
<1>1. CASE pc[t] # "idle"
  <2>1. \A u \in Tasks : pc'[u] = "idle"
    BY <1>1 DEF SInv, TInv, TypeOK, NoOverlap, Return
  <2> QED BY <2>1 DEF CallsKnow, KeyCall, AccessCall
<1>2. CASE UNCHANGED stores
  <2>1. pc'[t] = "idle"
    BY DEF SInv, TInv, TypeOK, Return
  <2>2. ASSUME NEW u \in Tasks, u # t
        PROVE  UNCHANGED <<pc[u], call[u], rec[u], kdoc[u], pdoc[u]>>
    BY <2>2 DEF SInv, TInv, TypeOK, Return
  <2>3. ASSUME NEW u \in Tasks
        PROVE  KeyCall(u, call[u])' /\ AccessCall(u, call[u])'
    <3>1. CASE u = t
      BY <2>1, <3>1 DEF KeyCall, AccessCall
    <3>2. CASE u # t
      <4>1. KeyCall(u, call[u]) /\ AccessCall(u, call[u])
        BY DEF SInv, CallsKnow
      <4>2. UNCHANGED <<keys, policies, entitled,
                        pc[u], call[u], rec[u], kdoc[u], pdoc[u]>>
        BY <1>2, <2>2, <3>2 DEF stores
      <4>3. KeyCall(u, call[u])'
        BY <4>1, <4>2 DEF KeyCall
      <4>4. AccessCall(u, call[u])'
        BY <4>1, <4>2 DEF AccessCall, Target, Revoked
      <4> QED BY <4>3, <4>4
    <3> QED BY <3>1, <3>2
  <2> QED BY <2>3 DEF CallsKnow
<1> QED BY <1>1, <1>2

(* Writing the key document breaks no promise.                             *)
LEMMA KeyStoredKeeps ==
    ASSUME SInv, NEW t \in Tasks, pc[t] = "storeKey", KeyStored(t)
    PROVE  /\ Promises'
           /\ call[t].op = "revoke_key" /\ call'[t] = call[t] => Revoked(call[t])'
<1> USE DEF SInv
<1> DEFINE k == call[t].key
<1>1. /\ call[t] \in Call /\ k \in Keys
      /\ call[t].op \in {"create_key", "rotate_key", "revoke_key"}
  BY CallFields DEF TInv, TypeOK, CallsAgree
<1>2. /\ keys' = [keys EXCEPT ![k] = rec[t]] /\ keys \in KeyDoc
      /\ keys'[k] = rec[t] /\ \A l \in Keys \ {k} : keys'[l] = keys[l]
  BY <1>1 DEF KeyStored, CallsKnow, KeyCall, TInv, TypeOK, KeyDoc
<1>3. Decryptable'
  <2> SUFFICES ASSUME NEW c \in issued'
               PROVE  /\ keys'[c.key] # None
                      /\ c.version \in 1 .. Len(keys'[c.key].versions)
                      /\ keys'[c.key].versions[c.version] = c.material
    BY DEF Decryptable
  <2>1. /\ c \in issued /\ c.key \in Keys /\ keys[c.key] # None
        /\ c.version \in 1 .. Len(keys[c.key].versions)
        /\ keys[c.key].versions[c.version] = c.material
    BY DEF KeyStored, TInv, TypeOK, Ciphertext, Promises, Decryptable
  <2>2. CASE c.key # k
    BY <1>2, <2>1, <2>2
  <2>3. CASE c.key = k
    <3>1. call[t].op = "rotate_key"
      BY <1>1, <2>1, <2>3 DEF KeyStored, CallsKnow, KeyCall
    <3>2. Grows(keys[k], rec[t])
      BY <3>1 DEF CallsKnow, KeyCall
    <3>3. keys[k] \in Record
      BY <1>2, <2>1, <2>3 DEF KeyDoc
    <3> QED BY <1>2, <2>1, <2>3, <3>2, <3>3, GrowsKeeps DEF Record
  <2> QED BY <2>2, <2>3
<1>4. policies' = policies /\ entitled \in PolicyDoc
  BY DEF KeyStored, TInv, TypeOK
<1>5. CASE call[t].op = "revoke_key"
  <2>1. entitled' = [entitled EXCEPT ![k] = NoGrants] /\ halfway' = halfway \cup {k}
    BY <1>5 DEF KeyStored
  <2>2. GrantsKept'
    BY <1>1, <1>4, <2>1 DEF Promises, GrantsKept, PolicyDoc, NoGrants
  <2>3. NothingAdded'
    BY <1>1, <1>4, <2>1 DEF Promises, NothingAdded, PolicyDoc
  <2>4. entitled'[k] = NoGrants
    BY <1>1, <1>4, <2>1 DEF PolicyDoc
  <2>5. keys'[k] = None
    BY <1>2, <1>5 DEF TInv, CallsAgree
  <2>6. call'[t] = call[t] => Revoked(call[t])'
    BY <2>4, <2>5 DEF Revoked
  <2> QED BY <1>3, <2>2, <2>3, <2>6 DEF Promises
<1>6. CASE call[t].op # "revoke_key"
  BY <1>3, <1>6 DEF KeyStored, Promises, GrantsKept, NothingAdded
<1> QED BY <1>5, <1>6

(* Nor does writing the policy document.                                   *)
LEMMA AclStoredKeeps ==
    ASSUME SInv, NEW t \in Tasks, pc[t] = "storeAcl", AclStored(t)
    PROVE  Promises'
<1> USE DEF SInv
<1> DEFINE c == call[t]
<1>1. /\ c \in Call /\ c.key \in Keys
      /\ c.op \in {"revoke_key", "grant_key_access", "revoke_key_access"}
      /\ c.op # "revoke_key" => c.to \in Users /\ c.perms \subseteq Permissions
  BY CallFields DEF TInv, TypeOK, CallsAgree
<1>2. /\ policies \in PolicyDoc /\ entitled \in PolicyDoc
      /\ policies' = pdoc[t] /\ Decryptable'
  BY DEF AclStored, TInv, TypeOK, Promises, Decryptable
<1>3. CASE c.op = "revoke_key"
  <2>1. /\ policies' = [policies EXCEPT ![c.key] = NoGrants]
        /\ entitled' = entitled /\ entitled[c.key] = NoGrants
        /\ halfway' = halfway \ {c.key}
    BY <1>2, <1>3 DEF AclStored, CallsKnow, AccessCall, Revoked
  <2>2. GrantsKept'
    BY <1>1, <1>2, <2>1 DEF Promises, GrantsKept, PolicyDoc, NoGrants
  <2>3. NothingAdded'
    BY <1>1, <1>2, <2>1 DEF Promises, NothingAdded, PolicyDoc, NoGrants
  <2> QED BY <1>2, <2>2, <2>3 DEF Promises
<1>4. CASE c.op = "grant_key_access"
  <2>1. /\ policies' = [policies EXCEPT ![c.key][c.to] = @ \cup c.perms]
        /\ entitled' = [entitled EXCEPT ![c.key][c.to] = @ \cup c.perms]
        /\ halfway' = halfway
    BY <1>2, <1>4 DEF AclStored, CallsKnow, AccessCall
  <2>2. ASSUME NEW k \in Keys, NEW u \in Users
        PROVE  /\ policies'[k][u] = policies[k][u] \cup
                      (IF k = c.key /\ u = c.to THEN c.perms ELSE {})
               /\ entitled'[k][u] = entitled[k][u] \cup
                      (IF k = c.key /\ u = c.to THEN c.perms ELSE {})
    BY <1>1, <1>2, <1>4, <2>1 DEF PolicyDoc
  <2> QED BY <1>2, <2>1, <2>2 DEF Promises, GrantsKept, NothingAdded
<1>5. CASE c.op = "revoke_key_access"
  <2>1. /\ policies' = [policies EXCEPT ![c.key][c.to] = @ \ c.perms]
        /\ entitled' = [entitled EXCEPT ![c.key][c.to] = @ \ c.perms]
        /\ halfway' = halfway
    BY <1>2, <1>5 DEF AclStored, CallsKnow, AccessCall
  <2>2. ASSUME NEW k \in Keys, NEW u \in Users
        PROVE  /\ policies'[k][u] = policies[k][u] \
                      (IF k = c.key /\ u = c.to THEN c.perms ELSE {})
               /\ entitled'[k][u] = entitled[k][u] \
                      (IF k = c.key /\ u = c.to THEN c.perms ELSE {})
    BY <1>1, <1>2, <1>5, <2>1 DEF PolicyDoc
  <2> QED BY <1>2, <2>1, <2>2 DEF Promises, GrantsKept, NothingAdded
<1> QED BY <1>1, <1>3, <1>4, <1>5

(* When no calls overlap, every step keeps the promises.                   *)
LEMMA StepKeeps ==
    ASSUME SInv, NoOverlap, NoOverlap', NEW t \in Tasks, Step(t)
    PROVE  CallsKnow' /\ Promises'
<1> USE DEF SInv
<1>0. t \in DOMAIN pc /\ t \in DOMAIN call /\ t \in DOMAIN rec
      /\ t \in DOMAIN kdoc /\ t \in DOMAIN pdoc
  BY DEF TInv, TypeOK
<1>1. UNCHANGED stores => Promises'
  BY DEF stores, Promises, Decryptable, GrantsKept, NothingAdded
<1>2. ASSUME NEW o, Return(t, o), UNCHANGED stores
      PROVE  CallsKnow' /\ Promises'
  BY <1>1, <1>2, NoCaller
<1>3. ASSUME NEW k \in Keys, NEW usage \in Usages, Create(t, k, usage)
      PROVE  CallsKnow' /\ Promises'
  <2>1. CASE keys[k] # None
    BY <1>2, <1>3, <2>1 DEF Create
  <2>2. CASE keys[k] = None
    <3>1. /\ pc'[t] = "storeKey" /\ kdoc'[t] = keys /\ UNCHANGED stores
          /\ call'[t].op = "create_key" /\ call'[t].key = k
          /\ \E m \in Materials : rec'[t] = [usage |-> usage, versions |-> <<m>>]
      BY <1>0, <1>3, <2>2 DEF Create, Begin
    <3>2. KeyCall(t, call[t])' /\ AccessCall(t, call[t])'
      BY <1>3, <2>2, <3>1 DEF KeyCall, AccessCall, stores
    <3> QED BY <1>1, <3>1, <3>2, OnlyCaller
  <2> QED BY <2>1, <2>2
<1>4. ASSUME NEW k \in Keys, RotateKey(t, k)
      PROVE  CallsKnow' /\ Promises'
  <2>1. ASSUME keys[k] # None, keys[k].usage = "ENCRYPT_DECRYPT",
               NEW m \in Materials,
               rec' = [rec EXCEPT ![t] = [keys[k] EXCEPT !.versions = Append(@, m)]],
               Begin(t, [op |-> "rotate_key", key |-> k], "replaceKey"),
               UNCHANGED stores
        PROVE  CallsKnow' /\ Promises'
    <3> DEFINE r == [keys[k] EXCEPT !.versions = Append(@, m)]
    <3>1. Grows(keys[k], r)
      BY <2>1 DEF Grows
    <3> HIDE DEF r
    <3>2. /\ pc'[t] = "replaceKey" /\ rec'[t] = r
          /\ call'[t].op = "rotate_key" /\ call'[t].key = k
      BY <1>0, <2>1 DEF Begin, r
    <3>3. KeyCall(t, call[t])' /\ AccessCall(t, call[t])'
      BY <2>1, <3>1, <3>2 DEF KeyCall, AccessCall, stores
    <3> QED BY <1>1, <2>1, <3>2, <3>3, OnlyCaller
  <2> QED BY <1>2, <1>4, <2>1 DEF RotateKey
<1>5. ASSUME NEW k \in Keys, RevokeKey(t, k)
      PROVE  CallsKnow' /\ Promises'
  <2>1. CASE keys[k] = None
    BY <1>2, <1>5, <2>1 DEF RevokeKey
  <2>2. CASE keys[k] # None
    <3>1. /\ pc'[t] = "storeKey" /\ kdoc'[t] = keys /\ UNCHANGED stores
          /\ call'[t].op = "revoke_key" /\ call'[t].key = k
      BY <1>0, <1>5, <2>2 DEF RevokeKey, Begin
    <3>2. KeyCall(t, call[t])' /\ AccessCall(t, call[t])'
      BY <2>2, <3>1 DEF KeyCall, AccessCall, stores
    <3> QED BY <1>1, <3>1, <3>2, OnlyCaller
  <2> QED BY <2>1, <2>2
<1>6. CASE ReplaceKey(t)
  <2>1. CASE keys[call[t].key] = None
    BY <1>2, <1>6, <2>1 DEF ReplaceKey
  <2>2. CASE keys[call[t].key] # None
    <3>1. /\ pc'[t] = "storeKey" /\ kdoc'[t] = keys /\ UNCHANGED stores
          /\ UNCHANGED <<call, rec>> /\ call[t].op = "rotate_key"
          /\ Grows(keys[call[t].key], rec[t])
      BY <1>0, <1>6, <2>2
         DEF ReplaceKey, Goto, CallsKnow, KeyCall, TInv, CallsAgree
    <3> QED BY <1>1, <3>1, OnlyCaller DEF KeyCall, AccessCall, stores
  <2> QED BY <2>1, <2>2
<1>7. CASE StoreKey(t)
  <2>1. /\ Promises'
        /\ call[t].op = "revoke_key" /\ call'[t] = call[t] => Revoked(call[t])'
    BY <1>7, KeyStoredKeeps DEF StoreKey
  <2>2. CASE call[t].op = "revoke_key"
    <3>1. pc'[t] = "dropAcl" /\ UNCHANGED call
      BY <1>0, <1>7, <2>2 DEF StoreKey, Goto
    <3>2. KeyCall(t, call[t])' /\ AccessCall(t, call[t])'
      BY <2>1, <2>2, <3>1 DEF KeyCall, AccessCall, Revoked
    <3> QED BY <2>1, <3>1, <3>2, OnlyCaller
  <2>3. CASE call[t].op # "revoke_key"
    BY <1>7, <2>1, <2>3, NoCaller DEF StoreKey
  <2> QED BY <2>2, <2>3
<1>8. CASE DropAcl(t)
  <2>1. call[t].key \in Keys /\ call[t].op = "revoke_key"
    BY <1>8, CallFields DEF DropAcl, TInv, TypeOK, CallsAgree
  <2>2. CASE policies[call[t].key] = NoGrants
    <3>1. Promises'
      BY <1>8, <2>1, <2>2
         DEF DropAcl, Promises, Decryptable, GrantsKept, NothingAdded, NoGrants
    <3>2. pc[t] # "idle" /\ Return(t, "done")
      BY <1>8, <2>2 DEF DropAcl
    <3> QED BY <3>1, <3>2, NoCaller
  <2>3. CASE policies[call[t].key] # NoGrants
    <3>1. /\ pc'[t] = "storeAcl" /\ UNCHANGED <<call, stores>>
          /\ pdoc'[t] = [policies EXCEPT ![call[t].key] = NoGrants]
          /\ Revoked(call[t])
      BY <1>0, <1>8, <2>3 DEF DropAcl, Goto, CallsKnow, AccessCall, stores
    <3>2. KeyCall(t, call[t])' /\ AccessCall(t, call[t])'
      BY <2>1, <3>1 DEF KeyCall, AccessCall, Revoked, stores
    <3> QED BY <1>1, <3>1, <3>2, OnlyCaller
  <2> QED BY <2>2, <2>3
<1>9. ASSUME NEW k \in Keys, NEW op \in {"grant_key_access", "revoke_key_access"},
             NEW u \in Users, NEW P \in Asked, ChangeAccess(t, op, k, u, P)
      PROVE  CallsKnow' /\ Promises'
  <2>1. ASSUME Begin(t, [op |-> op, key |-> k, to |-> u, perms |-> P], "change"),
               keys[k] # None, u # Owner[k],
               op = "grant_key_access" => P \subseteq PermissionsFor(keys[k])
        PROVE  CallsKnow' /\ Promises'
    <3>1. /\ pc'[t] = "change" /\ UNCHANGED stores
          /\ call'[t] = [op |-> op, key |-> k, to |-> u, perms |-> P]
      BY <1>0, <1>9, <2>1 DEF ChangeAccess, Begin
    <3>2. Target(call[t])'
      BY <2>1, <3>1 DEF Target, stores
    <3>3. KeyCall(t, call[t])' /\ AccessCall(t, call[t])'
      BY <3>1, <3>2 DEF KeyCall, AccessCall
    <3> QED BY <1>1, <3>1, <3>3, OnlyCaller
  <2> QED BY <1>2, <1>9, <2>1 DEF ChangeAccess
<1>10. CASE Grant(t)
  <2>1. /\ pc'[t] = "storeAcl" /\ UNCHANGED <<call, stores>>
        /\ call[t].op = "grant_key_access"
        /\ pdoc'[t] = [policies EXCEPT ![call[t].key][call[t].to] =
                                           @ \cup call[t].perms]
        /\ Target(call[t])
    BY <1>0, <1>10 DEF Grant, Goto, CallsKnow, AccessCall
  <2>2. KeyCall(t, call[t])' /\ AccessCall(t, call[t])'
    BY <2>1 DEF KeyCall, AccessCall, Target, stores
  <2> QED BY <1>1, <2>1, <2>2, OnlyCaller
<1>11. CASE Withdraw(t)
  <2>1. CASE policies[call[t].key][call[t].to] = {}
    BY <1>2, <1>11, <2>1 DEF Withdraw
  <2>2. CASE policies[call[t].key][call[t].to] # {}
    <3>1. /\ pc'[t] = "storeAcl" /\ UNCHANGED <<call, stores>>
          /\ call[t].op = "revoke_key_access"
          /\ pdoc'[t] = [policies EXCEPT ![call[t].key][call[t].to] =
                                             @ \ call[t].perms]
          /\ Target(call[t])
      BY <1>0, <1>11, <2>2 DEF Withdraw, Goto, CallsKnow, AccessCall
    <3>2. KeyCall(t, call[t])' /\ AccessCall(t, call[t])'
      BY <3>1 DEF KeyCall, AccessCall, Target, stores
    <3> QED BY <1>1, <3>1, <3>2, OnlyCaller
  <2> QED BY <2>1, <2>2
<1>12. CASE StoreAcl(t)
  BY <1>12, AclStoredKeeps, NoCaller DEF StoreAcl
<1>13. ASSUME NEW k \in Keys, NEW u \in Users, NEW perm \in Permissions,
              Authorize(t, u, k, perm)
       PROVE  CallsKnow' /\ Promises'
  <2>1. ASSUME u = Owner[k] \/ perm \in policies[k][u],
               Begin(t, [op |-> "use", key |-> k, by |-> u, perm |-> perm], "use")
        PROVE  CallsKnow' /\ Promises'
    <3>1. /\ pc'[t] = "use" /\ UNCHANGED stores
          /\ call'[t].op = "use" /\ call'[t].key = k
          /\ call'[t].by = u /\ call'[t].perm = perm
      BY <1>0, <1>13, <2>1 DEF Authorize, Begin
    <3>2. KeyCall(t, call[t])' /\ AccessCall(t, call[t])'
      BY <2>1, <3>1 DEF KeyCall, AccessCall, stores
    <3> QED BY <1>1, <3>1, <3>2, OnlyCaller
  <2> QED BY <1>2, <1>13, <2>1 DEF Authorize
<1>14. CASE UseRefused(t) \/ Decrypt(t) \/ SignOrVerify(t) \/ Restart(t)
  BY <1>2, <1>14 DEF UseRefused, Decrypt, SignOrVerify, Restart
<1>15. CASE Encrypt(t)
  <2> DEFINE k == call[t].key
             v == Len(keys[k].versions)
             c == [key |-> k, version |-> v, material |-> keys[k].versions[v]]
  <2>1. k \in Keys /\ keys[k] # None
    BY <1>15, CallFields DEF Encrypt, UseBy, TInv, TypeOK, CallsAgree
  <2>2. v \in 1 .. v
    BY <2>1 DEF TInv, TypeOK, KeyDoc, Record
  <2>3. /\ issued' = issued \cup {c} /\ UNCHANGED <<keys, policies, entitled, halfway>>
        /\ Return(t, "used") /\ pc[t] # "idle"
    BY <1>15 DEF Encrypt, UseBy
  <2>4. Promises'
    BY <2>1, <2>2, <2>3 DEF Promises, Decryptable, GrantsKept, NothingAdded
  <2> QED BY <2>3, <2>4, NoCaller
<1>16. CASE Fault(t)
  <2>1. pc[t] # "idle" /\ Return(t, "INVALID_INPUT")
    BY <1>16 DEF Fault
  <2>2. Promises'
    BY <1>1, <1>16, KeyStoredKeeps, AclStoredKeeps DEF Fault
  <2> QED BY <2>1, <2>2, NoCaller
<1>17. \A k \in Keys : CreateKey(t, k) \/ CreateSigningKey(t, k) =>
          CallsKnow' /\ Promises'
  BY <1>3 DEF CreateKey, CreateSigningKey, Usages
<1> QED BY <1>4, <1>5, <1>6, <1>7, <1>8, <1>9, <1>10, <1>11, <1>12, <1>13,
           <1>14, <1>15, <1>16, <1>17 DEF Step

(* While changes do not overlap, each call knows the documents.            *)
LEMMA SerialInductive == Spec /\ []NoOverlap => []SInv
<1>1. Init => CallsKnow /\ Promises
  BY DEF Init, CallsKnow, KeyCall, AccessCall, Promises, Decryptable,
         GrantsKept, NothingAdded, NoGrants
<1>2. ASSUME SInv, NoOverlap, NoOverlap', [Next]_vars
      PROVE  CallsKnow' /\ Promises'
  <2>1. CASE UNCHANGED vars
    <3>1. CallsKnow'
      <4>1. CallsKnow
        BY <1>2 DEF SInv
      <4>2. ASSUME NEW u \in Tasks PROVE KeyCall(u, call[u])'
        BY <2>1, <4>1 DEF vars, CallsKnow, KeyCall
      <4>3. ASSUME NEW u \in Tasks PROVE AccessCall(u, call[u])'
        <5>1. AccessCall(u, call[u])
          BY <4>1 DEF CallsKnow
        <5> QED BY <2>1, <5>1 DEF vars, AccessCall, Target, Revoked
      <4> QED BY <4>2, <4>3 DEF CallsKnow
    <3>2. Promises'
      BY <1>2, <2>1 DEF vars, SInv, Promises, Decryptable, GrantsKept, NothingAdded
    <3> QED BY <3>1, <3>2
  <2> QED BY <1>2, <2>1, StepKeeps DEF Next
<1>3. SInv <=> TInv /\ CallsKnow /\ Promises
  BY DEF SInv
<1> QED BY <1>1, <1>2, <1>3, TypeInductive, PTL DEF Spec

(* When calls do not overlap, a key that was not revoked decrypts every    *)
(* ciphertext it ever produced, through rotations, creations of other      *)
(* keys, faults before and after a write, and restarts                     *)
(* (service.py:134-197).                                                   *)
THEOREM CiphertextsDecrypt == Spec /\ []NoOverlap => []Decryptable
<1>1. SInv => Decryptable
  BY DEF SInv, Promises
<1> QED BY <1>1, SerialInductive, PTL

(* When calls do not overlap, no grant is ever lost, whatever is granted,  *)
(* withdrawn or revoked for other users and keys (policy.py:130-186).      *)
THEOREM GrantsAreKept == Spec /\ []NoOverlap => []GrantsKept
<1>1. SInv => GrantsKept
  BY DEF SInv, Promises
<1> QED BY <1>1, SerialInductive, PTL

(* When calls do not overlap, a key carries no grant its owner did not     *)
(* make, unless a revocation of its name stopped between the two documents *)
(* (service.py:124-132).                                                   *)
THEOREM NoGrantIsInherited == Spec /\ []NoOverlap => []NoInheritedGrant
<1>1. SInv => NoInheritedGrant
  BY DEF SInv, Promises, NothingAdded, NoInheritedGrant
<1> QED BY <1>1, SerialInductive, PTL

(* When calls do not overlap, only the owner and those he granted the very *)
(* operation use a key, although the access list and the key are read one  *)
(* after the other (service.py:531-610).                                   *)
THEOREM UsersAreEntitled == Spec /\ []NoOverlap => UseIsEntitled
<1>1. ASSUME SInv, NEW t \in Tasks, pc[t] = "use",
             call[t].by # Owner[call[t].key], call[t].key \notin halfway
      PROVE  call[t].perm \in entitled[call[t].key][call[t].by]
  <2>1. /\ call[t].key \in Keys /\ call[t].by \in Users
        /\ call[t].perm \in policies[call[t].key][call[t].by]
    BY <1>1, CallFields
       DEF SInv, TInv, TypeOK, CallsAgree, CallsKnow, AccessCall
  <2> QED BY <1>1, <2>1 DEF SInv, Promises, NothingAdded
<1>2. SInv => \A t \in Tasks :
          /\ pc[t] = "use" /\ last'[t] = "used"
          /\ call[t].by # Owner[call[t].key]
          /\ call[t].key \notin halfway
          => call[t].perm \in entitled[call[t].key][call[t].by]
  BY <1>1
<1> QED BY <1>2, SerialInductive, PTL DEF UseIsEntitled
-----------------------------------------------------------------------------
(* The material a call will add to its key, at a version the key does not  *)
(* have yet, is in no other key and in no ciphertext.                      *)
LEMMA AddedIsFresh ==
    ASSUME TInv, OnePlace, Decryptable, NEW t \in Tasks, call[t] # None,
           call[t].key \in Keys, NEW m \in Materials, NEW i \in Nat, At(rec[t], m, i),
           keys[call[t].key] # None => i \notin 1 .. Len(keys[call[t].key].versions)
    PROVE  Abs!Fresh(m)
<1> DEFINE k == call[t].key
<1>1. Placed(m, k, i)
  BY DEF Placed
<1>2. ASSUME NEW l \in Keys, NEW j \in Nat, Placed(m, l, j)
      PROVE  l = k /\ j = i
  BY <1>1, <1>2 DEF OnePlace
<1>3. ASSUME NEW l \in Keys, keys[l] # None, NEW j \in 1 .. Len(keys[l].versions),
             keys[l].versions[j] = m
      PROVE  FALSE
  <2>1. j \in Nat /\ Placed(m, l, j)
    BY <1>3 DEF Placed, At, TInv, TypeOK, KeyDoc, Record
  <2> QED BY <1>2, <1>3, <2>1
<1>4. ASSUME NEW c \in issued, c.material = m PROVE FALSE
  <2>1. /\ c.key \in Keys /\ c.version \in Nat
        /\ Placed(m, c.key, c.version)
    BY <1>4 DEF TInv, TypeOK, Ciphertext, Placed
  <2>2. c.key = k /\ c.version = i
    BY <1>2, <2>1
  <2> QED BY <2>2 DEF Decryptable
<1> QED BY <1>3, <1>4 DEF Abs!Fresh

(* Writing the key document creates, rotates or revokes a key.             *)
LEMMA KeyStoredIsOneStep ==
    ASSUME SInv, OnePlace, NEW t \in Tasks, pc[t] = "storeKey", KeyStored(t)
    PROVE  Abs!Next
<1> USE DEF SInv
<1> DEFINE k == call[t].key
<1>1. /\ call[t] \in Call /\ call[t] # None /\ k \in Keys /\ keys \in KeyDoc
      /\ call[t].op \in {"create_key", "rotate_key", "revoke_key"} /\ Decryptable
  BY CallFields DEF TInv, TypeOK, CallsAgree, Promises
<1>2. keys' = [keys EXCEPT ![k] = rec[t]] /\ policies' = policies
  BY DEF KeyStored, CallsKnow, KeyCall
<1>3. call[t].op # "revoke_key" => issued' = issued
  BY DEF KeyStored
<1>4. CASE call[t].op = "create_key"
  <2>1. PICK usage \in Usages, m \in Materials :
           rec[t] = [usage |-> usage, versions |-> <<m>>]
    BY <1>4 DEF CallsKnow, KeyCall
  <2>2. keys[k] = None
    BY <1>4 DEF CallsKnow, KeyCall
  <2>3. rec[t] \in Record \cup {None} /\ [usage |-> usage, versions |-> <<m>>] \in Record
    BY DEF TInv, TypeOK, Record
  <2>4. At(rec[t], m, 1)
    BY <2>1, <2>3, NoneAssumption DEF At
  <2>5. Abs!Fresh(m)
    BY <1>1, <2>2, <2>4, AddedIsFresh
  <2>6. Abs!Create(k)
    BY <1>2, <1>3, <1>4, <2>1, <2>2, <2>5 DEF Abs!Create, Usages
  <2> QED BY <1>1, <2>6 DEF Abs!Next
<1>5. CASE call[t].op = "rotate_key"
  <2>1. Grows(keys[k], rec[t])
    BY <1>5 DEF CallsKnow, KeyCall
  <2>2. PICK m \in Materials : rec[t] = [keys[k] EXCEPT !.versions = Append(@, m)]
    BY <2>1 DEF Grows
  <2>3. keys[k] # None /\ keys[k].usage = "ENCRYPT_DECRYPT"
    BY <2>1 DEF Grows
  <2>4. keys[k] \in Record /\ keys[k].versions \in Seq(Materials)
    BY <1>1, <2>3 DEF KeyDoc, Record
  <2> DEFINE n == Len(keys[k].versions) + 1
  <2>5. /\ rec[t] # None /\ Len(rec[t].versions) = n
        /\ n \in Nat /\ n \notin 1 .. Len(keys[k].versions)
    <3>1. rec[t] # None /\ Len(rec[t].versions) = n
      BY <2>1, <2>4, GrowsKeeps
    <3>2. Len(keys[k].versions) \in Nat
      BY <2>4
    <3> HIDE DEF k
    <3> QED BY <3>1, <3>2
  <2>6. rec[t].versions = Append(keys[k].versions, m)
    BY <2>2, <2>4 DEF Record
  <2>7. rec[t].versions[n] = m
    <3>1. ASSUME NEW s \in Seq(Materials) PROVE Append(s, m)[Len(s) + 1] = m
      OBVIOUS
    <3> QED BY <2>4, <2>6, <3>1
  <2>8. At(rec[t], m, n)
    BY <2>5, <2>7 DEF At
  <2>9. Abs!Fresh(m)
    BY <1>1, <2>5, <2>8, AddedIsFresh
  <2>10. keys' = [keys EXCEPT ![k].versions = Append(@, m)]
    BY <1>1, <1>2, <2>2 DEF KeyDoc
  <2>11. Abs!Rotate(k)
    BY <1>2, <1>3, <1>5, <2>3, <2>9, <2>10 DEF Abs!Rotate
  <2> QED BY <1>1, <2>11 DEF Abs!Next
<1>6. CASE call[t].op = "revoke_key"
  <2>1. keys[k] # None /\ rec[t] = None
    BY <1>6 DEF CallsKnow, KeyCall, TInv, CallsAgree
  <2>2. issued' = {c \in issued : c.key # k}
    BY <1>6 DEF KeyStored
  <2>3. Abs!Revoke(k)
    BY <1>2, <2>1, <2>2 DEF Abs!Revoke
  <2> QED BY <1>1, <2>3 DEF Abs!Next
<1> QED BY <1>1, <1>4, <1>5, <1>6

(* Writing the policy document grants, withdraws or clears.                *)
LEMMA AclStoredIsOneStep ==
    ASSUME SInv, NEW t \in Tasks, pc[t] = "storeAcl", AclStored(t)
    PROVE  Abs!Next
<1> USE DEF SInv
<1> DEFINE c == call[t]
<1>1. /\ c \in Call /\ c.key \in Keys
      /\ c.op \in {"revoke_key", "grant_key_access", "revoke_key_access"}
      /\ c.op # "revoke_key" => c.to \in Users /\ c.perms \in SUBSET Permissions
  BY CallFields DEF TInv, TypeOK, CallsAgree
<1>2. policies' = pdoc[t] /\ UNCHANGED <<keys, issued>>
  BY DEF AclStored
<1>3. CASE c.op = "revoke_key"
  <2>1. keys[c.key] = None /\ pdoc[t] = [policies EXCEPT ![c.key] = NoGrants]
    BY <1>3 DEF CallsKnow, AccessCall, Revoked
  <2>2. Abs!Clear(c.key)
    BY <1>2, <2>1 DEF Abs!Clear, Abs!NoGrants, NoGrants
  <2> QED BY <1>1, <2>2 DEF Abs!Next
<1>4. CASE c.op = "grant_key_access"
  <2>1. /\ Target(c)
        /\ pdoc[t] = [policies EXCEPT ![c.key][c.to] = @ \cup c.perms]
    BY <1>4 DEF CallsKnow, AccessCall
  <2>2. Abs!Grant(c.key, c.to, c.perms)
    BY <1>2, <1>4, <2>1
       DEF Abs!Grant, Abs!PermissionsFor, PermissionsFor, Target
  <2> QED BY <1>1, <1>4, <2>1, <2>2 DEF Abs!Next, Target, Permissions
<1>5. CASE c.op = "revoke_key_access"
  <2>1. /\ Target(c)
        /\ pdoc[t] = [policies EXCEPT ![c.key][c.to] = @ \ c.perms]
    BY <1>5 DEF CallsKnow, AccessCall
  <2>2. Abs!Withdraw(c.key, c.to, c.perms)
    BY <1>2, <1>5, <2>1 DEF Abs!Withdraw, Target
  <2> QED BY <1>1, <1>5, <2>1, <2>2 DEF Abs!Next, Target, Permissions
<1> QED BY <1>1, <1>3, <1>4, <1>5

(* Every step of a call is one step of the promise or none.                *)
LEMMA StepIsOneStep ==
    ASSUME SInv, OnePlace, NEW t \in Tasks, Step(t)
    PROVE  [Abs!Next]_(Abs!vars)
<1> USE DEF Abs!vars
<1>1. ASSUME NEW k \in Keys,
             \/ CreateKey(t, k) \/ CreateSigningKey(t, k)
             \/ RotateKey(t, k) \/ RevokeKey(t, k)
      PROVE  UNCHANGED Abs!vars
  BY <1>1 DEF CreateKey, CreateSigningKey, Create, RotateKey, RevokeKey, stores
<1>2. ASSUME NEW k \in Keys, NEW u \in Users, NEW op, NEW P,
             ChangeAccess(t, op, k, u, P)
      PROVE  UNCHANGED Abs!vars
  BY <1>2 DEF ChangeAccess, stores
<1>3. ASSUME NEW k \in Keys, NEW u \in Users, NEW perm, Authorize(t, u, k, perm)
      PROVE  UNCHANGED Abs!vars
  BY <1>3 DEF Authorize, stores
<1>4. CASE ReplaceKey(t) \/ Grant(t) \/ Withdraw(t) \/ DropAcl(t)
  BY <1>4 DEF ReplaceKey, Grant, Withdraw, DropAcl, stores
<1>5. CASE UseRefused(t) \/ Decrypt(t) \/ SignOrVerify(t) \/ Restart(t)
  BY <1>5 DEF UseRefused, Decrypt, SignOrVerify, Restart, stores
<1>6. CASE StoreKey(t)
  BY <1>6, KeyStoredIsOneStep DEF StoreKey
<1>7. CASE StoreAcl(t)
  BY <1>7, AclStoredIsOneStep DEF StoreAcl
<1>8. CASE Fault(t)
  BY <1>8, KeyStoredIsOneStep, AclStoredIsOneStep DEF Fault, stores
<1>9. CASE Encrypt(t)
  <2> DEFINE c == call[t]
  <2>1. /\ c.key \in Keys /\ c.by \in Users /\ pc[t] = "use"
        /\ keys[c.key] # None /\ c.perm = "ENCRYPT"
        /\ c.perm \in PermissionsFor(keys[c.key])
    BY <1>9, CallFields DEF Encrypt, UseBy, SInv, TInv, TypeOK, CallsAgree
  <2>2. keys[c.key].usage = "ENCRYPT_DECRYPT"
    BY <2>1 DEF PermissionsFor
  <2>3. c.by = Owner[c.key] \/ "ENCRYPT" \in policies[c.key][c.by]
    BY <2>1 DEF SInv, CallsKnow, AccessCall
  <2>4. Abs!Encrypt(c.key, c.by)
    BY <1>9, <2>1, <2>2, <2>3 DEF Encrypt, Abs!Encrypt
  <2> QED BY <2>1, <2>4 DEF Abs!Next
<1> QED BY <1>1, <1>2, <1>3, <1>4, <1>5, <1>6, <1>7, <1>8, <1>9 DEF Step

(* If calls do not overlap, Transit implements its promise: each call      *)
(* takes effect at one moment and as a whole, or not at all, a revocation  *)
(* at two, whatever faults and restarts interrupt, for any tasks, users,   *)
(* keys and materials (service.py:92-197, 531-610, policy.py:130-186).     *)
THEOREM Implements == Spec /\ []NoOverlap => Refinement
<1>1. Init => Abs!Init
  BY DEF Init, Abs!Init, Abs!NoGrants, NoGrants
<1>2. ASSUME SInv, OnePlace, [Next]_vars PROVE [Abs!Next]_(Abs!vars)
  <2>1. CASE UNCHANGED vars
    BY <2>1 DEF vars, Abs!vars
  <2> QED BY <1>2, <2>1, StepIsOneStep DEF Next
<1> QED BY <1>1, <1>2, SerialInductive, PlaceInductive, PTL
    DEF Spec, Refinement, Abs!Spec
=============================================================================
