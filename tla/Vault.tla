------------------------------- MODULE Vault -------------------------------
(***************************************************************************)
(* The vault lifecycle: src/core/vault.py over the create-only metadata    *)
(* repository of src/storage/repository.py.                                *)
(*                                                                         *)
(* Several processes (an HTTP server, interactive command lines) share one *)
(* data directory.  Each process has one Vault object, whose _dek the      *)
(* threads of its pool read and write without a lock.  A task is one such  *)
(* thread; it runs one call at a time, and what a call does between two    *)
(* accesses to the metadata file or to _dek is one step.                   *)
(*                                                                         *)
(* A draw names everything one initialization draws at random: the DEK,    *)
(* the salt or the wrapping key, the nonces and the share-set id.  Draws   *)
(* never repeat.  Key derivation and AES-GCM are ideal: an envelope opens  *)
(* with the secret that sealed it and with nothing else.                   *)
(***************************************************************************)
EXTENDS Integers, FiniteSets

CONSTANTS Procs,        \* processes sharing the data directory
          Tasks,        \* threads that call the vault
          Home,         \* Home[t]: the process of task t
          Passphrases,  \* master passphrases an operator may type
          Strong,       \* those that validate_master_passphrase accepts
          Configs,      \* Shamir configurations [k, n] that may be asked for
          Draws,        \* names of random draws
          Foreign,      \* draws of another vault, whose shares may turn up here
          Presented,    \* the sets of shares that may be presented
          None

Share == [draw : Draws, index : Nat, intact : BOOLEAN]

ASSUME VaultAssumption ==
    /\ Home \in [Tasks -> Procs]
    /\ Strong \subseteq Passphrases
    /\ \A c \in Configs : c.k \in Int /\ c.n \in Int
    /\ Foreign \subseteq Draws
    /\ Presented \subseteq SUBSET Share
    /\ None \notin Draws

VARIABLES meta,    \* the metadata file: an envelope, or None when absent
          dek,     \* dek[p]: Vault._dek in process p
          pc,      \* pc[t]: where the call of task t stands
          sealing, \* sealing[t]: the envelope initialize has constructed
          cred,    \* cred[t]: the credential unlock was given
          seen,    \* seen[t]: the envelope unlock has read
          last,    \* last[t]: the outcome of task t's last call
          drawn,   \* the draws already used
          acked    \* the envelopes whose initialization was reported done
vars == <<meta, dek, pc, sealing, cred, seen, last, drawn, acked>>
-----------------------------------------------------------------------------
MinThreshold == 2
MaxShares == 255

ValidConfig(c) == /\ c.k >= MinThreshold
                  /\ c.k <= c.n
                  /\ c.n <= MaxShares

(* The metadata envelope, by its unlock descriptor.  validate_metadata     *)
(* accepts exactly one descriptor.                                         *)
PassphraseEnvelopes == [mode : {"kdf"}, key : Strong, dek : Draws]
ShamirEnvelopes ==
    [mode : {"shamir"}, key : {c \in Configs : ValidConfig(c)}, dek : Draws]
Envelopes == PassphraseEnvelopes \cup ShamirEnvelopes

Credentials == [mode : {"kdf"}, given : Passphrases]
                   \cup [mode : {"shamir"}, given : Presented]

(* What initialize and initialize_shamir are asked to seal with.           *)
Requests == [mode : {"kdf"}, key : Passphrases]
                \cup [mode : {"shamir"}, key : Configs]

(* Mutant: initialize_shamir forgets validate_config. *)
Acceptable_NoConfigCheck(r) ==
    r.mode = "kdf" => r.key \in Strong

Acceptable(r) == \/ r.mode = "kdf" /\ r.key \in Strong
                 \/ r.mode = "shamir" /\ ValidConfig(r.key)

Outcomes == {"none", "initialized", "unlocked", "ALREADY_INITIALIZED",
             "INVALID_INPUT", "UNLOCK_FAILED"}

(* combine_shares rebuilds the wrapping key from the k shares of lowest    *)
(* index, after it has checked the set and the index of every share; what  *)
(* it rebuilds from a damaged share does not unwrap the DEK.  A list that  *)
(* does not decode, or that names an index twice, is refused.              *)
Reconstructs(S, m) ==
    LET before(s) == {u \in S : u.index < s.index}
    IN  /\ Cardinality(S) >= m.key.k
        /\ \A s \in S : s.draw = m.dek /\ s.index \in 1 .. m.key.n
        /\ \A s, u \in S : s.index = u.index => s = u
        /\ \A s \in S : Cardinality(before(s)) < m.key.k => s.intact

Opens(c, m) ==
    /\ c.mode = m.mode
    /\ \/ c.mode = "kdf" /\ c.given = m.key
       \/ c.mode = "shamir" /\ Reconstructs(c.given, m)

ASSUME NoneAssumption == None \notin Envelopes /\ None \notin Credentials

(* Shares leave the program only with the answer of initialize_shamir.     *)
HandedOut == Foreign \cup {m.dek : m \in {e \in acked : e.mode = "shamir"}}

CanPresent(c) ==
    c.mode = "shamir" => \A s \in c.given : s.draw \in HandedOut
-----------------------------------------------------------------------------
Init == /\ meta = None
        /\ dek = [p \in Procs |-> None]
        /\ pc = [t \in Tasks |-> "idle"]
        /\ sealing = [t \in Tasks |-> None]
        /\ cred = [t \in Tasks |-> None]
        /\ seen = [t \in Tasks |-> None]
        /\ last = [t \in Tasks |-> "none"]
        /\ drawn = Foreign
        /\ acked = {}

(* A call ends: nothing of it is kept but its outcome.                     *)
Return(t, outcome) ==
    /\ pc' = [pc EXCEPT ![t] = "idle"]
    /\ last' = [last EXCEPT ![t] = outcome]
    /\ sealing' = [sealing EXCEPT ![t] = None]
    /\ cred' = [cred EXCEPT ![t] = None]
    /\ seen' = [seen EXCEPT ![t] = None]

SetDek(t, d) == dek' = [dek EXCEPT ![Home[t]] = d]

(* initialize / initialize_shamir: the first look at the file, and the     *)
(* checks of the request, leave _dek alone.                                *)
InitRefused(t, r) ==
    /\ pc[t] = "idle"
    /\ meta # None \/ ~Acceptable(r)
    /\ Return(t, IF meta # None THEN "ALREADY_INITIALIZED" ELSE "INVALID_INPUT")
    /\ UNCHANGED <<meta, dek, drawn, acked>>

InitBegin(t, r) ==
    /\ pc[t] = "idle"
    /\ meta = None
    /\ Acceptable(r)
    /\ \E d \in Draws \ drawn :
          /\ drawn' = drawn \cup {d}
          /\ sealing' = [sealing EXCEPT
                            ![t] = [mode |-> r.mode, key |-> r.key, dek |-> d]]
    /\ pc' = [pc EXCEPT ![t] = "check"]
    /\ last' = [last EXCEPT ![t] = "none"]
    /\ UNCHANGED <<meta, dek, cred, seen, acked>>

(* Mutant: the new DEK is kept in memory before it is published. *)
CreateCheck_KeepsDek(t) ==
    /\ pc[t] = "check"
    /\ meta = None
    /\ SetDek(t, sealing[t].dek)
    /\ pc' = [pc EXCEPT ![t] = "link"]
    /\ UNCHANGED <<meta, sealing, cred, seen, last, drawn, acked>>

(* MetadataRepository.create looks again, then writes a temporary file.    *)
CreateCheck(t) ==
    /\ pc[t] = "check"
    /\ meta = None
    /\ pc' = [pc EXCEPT ![t] = "link"]
    /\ UNCHANGED <<meta, dek, sealing, cred, seen, last, drawn, acked>>

(* Mutant: os.replace where the code has os.link. *)
CreateLink_Replaces(t) ==
    /\ pc[t] = "link"
    /\ meta' = sealing[t]
    /\ pc' = [pc EXCEPT ![t] = "sync"]
    /\ UNCHANGED <<dek, sealing, cred, seen, last, drawn, acked>>

(* os.link publishes the file, or fails when the name is taken.            *)
CreateLink(t) ==
    /\ pc[t] = "link"
    /\ meta = None
    /\ meta' = sealing[t]
    /\ pc' = [pc EXCEPT ![t] = "sync"]
    /\ UNCHANGED <<dek, sealing, cred, seen, last, drawn, acked>>

(* Either look finds that another initialization came first.               *)
CreateLost(t) ==
    /\ pc[t] \in {"check", "link"}
    /\ meta # None
    /\ SetDek(t, None)
    /\ Return(t, "ALREADY_INITIALIZED")
    /\ UNCHANGED <<meta, drawn, acked>>

(* The operating system refuses a call: the directory, the temporary file  *)
(* or the link before the file is published; the fsync of the directory or *)
(* the removal of the temporary file after it.                             *)
CreateFault(t) ==
    /\ pc[t] \in {"check", "link", "sync"}
    /\ SetDek(t, None)
    /\ Return(t, "INVALID_INPUT")
    /\ UNCHANGED <<meta, drawn, acked>>

(* Mutants: the shares are answered before the file is published; a new    *)
(* vault is left unlocked.                                                 *)
InitDone_BeforeLink(t) ==
    /\ pc[t] \in {"link", "sync"}
    /\ acked' = acked \cup {sealing[t]}
    /\ SetDek(t, None)
    /\ Return(t, "initialized")
    /\ UNCHANGED <<meta, drawn>>

InitDone_StaysUnlocked(t) ==
    /\ pc[t] = "sync"
    /\ acked' = acked \cup {sealing[t]}
    /\ SetDek(t, sealing[t].dek)
    /\ Return(t, "initialized")
    /\ UNCHANGED <<meta, drawn>>

(* create returns; initialize_shamir answers with the shares.              *)
InitDone(t) ==
    /\ pc[t] = "sync"
    /\ acked' = acked \cup {sealing[t]}
    /\ SetDek(t, None)
    /\ Return(t, "initialized")
    /\ UNCHANGED <<meta, drawn>>
-----------------------------------------------------------------------------
(* unlock / unlock_with_shares drop the DEK before anything else.          *)
UnlockBegin(t, c) ==
    /\ pc[t] = "idle"
    /\ CanPresent(c)
    /\ SetDek(t, None)
    /\ cred' = [cred EXCEPT ![t] = c]
    /\ pc' = [pc EXCEPT ![t] = "read"]
    /\ last' = [last EXCEPT ![t] = "none"]
    /\ UNCHANGED <<meta, sealing, seen, drawn, acked>>

UnlockRead(t) ==
    /\ pc[t] = "read"
    /\ meta # None
    /\ seen' = [seen EXCEPT ![t] = meta]
    /\ pc' = [pc EXCEPT ![t] = "unwrap"]
    /\ UNCHANGED <<meta, dek, sealing, cred, last, drawn, acked>>

(* Mutant: only the mode of the credential is looked at. *)
UnlockDone_AnySecret(t) ==
    /\ pc[t] = "unwrap"
    /\ cred[t].mode = seen[t].mode
    /\ SetDek(t, seen[t].dek)
    /\ Return(t, "unlocked")
    /\ UNCHANGED <<meta, drawn, acked>>

UnlockDone(t) ==
    /\ pc[t] = "unwrap"
    /\ Opens(cred[t], seen[t])
    /\ SetDek(t, seen[t].dek)
    /\ Return(t, "unlocked")
    /\ UNCHANGED <<meta, drawn, acked>>

(* The file is missing or unreadable, or the credential does not open it.  *)
UnlockFail(t) ==
    /\ \/ pc[t] = "read"
       \/ pc[t] = "unwrap" /\ ~Opens(cred[t], seen[t])
    /\ SetDek(t, None)
    /\ Return(t, "UNLOCK_FAILED")
    /\ UNCHANGED <<meta, drawn, acked>>

Cleared(p, f, v) == [t \in Tasks |-> IF Home[t] = p THEN v ELSE f[t]]

(* A process ends, at any point of its calls, and is started again: a new  *)
(* Vault object holds no DEK, and only the metadata file survives.         *)
Restart(p) ==
    /\ dek' = [dek EXCEPT ![p] = None]
    /\ pc' = Cleared(p, pc, "idle")
    /\ sealing' = Cleared(p, sealing, None)
    /\ cred' = Cleared(p, cred, None)
    /\ seen' = Cleared(p, seen, None)
    /\ last' = Cleared(p, last, "none")
    /\ UNCHANGED <<meta, drawn, acked>>

Initialize(t) == \/ \E r \in Requests : InitRefused(t, r) \/ InitBegin(t, r)
                 \/ CreateCheck(t) \/ CreateLink(t) \/ CreateLost(t)
                 \/ CreateFault(t) \/ InitDone(t)

Unlock(t) == \/ \E c \in Credentials : UnlockBegin(t, c)
             \/ UnlockRead(t) \/ UnlockDone(t) \/ UnlockFail(t)

Next == \/ \E t \in Tasks : Initialize(t) \/ Unlock(t)
        \/ \E p \in Procs : Restart(p)

Spec == Init /\ [][Next]_vars
-----------------------------------------------------------------------------
TypeOK ==
    /\ meta \in Envelopes \cup {None}
    /\ dek \in [Procs -> Draws \cup {None}]
    /\ pc \in [Tasks -> {"idle", "check", "link", "sync", "read", "unwrap"}]
    /\ sealing \in [Tasks -> Envelopes \cup {None}]
    /\ cred \in [Tasks -> Credentials \cup {None}]
    /\ seen \in [Tasks -> Envelopes \cup {None}]
    /\ last \in [Tasks -> Outcomes]
    /\ drawn \in SUBSET Draws
    /\ acked \in SUBSET Envelopes

(* A process that is unlocked holds the DEK of the envelope on disk: no    *)
(* race of initializations, unlocks and restarts lets a process encrypt    *)
(* under a key the metadata file cannot give back (vault.py:51-107).       *)
DekIsPersisted ==
    \A p \in Procs : dek[p] # None => meta # None /\ dek[p] = meta.dek

(* An initialization that was reported as done is the one on disk, so at   *)
(* most one ever is, however many processes race (repository.py:98-140);   *)
(* shares handed to the operator belong to that envelope.                  *)
AckedIsPersisted == \A m \in acked : meta = m

(* The abstract specification of the DEK.                                  *)
Abs == INSTANCE VaultAbs WITH sealed <- meta, open <- dek
Refinement == Abs!Spec

(* A process becomes unlocked only by a call that was given, before it     *)
(* read the file, a credential that opens the envelope now on disk, made   *)
(* only of secrets the operators of this vault were given (vault.py:80).   *)
OpenedByCredential ==
    [][\A p \in Procs : dek[p] = None /\ dek'[p] # None =>
          \E t \in Tasks : /\ Home[t] = p
                           /\ cred[t] # None
                           /\ CanPresent(cred[t])
                           /\ meta # None
                           /\ Opens(cred[t], meta)]_vars

(* In a process with one caller the lock state is the one its last call    *)
(* reported: unlocked after a success, locked after a failure to unlock    *)
(* and after an initialization, whatever other processes do meanwhile.     *)
Alone(t) == \A u \in Tasks : Home[u] = Home[t] => u = t
ReportedStateHolds ==
    \A t \in Tasks : Alone(t) =>
        /\ last[t] = "unlocked" => dek[Home[t]] # None
        /\ last[t] \in {"UNLOCK_FAILED", "initialized"} => dek[Home[t]] = None
=============================================================================
