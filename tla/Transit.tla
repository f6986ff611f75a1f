------------------------------ MODULE Transit ------------------------------
(***************************************************************************)
(* Named keys, their rotation and their access lists:                      *)
(* src/transit/service.py over the key repository of                       *)
(* src/storage/repository.py and the access lists of src/policy.py.        *)
(*                                                                         *)
(* Two JSON documents are shared by all threads and processes, each        *)
(* replaced atomically and as a whole, neither locked: the keys and the    *)
(* policies.  An operation reads, decides and writes in separate steps;    *)
(* revoking a key writes both documents, one after the other.  Callers     *)
(* have passed the vault and the session gates.                            *)
(*                                                                         *)
(* A material names 32 random bytes, wrapped under the DEK; materials      *)
(* never repeat.  A record with a version list and the older form with one *)
(* material are the same thing: a sequence of materials.  A ciphertext     *)
(* names the key, version and material it was made with.                   *)
(***************************************************************************)
EXTENDS Integers, Sequences, FiniteSets

CONSTANTS Tasks,       \* threads of any process
          Users,
          Keys,        \* key identities: an owner and a name
          Owner,       \* Owner[k]: the owner in the identity
          Materials,
          Asked,       \* the sets of permissions that callers name
          MaxVersions, \* bound on the versions of a key
          Interrupts,  \* what may end a call early: "fault", "restart"
          None

ASSUME TransitAssumption ==
    /\ Owner \in [Keys -> Users]
    /\ MaxVersions \in Nat \ {0}
    /\ Interrupts \subseteq {"fault", "restart"}
    /\ None \notin Materials

VARIABLES keys,      \* keys[k]: the record in the key document, or None
          policies,  \* policies[k][u]: the grants in the policy document
          pc, call,  \* where the call of a task stands; what it was asked
          rec,       \* rec[t]: the record the call will store
          kdoc,      \* kdoc[t]: the key document it has read
          pdoc,      \* pdoc[t]: the policy document it will store
          last,      \* last[t]: the outcome of the task's last call
          drawn,     \* materials already drawn
          issued,    \* ciphertexts handed out under keys not revoked since
          entitled,  \* entitled[k][u]: grants made and not withdrawn since
                     \* the key was last revoked
          halfway    \* revoked keys whose access list is not yet removed
vars == <<keys, policies, pc, call, rec, kdoc, pdoc, last, drawn, issued,
          entitled, halfway>>
-----------------------------------------------------------------------------
Permissions == {"ENCRYPT", "DECRYPT", "SIGN", "VERIFY"}
Usages == {"ENCRYPT_DECRYPT", "SIGN_VERIFY"}
PermissionsFor(r) == IF r.usage = "ENCRYPT_DECRYPT"
                     THEN {"ENCRYPT", "DECRYPT"} ELSE {"SIGN", "VERIFY"}

Record == [usage : Usages, versions : Seq(Materials) \ {<<>>}]
KeyDoc == [Keys -> Record \cup {None}]

(* A policy without grants is removed from the document.                   *)
PolicyDoc == [Keys -> [Users -> SUBSET Permissions]]
NoGrants == [u \in Users |-> {}]

Ciphertext == [key : Keys, version : Nat, material : Materials]

Call == [op : {"create_key", "rotate_key", "revoke_key"}, key : Keys]
   \cup [op : {"grant_key_access", "revoke_key_access"}, key : Keys,
         to : Users, perms : SUBSET Permissions]
   \cup [op : {"use"}, key : Keys, by : Users, perm : Permissions]

ASSUME AskedAssumption == Asked \subseteq SUBSET Permissions

ASSUME NoneAssumption == None \notin Record /\ None \notin KeyDoc
                             /\ None \notin PolicyDoc /\ None \notin Call

Outcomes == {"none", "done", "used", "KEY_NOT_FOUND", "DUPLICATE_KEY",
             "INVALID_KEY_USAGE", "INVALID_INPUT", "PERMISSION_DENIED",
             "INVALID_CIPHERTEXT", "DECRYPTION_FAILED"}

Init == /\ keys = [k \in Keys |-> None]
        /\ policies = [k \in Keys |-> NoGrants]
        /\ pc = [t \in Tasks |-> "idle"]
        /\ call = [t \in Tasks |-> None]
        /\ rec = [t \in Tasks |-> None]
        /\ kdoc = [t \in Tasks |-> None]
        /\ pdoc = [t \in Tasks |-> None]
        /\ last = [t \in Tasks |-> "none"]
        /\ drawn = {}
        /\ issued = {}
        /\ entitled = [k \in Keys |-> NoGrants]
        /\ halfway = {}

stores == <<keys, policies, issued, entitled, halfway>>

Return(t, outcome) ==
    /\ pc' = [pc EXCEPT ![t] = "idle"]
    /\ call' = [call EXCEPT ![t] = None]
    /\ rec' = [rec EXCEPT ![t] = None]
    /\ kdoc' = [kdoc EXCEPT ![t] = None]
    /\ pdoc' = [pdoc EXCEPT ![t] = None]
    /\ last' = [last EXCEPT ![t] = outcome]

Begin(t, c, label) ==
    /\ call' = [call EXCEPT ![t] = c]
    /\ pc' = [pc EXCEPT ![t] = label]
    /\ last' = [last EXCEPT ![t] = "none"]

Goto(t, label) == pc' = [pc EXCEPT ![t] = label]
-----------------------------------------------------------------------------
(* Mutant: a key is created without a first version. *)
Create_Empty(t, k, usage) ==
    /\ pc[t] = "idle"
    /\ \/ /\ keys[k] # None
          /\ Return(t, "DUPLICATE_KEY")
       \/ /\ keys[k] = None
          /\ rec' = [rec EXCEPT ![t] = [usage |-> usage, versions |-> <<>>]]
          /\ kdoc' = [kdoc EXCEPT ![t] = keys]
          /\ Begin(t, [op |-> "create_key", key |-> k], "storeKey")
          /\ UNCHANGED pdoc
    /\ UNCHANGED <<drawn, stores>>

(* The repository reads the document and looks for the identity.           *)
Create(t, k, usage) ==
    /\ pc[t] = "idle"
    /\ \/ /\ keys[k] # None
          /\ Return(t, "DUPLICATE_KEY")
          /\ UNCHANGED drawn
       \/ /\ keys[k] = None
          /\ \E m \in Materials \ drawn :
               /\ drawn' = drawn \cup {m}
               /\ rec' = [rec EXCEPT ![t] = [usage |-> usage, versions |-> <<m>>]]
          /\ kdoc' = [kdoc EXCEPT ![t] = keys]
          /\ Begin(t, [op |-> "create_key", key |-> k], "storeKey")
          /\ UNCHANGED pdoc
    /\ UNCHANGED stores

CreateKey(t, k) == Create(t, k, "ENCRYPT_DECRYPT")
CreateSigningKey(t, k) == Create(t, k, "SIGN_VERIFY")

(* Mutants: the new version takes the place of the older ones; the new     *)
(* version wraps the current material again; a signing key is rotated too. *)
RotateKey_Drops(t, k) ==
    /\ pc[t] = "idle"
    /\ keys[k] # None
    /\ keys[k].usage = "ENCRYPT_DECRYPT"
    /\ \E m \in Materials \ drawn :
         /\ drawn' = drawn \cup {m}
         /\ rec' = [rec EXCEPT ![t] = [keys[k] EXCEPT !.versions = <<m>>]]
    /\ Begin(t, [op |-> "rotate_key", key |-> k], "replaceKey")
    /\ UNCHANGED <<kdoc, pdoc, stores>>

RotateKey_Rewraps(t, k) ==
    /\ pc[t] = "idle"
    /\ keys[k] # None
    /\ keys[k].usage = "ENCRYPT_DECRYPT"
    /\ Len(keys[k].versions) < MaxVersions
    /\ rec' = [rec EXCEPT ![t] =
           [keys[k] EXCEPT !.versions = Append(@, @[Len(@)])]]
    /\ Begin(t, [op |-> "rotate_key", key |-> k], "replaceKey")
    /\ UNCHANGED <<kdoc, pdoc, drawn, stores>>

RotateKey_AnyUsage(t, k) ==
    /\ pc[t] = "idle"
    /\ keys[k] # None
    /\ Len(keys[k].versions) < MaxVersions
    /\ \E m \in Materials \ drawn :
         /\ drawn' = drawn \cup {m}
         /\ rec' = [rec EXCEPT ![t] = [keys[k] EXCEPT !.versions = Append(@, m)]]
    /\ Begin(t, [op |-> "rotate_key", key |-> k], "replaceKey")
    /\ UNCHANGED <<kdoc, pdoc, stores>>

(* rotate_key takes the record, and builds one with a version more.        *)
RotateKey(t, k) ==
    /\ pc[t] = "idle"
    /\ \/ /\ keys[k] = None
          /\ Return(t, "KEY_NOT_FOUND")
          /\ UNCHANGED drawn
       \/ /\ keys[k] # None
          /\ keys[k].usage # "ENCRYPT_DECRYPT"
          /\ Return(t, "INVALID_KEY_USAGE")
          /\ UNCHANGED drawn
       \/ /\ keys[k] # None
          /\ keys[k].usage = "ENCRYPT_DECRYPT"
          /\ Len(keys[k].versions) < MaxVersions
          /\ \E m \in Materials \ drawn :
               /\ drawn' = drawn \cup {m}
               /\ rec' = [rec EXCEPT ![t] =
                      [keys[k] EXCEPT !.versions = Append(@, m)]]
          /\ Begin(t, [op |-> "rotate_key", key |-> k], "replaceKey")
          /\ UNCHANGED <<kdoc, pdoc>>
    /\ UNCHANGED stores

(* replace_key reads the document again, and replaces what is there.       *)
ReplaceKey(t) ==
    /\ pc[t] = "replaceKey"
    /\ \/ /\ keys[call[t].key] = None
          /\ Return(t, "KEY_NOT_FOUND")
       \/ /\ keys[call[t].key] # None
          /\ kdoc' = [kdoc EXCEPT ![t] = keys]
          /\ Goto(t, "storeKey")
          /\ UNCHANGED <<call, rec, pdoc, last>>
    /\ UNCHANGED <<drawn, stores>>

(* revoke_key first deletes the record.                                    *)
RevokeKey(t, k) ==
    /\ pc[t] = "idle"
    /\ \/ /\ keys[k] = None
          /\ Return(t, "KEY_NOT_FOUND")
       \/ /\ keys[k] # None
          /\ kdoc' = [kdoc EXCEPT ![t] = keys]
          /\ Begin(t, [op |-> "revoke_key", key |-> k], "storeKey")
          /\ UNCHANGED <<rec, pdoc>>
    /\ UNCHANGED <<drawn, stores>>

(* The key document is replaced.  Revocation ends what was promised about  *)
(* the ciphertexts and the grants of the key.                              *)
KeyStored(t) ==
    LET k == call[t].key
        revoked == call[t].op = "revoke_key"
    IN  /\ keys' = [kdoc[t] EXCEPT ![k] = rec[t]]
        /\ issued' = IF revoked THEN {c \in issued : c.key # k} ELSE issued
        /\ entitled' = IF revoked THEN [entitled EXCEPT ![k] = NoGrants]
                       ELSE entitled
        /\ halfway' = IF revoked THEN halfway \cup {k} ELSE halfway
        /\ UNCHANGED policies

StoreKey(t) ==
    /\ pc[t] = "storeKey"
    /\ KeyStored(t)
    /\ \/ /\ call[t].op = "revoke_key"
          /\ Goto(t, "dropAcl")
          /\ UNCHANGED <<call, rec, kdoc, pdoc, last>>
       \/ /\ call[t].op # "revoke_key"
          /\ Return(t, "done")
    /\ UNCHANGED drawn

(* Mutant: delete_resource does not find the policy of the key. *)
DropAcl_FindsNothing(t) ==
    /\ pc[t] = "dropAcl"
    /\ halfway' = halfway \ {call[t].key}
    /\ Return(t, "done")
    /\ UNCHANGED <<drawn, keys, policies, issued, entitled>>

(* delete_resource removes the policy of the revoked key, if there is one. *)
DropAcl(t) ==
    /\ pc[t] = "dropAcl"
    /\ \/ /\ policies[call[t].key] = NoGrants
          /\ halfway' = halfway \ {call[t].key}
          /\ Return(t, "done")
       \/ /\ policies[call[t].key] # NoGrants
          /\ pdoc' = [pdoc EXCEPT ![t] =
                          [policies EXCEPT ![call[t].key] = NoGrants]]
          /\ Goto(t, "storeAcl")
          /\ UNCHANGED <<call, rec, kdoc, last, halfway>>
    /\ UNCHANGED <<drawn, keys, policies, issued, entitled>>
-----------------------------------------------------------------------------
(* grant_key_access and revoke_key_access start by loading the key, whose  *)
(* usage says which permissions there are; no one is granted his own key.  *)
(* revoke_key_access without permissions withdraws them all.               *)
ChangeAccess(t, op, k, u, P) ==
    /\ pc[t] = "idle"
    /\ \/ /\ keys[k] = None
          /\ Return(t, "KEY_NOT_FOUND")
       \/ /\ keys[k] # None
          /\ P = {} \/ ~(P \subseteq PermissionsFor(keys[k])) \/ u = Owner[k]
          /\ Return(t, "INVALID_INPUT")
       \/ /\ keys[k] # None
          /\ \/ P # {} /\ P \subseteq PermissionsFor(keys[k])
             \/ P = Permissions /\ op = "revoke_key_access"
          /\ u # Owner[k]
          /\ Begin(t, [op |-> op, key |-> k, to |-> u, perms |-> P], "change")
          /\ UNCHANGED <<rec, kdoc, pdoc>>
    /\ UNCHANGED <<drawn, stores>>

(* Mutant: a grant replaces the earlier grants of the user. *)
Grant_Replaces(t) ==
    /\ pc[t] = "change"
    /\ call[t].op = "grant_key_access"
    /\ pdoc' = [pdoc EXCEPT ![t] =
          [policies EXCEPT ![call[t].key][call[t].to] = call[t].perms]]
    /\ Goto(t, "storeAcl")
    /\ UNCHANGED <<call, rec, kdoc, last, drawn, stores>>

(* PolicyRepository.grant reads the document and adds to it.               *)
Grant(t) ==
    /\ pc[t] = "change"
    /\ call[t].op = "grant_key_access"
    /\ pdoc' = [pdoc EXCEPT ![t] =
          [policies EXCEPT ![call[t].key][call[t].to] = @ \cup call[t].perms]]
    /\ Goto(t, "storeAcl")
    /\ UNCHANGED <<call, rec, kdoc, last, drawn, stores>>

(* PolicyRepository.revoke reads the document and takes away from it; it   *)
(* writes nothing when the user has no grant.                              *)
Withdraw(t) ==
    /\ pc[t] = "change"
    /\ call[t].op = "revoke_key_access"
    /\ \/ /\ policies[call[t].key][call[t].to] = {}
          /\ Return(t, "done")
       \/ /\ policies[call[t].key][call[t].to] # {}
          /\ pdoc' = [pdoc EXCEPT ![t] =
                [policies EXCEPT ![call[t].key][call[t].to] = @ \ call[t].perms]]
          /\ Goto(t, "storeAcl")
          /\ UNCHANGED <<call, rec, kdoc, last>>
    /\ UNCHANGED <<drawn, stores>>

(* The policy document is replaced.                                        *)
AclStored(t) ==
    LET c == call[t]
    IN  /\ policies' = pdoc[t]
        /\ entitled' =
              CASE c.op = "grant_key_access" ->
                     [entitled EXCEPT ![c.key][c.to] = @ \cup c.perms]
                [] c.op = "revoke_key_access" ->
                     [entitled EXCEPT ![c.key][c.to] = @ \ c.perms]
                [] OTHER -> entitled
        /\ halfway' = IF c.op = "revoke_key" THEN halfway \ {c.key} ELSE halfway
        /\ UNCHANGED <<keys, issued>>

StoreAcl(t) ==
    /\ pc[t] = "storeAcl"
    /\ AclStored(t)
    /\ Return(t, "done")
    /\ UNCHANGED drawn
-----------------------------------------------------------------------------
(* Mutant: the access list is consulted for any grant, not for the one     *)
(* that the operation needs.                                               *)
Authorize_AnyGrant(t, u, k, perm) ==
    /\ pc[t] = "idle"
    /\ \/ /\ u # Owner[k] /\ policies[k][u] = {}
          /\ Return(t, "PERMISSION_DENIED")
       \/ /\ u = Owner[k] \/ policies[k][u] # {}
          /\ Begin(t, [op |-> "use", key |-> k, by |-> u, perm |-> perm], "use")
          /\ UNCHANGED <<rec, kdoc, pdoc>>
    /\ UNCHANGED <<drawn, stores>>

(* encrypt, decrypt, sign and verify: the access list comes first ...      *)
Authorize(t, u, k, perm) ==
    /\ pc[t] = "idle"
    /\ \/ /\ u # Owner[k] /\ perm \notin policies[k][u]
          /\ Return(t, "PERMISSION_DENIED")
       \/ /\ u = Owner[k] \/ perm \in policies[k][u]
          /\ Begin(t, [op |-> "use", key |-> k, by |-> u, perm |-> perm], "use")
          /\ UNCHANGED <<rec, kdoc, pdoc>>
    /\ UNCHANGED <<drawn, stores>>

(* ... and then the key.  A missing key is a denial, too.                  *)
UseRefused(t) ==
    LET r == keys[call[t].key]
    IN  /\ pc[t] = "use"
        /\ \/ r = None /\ Return(t, "PERMISSION_DENIED")
           \/ /\ r # None /\ call[t].perm \notin PermissionsFor(r)
              /\ Return(t, "INVALID_KEY_USAGE")
        /\ UNCHANGED <<drawn, stores>>

UseBy(t, permissions) ==
    /\ pc[t] = "use"
    /\ call[t].perm \in permissions
    /\ keys[call[t].key] # None
    /\ call[t].perm \in PermissionsFor(keys[call[t].key])

(* Encryption takes the latest version, and names it in the ciphertext.    *)
Encrypt(t) ==
    LET k == call[t].key
        v == Len(keys[k].versions)
    IN  /\ UseBy(t, {"ENCRYPT"})
        /\ issued' = issued \cup {[key |-> k, version |-> v,
                                    material |-> keys[k].versions[v]]}
        /\ Return(t, "used")
        /\ UNCHANGED <<keys, policies, entitled, halfway, drawn>>

(* Decryption takes the version that the ciphertext names.  A version that *)
(* the key does not have, as in the ciphertext of an earlier key of this   *)
(* name, is refused.                                                       *)
Decrypt(t) ==
    LET k == call[t].key
        v == keys[k].versions
    IN  /\ UseBy(t, {"DECRYPT"})
        /\ \/ Return(t, "INVALID_CIPHERTEXT")
           \/ \E c \in {x \in issued : x.key = k} :
                 /\ c.version \in 1 .. Len(v)
                 /\ Return(t, IF v[c.version] = c.material THEN "used"
                              ELSE "DECRYPTION_FAILED")
        /\ UNCHANGED <<drawn, stores>>

(* Signing keys have one version, and leave no trace.                      *)
SignOrVerify(t) ==
    /\ UseBy(t, {"SIGN", "VERIFY"})
    /\ Return(t, "used")
    /\ UNCHANGED <<drawn, stores>>
-----------------------------------------------------------------------------
(* The operating system refuses a read or a write, before the document is  *)
(* replaced or, at the fsync of the directory, after it.                   *)
Fault(t) ==
    /\ "fault" \in Interrupts
    /\ \/ pc[t] # "idle" /\ UNCHANGED stores
       \/ pc[t] = "storeKey" /\ KeyStored(t)
       \/ pc[t] = "storeAcl" /\ AclStored(t)
    /\ Return(t, "INVALID_INPUT")
    /\ UNCHANGED drawn

(* The process of a call ends; both documents stay as they are.            *)
Restart(t) ==
    /\ "restart" \in Interrupts
    /\ pc[t] # "idle"
    /\ Return(t, "none")
    /\ UNCHANGED <<drawn, stores>>

Step(t) ==
    \/ \E k \in Keys :
          \/ CreateKey(t, k) \/ CreateSigningKey(t, k)
          \/ RotateKey(t, k)
          \/ RevokeKey(t, k)
          \/ \E op \in {"grant_key_access", "revoke_key_access"},
                u \in Users, P \in Asked :
                   ChangeAccess(t, op, k, u, P)
          \/ \E u \in Users, perm \in Permissions : Authorize(t, u, k, perm)
    \/ ReplaceKey(t) \/ StoreKey(t) \/ DropAcl(t)
    \/ Grant(t) \/ Withdraw(t) \/ StoreAcl(t)
    \/ UseRefused(t) \/ Encrypt(t) \/ Decrypt(t) \/ SignOrVerify(t)
    \/ Fault(t) \/ Restart(t)

Next == \E t \in Tasks : Step(t)

Spec == Init /\ [][Next]_vars
-----------------------------------------------------------------------------
TypeOK ==
    /\ keys \in KeyDoc
    /\ policies \in PolicyDoc
    /\ pc \in [Tasks -> {"idle", "storeKey", "replaceKey", "dropAcl", "change",
                         "storeAcl", "use"}]
    /\ call \in [Tasks -> Call \cup {None}]
    /\ rec \in [Tasks -> Record \cup {None}]
    /\ kdoc \in [Tasks -> KeyDoc \cup {None}]
    /\ pdoc \in [Tasks -> PolicyDoc \cup {None}]
    /\ last \in [Tasks -> Outcomes]
    /\ drawn \in SUBSET Materials
    /\ issued \in SUBSET Ciphertext
    /\ entitled \in PolicyDoc
    /\ halfway \in SUBSET Keys

(* A key that was not revoked decrypts every ciphertext it ever produced,  *)
(* through any number of rotations (specs/006-transit-key-rotation.md:5,   *)
(* service.py:134-197).                                                    *)
Decryptable ==
    \A c \in issued :
        /\ keys[c.key] # None
        /\ c.version \in 1 .. Len(keys[c.key].versions)
        /\ keys[c.key].versions[c.version] = c.material

(* However calls interleave, a ciphertext finds its material under the key *)
(* and the version it names or nowhere: no two versions of any keys share  *)
(* a material, and stale writes never move one (service.py:159-192).       *)
InPlace ==
    /\ \A k, l \in Keys :
          keys[k] # None /\ keys[l] # None =>
              \A i \in 1 .. Len(keys[k].versions), j \in 1 .. Len(keys[l].versions) :
                  keys[k].versions[i] = keys[l].versions[j] => k = l /\ i = j
    /\ \A c \in issued, k \in Keys : keys[k] # None =>
          \A i \in 1 .. Len(keys[k].versions) :
              keys[k].versions[i] = c.material => k = c.key /\ i = c.version

(* Everything the owner granted and did not withdraw is in the document    *)
(* (policy.py:130-186): no later grant, withdrawal or revocation of        *)
(* another key takes it away.                                              *)
GrantsKept ==
    \A k \in Keys, u \in Users : entitled[k][u] \subseteq policies[k][u]

(* A key carries no grant but those its owner made since it was created,   *)
(* even under a name that was used before, unless a revocation of that     *)
(* name stopped half-way, which leaves its access list to the next key     *)
(* (specs/003-policy-acl.md:38, service.py:124-132).                       *)
NoInheritedGrant ==
    \A k \in Keys \ halfway, u \in Users :
        keys[k] # None => policies[k][u] \subseteq entitled[k][u]

(* A user who is not the owner uses a key only while he holds the grant    *)
(* for that very operation (service.py:589-610).                           *)
UseIsEntitled ==
    [][\A t \in Tasks :
          /\ pc[t] = "use" /\ last'[t] = "used"
          /\ call[t].by # Owner[call[t].key]
          /\ call[t].key \notin halfway
          => call[t].perm \in entitled[call[t].key][call[t].by]]_vars

(* If calls do not overlap, each takes effect at one moment and as a       *)
(* whole, a revocation at two, whatever faults and restarts interrupt      *)
(* (service.py:92-197, 531-610, policy.py:130-186).                        *)
Abs == INSTANCE TransitAbs
Refinement == Abs!Spec
=============================================================================
