----------------------------- MODULE TransitAbs -----------------------------
(***************************************************************************)
(* What Mini Vault promises about its Transit keys and their access lists, *)
(* if calls do not overlap: every call takes effect at one moment and as a *)
(* whole, or not at all.  Only a revocation has two moments, and it may    *)
(* stop between them: the key is gone, and then its access list.           *)
(***************************************************************************)
EXTENDS Naturals, Sequences

CONSTANTS Users, Keys, Owner, Materials,  \* as in Transit
          None

VARIABLES keys,      \* keys[k]: the usage and the versions of a key, or None
          policies,  \* policies[k][u]: what user u may do with key k
          issued     \* the ciphertexts made under keys not revoked since

vars == <<keys, policies, issued>>

PermissionsFor(r) == IF r.usage = "ENCRYPT_DECRYPT"
                     THEN {"ENCRYPT", "DECRYPT"} ELSE {"SIGN", "VERIFY"}
NoGrants == [u \in Users |-> {}]

(* A material that no key and no ciphertext has.                           *)
Fresh(m) ==
    /\ \A k \in Keys : keys[k] # None =>
          \A i \in 1 .. Len(keys[k].versions) : keys[k].versions[i] # m
    /\ \A c \in issued : c.material # m

Init == /\ keys = [k \in Keys |-> None]
        /\ policies = [k \in Keys |-> NoGrants]
        /\ issued = {}

Create(k) ==
    /\ keys[k] = None
    /\ \E usage \in {"ENCRYPT_DECRYPT", "SIGN_VERIFY"}, m \in Materials :
          /\ Fresh(m)
          /\ keys' = [keys EXCEPT ![k] = [usage |-> usage, versions |-> <<m>>]]
    /\ UNCHANGED <<policies, issued>>

(* A new version comes behind the older ones, which all stay.              *)
Rotate(k) ==
    /\ keys[k] # None
    /\ keys[k].usage = "ENCRYPT_DECRYPT"
    /\ \E m \in Materials :
          /\ Fresh(m)
          /\ keys' = [keys EXCEPT ![k].versions = Append(@, m)]
    /\ UNCHANGED <<policies, issued>>

Revoke(k) ==
    /\ keys[k] # None
    /\ keys' = [keys EXCEPT ![k] = None]
    /\ issued' = {c \in issued : c.key # k}
    /\ UNCHANGED policies

(* The second moment of a revocation.                                      *)
Clear(k) ==
    /\ keys[k] = None
    /\ policies' = [policies EXCEPT ![k] = NoGrants]
    /\ UNCHANGED <<keys, issued>>

Grant(k, u, P) ==
    /\ keys[k] # None
    /\ P \subseteq PermissionsFor(keys[k])
    /\ policies' = [policies EXCEPT ![k][u] = @ \cup P]
    /\ UNCHANGED <<keys, issued>>

Withdraw(k, u, P) ==
    /\ keys[k] # None
    /\ policies' = [policies EXCEPT ![k][u] = @ \ P]
    /\ UNCHANGED <<keys, issued>>

(* Only the owner and those he allowed encrypt, and with the last version. *)
Encrypt(k, u) ==
    /\ keys[k] # None
    /\ keys[k].usage = "ENCRYPT_DECRYPT"
    /\ u = Owner[k] \/ "ENCRYPT" \in policies[k][u]
    /\ LET v == Len(keys[k].versions)
       IN  issued' = issued \cup {[key |-> k, version |-> v,
                                   material |-> keys[k].versions[v]]}
    /\ UNCHANGED <<keys, policies>>

(* No one is granted anything on his own keys, nor has it withdrawn.       *)
Next ==
    \E k \in Keys :
        \/ Create(k) \/ Rotate(k) \/ Revoke(k) \/ Clear(k)
        \/ \E u \in Users \ {Owner[k]},
              P \in SUBSET {"ENCRYPT", "DECRYPT", "SIGN", "VERIFY"} :
                 Grant(k, u, P) \/ Withdraw(k, u, P)
        \/ \E u \in Users : Encrypt(k, u)

Spec == Init /\ [][Next]_vars
=============================================================================
