----------------------------- MODULE MCService ------------------------------
(***************************************************************************)
(* Small instances of Service: alice owns one secret and one key, which    *)
(* she may share with bob.                                                 *)
(***************************************************************************)
EXTENDS Service, TLC

CONSTANTS alice, bob, s, k, dek,
          one, two  \* two processes

MCOwner == [r \in Resources |-> alice]
MCEnvelopes == {[dek |-> dek]}

(* alice works in one process, bob in the other: changes of shares do not  *)
(* overlap.                                                                *)
OneManager == (one :> {alice} @@ two :> {bob})
Apart == {one :> "library" @@ two :> "http", one :> "menu" @@ two :> "menu",
          one :> "cli" @@ two :> "command"}

(* alice works in both.                                                    *)
TwoManagers == (one :> {alice} @@ two :> {alice, bob})
Together == {one :> "library" @@ two :> "menu"}
=============================================================================
