------------------------------ MODULE MCCodecs ------------------------------
(***************************************************************************)
(* Small instances of the two pure parts, Shamir and KeyReference.  They   *)
(* have nothing to do with each other: one is exercised while the other    *)
(* has not begun.                                                          *)
(***************************************************************************)
EXTENDS Shamir, KeyReference

CONSTANTS word, alice, bob, v1, v2, v3  \* alice, bob: addresses

MCConfigs == {[k |-> 2, n |-> 4], [k |-> 3, n |-> 4]}

(* Over five elements: the byte 0, the one value that is none, and the     *)
(* first that is outside the field.                                        *)
MCAltered == {<<0, 0>>, <<1, 0>>, <<1, 1>>}

(* Two plain addresses, and two that contain a separator.                  *)
MCUsers == {<<alice>>, <<bob>>, <<bob, "/", word>>, <<word, ":", bob>>}

(* Short texts of all tokens, and the keys of every user by their full     *)
(* names, also one whose name looks like the full name of another.         *)
Pieces == {word, alice, bob, "/", ":", v2}
MCNumerals == <<v1, v2, v3>>
MCReferences ==
    BoundedSeq(Pieces, 3)
    \cup {u \o <<"/">> \o name : u \in MCUsers,
             name \in BoundedSeq(Pieces, 2) \cup {<<alice, "/", word>>}}

Init == ShamirInit /\ ReferenceInit
Next == \/ text = <<>> /\ ShamirNext /\ UNCHANGED referenceVars
        \/ phase = "idle" /\ ReferenceNext /\ UNCHANGED shamirVars
Spec == Init /\ [][Next]_<<shamirVars, referenceVars>>
=============================================================================
