---------------------------- MODULE KeyReference ----------------------------
(***************************************************************************)
(* How a Transit ciphertext names its key: what encrypt writes and what    *)
(* decrypt reads, src/transit/service.py.                                  *)
(*                                                                         *)
(* A text is a sequence of tokens: words without separators, addresses     *)
(* (each with the one "@" that an address must have), "/", ":" and         *)
(* versions.  An address may itself contain "/" and ":", for EMAIL_RE      *)
(* excludes only blanks and a second "@" (policy.py:24).  Whether a key of *)
(* that name exists, and for whom, is Transit's matter.                    *)
(***************************************************************************)
EXTENDS Integers, Sequences, SequencesExt, Functions

CONSTANTS Words,
          Addresses,    \* the tokens with an "@"
          Users,        \* the accounts, canonical addresses
          References,   \* the texts that are passed as key_name
          Numerals,     \* Numerals[n]: the token that stands for version n
          None,
          Invalid       \* INVALID_INPUT of encrypt, INVALID_CIPHERTEXT of decrypt

Versions == 1 .. Len(Numerals)
Separators == {"/", ":"}
Payload == "payload"  \* Base64 of nonce, ciphertext and tag: no separator
Tokens == Words \cup Addresses \cup Separators \cup Range(Numerals)

ASSUME ReferenceAssumption ==
    /\ Numerals \in Seq(Range(Numerals))
    /\ \A m, n \in Versions : Numerals[m] = Numerals[n] => m = n
    /\ References \cup Users \subseteq Seq(Tokens)
    /\ Words \cap Addresses = {}
    /\ Separators \cap (Words \cup Addresses \cup Range(Numerals)) = {}
    /\ {"vault", "payload"} \cap (Words \cup Addresses) = {}

VARIABLES text,    \* the ciphertext, <<>> before it is made
          named,   \* does it name the owner of its key?
          meant,   \* the owner, name and version of the key it used
          read     \* what decrypt took the ciphertext for
referenceVars == <<text, named, meant, read>>
-----------------------------------------------------------------------------
NoOwner == <<>>         \* key_owner_email is not given

(* canonical_email accepts a text with exactly one "@" in it.              *)
IsAddress(s) == \E i \in 1 .. Len(s) :
    s[i] \in Addresses /\ \A j \in 1 .. Len(s) \ {i} : s[j] \notin Addresses

ASSUME UsersAssumption == \A u \in Users : IsAddress(u)

ASSUME InvalidAssumption ==
    /\ Invalid \notin [owner : Seq(Tokens), name : Seq(Tokens), qualified : BOOLEAN]
    /\ Invalid \notin [reference : Seq(Tokens), version : Versions]

Has(s, separator) == \E i \in 1 .. Len(s) : s[i] = separator
Before(s, separator) == SubSeq(s, 1, SelectInSeq(s, LAMBDA c : c = separator) - 1)
After(s, separator) == SubSeq(s, SelectInSeq(s, LAMBDA c : c = separator) + 1, Len(s))

(* _validate_key_name                                                      *)
ValidName(s) == s # <<>> /\ ~Has(s, ":")

(* _resolve_key_reference: what stands before the first "/" is the owner   *)
(* if it is an address; otherwise the whole text is the name.              *)
Resolve(requester, reference, explicit) ==
    LET embedded == Has(reference, "/") /\ IsAddress(Before(reference, "/"))
        owner == IF embedded THEN Before(reference, "/")
                 ELSE IF explicit # NoOwner THEN explicit ELSE requester
        name == IF embedded THEN After(reference, "/") ELSE reference
    IN  IF (embedded /\ explicit \notin {NoOwner, owner}) \/ ~ValidName(name)
        THEN Invalid
        ELSE [owner |-> owner, name |-> name,
              qualified |-> embedded \/ explicit # NoOwner]

(* Mutant: an owner who is passed apart is not written.                    *)
Format_NoOwner(key, reference, version) ==
    <<"vault", ":">> \o reference
    \o (IF version = 1 THEN <<>> ELSE <<":", Numerals[version]>>)
    \o <<":", Payload>>

(* Mutant: version 2 is written like version 1.                            *)
Format_OffByOne(key, reference, version) ==
    <<"vault", ":">>
    \o (IF key.qualified THEN key.owner \o <<"/">> \o key.name ELSE key.name)
    \o (IF version <= 2 THEN <<>> ELSE <<":", Numerals[version]>>)
    \o <<":", Payload>>

(* The end of encrypt.                                                     *)
Format(key, reference, version) ==
    <<"vault", ":">>
    \o (IF key.qualified THEN key.owner \o <<"/">> \o key.name ELSE key.name)
    \o (IF version = 1 THEN <<>> ELSE <<":", Numerals[version]>>)
    \o <<":", Payload>>

(* The start of decrypt: the parts between the colons, three or four.      *)
Parse(ciphertext) ==
    LET rest == After(ciphertext, ":")
        reference == Before(rest, ":")
        tail == After(rest, ":")
        version == Before(tail, ":")
    IN  IF ~Has(rest, ":") THEN Invalid
        ELSE IF tail = <<Payload>> THEN [reference |-> reference, version |-> 1]
        ELSE IF \E n \in Versions : version = <<Numerals[n]>>
                                    /\ After(tail, ":") = <<Payload>>
             THEN [reference |-> reference, version |-> CHOOSE n \in Versions : version = <<Numerals[n]>>]
             ELSE Invalid
-----------------------------------------------------------------------------
ReferenceInit == text = <<>> /\ named = FALSE /\ meant = None /\ read = None

(* encrypt; the version is the latest of the key.                          *)
Encrypt ==
    /\ text = <<>>
    /\ \E by \in Users, explicit \in Users \cup {NoOwner}, reference \in References :
          LET key == Resolve(by, reference, explicit)
          IN  /\ key # Invalid
              /\ \E version \in Versions :
                    /\ text' = Format(key, reference, version)
                    /\ meant' = [owner |-> key.owner, name |-> key.name,
                                 version |-> version]
              /\ named' = key.qualified
    /\ UNCHANGED read

(* decrypt, by anyone who was given the ciphertext.                        *)
Decrypt ==
    /\ text # <<>> /\ read = None
    /\ \E by \in Users, explicit \in Users \cup {NoOwner} :
          LET parts == Parse(text)
              key == IF parts = Invalid THEN Invalid
                     ELSE Resolve(by, parts.reference, explicit)
          IN  read' = [by |-> by, explicit |-> explicit,
                       key |-> IF key = Invalid THEN Invalid
                               ELSE [owner |-> key.owner, name |-> key.name,
                                     version |-> parts.version]]
    /\ UNCHANGED <<text, named, meant>>

(* Another pair of calls.                                                  *)
Anew == /\ read # None
        /\ text' = <<>> /\ named' = FALSE /\ meant' = None /\ read' = None

ReferenceNext == Encrypt \/ Decrypt \/ Anew

ReferenceSpec == ReferenceInit /\ [][ReferenceNext]_referenceVars
-----------------------------------------------------------------------------
(* The owner's address has none of the separators.                         *)
Plain(owner) == ~Has(owner, "/") /\ ~Has(owner, ":")

(* Whatever its name is made of, a key is found again: from a ciphertext   *)
(* that names the owner by everyone, and from one that does not by him and *)
(* by whoever says whose it is (specs/003-policy-acl.md:120-129,           *)
(* service.py:449-458 and 478-507).                                        *)
SameKey ==
    read # None /\ Plain(meant.owner)
    /\ \/ read.explicit = meant.owner
       \/ read.explicit = NoOwner /\ (named \/ read.by = meant.owner)
    => read.key = meant

(* No reading turns one version into another: a ciphertext is refused, or  *)
(* read with the number it was written with, even if the address of the    *)
(* owner is full of separators (specs/006-transit-key-rotation.md:103-124).*)
SameVersion ==
    read # None /\ read.key # Invalid => read.key.version = meant.version
=============================================================================
