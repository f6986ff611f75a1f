------------------------------- MODULE Shamir -------------------------------
(***************************************************************************)
(* Shamir's secret sharing over a prime field: src/shamir.py.              *)
(*                                                                         *)
(* The code shares 32 bytes over GF(257), each on its own.  Here one       *)
(* position is shared, over a small prime.  A byte is anything below       *)
(* Prime - 1, as 0..255 is below 257: a share may hold one value more than *)
(* a byte, so it is written with two digits, and a reconstruction may end  *)
(* in a value that is no byte.                                             *)
(***************************************************************************)
EXTENDS Integers, Sequences, FiniteSets, SequencesExt, Functions

CONSTANTS Prime,
          Configs,   \* the pairs [k, n] of a threshold and a number of shares
          Altered,   \* what the digits of a share may be altered to
          MaxGiven   \* bound on the number of shares presented together

IsPrime(n) == n > 1 /\ \A d \in 2 .. n - 1 : n % d # 0

ASSUME ShamirAssumption ==
    /\ Prime \in Nat /\ IsPrime(Prime)
    /\ Configs \subseteq [k : Nat, n : Nat]
    /\ \A c \in Configs : 2 <= c.k /\ c.k <= c.n /\ c.n < Prime
    /\ Altered \subseteq Nat \X Nat
    /\ MaxGiven \in Nat

VARIABLES phase,   \* "idle", "split", "combined"
          config,  \* the threshold and the number of shares
          poly,    \* the polynomial: the secret, then the coefficients drawn
          given,   \* the shares presented
          result   \* what combine_shares made of them
shamirVars == <<phase, config, poly, given, result>>
-----------------------------------------------------------------------------
Field == 0 .. Prime - 1
Base == Prime - 1
Bytes == 0 .. Base - 1
Refused == Prime    \* ShamirError

(* Mutant: the coefficients are bytes, like the secret.                    *)
Drawn_Bytes == Bytes

(* secrets.randbelow(PRIME)                                                *)
Drawn == Field

Polys(k) == {<<b>> \o c : b \in Bytes, c \in [1 .. k - 1 -> Drawn]}

(* _evaluate, by Horner's rule from the last coefficient on.               *)
Evaluate(p, x) == FoldRight(LAMBDA a, acc : (acc * x + a) % Prime, p, 0)

(* A value is written with two digits and read back, if it is in the field.*)
Digits(v) == <<v \div Base, v % Base>>
Number(d) == d[1] * Base + d[2]

(* split_secret.  The set is the identifier that all shares of one vault   *)
(* carry; the config is the threshold and the number of shares.            *)
Share(p, i) == [set |-> "ours", config |-> config, index |-> i,
                digits |-> Digits(Evaluate(p, i))]

(* What may be presented: a share handed out, one of another vault, one    *)
(* that says another threshold or number of shares, and one of any index   *)
(* whose value was altered, also to what is no value of the field.         *)
Presentable ==
    {Share(poly, i) : i \in 1 .. config.n}
    \cup {[set |-> "theirs", config |-> config, index |-> i, digits |-> <<0, 1>>] :
             i \in 1 .. config.n}
    \cup {[set |-> "ours", config |-> c, index |-> i, digits |-> <<0, 1>>] :
             c \in Configs \ {config}, i \in 1 .. config.n}
    \cup {[set |-> "ours", config |-> config, index |-> i, digits |-> d] :
             i \in 1 .. config.n, d \in Altered}

Reciprocal(x) == CHOOSE y \in Field : (x * y) % Prime = 1

Product(f) == FoldFunction(LAMBDA a, b : (a * b) % Prime, 1, f)

(* Lagrange's polynomial of share i at zero.                               *)
Weight(i, chosen) ==
    LET others == chosen \ {i}
    IN  (Product([j \in others |-> (0 - j) % Prime])
         * Reciprocal(Product([j \in others |-> (i - j) % Prime]))) % Prime

(* The shares with the lowest indexes.                                     *)
Select(shares) ==
    {s \in Range(shares) :
        Cardinality({r \in Range(shares) : r.index < s.index}) < config.k}

Interpolate(chosen) ==
    LET indexes == {s.index : s \in chosen}
        value(i) == Number((CHOOSE s \in chosen : s.index = i).digits)
    IN  FoldFunctionOnSet(+, 0, [i \in indexes |-> value(i) * Weight(i, indexes)],
                          indexes) % Prime

(* The share is of this vault and configuration.                           *)
Ours(s) == s.set = "ours" /\ s.config = config

(* Mutant: a share that is presented twice counts twice.                   *)
AcceptableShares_Twice(shares) ==
    /\ Len(shares) >= config.k
    /\ \A i \in 1 .. Len(shares) :
          /\ Number(shares[i].digits) \in Field
          /\ Ours(shares[i])

(* Mutant: one share more than the threshold is asked for.                 *)
AcceptableShares_OneMore(shares) ==
    /\ Len(shares) > config.k
    /\ \A i \in 1 .. Len(shares) :
          /\ Number(shares[i].digits) \in Field
          /\ Ours(shares[i])
          /\ \A j \in 1 .. i - 1 : shares[j].index # shares[i].index

(* _decode_share accepts every share, and combine_shares all of them.      *)
AcceptableShares(shares) ==
    /\ Len(shares) >= config.k
    /\ \A i \in 1 .. Len(shares) :
          /\ Number(shares[i].digits) \in Field
          /\ Ours(shares[i])
          /\ \A j \in 1 .. i - 1 : shares[j].index # shares[i].index

(* combine_shares                                                          *)
Combine(shares) ==
    IF ~AcceptableShares(shares) THEN Refused
    ELSE LET v == Interpolate(Select(shares)) IN IF v \in Bytes THEN v ELSE Refused
-----------------------------------------------------------------------------
Start == [k |-> 2, n |-> 2]
ShamirInit == /\ phase = "idle"
              /\ config = Start
              /\ poly = <<>>
              /\ given = <<>>
              /\ result = Refused

(* split_secret draws the coefficients.                                    *)
Split == /\ phase = "idle"
         /\ phase' = "split"
         /\ config' \in Configs
         /\ poly' \in Polys(config'.k)
         /\ UNCHANGED <<given, result>>

(* Custodians present some shares, in any order.                           *)
Present == /\ phase = "split"
           /\ phase' = "combined"
           /\ given' \in BoundedSeq(Presentable, MaxGiven)
           /\ result' = Combine(given')
           /\ UNCHANGED <<config, poly>>

(* And once more, from the start.                                          *)
Again == phase = "combined" /\ phase' = "idle" /\ config' = Start
         /\ poly' = <<>> /\ given' = <<>> /\ result' = Refused

ShamirNext == Split \/ Present \/ Again
ShamirSpec == ShamirInit /\ [][ShamirNext]_shamirVars
-----------------------------------------------------------------------------
Genuine(shares) == \A i \in 1 .. Len(shares) : shares[i] = Share(poly, shares[i].index)
Distinct(shares) == \A i, j \in 1 .. Len(shares) :
                        shares[i].index = shares[j].index => i = j

(* Shares that were handed out rebuild the secret from the threshold on,   *)
(* whichever they are and in whatever order, and no fewer do               *)
(* (specs/005-shamir-secret-sharing.md:30-45, shamir.py:87-140).           *)
Rebuilds ==
    phase = "combined" /\ Genuine(given) /\ Distinct(given) =>
        result = IF Len(given) >= config.k THEN poly[1] ELSE Refused

(* What a reconstruction accepts, however its shares came about, is the    *)
(* byte at zero of a polynomial of the right degree through as many of     *)
(* them as the threshold asks for; no share counts twice and none of       *)
(* another vault or configuration counts (shamir.py:106-140).              *)
NothingInvented ==
    phase = "combined" /\ result # Refused =>
        /\ result \in Bytes
        /\ \E q \in [1 .. config.k -> Field], chosen \in SUBSET Range(given) :
              /\ q[1] = result
              /\ Cardinality({s.index : s \in chosen}) = config.k
              /\ \A s \in chosen :
                    Ours(s) /\ Number(s.digits) = Evaluate(q, s.index)

(* Shares below the threshold say nothing: whichever they are, every       *)
(* secret is as likely as any other to have led to them                    *)
(* (specs/005-shamir-secret-sharing.md:51-52, shamir.py:67-76).            *)
Hiding ==
    phase = "split" =>
        \A few \in SUBSET (1 .. config.n) : Cardinality(few) < config.k =>
            LET fits(b) == {p \in Polys(config.k) :
                                /\ p[1] = b
                                /\ \A i \in few : Evaluate(p, i) = Evaluate(poly, i)}
            IN  \A b \in Bytes : Cardinality(fits(b)) = Cardinality(fits(0))
=============================================================================
