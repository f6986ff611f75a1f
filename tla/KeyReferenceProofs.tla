------------------------- MODULE KeyReferenceProofs -------------------------
(***************************************************************************)
(* Proofs about KeyReference for every set of words, addresses, accounts   *)
(* and references, of any length, and any number of versions.              *)
(*                                                                         *)
(* No induction over texts is needed: a text is split at the first place   *)
(* of a separator, and what encrypt wrote is a concatenation whose first   *)
(* separators are known.                                                   *)
(***************************************************************************)
EXTENDS KeyReference, SequenceTheorems, WellFoundedInduction, TLAPS

(* All texts: references, and the ciphertexts made of them.                *)
Texts == Seq(Tokens \cup {"vault", Payload})

(* A text is cut at the first place of a token ...                         *)
LEMMA FirstAt ==
    ASSUME NEW s, NEW c, Len(s) \in Nat, NEW n \in 1 .. Len(s), s[n] = c,
           \A i \in 1 .. n - 1 : s[i] # c
    PROVE  /\ Before(s, c) = SubSeq(s, 1, n - 1)
           /\ After(s, c) = SubSeq(s, n + 1, Len(s))
<1> DEFINE I == {i \in 1 .. Len(s) : s[i] = c}
<1>1. n \in I /\ (\A i \in I : n <= i) /\ I \subseteq Nat
  OBVIOUS
<1>2. Min(I) = n
  <2> HIDE DEF I
  <2>1. \A m \in I : (\A i \in I : m <= i) => m = n
    BY <1>1
  <2> QED BY <1>1, <2>1 DEF Min
<1> QED BY <1>1, <1>2 DEF Before, After, SelectInSeq

(* ... and there is one in every text that has the token.                  *)
LEMMA FirstPlace ==
    ASSUME NEW s \in Texts, NEW c, Has(s, c)
    PROVE  \E n \in 1 .. Len(s) : s[n] = c /\ \A i \in 1 .. n - 1 : s[i] # c
<1> DEFINE I == {i \in 1 .. Len(s) : s[i] = c}
<1>1. Len(s) \in Nat
  BY DEF Texts
<1>2. I # {} /\ I \subseteq Nat
  BY <1>1 DEF Has
<1>3. \E n \in I : \A j \in I : ~(<<j, n>> \in OpToRel(<, Nat))
  <2> HIDE DEF I
  <2> QED BY <1>2, WFMin, NatLessThanWellFounded
<1>4. PICK n \in I : \A j \in I : ~(<<j, n>> \in OpToRel(<, Nat))
  BY <1>3
<1>5. \A j \in I : n <= j
  <2> HIDE DEF I
  <2> SUFFICES ASSUME NEW j \in I PROVE n <= j
    OBVIOUS
  <2>1. j \in Nat /\ n \in Nat
    BY <1>2
  <2>2. ~(<<j, n>> \in OpToRel(<, Nat))
    BY <1>4
  <2>3. ~(j < n)
    BY <2>1, <2>2 DEF OpToRel
  <2> QED BY <2>1, <2>3
<1>6. n \in 1 .. Len(s) /\ s[n] = c
  OBVIOUS
<1>7. \A i \in 1 .. n - 1 : s[i] # c
  <2> SUFFICES ASSUME NEW i \in 1 .. n - 1, s[i] = c PROVE FALSE
    OBVIOUS
  <2>1. i \in 1 .. Len(s) /\ ~(n <= i)
    BY <1>1, <1>6
  <2>2. i \in I
    BY <2>1
  <2> QED BY <1>5, <2>1, <2>2
<1> QED BY <1>6, <1>7

(* A text is cut at the first place of a separator.                        *)
First(s, c, n) == /\ n \in 1 .. Len(s) /\ s[n] = c
                  /\ \A i \in 1 .. n - 1 : s[i] # c

(* Cutting there answers the tokens before the place and those after it.   *)
LEMMA Cut ==
    ASSUME NEW s \in Texts, NEW c, NEW n, First(s, c, n)
    PROVE  /\ Before(s, c) = SubSeq(s, 1, n - 1)
           /\ After(s, c) = SubSeq(s, n + 1, Len(s))
           /\ Before(s, c) \in Texts /\ Len(Before(s, c)) = n - 1
           /\ After(s, c) \in Texts /\ Len(After(s, c)) = Len(s) - n
           /\ \A i \in 1 .. n - 1 : Before(s, c)[i] = s[i]
           /\ \A i \in 1 .. Len(s) - n : After(s, c)[i] = s[n + i]
<1>1. Len(s) \in Nat /\ \A i \in 1 .. Len(s) : s[i] \in Tokens \cup {"vault", Payload}
  BY ElementOfSeq, LenProperties DEF Texts
<1>0. n \in 1 .. Len(s) /\ s[n] = c /\ \A i \in 1 .. n - 1 : s[i] # c
  BY DEF First
<1>2. /\ Before(s, c) = SubSeq(s, 1, n - 1)
      /\ After(s, c) = SubSeq(s, n + 1, Len(s))
  BY <1>0, <1>1, FirstAt
<1>3. /\ SubSeq(s, 1, n - 1) \in Texts /\ Len(SubSeq(s, 1, n - 1)) = n - 1
      /\ \A i \in 1 .. n - 1 : SubSeq(s, 1, n - 1)[i] = s[i]
  BY <1>0, <1>1, SubSeqProperties DEF Texts
<1>4. /\ SubSeq(s, n + 1, Len(s)) \in Texts
      /\ Len(SubSeq(s, n + 1, Len(s))) = Len(s) - n
      /\ \A i \in 1 .. Len(s) - n : SubSeq(s, n + 1, Len(s))[i] = s[n + i]
  <2>1. \A i \in n + 1 .. Len(s) : s[i] \in Tokens \cup {"vault", Payload}
    BY <1>0, <1>1
  <2>2. n + 1 \in Int /\ Len(s) \in Int
    BY <1>0, <1>1
  <2>3. /\ SubSeq(s, n + 1, Len(s)) \in Texts
        /\ Len(SubSeq(s, n + 1, Len(s))) =
              IF n + 1 <= Len(s) THEN Len(s) - (n + 1) + 1 ELSE 0
        /\ \A i \in 1 .. Len(s) - (n + 1) + 1 :
              SubSeq(s, n + 1, Len(s))[i] = s[n + 1 + i - 1]
    BY <2>1, <2>2, SubSeqProperties DEF Texts
  <2> QED BY <1>0, <1>1, <2>3
<1> QED BY <1>2, <1>3, <1>4

(* Two texts joined by a separator, place by place.                        *)
LEMMA Joined ==
    ASSUME NEW s \in Texts, NEW t \in Texts, NEW c \in Separators
    PROVE  LET w == s \o <<c>> \o t
           IN  /\ w \in Texts /\ Len(w) = Len(s) + 1 + Len(t)
               /\ \A i \in 1 .. Len(s) : w[i] = s[i]
               /\ w[Len(s) + 1] = c
               /\ \A i \in 1 .. Len(t) : w[Len(s) + 1 + i] = t[i]
<1> DEFINE w == s \o <<c>> \o t
<1>1. Len(s) \in Nat /\ Len(t) \in Nat /\ <<c>> \in Texts
  BY DEF Texts, Tokens
<1>2. /\ s \o <<c>> \in Texts /\ Len(s \o <<c>>) = Len(s) + 1
      /\ \A i \in 1 .. Len(s) + 1 :
            (s \o <<c>>)[i] = IF i <= Len(s) THEN s[i] ELSE c
  BY <1>1, ConcatProperties DEF Texts
<1>3. /\ w \in Texts /\ Len(w) = Len(s) + 1 + Len(t)
      /\ \A i \in 1 .. Len(s) + 1 + Len(t) :
            w[i] = IF i <= Len(s) + 1 THEN (s \o <<c>>)[i] ELSE t[i - (Len(s) + 1)]
  <2> HIDE DEF w
  <2>1. w = (s \o <<c>>) \o t
    BY DEF w
  <2> QED BY <1>1, <1>2, <2>1, ConcatProperties DEF Texts
<1>4. /\ \A i \in 1 .. Len(s) : w[i] = s[i]
      /\ w[Len(s) + 1] = c
      /\ \A i \in 1 .. Len(t) : w[Len(s) + 1 + i] = t[i]
  <2> HIDE DEF w
  <2>2. \A i \in 1 .. Len(s) : w[i] = s[i]
    BY <1>1, <1>2, <1>3
  <2>3. w[Len(s) + 1] = c
    BY <1>1, <1>2, <1>3
  <2>4. ASSUME NEW i \in 1 .. Len(t) PROVE w[Len(s) + 1 + i] = t[i]
    <3>1. /\ Len(s) + 1 + i \in 1 .. Len(s) + 1 + Len(t)
          /\ ~(Len(s) + 1 + i <= Len(s) + 1)
          /\ Len(s) + 1 + i - (Len(s) + 1) = i
      BY <1>1
    <3> QED BY <1>3, <3>1
  <2> QED BY <2>2, <2>3, <2>4
<1> QED BY <1>3, <1>4

(* What stands before the first separator, and after it.                   *)
LEMMA CutConcat ==
    ASSUME NEW s \in Texts, NEW t \in Texts, NEW c \in Separators, ~Has(s, c)
    PROVE  LET w == s \o <<c>> \o t
           IN  /\ w \in Texts
               /\ Has(w, c) /\ Before(w, c) = s /\ After(w, c) = t
<1> DEFINE w == s \o <<c>> \o t
<1>1. Len(s) \in Nat /\ Len(t) \in Nat
  BY DEF Texts
<1>3. /\ w \in Texts /\ Len(w) = Len(s) + 1 + Len(t)
      /\ \A i \in 1 .. Len(s) : w[i] = s[i]
      /\ w[Len(s) + 1] = c
      /\ \A i \in 1 .. Len(t) : w[Len(s) + 1 + i] = t[i]
  BY Joined
<1>4. /\ \A i \in 1 .. Len(s) : w[i] = s[i] /\ s[i] # c
      /\ w[Len(s) + 1] = c
      /\ \A i \in 1 .. Len(t) : w[Len(s) + 1 + i] = t[i]
  BY <1>3 DEF Has
<1> HIDE DEF w
<1> DEFINE n == Len(s) + 1
<1>5. n \in 1 .. Len(w) /\ w[n] = c /\ \A i \in 1 .. n - 1 : w[i] # c
  BY <1>1, <1>3, <1>4
<1>f. First(w, c, n)
  BY <1>5 DEF First
<1>6. /\ Before(w, c) \in Texts /\ Len(Before(w, c)) = Len(s)
      /\ After(w, c) \in Texts /\ Len(After(w, c)) = Len(t)
      /\ \A i \in 1 .. Len(s) : Before(w, c)[i] = w[i]
      /\ \A i \in 1 .. Len(t) : After(w, c)[i] = w[n + i]
  <2> HIDE DEF n
  <2>1. /\ Before(w, c) \in Texts /\ Len(Before(w, c)) = n - 1
        /\ After(w, c) \in Texts /\ Len(After(w, c)) = Len(w) - n
        /\ \A i \in 1 .. n - 1 : Before(w, c)[i] = w[i]
        /\ \A i \in 1 .. Len(w) - n : After(w, c)[i] = w[n + i]
    <3>1. w \in Texts
      BY <1>3
    <3> QED BY <3>1, <1>f, Cut
  <2>2. n - 1 = Len(s) /\ Len(w) - n = Len(t)
    BY <1>1, <1>3 DEF n
  <2> QED BY <2>1, <2>2
<1>7. Before(w, c) = s
  BY <1>4, <1>6, SeqEqual DEF Texts
<1>8. After(w, c) = t
  BY <1>4, <1>6, SeqEqual DEF Texts
<1>9. Has(w, c)
  BY <1>5 DEF Has
<1> QED BY <1>3, <1>7, <1>8, <1>9 DEF w

(* Every text that has a separator is what stands before the first one,    *)
(* the separator, and the rest.                                            *)
LEMMA CutWhole ==
    ASSUME NEW s \in Texts, NEW c \in Separators, Has(s, c)
    PROVE  /\ Before(s, c) \in Texts /\ After(s, c) \in Texts
           /\ ~Has(Before(s, c), c)
           /\ s = Before(s, c) \o <<c>> \o After(s, c)
<1>1. PICK n \in 1 .. Len(s) : s[n] = c /\ \A i \in 1 .. n - 1 : s[i] # c
  BY FirstPlace
<1>f. First(s, c, n)
  BY <1>1 DEF First
<1> DEFINE a == Before(s, c)
           b == After(s, c)
<1>2. /\ a \in Texts /\ Len(a) = n - 1
      /\ b \in Texts /\ Len(b) = Len(s) - n
      /\ \A i \in 1 .. n - 1 : a[i] = s[i]
      /\ \A i \in 1 .. Len(s) - n : b[i] = s[n + i]
  BY SMTT(30), <1>f, Cut
<1> HIDE DEF a, b
<1>3. Len(s) \in Nat
  BY DEF Texts
<1>4. ~Has(a, c)
  BY <1>1, <1>2, <1>3 DEF Has
<1>5. <<c>> \in Texts
  BY DEF Texts, Tokens
<1>6. /\ a \o <<c>> \in Texts /\ Len(a \o <<c>>) = n
      /\ \A i \in 1 .. n : (a \o <<c>>)[i] = IF i <= n - 1 THEN a[i] ELSE c
  <2>1. /\ a \o <<c>> \in Texts /\ Len(a \o <<c>>) = Len(a) + 1
        /\ \A i \in 1 .. Len(a) + 1 :
              (a \o <<c>>)[i] = IF i <= Len(a) THEN a[i] ELSE <<c>>[i - Len(a)]
    BY <1>2, <1>5, ConcatProperties DEF Texts
  <2>2. \A i \in 1 .. n : i > n - 1 => <<c>>[i - (n - 1)] = c
    BY <1>3
  <2> QED BY <1>2, <1>3, <2>1, <2>2
<1> DEFINE w == (a \o <<c>>) \o b
<1>7. /\ w \in Texts /\ Len(w) = Len(s)
      /\ \A i \in 1 .. Len(s) : w[i] = IF i <= n THEN (a \o <<c>>)[i] ELSE b[i - n]
  <2>1. /\ w \in Texts /\ Len(w) = n + Len(b)
        /\ \A i \in 1 .. n + Len(b) :
              w[i] = IF i <= n THEN (a \o <<c>>)[i] ELSE b[i - n]
    <3>1. w = (a \o <<c>>) \o b
      OBVIOUS
    <3> DEFINE ac == a \o <<c>>
    <3>2. ac \in Texts /\ Len(ac) = n /\ w = ac \o b
      BY <1>6, <3>1
    <3> HIDE DEF ac, w
    <3>3. /\ w \in Texts /\ Len(w) = Len(ac) + Len(b)
          /\ \A i \in 1 .. Len(ac) + Len(b) :
                w[i] = IF i <= Len(ac) THEN ac[i] ELSE b[i - Len(ac)]
      BY ZenonT(40), <1>2, <3>2, ConcatProperties DEF Texts
    <3> QED BY <3>2, <3>3 DEF ac
  <2> HIDE DEF w
  <2> QED BY <1>2, <1>3, <2>1
<1> HIDE DEF w
<1>8. \A i \in 1 .. Len(s) : w[i] = s[i]
  <2> SUFFICES ASSUME NEW i \in 1 .. Len(s) PROVE w[i] = s[i]
    OBVIOUS
  <2>1. CASE i <= n - 1
    BY <1>2, <1>3, <1>6, <1>7, <2>1
  <2>2. CASE i = n
    BY <1>1, <1>3, <1>6, <1>7, <2>2
  <2>3. CASE i > n
    <3>1. i - n \in 1 .. Len(s) - n /\ n + (i - n) = i /\ ~(i <= n)
      BY <1>3, <2>3
    <3> QED BY <1>2, <1>7, <3>1
  <2> QED BY <1>3, <2>1, <2>2, <2>3
<1>9. w = s
  BY <1>7, <1>8, SeqEqual DEF Texts
<1> QED BY <1>2, <1>4, <1>9 DEF a, b, w

(* The parts of a reference are made of its own tokens.                    *)
LEMMA CutTokens ==
    ASSUME NEW s \in Seq(Tokens), NEW c \in Separators, Has(s, c)
    PROVE  /\ Before(s, c) \in Seq(Tokens) /\ After(s, c) \in Seq(Tokens)
           /\ ~Has(Before(s, c), c)
           /\ s = Before(s, c) \o <<c>> \o After(s, c)
<1>1. s \in Texts
  BY SeqMonotonic DEF Texts
<1>2. PICK n \in 1 .. Len(s) : s[n] = c /\ \A i \in 1 .. n - 1 : s[i] # c
  BY <1>1, FirstPlace
<1>3. First(s, c, n)
  BY <1>2 DEF First
<1>4. Before(s, c) = SubSeq(s, 1, n - 1) /\ After(s, c) = SubSeq(s, n + 1, Len(s))
  BY <1>1, <1>3, Cut
<1>5. Len(s) \in Nat /\ \A i \in 1 .. Len(s) : s[i] \in Tokens
  BY ElementOfSeq, LenProperties
<1>6. SubSeq(s, 1, n - 1) \in Seq(Tokens) /\ SubSeq(s, n + 1, Len(s)) \in Seq(Tokens)
  BY <1>5, SubSeqProperties
<1> QED BY <1>1, <1>4, <1>6, CutWhole

(* Without the token there is nothing before it.                           *)
LEMMA NoCut ==
    ASSUME NEW s, NEW c, ~Has(s, c)
    PROVE  Before(s, c) = <<>>
<1>1. {i \in 1 .. Len(s) : s[i] = c} = {}
  BY DEF Has
<1>2. SubSeq(s, 1, 0 - 1) = <<>>
  BY SubSeqEmpty
<1> QED BY <1>1, <1>2 DEF Before, SelectInSeq
-----------------------------------------------------------------------------
(* What follows the reference in a ciphertext: the version unless it is    *)
(* the first, and the payload, each behind a colon.                        *)
Tail1(n) == (IF n = 1 THEN <<>> ELSE <<":", Numerals[n]>>) \o <<":", Payload>>
Parts(n) == IF n = 1 THEN <<Payload>> ELSE <<Numerals[n]>> \o <<":">> \o <<Payload>>

(* Texts are put together in any grouping.                                 *)
LEMMA Put == \A a, b \in Texts : a \o b \in Texts
BY ConcatProperties DEF Texts

(* The grouping does not matter.                                           *)
LEMMA Grouping == \A a, b, c \in Texts : (a \o b) \o c = a \o (b \o c)
BY ConcatAssociative DEF Texts

(* The pieces are texts, and only their first colon is a separator.        *)
LEMMA Pieces ==
    ASSUME NEW n \in Versions
    PROVE  /\ <<Numerals[n]>> \in Texts /\ <<Payload>> \in Texts
           /\ ~Has(<<Numerals[n]>>, ":") /\ ~Has(<<Payload>>, ":")
           /\ Numerals[n] \notin Separators
           /\ Tail1(n) \in Texts /\ Len(Tail1(n)) \in Nat /\ Len(Tail1(n)) >= 2
           /\ Parts(n) \in Texts /\ Tail1(n) = <<":">> \o Parts(n)
<1>1. Numerals[n] \in Range(Numerals)
  BY ReferenceAssumption DEF Versions, Range
<1>2. Numerals[n] \notin Separators /\ Numerals[n] \in Tokens
  BY <1>1, ReferenceAssumption DEF Tokens
<1>3. /\ <<Numerals[n]>> \in Texts /\ <<Payload>> \in Texts /\ <<":">> \in Texts
      /\ <<":", Payload>> \in Texts /\ <<":", Numerals[n]>> \in Texts
  BY <1>2 DEF Texts, Tokens, Separators
<1>4. ~Has(<<Numerals[n]>>, ":") /\ ~Has(<<Payload>>, ":")
  BY <1>2 DEF Has, Separators, Payload
<1>5. CASE n = 1
  <2>1. Tail1(n) = <<":", Payload>> /\ Parts(n) = <<Payload>>
    BY <1>3, <1>5 DEF Tail1, Parts
  <2>2. <<":", Payload>> = <<":">> \o <<Payload>>
    OBVIOUS
  <2> QED BY <1>2, <1>3, <1>4, <2>1, <2>2
<1>6. CASE n # 1
  <2> DEFINE N == <<Numerals[n]>>
             C == <<":">>
             P == <<Payload>>
  <2>1. <<":", Numerals[n]>> = C \o N /\ <<":", Payload>> = C \o P
    OBVIOUS
  <2>2. Tail1(n) = (C \o N) \o (C \o P) /\ Parts(n) = (N \o C) \o P
    BY <1>6, <2>1 DEF Tail1, Parts
  <2>3. N \in Texts /\ C \in Texts /\ P \in Texts
    BY <1>3
  <2>4. Len(C \o N) = 2 /\ Len(C \o P) = 2
    OBVIOUS
  <2> HIDE DEF N, C, P
  <2>5. C \o N \in Texts /\ C \o P \in Texts /\ N \o C \in Texts
    BY <2>3, Put
  <2>6. (C \o N) \o (C \o P) \in Texts /\ (N \o C) \o P \in Texts
    BY <2>3, <2>5, Put
  <2>7. (C \o N) \o (C \o P) = C \o (N \o (C \o P))
    BY SMTT(30), <2>3, <2>5, Grouping
  <2>8. (N \o C) \o P = N \o (C \o P)
    BY <2>3, Grouping
  <2>9. Len((C \o N) \o (C \o P)) = 4
    BY <2>4, <2>5, ConcatProperties DEF Texts
  <2> QED BY <1>2, <1>3, <1>4, <2>2, <2>6, <2>7, <2>8, <2>9 DEF C
<1> QED BY <1>5, <1>6

(* A ciphertext and what decrypt finds after its first colon.              *)
Ciphertext(reference, n) ==
    <<"vault", ":">> \o reference
    \o (IF n = 1 THEN <<>> ELSE <<":", Numerals[n]>>) \o <<":", Payload>>

(* What decrypt finds after the first colon is the reference and the rest. *)
LEMMA Opened ==
    ASSUME NEW r \in Texts, NEW n \in Versions
    PROVE  /\ r \o Tail1(n) \in Texts
           /\ After(Ciphertext(r, n), ":") = r \o Tail1(n)
<1> DEFINE V == IF n = 1 THEN <<>> ELSE <<":", Numerals[n]>>
           E == <<":", Payload>>
           W == <<"vault", ":">>
<1>1. Numerals[n] \in Tokens
  BY ReferenceAssumption DEF Versions, Range, Tokens
<1>2. W \in Texts /\ E \in Texts /\ V \in Texts /\ <<"vault">> \in Texts
  <2>1. ":" \in Tokens
    BY DEF Tokens, Separators
  <2>2. W \in Texts /\ E \in Texts /\ <<"vault">> \in Texts
    BY <2>1 DEF Texts
  <2>3. <<>> \in Texts /\ <<":", Numerals[n]>> \in Texts
    BY <1>1, <2>1 DEF Texts
  <2> QED BY <2>2, <2>3
<1>3. W = <<"vault">> \o <<":">> /\ Tail1(n) = V \o E
      /\ Ciphertext(r, n) = W \o r \o V \o E
  BY DEF Tail1, Ciphertext
<1>4. ~Has(<<"vault">>, ":") /\ ":" \in Separators /\ <<":">> \in Texts
  BY DEF Has, Separators, Texts, Tokens
<1> HIDE DEF V, E, W
<1>5. /\ r \o V \in Texts /\ V \o E \in Texts
      /\ r \o (V \o E) \in Texts /\ (r \o V) \o E = r \o (V \o E)
  BY <1>2, Put, Grouping
<1>6. W \o r \o V \o E = W \o (r \o (V \o E))
  <2>1. (W \o r) \o V = W \o (r \o V)
    BY SMTT(30), <1>2, Grouping
  <2>2. (W \o (r \o V)) \o E = W \o ((r \o V) \o E)
    <3> DEFINE rv == r \o V
    <3>1. rv \in Texts
      BY <1>5
    <3> HIDE DEF rv
    <3>2. W \in Texts /\ E \in Texts
      BY <1>2
    <3>3. (W \o rv) \o E = W \o (rv \o E)
      BY <3>1, <3>2, Grouping
    <3> QED BY <3>3 DEF rv
  <2> QED BY <1>5, <2>1, <2>2
<1> DEFINE rest == r \o (V \o E)
<1>7. Ciphertext(r, n) = <<"vault">> \o <<":">> \o rest
  BY <1>3, <1>6
<1>8. rest \in Texts
  BY <1>5
<1> HIDE DEF rest
<1>9. After(<<"vault">> \o <<":">> \o rest, ":") = rest
  BY <1>2, <1>4, <1>8, CutConcat
<1> QED BY <1>3, <1>7, <1>8, <1>9 DEF rest

(* A reference without a colon is read as it was written, with its version. *)
LEMMA ParsePlain ==
    ASSUME NEW r \in Texts, NEW n \in Versions, ~Has(r, ":")
    PROVE  Parse(Ciphertext(r, n)) = [reference |-> r, version |-> n]
<1> DEFINE rest == r \o Tail1(n)
           tail == Parts(n)
<1>1. /\ tail \in Texts /\ ":" \in Separators /\ <<":">> \in Texts
      /\ After(Ciphertext(r, n), ":") = rest
  <2>1. ":" \in Separators /\ <<":">> \in Texts
    BY DEF Separators, Texts, Tokens
  <2>2. tail \in Texts
    BY Pieces
  <2> QED BY <2>1, <2>2, Opened
<1>2. rest = r \o <<":">> \o tail
  <2>1. rest = r \o (<<":">> \o tail)
    BY Pieces
  <2>2. tail \in Texts /\ <<":">> \in Texts
    BY <1>1
  <2> HIDE DEF rest, tail
  <2> QED BY <2>1, <2>2, Grouping
<1> HIDE DEF rest, tail
<1>3. Has(rest, ":") /\ Before(rest, ":") = r /\ After(rest, ":") = tail
  BY <1>1, <1>2, CutConcat
<1>4. CASE n = 1
  <2>1. tail = <<Payload>>
    BY <1>4 DEF tail, Parts
  <2> QED BY <1>1, <1>3, <1>4, <2>1 DEF Parse
<1>5. CASE n # 1
  <2>1. tail = <<Numerals[n]>> \o <<":">> \o <<Payload>>
    BY <1>5 DEF tail, Parts
  <2>2. Before(tail, ":") = <<Numerals[n]>> /\ After(tail, ":") = <<Payload>>
    BY <1>1, <2>1, Pieces, CutConcat
  <2>3. tail # <<Payload>>
    BY <2>1
  <2>4. \A m \in Versions : <<Numerals[n]>> = <<Numerals[m]>> <=> m = n
    BY ReferenceAssumption
  <2>5. (CHOOSE m \in Versions : <<Numerals[n]>> = <<Numerals[m]>>) = n
    BY <2>4
  <2> QED BY <1>1, <1>3, <2>2, <2>3, <2>5 DEF Parse
<1> QED BY <1>4, <1>5

(* A full name whose owner has a colon in it is never read at all: what    *)
(* stands between the colons has the slash in it, and is no version.       *)
LEMMA ParseColon ==
    ASSUME NEW owner \in Texts, NEW name \in Texts, NEW n \in Versions,
           Has(owner, ":")
    PROVE  Parse(Ciphertext(owner \o <<"/">> \o name, n)) = Invalid
<1> DEFINE a == Before(owner, ":")
           b == After(owner, ":")
           e == Tail1(n)
           u == name \o e
           r == owner \o <<"/">> \o name
           tail == b \o <<"/">> \o u
<1>s. /\ ":" \in Separators /\ "/" \in Separators
      /\ <<":">> \in Texts /\ <<"/">> \in Texts
  BY DEF Separators, Texts, Tokens
<1>1. /\ a \in Texts /\ b \in Texts /\ ~Has(a, ":")
      /\ owner = a \o <<":">> \o b
  BY <1>s, CutWhole
<1>2. e \in Texts /\ Len(e) \in Nat /\ Len(e) >= 2
  BY Pieces
<1> HIDE DEF a, b, e
<1>3. u \in Texts /\ Len(u) \in Nat /\ Len(u) >= 2
  <2>1. Len(u) = Len(name) + Len(e) /\ Len(name) \in Nat
    BY <1>2, ConcatProperties DEF Texts
  <2> QED BY <1>2, <2>1, Put
<1> DEFINE cn == <<":">>
           sl == <<"/">>
<1>4. cn \in Texts /\ sl \in Texts
  BY <1>s
<1> HIDE DEF cn, sl
<1>5. r = owner \o sl \o name /\ tail = b \o sl \o u /\ owner = a \o cn \o b
  BY <1>1 DEF cn, sl
<1>6. r \in Texts /\ tail \in Texts /\ a \o cn \in Texts /\ b \o sl \in Texts
  BY <1>1, <1>3, <1>4, <1>5, Put
<1>7. r \o e = a \o cn \o tail
  <2>1. r \o e = (owner \o sl) \o u
    <3> DEFINE os == owner \o sl
    <3>1. os \in Texts /\ name \in Texts /\ e \in Texts
      BY <1>2, <1>4, Put
    <3>2. r = os \o name /\ u = name \o e
      BY <1>5
    <3> HIDE DEF os
    <3>3. (os \o name) \o e = os \o (name \o e)
      BY <3>1, Grouping
    <3> QED BY <3>2, <3>3 DEF os
  <2>2. owner \o sl = (a \o cn) \o (b \o sl)
    <3> DEFINE ac == a \o cn
    <3>1. ac \in Texts /\ b \in Texts /\ sl \in Texts
      BY <1>1, <1>4, <1>6
    <3>2. owner = ac \o b
      BY <1>5
    <3> HIDE DEF ac
    <3>3. (ac \o b) \o sl = ac \o (b \o sl)
      BY <3>1, Grouping
    <3> QED BY <3>2, <3>3 DEF ac
  <2> DEFINE ac == a \o cn
             bs == b \o sl
  <2>3. ac \in Texts /\ bs \in Texts
    BY <1>6
  <2>4. r \o e = (ac \o bs) \o u /\ tail = bs \o u
    BY <1>5, <2>1, <2>2
  <2> HIDE DEF ac, bs, u, r, tail
  <2>5. (ac \o bs) \o u = ac \o (bs \o u)
    BY SMTT(30), <1>3, <2>3, Grouping
  <2> QED BY <2>4, <2>5 DEF ac
<1>8. After(Ciphertext(r, n), ":") = r \o e
  BY <1>6, Opened DEF e
<1>9. /\ tail \in Texts /\ Len(tail) = Len(b) + 1 + Len(u)
      /\ tail[Len(b) + 1] = "/" /\ Len(b) \in Nat
  <2>1. Len(b) \in Nat
    BY <1>1 DEF Texts
  <2> HIDE DEF u, tail
  <2>2. tail = b \o <<"/">> \o u
    BY DEF tail
  <2> QED BY SMTT(30), <1>1, <1>3, <1>s, <2>1, <2>2, Joined
<1> HIDE DEF u, r, tail
<1> DEFINE rest == a \o <<":">> \o tail
<1>10. Has(rest, ":") /\ After(rest, ":") = tail
  BY <1>s, <1>1, <1>6, CutConcat
<1>11. After(Ciphertext(r, n), ":") = rest
  BY <1>7, <1>8 DEF cn
<1> HIDE DEF rest
<1>12. tail # <<Payload>>
  BY <1>3, <1>9
<1>13. ASSUME NEW m \in Versions, Before(tail, ":") = <<Numerals[m]>>,
              After(tail, ":") = <<Payload>>
       PROVE  FALSE
  <2>1. Has(tail, ":")
    <3>1. Before(tail, ":") # <<>>
      <4> DEFINE v == Numerals[m]
      <4>1. <<v>> # <<>>
        OBVIOUS
      <4> QED BY <1>13, <4>1
    <3> QED BY <3>1, NoCut, Zenon
  <2>2. PICK k \in 1 .. Len(tail) :
           tail[k] = ":" /\ \A i \in 1 .. k - 1 : tail[i] # ":"
    BY <1>6, <2>1, FirstPlace
  <2>3. First(tail, ":", k)
    BY <2>2 DEF First
  <2>4. /\ Len(Before(tail, ":")) = k - 1 /\ Len(After(tail, ":")) = Len(tail) - k
        /\ \A i \in 1 .. k - 1 : Before(tail, ":")[i] = tail[i]
    BY <1>6, <2>3, Cut
  <2>5. k - 1 = 1 /\ Len(tail) - k = 1
    BY <1>13, <2>4
  <2>6. Len(b) = 0 /\ tail[1] = "/"
    BY <1>3, <1>9, <2>5
  <2>7. Before(tail, ":")[1] = tail[1]
    BY <2>4, <2>5
  <2>8. Numerals[m] = "/"
    BY <1>13, <2>6, <2>7
  <2> QED BY <1>s, <2>8, Pieces
<1>14. Parse(Ciphertext(r, n)) = Invalid
  BY <1>10, <1>11, <1>12, <1>13 DEF Parse
<1> QED BY <1>14 DEF r
-----------------------------------------------------------------------------
(* What encrypt resolves: an address and a name without a colon; and       *)
(* without the owner's name, what the user typed.                          *)
LEMMA Resolved ==
    ASSUME NEW by \in Users, NEW reference \in References,
           NEW explicit \in Users \cup {NoOwner},
           Resolve(by, reference, explicit) # Invalid
    PROVE  LET key == Resolve(by, reference, explicit)
           IN  /\ key.owner \in Seq(Tokens) /\ IsAddress(key.owner)
               /\ key.name \in Seq(Tokens) /\ ValidName(key.name)
               /\ ~key.qualified =>
                     /\ key.owner = by /\ key.name = reference
                     /\ ~(Has(reference, "/") /\ IsAddress(Before(reference, "/")))
<1> DEFINE embedded == Has(reference, "/") /\ IsAddress(Before(reference, "/"))
           owner == IF embedded THEN Before(reference, "/")
                    ELSE IF explicit # NoOwner THEN explicit ELSE by
           name == IF embedded THEN After(reference, "/") ELSE reference
           key == Resolve(by, reference, explicit)
<1>1. /\ ValidName(name)
      /\ key = [owner |-> owner, name |-> name,
                qualified |-> embedded \/ explicit # NoOwner]
  BY DEF Resolve
<1>2. key.owner = owner /\ key.name = name
      /\ key.qualified = (embedded \/ explicit # NoOwner)
  BY <1>1
<1>3. reference \in Seq(Tokens) /\ by \in Seq(Tokens) /\ IsAddress(by)
      /\ (explicit # NoOwner => explicit \in Seq(Tokens) /\ IsAddress(explicit))
  BY ReferenceAssumption, UsersAssumption
<1>4. owner \in Seq(Tokens) /\ IsAddress(owner) /\ name \in Seq(Tokens)
  <2>1. CASE embedded
    <3>1. Before(reference, "/") \in Seq(Tokens) /\ After(reference, "/") \in Seq(Tokens)
      BY <1>3, <2>1, CutTokens DEF Separators
    <3> QED BY <2>1, <3>1
  <2>2. CASE ~embedded
    BY <1>3, <2>2
  <2> QED BY <2>1, <2>2
<1>5. ~key.qualified => owner = by /\ name = reference /\ ~embedded
  BY <1>2
<1> HIDE DEF owner, name, embedded, key
<1> QED BY <1>1, <1>2, <1>4, <1>5 DEF key, embedded

(* A full name is resolved to its parts again, by everyone who does not    *)
(* say that the key is someone else's.                                     *)
LEMMA ResolveFull ==
    ASSUME NEW by, NEW owner \in Seq(Tokens), NEW name \in Seq(Tokens),
           NEW explicit \in {NoOwner, owner},
           IsAddress(owner), ~Has(owner, "/"), ValidName(name)
    PROVE  Resolve(by, owner \o <<"/">> \o name, explicit) =
               [owner |-> owner, name |-> name, qualified |-> TRUE]
<1> DEFINE r == owner \o <<"/">> \o name
<1>1. owner \in Texts /\ name \in Texts /\ "/" \in Separators
  BY SeqMonotonic DEF Texts, Separators
<1>2. Has(r, "/") /\ Before(r, "/") = owner /\ After(r, "/") = name
  BY <1>1, CutConcat
<1> HIDE DEF r
<1>3. Resolve(by, r, explicit) =
          [owner |-> owner, name |-> name, qualified |-> TRUE]
  BY <1>2 DEF Resolve
<1> QED BY <1>3 DEF r

(* A bare name is the key of whoever is named, or of the user himself.     *)
LEMMA ResolveBare ==
    ASSUME NEW by, NEW name, NEW explicit, ValidName(name),
           ~(Has(name, "/") /\ IsAddress(Before(name, "/")))
    PROVE  Resolve(by, name, explicit) =
               [owner |-> IF explicit # NoOwner THEN explicit ELSE by,
                name |-> name, qualified |-> explicit # NoOwner]
BY DEF Resolve

(* What decrypt makes of a ciphertext.                                     *)
Found(by, explicit, ciphertext) ==
    LET parts == Parse(ciphertext)
        key == IF parts = Invalid THEN Invalid
               ELSE Resolve(by, parts.reference, explicit)
    IN  IF key = Invalid THEN Invalid
        ELSE [owner |-> key.owner, name |-> key.name, version |-> parts.version]

(* The whole of a full name has a colon only where its owner has one.      *)
LEMMA ColonOfOwner ==
    ASSUME NEW owner \in Texts, NEW name \in Texts, ~Has(name, ":"),
           Has(owner \o <<"/">> \o name, ":")
    PROVE  Has(owner, ":")
<1> DEFINE w == owner \o <<"/">> \o name
<1>1. /\ Len(w) = Len(owner) + 1 + Len(name)
      /\ \A i \in 1 .. Len(owner) : w[i] = owner[i]
      /\ w[Len(owner) + 1] = "/"
      /\ \A i \in 1 .. Len(name) : w[Len(owner) + 1 + i] = name[i]
  BY Joined DEF Separators
<1>2. PICK i \in 1 .. Len(w) : w[i] = ":"
  BY DEF Has
<1> HIDE DEF w
<1>3. Len(owner) \in Nat /\ Len(name) \in Nat
  BY DEF Texts
<1>4. CASE i <= Len(owner)
  BY <1>1, <1>2, <1>3, <1>4 DEF Has
<1>5. CASE i = Len(owner) + 1
  BY <1>1, <1>2, <1>5
<1>6. CASE i > Len(owner) + 1
  <2>1. i - (Len(owner) + 1) \in 1 .. Len(name)
        /\ Len(owner) + 1 + (i - (Len(owner) + 1)) = i
    BY <1>1, <1>3, <1>6
  <2>2. name[i - (Len(owner) + 1)] = ":"
    BY <1>1, <1>2, <2>1
  <2> QED BY <2>1, <2>2 DEF Has
<1> QED BY <1>1, <1>2, <1>3, <1>4, <1>5, <1>6

(* A ciphertext is read with the version it was written with, or not.      *)
LEMMA FoundVersion ==
    ASSUME NEW by \in Users, NEW reference \in References,
           NEW explicit \in Users \cup {NoOwner},
           NEW n \in Versions, NEW someone, NEW whose,
           Resolve(by, reference, explicit) # Invalid,
           Found(someone, whose,
                 Format(Resolve(by, reference, explicit), reference, n)) # Invalid
    PROVE  Found(someone, whose,
                 Format(Resolve(by, reference, explicit), reference, n)).version = n
<1> DEFINE key == Resolve(by, reference, explicit)
           full == IF key.qualified THEN key.owner \o <<"/">> \o key.name
                   ELSE key.name
<1>1. Format(key, reference, n) = Ciphertext(full, n)
  BY DEF Format, Ciphertext
<1>2. /\ key.owner \in Texts /\ key.name \in Texts /\ ~Has(key.name, ":")
  BY Resolved, SeqMonotonic DEF Texts, ValidName
<1> HIDE DEF key
<1>3. full \in Texts
  BY <1>2, Joined DEF Separators
<1>4. ~Has(full, ":")
  <2> SUFFICES ASSUME Has(full, ":") PROVE FALSE
    OBVIOUS
  <2>1. key.qualified /\ full = key.owner \o <<"/">> \o key.name
    BY <1>2
  <2>2. Has(key.owner, ":")
    BY <1>2, <2>1, ColonOfOwner
  <2>3. Parse(Ciphertext(full, n)) = Invalid
    BY <1>2, <2>1, <2>2, ParseColon
  <2> QED BY <1>1, <2>3 DEF Found, key
<1> HIDE DEF full
<1>5. Parse(Ciphertext(full, n)) = [reference |-> full, version |-> n]
  BY <1>3, <1>4, ParsePlain
<1> DEFINE parts == Parse(Ciphertext(full, n))
<1>6. parts.version = n
  BY <1>5
<1> HIDE DEF parts
<1>7. Found(someone, whose, Ciphertext(full, n)) # Invalid
  BY <1>1 DEF key
<1>8. Found(someone, whose, Ciphertext(full, n)).version = n
  BY <1>6, <1>7 DEF Found, parts
<1> QED BY <1>1, <1>8 DEF key

(* A ciphertext whose owner has a plain address is read as what it was     *)
(* written for, by everyone if it names the owner, and otherwise by the    *)
(* owner and by whoever says whose it is.                                  *)
LEMMA FoundKey ==
    ASSUME NEW by \in Users, NEW reference \in References,
           NEW explicit \in Users \cup {NoOwner}, NEW n \in Versions,
           NEW key, key = Resolve(by, reference, explicit), key # Invalid,
           Plain(key.owner), NEW someone, NEW whose,
           \/ whose = key.owner
           \/ whose = NoOwner /\ (key.qualified \/ someone = key.owner)
    PROVE  Found(someone, whose, Format(key, reference, n)) =
               [owner |-> key.owner, name |-> key.name, version |-> n]
<1> DEFINE full == IF key.qualified THEN key.owner \o <<"/">> \o key.name
                   ELSE key.name
<1>1. Format(key, reference, n) = Ciphertext(full, n)
  BY DEF Format, Ciphertext
<1>2. /\ key.owner \in Seq(Tokens) /\ IsAddress(key.owner)
      /\ key.name \in Seq(Tokens) /\ ValidName(key.name)
      /\ ~key.qualified =>
            ~(Has(key.name, "/") /\ IsAddress(Before(key.name, "/")))
  BY Resolved
<1>3. key.owner \in Texts /\ key.name \in Texts /\ ~Has(key.name, ":")
      /\ ~Has(key.owner, "/") /\ ~Has(key.owner, ":") /\ key.owner # NoOwner
  BY <1>2, SeqMonotonic DEF Texts, ValidName, Plain, NoOwner, IsAddress
<1>4. full \in Seq(Tokens) /\ full \in Texts
  <2>1. <<"/">> \in Seq(Tokens)
    BY DEF Tokens, Separators
  <2>2. key.owner \o <<"/">> \in Seq(Tokens)
    BY <1>2, <2>1, ConcatProperties
  <2>3. (key.owner \o <<"/">>) \o key.name \in Seq(Tokens)
    BY <1>2, <2>2, ConcatProperties
  <2>4. full \in Seq(Tokens)
    BY <1>2, <2>3
  <2> QED BY <2>4, SeqMonotonic DEF Texts
<1>5. ~Has(full, ":")
  BY <1>3, ColonOfOwner
<1>6. \E q \in BOOLEAN :
          Resolve(someone, full, whose) =
              [owner |-> key.owner, name |-> key.name, qualified |-> q]
  <2>1. CASE key.qualified
    <3>1. full = key.owner \o <<"/">> \o key.name /\ whose \in {NoOwner, key.owner}
      BY <2>1
    <3>2. Resolve(someone, key.owner \o <<"/">> \o key.name, whose) =
              [owner |-> key.owner, name |-> key.name, qualified |-> TRUE]
      BY <1>2, <1>3, <3>1, ResolveFull
    <3> QED BY <3>1, <3>2
  <2>2. CASE ~key.qualified
    <3>1. full = key.name
      BY <2>2
    <3>2. Resolve(someone, key.name, whose) =
              [owner |-> IF whose # NoOwner THEN whose ELSE someone,
               name |-> key.name, qualified |-> whose # NoOwner]
      BY <1>2, <2>2, ResolveBare
    <3>3. (IF whose # NoOwner THEN whose ELSE someone) = key.owner
      BY <1>3, <2>2
    <3> QED BY <3>1, <3>2, <3>3
  <2> QED BY <2>1, <2>2
<1>7. Parse(Ciphertext(full, n)) = [reference |-> full, version |-> n]
  BY <1>4, <1>5, ParsePlain
<1> HIDE DEF full
<1>8. Parse(Ciphertext(full, n)) # Invalid
  BY <1>4, <1>7, InvalidAssumption
<1>9. Resolve(someone, full, whose) # Invalid
  BY <1>2, <1>6, InvalidAssumption
<1>10. Found(someone, whose, Ciphertext(full, n)) =
           [owner |-> key.owner, name |-> key.name, version |-> n]
  BY <1>6, <1>7, <1>8, <1>9 DEF Found
<1> QED BY <1>1, <1>10
-----------------------------------------------------------------------------
(* Every ciphertext was written by encrypt, and what was read of it is     *)
(* what decrypt makes of it.                                               *)
Sent == text # <<>> =>
    \E by \in Users, explicit \in Users \cup {NoOwner}, reference \in References,
       n \in Versions :
        LET key == Resolve(by, reference, explicit)
        IN  /\ key # Invalid
            /\ text = Format(key, reference, n)
            /\ meant = [owner |-> key.owner, name |-> key.name, version |-> n]
            /\ named = key.qualified

Received == read # None =>
    /\ text # <<>>
    /\ \E by \in Users, explicit \in Users \cup {NoOwner} :
          read = [by |-> by, explicit |-> explicit, key |-> Found(by, explicit, text)]

(* The two hold in every reachable state.                                  *)
LEMMA Exchanged == ReferenceSpec => [](Sent /\ Received)
<1>1. ReferenceInit => Sent /\ Received
  BY DEF ReferenceInit, Sent, Received
<1>2. Sent /\ Received /\ [ReferenceNext]_referenceVars => (Sent /\ Received)'
  <2> SUFFICES ASSUME Sent, Received, [ReferenceNext]_referenceVars
               PROVE  Sent' /\ Received'
    OBVIOUS
  <2>1. CASE Encrypt
    <3>1. Sent'
      BY <2>1 DEF Encrypt, Sent
    <3>2. read' = None
      BY <2>1 DEF Encrypt, Received
    <3> QED BY <3>1, <3>2 DEF Received
  <2>2. CASE Decrypt
    <3>1. text' = text /\ text # <<>> /\ UNCHANGED <<meant, named>>
      BY <2>2 DEF Decrypt
    <3>2. \E by \in Users, explicit \in Users \cup {NoOwner} :
              read' = [by |-> by, explicit |-> explicit,
                       key |-> Found(by, explicit, text)]
      BY <2>2 DEF Decrypt, Found
    <3> QED BY <3>1, <3>2 DEF Sent, Received
  <2>3. CASE Anew
    BY <2>3 DEF Anew, Sent, Received
  <2>4. CASE UNCHANGED referenceVars
    BY <2>4 DEF referenceVars, Sent, Received
  <2> QED BY <2>1, <2>2, <2>3, <2>4 DEF ReferenceNext
<1> QED BY <1>1, <1>2, PTL DEF ReferenceSpec

(* No reading turns one version into another, whatever separators the      *)
(* names and the addresses are made of                                     *)
(* (specs/006-transit-key-rotation.md:103-124).                            *)
THEOREM VersionsSurvive == ReferenceSpec => []SameVersion
<1>1. Sent /\ Received => SameVersion
  <2> SUFFICES ASSUME Sent, Received, read # None, read.key # Invalid
               PROVE  read.key.version = meant.version
    BY DEF SameVersion
  <2>1. PICK someone \in Users, whose \in Users \cup {NoOwner} :
            read = [by |-> someone, explicit |-> whose,
                    key |-> Found(someone, whose, text)]
    BY DEF Received
  <2>2. PICK by \in Users, explicit \in Users \cup {NoOwner},
             reference \in References, n \in Versions :
            /\ Resolve(by, reference, explicit) # Invalid
            /\ text = Format(Resolve(by, reference, explicit), reference, n)
            /\ meant = [owner |-> Resolve(by, reference, explicit).owner,
                        name |-> Resolve(by, reference, explicit).name,
                        version |-> n]
    <3>1. text # <<>>
      BY DEF Received
    <3> QED BY <3>1 DEF Sent
  <2>3. read.key = Found(someone, whose, text) /\ meant.version = n
    BY <2>1, <2>2
  <2> QED BY <2>2, <2>3, FoundVersion
<1> QED BY <1>1, Exchanged, PTL

(* Whatever its name is made of, a key is found again: from a ciphertext   *)
(* that names an owner with a plain address by everyone, and from one that *)
(* does not by him and by whoever says whose it is                         *)
(* (specs/003-policy-acl.md:120-129, transit/service.py:449-500).          *)
THEOREM KeysAreFound == ReferenceSpec => []SameKey
<1>1. Sent /\ Received => SameKey
  <2> SUFFICES ASSUME Sent, Received, read # None, Plain(meant.owner),
                      \/ read.explicit = meant.owner
                      \/ read.explicit = NoOwner
                         /\ (named \/ read.by = meant.owner)
               PROVE  read.key = meant
    BY DEF SameKey
  <2>1. PICK someone \in Users, whose \in Users \cup {NoOwner} :
            read = [by |-> someone, explicit |-> whose,
                    key |-> Found(someone, whose, text)]
    BY DEF Received
  <2>2. PICK by \in Users, explicit \in Users \cup {NoOwner},
             reference \in References, n \in Versions :
            /\ Resolve(by, reference, explicit) # Invalid
            /\ text = Format(Resolve(by, reference, explicit), reference, n)
            /\ meant = [owner |-> Resolve(by, reference, explicit).owner,
                        name |-> Resolve(by, reference, explicit).name,
                        version |-> n]
            /\ named = Resolve(by, reference, explicit).qualified
    <3>1. text # <<>>
      BY DEF Received
    <3> QED BY <3>1 DEF Sent
  <2> DEFINE key == Resolve(by, reference, explicit)
  <2>3. /\ read.key = Found(someone, whose, text)
        /\ read.by = someone /\ read.explicit = whose
    BY <2>1
  <2>4. /\ key # Invalid /\ text = Format(key, reference, n)
        /\ meant = [owner |-> key.owner, name |-> key.name, version |-> n]
        /\ named = key.qualified /\ meant.owner = key.owner
    BY <2>2
  <2> HIDE DEF key
  <2>5. Plain(key.owner)
        /\ \/ whose = key.owner
           \/ whose = NoOwner /\ (key.qualified \/ someone = key.owner)
    BY <2>3, <2>4
  <2>6. key = Resolve(by, reference, explicit)
    BY DEF key
  <2>7. Found(someone, whose, Format(key, reference, n)) =
            [owner |-> key.owner, name |-> key.name, version |-> n]
    BY <2>4, <2>5, <2>6, FoundKey
  <2> QED BY <2>3, <2>4, <2>7
<1> QED BY <1>1, Exchanged, PTL
=============================================================================
