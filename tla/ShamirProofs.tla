---------------------------- MODULE ShamirProofs ----------------------------
(***************************************************************************)
(* Proofs about Shamir, for every prime, every configuration and any       *)
(* number of shares.                                                       *)
(*                                                                         *)
(* The arithmetic is by hand: congruence modulo the prime, what the folds  *)
(* of the library compute, Horner's rule, reciprocals, and Lagrange's sum. *)
(* The two facts that carry everything are Through (a polynomial of length *)
(* k goes through any k places, and Lagrange's sum is its value at zero)   *)
(* and Unique (it is the only one).  Both rest on writing a polynomial as  *)
(* its value at a and x - a times a shorter one.                           *)
(***************************************************************************)
EXTENDS Shamir, FiniteSetTheorems, WellFoundedInduction, TLAPS

(* Numbers are computed modulo the prime: a and b are congruent when they  *)
(* differ by a multiple of it (PRIME, shamir.py:11).                       *)
Cong(a, b) == \E m \in Int : a = b + m * Prime

(* The prime is a number of at least 2.                                    *)
LEMMA PrimeNat == Prime \in Nat /\ Prime > 1
BY ShamirAssumption DEF IsPrime

(* A number is a multiple of the prime and its remainder, and the          *)
(* remainder is in the field.                                              *)
LEMMA ModSplit ==
    ASSUME NEW a \in Int
    PROVE  /\ a % Prime \in 0 .. Prime - 1
           /\ a = (a \div Prime) * Prime + (a % Prime)
           /\ a \div Prime \in Int
BY PrimeNat

(* Congruence is reflexive, ...                                            *)
LEMMA CongRefl == ASSUME NEW a \in Int PROVE Cong(a, a)
BY PrimeNat DEF Cong

(* ... symmetric ...                                                       *)
LEMMA CongSym == ASSUME NEW a \in Int, NEW b \in Int, Cong(a, b) PROVE Cong(b, a)
<1>1. PICK m \in Int : a = b + m * Prime
  BY DEF Cong
<1>2. b = a + (-m) * Prime /\ -m \in Int
  BY <1>1, PrimeNat
<1> QED BY <1>2 DEF Cong

(* ... and transitive, ...                                                 *)
LEMMA CongTrans ==
    ASSUME NEW a \in Int, NEW b \in Int, NEW c \in Int, Cong(a, b), Cong(b, c)
    PROVE  Cong(a, c)
<1>1. PICK m \in Int : a = b + m * Prime
  BY DEF Cong
<1>2. PICK n \in Int : b = c + n * Prime
  BY DEF Cong
<1>3. a = c + (m + n) * Prime /\ m + n \in Int
  BY <1>1, <1>2, PrimeNat
<1> QED BY <1>3 DEF Cong

(* ... and it is kept by sums ...                                          *)
LEMMA CongAdd ==
    ASSUME NEW a \in Int, NEW b \in Int, NEW c \in Int, NEW d \in Int, Cong(a, b), Cong(c, d)
    PROVE  Cong(a + c, b + d)
<1>1. PICK m \in Int : a = b + m * Prime
  BY DEF Cong
<1>2. PICK n \in Int : c = d + n * Prime
  BY DEF Cong
<1>3. a + c = (b + d) + (m + n) * Prime /\ m + n \in Int
  BY <1>1, <1>2, PrimeNat
<1> QED BY <1>3 DEF Cong

(* ... and by products.                                                    *)
LEMMA CongMul ==
    ASSUME NEW a \in Int, NEW b \in Int, NEW c \in Int, NEW d \in Int, Cong(a, b), Cong(c, d)
    PROVE  Cong(a * c, b * d)
<1>1. PICK m \in Int : a = b + m * Prime
  BY DEF Cong
<1>2. PICK n \in Int : c = d + n * Prime
  BY DEF Cong
<1> DEFINE w == b * n + m * d + m * n * Prime
<1>3. a * c = (b * d) + w * Prime /\ w \in Int
  BY <1>1, <1>2, PrimeNat
<1> HIDE DEF w
<1> QED BY <1>3 DEF Cong

(* A number is congruent to its remainder.                                 *)
LEMMA CongMod == ASSUME NEW a \in Int PROVE Cong(a % Prime, a)
<1>1. PICK q \in Int : a = q * Prime + (a % Prime)
  BY ModSplit
<1>2. a % Prime = a + (-q) * Prime /\ -q \in Int
  BY <1>1, PrimeNat
<1> QED BY <1>2 DEF Cong

(* In the field, congruent numbers are equal.                              *)
LEMMA CongEqual ==
    ASSUME NEW a \in Field, NEW b \in Field, Cong(a, b)
    PROVE  a = b
<1>1. PICK m \in Int : a = b + m * Prime
  BY DEF Cong
<1>2. a \in 0 .. Prime - 1 /\ b \in 0 .. Prime - 1
  BY DEF Field
<1>3. m = 0
  <2>1. CASE m >= 1
    <3>1. m * Prime >= Prime
      BY <2>1, PrimeNat
    <3> QED BY <1>1, <1>2, <3>1, PrimeNat
  <2>2. CASE m <= -1
    <3>1. m * Prime <= -Prime
      BY <2>2, PrimeNat
    <3> QED BY <1>1, <1>2, <3>1, PrimeNat
  <2> QED BY <2>1, <2>2
<1> QED BY <1>1, <1>2, <1>3, PrimeNat

(* Congruent numbers are those with the same remainder.                    *)
LEMMA ModEqual ==
    ASSUME NEW a \in Int, NEW b \in Int
    PROVE  Cong(a, b) <=> a % Prime = b % Prime
<1>1. Cong(a % Prime, a) /\ Cong(b % Prime, b)
  BY CongMod
<1>2. a % Prime \in Field /\ b % Prime \in Field /\ a % Prime \in Int /\ b % Prime \in Int
  <2>1. \A x \in Int : x % Prime \in Int /\ x % Prime \in Field
    BY PrimeNat DEF Field
  <2> QED BY <2>1
<1>3. Cong(a, a % Prime) /\ Cong(b, b % Prime)
  BY <1>1, <1>2, CongSym
<1>4. ASSUME Cong(a, b) PROVE a % Prime = b % Prime
  <2>1. Cong(a % Prime, b)
    BY <1>1, <1>2, <1>4, CongTrans
  <2>2. Cong(a % Prime, b % Prime)
    BY <1>2, <1>3, <2>1, CongTrans
  <2> QED BY <1>2, <2>2, CongEqual
<1>5. ASSUME a % Prime = b % Prime PROVE Cong(a, b)
  BY <1>1, <1>2, <1>3, <1>5, CongTrans
<1> QED BY <1>4, <1>5
-----------------------------------------------------------------------------
(* Induction over the numbers: a set with 0 that has the successor of each *)
(* of its numbers has them all. (No number is the least that is missing.)  *)
LEMMA Induction ==
    ASSUME NEW B, 0 \in B, \A n \in Nat : n \in B => n + 1 \in B
    PROVE  Nat \subseteq B
<1> DEFINE C == Nat \ B
<1> SUFFICES ASSUME C # {} PROVE FALSE
  OBVIOUS
<1>1. C \subseteq Nat
  OBVIOUS
<1>2. \E n \in C : \A m \in C : ~(<<m, n>> \in OpToRel(<, Nat))
  <2> HIDE DEF C
  <2> QED BY <1>1, WFMin, NatLessThanWellFounded
<1>3. PICK n \in C : \A m \in C : ~(<<m, n>> \in OpToRel(<, Nat))
  BY <1>2
<1>4. n \in Nat /\ n # 0
  OBVIOUS
<1>5. n - 1 \in Nat /\ n - 1 < n
  BY <1>4
<1>6. n - 1 \in C => <<n - 1, n>> \in OpToRel(<, Nat)
  BY <1>4, <1>5 DEF OpToRel
<1>7. n - 1 \in B
  BY <1>3, <1>5, <1>6
<1>8. (n - 1) + 1 = n
  BY <1>4
<1> QED BY <1>5, <1>7, <1>8

(* A set of numbers that is not empty has a least one.                     *)
LEMMA LeastOf ==
    ASSUME NEW C, C \subseteq Nat, C # {}
    PROVE  \E n \in C : \A m \in C : n <= m
<1>1. PICK n \in C : \A m \in C : ~(<<m, n>> \in OpToRel(<, Nat))
  BY WFMin, NatLessThanWellFounded
<1>2. ASSUME NEW m \in C PROVE n <= m
  <2>1. m \in Nat /\ n \in Nat
    OBVIOUS
  <2>2. m < n => <<m, n>> \in OpToRel(<, Nat)
    BY <2>1 DEF OpToRel
  <2>3. ~(<<m, n>> \in OpToRel(<, Nat))
    BY <1>1
  <2>4. ~(m < n)
    BY <2>2, <2>3
  <2> QED BY <2>1, <2>4
<1> QED BY <1>2

(* A set without one of its elements is one smaller.                       *)
LEMMA Without ==
    ASSUME NEW s, IsFiniteSet(s), NEW x \in s
    PROVE  /\ IsFiniteSet(s \ {x})
           /\ Cardinality(s \ {x}) = Cardinality(s) - 1
           /\ Cardinality(s) \in Nat /\ Cardinality(s) > 0
           /\ Cardinality(s \ {x}) < Cardinality(s)
<1>1. Cardinality(s) \in Nat /\ Cardinality(s) # 0
  BY FS_CardinalityType, FS_EmptySet
<1>2. IsFiniteSet(s \ {x}) /\ Cardinality(s \ {x}) = Cardinality(s) - 1
  BY FS_RemoveElement
<1> QED BY <1>1, <1>2

(* What a fold over the subsets of S computes: base for the empty set, and *)
(* for the others op of the value at the chosen element ch[s] and of what  *)
(* it computes for the rest.                                               *)
Folds(g, S, f, base, op, ch) ==
    g = [s \in SUBSET S |->
            IF s = {} THEN base ELSE op[<<f[ch[s]], g[s \ {ch[s]}]>>]]

(* There is such a function on the subsets of a finite set, whichever      *)
(* element is chosen: by induction on the number of elements.              *)
LEMMA FoldExists ==
    ASSUME NEW S, IsFiniteSet(S), NEW f, NEW base, NEW op, NEW ch,
           \A s \in SUBSET S : s # {} => ch[s] \in s
    PROVE  \E g : Folds(g, S, f, base, op, ch)
<1> DEFINE Sub(n) == {s \in SUBSET S : Cardinality(s) <= n}
           To(g, n) == g = [s \in Sub(n) |->
                 IF s = {} THEN base ELSE op[<<f[ch[s]], g[s \ {ch[s]}]>>]]
           B == {n \in Nat : \E g : To(g, n)}
<1>1. \A s \in SUBSET S : IsFiniteSet(s) /\ Cardinality(s) \in Nat
  BY FS_Subset, FS_CardinalityType
<1>2. \A s \in SUBSET S : s # {} => Cardinality(s \ {ch[s]}) = Cardinality(s) - 1
  BY <1>1, FS_RemoveElement
<1>3. 0 \in B
  <2>1. \A s \in Sub(0) : s = {}
    BY <1>1, FS_EmptySet
  <2>2. To([s \in Sub(0) |-> base], 0)
    BY <2>1
  <2> QED BY <2>2
<1>4. ASSUME NEW n \in Nat, n \in B PROVE n + 1 \in B
  <2>1. PICK g : To(g, n)
    BY <1>4
  <2> DEFINE h == [s \in Sub(n + 1) |->
                     IF s = {} THEN base ELSE op[<<f[ch[s]], g[s \ {ch[s]}]>>]]
  <2>2. ASSUME NEW s \in Sub(n) PROVE h[s] = g[s]
    <3>1. s \in Sub(n + 1)
      BY <1>1, <1>4
    <3>2. h[s] = IF s = {} THEN base ELSE op[<<f[ch[s]], g[s \ {ch[s]}]>>]
      BY <3>1
    <3>3. g[s] = IF s = {} THEN base ELSE op[<<f[ch[s]], g[s \ {ch[s]}]>>]
      BY <2>1
    <3> QED BY <3>2, <3>3
  <2>3. ASSUME NEW s \in Sub(n + 1), s # {} PROVE h[s \ {ch[s]}] = g[s \ {ch[s]}]
    <3>1. s \ {ch[s]} \in Sub(n)
      BY <1>1, <1>2, <1>4, <2>3
    <3> QED BY <2>2, <3>1
  <2>4. To(h, n + 1)
    <3>1. h = [s \in Sub(n + 1) |->
                 IF s = {} THEN base ELSE op[<<f[ch[s]], h[s \ {ch[s]}]>>]]
      <4> HIDE DEF Sub
      <4> QED BY <2>3
    <3> QED BY <3>1
  <2>5. \E e : To(e, n + 1)
    <3> HIDE DEF To, h
    <3> QED BY <2>4
  <2> HIDE DEF To
  <2> QED BY <2>5
<1>5. Cardinality(S) \in B
  <2> HIDE DEF B
  <2> QED BY <1>3, <1>4, Induction, FS_CardinalityType
<1>6. Sub(Cardinality(S)) = SUBSET S
  BY FS_Subset
<1> QED BY <1>5, <1>6 DEF Folds

(* A property of all subsets of a finite set, by the number of elements.   *)
LEMMA SubsetInduction ==
    ASSUME NEW S, IsFiniteSet(S), NEW B,
           \A s \in SUBSET S :
               (\A r \in SUBSET S : Cardinality(r) < Cardinality(s) => r \in B) => s \in B
    PROVE  SUBSET S \subseteq B
<1> DEFINE C == {n \in Nat : \A s \in SUBSET S : Cardinality(s) < n => s \in B}
<1>1. \A s \in SUBSET S : Cardinality(s) \in Nat
  BY FS_Subset, FS_CardinalityType
<1>2. 0 \in C
  BY <1>1
<1>3. \A n \in Nat : n \in C => n + 1 \in C
  <2> SUFFICES ASSUME NEW n \in Nat, n \in C, NEW s \in SUBSET S, Cardinality(s) < n + 1
               PROVE  s \in B
    OBVIOUS
  <2>1. \A r \in SUBSET S : Cardinality(r) < Cardinality(s) => Cardinality(r) < n
    BY <1>1
  <2> QED BY <2>1
<1>4. Nat \subseteq C
  <2> HIDE DEF C
  <2> QED BY <1>2, <1>3, Induction
<1>5. ASSUME NEW s \in SUBSET S PROVE s \in B
  <2>1. Cardinality(s) + 1 \in C /\ Cardinality(s) < Cardinality(s) + 1
    BY <1>1, <1>4
  <2> QED BY <2>1
<1> QED BY <1>5

(* Two folds of the same values that choose the same elements agree on     *)
(* every set that both are about.                                          *)
LEMMA FoldUnique ==
    ASSUME NEW S, IsFiniteSet(S), NEW T \in SUBSET S, NEW f, NEW h, NEW base, NEW op,
           NEW c, NEW d, NEW g, NEW e,
           \A s \in SUBSET T : s # {} => c[s] \in s /\ d[s] = c[s],
           \A x \in T : f[x] = h[x],
           Folds(g, S, f, base, op, c), Folds(e, T, h, base, op, d)
    PROVE  \A s \in SUBSET T : g[s] = e[s]
<1> DEFINE B == {s \in SUBSET T : g[s] = e[s]}
<1>0. IsFiniteSet(T) /\ \A s \in SUBSET T : IsFiniteSet(s) /\ Cardinality(s) \in Nat
  BY FS_Subset, FS_CardinalityType
<1>1. ASSUME NEW s \in SUBSET T,
             \A r \in SUBSET T : Cardinality(r) < Cardinality(s) => r \in B
      PROVE  s \in B
  <2>1. g[s] = IF s = {} THEN base ELSE op[<<f[c[s]], g[s \ {c[s]}]>>]
    BY DEF Folds
  <2>2. e[s] = IF s = {} THEN base ELSE op[<<h[d[s]], e[s \ {d[s]}]>>]
    BY DEF Folds
  <2>3. CASE s = {}
    BY <2>1, <2>2, <2>3
  <2>4. CASE s # {}
    <3>1. c[s] \in s /\ d[s] = c[s] /\ f[c[s]] = h[c[s]]
      BY <2>4
    <3>2. Cardinality(s \ {c[s]}) < Cardinality(s)
      BY <1>0, <3>1, FS_RemoveElement
    <3>3. g[s \ {c[s]}] = e[s \ {c[s]}]
      BY <1>1, <3>2
    <3> QED BY <2>1, <2>2, <2>4, <3>1, <3>3
  <2> QED BY <2>3, <2>4
<1>2. SUBSET T \subseteq B
  <2> HIDE DEF B
  <2> QED BY <1>0, <1>1, SubsetInduction
<1> QED BY <1>2

(* A fold stays in a set that has the base and is closed under op.         *)
LEMMA FoldType ==
    ASSUME NEW S, IsFiniteSet(S), NEW f, NEW V, NEW base \in V, NEW op, NEW ch, NEW g,
           \A s \in SUBSET S : s # {} => ch[s] \in s,
           \A x \in S, v \in V : op[<<f[x], v>>] \in V,
           Folds(g, S, f, base, op, ch)
    PROVE  \A s \in SUBSET S : g[s] \in V
<1> DEFINE B == {s \in SUBSET S : g[s] \in V}
<1>0. \A s \in SUBSET S : IsFiniteSet(s) /\ Cardinality(s) \in Nat
  BY FS_Subset, FS_CardinalityType
<1>1. ASSUME NEW s \in SUBSET S,
             \A r \in SUBSET S : Cardinality(r) < Cardinality(s) => r \in B
      PROVE  s \in B
  <2>1. g[s] = IF s = {} THEN base ELSE op[<<f[ch[s]], g[s \ {ch[s]}]>>]
    BY DEF Folds
  <2>2. CASE s = {}
    BY <2>1, <2>2
  <2>3. CASE s # {}
    <3>1. ch[s] \in s
      BY <2>3
    <3>2. Cardinality(s \ {ch[s]}) < Cardinality(s)
      BY <1>0, <3>1, FS_RemoveElement
    <3>3. g[s \ {ch[s]}] \in V
      BY <1>1, <3>2
    <3> QED BY <2>1, <2>3, <3>1, <3>3
  <2> QED BY <2>2, <2>3
<1>2. SUBSET S \subseteq B
  <2> HIDE DEF B
  <2> QED BY <1>1, SubsetInduction
<1> QED BY <1>2

(* If the order of two elements does not matter, any may be taken first.   *)
LEMMA FoldAny ==
    ASSUME NEW S, IsFiniteSet(S), NEW f, NEW V, NEW base \in V, NEW op, NEW ch, NEW g,
           \A s \in SUBSET S : s # {} => ch[s] \in s,
           \A x \in S, v \in V : op[<<f[x], v>>] \in V,
           \A x \in S, y \in S, v \in V :
               op[<<f[x], op[<<f[y], v>>]>>] = op[<<f[y], op[<<f[x], v>>]>>],
           Folds(g, S, f, base, op, ch)
    PROVE  \A s \in SUBSET S : \A a \in s : g[s] = op[<<f[a], g[s \ {a}]>>]
<1> DEFINE B == {s \in SUBSET S : \A a \in s : g[s] = op[<<f[a], g[s \ {a}]>>]}
<1>0. \A s \in SUBSET S : IsFiniteSet(s) /\ Cardinality(s) \in Nat
  BY FS_Subset, FS_CardinalityType
<1>t. \A s \in SUBSET S : g[s] \in V
  BY FoldType
<1>u. \A s \in SUBSET S : s # {} => g[s] = op[<<f[ch[s]], g[s \ {ch[s]}]>>]
  BY DEF Folds
<1>1. ASSUME NEW s \in SUBSET S,
             \A r \in SUBSET S : Cardinality(r) < Cardinality(s) => r \in B
      PROVE  s \in B
  <2> SUFFICES ASSUME NEW a \in s PROVE g[s] = op[<<f[a], g[s \ {a}]>>]
    OBVIOUS
  <2> DEFINE x == ch[s]
  <2>1. x \in s /\ g[s] = op[<<f[x], g[s \ {x}]>>]
    BY <1>u
  <2>2. CASE x = a
    BY <2>1, <2>2
  <2>3. CASE x # a
    <3>1. a \in s \ {x} /\ x \in s \ {a} /\ s \ {x} \in SUBSET S /\ s \ {a} \in SUBSET S
      BY <2>1, <2>3
    <3>2. Cardinality(s \ {x}) < Cardinality(s) /\ Cardinality(s \ {a}) < Cardinality(s)
      BY <1>0, <2>1, Without
    <3>3. s \ {x} \in B /\ s \ {a} \in B
      BY <1>1, <3>1, <3>2
    <3> DEFINE r == (s \ {x}) \ {a}
    <3>4. (s \ {a}) \ {x} = r /\ r \in SUBSET S
      OBVIOUS
    <3>5. g[s \ {x}] = op[<<f[a], g[r]>>]
      BY <3>1, <3>3
    <3>6. g[s \ {a}] = op[<<f[x], g[r]>>]
      BY <3>1, <3>3, <3>4
    <3>7. g[r] \in V /\ a \in S /\ x \in S
      BY <1>t, <2>1, <3>4
    <3> QED BY <2>1, <3>5, <3>6, <3>7
  <2> QED BY <2>2, <2>3
<1>2. SUBSET S \subseteq B
  <2> HIDE DEF B
  <2> QED BY <1>1, SubsetInduction
<1> QED BY <1>2
-----------------------------------------------------------------------------
(* The sum of f over the set I of places, as Interpolate adds up.          *)
SumOver(f, I) == FoldFunctionOnSet(+, 0, f, I)

(* The element that the library's fold takes first.                        *)
Some(S) == [s \in SUBSET S |-> CHOOSE x \in s : TRUE]

(* Addition, as a function.                                                *)
Plus == [p \in Int \X Int |-> p[1] + p[2]]

(* The library's sum is a fold.                                            *)
LEMMA SumIsFold ==
    ASSUME NEW I, IsFiniteSet(I), NEW f, \A i \in I : f[i] \in Int
    PROVE  \E g : Folds(g, I, f, 0, Plus, Some(I)) /\ SumOver(f, I) = g[I]
<1>1. \A s \in SUBSET I : s # {} => Some(I)[s] \in s
  BY DEF Some
<1>2. PICK e : Folds(e, I, f, 0, Plus, Some(I))
  BY <1>1, FoldExists
<1>3. \A x \in I, v \in Int : Plus[<<f[x], v>>] \in Int /\ Plus[<<f[x], v>>] = f[x] + v
  BY DEF Plus
<1>4. \A s \in SUBSET I : e[s] \in Int
  <2> DEFINE ch == Some(I)
  <2> HIDE DEF ch
  <2>1. /\ \A s \in SUBSET I : s # {} => ch[s] \in s
        /\ \A x \in I, v \in Int : Plus[<<f[x], v>>] \in Int
        /\ Folds(e, I, f, 0, Plus, ch) /\ 0 \in Int
    BY <1>1, <1>2, <1>3 DEF ch
  <2> QED BY <2>1, FoldType
<1> DEFINE It(g) == g = [s \in SUBSET I |->
               IF s = {} THEN 0
               ELSE f[CHOOSE x \in s : TRUE] + g[s \ {CHOOSE x \in s : TRUE}]]
<1>5. It(e)
  <2>1. ASSUME NEW s \in SUBSET I, s # {}
        PROVE  Plus[<<f[Some(I)[s]], e[s \ {Some(I)[s]}]>>]
                 = f[CHOOSE x \in s : TRUE] + e[s \ {CHOOSE x \in s : TRUE}]
    <3>1. Some(I)[s] = CHOOSE x \in s : TRUE
      BY DEF Some
    <3>2. Some(I)[s] \in I /\ s \ {Some(I)[s]} \in SUBSET I
      BY <1>1, <2>1
    <3> QED BY <1>3, <1>4, <3>1, <3>2
  <2> QED BY <1>2, <2>1 DEF Folds
<1> DEFINE g == CHOOSE g : It(g)
<1>6. It(g)
  <2> HIDE DEF It
  <2> QED BY <1>5
<1>7. SumOver(f, I) = g[I]
  BY DEF SumOver, FoldFunctionOnSet, MapThenFoldSet
<1> DEFINE B == {s \in SUBSET I : g[s] = e[s]}
<1> HIDE DEF g
<1>8. ASSUME NEW s \in SUBSET I,
             \A r \in SUBSET I : Cardinality(r) < Cardinality(s) => r \in B
      PROVE  s \in B
  <2> DEFINE x == CHOOSE x \in s : TRUE
  <2>1. g[s] = IF s = {} THEN 0 ELSE f[x] + g[s \ {x}]
    BY <1>6
  <2>2. e[s] = IF s = {} THEN 0 ELSE f[x] + e[s \ {x}]
    BY <1>5
  <2>3. ASSUME s # {} PROVE g[s \ {x}] = e[s \ {x}]
    <3>1. x \in s /\ IsFiniteSet(s)
      BY <2>3, FS_Subset
    <3> HIDE DEF x
    <3>2. Cardinality(s \ {x}) < Cardinality(s)
      BY <3>1, Without
    <3> QED BY <1>8, <3>2
  <2> HIDE DEF x
  <2> QED BY <2>1, <2>2, <2>3
<1>9. SUBSET I \subseteq B
  <2> HIDE DEF B, It
  <2> QED BY <1>8, SubsetInduction
<1>10. g[I] = e[I]
  BY <1>9
<1> QED BY <1>2, <1>7, <1>10

(* A sum of integers is an integer, it is 0 over no place, and any place   *)
(* can be added last.                                                      *)
LEMMA SumFacts ==
    ASSUME NEW I, IsFiniteSet(I), NEW f, \A i \in I : f[i] \in Int
    PROVE  /\ SumOver(f, I) \in Int
           /\ I = {} => SumOver(f, I) = 0
           /\ \A a \in I : SumOver(f, I) = f[a] + SumOver(f, I \ {a})
<1>1. PICK g : Folds(g, I, f, 0, Plus, Some(I)) /\ SumOver(f, I) = g[I]
  BY SumIsFold
<1> DEFINE ch == Some(I)
<1>2. \A s \in SUBSET I : s # {} => ch[s] \in s
  BY DEF Some
<1>3. \A x \in I, v \in Int : Plus[<<f[x], v>>] \in Int /\ Plus[<<f[x], v>>] = f[x] + v
  BY DEF Plus
<1>4. \A x \in I, y \in I, v \in Int :
         Plus[<<f[x], Plus[<<f[y], v>>]>>] = Plus[<<f[y], Plus[<<f[x], v>>]>>]
  BY <1>3
<1> DEFINE V == Int
<1>v. /\ 0 \in V /\ \A x \in I, v \in V : Plus[<<f[x], v>>] \in V
      /\ \A x \in I, y \in I, v \in V :
            Plus[<<f[x], Plus[<<f[y], v>>]>>] = Plus[<<f[y], Plus[<<f[x], v>>]>>]
      /\ Folds(g, I, f, 0, Plus, ch)
  BY <1>1, <1>3, <1>4
<1>5. \A s \in SUBSET I : g[s] \in Int
  <2>1. \A s \in SUBSET I : g[s] \in V
    <3> HIDE DEF ch, V
    <3> QED BY <1>2, <1>v, FoldType
  <2> QED BY <2>1
<1>6. \A s \in SUBSET I : \A a \in s : g[s] = Plus[<<f[a], g[s \ {a}]>>]
  <2> HIDE DEF ch, V
  <2> QED BY <1>2, <1>v, FoldAny
<1>7. I = {} => g[I] = 0
  BY <1>1 DEF Folds
<1>8. ASSUME NEW a \in I PROVE SumOver(f, I) = f[a] + SumOver(f, I \ {a})
  <2> DEFINE J == I \ {a}
  <2>1. J \in SUBSET I /\ IsFiniteSet(J) /\ \A i \in J : f[i] \in Int
    BY FS_Subset
  <2>2. PICK e : Folds(e, J, f, 0, Plus, Some(J)) /\ SumOver(f, J) = e[J]
    <3> HIDE DEF J
    <3> QED BY <2>1, SumIsFold
  <2>3. \A s \in SUBSET J : s # {} => ch[s] \in s /\ Some(J)[s] = ch[s]
    BY DEF Some
  <2>4. g[J] = e[J]
    <3> DEFINE d == Some(J)
    <3> HIDE DEF J, ch, d
    <3>1. /\ Folds(e, J, f, 0, Plus, d) /\ Folds(g, I, f, 0, Plus, ch)
          /\ \A s \in SUBSET J : s # {} => ch[s] \in s /\ d[s] = ch[s]
      BY <1>1, <2>2, <2>3 DEF d, ch
    <3>2. \A s \in SUBSET J : g[s] = e[s]
      BY <2>1, <3>1, FoldUnique
    <3> QED BY <3>2
  <2>5. g[I] = f[a] + g[J]
    BY <1>3, <1>5, <1>6
  <2> QED BY <1>1, <2>2, <2>4, <2>5
<1> QED BY <1>1, <1>5, <1>7, <1>8
-----------------------------------------------------------------------------
(* Multiplication in the field, as a function.                             *)
Times == [p \in Int \X Int |-> (p[1] * p[2]) % Prime]

(* The product of f over the set I of places, reduced after every step.    *)
ProductOver(f, I) == FoldFunctionOnSet(LAMBDA a, b : (a * b) % Prime, 1, f, I)

(* The library's product is a fold.                                        *)
LEMMA ProductIsFold ==
    ASSUME NEW I, IsFiniteSet(I), NEW f, \A i \in I : f[i] \in Int
    PROVE  \E g : Folds(g, I, f, 1, Times, Some(I)) /\ ProductOver(f, I) = g[I]
<1>1. \A s \in SUBSET I : s # {} => Some(I)[s] \in s
  BY DEF Some
<1>2. PICK e : Folds(e, I, f, 1, Times, Some(I))
  BY <1>1, FoldExists
<1>3. \A x \in I, v \in Int :
         Times[<<f[x], v>>] \in Int /\ Times[<<f[x], v>>] = (f[x] * v) % Prime
  BY PrimeNat DEF Times
<1>4. \A s \in SUBSET I : e[s] \in Int
  <2> DEFINE ch == Some(I)
  <2> HIDE DEF ch
  <2>1. /\ \A s \in SUBSET I : s # {} => ch[s] \in s
        /\ \A x \in I, v \in Int : Times[<<f[x], v>>] \in Int
        /\ Folds(e, I, f, 1, Times, ch) /\ 1 \in Int
    BY <1>1, <1>2, <1>3 DEF ch
  <2> QED BY <2>1, FoldType
<1> DEFINE It(g) == g = [s \in SUBSET I |->
               IF s = {} THEN 1
               ELSE (f[CHOOSE x \in s : TRUE] * g[s \ {CHOOSE x \in s : TRUE}]) % Prime]
<1>5. It(e)
  <2>1. ASSUME NEW s \in SUBSET I, s # {}
        PROVE  Times[<<f[Some(I)[s]], e[s \ {Some(I)[s]}]>>]
                 = (f[CHOOSE x \in s : TRUE] * e[s \ {CHOOSE x \in s : TRUE}]) % Prime
    <3>1. Some(I)[s] = CHOOSE x \in s : TRUE
      BY DEF Some
    <3>2. Some(I)[s] \in I /\ s \ {Some(I)[s]} \in SUBSET I
      BY <1>1, <2>1
    <3> QED BY <1>3, <1>4, <3>1, <3>2
  <2> QED BY <1>2, <2>1 DEF Folds
<1> DEFINE g == CHOOSE g : It(g)
<1>6. It(g)
  <2> HIDE DEF It
  <2> QED BY <1>5
<1>7. ProductOver(f, I) = g[I]
  BY DEF ProductOver, FoldFunctionOnSet, MapThenFoldSet
<1> DEFINE B == {s \in SUBSET I : g[s] = e[s]}
<1> HIDE DEF g
<1>8. ASSUME NEW s \in SUBSET I,
             \A r \in SUBSET I : Cardinality(r) < Cardinality(s) => r \in B
      PROVE  s \in B
  <2> DEFINE x == CHOOSE x \in s : TRUE
  <2>1. g[s] = IF s = {} THEN 1 ELSE (f[x] * g[s \ {x}]) % Prime
    BY <1>6
  <2>2. e[s] = IF s = {} THEN 1 ELSE (f[x] * e[s \ {x}]) % Prime
    BY <1>5
  <2>3. ASSUME s # {} PROVE g[s \ {x}] = e[s \ {x}]
    <3>1. x \in s /\ IsFiniteSet(s)
      BY <2>3, FS_Subset
    <3> HIDE DEF x
    <3>2. Cardinality(s \ {x}) < Cardinality(s)
      BY <3>1, Without
    <3> QED BY <1>8, <3>2
  <2> HIDE DEF x
  <2> QED BY <2>1, <2>2, <2>3
<1>9. SUBSET I \subseteq B
  <2> HIDE DEF B, It
  <2> QED BY <1>8, SubsetInduction
<1>10. g[I] = e[I]
  BY <1>9
<1> QED BY <1>2, <1>7, <1>10

(* A product of integers is in the field, it is 1 over no place, and any   *)
(* place can be multiplied last.                                           *)
LEMMA ProductFacts ==
    ASSUME NEW I, IsFiniteSet(I), NEW f, \A i \in I : f[i] \in Int
    PROVE  /\ ProductOver(f, I) \in Field
           /\ I = {} => ProductOver(f, I) = 1
           /\ \A a \in I : ProductOver(f, I) = (f[a] * ProductOver(f, I \ {a})) % Prime
<1>1. PICK g : Folds(g, I, f, 1, Times, Some(I)) /\ ProductOver(f, I) = g[I]
  BY ProductIsFold
<1> DEFINE ch == Some(I)
           V == Field
<1>2. \A s \in SUBSET I : s # {} => ch[s] \in s
  BY DEF Some
<1>3. \A x \in I, v \in V : Times[<<f[x], v>>] \in V /\ Times[<<f[x], v>>] = (f[x] * v) % Prime
  <2>1. V \subseteq Int
    BY PrimeNat DEF Field
  <2>2. \A a \in Int : a % Prime \in V
    BY ModSplit DEF Field
  <2>3. \A x \in I, v \in V : f[x] * v \in Int /\ Times[<<f[x], v>>] = (f[x] * v) % Prime
    BY <2>1 DEF Times
  <2> HIDE DEF V
  <2> QED BY <2>2, <2>3
<1>4. ASSUME NEW x \in I, NEW y \in I, NEW v \in V
      PROVE  Times[<<f[x], Times[<<f[y], v>>]>>] = Times[<<f[y], Times[<<f[x], v>>]>>]
  <2> DEFINE a == f[x]
             b == f[y]
  <2>1. a \in Int /\ b \in Int /\ v \in Int /\ a * v \in Int /\ b * v \in Int
    BY PrimeNat DEF Field
  <2>2. /\ Times[<<f[x], Times[<<f[y], v>>]>>] = (a * ((b * v) % Prime)) % Prime
        /\ Times[<<f[y], Times[<<f[x], v>>]>>] = (b * ((a * v) % Prime)) % Prime
    BY <1>3
  <2> HIDE DEF a, b
  <2>3. (a * v) % Prime \in Int /\ (b * v) % Prime \in Int
    BY <2>1, PrimeNat
  <2>4. Cong((a * v) % Prime, a * v) /\ Cong((b * v) % Prime, b * v) /\ Cong(a, a) /\ Cong(b, b)
    BY <2>1, CongMod, CongRefl
  <2>5. Cong(a * ((b * v) % Prime), a * (b * v)) /\ Cong(b * ((a * v) % Prime), b * (a * v))
    BY <2>1, <2>3, <2>4, CongMul
  <2>6. a * (b * v) = b * (a * v)
    BY <2>1
  <2>7. /\ a * ((b * v) % Prime) \in Int /\ a * (b * v) \in Int
        /\ b * ((a * v) % Prime) \in Int /\ b * (a * v) \in Int
    BY <2>1, <2>3
  <2>8. /\ (a * ((b * v) % Prime)) % Prime = (a * (b * v)) % Prime
        /\ (b * ((a * v) % Prime)) % Prime = (b * (a * v)) % Prime
    BY <2>5, <2>7, ModEqual
  <2> QED BY <2>2, <2>6, <2>8
<1>v. /\ 1 \in V /\ \A x \in I, v \in V : Times[<<f[x], v>>] \in V
      /\ \A x \in I, y \in I, v \in V :
            Times[<<f[x], Times[<<f[y], v>>]>>] = Times[<<f[y], Times[<<f[x], v>>]>>]
      /\ Folds(g, I, f, 1, Times, ch)
  <2>1. 1 \in V
    BY PrimeNat DEF Field
  <2> HIDE DEF V
  <2> QED BY <1>1, <1>3, <1>4, <2>1
<1>5. \A s \in SUBSET I : g[s] \in V
  <2> HIDE DEF ch, V
  <2> QED BY <1>2, <1>v, FoldType
<1>6. \A s \in SUBSET I : \A a \in s : g[s] = Times[<<f[a], g[s \ {a}]>>]
  <2> HIDE DEF ch, V
  <2> QED BY <1>2, <1>v, FoldAny
<1>7. I = {} => g[I] = 1
  BY <1>1 DEF Folds
<1>8. ASSUME NEW a \in I PROVE ProductOver(f, I) = (f[a] * ProductOver(f, I \ {a})) % Prime
  <2> DEFINE J == I \ {a}
  <2>1. J \in SUBSET I /\ IsFiniteSet(J) /\ \A i \in J : f[i] \in Int
    BY FS_Subset
  <2>2. PICK e : Folds(e, J, f, 1, Times, Some(J)) /\ ProductOver(f, J) = e[J]
    <3> HIDE DEF J
    <3> QED BY <2>1, ProductIsFold
  <2>3. \A s \in SUBSET J : s # {} => ch[s] \in s /\ Some(J)[s] = ch[s]
    BY DEF Some
  <2>4. g[J] = e[J]
    <3> DEFINE d == Some(J)
    <3> HIDE DEF J, ch, d
    <3>1. /\ Folds(e, J, f, 1, Times, d) /\ Folds(g, I, f, 1, Times, ch)
          /\ \A s \in SUBSET J : s # {} => ch[s] \in s /\ d[s] = ch[s]
      BY <1>1, <2>2, <2>3 DEF d, ch
    <3>2. \A s \in SUBSET J : g[s] = e[s]
      BY <2>1, <3>1, FoldUnique
    <3> QED BY <3>2
  <2>5. g[I] = (f[a] * g[J]) % Prime
    <3> HIDE DEF V
    <3> QED BY <1>3, <1>5, <1>6
  <2> QED BY <1>1, <2>2, <2>4, <2>5
<1> QED BY <1>1, <1>5, <1>7, <1>8
-----------------------------------------------------------------------------
(* The values that _evaluate goes through, from the last coefficient on:   *)
(* v[i] is the value at x of the coefficients from i on                    *)
(* (shamir.py:143-147).                                                    *)
Horner(v, p, k, x) ==
    /\ v \in [1 .. k + 1 -> Field]
    /\ v[k + 1] = 0
    /\ \A i \in 1 .. k : v[i] = (v[i + 1] * x + p[i]) % Prime

(* What Evaluate computes by the library's fold is the first of them.      *)
LEMMA EvaluateIsHorner ==
    ASSUME NEW k \in Nat, NEW p \in [1 .. k -> Field], NEW x \in Int
    PROVE  \E v : Horner(v, p, k, x) /\ Evaluate(p, x) = v[1]
<1> DEFINE S == 1 .. k
           op == [q \in Int \X Int |-> (q[2] * x + q[1]) % Prime]
           ch == [s \in SUBSET S |-> Min(s)]
<1>0. IsFiniteSet(S) /\ DOMAIN p = S /\ Field \subseteq Int
  BY FS_Interval, PrimeNat DEF Field
<1>1. ASSUME NEW s \in SUBSET S, s # {} PROVE Min(s) \in s /\ \A y \in s : Min(s) <= y
  <2>1. s \subseteq Nat
    OBVIOUS
  <2>2. PICK n \in s : \A m \in s : n <= m
    BY <1>1, <2>1, LeastOf
  <2> QED BY <2>2 DEF Min
<1>2. PICK e : Folds(e, S, p, 0, op, ch)
  <2>1. \A s \in SUBSET S : s # {} => ch[s] \in s
    BY <1>1
  <2> HIDE DEF S, ch, op
  <2> QED BY <1>0, <2>1, FoldExists
<1>3. \A y \in S, v \in Field :
         op[<<p[y], v>>] \in Field /\ op[<<p[y], v>>] = (v * x + p[y]) % Prime
  <2>1. \A a \in Int : a % Prime \in Field
    BY ModSplit DEF Field
  <2>2. ASSUME NEW y \in S, NEW v \in Field
        PROVE  v * x + p[y] \in Int /\ op[<<p[y], v>>] = (v * x + p[y]) % Prime
    <3>1. p[y] \in Int /\ v \in Int
      BY <1>0
    <3>2. v * x + p[y] \in Int
      BY <3>1
    <3> QED BY <3>1, <3>2
  <2> HIDE DEF op
  <2> QED BY <2>1, <2>2
<1>4. \A s \in SUBSET S : e[s] \in Field
  <2> DEFINE V == Field
  <2>1. \A s \in SUBSET S : s # {} => ch[s] \in s
    BY <1>1
  <2>2. 0 \in V
    BY PrimeNat DEF Field
  <2>3. \A y \in S, v \in V : op[<<p[y], v>>] \in V
    BY <1>3
  <2> HIDE DEF S, ch, op, V
  <2>4. \A s \in SUBSET S : e[s] \in V
    BY <1>0, <1>2, <2>1, <2>2, <2>3, FoldType
  <2> QED BY <2>4 DEF V
<1> DEFINE It(g) == g = [s \in SUBSET S |->
               IF s = {} THEN 0 ELSE (g[s \ {Min(s)}] * x + p[Min(s)]) % Prime]
<1>5. It(e)
  <2>1. ASSUME NEW s \in SUBSET S, s # {}
        PROVE  op[<<p[ch[s]], e[s \ {ch[s]}]>>] = (e[s \ {Min(s)}] * x + p[Min(s)]) % Prime
    <3>1. ch[s] = Min(s) /\ Min(s) \in S /\ s \ {Min(s)} \in SUBSET S
      BY <1>1, <2>1
    <3> HIDE DEF op, ch
    <3> QED BY <1>3, <1>4, <3>1
  <2> HIDE DEF op
  <2> QED BY <1>2, <2>1 DEF Folds
<1> DEFINE g == CHOOSE g : It(g)
<1>6. It(g)
  <2> HIDE DEF It
  <2> QED BY <1>5
<1>7. Evaluate(p, x) = g[S]
  BY <1>0 DEF Evaluate, FoldRight, MapThenFoldSet
<1> DEFINE B == {s \in SUBSET S : g[s] = e[s]}
<1> HIDE DEF g
<1>8. ASSUME NEW s \in SUBSET S,
             \A r \in SUBSET S : Cardinality(r) < Cardinality(s) => r \in B
      PROVE  s \in B
  <2> DEFINE y == Min(s)
  <2>1. g[s] = IF s = {} THEN 0 ELSE (g[s \ {y}] * x + p[y]) % Prime
    BY <1>6
  <2>2. e[s] = IF s = {} THEN 0 ELSE (e[s \ {y}] * x + p[y]) % Prime
    BY <1>5
  <2>3. ASSUME s # {} PROVE g[s \ {y}] = e[s \ {y}]
    <3>1. y \in s /\ IsFiniteSet(s)
      BY <1>0, <1>1, <2>3, FS_Subset
    <3> HIDE DEF y
    <3>2. Cardinality(s \ {y}) < Cardinality(s)
      BY <3>1, Without
    <3> QED BY <1>8, <3>2
  <2> HIDE DEF y
  <2> QED BY <2>1, <2>2, <2>3
<1>9. g[S] = e[S]
  <2>1. SUBSET S \subseteq B
    <3> HIDE DEF B, It, S
    <3> QED BY <1>0, <1>8, SubsetInduction
  <2> QED BY <2>1
<1> DEFINE v == [i \in 1 .. k + 1 |-> e[i .. k]]
<1>10. Horner(v, p, k, x)
  <2>1. \A i \in 1 .. k + 1 : i .. k \in SUBSET S
    OBVIOUS
  <2>2. v \in [1 .. k + 1 -> Field]
    BY <1>4, <2>1
  <2>3. (k + 1) .. k = {}
    OBVIOUS
  <2>4. v[k + 1] = 0
    BY <1>5, <2>3
  <2>5. ASSUME NEW i \in 1 .. k PROVE v[i] = (v[i + 1] * x + p[i]) % Prime
    <3>0. i \in i .. k
      OBVIOUS
    <3>1. i .. k # {} /\ i .. k \in SUBSET S /\ \A y \in i .. k : i <= y
      <4>1. i .. k # {}
        BY <3>0
      <4>2. i .. k \in SUBSET S /\ \A y \in i .. k : i <= y
        OBVIOUS
      <4> QED BY <4>1, <4>2
    <3>2. Min(i .. k) = i
      <4> DEFINE t == i .. k
      <4> HIDE DEF t
      <4>1. t \in SUBSET S /\ t # {} /\ i \in t
        BY <3>0, <3>1 DEF t
      <4> HIDE DEF S
      <4>2. Min(t) \in t /\ Min(t) <= i
        BY <1>1, <4>1
      <4> QED BY <4>2, <3>1 DEF t
    <3>3. (i .. k) \ {i} = (i + 1) .. k
      OBVIOUS
    <3>4. e[i .. k] = (e[(i .. k) \ {i}] * x + p[i]) % Prime
      BY <1>5, <3>1, <3>2
    <3>5. v[i] = e[i .. k] /\ v[i + 1] = e[(i + 1) .. k]
      OBVIOUS
    <3> QED BY <3>3, <3>4, <3>5
  <2> QED BY <2>2, <2>4, <2>5 DEF Horner
<1>11. v[1] = e[S]
  OBVIOUS
<1> QED BY <1>7, <1>9, <1>10, <1>11
-----------------------------------------------------------------------------
(* The numbers that have a reciprocal.                                     *)
Unit(x) == \E y \in Int : Cong(x * y, 1)

(* A factor that has a reciprocal can be cancelled.                        *)
LEMMA Cancel ==
    ASSUME NEW z \in Int, Unit(z), NEW x \in Int, NEW y \in Int, Cong(z * x, z * y)
    PROVE  Cong(x, y)
<1>1. PICK u \in Int, m \in Int : z * u = 1 + m * Prime
  BY DEF Unit, Cong
<1>2. PICK n \in Int : z * x = z * y + n * Prime
  BY DEF Cong
<1> DEFINE w == m * y + u * n - m * x
<1>3. x = y + w * Prime
  <2>1. (z * u) * x = x + m * Prime * x /\ (z * u) * y = y + m * Prime * y
    BY <1>1, PrimeNat
  <2>2. u * (z * x) = u * (z * y) + u * n * Prime
    BY <1>1, <1>2, PrimeNat
  <2>3. u * (z * x) = (z * u) * x /\ u * (z * y) = (z * u) * y
    BY <1>1
  <2>4. x + m * Prime * x = y + m * Prime * y + u * n * Prime
    BY <2>1, <2>2, <2>3
  <2>5. w * Prime = m * Prime * y + u * n * Prime - m * Prime * x
    BY <1>1, <1>2, PrimeNat
  <2> QED BY <1>1, <1>2, <2>4, <2>5, PrimeNat
<1>4. w \in Int
  BY <1>1, <1>2
<1> HIDE DEF w
<1> QED BY <1>3, <1>4 DEF Cong

(* A product of numbers with reciprocals has one, ...                      *)
LEMMA UnitTimes ==
    ASSUME NEW x \in Int, NEW y \in Int, Unit(x), Unit(y)
    PROVE  Unit(x * y)
<1>1. PICK u \in Int : Cong(x * u, 1)
  BY DEF Unit
<1>2. PICK v \in Int : Cong(y * v, 1)
  BY DEF Unit
<1>3. x * u \in Int /\ y * v \in Int /\ u * v \in Int
  BY <1>1, <1>2
<1>4. Cong((x * u) * (y * v), 1 * 1)
  BY <1>1, <1>2, <1>3, CongMul
<1>5. (x * u) * (y * v) = (x * y) * (u * v) /\ 1 * 1 = 1
  BY <1>1, <1>2
<1> QED BY <1>3, <1>4, <1>5 DEF Unit

(* ... and so has a number congruent to one that has.                      *)
LEMMA UnitCong ==
    ASSUME NEW x \in Int, NEW y \in Int, Unit(x), Cong(y, x)
    PROVE  Unit(y)
<1>1. PICK u \in Int : Cong(x * u, 1)
  BY DEF Unit
<1>2. Cong(u, u)
  BY <1>1, CongRefl
<1>3. Cong(y * u, x * u)
  BY <1>1, <1>2, CongMul
<1>4. y * u \in Int /\ x * u \in Int
  BY <1>1
<1>5. Cong(y * u, 1)
  BY <1>1, <1>3, <1>4, CongTrans
<1> QED BY <1>1, <1>5 DEF Unit

(* As the modulus is prime, every element of the field but 0 has a         *)
(* reciprocal: the least positive number that is congruent to a multiple   *)
(* of z divides the prime, so it is 1.                                     *)
LEMMA PrimeUnit ==
    ASSUME NEW z \in Field, z # 0
    PROVE  Unit(z)
<1> DEFINE C == {d \in Nat \ {0} : \E y \in Int : Cong(z * y, d)}
<1>1. z \in C
  <2>1. z \in Nat \ {0} /\ z \in Int /\ z * 1 = z
    BY PrimeNat DEF Field
  <2>2. Cong(z * 1, z)
    BY <2>1, CongRefl
  <2> QED BY <2>1, <2>2
<1>2. PICK d \in C : \A e \in C : d <= e
  <2>1. C \subseteq Nat /\ C # {}
    BY <1>1
  <2> HIDE DEF C
  <2> QED BY <2>1, LeastOf
<1>3. PICK y \in Int : Cong(z * y, d)
  OBVIOUS
<1>4. d \in Nat /\ d > 0 /\ d <= z /\ z < Prime /\ z \in Int
  BY <1>1, <1>2, PrimeNat DEF Field
<1>5. d = 1
  <2> SUFFICES ASSUME d # 1 PROVE FALSE
    OBVIOUS
  <2> DEFINE r == Prime % d
             q == Prime \div d
  <2>1. r \in Nat /\ r < d /\ q \in Int /\ Prime = q * d + r
    BY <1>4, PrimeNat
  <2>2. r # 0
    <3>1. d \in 2 .. Prime - 1
      BY <1>4, PrimeNat
    <3> QED BY <3>1, ShamirAssumption DEF IsPrime
  <2>3. Cong(z * (-q * y), r)
    <3> HIDE DEF q, r
    <3>1. PICK m \in Int : z * y = d + m * Prime
      BY <1>3 DEF Cong
    <3> DEFINE t == -q * m - 1
    <3>2. z * (-q * y) = -q * (z * y)
      BY <1>3, <1>4, <2>1
    <3>3. -q * (z * y) = -q * d - q * (m * Prime)
      BY <1>3, <1>4, <2>1, <3>1, PrimeNat
    <3>4. t * Prime = -q * (m * Prime) - Prime
      BY <2>1, <3>1, PrimeNat
    <3>5. z * (-q * y) = r + t * Prime
      BY <1>4, <2>1, <3>1, <3>2, <3>3, <3>4, PrimeNat
    <3>6. t \in Int
      BY <2>1, <3>1
    <3> HIDE DEF t
    <3> QED BY <3>5, <3>6 DEF Cong
  <2>4. r \in C
    <3>1. -q * y \in Int
      BY <1>3, <2>1
    <3> HIDE DEF r, q
    <3> QED BY <2>1, <2>2, <2>3, <3>1
  <2> HIDE DEF C, r
  <2> QED BY <1>2, <1>4, <2>1, <2>4
<1> QED BY <1>3, <1>5 DEF Unit

(* The difference of two elements of the field has a reciprocal.           *)
LEMMA DifferenceUnit ==
    ASSUME NEW x \in Field, NEW y \in Field, x # y
    PROVE  Unit(x - y) /\ Unit((x - y) % Prime)
<1>1. x \in Int /\ y \in Int /\ x - y \in Int
  BY PrimeNat DEF Field
<1> DEFINE z == (x - y) % Prime
<1>2. z \in Int /\ z \in Field /\ Cong(z, x - y)
  BY <1>1, CongMod, ModSplit, PrimeNat DEF Field
<1>3. z # 0
  <2> SUFFICES ASSUME z = 0 PROVE FALSE
    OBVIOUS
  <2>1. PICK m \in Int : x - y = m * Prime
    <3>1. \A a \in Int : a % Prime = 0 => a = (a \div Prime) * Prime /\ a \div Prime \in Int
      BY PrimeNat
    <3> QED BY <1>1, <3>1
  <2>2. x = y + m * Prime
    BY <1>1, <2>1, PrimeNat
  <2>3. Cong(x, y)
    BY <2>1, <2>2 DEF Cong
  <2> QED BY <2>3, CongEqual
<1> HIDE DEF z
<1>4. Unit(z)
  BY <1>2, <1>3, PrimeUnit
<1>5. Unit(x - y)
  BY <1>1, <1>2, <1>4, CongSym, UnitCong
<1> QED BY <1>4, <1>5 DEF z

(* What Reciprocal chooses is one (pow(d, -1, PRIME), shamir.py:135).      *)
LEMMA ReciprocalIs ==
    ASSUME NEW x \in Int, Unit(x)
    PROVE  Reciprocal(x) \in Field /\ Cong(x * Reciprocal(x), 1)
<1>1. PICK u \in Int : Cong(x * u, 1)
  BY DEF Unit
<1> DEFINE y == u % Prime
<1>2. y \in Field /\ y \in Int /\ Cong(y, u)
  BY <1>1, CongMod, ModSplit, PrimeNat DEF Field
<1>3. \A v \in Int : Cong(x * v, 1) <=> (x * v) % Prime = 1
  <2> TAKE v \in Int
  <2>1. x * v \in Int /\ 1 \in Int /\ 1 % Prime = 1
    BY PrimeNat
  <2> QED BY <2>1, ModEqual
<1>4. Cong(x * y, 1)
  <2> HIDE DEF y
  <2>1. Cong(x, x)
    BY CongRefl
  <2>2. Cong(x * y, x * u)
    BY <1>1, <1>2, <2>1, CongMul
  <2>3. x * y \in Int /\ x * u \in Int
    BY <1>1, <1>2
  <2> QED BY <1>1, <2>2, <2>3, CongTrans
<1>5. \E v \in Field : (x * v) % Prime = 1
  <2> HIDE DEF y
  <2> QED BY <1>2, <1>3, <1>4
<1>6. Reciprocal(x) \in Field /\ (x * Reciprocal(x)) % Prime = 1
  BY <1>5 DEF Reciprocal
<1>7. Reciprocal(x) \in Int
  BY <1>6, PrimeNat DEF Field
<1> QED BY <1>3, <1>6, <1>7
-----------------------------------------------------------------------------
(* Sums are linear: if each f[i] is congruent to c g[i] + d h[i], so are   *)
(* the sums.                                                               *)
LEMMA Linear ==
    ASSUME NEW I, IsFiniteSet(I), NEW f, NEW g, NEW h, NEW c \in Int, NEW d \in Int,
           \A i \in I : f[i] \in Int /\ g[i] \in Int /\ h[i] \in Int,
           \A i \in I : Cong(f[i], c * g[i] + d * h[i])
    PROVE  Cong(SumOver(f, I), c * SumOver(g, I) + d * SumOver(h, I))
<1> DEFINE B == {s \in SUBSET I : Cong(SumOver(f, s), c * SumOver(g, s) + d * SumOver(h, s))}
<1>0. \A s \in SUBSET I : IsFiniteSet(s) /\ Cardinality(s) \in Nat
  BY FS_Subset, FS_CardinalityType
<1>t. ASSUME NEW s \in SUBSET I
      PROVE  /\ SumOver(f, s) \in Int
             /\ SumOver(g, s) \in Int
             /\ SumOver(h, s) \in Int
             /\ s = {} => SumOver(f, s) = 0 /\ SumOver(g, s) = 0 /\ SumOver(h, s) = 0
             /\ \A a \in s : /\ SumOver(f, s) = f[a] + SumOver(f, s \ {a})
                             /\ SumOver(g, s) = g[a] + SumOver(g, s \ {a})
                             /\ SumOver(h, s) = h[a] + SumOver(h, s \ {a})
  <2>1. IsFiniteSet(s)
    BY <1>0
  <2>f. \A i \in s : f[i] \in Int
    OBVIOUS
  <2>g. \A i \in s : g[i] \in Int
    OBVIOUS
  <2>h. \A i \in s : h[i] \in Int
    OBVIOUS
  <2>2. /\ SumOver(f, s) \in Int
        /\ s = {} => SumOver(f, s) = 0
        /\ \A a \in s : SumOver(f, s) = f[a] + SumOver(f, s \ {a})
    BY <2>1, <2>f, SumFacts
  <2>3. /\ SumOver(g, s) \in Int
        /\ s = {} => SumOver(g, s) = 0
        /\ \A a \in s : SumOver(g, s) = g[a] + SumOver(g, s \ {a})
    BY <2>1, <2>g, SumFacts
  <2>4. /\ SumOver(h, s) \in Int
        /\ s = {} => SumOver(h, s) = 0
        /\ \A a \in s : SumOver(h, s) = h[a] + SumOver(h, s \ {a})
    BY <2>1, <2>h, SumFacts
  <2> QED BY <2>2, <2>3, <2>4
<1>1. ASSUME NEW s \in SUBSET I,
             \A r \in SUBSET I : Cardinality(r) < Cardinality(s) => r \in B
      PROVE  s \in B
  <2>1. CASE s = {}
    <3>1. SumOver(f, s) = 0 /\ c * SumOver(g, s) + d * SumOver(h, s) = 0
      BY <1>t, <2>1
    <3> QED BY <3>1, CongRefl
  <2>2. CASE s # {}
    <3>1. PICK a \in s : TRUE
      BY <2>2
    <3> DEFINE r == s \ {a}
               F == SumOver(f, r)
               G == SumOver(g, r)
               H == SumOver(h, r)
    <3>2. r \in SUBSET I /\ Cardinality(r) < Cardinality(s)
      BY <1>0, Without
    <3>3. F \in Int /\ G \in Int /\ H \in Int
      BY <1>t, <3>2
    <3>4. f[a] \in Int /\ g[a] \in Int /\ h[a] \in Int /\ Cong(f[a], c * g[a] + d * h[a])
      OBVIOUS
    <3>5. Cong(F, c * G + d * H)
      BY <1>1, <3>2
    <3>6. /\ SumOver(f, s) = f[a] + F
          /\ SumOver(g, s) = g[a] + G
          /\ SumOver(h, s) = h[a] + H
      BY <1>t
    <3> HIDE DEF F, G, H, r
    <3>7. c * g[a] + d * h[a] \in Int /\ c * G + d * H \in Int
      BY <3>3, <3>4
    <3>8. Cong(f[a] + F, (c * g[a] + d * h[a]) + (c * G + d * H))
      BY <3>3, <3>4, <3>5, <3>7, CongAdd
    <3>9. (c * g[a] + d * h[a]) + (c * G + d * H) = c * (g[a] + G) + d * (h[a] + H)
      BY <3>3, <3>4
    <3> QED BY <3>6, <3>8, <3>9
  <2> QED BY <2>1, <2>2
<1>2. SUBSET I \subseteq B
  <2> HIDE DEF B
  <2> QED BY <1>1, SubsetInduction
<1> QED BY <1>2

(* A product depends on the values at its places only.                     *)
LEMMA ProductSame ==
    ASSUME NEW I, IsFiniteSet(I), NEW f, NEW h,
           \A i \in I : f[i] \in Int, \A i \in I : f[i] = h[i]
    PROVE  ProductOver(f, I) = ProductOver(h, I)
<1> DEFINE c == Some(I)
<1>1. \A i \in I : h[i] \in Int
  OBVIOUS
<1>2. PICK g : Folds(g, I, f, 1, Times, Some(I)) /\ ProductOver(f, I) = g[I]
  BY ProductIsFold
<1>3. PICK e : Folds(e, I, h, 1, Times, Some(I)) /\ ProductOver(h, I) = e[I]
  BY <1>1, ProductIsFold
<1>4. \A s \in SUBSET I : s # {} => c[s] \in s /\ c[s] = c[s]
  BY DEF Some
<1>5. \A s \in SUBSET I : g[s] = e[s]
  <2>1. Folds(g, I, f, 1, Times, c) /\ Folds(e, I, h, 1, Times, c) /\ I \in SUBSET I
    BY <1>2, <1>3
  <2> HIDE DEF c
  <2> QED BY <1>4, <2>1, FoldUnique
<1> QED BY <1>2, <1>3, <1>5

(* The product of the differences of c from the places in K: the           *)
(* numerators (c = 0) and denominators of a share's weight                 *)
(* (shamir.py:124-131).                                                    *)
Prod(c, K) == ProductOver([j \in K |-> (c - j) % Prime], K)

(* It is in the field, it is 1 over no place, and any factor can be split  *)
(* off.                                                                    *)
LEMMA ProdFacts ==
    ASSUME NEW K, IsFiniteSet(K), K \subseteq Field, NEW c \in Int
    PROVE  /\ Prod(c, K) \in Field
           /\ K = {} => Prod(c, K) = 1
           /\ \A a \in K : Cong(Prod(c, K), (c - a) * Prod(c, K \ {a}))
<1> DEFINE f == [j \in K |-> (c - j) % Prime]
<1>0. Field \subseteq Int
  BY PrimeNat DEF Field
<1>1. ASSUME NEW j \in K
      PROVE  f[j] \in Int /\ Cong(f[j], c - j) /\ c - j \in Int
  <2>1. c - j \in Int
    BY <1>0
  <2>2. Cong((c - j) % Prime, c - j) /\ (c - j) % Prime \in Int
    <3> DEFINE e == c - j
    <3>1. e \in Int
      BY <2>1
    <3> HIDE DEF e
    <3>2. Cong(e % Prime, e) /\ e % Prime \in Int
      BY <3>1, CongMod, PrimeNat
    <3> QED BY <3>2 DEF e
  <2> QED BY <2>1, <2>2
<1>2. /\ ProductOver(f, K) \in Field
      /\ K = {} => ProductOver(f, K) = 1
      /\ \A a \in K : ProductOver(f, K) = (f[a] * ProductOver(f, K \ {a})) % Prime
  <2>1. \A j \in K : f[j] \in Int
    BY <1>1
  <2> HIDE DEF f
  <2> QED BY <2>1, ProductFacts
<1>3. ASSUME NEW a \in K PROVE Cong(Prod(c, K), (c - a) * Prod(c, K \ {a}))
  <2> DEFINE J == K \ {a}
             g == [j \in J |-> (c - j) % Prime]
  <2>1. IsFiniteSet(J)
    BY FS_Subset
  <2>2. /\ \A j \in J : f[j] \in Int
        /\ \A j \in J : f[j] = g[j]
    BY <1>1
  <2>3. ProductOver(f, J) = ProductOver(g, J) /\ ProductOver(f, J) \in Field
    <3> HIDE DEF f, g, J
    <3> QED BY <2>1, <2>2, ProductSame, ProductFacts
  <2> DEFINE u == ProductOver(f, J)
  <2>4. Prod(c, J) = u /\ u \in Int /\ Prod(c, K) = (f[a] * u) % Prime
    BY <1>0, <1>2, <2>3 DEF Prod
  <2> DEFINE v == f[a]
             w == c - a
  <2>5. v \in Int /\ w \in Int /\ Cong(v, w)
    BY <1>1
  <2> HIDE DEF u, v, w
  <2>6. Cong(v * u, w * u) /\ v * u \in Int /\ w * u \in Int
    <3>1. Cong(u, u)
      BY <2>4, CongRefl
    <3> QED BY <2>4, <2>5, <3>1, CongMul
  <2>7. Cong((v * u) % Prime, v * u) /\ (v * u) % Prime \in Int
    <3> DEFINE e == v * u
    <3>1. e \in Int
      BY <2>6
    <3> HIDE DEF e
    <3>2. Cong(e % Prime, e) /\ e % Prime \in Int
      BY <3>1, CongMod, PrimeNat
    <3> QED BY <3>2 DEF e
  <2>8. Cong((v * u) % Prime, w * u)
    BY <2>6, <2>7, CongTrans
  <2> QED BY <2>4, <2>8 DEF v, w
<1> QED BY <1>2, <1>3 DEF Prod

(* It has a reciprocal if c is none of the places.                         *)
LEMMA ProdUnit ==
    ASSUME NEW K, IsFiniteSet(K), K \subseteq Field, NEW c \in Field \ K
    PROVE  Unit(Prod(c, K))
<1> DEFINE B == {s \in SUBSET K : Unit(Prod(c, s))}
<1>0. Field \subseteq Int /\ c \in Int
  BY PrimeNat DEF Field
<1>1. ASSUME NEW s \in SUBSET K
      PROVE  /\ Prod(c, s) \in Int
             /\ s = {} => Prod(c, s) = 1
             /\ \A a \in s : Cong(Prod(c, s), (c - a) * Prod(c, s \ {a}))
  <2>1. IsFiniteSet(s) /\ s \subseteq Field
    BY FS_Subset
  <2> QED BY <1>0, <2>1, ProdFacts
<1>2. ASSUME NEW s \in SUBSET K,
             \A r \in SUBSET K : Cardinality(r) < Cardinality(s) => r \in B
      PROVE  s \in B
  <2>1. CASE s = {}
    <3>1. Cong(1 * 1, 1) /\ Prod(c, s) = 1
      BY <1>1, <2>1, CongRefl
    <3> QED BY <3>1 DEF Unit
  <2>2. CASE s # {}
    <3>1. PICK a \in s : TRUE
      BY <2>2
    <3> DEFINE r == s \ {a}
    <3>2. r \in SUBSET K /\ Cardinality(r) < Cardinality(s)
      BY FS_Subset, Without
    <3>3. Unit(Prod(c, r)) /\ Prod(c, r) \in Int
      BY <1>1, <1>2, <3>2
    <3>4. Unit(c - a) /\ c - a \in Int
      <4>1. a \in Field /\ c # a
        OBVIOUS
      <4> QED BY <1>0, <4>1, DifferenceUnit
    <3>5. Cong(Prod(c, s), (c - a) * Prod(c, r)) /\ Prod(c, s) \in Int
      BY <1>1
    <3> HIDE DEF r
    <3> DEFINE u == Prod(c, r)
               w == c - a
    <3>6. u \in Int /\ w \in Int /\ Unit(u) /\ Unit(w) /\ Cong(Prod(c, s), w * u)
      BY <3>3, <3>4, <3>5
    <3> HIDE DEF u, w
    <3>7. Unit(w * u) /\ w * u \in Int
      BY <3>6, UnitTimes
    <3>8. Unit(Prod(c, s))
      BY <3>5, <3>6, <3>7, UnitCong
    <3> QED BY <3>8
  <2> QED BY <2>1, <2>2
<1>3. SUBSET K \subseteq B
  <2> HIDE DEF B
  <2> QED BY <1>2, SubsetInduction
<1> QED BY <1>3
-----------------------------------------------------------------------------
(* The model's product is the one over the domain.                         *)
LEMMA ProductIs == ASSUME NEW f PROVE Product(f) = ProductOver(f, DOMAIN f)
BY DEF Product, ProductOver, FoldFunction

(* Lagrange's weight of a place times its denominator is its numerator.    *)
LEMMA WeightIs ==
    ASSUME NEW I, IsFiniteSet(I), I \subseteq Field, NEW i \in I
    PROVE  /\ Weight(i, I) \in Field
           /\ Cong(Weight(i, I) * Prod(i, I \ {i}), Prod(0, I \ {i}))
<1> DEFINE K == I \ {i}
           D == Prod(i, K)
           N == Prod(0, K)
           R == Reciprocal(D)
<1>1. IsFiniteSet(K) /\ K \subseteq Field /\ i \in Field \ K /\ Field \subseteq Int
  BY FS_Subset, PrimeNat DEF Field
<1>2. D \in Field /\ N \in Field /\ Unit(D)
  <2>1. i \in Int /\ 0 \in Int
    BY <1>1
  <2> HIDE DEF K
  <2> QED BY <1>1, <2>1, ProdFacts, ProdUnit
<1>3. D \in Int /\ N \in Int
  BY <1>1, <1>2
<1>4. Weight(i, I) = (N * R) % Prime
  <2>1. /\ Product([j \in K |-> (0 - j) % Prime]) = N
        /\ Product([j \in K |-> (i - j) % Prime]) = D
    <3>1. /\ DOMAIN [j \in K |-> (0 - j) % Prime] = K
          /\ DOMAIN [j \in K |-> (i - j) % Prime] = K
      OBVIOUS
    <3> QED BY <3>1, ProductIs DEF Prod
  <2> QED BY <2>1 DEF Weight
<1> HIDE DEF D, N, K
<1>5. R \in Int /\ Cong(D * R, 1)
  BY <1>1, <1>2, <1>3, ReciprocalIs
<1> HIDE DEF R
<1> DEFINE e == N * R
<1>6. e \in Int
  BY <1>3, <1>5
<1>7. Weight(i, I) \in Field /\ Weight(i, I) \in Int /\ Cong(Weight(i, I), e)
  <2>1. Weight(i, I) = e % Prime
    BY <1>4
  <2> HIDE DEF e
  <2> QED BY <1>1, <1>6, <2>1, CongMod, ModSplit DEF Field
<1> DEFINE w == Weight(i, I)
<1>8. Cong(w * D, e * D) /\ w * D \in Int /\ e * D \in Int
  <2>1. Cong(D, D)
    BY <1>3, CongRefl
  <2> HIDE DEF e, w
  <2>2. w \in Int /\ Cong(w, e)
    BY <1>7 DEF w
  <2> QED BY <1>3, <1>6, <2>1, <2>2, CongMul
<1>9. Cong(N * (D * R), N * 1) /\ N * (D * R) \in Int
  <2>1. Cong(N, N) /\ D * R \in Int
    BY <1>3, <1>5, CongRefl
  <2> QED BY <1>3, <1>5, <2>1, CongMul
<1>10. e * D = N * (D * R) /\ N * 1 = N
  BY <1>3, <1>5
<1>11. Cong(w * D, N)
  <2> HIDE DEF w, e
  <2> QED BY <1>3, <1>8, <1>9, <1>10, CongTrans
<1> QED BY <1>7, <1>11 DEF D, N, K

(* Leaving a out of the places changes the weight of i by the factor of a. *)
LEMMA WeightWithout ==
    ASSUME NEW I, IsFiniteSet(I), I \subseteq Field, NEW a \in I, NEW i \in I, i # a
    PROVE  Cong((i - a) * Weight(i, I), (-a) * Weight(i, I \ {a}))
<1> DEFINE J == I \ {a}
           K == I \ {i}
           M == K \ {a}
           W == Weight(i, I)
           V == Weight(i, J)
           D == Prod(i, M)
           N == Prod(0, M)
           DK == Prod(i, K)
           NK == Prod(0, K)
<1>1. /\ IsFiniteSet(J) /\ IsFiniteSet(K) /\ IsFiniteSet(M)
      /\ J \subseteq Field /\ K \subseteq Field /\ M \subseteq Field
      /\ a \in K /\ i \in J /\ J \ {i} = M /\ i \in Field \ M
      /\ Field \subseteq Int
  <2>1. IsFiniteSet(J) /\ IsFiniteSet(K) /\ IsFiniteSet(M)
    BY FS_Subset
  <2> QED BY <2>1, PrimeNat DEF Field
<1>2. a \in Int /\ i \in Int
  BY <1>1
<1>3. W \in Int /\ Cong(W * DK, NK)
  BY <1>1, WeightIs
<1>4. V \in Int /\ Cong(V * D, N)
  <2> HIDE DEF J, M
  <2> QED BY <1>1, WeightIs
<1>5. /\ D \in Int /\ N \in Int /\ DK \in Int /\ NK \in Int
      /\ Cong(DK, (i - a) * D) /\ Cong(NK, (0 - a) * N) /\ Unit(D)
  <2> HIDE DEF M, K
  <2>0. 0 \in Int
    OBVIOUS
  <2>1. D \in Field /\ N \in Field
    BY <1>1, <1>2, <2>0, ProdFacts
  <2>2. /\ DK \in Field /\ NK \in Field
        /\ Cong(DK, (i - a) * Prod(i, K \ {a})) /\ Cong(NK, (0 - a) * Prod(0, K \ {a}))
    BY <1>1, <1>2, <2>0, ProdFacts
  <2>3. Unit(D)
    BY <1>1, ProdUnit
  <2> QED BY <1>1, <2>1, <2>2, <2>3 DEF M
<1> HIDE DEF J, K, M, W, V, D, N, DK, NK
<1>6. PICK p \in Int : W * DK = NK + p * Prime
  BY <1>3 DEF Cong
<1>7. PICK q \in Int : V * D = N + q * Prime
  BY <1>4 DEF Cong
<1>8. PICK r \in Int : DK = (i - a) * D + r * Prime
  BY <1>5 DEF Cong
<1>9. PICK s \in Int : NK = (0 - a) * N + s * Prime
  BY <1>5 DEF Cong
<1> DEFINE x == (i - a) * W
           y == (-a) * V
           t == s + p - W * r + a * q
<1>10. x \in Int /\ y \in Int /\ t \in Int
  BY <1>2, <1>3, <1>4, <1>6, <1>7, <1>8, <1>9
<1>11. D * x = D * y + t * Prime
  <2>1. D * x = W * ((i - a) * D)
    BY <1>2, <1>3, <1>5
  <2>2. W * DK = W * ((i - a) * D) + W * (r * Prime)
    BY <1>2, <1>3, <1>5, <1>8, PrimeNat
  <2>3. D * y = (-a) * (V * D)
    BY <1>2, <1>4, <1>5
  <2>4. (-a) * (V * D) = (-a) * N - a * (q * Prime)
    BY <1>2, <1>4, <1>5, <1>7, PrimeNat
  <2>5. t * Prime = s * Prime + p * Prime - W * (r * Prime) + a * (q * Prime)
    BY <1>2, <1>3, <1>6, <1>7, <1>8, <1>9, PrimeNat
  <2>6. (0 - a) * N = (-a) * N
    BY <1>2, <1>5
  <2>7. /\ W * ((i - a) * D) \in Int /\ W * (r * Prime) \in Int /\ (-a) * N \in Int
        /\ a * (q * Prime) \in Int /\ s * Prime \in Int /\ p * Prime \in Int
    BY <1>2, <1>3, <1>5, <1>6, <1>7, <1>8, <1>9, PrimeNat
  <2> HIDE DEF x, y, t
  <2> QED BY <1>6, <1>9, <2>1, <2>2, <2>3, <2>4, <2>5, <2>6, <2>7
<1> HIDE DEF x, y, t
<1>12. Cong(D * x, D * y)
  BY <1>10, <1>11 DEF Cong
<1>13. Cong(x, y)
  BY <1>5, <1>10, <1>12, Cancel
<1> QED BY <1>13 DEF x, y, W, V, J
-----------------------------------------------------------------------------
(* The terms of Lagrange's sum at zero for the values f at the places I,   *)
(* ...                                                                     *)
Terms(f, I) == [i \in I |-> f[i] * Weight(i, I)]

(* ... and the sum, before it is reduced.                                  *)
Lagrange(f, I) == SumOver(Terms(f, I), I)

(* They are integers.                                                      *)
LEMMA LagrangeType ==
    ASSUME NEW I, IsFiniteSet(I), I \subseteq Field, NEW f, \A i \in I : f[i] \in Int
    PROVE  /\ \A i \in I : /\ Weight(i, I) \in Int
                           /\ Terms(f, I)[i] \in Int
                           /\ Terms(f, I)[i] = f[i] * Weight(i, I)
           /\ Lagrange(f, I) \in Int
<1>1. ASSUME NEW i \in I
      PROVE  /\ Weight(i, I) \in Int
             /\ Terms(f, I)[i] = f[i] * Weight(i, I)
             /\ Terms(f, I)[i] \in Int
  <2>1. Weight(i, I) \in Int
    <3>1. Weight(i, I) \in Field
      BY WeightIs
    <3> QED BY <3>1, PrimeNat DEF Field
  <2>2. Terms(f, I)[i] = f[i] * Weight(i, I)
    BY DEF Terms
  <2> QED BY <2>1, <2>2
<1>2. Lagrange(f, I) \in Int
  <2> DEFINE F == Terms(f, I)
  <2>1. \A i \in I : F[i] \in Int
    BY <1>1
  <2> HIDE DEF F
  <2>2. SumOver(F, I) \in Int
    BY <2>1, SumFacts
  <2> QED BY <2>2 DEF F, Lagrange
<1> QED BY <1>1, <1>2

(* If f is (i - a) g at every place, its sum over I is -a times the sum of *)
(* g over the other places: both sides are the value at zero of x - a      *)
(* times the polynomial through g.                                         *)
LEMMA LagrangeWithout ==
    ASSUME NEW I, IsFiniteSet(I), I \subseteq Field, NEW a \in I, NEW f, NEW g,
           \A i \in I : f[i] \in Int, \A i \in I \ {a} : g[i] \in Int,
           f[a] = 0,
           \A i \in I \ {a} : Cong(f[i], (i - a) * g[i])
    PROVE  Cong(Lagrange(f, I), (-a) * Lagrange(g, I \ {a}))
<1> DEFINE J == I \ {a}
           F == Terms(f, I)
           G == Terms(g, J)
<1>1. IsFiniteSet(J) /\ J \subseteq Field /\ Field \subseteq Int /\ a \in Int
  BY FS_Subset, PrimeNat DEF Field
<1>2. \A i \in I : F[i] \in Int /\ F[i] = f[i] * Weight(i, I) /\ Weight(i, I) \in Int
  BY LagrangeType
<1>3. \A i \in J : G[i] \in Int /\ G[i] = g[i] * Weight(i, J) /\ Weight(i, J) \in Int
  <2>1. \A i \in J : g[i] \in Int
    OBVIOUS
  <2> HIDE DEF J
  <2> QED BY <1>1, <2>1, LagrangeType
<1>4. SumOver(F, I) = SumOver(F, J)
  <2>1. \A i \in I : F[i] \in Int
    BY <1>2
  <2>2. F[a] = 0
    BY <1>2
  <2>3. \A i \in J : F[i] \in Int
    BY <1>2
  <2> HIDE DEF F
  <2>4. SumOver(F, I) = F[a] + SumOver(F, I \ {a})
    BY <2>1, SumFacts
  <2>5. SumOver(F, J) \in Int
    <3> HIDE DEF J
    <3> QED BY <1>1, <2>3, SumFacts
  <2> QED BY <2>2, <2>4, <2>5
<1>5. ASSUME NEW i \in J PROVE Cong(F[i], (-a) * G[i] + 0 * G[i])
  <2> DEFINE W == Weight(i, I)
             V == Weight(i, J)
             d == i - a
             b == -a
  <2>1. /\ W \in Int /\ V \in Int /\ f[i] \in Int /\ g[i] \in Int /\ d \in Int /\ b \in Int
        /\ Cong(f[i], d * g[i]) /\ F[i] = f[i] * W /\ G[i] = g[i] * V
    <3>1. i \in I \ {a} /\ i \in Int
      BY <1>1
    <3>2. d \in Int /\ b \in Int
      BY <1>1, <3>1
    <3> HIDE DEF F, G
    <3> QED BY <1>2, <1>3, <3>1, <3>2
  <2>2. Cong(d * W, b * V)
    BY WeightWithout
  <2> HIDE DEF W, V, d, b
  <2>3. Cong(f[i] * W, (d * g[i]) * W) /\ d * g[i] \in Int
    <3>1. Cong(W, W) /\ d * g[i] \in Int
      BY <2>1, CongRefl
    <3> QED BY <2>1, <3>1, CongMul
  <2>4. Cong(g[i] * (d * W), g[i] * (b * V)) /\ d * W \in Int /\ b * V \in Int
    <3>1. Cong(g[i], g[i]) /\ d * W \in Int /\ b * V \in Int
      BY <2>1, CongRefl
    <3> QED BY <2>1, <2>2, <3>1, CongMul
  <2>5. (d * g[i]) * W = g[i] * (d * W) /\ g[i] * (b * V) = b * (g[i] * V)
    BY <2>1
  <2>6. f[i] * W \in Int /\ g[i] * (d * W) \in Int /\ b * (g[i] * V) \in Int /\ g[i] * V \in Int
    BY <2>1
  <2>7. Cong(f[i] * W, b * (g[i] * V))
    BY <2>3, <2>4, <2>5, <2>6, CongTrans
  <2>8. (-a) * G[i] + 0 * G[i] = b * (g[i] * V)
    BY <1>1, <2>1, <2>6 DEF b
  <2> QED BY <2>1, <2>7, <2>8
<1>6. Cong(SumOver(F, J), (-a) * SumOver(G, J) + 0 * SumOver(G, J))
  <2> DEFINE b == -a
             o == 0
  <2>1. /\ b \in Int /\ o \in Int
        /\ \A i \in J : F[i] \in Int /\ G[i] \in Int /\ G[i] \in Int
        /\ \A i \in J : Cong(F[i], b * G[i] + o * G[i])
    <3> HIDE DEF F, G
    <3>1. b \in Int /\ o \in Int
      BY <1>1
    <3> QED BY <1>2, <1>3, <1>5, <3>1
  <2> HIDE DEF b, o, J, F, G
  <2>2. Cong(SumOver(F, J), b * SumOver(G, J) + o * SumOver(G, J))
    BY <1>1, <2>1, Linear
  <2> QED BY <2>2 DEF b, o
<1>7. SumOver(G, J) \in Int
  <2>1. \A i \in J : G[i] \in Int
    BY <1>3
  <2> HIDE DEF G, J
  <2> QED BY <1>1, <2>1, SumFacts
<1>8. (-a) * SumOver(G, J) + 0 * SumOver(G, J) = (-a) * SumOver(G, J)
  <2> DEFINE z == SumOver(G, J)
  <2>1. z \in Int
    BY <1>7
  <2> HIDE DEF z
  <2>2. (-a) * z + 0 * z = (-a) * z
    BY <1>1, <2>1
  <2> QED BY <2>2 DEF z
<1> QED BY <1>4, <1>6, <1>8 DEF Lagrange

(* The value 1 at every place.                                             *)
One(I) == [i \in I |-> 1]

(* The weights add up to 1. By induction on the places: for two of them a  *)
(* and b, b - a times the sum of 1 is the sum of i - a less that of i - b. *)
LEMMA LagrangeOne ==
    ASSUME NEW S, IsFiniteSet(S), S \subseteq Field, S # {}
    PROVE  Cong(Lagrange(One(S), S), 1)
<1> DEFINE B == {s \in SUBSET S : s # {} => Cong(Lagrange(One(s), s), 1)}
<1>0. Field \subseteq Int
  BY PrimeNat DEF Field
<1>1. ASSUME NEW I \in SUBSET S,
             \A r \in SUBSET S : Cardinality(r) < Cardinality(I) => r \in B
      PROVE  I \in B
  <2> SUFFICES ASSUME I # {} PROVE Cong(Lagrange(One(I), I), 1)
    OBVIOUS
  <2>0. IsFiniteSet(I) /\ I \subseteq Field
    BY FS_Subset
  <2>1. PICK a \in I : TRUE
    OBVIOUS
  <2>2. \A i \in I : One(I)[i] = 1 /\ One(I)[i] \in Int
    BY DEF One
  <2> DEFINE H == Terms(One(I), I)
  <2>3. \A i \in I : /\ Weight(i, I) \in Int
                     /\ H[i] \in Int
                     /\ H[i] = Weight(i, I)
    <3> DEFINE f == One(I)
    <3>1. \A i \in I : f[i] \in Int /\ f[i] = 1
      BY <2>2
    <3> HIDE DEF f
    <3>2. \A i \in I : /\ Weight(i, I) \in Int
                       /\ Terms(f, I)[i] \in Int
                       /\ Terms(f, I)[i] = f[i] * Weight(i, I)
      BY <2>0, <3>1, LagrangeType
    <3> QED BY <3>1, <3>2 DEF f
  <2>4. CASE I = {a}
    <3> DEFINE W == Weight(a, I)
    <3>1. Cong(W * Prod(a, {}), Prod(0, {})) /\ W \in Int
      <4>1. I \ {a} = {}
        BY <2>4
      <4> QED BY <2>0, <2>1, <2>3, <4>1, WeightIs
    <3>2. Prod(a, {}) = 1 /\ Prod(0, {}) = 1
      <4>1. IsFiniteSet({}) /\ {} \subseteq Field /\ a \in Int /\ 0 \in Int
        BY <1>0, FS_EmptySet
      <4> QED BY <4>1, ProdFacts
    <3>3. Cong(W, 1)
      <4> HIDE DEF W
      <4>1. W * 1 = W
        BY <3>1
      <4> QED BY <3>1, <3>2, <4>1
    <3>4. SumOver(H, I) = W
      <4>1. H[a] = W /\ \A i \in I : H[i] \in Int
        BY <2>1, <2>3
      <4>2. I \ {a} = {} /\ IsFiniteSet({}) /\ \A i \in {} : H[i] \in Int
        BY <2>4, FS_EmptySet
      <4> HIDE DEF H, W
      <4>3. SumOver(H, I) = H[a] + SumOver(H, I \ {a})
        BY <2>0, <2>1, <4>1, SumFacts
      <4>4. SumOver(H, {}) = 0
        BY <4>2, SumFacts
      <4>5. SumOver(H, I) = W + 0
        BY <4>1, <4>2, <4>3, <4>4
      <4> QED BY <3>1, <4>5
    <3> QED BY <3>3, <3>4 DEF Lagrange
  <2>5. CASE I # {a}
    <3>1. PICK b \in I : b # a
      BY <2>1, <2>5
    <3>2. a \in Int /\ b \in Int /\ a \in Field /\ b \in Field
      BY <1>0, <2>0, <2>1
    <3>3. ASSUME NEW e \in I, \E y \in I : y # e
          PROVE  /\ \A i \in I : /\ Terms([j \in I |-> j - e], I)[i] \in Int
                                 /\ Terms([j \in I |-> j - e], I)[i] = (i - e) * Weight(i, I)
                 /\ Lagrange([j \in I |-> j - e], I) \in Int
                 /\ Cong(Lagrange([j \in I |-> j - e], I), -e)
      <4> DEFINE f == [j \in I |-> j - e]
                 J == I \ {e}
                 g == One(J)
      <4>1. e \in Int /\ J \in SUBSET S /\ J # {} /\ \A i \in I : i \in Int
        BY <1>0, <2>0, <3>3
      <4>2. IsFiniteSet(J) /\ J \subseteq Field /\ Cardinality(J) < Cardinality(I)
        BY <2>0, FS_Subset, Without
      <4>3. \A i \in I : f[i] \in Int /\ f[i] = i - e
        BY <4>1
      <4>4. \A i \in J : g[i] = 1 /\ g[i] \in Int
        BY DEF One
      <4>5. Cong(Lagrange(g, J), 1)
        BY <1>1, <4>1, <4>2
      <4>6. \A i \in J : Cong(f[i], (i - e) * g[i])
        <5> TAKE i \in J
        <5>1. f[i] \in Int /\ f[i] = i - e /\ i \in Int
          BY <4>1, <4>3
        <5>2. (i - e) * g[i] = f[i]
          BY <4>1, <4>4, <5>1
        <5> QED BY <5>1, <5>2, CongRefl
      <4>7. f[e] = 0
        BY <4>1, <4>3
      <4> DEFINE z == Lagrange(f, I)
                 y == Lagrange(g, J)
      <4>8. /\ \A i \in I : /\ Terms(f, I)[i] \in Int
                            /\ Terms(f, I)[i] = f[i] * Weight(i, I)
            /\ z \in Int
        <5>1. \A i \in I : f[i] \in Int
          BY <4>3
        <5> HIDE DEF f
        <5> QED BY <2>0, <5>1, LagrangeType
      <4>9. y \in Int
        <5>1. \A i \in J : g[i] \in Int
          BY <4>4
        <5> HIDE DEF g, J
        <5> QED BY <4>2, <5>1, LagrangeType
      <4>10. Cong(z, (-e) * y)
        <5>1. /\ \A i \in I : f[i] \in Int
              /\ \A i \in I \ {e} : g[i] \in Int
              /\ \A i \in I \ {e} : Cong(f[i], (i - e) * g[i])
          BY <4>3, <4>4, <4>6
        <5> HIDE DEF f, g
        <5> QED BY <2>0, <4>7, <5>1, LagrangeWithout
      <4>11. Cong(z, -e)
        <5> DEFINE d == -e
        <5>1. d \in Int /\ Cong(d, d)
          BY <4>1, CongRefl
        <5>2. Cong(y, 1) /\ Cong(z, d * y)
          BY <4>5, <4>10
        <5> HIDE DEF d, y, z
        <5>3. Cong(d * y, d * 1) /\ d * 1 = d /\ d * y \in Int
          BY <4>9, <5>1, <5>2, CongMul
        <5>4. Cong(z, d)
          BY <4>8, <5>1, <5>2, <5>3, CongTrans
        <5> QED BY <5>4 DEF d
      <4> QED BY <4>3, <4>8, <4>11
    <3> DEFINE F == Terms([j \in I |-> j - a], I)
               G == Terms([j \in I |-> j - b], I)
               x == SumOver(F, I)
               y == SumOver(G, I)
               z == SumOver(H, I)
               d == b - a
               o == 1
    <3>4. /\ \A i \in I : F[i] \in Int /\ F[i] = (i - a) * Weight(i, I)
          /\ x \in Int /\ Cong(x, -a)
      <4>1. \E c \in I : c # a
        BY <3>1
      <4> QED BY <2>1, <3>3, <4>1 DEF Lagrange
    <3>5. /\ \A i \in I : G[i] \in Int /\ G[i] = (i - b) * Weight(i, I)
          /\ y \in Int /\ Cong(y, -b)
      <4>1. \E c \in I : c # b
        BY <2>1, <3>1
      <4> QED BY <3>1, <3>3, <4>1 DEF Lagrange
    <3>6. z \in Int
      <4>1. \A i \in I : H[i] \in Int
        BY <2>3
      <4> HIDE DEF H
      <4> QED BY <2>0, <4>1, SumFacts
    <3>7. ASSUME NEW i \in I PROVE Cong(F[i], 1 * G[i] + d * H[i])
      <4> DEFINE W == Weight(i, I)
      <4>1. /\ i \in Int /\ W \in Int /\ F[i] \in Int
            /\ F[i] = (i - a) * W /\ G[i] = (i - b) * W /\ H[i] = W
        BY <1>0, <2>0, <2>3, <3>4, <3>5
      <4> HIDE DEF F, G, H, W
      <4>2. F[i] = 1 * G[i] + d * H[i]
        BY <3>2, <4>1
      <4> HIDE DEF d
      <4> QED BY <4>1, <4>2, CongRefl
    <3>8. Cong(x, 1 * y + d * z)
      <4>1. /\ d \in Int /\ o \in Int
            /\ \A i \in I : F[i] \in Int /\ G[i] \in Int /\ H[i] \in Int
            /\ \A i \in I : Cong(F[i], o * G[i] + d * H[i])
        <5>1. d \in Int /\ o \in Int
          BY <3>2
        <5> HIDE DEF F, G, H, d
        <5> QED BY <2>3, <3>4, <3>5, <3>7, <5>1
      <4> HIDE DEF F, G, H, d, o
      <4>2. Cong(x, o * y + d * z)
        BY <2>0, <4>1, Linear
      <4> QED BY <4>2 DEF o
    <3> HIDE DEF x, y, z, F, G, H
    <3>9. Cong(d * z, d * 1)
      <4>1. PICK p \in Int : x = -a + p * Prime
        BY <3>4 DEF Cong
      <4>2. PICK q \in Int : y = -b + q * Prime
        BY <3>5 DEF Cong
      <4>3. PICK r \in Int : x = 1 * y + d * z + r * Prime
        BY <3>8 DEF Cong
      <4> DEFINE w == d * z
      <4>4. w \in Int /\ d \in Int
        BY <3>2, <3>6
      <4> HIDE DEF w
      <4>5. x = y + w + r * Prime
        BY <3>4, <3>5, <4>3, <4>4, PrimeNat DEF w
      <4>6. w = d + p * Prime - q * Prime - r * Prime
        BY <3>2, <4>1, <4>2, <4>3, <4>4, <4>5, PrimeNat
      <4>7. w = d * 1 + (p - q - r) * Prime /\ p - q - r \in Int
        BY <4>1, <4>2, <4>3, <4>4, <4>6, PrimeNat
      <4> HIDE DEF d
      <4> QED BY <4>7 DEF Cong, w
    <3>10. Unit(d) /\ d \in Int
      BY <3>1, <3>2, DifferenceUnit
    <3> HIDE DEF d
    <3>11. Cong(z, 1)
      BY <3>6, <3>9, <3>10, Cancel
    <3> QED BY <3>11 DEF z, H, Lagrange
  <2> QED BY <2>4, <2>5
<1>2. SUBSET S \subseteq B
  <2> HIDE DEF B
  <2> QED BY <1>1, SubsetInduction
<1> QED BY <1>2
-----------------------------------------------------------------------------
(* A polynomial has its values in the field, ...                           *)
LEMMA EvaluateType ==
    ASSUME NEW k \in Nat, NEW p \in [1 .. k -> Field], NEW x \in Int
    PROVE  Evaluate(p, x) \in Field /\ Evaluate(p, x) \in Int
<1>1. PICK v : Horner(v, p, k, x) /\ Evaluate(p, x) = v[1]
  BY EvaluateIsHorner
<1>2. v \in [1 .. k + 1 -> Field] /\ 1 \in 1 .. k + 1
  BY <1>1 DEF Horner
<1>3. v[1] \in Field
  BY <1>2
<1> QED BY <1>1, <1>3, PrimeNat DEF Field

(* ... and its first coefficient at zero.                                  *)
LEMMA EvaluateZero ==
    ASSUME NEW k \in Nat, k > 0, NEW p \in [1 .. k -> Field]
    PROVE  Evaluate(p, 0) = p[1]
<1>1. PICK v : Horner(v, p, k, 0) /\ Evaluate(p, 0) = v[1]
  BY EvaluateIsHorner
<1>2. 1 \in 1 .. k /\ 2 \in 1 .. k + 1 /\ 1 + 1 = 2
  OBVIOUS
<1>3. v[1] = (v[2] * 0 + p[1]) % Prime /\ v[2] \in Field /\ p[1] \in Field
  BY <1>1, <1>2 DEF Horner
<1>4. \A e \in Field, d \in Field : (e * 0 + d) % Prime = d
  BY PrimeNat DEF Field
<1> QED BY <1>1, <1>3, <1>4

(* The polynomial q is c + (x - a) g: each coefficient of q is the one of  *)
(* g before it less a times the one of g at its place.                     *)
Before(c, g, i) == IF i = 1 THEN c ELSE g[i - 1]
Root(q, c, a, g, k) ==
    \A i \in 1 .. k + 1 :
        Cong(q[i], Before(c, g, i) - (IF i = k + 1 THEN 0 ELSE a * g[i]))

(* So are its values.                                                      *)
LEMMA RootEvaluate ==
    ASSUME NEW k \in Nat, NEW q \in [1 .. k + 1 -> Field], NEW g \in [1 .. k -> Field],
           NEW c \in Int, NEW a \in Int, NEW x \in Int, Root(q, c, a, g, k)
    PROVE  Cong(Evaluate(q, x), c + (x - a) * Evaluate(g, x))
<1>0. k + 1 \in Nat /\ Field \subseteq Int
  BY PrimeNat DEF Field
<1>1. PICK w : Horner(w, q, k + 1, x) /\ Evaluate(q, x) = w[1]
  BY <1>0, EvaluateIsHorner
<1>2. PICK u : Horner(u, g, k, x) /\ Evaluate(g, x) = u[1]
  BY EvaluateIsHorner
<1> DEFINE Claim(i) == Cong(w[i], (x - a) * u[i] + Before(c, g, i))
           B == {n \in Nat : n <= k => Claim(k + 1 - n)}
<1>3. \A i \in 1 .. k + 1 : Before(c, g, i) \in Int
  <2>1. \A i \in 1 .. k : g[i] \in Int
    BY <1>0
  <2>2. \A i \in 1 .. k + 1 : i = 1 \/ i - 1 \in 1 .. k
    OBVIOUS
  <2> QED BY <2>1, <2>2 DEF Before
<1>4. /\ \A i \in 1 .. k + 1 : w[i] \in Int /\ u[i] \in Int
      /\ w[k + 2] = 0 /\ u[k + 1] = 0
      /\ \A i \in 1 .. k + 1 : w[i] = (w[i + 1] * x + q[i]) % Prime
      /\ \A i \in 1 .. k : u[i] = (u[i + 1] * x + g[i]) % Prime
      /\ \A i \in 1 .. k + 1 : q[i] \in Int
      /\ \A i \in 1 .. k : g[i] \in Int
  <2>1. /\ w \in [1 .. (k + 1) + 1 -> Field] /\ u \in [1 .. k + 1 -> Field]
        /\ w[(k + 1) + 1] = 0 /\ u[k + 1] = 0
        /\ \A i \in 1 .. k + 1 : w[i] = (w[i + 1] * x + q[i]) % Prime
        /\ \A i \in 1 .. k : u[i] = (u[i + 1] * x + g[i]) % Prime
    BY <1>1, <1>2 DEF Horner
  <2>2. (k + 1) + 1 = k + 2 /\ \A i \in 1 .. k + 1 : i \in 1 .. k + 2
    OBVIOUS
  <2> QED BY <1>0, <2>1, <2>2
<1>5. 0 \in B
  <2>1. Claim(k + 1)
    <3>1. k + 1 \in 1 .. k + 1
      OBVIOUS
    <3>2. w[k + 1] = q[k + 1]
      <4>1. w[k + 1] = (w[(k + 1) + 1] * x + q[k + 1]) % Prime /\ (k + 1) + 1 = k + 2
        BY <1>4, <3>1
      <4>2. q[k + 1] \in Field
        OBVIOUS
      <4>3. \A e \in Field : (0 * x + e) % Prime = e
        BY PrimeNat DEF Field
      <4> QED BY <1>4, <4>1, <4>2, <4>3
    <3>3. Cong(q[k + 1], Before(c, g, k + 1) - 0)
      BY <3>1 DEF Root
    <3> DEFINE e == Before(c, g, k + 1)
               z == u[k + 1]
    <3>4. e \in Int /\ z = 0
      BY <1>3, <1>4, <3>1
    <3> HIDE DEF e, z
    <3>5. (x - a) * z + e = e - 0
      BY <3>4
    <3> QED BY <3>2, <3>3, <3>5 DEF e, z
  <2>2. k + 1 - 0 = k + 1
    OBVIOUS
  <2> HIDE DEF Claim
  <2> QED BY <2>1, <2>2
<1>6. ASSUME NEW n \in Nat, n \in B PROVE n + 1 \in B
  <2> SUFFICES ASSUME n + 1 <= k PROVE Claim(k + 1 - (n + 1))
    OBVIOUS
  <2> DEFINE i == k - n
  <2>1. i \in 1 .. k /\ i \in 1 .. k + 1 /\ i + 1 \in 1 .. k + 1 /\ i # k + 1 /\ i + 1 # 1
        /\ k + 1 - (n + 1) = i /\ k + 1 - n = i + 1 /\ n <= k /\ i \in Int /\ (i + 1) - 1 = i
    OBVIOUS
  <2>2. Claim(i + 1)
    <3> HIDE DEF Claim
    <3> QED BY <1>6, <2>1
  <2> HIDE DEF i
  <2> DEFINE wn == w[i + 1]
             un == u[i + 1]
             gi == g[i]
             e == Before(c, g, i)
             ui == un * x + gi
             wi == wn * x + q[i]
  <2>3. Cong(wn, (x - a) * un + gi)
    <3>1. Before(c, g, i + 1) = gi
      BY <2>1 DEF Before
    <3> QED BY <2>2, <3>1
  <2>4. Cong(q[i], e - a * gi)
    BY <2>1 DEF Root
  <2>5. wn \in Int /\ un \in Int /\ gi \in Int /\ e \in Int /\ q[i] \in Int
    BY <1>3, <1>4, <2>1
  <2>6. w[i] = wi % Prime /\ u[i] = ui % Prime
    BY <1>4, <2>1
  <2>7. ui \in Int /\ wi \in Int
    <3> DEFINE qi == q[i]
    <3>1. qi \in Int /\ wn \in Int /\ un \in Int /\ gi \in Int
      BY <2>5
    <3> HIDE DEF wn, un, gi, qi
    <3>2. un * x + gi \in Int /\ wn * x + qi \in Int
      BY <3>1
    <3> QED BY <3>2 DEF qi
  <2>8. Cong(w[i], wi) /\ Cong(u[i], ui) /\ w[i] \in Int /\ u[i] \in Int
    <3> HIDE DEF wi, ui
    <3> QED BY <1>4, <2>1, <2>6, <2>7, CongMod
  <2> HIDE DEF wn, un, gi, e
  <2>9. Cong(wi, (x - a) * ui + e)
    <3>1. PICK r \in Int : wn = (x - a) * un + gi + r * Prime
      BY <2>3, <2>5, PrimeNat DEF Cong
    <3>2. PICK s \in Int : q[i] = e - a * gi + s * Prime
      BY <2>4, <2>5, PrimeNat DEF Cong
    <3>3. wn * x = ((x - a) * un + gi) * x + r * x * Prime
      BY <2>5, <3>1, PrimeNat
    <3>4. ((x - a) * un + gi) * x = (x - a) * (un * x) + gi * x
      BY <2>5
    <3>5. (x - a) * ui = (x - a) * (un * x) + gi * x - a * gi
      BY <2>5
    <3> DEFINE z == (x - a) * (un * x)
               y == gi * x
               v == a * gi
               rx == r * x
    <3>6. z \in Int /\ y \in Int /\ v \in Int /\ rx \in Int
      BY <2>5, <3>1
    <3>7. wi = z + y + rx * Prime + e - v + s * Prime
      BY <2>5, <3>2, <3>3, <3>4, <3>6, PrimeNat
    <3>8. (x - a) * ui + e = z + y - v + e
      BY <2>5, <3>5, <3>6
    <3> DEFINE t == (x - a) * ui + e
    <3> HIDE DEF z, y, v, rx, wi, t
    <3>9. wi = t + (rx + s) * Prime /\ rx + s \in Int
      BY <2>5, <3>2, <3>6, <3>7, <3>8, PrimeNat DEF t
    <3> QED BY <3>9 DEF Cong, t
  <2>10. Cong((x - a) * ui + e, (x - a) * u[i] + e)
    <3> HIDE DEF ui, wi
    <3>1. PICK r \in Int : u[i] = ui + r * Prime
      BY <2>8 DEF Cong
    <3> DEFINE t == (x - a) * ui
               y == (x - a) * u[i]
               s == -((x - a) * r)
    <3>2. t \in Int /\ y \in Int /\ s \in Int
      BY <2>7, <2>8, <3>1
    <3>3. t = y + s * Prime
      BY <2>7, <2>8, <3>1, PrimeNat
    <3> HIDE DEF t, y, s
    <3>4. t + e = (y + e) + s * Prime
      BY <2>5, <3>2, <3>3, PrimeNat
    <3> QED BY <3>2, <3>4 DEF Cong, t, y
  <2>11. Cong(w[i], (x - a) * u[i] + e)
    <3> DEFINE t == (x - a) * ui + e
               y == (x - a) * u[i] + e
    <3>1. t \in Int /\ y \in Int
      BY <2>5, <2>7, <2>8
    <3>2. Cong(w[i], wi) /\ Cong(wi, t) /\ Cong(t, y)
      BY <2>8, <2>9, <2>10
    <3> HIDE DEF t, y, ui, wi
    <3>3. Cong(w[i], t)
      BY <2>7, <2>8, <3>1, <3>2, CongTrans
    <3>4. Cong(w[i], y)
      BY <2>8, <3>1, <3>2, <3>3, CongTrans
    <3> QED BY <3>4 DEF y
  <2> QED BY <2>1, <2>11 DEF e
<1>7. k \in B
  <2> HIDE DEF B
  <2> QED BY <1>5, <1>6, Induction
<1>8. Claim(1)
  <2>1. k + 1 - k = 1 /\ k <= k
    OBVIOUS
  <2> HIDE DEF Claim
  <2> QED BY <1>7, <2>1
<1>9. Before(c, g, 1) = c
  BY DEF Before
<1> DEFINE z == (x - a) * u[1]
<1>10. z + c = c + z
  <2>1. u[1] \in Int
    BY <1>4
  <2> QED BY <2>1
<1> QED BY <1>1, <1>2, <1>8, <1>9, <1>10
-----------------------------------------------------------------------------
(* The values of p + c q are those of p and c times those of q.            *)
LEMMA EvaluateLinear ==
    ASSUME NEW k \in Nat, NEW p \in [1 .. k -> Field], NEW q \in [1 .. k -> Field],
           NEW r \in [1 .. k -> Field], NEW c \in Int, NEW x \in Int,
           \A i \in 1 .. k : Cong(r[i], p[i] + c * q[i])
    PROVE  Cong(Evaluate(r, x), Evaluate(p, x) + c * Evaluate(q, x))
<1>0. Field \subseteq Int
  BY PrimeNat DEF Field
<1>1. PICK w : Horner(w, r, k, x) /\ Evaluate(r, x) = w[1]
  BY EvaluateIsHorner
<1>2. PICK u : Horner(u, p, k, x) /\ Evaluate(p, x) = u[1]
  BY EvaluateIsHorner
<1>3. PICK v : Horner(v, q, k, x) /\ Evaluate(q, x) = v[1]
  BY EvaluateIsHorner
<1> DEFINE Claim(i) == Cong(w[i], u[i] + c * v[i])
           B == {n \in Nat : n <= k => Claim(k + 1 - n)}
<1>4. /\ \A i \in 1 .. k + 1 : w[i] \in Int /\ u[i] \in Int /\ v[i] \in Int
      /\ w[k + 1] = 0 /\ u[k + 1] = 0 /\ v[k + 1] = 0
      /\ \A i \in 1 .. k : w[i] = (w[i + 1] * x + r[i]) % Prime
      /\ \A i \in 1 .. k : u[i] = (u[i + 1] * x + p[i]) % Prime
      /\ \A i \in 1 .. k : v[i] = (v[i + 1] * x + q[i]) % Prime
      /\ \A i \in 1 .. k : p[i] \in Int /\ q[i] \in Int /\ r[i] \in Int
  <2>1. /\ w \in [1 .. k + 1 -> Field] /\ u \in [1 .. k + 1 -> Field]
        /\ v \in [1 .. k + 1 -> Field]
        /\ w[k + 1] = 0 /\ u[k + 1] = 0 /\ v[k + 1] = 0
        /\ \A i \in 1 .. k : w[i] = (w[i + 1] * x + r[i]) % Prime
        /\ \A i \in 1 .. k : u[i] = (u[i + 1] * x + p[i]) % Prime
        /\ \A i \in 1 .. k : v[i] = (v[i + 1] * x + q[i]) % Prime
    BY <1>1, <1>2, <1>3 DEF Horner
  <2>2. \A i \in 1 .. k : p[i] \in Field /\ q[i] \in Field /\ r[i] \in Field
    OBVIOUS
  <2> QED BY <1>0, <2>1, <2>2
<1>5. 0 \in B
  <2>1. Claim(k + 1)
    <3>1. u[k + 1] + c * v[k + 1] = 0
      BY <1>4
    <3>2. Cong(0, 0)
      BY CongRefl
    <3> QED BY <1>4, <3>1, <3>2
  <2>2. k + 1 - 0 = k + 1
    OBVIOUS
  <2> HIDE DEF Claim
  <2> QED BY <2>1, <2>2
<1>6. ASSUME NEW n \in Nat, n \in B PROVE n + 1 \in B
  <2> SUFFICES ASSUME n + 1 <= k PROVE Claim(k + 1 - (n + 1))
    OBVIOUS
  <2> DEFINE i == k - n
  <2>1. i \in 1 .. k /\ i \in 1 .. k + 1 /\ i + 1 \in 1 .. k + 1
        /\ k + 1 - (n + 1) = i /\ k + 1 - n = i + 1 /\ n <= k
    OBVIOUS
  <2>2. Claim(i + 1)
    <3> HIDE DEF Claim
    <3> QED BY <1>6, <2>1
  <2> HIDE DEF i
  <2> DEFINE wn == w[i + 1]
             un == u[i + 1]
             vn == v[i + 1]
             wi == w[i]
             ui == u[i]
             vi == v[i]
             ri == r[i]
             pi == p[i]
             qi == q[i]
  <2>3. Cong(wn, un + c * vn) /\ Cong(ri, pi + c * qi)
    BY <2>1, <2>2
  <2>4. /\ wn \in Int /\ un \in Int /\ vn \in Int /\ wi \in Int /\ ui \in Int /\ vi \in Int
        /\ ri \in Int /\ pi \in Int /\ qi \in Int
        /\ wi = (wn * x + ri) % Prime
        /\ ui = (un * x + pi) % Prime
        /\ vi = (vn * x + qi) % Prime
    BY <1>4, <2>1
  <2> HIDE DEF wn, un, vn, wi, ui, vi, ri, pi, qi
  <2>5. wn * x + ri \in Int /\ un * x + pi \in Int /\ vn * x + qi \in Int
    BY <2>4
  <2>6. Cong(wi, wn * x + ri) /\ Cong(ui, un * x + pi) /\ Cong(vi, vn * x + qi)
    BY <2>4, <2>5, CongMod
  <2>7. PICK a \in Int : wn = un + c * vn + a * Prime
    BY <2>3 DEF Cong
  <2>8. PICK b \in Int : ri = pi + c * qi + b * Prime
    BY <2>3 DEF Cong
  <2>9. PICK d \in Int : wi = wn * x + ri + d * Prime
    BY <2>6 DEF Cong
  <2>10. PICK e \in Int : ui = un * x + pi + e * Prime
    BY <2>6 DEF Cong
  <2>11. PICK f \in Int : vi = vn * x + qi + f * Prime
    BY <2>6 DEF Cong
  <2> DEFINE t == a * x + b + d - e - c * f
  <2>12. wi = (ui + c * vi) + t * Prime
    <3>1. wn * x = un * x + c * vn * x + a * x * Prime
      BY <2>4, <2>7, PrimeNat
    <3>2. c * vi = c * vn * x + c * qi + c * f * Prime
      BY <2>4, <2>11, PrimeNat
    <3>3. t * Prime = a * x * Prime + b * Prime + d * Prime - e * Prime - c * f * Prime
      BY <2>7, <2>8, <2>9, <2>10, <2>11, PrimeNat
    <3>4. /\ c * vn * x \in Int /\ a * x * Prime \in Int /\ c * f * Prime \in Int
          /\ un * x \in Int /\ c * qi \in Int /\ wn * x \in Int
          /\ b * Prime \in Int /\ d * Prime \in Int /\ e * Prime \in Int
      BY <2>4, <2>7, <2>8, <2>9, <2>10, <2>11, PrimeNat
    <3> DEFINE A == c * vn * x
               E == a * x * Prime
               F == c * f * Prime
               G == un * x
               H == c * qi
               K == wn * x
               L == c * vi
               M == t * Prime
               bP == b * Prime
               dP == d * Prime
               eP == e * Prime
    <3>5. /\ K = G + A + E /\ L = A + H + F /\ M = E + bP + dP - eP - F
          /\ ri = pi + H + bP /\ wi = K + ri + dP /\ ui = G + pi + eP
      BY <2>8, <2>9, <2>10, <3>1, <3>2, <3>3
    <3>6. /\ A \in Int /\ E \in Int /\ F \in Int /\ G \in Int /\ H \in Int /\ K \in Int
          /\ bP \in Int /\ dP \in Int /\ eP \in Int
      BY <3>4
    <3> HIDE DEF A, E, F, G, H, K, L, M, bP, dP, eP
    <3>7. wi = (ui + L) + M
      BY <2>4, <3>5, <3>6
    <3> QED BY <3>7 DEF L, M
  <2>13. t \in Int
    BY <2>7, <2>8, <2>9, <2>10, <2>11
  <2> HIDE DEF t
  <2>14. Cong(wi, ui + c * vi)
    BY <2>12, <2>13 DEF Cong
  <2> QED BY <2>1, <2>14 DEF wi, ui, vi
<1>7. k \in B
  <2> HIDE DEF B
  <2> QED BY <1>5, <1>6, Induction
<1>8. Claim(1)
  <2>1. k + 1 - k = 1 /\ k <= k
    OBVIOUS
  <2> HIDE DEF Claim
  <2> QED BY <1>7, <2>1
<1> QED BY <1>1, <1>2, <1>3, <1>8

(* Every polynomial is its value at a and x - a times another, shorter by  *)
(* one.                                                                    *)
LEMMA Divide ==
    ASSUME NEW k \in Nat, NEW p \in [1 .. k + 1 -> Field], NEW a \in Int
    PROVE  \E g \in [1 .. k -> Field] : Root(p, Evaluate(p, a), a, g, k)
<1>0. k + 1 \in Nat /\ Field \subseteq Int
  BY PrimeNat DEF Field
<1>1. PICK v : Horner(v, p, k + 1, a) /\ Evaluate(p, a) = v[1]
  BY <1>0, EvaluateIsHorner
<1>2. /\ v \in [1 .. (k + 1) + 1 -> Field]
      /\ v[(k + 1) + 1] = 0
      /\ \A i \in 1 .. k + 1 : v[i] = (v[i + 1] * a + p[i]) % Prime
  BY <1>1 DEF Horner
<1>3. \A i \in 1 .. k + 1 : i \in 1 .. (k + 1) + 1 /\ i + 1 \in 1 .. (k + 1) + 1
  OBVIOUS
<1> DEFINE g == [i \in 1 .. k |-> v[i + 1]]
<1>4. g \in [1 .. k -> Field]
  <2>1. \A i \in 1 .. k : i + 1 \in 1 .. (k + 1) + 1
    OBVIOUS
  <2> QED BY <1>2, <2>1
<1>5. ASSUME NEW i \in 1 .. k + 1
      PROVE  Cong(p[i], Before(v[1], g, i) - (IF i = k + 1 THEN 0 ELSE a * g[i]))
  <2> DEFINE vi == v[i]
             vn == v[i + 1]
  <2>1. Before(v[1], g, i) = vi
    <3>1. CASE i = 1
      BY <3>1 DEF Before
    <3>2. CASE i # 1
      <4>1. i - 1 \in 1 .. k /\ (i - 1) + 1 = i
        BY <3>2
      <4>2. g[i - 1] = v[i]
        BY <4>1
      <4> QED BY <3>2, <4>2 DEF Before
    <3> QED BY <3>1, <3>2
  <2>2. (IF i = k + 1 THEN 0 ELSE a * g[i]) = a * vn
    <3>1. CASE i = k + 1
      BY <1>2, <3>1
    <3>2. CASE i # k + 1
      <4>1. i \in 1 .. k
        BY <3>2
      <4>2. g[i] = vn
        BY <4>1
      <4> QED BY <3>2, <4>2
    <3> QED BY <3>1, <3>2
  <2>3. vi \in Int /\ vn \in Int /\ p[i] \in Int /\ vi = (vn * a + p[i]) % Prime
    BY <1>0, <1>2, <1>3
  <2> DEFINE pi == p[i]
  <2> HIDE DEF vi, vn, pi
  <2>4. vn * a + pi \in Int /\ vi = (vn * a + pi) % Prime /\ pi \in Int
    BY <2>3 DEF pi
  <2>5. Cong(vi, vn * a + pi)
    BY <2>4, CongMod
  <2>6. PICK m \in Int : vi = vn * a + pi + m * Prime
    BY <2>5 DEF Cong
  <2>7. pi = (vi - a * vn) + (-m) * Prime /\ -m \in Int
    BY <2>3, <2>4, <2>6, PrimeNat
  <2>8. Cong(pi, vi - a * vn)
    BY <2>7 DEF Cong
  <2> QED BY <2>1, <2>2, <2>8 DEF pi
<1> HIDE DEF g
<1>6. Root(p, v[1], a, g, k)
  BY <1>5 DEF Root
<1> QED BY <1>1, <1>4, <1>6

(* Only the zero polynomial of length k is zero at k places: divided by x  *)
(* - a for one of them, it is zero at the others.                          *)
LEMMA Vanish ==
    ASSUME NEW k \in Nat, NEW p \in [1 .. k -> Field],
           NEW I, I \subseteq Field, IsFiniteSet(I), Cardinality(I) = k,
           \A i \in I : Evaluate(p, i) = 0
    PROVE  \A i \in 1 .. k : p[i] = 0
<1> DEFINE Claim(n) == \A q \in [1 .. n -> Field], J \in SUBSET Field :
                          /\ IsFiniteSet(J)
                          /\ Cardinality(J) = n
                          /\ \A i \in J : Evaluate(q, i) = 0
                          => \A i \in 1 .. n : q[i] = 0
           B == {n \in Nat : Claim(n)}
<1>0. Field \subseteq Int /\ 0 \in Field
  BY PrimeNat DEF Field
<1>1. 0 \in B
  <2>1. 1 .. 0 = {}
    OBVIOUS
  <2> QED BY <2>1
<1>2. ASSUME NEW n \in Nat, n \in B PROVE n + 1 \in B
  <2> SUFFICES ASSUME NEW q \in [1 .. n + 1 -> Field], NEW J \in SUBSET Field,
                      IsFiniteSet(J), Cardinality(J) = n + 1,
                      \A i \in J : Evaluate(q, i) = 0,
                      NEW i \in 1 .. n + 1
               PROVE  q[i] = 0
    BY <1>2
  <2>0. Claim(n)
    BY <1>2
  <2>1. PICK a \in J : TRUE
    <3>1. J # {}
      BY FS_EmptySet
    <3> QED BY <3>1
  <2> DEFINE K == J \ {a}
  <2>2. IsFiniteSet(K) /\ Cardinality(K) = n /\ K \in SUBSET Field
    BY Without
  <2>3. a \in Int /\ a \in Field
    BY <1>0
  <2>4. PICK g \in [1 .. n -> Field] : Root(q, Evaluate(q, a), a, g, n)
    BY <2>3, Divide
  <2>5. Evaluate(q, a) = 0
    BY <2>1
  <2>6. ASSUME NEW x \in K PROVE Evaluate(g, x) = 0
    <3> DEFINE e == Evaluate(g, x)
               d == x - a
    <3>1. x \in Int /\ x \in Field /\ x # a /\ Evaluate(q, x) = 0
      BY <1>0
    <3>2. e \in Field /\ e \in Int
      BY <3>1, EvaluateType
    <3>3. Cong(0, 0 + d * e)
      <4>1. Root(q, 0, a, g, n) /\ 0 \in Int
        BY <2>4, <2>5
      <4>2. Cong(Evaluate(q, x), 0 + (x - a) * Evaluate(g, x))
        BY <1>2, <2>3, <2>4, <3>1, <4>1, RootEvaluate
      <4> QED BY <3>1, <4>2
    <3>4. d \in Int /\ Unit(d)
      BY <2>3, <3>1, DifferenceUnit
    <3> HIDE DEF d, e
    <3>5. 0 + d * e = d * e /\ d * 0 = 0 /\ d * e \in Int
      BY <3>2, <3>4
    <3>6. Cong(d * e, d * 0)
      BY <3>3, <3>5, CongSym
    <3>7. Cong(e, 0)
      BY <3>2, <3>4, <3>6, Cancel
    <3>8. e = 0
      BY <1>0, <3>2, <3>7, CongEqual
    <3> QED BY <3>8 DEF e
  <2>7. \A j \in 1 .. n : g[j] = 0
    <3> HIDE DEF K
    <3> QED BY <2>0, <2>2, <2>6
  <2>8. Cong(q[i], 0)
    <3>1. Cong(q[i], Before(0, g, i) - (IF i = n + 1 THEN 0 ELSE a * g[i]))
      BY <2>4, <2>5 DEF Root
    <3>2. Before(0, g, i) = 0
      <4>1. i # 1 => i - 1 \in 1 .. n
        OBVIOUS
      <4> QED BY <2>7, <4>1 DEF Before
    <3>3. (IF i = n + 1 THEN 0 ELSE a * g[i]) = 0
      <4>1. i # n + 1 => i \in 1 .. n
        OBVIOUS
      <4>2. a * 0 = 0
        BY <2>3
      <4> QED BY <2>7, <4>1, <4>2
    <3> QED BY <3>1, <3>2, <3>3
  <2>9. q[i] \in Field
    OBVIOUS
  <2> QED BY <1>0, <2>8, <2>9, CongEqual
<1>3. k \in B
  <2> HIDE DEF B
  <2> QED BY <1>1, <1>2, Induction
<1> QED BY <1>3

(* Two polynomials of length k that agree at k places are the same.        *)
LEMMA Unique ==
    ASSUME NEW k \in Nat, NEW p \in [1 .. k -> Field], NEW q \in [1 .. k -> Field],
           NEW I, I \subseteq Field, IsFiniteSet(I), Cardinality(I) = k,
           \A i \in I : Evaluate(p, i) = Evaluate(q, i)
    PROVE  \A i \in 1 .. k : p[i] = q[i]
<1>0. Field \subseteq Int /\ 0 \in Field
  BY PrimeNat DEF Field
<1> DEFINE r == [i \in 1 .. k |-> (p[i] - q[i]) % Prime]
<1>1. ASSUME NEW i \in 1 .. k
      PROVE  r[i] \in Field /\ Cong(r[i], p[i] + (-1) * q[i])
  <2> DEFINE e == p[i] - q[i]
  <2>1. e \in Int /\ e = p[i] + (-1) * q[i]
    <3>1. p[i] \in Int /\ q[i] \in Int
      BY <1>0
    <3> QED BY <3>1
  <2>2. r[i] = e % Prime
    OBVIOUS
  <2> HIDE DEF e, r
  <2>3. e % Prime \in Field /\ Cong(e % Prime, e)
    BY <2>1, CongMod, ModSplit DEF Field
  <2> QED BY <2>1, <2>2, <2>3
<1>2. r \in [1 .. k -> Field]
  <2>1. \A i \in 1 .. k : r[i] \in Field
    BY <1>1
  <2> QED BY <2>1
<1> HIDE DEF r
<1>3. ASSUME NEW x \in I PROVE Evaluate(r, x) = 0
  <2>1. x \in Int
    BY <1>0
  <2>2. Cong(Evaluate(r, x), Evaluate(p, x) + (-1) * Evaluate(q, x))
    <3> DEFINE c == -1
    <3>1. c \in Int /\ \A i \in 1 .. k : Cong(r[i], p[i] + c * q[i])
      BY <1>1
    <3> HIDE DEF c
    <3>2. Cong(Evaluate(r, x), Evaluate(p, x) + c * Evaluate(q, x))
      BY <1>2, <2>1, <3>1, EvaluateLinear
    <3> QED BY <3>2 DEF c
  <2> DEFINE e == Evaluate(p, x)
  <2>3. e \in Int /\ Evaluate(q, x) = e
    BY <2>1, EvaluateType
  <2>4. e + (-1) * e = 0
    <3> HIDE DEF e
    <3> QED BY <2>3
  <2>5. Cong(Evaluate(r, x), 0)
    BY <2>2, <2>3, <2>4
  <2>6. Evaluate(r, x) \in Field
    BY <1>2, <2>1, EvaluateType
  <2> QED BY <1>0, <2>5, <2>6, CongEqual
<1>4. \A i \in 1 .. k : r[i] = 0
  BY <1>2, <1>3, Vanish
<1>5. ASSUME NEW i \in 1 .. k PROVE p[i] = q[i]
  <2>1. Cong(0, p[i] + (-1) * q[i]) /\ p[i] \in Field /\ q[i] \in Field
    BY <1>1, <1>4
  <2>2. PICK m \in Int : 0 = p[i] + (-1) * q[i] + m * Prime
    BY <2>1 DEF Cong
  <2>3. p[i] = q[i] + (-m) * Prime /\ -m \in Int
    <3> DEFINE a == p[i]
               b == q[i]
    <3>1. a \in Int /\ b \in Int /\ 0 = a + (-1) * b + m * Prime
      BY <1>0, <2>1, <2>2
    <3> HIDE DEF a, b
    <3>2. a = b + (-m) * Prime /\ -m \in Int
      BY <2>2, <3>1, PrimeNat
    <3> QED BY <3>2 DEF a, b
  <2>4. Cong(p[i], q[i])
    BY <2>3 DEF Cong
  <2> QED BY <2>1, <2>4, CongEqual
<1> QED BY <1>5
-----------------------------------------------------------------------------
(* The zero polynomial of length k.                                        *)
Null(k) == [i \in 1 .. k |-> 0]

(* It is zero at zero.                                                     *)
LEMMA NullEvaluate ==
    ASSUME NEW k \in Nat
    PROVE  Null(k) \in [1 .. k -> Field] /\ Evaluate(Null(k), 0) = 0
<1>1. Null(k) \in [1 .. k -> Field]
  BY PrimeNat DEF Null, Field
<1>2. CASE k = 0
  <2>1. PICK v : Horner(v, Null(k), k, 0) /\ Evaluate(Null(k), 0) = v[1]
    BY <1>1, EvaluateIsHorner
  <2>2. v[k + 1] = 0
    BY <2>1 DEF Horner
  <2> QED BY <1>1, <1>2, <2>1, <2>2
<1>3. CASE k # 0
  <2>1. Evaluate(Null(k), 0) = Null(k)[1]
    BY <1>1, <1>3, EvaluateZero
  <2>2. 1 \in 1 .. k
    BY <1>3
  <2> QED BY <1>1, <2>1, <2>2 DEF Null
<1> QED BY <1>2, <1>3

(* Through at most k places of the field there is a polynomial of length   *)
(* k, and Lagrange's sum is its value at zero. By induction on k: a        *)
(* polynomial through I is y[a] + (x - a) g, where g goes through the      *)
(* values (y[i] - y[a]) / (i - a) at the other places.                     *)
LEMMA Through ==
    ASSUME NEW k \in Nat, NEW I, I \subseteq Field, IsFiniteSet(I), Cardinality(I) <= k,
           NEW y \in [I -> Field]
    PROVE  \E q \in [1 .. k -> Field] :
               /\ \A i \in I : Evaluate(q, i) = y[i]
               /\ Cong(Lagrange(y, I), Evaluate(q, 0))
<1> DEFINE Fits(q, f, S) == /\ \A i \in S : Evaluate(q, i) = f[i]
                            /\ Cong(Lagrange(f, S), Evaluate(q, 0))
           Claim(n) == \A S \in SUBSET Field :
                          IsFiniteSet(S) /\ Cardinality(S) <= n =>
                              \A f \in [S -> Field] :
                                  \E q \in [1 .. n -> Field] : Fits(q, f, S)
           B == {n \in Nat : Claim(n)}
<1>0. Field \subseteq Int /\ 0 \in Field
  BY PrimeNat DEF Field
<1>1. ASSUME NEW n \in Nat, NEW f \in [{} -> Field]
      PROVE  \E q \in [1 .. n -> Field] : Fits(q, f, {})
  <2>1. Null(n) \in [1 .. n -> Field] /\ Evaluate(Null(n), 0) = 0
    BY NullEvaluate
  <2>2. Lagrange(f, {}) = 0
    <3> DEFINE F == Terms(f, {})
    <3>1. IsFiniteSet({}) /\ \A i \in {} : F[i] \in Int
      BY FS_EmptySet
    <3> HIDE DEF F
    <3>2. SumOver(F, {}) = 0
      BY <3>1, SumFacts
    <3> QED BY <3>2 DEF F, Lagrange
  <2>3. Cong(0, 0)
    BY CongRefl
  <2>4. Fits(Null(n), f, {})
    BY <2>1, <2>2, <2>3
  <2> HIDE DEF Fits
  <2> QED BY <2>1, <2>4
<1>2. 0 \in B
  <2> SUFFICES ASSUME NEW S \in SUBSET Field, IsFiniteSet(S), Cardinality(S) <= 0,
                      NEW f \in [S -> Field]
               PROVE  \E q \in [1 .. 0 -> Field] : Fits(q, f, S)
    OBVIOUS
  <2>1. S = {}
    BY FS_EmptySet, FS_CardinalityType
  <2> HIDE DEF Fits
  <2>2. 0 \in Nat /\ f \in [{} -> Field]
    BY <2>1
  <2>3. \E q \in [1 .. 0 -> Field] : Fits(q, f, {})
    BY <1>1, <2>2
  <2> QED BY <2>1, <2>3
<1>3. ASSUME NEW n \in Nat, n \in B PROVE n + 1 \in B
  <2> SUFFICES ASSUME NEW S \in SUBSET Field, IsFiniteSet(S), Cardinality(S) <= n + 1,
                      NEW f \in [S -> Field]
               PROVE  \E q \in [1 .. n + 1 -> Field] : Fits(q, f, S)
    <3> HIDE DEF Fits
    <3> QED OBVIOUS
  <2> SUFFICES ASSUME S # {} PROVE \E q \in [1 .. n + 1 -> Field] : Fits(q, f, S)
    <3>1. ASSUME S = {}
          PROVE  \E q \in [1 .. n + 1 -> Field] : Fits(q, f, S)
      <4>1. n + 1 \in Nat /\ f \in [{} -> Field]
        BY <3>1
      <4> HIDE DEF Fits
      <4>2. \E q \in [1 .. n + 1 -> Field] : Fits(q, f, {})
        BY <1>1, <4>1
      <4> QED BY <3>1, <4>2
    <3> HIDE DEF Fits
    <3> QED BY <3>1
  <2>0. Claim(n)
    BY <1>3
  <2>1. PICK a \in S : TRUE
    OBVIOUS
  <2> DEFINE J == S \ {a}
             c == f[a]
             g == [i \in J |-> ((f[i] - c) * Reciprocal(i - a)) % Prime]
  <2>2. IsFiniteSet(J) /\ Cardinality(J) <= n /\ J \in SUBSET Field
    BY Without
  <2>3. a \in Field /\ a \in Int /\ c \in Field /\ c \in Int
    BY <1>0, <2>1
  <2>4. ASSUME NEW i \in J
        PROVE  g[i] \in Field /\ g[i] \in Int /\ Cong(f[i] - c, (i - a) * g[i])
    <3> DEFINE d == i - a
               R == Reciprocal(d)
               z == f[i] - c
               e == z * R
    <3>1. i \in Field /\ i # a /\ i \in Int /\ f[i] \in Int
      BY <1>0
    <3>2. d \in Int /\ Unit(d) /\ z \in Int
      BY <2>3, <3>1, DifferenceUnit
    <3>3. g[i] = e % Prime
      OBVIOUS
    <3> HIDE DEF d, z, g
    <3>4. R \in Int /\ Cong(d * R, 1)
      BY <1>0, <3>2, ReciprocalIs
    <3> HIDE DEF R
    <3>5. e \in Int
      BY <3>2, <3>4
    <3>6. g[i] \in Field /\ g[i] \in Int /\ Cong(g[i], e)
      <4> HIDE DEF e
      <4> QED BY <1>0, <3>3, <3>5, CongMod, ModSplit DEF Field
    <3>7. PICK s \in Int : d * R = 1 + s * Prime
      BY <3>4 DEF Cong
    <3>8. PICK t \in Int : g[i] = e + t * Prime
      BY <3>6 DEF Cong
    <3>9. d * g[i] = z + (z * s + d * t) * Prime
      <4>1. d * e = z * (d * R)
        BY <3>2, <3>4
      <4>2. z * (d * R) = z + z * s * Prime
        BY <3>2, <3>7, PrimeNat
      <4>3. d * g[i] = d * e + d * t * Prime
        BY <3>2, <3>5, <3>8, PrimeNat
      <4> QED BY <3>2, <3>5, <3>7, <3>8, <4>1, <4>2, <4>3, PrimeNat
    <3>10. z * s + d * t \in Int
      BY <3>2, <3>7, <3>8
    <3>11. Cong(d * g[i], z) /\ d * g[i] \in Int
      BY <3>2, <3>6, <3>9, <3>10 DEF Cong
    <3>12. Cong(z, d * g[i])
      BY <3>2, <3>11, CongSym
    <3> QED BY <3>6, <3>12 DEF z, d
  <2>5. g \in [J -> Field]
    <3>1. \A i \in J : g[i] \in Field
      BY <2>4
    <3> QED BY <3>1
  <2>6. PICK h \in [1 .. n -> Field] : Fits(h, g, J)
    <3> HIDE DEF J, g, Fits
    <3> QED BY <2>0, <2>2, <2>5
  <2> DEFINE low(i) == IF i = n + 1 THEN 0 ELSE a * h[i]
             q == [i \in 1 .. n + 1 |-> (Before(c, h, i) - low(i)) % Prime]
  <2>7. ASSUME NEW i \in 1 .. n + 1
        PROVE  q[i] \in Field /\ Cong(q[i], Before(c, h, i) - low(i))
    <3> DEFINE e == Before(c, h, i) - low(i)
    <3>1. Before(c, h, i) \in Int
      <4>1. i # 1 => i - 1 \in 1 .. n
        OBVIOUS
      <4> QED BY <1>0, <2>3, <4>1 DEF Before
    <3>2. low(i) \in Int
      <4>1. i # n + 1 => i \in 1 .. n
        OBVIOUS
      <4>2. i # n + 1 => h[i] \in Int
        BY <1>0, <4>1
      <4> QED BY <2>3, <4>2
    <3>3. e \in Int
      BY <3>1, <3>2
    <3>4. q[i] = e % Prime
      OBVIOUS
    <3> HIDE DEF e, q
    <3>5. q[i] \in Field /\ Cong(q[i], e)
      BY <3>3, <3>4, CongMod, ModSplit DEF Field
    <3> QED BY <3>5 DEF e
  <2>8. q \in [1 .. n + 1 -> Field]
    <3>1. \A i \in 1 .. n + 1 : q[i] \in Field
      BY <2>7
    <3> QED BY <3>1
  <2>9. Root(q, c, a, h, n)
    <3> HIDE DEF q
    <3> QED BY <2>7 DEF Root
  <2> HIDE DEF q, g, J, c
  <2>10. ASSUME NEW x \in Int
         PROVE  /\ Cong(Evaluate(q, x), c + (x - a) * Evaluate(h, x))
                /\ Evaluate(q, x) \in Field /\ Evaluate(q, x) \in Int
                /\ Evaluate(h, x) \in Field /\ Evaluate(h, x) \in Int
    <3>1. Cong(Evaluate(q, x), c + (x - a) * Evaluate(h, x))
      BY <2>3, <2>8, <2>9, RootEvaluate
    <3>2. n + 1 \in Nat
      OBVIOUS
    <3> QED BY <2>8, <3>1, <3>2, EvaluateType
  <2>11. ASSUME NEW i \in S PROVE Evaluate(q, i) = f[i]
    <3>0. i \in Int /\ f[i] \in Field /\ f[i] \in Int
      BY <1>0
    <3>1. CASE i = a
      <4> DEFINE e == Evaluate(h, a)
      <4>1. e \in Int
        BY <2>3, <2>10
      <4>2. Cong(Evaluate(q, a), c + (a - a) * e)
        BY <2>3, <2>10
      <4> HIDE DEF e
      <4>3. c + (a - a) * e = c
        BY <2>3, <4>1
      <4>4. Evaluate(q, a) = c
        BY <2>3, <2>10, <4>2, <4>3, CongEqual
      <4> QED BY <3>1, <4>4 DEF c
    <3>2. CASE i # a
      <4>1. i \in J
        BY <3>2 DEF J
      <4>2. Evaluate(h, i) = g[i]
        BY <2>6, <4>1
      <4> DEFINE d == i - a
                 e == g[i]
                 z == f[i] - c
      <4>3. /\ e \in Int /\ Cong(z, d * e) /\ Cong(Evaluate(q, i), c + d * e)
            /\ d \in Int /\ z \in Int
        <5>1. e \in Int /\ Cong(z, d * e)
          BY <2>4, <4>1
        <5>2. Cong(Evaluate(q, i), c + d * Evaluate(h, i))
          BY <2>10, <3>0
        <5>3. d \in Int /\ z \in Int
          BY <2>3, <3>0
        <5> QED BY <4>2, <5>1, <5>2, <5>3
      <4>4. f[i] = c + z
        BY <2>3, <3>0
      <4> HIDE DEF d, e, z
      <4>5. d * e \in Int
        BY <4>3
      <4>6. Cong(c + z, c + d * e)
        <5>1. Cong(c, c)
          BY <2>3, CongRefl
        <5> QED BY <2>3, <4>3, <4>5, <5>1, CongAdd
      <4> DEFINE r == c + d * e
      <4>7. r \in Int
        BY <2>3, <4>5
      <4>8. Cong(f[i], r) /\ Cong(Evaluate(q, i), r)
        BY <4>3, <4>4, <4>6
      <4> HIDE DEF r
      <4>9. Cong(r, f[i])
        BY <3>0, <4>7, <4>8, CongSym
      <4>10. Cong(Evaluate(q, i), f[i])
        BY <2>10, <3>0, <4>7, <4>8, <4>9, CongTrans
      <4> QED BY <2>10, <3>0, <4>10, CongEqual
    <3> QED BY <3>1, <3>2
  <2>12. Cong(Lagrange(f, S), Evaluate(q, 0))
    <3> DEFINE m == [i \in S |-> f[i] - c]
               o == One(S)
               Tf == Terms(f, S)
               Tm == Terms(m, S)
               To == Terms(o, S)
               Lf == Lagrange(f, S)
               Lm == Lagrange(m, S)
               Lo == Lagrange(o, S)
               Lg == Lagrange(g, J)
               e == Evaluate(h, 0)
    <3>1. /\ \A i \in S : f[i] \in Int
          /\ \A i \in S : o[i] \in Int /\ o[i] = 1
          /\ \A i \in S : m[i] \in Int /\ m[i] = f[i] - c
      <4>1. \A i \in S : f[i] \in Int
        BY <1>0
      <4> QED BY <2>3, <4>1 DEF One
    <3>2. /\ \A i \in S : Tf[i] \in Int /\ Tf[i] = f[i] * Weight(i, S) /\ Weight(i, S) \in Int
          /\ Lf \in Int
      BY <3>1, LagrangeType
    <3>3. /\ \A i \in S : Tm[i] \in Int /\ Tm[i] = m[i] * Weight(i, S)
          /\ Lm \in Int
      <4> HIDE DEF m
      <4> QED BY <3>1, LagrangeType
    <3>4. /\ \A i \in S : To[i] \in Int /\ To[i] = o[i] * Weight(i, S)
          /\ Lo \in Int
      <4> HIDE DEF o
      <4> QED BY <3>1, LagrangeType
    <3>5. Cong(Lo, 1)
      BY LagrangeOne
    <3>6. Lg \in Int
      <4>1. \A i \in J : g[i] \in Int
        BY <2>4
      <4> QED BY <2>2, <4>1, LagrangeType
    <3>7. Cong(Lm, (-a) * Lg)
      <4>1. m[a] = 0
        BY <2>3, <3>1 DEF c
      <4>2. \A i \in S \ {a} : g[i] \in Int
        BY <2>4 DEF J
      <4>3. \A i \in S \ {a} : Cong(m[i], (i - a) * g[i])
        BY <2>4, <3>1 DEF J
      <4>4. \A i \in S : m[i] \in Int
        BY <3>1
      <4> HIDE DEF m
      <4>5. Cong(Lagrange(m, S), (-a) * Lagrange(g, S \ {a}))
        BY <2>1, <4>1, <4>2, <4>3, <4>4, LagrangeWithout
      <4> QED BY <4>5 DEF J
    <3>8. Cong(Lg, e) /\ e \in Int
      BY <2>6, <2>10
    <3>9. ASSUME NEW i \in S PROVE Cong(Tf[i], c * To[i] + 1 * Tm[i])
      <4> DEFINE W == Weight(i, S)
                 v == f[i]
      <4>1. v \in Int /\ W \in Int /\ Tf[i] = v * W /\ To[i] = 1 * W /\ Tm[i] = (v - c) * W
        <5> HIDE DEF Tf, To, Tm, m, o
        <5> QED BY <3>1, <3>2, <3>3, <3>4
      <4> HIDE DEF Tf, To, Tm, m, o, W, v
      <4>2. Tf[i] = c * To[i] + 1 * Tm[i]
        BY <2>3, <4>1
      <4> QED BY <3>2, <4>2, CongRefl
    <3>10. Cong(Lf, c * Lo + 1 * Lm)
      <4> DEFINE u == 1
      <4>1. /\ \A i \in S : Tf[i] \in Int /\ To[i] \in Int /\ Tm[i] \in Int
            /\ \A i \in S : Cong(Tf[i], c * To[i] + u * Tm[i])
            /\ u \in Int
        <5> HIDE DEF Tf, To, Tm, m, o
        <5> QED BY <3>2, <3>3, <3>4, <3>9
      <4> HIDE DEF Tf, To, Tm, u
      <4>2. Cong(SumOver(Tf, S), c * SumOver(To, S) + u * SumOver(Tm, S))
        BY <2>3, <4>1, Linear
      <4> QED BY <4>2 DEF Tf, To, Tm, u, Lagrange
    <3>11. Cong(Evaluate(q, 0), c + (0 - a) * e) /\ Evaluate(q, 0) \in Int
      <4> DEFINE x == 0
      <4>1. x \in Int
        OBVIOUS
      <4> HIDE DEF x
      <4>2. Cong(Evaluate(q, x), c + (x - a) * Evaluate(h, x)) /\ Evaluate(q, x) \in Int
        BY <2>10, <4>1
      <4> QED BY <4>2 DEF x
    <3> DEFINE E == Evaluate(q, 0)
    <3>12. E \in Int /\ Cong(E, c + (0 - a) * e)
      BY <3>11
    <3> HIDE DEF Lf, Lm, Lo, Lg, e, m, o, Tf, To, Tm, E
    <3>13. PICK r \in Int : Lf = c * Lo + 1 * Lm + r * Prime
      BY <3>10 DEF Cong
    <3>14. PICK s \in Int : Lo = 1 + s * Prime
      BY <3>5 DEF Cong
    <3>15. PICK t \in Int : Lm = (-a) * Lg + t * Prime
      BY <3>7 DEF Cong
    <3>16. PICK u \in Int : Lg = e + u * Prime
      BY <3>8 DEF Cong
    <3>17. PICK v \in Int : E = c + (0 - a) * e + v * Prime
      BY <3>12 DEF Cong
    <3> DEFINE w == r + c * s + t - a * u - v
    <3>18. w \in Int
      BY <2>3, <3>13, <3>14, <3>15, <3>16, <3>17
    <3>19. Lf = E + w * Prime
      <4> DEFINE rP == r * Prime
                 csP == c * s * Prime
                 tP == t * Prime
                 auP == a * u * Prime
                 vP == v * Prime
                 ae == a * e
                 aL == a * Lg
      <4>1. c * Lo = c + csP
        BY <2>3, <3>14, PrimeNat
      <4>2. aL = ae + auP
        BY <2>3, <3>8, <3>16, PrimeNat
      <4>3. (-a) * Lg = -aL /\ (0 - a) * e = -ae
        BY <2>3, <3>6, <3>8
      <4>4. w * Prime = rP + csP + tP - auP - vP
        BY <2>3, <3>13, <3>14, <3>15, <3>16, <3>17, PrimeNat
      <4>5. /\ rP \in Int /\ csP \in Int /\ tP \in Int /\ auP \in Int /\ vP \in Int
            /\ ae \in Int /\ aL \in Int
        BY <2>3, <3>6, <3>8, <3>13, <3>14, <3>15, <3>16, <3>17, PrimeNat
      <4>6. Lf = c * Lo + Lm + rP /\ Lm = (-a) * Lg + tP /\ E = c + (0 - a) * e + vP
        BY <3>3, <3>13, <3>15, <3>17
      <4> DEFINE wP == w * Prime
      <4> HIDE DEF rP, csP, tP, auP, vP, ae, aL, w, wP
      <4>7. wP = rP + csP + tP - auP - vP
        BY <4>4 DEF wP
      <4> DEFINE cL == c * Lo
                 nL == (-a) * Lg
                 ne == (0 - a) * e
      <4>9. /\ cL = c + csP /\ aL = ae + auP /\ nL = -aL /\ ne = -ae
            /\ Lf = cL + Lm + rP /\ Lm = nL + tP /\ E = c + ne + vP
        BY <4>1, <4>2, <4>3, <4>6
      <4> HIDE DEF cL, nL, ne
      <4>8. Lf = E + wP
        BY <2>3, <4>5, <4>7, <4>9
      <4> QED BY <4>8 DEF wP
    <3> HIDE DEF w
    <3> QED BY <3>18, <3>19 DEF Cong, Lf, E
  <2>13. Fits(q, f, S)
    BY <2>11, <2>12
  <2> HIDE DEF Fits
  <2> QED BY <2>8, <2>13
<1>4. k \in B
  <2> HIDE DEF B
  <2> QED BY <1>2, <1>3, Induction
<1> QED BY <1>4
-----------------------------------------------------------------------------
(* A finite set and one that it is mapped to one to one have as many       *)
(* elements.                                                               *)
LEMMA SameSize ==
    ASSUME NEW S, IsFiniteSet(S), NEW T, NEW f \in [S -> T],
           \A x, y \in S : f[x] = f[y] => x = y,
           \A z \in T : \E x \in S : f[x] = z
    PROVE  IsFiniteSet(T) /\ Cardinality(T) = Cardinality(S)
<1>1. f \in Injection(S, T)
  BY DEF Injection, IsInjective
<1>2. f \in Surjection(S, T)
  BY DEF Surjection
<1>3. ExistsBijection(S, T)
  BY <1>1, <1>2 DEF ExistsBijection, Bijection
<1> QED BY <1>3, FS_Bijection

(* The elements of X below i, ...                                          *)
Under(X, i) == {j \in X : j < i}

(* ... and those with fewer than k below them.                             *)
Low(X, k) == {i \in X : Cardinality(Under(X, i)) < k}

(* They are k, if X has as many: the next is the least that is left.       *)
LEMMA Lowest ==
    ASSUME NEW X, X \subseteq Nat, IsFiniteSet(X), NEW k \in Nat, k <= Cardinality(X)
    PROVE  Cardinality(Low(X, k)) = k
<1> DEFINE rank(i) == Cardinality(Under(X, i))
           B == {n \in Nat : n <= Cardinality(X) => Cardinality(Low(X, n)) = n}
<1>1. ASSUME NEW i \in X
      PROVE  /\ IsFiniteSet(Under(X, i))
             /\ rank(i) \in Nat
             /\ \A j \in X : j < i => rank(j) < rank(i)
  <2>1. IsFiniteSet(Under(X, i)) /\ rank(i) \in Nat
    <3>1. Under(X, i) \in SUBSET X
      BY DEF Under
    <3> QED BY <3>1, FS_Subset, FS_CardinalityType
  <2>2. ASSUME NEW j \in X, j < i PROVE rank(j) < rank(i)
    <3> DEFINE U == Under(X, i)
    <3>1. j \in U /\ Under(X, j) \in SUBSET (U \ {j})
      <4>1. i \in Nat /\ j \in Nat /\ \A x \in X : x \in Nat
        OBVIOUS
      <4>2. \A x \in X : x < j => x < i /\ x # j
        BY <2>2, <4>1
      <4> QED BY <2>2, <4>2 DEF Under
    <3>2. IsFiniteSet(U \ {j}) /\ Cardinality(U \ {j}) < Cardinality(U)
          /\ Cardinality(U) \in Nat
      <4> HIDE DEF U
      <4> QED BY <2>1, <3>1, Without DEF U
    <3>3. /\ IsFiniteSet(Under(X, j))
          /\ Cardinality(Under(X, j)) <= Cardinality(U \ {j})
      BY <3>1, <3>2, FS_Subset
    <3>4. Cardinality(Under(X, j)) \in Nat /\ Cardinality(U \ {j}) \in Nat
      BY <3>2, <3>3, FS_CardinalityType
    <3> HIDE DEF U
    <3> QED BY <3>2, <3>3, <3>4 DEF U
  <2> QED BY <2>1, <2>2
<1>2. Cardinality(X) \in Nat
  BY FS_CardinalityType
<1>3. 0 \in B
  <2>1. \A i \in X : ~(rank(i) < 0)
    BY <1>1
  <2>2. Low(X, 0) = {}
    BY <2>1 DEF Low
  <2> QED BY <2>2, FS_EmptySet
<1>4. ASSUME NEW n \in Nat, n \in B PROVE n + 1 \in B
  <2> SUFFICES ASSUME n + 1 <= Cardinality(X) PROVE Cardinality(Low(X, n + 1)) = n + 1
    OBVIOUS
  <2> DEFINE L == Low(X, n)
  <2>1. L \in SUBSET X /\ IsFiniteSet(L) /\ Cardinality(L) = n
    <3>1. L \in SUBSET X
      BY DEF Low
    <3>2. Cardinality(L) = n
      BY <1>2, <1>4
    <3> QED BY <3>1, <3>2, FS_Subset
  <2>2. PICK i \in X \ L : \A j \in X \ L : i <= j
    <3>1. X \ L # {}
      <4> SUFFICES ASSUME X = L PROVE FALSE
        BY <2>1
      <4> QED BY <1>2, <2>1
    <3>2. X \ L \subseteq Nat
      OBVIOUS
    <3> HIDE DEF L
    <3> QED BY <3>1, <3>2, LeastOf
  <2>3. \A j \in L : j < i
    <3> TAKE j \in L
    <3>1. j \in X /\ rank(j) < n /\ ~(rank(i) < n) /\ j \in Nat /\ i \in Nat
      BY DEF Low
    <3>2. j # i
      BY <3>1
    <3>3. ~(i < j)
      <4> SUFFICES ASSUME i < j PROVE FALSE
        OBVIOUS
      <4>1. rank(i) < rank(j)
        BY <1>1, <3>1
      <4>2. rank(i) \in Nat /\ rank(j) \in Nat
        BY <1>1, <3>1
      <4> HIDE DEF rank
      <4> QED BY <3>1, <4>1, <4>2
    <3> QED BY <3>1, <3>2, <3>3
  <2>4. Under(X, i) = L
    <3>1. \A j \in X : j < i => j \in L
      <4> TAKE j \in X
      <4>1. j \in Nat /\ i \in Nat
        OBVIOUS
      <4> QED BY <2>2, <4>1
    <3>2. L \subseteq X
      BY <2>1
    <3> HIDE DEF L
    <3> QED BY <2>3, <3>1, <3>2 DEF Under
  <2>5. rank(i) = n
    BY <2>1, <2>4
  <2>6. Low(X, n + 1) = L \cup {i}
    <3>1. ASSUME NEW j \in X PROVE rank(j) < n + 1 <=> rank(j) < n \/ j = i
      <4>1. rank(j) \in Nat /\ rank(i) \in Nat /\ i \in Nat /\ j \in Nat
        BY <1>1
      <4>2. i < j => rank(i) < rank(j)
        BY <1>1
      <4>3. j < i => rank(j) < rank(i)
        BY <1>1
      <4> HIDE DEF rank
      <4> QED BY <2>5, <4>1, <4>2, <4>3
    <3> QED BY <3>1 DEF Low
  <2>7. i \notin L
    OBVIOUS
  <2> HIDE DEF L
  <2> QED BY <2>1, <2>6, <2>7, FS_AddElement
<1>5. k \in B
  <2> HIDE DEF B
  <2> QED BY <1>3, <1>4, Induction
<1> QED BY <1>5

(* Select, for a threshold that is given.                                  *)
Selected(shares, k) ==
    {s \in Range(shares) :
        Cardinality({r \in Range(shares) : r.index < s.index}) < k}

(* The indexes of some shares.                                             *)
Indexes(chosen) == {s.index : s \in chosen}

(* Of at least k shares with different indexes Select takes k              *)
(* (sorted(...)[:threshold], shamir.py:119).                               *)
LEMMA ChosenIndexes ==
    ASSUME NEW n \in Nat, NEW shares, DOMAIN shares = 1 .. n,
           \A i \in 1 .. n : shares[i].index \in Nat,
           \A i, j \in 1 .. n : shares[i].index = shares[j].index => i = j,
           NEW k \in Nat, k <= n
    PROVE  /\ Selected(shares, k) \subseteq Range(shares)
           /\ Indexes(Selected(shares, k)) \subseteq Indexes(Range(shares))
           /\ IsFiniteSet(Indexes(Selected(shares, k)))
           /\ Cardinality(Indexes(Selected(shares, k))) = k
           /\ \A s, t \in Selected(shares, k) : s.index = t.index => s = t
<1> DEFINE R == Range(shares)
           X == Indexes(R)
           C == Selected(shares, k)
<1>1. R = {shares[i] : i \in 1 .. n}
  BY DEF Range
<1>2. \A s, t \in R : s.index = t.index => s = t
  BY <1>1
<1>3. X \subseteq Nat
  BY <1>1 DEF Indexes
<1>4. IsFiniteSet(X) /\ Cardinality(X) = n
  <2> DEFINE f == [i \in 1 .. n |-> shares[i].index]
             T == 1 .. n
  <2>1. IsFiniteSet(T) /\ Cardinality(T) = n
    BY FS_Interval
  <2>2. f \in [T -> X]
    BY <1>1 DEF Indexes
  <2>3. \A x, y \in T : f[x] = f[y] => x = y
    OBVIOUS
  <2>4. \A z \in X : \E x \in T : f[x] = z
    BY <1>1 DEF Indexes
  <2> HIDE DEF f, T, X
  <2>5. IsFiniteSet(X) /\ Cardinality(X) = Cardinality(T)
    BY <2>1, <2>2, <2>3, <2>4, SameSize
  <2> QED BY <2>1, <2>5
<1>5. ASSUME NEW s \in R
      PROVE  Cardinality({r \in R : r.index < s.index}) = Cardinality(Under(X, s.index))
  <2> DEFINE U == Under(X, s.index)
             V == {r \in R : r.index < s.index}
             h == [j \in U |-> CHOOSE r \in R : r.index = j]
  <2>1. \A j \in U : h[j] \in R /\ h[j].index = j
    BY DEF Under, Indexes
  <2>2. \A r \in V : r.index \in U /\ r \in R
    BY DEF Under, Indexes
  <2>3. \A j \in U : j < s.index
    BY DEF Under
  <2>4. U \in SUBSET X
    BY DEF Under
  <2>5. IsFiniteSet(U)
    <3> HIDE DEF U, X
    <3> QED BY <1>4, <2>4, FS_Subset
  <2> HIDE DEF U, R
  <2>6. h \in [U -> V]
    BY <2>1, <2>3
  <2>7. \A x, y \in U : h[x] = h[y] => x = y
    <3> HIDE DEF h
    <3> QED BY <2>1
  <2>8. \A r \in V : \E x \in U : h[x] = r
    <3> TAKE r \in V
    <3>1. r.index \in U /\ r \in R
      BY <2>2
    <3>2. h[r.index] \in R /\ h[r.index].index = r.index
      BY <2>1, <3>1
    <3>3. h[r.index] = r
      <4> HIDE DEF h
      <4> QED BY <1>2, <3>1, <3>2
    <3> QED BY <3>1, <3>3
  <2> HIDE DEF h, V
  <2>9. Cardinality(V) = Cardinality(U)
    BY <2>5, <2>6, <2>7, <2>8, SameSize
  <2> QED BY <2>9 DEF V, U
<1>6. C \subseteq R
  BY DEF Selected
<1>7. Indexes(C) = Low(X, k)
  <2>1. \A s \in R : s \in C <=> Cardinality(Under(X, s.index)) < k
    <3>1. C = {s \in R : Cardinality({r \in R : r.index < s.index}) < k}
      BY DEF Selected
    <3> HIDE DEF C, R, X
    <3> QED BY <1>5, <3>1
  <2>2. \A i \in X : \E s \in R : s.index = i
    BY DEF Indexes
  <2>3. \A s \in R : s.index \in X
    BY DEF Indexes
  <2>4. ASSUME NEW i \in Indexes(C) PROVE i \in Low(X, k)
    <3>1. PICK s \in C : i = s.index
      BY DEF Indexes
    <3>2. s \in R
      BY <1>6
    <3> HIDE DEF C, R, X
    <3> QED BY <2>1, <2>3, <3>1, <3>2 DEF Low
  <2>5. ASSUME NEW i \in Low(X, k) PROVE i \in Indexes(C)
    <3>1. i \in X /\ Cardinality(Under(X, i)) < k
      BY DEF Low
    <3>2. PICK s \in R : s.index = i
      BY <2>2, <3>1
    <3> HIDE DEF C, R, X
    <3>3. s \in C
      BY <2>1, <3>1, <3>2
    <3> QED BY <3>2, <3>3 DEF Indexes
  <2> HIDE DEF C, X
  <2> QED BY <2>4, <2>5
<1>8. IsFiniteSet(Indexes(C)) /\ Cardinality(Indexes(C)) = k /\ Indexes(C) \subseteq X
  <2>1. Low(X, k) \in SUBSET X
    BY DEF Low
  <2>2. Cardinality(Low(X, k)) = k
    <3> HIDE DEF X
    <3> QED BY <1>3, <1>4, Lowest
  <2> HIDE DEF X, C
  <2> QED BY <1>4, <1>7, <2>1, <2>2, FS_Subset
<1>9. \A s, t \in C : s.index = t.index => s = t
  <2> HIDE DEF C, R
  <2> QED BY <1>2, <1>6
<1> HIDE DEF C, R, X
<1> QED BY <1>6, <1>8, <1>9 DEF C, R, X
-----------------------------------------------------------------------------
(* What is assumed of a configuration.                                     *)
LEMMA ConfigIs ==
    ASSUME NEW c \in Configs
    PROVE  /\ c.k \in Nat /\ c.n \in Nat
           /\ 2 <= c.k /\ c.k <= c.n /\ c.n < Prime
BY ShamirAssumption

(* A value of the field is read back as it was written (shamir.py:159-160, *)
(* 196-199).                                                               *)
LEMMA DigitsBack ==
    ASSUME NEW v \in Field
    PROVE  Number(Digits(v)) = v
<1>1. Base \in Nat /\ Base > 0 /\ v \in Int
  BY PrimeNat DEF Base, Field
<1>2. v = (v \div Base) * Base + (v % Base)
  BY <1>1
<1> HIDE DEF Base
<1> QED BY <1>2 DEF Number, Digits

(* A polynomial of split_secret has a byte at zero and k coefficients.     *)
LEMMA PolysAre ==
    ASSUME NEW k \in Nat, k > 0
    PROVE  Polys(k) = {p \in [1 .. k -> Field] : p[1] \in Bytes}
<1>1. Bytes \subseteq Field
  BY PrimeNat DEF Bytes, Base, Field
<1>2. ASSUME NEW b \in Bytes, NEW c \in [1 .. k - 1 -> Field]
      PROVE  <<b>> \o c \in [1 .. k -> Field] /\ (<<b>> \o c)[1] = b
  <2>1. b \in Field
    BY <1>1
  <2>2. c \in Seq(Field) /\ Len(c) = k - 1
    <3>1. k - 1 \in Nat
      OBVIOUS
    <3> QED BY <3>1
  <2> DEFINE s == <<b>> \o c
  <2>3. s \in Seq(Field) /\ Len(s) = k /\ s[1] = b
    BY <2>1, <2>2
  <2>4. s \in [1 .. k -> Field]
    <3> HIDE DEF s
    <3> QED BY <2>3
  <2> QED BY <2>3, <2>4
<1>3. ASSUME NEW p \in [1 .. k -> Field], p[1] \in Bytes
      PROVE  \E b \in Bytes, c \in [1 .. k - 1 -> Field] : p = <<b>> \o c
  <2> DEFINE c == [i \in 1 .. k - 1 |-> p[i + 1]]
             s == <<p[1]>> \o c
  <2>1. c \in [1 .. k - 1 -> Field]
    <3>1. \A i \in 1 .. k - 1 : i + 1 \in 1 .. k
      OBVIOUS
    <3> QED BY <3>1
  <2>2. c \in Seq(Field) /\ Len(c) = k - 1 /\ k - 1 \in Nat
    BY <2>1
  <2>3. s \in [1 .. k -> Field] /\ s[1] = p[1]
    <3> HIDE DEF c
    <3> QED BY <1>2, <1>3, <2>1
  <2>4. ASSUME NEW i \in 1 .. k PROVE s[i] = p[i]
    <3>1. CASE i = 1
      BY <2>3, <3>1
    <3>2. CASE i # 1
      <4>1. i - 1 \in 1 .. k - 1 /\ (i - 1) + 1 = i
        BY <3>2
      <4>2. c[i - 1] = p[i]
        BY <4>1
      <4>3. p[1] \in Field
        BY <1>1, <1>3
      <4> HIDE DEF c
      <4>4. s[i] = c[i - 1]
        BY <2>2, <3>2, <4>3
      <4> QED BY <4>2, <4>4
    <3> QED BY <3>1, <3>2
  <2>5. s = p
    <3> HIDE DEF s
    <3> QED BY <2>3, <2>4
  <2> HIDE DEF c
  <2> QED BY <1>3, <2>1, <2>5
<1> DEFINE Joined(b, c) == <<b>> \o c
           A == Bytes
           D == [1 .. k - 1 -> Field]
           Q == {p \in [1 .. k -> Field] : p[1] \in Bytes}
<1>4. Polys(k) = {Joined(b, c) : b \in A, c \in D}
  BY DEF Polys, Drawn
<1>5. ASSUME NEW p \in Polys(k) PROVE p \in Q
  <2>1. \E b \in A, c \in D : p = Joined(b, c)
    <3> HIDE DEF Joined, A, D
    <3> QED BY <1>4, <1>5
  <2> QED BY <1>2, <2>1
<1>6. ASSUME NEW p \in Q PROVE p \in Polys(k)
  <2>1. \E b \in A, c \in D : p = Joined(b, c)
    BY <1>3, <1>6
  <2> HIDE DEF Joined, A, D
  <2> QED BY <1>4, <2>1
<1> QED BY <1>5, <1>6

(* There are finitely many functions between finite sets: a function is a  *)
(* set of pairs.                                                           *)
LEMMA FunctionsFinite ==
    ASSUME NEW S, NEW T, IsFiniteSet(S), IsFiniteSet(T)
    PROVE  IsFiniteSet([S -> T])
<1> DEFINE G == SUBSET (S \X T)
           F == [f \in [S -> T] |-> {<<x, f[x]>> : x \in S}]
<1>1. IsFiniteSet(G)
  <2>1. IsFiniteSet(S \X T)
    BY FS_Product
  <2> QED BY <2>1, FS_SUBSET
<1>2. F \in [[S -> T] -> G]
  OBVIOUS
<1>3. ASSUME NEW f \in [S -> T], NEW g \in [S -> T], F[f] = F[g] PROVE f = g
  <2>1. F[f] = {<<x, f[x]>> : x \in S} /\ F[g] = {<<x, g[x]>> : x \in S}
    OBVIOUS
  <2>2. ASSUME NEW x \in S PROVE f[x] = g[x]
    <3>1. <<x, f[x]>> \in F[g]
      BY <1>3, <2>1
    <3>2. PICK z \in S : <<x, f[x]>> = <<z, g[z]>>
      BY <2>1, <3>1
    <3> QED BY <3>2
  <2> QED BY <2>2
<1>4. F \in Injection([S -> T], G)
  BY <1>2, <1>3 DEF Injection, IsInjective
<1> HIDE DEF F, G
<1> QED BY <1>1, <1>4, FS_Injection
-----------------------------------------------------------------------------
(* The shares presented are a sequence.                                    *)
LEMMA Given ==
    ASSUME given \in BoundedSeq(Presentable, MaxGiven)
    PROVE  /\ Len(given) \in Nat
           /\ given \in [1 .. Len(given) -> Presentable]
           /\ DOMAIN given = 1 .. Len(given)
<1>1. PICK m \in 0 .. MaxGiven : given \in [1 .. m -> Presentable]
  BY DEF BoundedSeq, SeqOf
<1>2. m \in Nat
  BY ShamirAssumption
<1>3. given \in Seq(Presentable) /\ Len(given) = m
  BY <1>1, <1>2
<1> QED BY <1>1, <1>2, <1>3

(* Accepted shares are interpolated by a polynomial of the right degree:   *)
(* the k shares that are used lie on it, and the result is its value at    *)
(* zero (shamir.py:106-140).                                               *)
LEMMA Interpolated ==
    ASSUME config \in Configs, given \in BoundedSeq(Presentable, MaxGiven),
           AcceptableShares(given)
    PROVE  /\ Select(given) \subseteq Range(given)
           /\ \A s \in Select(given) : Ours(s)
           /\ IsFiniteSet(Indexes(Select(given)))
           /\ Indexes(Select(given)) \subseteq Field
           /\ Cardinality(Indexes(Select(given))) = config.k
           /\ \E q \in [1 .. config.k -> Field] :
                 /\ q[1] = Interpolate(Select(given))
                 /\ \A s \in Select(given) : Number(s.digits) = Evaluate(q, s.index)
<1> DEFINE n == Len(given)
           k == config.k
           C == Select(given)
           I == Indexes(C)
<1>1. n \in Nat /\ given \in [1 .. n -> Presentable] /\ DOMAIN given = 1 .. n
  BY Given
<1>2. k \in Nat /\ config.n \in Nat /\ 2 <= k /\ config.n < Prime
  BY ConfigIs
<1>3. /\ k <= n
      /\ \A i \in 1 .. n : /\ Number(given[i].digits) \in Field
                           /\ Ours(given[i])
                           /\ \A j \in 1 .. i - 1 : given[j].index # given[i].index
  BY <1>1, <1>2 DEF AcceptableShares
<1>4. \A s \in Presentable : s.index \in Nat /\ s.index < Prime /\ s.index \in Field
  <2>1. \A s \in Presentable : s.index \in 1 .. config.n
    BY DEF Presentable, Share
  <2>2. \A i \in 1 .. config.n : i \in Nat /\ i < Prime /\ i \in Field
    BY <1>2, PrimeNat DEF Field
  <2> QED BY <2>1, <2>2
<1>5. \A i, j \in 1 .. n : given[i].index = given[j].index => i = j
  <2> TAKE i, j \in 1 .. n
  <2>1. i < j \/ i = j \/ j < i
    OBVIOUS
  <2>2. i < j => i \in 1 .. j - 1
    OBVIOUS
  <2>3. j < i => j \in 1 .. i - 1
    OBVIOUS
  <2> QED BY <1>3, <2>1, <2>2, <2>3
<1>6. /\ C \subseteq Range(given)
      /\ I \subseteq Indexes(Range(given))
      /\ IsFiniteSet(I)
      /\ Cardinality(I) = k
      /\ \A s, t \in C : s.index = t.index => s = t
  <2>1. C = Selected(given, k)
    BY DEF Select, Selected
  <2>2. \A i \in 1 .. n : given[i].index \in Nat
    BY <1>1, <1>4
  <2> HIDE DEF C, n, k
  <2> QED BY <1>1, <1>2, <1>3, <1>5, <2>1, <2>2, ChosenIndexes DEF I
<1>7. ASSUME NEW s \in C
      PROVE  /\ s.index \in Field /\ s.index \in I
             /\ Ours(s)
             /\ Number(s.digits) \in Field
  <2>1. PICK i \in 1 .. n : s = given[i]
    BY <1>1, <1>6 DEF Range
  <2>2. s \in Presentable
    BY <1>1, <2>1
  <2> QED BY <1>3, <1>4, <2>1, <2>2 DEF Indexes
<1>8. I \subseteq Field
  BY <1>7 DEF Indexes
<1> DEFINE y == [i \in I |-> Number((CHOOSE s \in C : s.index = i).digits)]
<1>9. \A s \in C : y[s.index] = Number(s.digits)
  <2> TAKE s \in C
  <2>1. (CHOOSE t \in C : t.index = s.index) = s
    BY <1>6
  <2>2. s.index \in I
    BY <1>7
  <2> QED BY <2>1, <2>2
<1>10. y \in [I -> Field]
  <2>1. \A i \in I : \E s \in C : i = s.index
    BY DEF Indexes
  <2>2. \A i \in I : y[i] \in Field
    <3> HIDE DEF y
    <3> QED BY <1>7, <1>9, <2>1
  <2> HIDE DEF C, I
  <2> QED BY <2>2
<1>11. PICK q \in [1 .. k -> Field] :
          (\A i \in I : Evaluate(q, i) = y[i]) /\ Cong(Lagrange(y, I), Evaluate(q, 0))
  <2>1. Cardinality(I) <= k
    BY <1>2, <1>6
  <2> HIDE DEF y, I, k
  <2> QED BY <1>2, <1>6, <1>8, <1>10, <2>1, Through
<1>12. Interpolate(C) = Lagrange(y, I) % Prime
  <2> DEFINE F == [i \in I |-> Number((CHOOSE s \in C : s.index = i).digits) * Weight(i, I)]
  <2>1. F = Terms(y, I)
    BY DEF Terms
  <2>2. Interpolate(C) = SumOver(F, I) % Prime
    <3> HIDE DEF C
    <3> QED BY DEF Interpolate, SumOver, Indexes
  <2> HIDE DEF F, y, I, C
  <2> QED BY <2>1, <2>2 DEF Lagrange
<1>13. Evaluate(q, 0) = q[1] /\ q[1] \in Field
  <2> HIDE DEF k
  <2>1. k > 0 /\ 1 \in 1 .. k
    BY <1>2
  <2> QED BY <1>2, <1>11, <2>1, EvaluateZero
<1>14. Interpolate(C) = q[1]
  <2> DEFINE l == Lagrange(y, I)
  <2>1. l \in Int
    <3>1. \A i \in I : y[i] \in Int
      BY <1>10, PrimeNat DEF Field
    <3> HIDE DEF y, I
    <3> QED BY <1>6, <1>8, <3>1, LagrangeType
  <2>2. q[1] \in Int /\ q[1] % Prime = q[1]
    <3>1. \A e \in Field : e \in Int /\ e % Prime = e
      BY PrimeNat DEF Field
    <3> QED BY <1>13, <3>1
  <2>3. Cong(l, q[1])
    BY <1>11, <1>13
  <2> HIDE DEF l
  <2>4. l % Prime = q[1] % Prime
    BY <2>1, <2>2, <2>3, ModEqual
  <2> QED BY <1>12, <2>2, <2>4 DEF l
<1>15. \A s \in C : Number(s.digits) = Evaluate(q, s.index)
  <2> HIDE DEF y, C, I
  <2> QED BY <1>7, <1>9, <1>11
<1>16. \E p \in [1 .. config.k -> Field] :
          /\ p[1] = Interpolate(C)
          /\ \A s \in C : Number(s.digits) = Evaluate(p, s.index)
  <2> HIDE DEF y, C, I
  <2> QED BY <1>11, <1>14, <1>15
<1> HIDE DEF C, I
<1> QED BY <1>6, <1>7, <1>8, <1>16 DEF C, I
-----------------------------------------------------------------------------
(* The result is what combine_shares makes of the shares presented.        *)
RightResult == phase = "combined" => result = Combine(given)

(* The inductive invariant: a polynomial was drawn for a configuration,    *)
(* and what is presented are shares of the forms considered.               *)
ShamirInv == /\ phase \in {"idle", "split", "combined"}
             /\ phase # "idle" => config \in Configs /\ poly \in Polys(config.k)
             /\ phase = "combined" => given \in BoundedSeq(Presentable, MaxGiven)
             /\ RightResult

(* ShamirInv holds in every state: each action only stores what it was     *)
(* drawn from (split_secret, shamir.py:53-84, and combine_shares, 87-140). *)
THEOREM Inductive == ShamirSpec => []ShamirInv
<1>1. ShamirInit => ShamirInv
  BY DEF ShamirInit, ShamirInv, RightResult
<1>2. ShamirInv /\ [ShamirNext]_shamirVars => ShamirInv'
  <2> SUFFICES ASSUME ShamirInv, [ShamirNext]_shamirVars PROVE ShamirInv'
    OBVIOUS
  <2>1. CASE Split
    BY <2>1 DEF Split, ShamirInv, RightResult
  <2>2. CASE Present
    <3>1. /\ phase = "split" /\ phase' = "combined"
          /\ config' = config /\ poly' = poly
          /\ given' \in BoundedSeq(Presentable, MaxGiven)
          /\ result' = Combine(given')
      BY <2>2 DEF Present
    <3>2. Presentable' = Presentable
      BY <3>1 DEF Presentable, Share
    <3>3. Combine(given)' = Combine(given')
      BY <3>1 DEF Combine, AcceptableShares, Ours, Select
    <3>4. config \in Configs /\ poly \in Polys(config.k)
      BY <3>1 DEF ShamirInv
    <3> QED BY <3>1, <3>2, <3>3, <3>4 DEF ShamirInv, RightResult
  <2>3. CASE Again
    BY <2>3 DEF Again, ShamirInv, RightResult
  <2>4. CASE UNCHANGED shamirVars
    <3>1. /\ phase' = phase /\ config' = config /\ poly' = poly
          /\ given' = given /\ result' = result
      BY <2>4 DEF shamirVars
    <3>2. Presentable' = Presentable
      BY <3>1 DEF Presentable, Share
    <3>3. Combine(given)' = Combine(given)
      BY <3>1 DEF Combine, AcceptableShares, Ours, Select
    <3> QED BY <3>1, <3>2, <3>3 DEF ShamirInv, RightResult
  <2> QED BY <2>1, <2>2, <2>3, <2>4 DEF ShamirNext
<1> QED BY <1>1, <1>2, PTL DEF ShamirSpec

(* Genuine shares lie on the polynomial that was drawn, so the polynomial  *)
(* through k of them is that one.                                          *)
LEMMA RebuildsHolds == ShamirInv => Rebuilds
<1> SUFFICES ASSUME ShamirInv, phase = "combined", Genuine(given), Distinct(given)
             PROVE  result = IF Len(given) >= config.k THEN poly[1] ELSE Refused
  BY DEF Rebuilds
<1> DEFINE k == config.k
           n == Len(given)
           C == Select(given)
           I == Indexes(C)
<1>1. /\ config \in Configs /\ poly \in Polys(k)
      /\ given \in BoundedSeq(Presentable, MaxGiven)
      /\ result = Combine(given)
  BY DEF ShamirInv, RightResult
<1>2. n \in Nat /\ given \in [1 .. n -> Presentable] /\ DOMAIN given = 1 .. n
  BY <1>1, Given
<1>3. k \in Nat /\ k > 0 /\ config.n \in Nat /\ config.n < Prime
  BY <1>1, ConfigIs
<1>4. poly \in [1 .. k -> Field] /\ poly[1] \in Bytes
  BY <1>1, <1>3, PolysAre
<1>5. CASE ~(n >= k)
  <2>1. ~AcceptableShares(given)
    BY <1>5 DEF AcceptableShares
  <2> QED BY <1>1, <1>5, <2>1 DEF Combine
<1>6. CASE n >= k
  <2>1. ASSUME NEW i \in 1 .. n
        PROVE  /\ given[i].index \in Int
               /\ Ours(given[i])
               /\ Number(given[i].digits) = Evaluate(poly, given[i].index)
               /\ Number(given[i].digits) \in Field
    <3> DEFINE x == given[i].index
    <3>1. x \in Int
      <4>1. \A s \in Presentable : s.index \in Int
        BY DEF Presentable, Share
      <4> QED BY <1>2, <4>1
    <3>2. given[i] = Share(poly, x)
      BY DEF Genuine
    <3> DEFINE v == Evaluate(poly, x)
    <3>3. v \in Field
      <4> HIDE DEF x
      <4> QED BY <1>3, <1>4, <3>1, EvaluateType
    <3>4. given[i].digits = Digits(v) /\ Ours(given[i])
      <4> HIDE DEF x
      <4> QED BY <3>2 DEF Share, Ours
    <3>5. Number(Digits(v)) = v
      <4> HIDE DEF v
      <4> QED BY <3>3, DigitsBack
    <3> QED BY <3>1, <3>3, <3>4, <3>5
  <2>2. AcceptableShares(given)
    <3>1. \A i \in 1 .. n : \A j \in 1 .. i - 1 : given[j].index # given[i].index
      <4> TAKE i \in 1 .. n
      <4> TAKE j \in 1 .. i - 1
      <4>1. j \in 1 .. n /\ j # i
        BY <1>2
      <4> QED BY <4>1 DEF Distinct
    <3> QED BY <1>6, <2>1, <3>1 DEF AcceptableShares
  <2>3. /\ C \subseteq Range(given)
        /\ IsFiniteSet(I) /\ I \subseteq Field /\ Cardinality(I) = k
        /\ \E q \in [1 .. k -> Field] :
              /\ q[1] = Interpolate(C)
              /\ \A s \in C : Number(s.digits) = Evaluate(q, s.index)
    BY <1>1, <2>2, Interpolated
  <2>4. PICK q \in [1 .. k -> Field] :
           /\ q[1] = Interpolate(C)
           /\ \A s \in C : Number(s.digits) = Evaluate(q, s.index)
    BY <2>3
  <2>5. \A s \in C : Number(s.digits) = Evaluate(poly, s.index)
    <3> TAKE s \in C
    <3>1. PICK i \in 1 .. n : s = given[i]
      BY <1>2, <2>3 DEF Range
    <3> QED BY <2>1, <3>1
  <2>6. \A i \in I : Evaluate(q, i) = Evaluate(poly, i)
    <3> TAKE i \in I
    <3>1. PICK s \in C : i = s.index
      BY DEF Indexes
    <3> QED BY <2>4, <2>5, <3>1
  <2>7. q[1] = poly[1]
    <3> HIDE DEF k, I, C
    <3>1. \A i \in 1 .. k : q[i] = poly[i]
      BY <1>3, <1>4, <2>3, <2>4, <2>6, Unique
    <3>2. 1 \in 1 .. k
      BY <1>3
    <3> QED BY <3>1, <3>2
  <2> QED BY <1>1, <1>4, <1>6, <2>2, <2>4, <2>7 DEF Combine
<1> QED BY <1>5, <1>6

(* What is accepted is the value at zero of the polynomial through the     *)
(* shares that are used.                                                   *)
LEMMA NothingInventedHolds == ShamirInv => NothingInvented
<1> SUFFICES ASSUME ShamirInv, phase = "combined", result # Refused
             PROVE  /\ result \in Bytes
                    /\ \E q \in [1 .. config.k -> Field], chosen \in SUBSET Range(given) :
                          /\ q[1] = result
                          /\ Cardinality({s.index : s \in chosen}) = config.k
                          /\ \A s \in chosen :
                                Ours(s) /\ Number(s.digits) = Evaluate(q, s.index)
  BY DEF NothingInvented
<1> DEFINE C == Select(given)
<1>1. /\ config \in Configs
      /\ given \in BoundedSeq(Presentable, MaxGiven)
      /\ result = Combine(given)
  BY DEF ShamirInv, RightResult
<1>2. AcceptableShares(given) /\ result = Interpolate(C) /\ result \in Bytes
  BY <1>1 DEF Combine
<1>3. /\ C \subseteq Range(given)
      /\ \A s \in C : Ours(s)
      /\ Cardinality(Indexes(C)) = config.k
      /\ \E q \in [1 .. config.k -> Field] :
            /\ q[1] = Interpolate(C)
            /\ \A s \in C : Number(s.digits) = Evaluate(q, s.index)
  BY <1>1, <1>2, Interpolated
<1>4. PICK q \in [1 .. config.k -> Field] :
         /\ q[1] = Interpolate(C)
         /\ \A s \in C : Number(s.digits) = Evaluate(q, s.index)
  BY <1>3
<1>5. Cardinality({s.index : s \in C}) = config.k
  BY <1>3 DEF Indexes
<1>6. C \in SUBSET Range(given)
  BY <1>3
<1> HIDE DEF C
<1> QED BY <1>2, <1>3, <1>4, <1>5, <1>6

(* Let d be a polynomial of length k that is b at zero and zero at few.    *)
(* Adding d turns the polynomials that fit the secret 0 into those that    *)
(* fit b, and subtracting it turns them back.                              *)
LEMMA SameFits ==
    ASSUME NEW k \in Nat, k > 0, NEW p \in [1 .. k -> Field], NEW b \in Bytes,
           NEW few, few \subseteq Field \ {0}, IsFiniteSet(few), Cardinality(few) < k,
           NEW Z, Z = {q \in Polys(k) : /\ q[1] = 0
                                        /\ \A i \in few : Evaluate(q, i) = Evaluate(p, i)},
           NEW F, F = {q \in Polys(k) : /\ q[1] = b
                                        /\ \A i \in few : Evaluate(q, i) = Evaluate(p, i)}
    PROVE  Cardinality(F) = Cardinality(Z)
<1>0. /\ Field \subseteq Int /\ 0 \in Field /\ Bytes \subseteq Field /\ 1 \in 1 .. k
      /\ \A e \in Field : e % Prime = e
  BY PrimeNat DEF Field, Bytes, Base
<1> DEFINE J == few \cup {0}
           y == [i \in J |-> IF i = 0 THEN b ELSE 0]
<1>1. J \subseteq Field /\ IsFiniteSet(J) /\ Cardinality(J) <= k
  <2>1. Cardinality(few) \in Nat
    BY FS_CardinalityType
  <2>2. IsFiniteSet(J) /\ Cardinality(J) = Cardinality(few) + 1
    BY FS_AddElement
  <2> QED BY <1>0, <2>1, <2>2
<1>2. y \in [J -> Field]
  BY <1>0
<1>3. PICK d \in [1 .. k -> Field] : \A i \in J : Evaluate(d, i) = y[i]
  <2> HIDE DEF J, y
  <2> QED BY <1>1, <1>2, Through
<1>4. d[1] = b /\ \A i \in few : Evaluate(d, i) = 0
  <2>1. Evaluate(d, 0) = d[1]
    BY EvaluateZero
  <2>2. y[0] = b /\ \A i \in few : i \in J /\ y[i] = 0
    OBVIOUS
  <2> HIDE DEF y
  <2> QED BY <1>3, <2>1, <2>2
<1>5. Polys(k) = {q \in [1 .. k -> Field] : q[1] \in Bytes}
  BY PolysAre
<1> DEFINE Moved(q, c) == [i \in 1 .. k |-> (q[i] + c * d[i]) % Prime]
<1>6. ASSUME NEW q \in [1 .. k -> Field], NEW c \in Int
      PROVE  /\ Moved(q, c) \in [1 .. k -> Field]
             /\ \A i \in 1 .. k : /\ q[i] \in Int /\ d[i] \in Int
                                  /\ q[i] + c * d[i] \in Int
                                  /\ Moved(q, c)[i] = (q[i] + c * d[i]) % Prime
                                  /\ Cong(Moved(q, c)[i], q[i] + c * d[i])
             /\ \A i \in few : Evaluate(Moved(q, c), i) = Evaluate(q, i)
  <2> DEFINE m == Moved(q, c)
  <2>1. ASSUME NEW i \in 1 .. k
        PROVE  /\ m[i] \in Field
               /\ q[i] \in Int /\ d[i] \in Int /\ q[i] + c * d[i] \in Int
               /\ m[i] = (q[i] + c * d[i]) % Prime
               /\ Cong(m[i], q[i] + c * d[i])
    <3> DEFINE e == q[i] + c * d[i]
    <3>1. q[i] \in Int /\ d[i] \in Int
      BY <1>0
    <3>2. e \in Int
      BY <3>1
    <3>3. m[i] = e % Prime
      OBVIOUS
    <3> HIDE DEF e, m
    <3>4. m[i] \in Field /\ Cong(m[i], e)
      BY <3>2, <3>3, CongMod, ModSplit DEF Field
    <3> QED BY <3>1, <3>2, <3>3, <3>4 DEF e
  <2>2. m \in [1 .. k -> Field]
    <3>1. \A i \in 1 .. k : m[i] \in Field
      BY <2>1
    <3> QED BY <3>1
  <2> HIDE DEF m
  <2>3. ASSUME NEW i \in few PROVE Evaluate(m, i) = Evaluate(q, i)
    <3> DEFINE e == Evaluate(q, i)
    <3>1. i \in Int
      BY <1>0
    <3>2. e \in Field /\ e \in Int /\ Evaluate(m, i) \in Field
      BY <2>2, <3>1, EvaluateType
    <3>3. Cong(Evaluate(m, i), e + c * Evaluate(d, i))
      <4>1. \A j \in 1 .. k : Cong(m[j], q[j] + c * d[j])
        BY <2>1
      <4> QED BY <2>2, <3>1, <4>1, EvaluateLinear
    <3> HIDE DEF e
    <3>4. e + c * Evaluate(d, i) = e
      <4>1. e + c * 0 = e
        BY <3>2
      <4> QED BY <1>4, <4>1
    <3>5. Evaluate(m, i) = e
      BY <3>2, <3>3, <3>4, CongEqual
    <3> QED BY <3>5 DEF e
  <2> QED BY <2>1, <2>2, <2>3 DEF m
<1>7. ASSUME NEW q \in [1 .. k -> Field], NEW c \in Int, NEW e \in Int, c + e = 0
      PROVE  Moved(Moved(q, c), e) = q
  <2> DEFINE m == Moved(q, c)
             r == Moved(m, e)
  <2>1. m \in [1 .. k -> Field]
    <3> HIDE DEF Moved
    <3> QED BY <1>6
  <2>2. r \in [1 .. k -> Field]
    <3> HIDE DEF m, Moved
    <3> QED BY <1>6, <2>1
  <2>3. ASSUME NEW i \in 1 .. k PROVE r[i] = q[i]
    <3> DEFINE qi == q[i]
               di == d[i]
               mi == m[i]
               ri == r[i]
    <3>1. qi \in Int /\ di \in Int /\ Cong(mi, qi + c * di) /\ qi \in Field
      <4> HIDE DEF Moved
      <4> QED BY <1>6
    <3>2. mi \in Int /\ Cong(ri, mi + e * di)
      <4> HIDE DEF m, Moved
      <4> QED BY <1>6, <2>1
    <3>3. ri \in Field /\ ri \in Int
      <4> HIDE DEF r
      <4> QED BY <1>0, <2>2
    <3> HIDE DEF qi, di, mi, ri, m, r, Moved
    <3>4. PICK s \in Int : mi = qi + c * di + s * Prime
      BY <3>1 DEF Cong
    <3>5. PICK t \in Int : ri = mi + e * di + t * Prime
      BY <3>2 DEF Cong
    <3>6. c * di + e * di = 0
      <4>1. e = -c
        BY <1>7
      <4> QED BY <3>1, <4>1
    <3> DEFINE cd == c * di
               ed == e * di
               sP == s * Prime
               tP == t * Prime
    <3>7. (s + t) * Prime = sP + tP /\ sP \in Int /\ tP \in Int /\ cd \in Int /\ ed \in Int
      BY <3>1, <3>4, <3>5, PrimeNat
    <3>8. mi = qi + cd + sP /\ ri = mi + ed + tP /\ cd + ed = 0
      BY <3>4, <3>5, <3>6
    <3> DEFINE w == s + t
    <3>9. w \in Int /\ w * Prime = sP + tP
      BY <3>4, <3>5, <3>7
    <3> HIDE DEF cd, ed, sP, tP, w
    <3>10. ri = qi + (sP + tP)
      BY <3>1, <3>2, <3>7, <3>8
    <3>11. Cong(ri, qi)
      BY <3>9, <3>10 DEF Cong
    <3>12. ri = qi
      BY <3>1, <3>3, <3>11, CongEqual
    <3> QED BY <3>12 DEF ri, qi
  <2>4. r = q
    <3> HIDE DEF r
    <3> QED BY <2>2, <2>3
  <2> QED BY <2>4
<1>8. ASSUME NEW q \in Z PROVE Moved(q, 1) \in F
  <2>1. q \in [1 .. k -> Field] /\ q[1] = 0
        /\ \A i \in few : Evaluate(q, i) = Evaluate(p, i)
    BY <1>5
  <2> DEFINE c == 1
             m == Moved(q, c)
  <2>0. c \in Int
    OBVIOUS
  <2>2. m \in [1 .. k -> Field] /\ m[1] = (q[1] + c * d[1]) % Prime
        /\ \A i \in few : Evaluate(m, i) = Evaluate(q, i)
    <3> HIDE DEF Moved, c
    <3>1. /\ m \in [1 .. k -> Field]
          /\ \A i \in 1 .. k : m[i] = (q[i] + c * d[i]) % Prime
          /\ \A i \in few : Evaluate(m, i) = Evaluate(q, i)
      <4>1. q \in [1 .. k -> Field] /\ c \in Int
        BY <2>0, <2>1
      <4>2. Moved(q, c) \in [1 .. k -> Field]
        BY <1>6, <4>1
      <4>3. \A i \in 1 .. k : Moved(q, c)[i] = (q[i] + c * d[i]) % Prime
        BY DEF Moved
      <4>4. \A i \in few : Evaluate(Moved(q, c), i) = Evaluate(q, i)
        BY <1>6, <4>1
      <4> QED BY <4>2, <4>3, <4>4
    <3> HIDE DEF m
    <3>2. m[1] = (q[1] + c * d[1]) % Prime
      BY <1>0, <3>1
    <3> QED BY <3>1, <3>2
  <2>3. m[1] = b
    <3>1. b \in Int /\ b % Prime = b
      BY <1>0
    <3>2. 0 + c * b = b
      BY <3>1
    <3> HIDE DEF m, c
    <3> QED BY <1>4, <2>1, <2>2, <3>1, <3>2
  <2> HIDE DEF m
  <2>4. m \in F
    BY <1>5, <2>1, <2>2, <2>3
  <2> QED BY <2>4 DEF m
<1>9. ASSUME NEW q \in F PROVE Moved(q, -1) \in Z
  <2>1. q \in [1 .. k -> Field] /\ q[1] = b
        /\ \A i \in few : Evaluate(q, i) = Evaluate(p, i)
    BY <1>5
  <2> DEFINE c == -1
             m == Moved(q, c)
  <2>0. c \in Int
    OBVIOUS
  <2>2. m \in [1 .. k -> Field] /\ m[1] = (q[1] + c * d[1]) % Prime
        /\ \A i \in few : Evaluate(m, i) = Evaluate(q, i)
    <3> HIDE DEF Moved, c
    <3>1. /\ m \in [1 .. k -> Field]
          /\ \A i \in 1 .. k : m[i] = (q[i] + c * d[i]) % Prime
          /\ \A i \in few : Evaluate(m, i) = Evaluate(q, i)
      BY <1>6, <2>0, <2>1
    <3> HIDE DEF m
    <3>2. m[1] = (q[1] + c * d[1]) % Prime
      BY <1>0, <3>1
    <3> QED BY <3>1, <3>2
  <2>3. m[1] = 0
    <3>1. b \in Int /\ 0 % Prime = 0
      BY <1>0
    <3>2. b + c * b = 0
      BY <3>1
    <3> HIDE DEF m, c
    <3> QED BY <1>4, <2>1, <2>2, <3>1, <3>2
  <2>4. 0 \in Bytes
    BY PrimeNat DEF Bytes, Base
  <2> HIDE DEF m
  <2>5. m \in Z
    BY <1>5, <2>1, <2>2, <2>3, <2>4
  <2> QED BY <2>5 DEF m
<1> DEFINE G == [q \in Z |-> Moved(q, 1)]
<1>10. Z \subseteq [1 .. k -> Field] /\ F \subseteq [1 .. k -> Field]
  BY <1>5
<1>11. IsFiniteSet(Z)
  <2>1. IsFiniteSet(1 .. k) /\ IsFiniteSet(Field)
    BY PrimeNat, FS_Interval DEF Field
  <2>2. IsFiniteSet([1 .. k -> Field])
    BY <2>1, FunctionsFinite
  <2> QED BY <1>10, <2>2, FS_Subset
<1>12. \A q \in [1 .. k -> Field] :
          Moved(Moved(q, 1), -1) = q /\ Moved(Moved(q, -1), 1) = q
  <2> TAKE q \in [1 .. k -> Field]
  <2> DEFINE o == 1
             c == -1
  <2>1. o \in Int /\ c \in Int /\ o + c = 0 /\ c + o = 0
    OBVIOUS
  <2>2. Moved(Moved(q, o), c) = q /\ Moved(Moved(q, c), o) = q
    <3> HIDE DEF Moved, o, c
    <3> QED BY <1>7, <2>1
  <2> QED BY <2>2
<1> HIDE DEF Moved
<1>13. G \in [Z -> F]
  BY <1>8
<1>14. \A q, r \in Z : G[q] = G[r] => q = r
  <2> TAKE q, r \in Z
  <2>1. G[q] = Moved(q, 1) /\ G[r] = Moved(r, 1)
    OBVIOUS
  <2> HIDE DEF G
  <2>2. q \in [1 .. k -> Field] /\ r \in [1 .. k -> Field]
    BY <1>10
  <2> QED BY <1>12, <2>1, <2>2
<1>15. \A r \in F : \E q \in Z : G[q] = r
  <2> TAKE r \in F
  <2>1. Moved(r, -1) \in Z
    BY <1>9
  <2>2. G[Moved(r, -1)] = Moved(Moved(r, -1), 1)
    BY <2>1
  <2>3. Moved(Moved(r, -1), 1) = r
    BY <1>10, <1>12
  <2> HIDE DEF G
  <2> QED BY <2>1, <2>2, <2>3
<1> HIDE DEF G
<1> QED BY SMTT(30), <1>11, <1>13, <1>14, <1>15, SameSize

(* The indexes that are known are elements of the field other than zero,   *)
(* fewer than k.                                                           *)
LEMMA HidingHolds == ShamirInv => Hiding
<1> SUFFICES ASSUME ShamirInv, phase = "split",
                    NEW few \in SUBSET (1 .. config.n), Cardinality(few) < config.k,
                    NEW b \in Bytes
             PROVE  Cardinality({p \in Polys(config.k) :
                                    /\ p[1] = b
                                    /\ \A i \in few : Evaluate(p, i) = Evaluate(poly, i)})
                  = Cardinality({p \in Polys(config.k) :
                                    /\ p[1] = 0
                                    /\ \A i \in few : Evaluate(p, i) = Evaluate(poly, i)})
  BY DEF Hiding
<1> DEFINE k == config.k
           Z == {p \in Polys(k) : /\ p[1] = 0
                                  /\ \A i \in few : Evaluate(p, i) = Evaluate(poly, i)}
           F == {p \in Polys(k) : /\ p[1] = b
                                  /\ \A i \in few : Evaluate(p, i) = Evaluate(poly, i)}
<1>1. config \in Configs /\ poly \in Polys(k)
  BY DEF ShamirInv
<1>2. k \in Nat /\ k > 0 /\ config.n \in Nat /\ config.n < Prime
  BY <1>1, ConfigIs
<1>3. poly \in [1 .. k -> Field]
  BY <1>1, <1>2, PolysAre
<1>4. few \subseteq Field \ {0}
  BY <1>2, PrimeNat DEF Field
<1>5. IsFiniteSet(few)
  <2>1. IsFiniteSet(1 .. config.n)
    BY <1>2, FS_Interval
  <2> QED BY <2>1, FS_Subset
<1>6. Cardinality(F) = Cardinality(Z)
  <2> DEFINE S == Z
             T == F
  <2>1. /\ S = {p \in Polys(k) : /\ p[1] = 0
                                 /\ \A i \in few : Evaluate(p, i) = Evaluate(poly, i)}
        /\ T = {p \in Polys(k) : /\ p[1] = b
                                 /\ \A i \in few : Evaluate(p, i) = Evaluate(poly, i)}
    OBVIOUS
  <2> HIDE DEF S, T, k, Z, F
  <2>2. Cardinality(few) < k
    BY DEF k
  <2>3. Cardinality(T) = Cardinality(S)
    BY <1>2, <1>3, <1>4, <1>5, <2>1, <2>2, SameFits
  <2> QED BY <2>3 DEF S, T
<1> QED BY <1>6

(* For every prime, configuration and secret: the shares handed out        *)
(* rebuild the secret from the threshold on, whichever they are and in     *)
(* whatever order, and fewer are refused (shamir.py:87-140).               *)
THEOREM SecretsAreRebuilt == ShamirSpec => []Rebuilds
BY Inductive, RebuildsHolds, PTL

(* For every prime and whatever is presented: what combine_shares accepts  *)
(* is the byte at zero of a polynomial of the right degree through as many *)
(* different shares of this vault as the threshold asks for                *)
(* (shamir.py:106-140).                                                    *)
THEOREM NothingIsInvented == ShamirSpec => []NothingInvented
BY Inductive, NothingInventedHolds, PTL

(* For every prime and any shares below the threshold: as many polynomials *)
(* agree with them for one secret as for any other, and split_secret draws *)
(* each with the same probability, so they say nothing of the secret       *)
(* (shamir.py:68-71).                                                      *)
THEOREM FewSharesSayNothing == ShamirSpec => []Hiding
BY Inductive, HidingHolds, PTL
=============================================================================
