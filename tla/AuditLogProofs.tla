--------------------------- MODULE AuditLogProofs ---------------------------
(***************************************************************************)
(* Proofs about AuditLog for every set of tasks, events and hashes and any *)
(* length of the file.                                                     *)
(***************************************************************************)
EXTENDS AuditLog, SequenceTheorems, WellFoundedInduction, TLAPS

(* An append under way has built its entry.                                *)
CallsAgree ==
    \A t \in Tasks :
        pc[t] # "idle" => body[t] \in made /\ event[t] \in Events

TInv == TypeOK /\ CallsAgree

(* The lines of a log come from appends, unless they are broken; and its   *)
(* entries stand behind what their makers had verified.                    *)
Kept(ls) == ls \in Seq(made \cup {Broken})
Consistent(ls) == \A i \in 1 .. Len(ls) : basis[ls[i].hash] = SubSeq(ls, 1, i-1)

(* An entry follows the log that its maker had verified.                   *)
Follows(e) ==
    /\ Kept(basis[e.hash])
    /\ Verifies(basis[e.hash])
    /\ Consistent(basis[e.hash])
    /\ e.sequence = Len(basis[e.hash]) + 1
    /\ e.previous = IF basis[e.hash] = <<>> THEN Genesis
                    ELSE basis[e.hash][Len(basis[e.hash])].hash

(* No two entries have the same hash, every entry follows its basis, and   *)
(* the file holds nothing but entries and broken lines.                    *)
HInv == /\ \A e, f \in made : e.hash = f.hash => e = f
        /\ \A e \in made : Follows(e)
        /\ Kept(lines)

(* While nobody has touched the file since an append verified it, its      *)
(* entry follows the lines that are there, and it knows how they end.      *)
FreshInv ==
    \A t \in Tasks : fresh[t] /\ pc[t] # "idle" =>
        /\ Verifies(lines)
        /\ basis[body[t].hash] = lines
        /\ pc[t] = "write" => separator[t] = ~ended

AInv == TInv /\ HInv /\ FreshInv

(* What is put behind a sequence leaves its elements where they were.      *)
LEMMA ConcatKeeps ==
    ASSUME NEW S, NEW a \in Seq(S), NEW b \in Seq(S)
    PROVE  /\ a \o b \in Seq(S)
           /\ Len(a \o b) = Len(a) + Len(b)
           /\ \A i \in 1 .. Len(a) : (a \o b)[i] = a[i]
           /\ Len(a) \in Nat /\ Len(b) \in Nat
OBVIOUS

(* Text that is added leaves the lines before it as they were, but for an  *)
(* unfinished one, and adds only itself and broken lines.                  *)
LEMMA WrittenSeq ==
    ASSUME NEW S, Broken \in S, lines \in Seq(S), lines = <<>> => ended,
           NEW t \in Tasks, NEW ls \in Seq(S), ls # <<>>
    PROVE  /\ Written(t, ls) \in Seq(S) /\ Written(t, ls) # <<>>
           /\ Len(Written(t, ls)) >= Len(lines)
           /\ \A i \in 1 .. Len(lines) :
                 Written(t, ls)[i] \in {lines[i], Broken}
<1>1. CASE Glued(t)
  <2> DEFINE spoilt == [lines EXCEPT ![Len(lines)] = Broken]
             rest == Tail(ls)
  <2>1. lines # <<>> /\ Len(lines) \in 1 .. Len(lines)
    BY <1>1 DEF Glued
  <2>2. /\ spoilt \in Seq(S) /\ Len(spoilt) = Len(lines)
        /\ \A i \in 1 .. Len(lines) : spoilt[i] = IF i = Len(lines) THEN Broken ELSE lines[i]
    BY <2>1, ExceptSeq
  <2>3. rest \in Seq(S)
    BY HeadTailProperties
  <2>4. Written(t, ls) = spoilt \o rest
    BY <1>1 DEF Written
  <2> HIDE DEF spoilt, rest
  <2>5. /\ spoilt \o rest \in Seq(S) /\ Len(spoilt \o rest) = Len(spoilt) + Len(rest)
        /\ \A i \in 1 .. Len(spoilt) : (spoilt \o rest)[i] = spoilt[i]
        /\ Len(rest) \in Nat /\ Len(spoilt) \in Nat
    BY <2>2, <2>3, ConcatKeeps
  <2> QED BY <2>1, <2>2, <2>4, <2>5
<1>2. CASE ~Glued(t)
  <2> DEFINE base == Separated(t)
  <2>1. /\ base \in Seq(S) /\ Len(base) >= Len(lines)
        /\ \A i \in 1 .. Len(lines) : base[i] = lines[i]
    BY DEF Separated
  <2>2. Written(t, ls) = base \o ls
    BY <1>2 DEF Written
  <2> HIDE DEF base
  <2>3. /\ base \o ls \in Seq(S) /\ Len(base \o ls) = Len(base) + Len(ls)
        /\ \A i \in 1 .. Len(base) : (base \o ls)[i] = base[i]
        /\ Len(ls) \in Nat \ {0} /\ Len(base) \in Nat /\ Len(lines) \in Nat
    BY <2>1, ConcatKeeps, EmptySeq, LenProperties
  <2> QED BY <2>1, <2>2, <2>3
<1> QED BY <1>1, <1>2

(* Whatever set the lines, the entries and Broken are from, the lines that *)
(* an append or an edit leaves are from it too.                            *)
LEMMA FileStep ==
    ASSUME TInv, NEW S, Broken \in S, made \subseteq S, lines \in Seq(S),
           Tamper \/ \E t \in Tasks : AppendWrite(t) \/ AppendTorn(t)
    PROVE  /\ lines' \in Seq(S)
           /\ lines' = <<>> => ended'
           /\ ended' \in BOOLEAN
<1>1. ASSUME NEW t \in Tasks, pc[t] = "write"
      PROVE  /\ Pieces(t) \in Seq(S) /\ Pieces(t) # <<>>
             /\ <<Broken>> \in Seq(S) /\ <<Broken>> # <<>>
  BY <1>1 DEF Pieces, TInv, CallsAgree
<1>2. lines = <<>> => ended
  BY DEF TInv, TypeOK
<1>3. ASSUME NEW t \in Tasks, AppendWrite(t)
      PROVE  lines' \in Seq(S) /\ ended' = TRUE
  BY <1>1, <1>2, <1>3, WrittenSeq DEF AppendWrite
<1>4. ASSUME NEW t \in Tasks, AppendTorn(t)
      PROVE  lines' \in Seq(S) /\ (lines' = <<>> => ended') /\ ended' \in BOOLEAN
  <2>1. CASE UNCHANGED file
    BY <1>2, <2>1 DEF file, TInv, TypeOK
  <2>2. CASE lines' = Separated(t) /\ ended' = TRUE
    BY <2>2 DEF Separated
  <2>3. CASE \E ls \in {<<Broken>>, Pieces(t)} :
                lines' = Written(t, ls) /\ ended' = FALSE
    <3>1. PICK ls \in {<<Broken>>, Pieces(t)} : lines' = Written(t, ls) /\ ended' = FALSE
      BY <2>3
    <3>2. ls \in Seq(S) /\ ls # <<>>
      BY <1>1, <1>4, <3>1 DEF AppendTorn
    <3> QED BY <1>2, <3>1, <3>2, WrittenSeq
  <2> QED BY <1>4, <2>1, <2>2, <2>3 DEF AppendTorn
<1>5. CASE Tamper
  <2>1. ended' = TRUE
    BY <1>5 DEF Tamper
  <2>2. \A m, n \in Nat : m >= 1 /\ n <= Len(lines) => SubSeq(lines, m, n) \in Seq(S)
    <3> SUFFICES ASSUME NEW m \in Nat, NEW n \in Nat, m >= 1, n <= Len(lines)
                 PROVE  SubSeq(lines, m, n) \in Seq(S)
      OBVIOUS
    <3>1. \A i \in m .. n : lines[i] \in S
      BY LenProperties
    <3> QED BY <3>1, SubSeqProperties
  <2>3. ASSUME NEW i \in 1 .. Len(lines) PROVE Without(i) \in Seq(S)
    <3>1. SubSeq(lines, 1, i-1) \in Seq(S) /\ SubSeq(lines, i+1, Len(lines)) \in Seq(S)
      BY <2>2, LenProperties
    <3> QED BY <3>1, ConcatProperties DEF Without
  <2>4. ASSUME NEW i \in 1 .. Len(lines) PROVE [lines EXCEPT ![i] = Broken] \in Seq(S)
    BY ExceptSeq
  <2>5. ASSUME NEW i \in 1 .. Len(lines) + 1, NEW e \in made PROVE With(i, e) \in Seq(S)
    <3>1. SubSeq(lines, 1, i-1) \in Seq(S) /\ SubSeq(lines, i, Len(lines)) \in Seq(S)
      BY <2>2, LenProperties
    <3>2. <<e>> \in Seq(S)
      OBVIOUS
    <3>3. SubSeq(lines, 1, i-1) \o <<e>> \in Seq(S)
      BY <3>1, <3>2, ConcatProperties
    <3> QED BY <3>1, <3>3, ConcatProperties DEF With
  <2> QED BY <1>5, <2>1, <2>3, <2>4, <2>5 DEF Tamper
<1> QED BY <1>3, <1>4, <1>5

(* The lines of a log that verifies stand behind what their makers had     *)
(* verified: the sequence number fixes how many lines that were, the hash  *)
(* of the line before fixes the last of them, and that line its own basis. *)
LEMMA ChainHistory ==
    ASSUME HInv, NEW ls, Kept(ls), Verifies(ls)
    PROVE  Consistent(ls)
<1> DEFINE S == made \cup {Broken}
           T == {i \in 1 .. Len(ls) : basis[ls[i].hash] # SubSeq(ls, 1, i-1)}
<1>0. ls \in Seq(S) /\ Len(ls) \in Nat
  BY LenProperties DEF Kept
<1> SUFFICES ASSUME T # {} PROVE FALSE
  BY DEF Consistent
<1>1. PICK i \in T : \A j \in T : ~(j < i)
  <2>1. T \subseteq Nat
    BY <1>0
  <2> HIDE DEF T
  <2>2. \E i \in T : \A j \in T : ~(<<j, i>> \in OpToRel(<, Nat))
    BY <2>1, WFMin, NatLessThanWellFounded
  <2> QED BY <2>1, <2>2 DEF OpToRel
<1>2. i \in 1 .. Len(ls) /\ basis[ls[i].hash] # SubSeq(ls, 1, i-1)
  OBVIOUS
<1> DEFINE b == basis[ls[i].hash]
<1>3. ls[i] \in made /\ ls[i].sequence = i
  <2>1. ls[i] \in S
    BY <1>0, <1>2, ElementOfSeq
  <2> QED BY <1>2, <2>1 DEF Verifies
<1>4. /\ b \in Seq(S) /\ Verifies(b) /\ Consistent(b) /\ Len(b) \in Nat
      /\ ls[i].sequence = Len(b) + 1
      /\ ls[i].previous = IF b = <<>> THEN Genesis ELSE b[Len(b)].hash
  BY <1>3, LenProperties DEF HInv, Follows, Kept
<1> HIDE DEF b, T
<1>5. Len(b) = i - 1
  <2>1. Len(b) + 1 = i /\ Len(b) \in Nat /\ i \in Int
    BY <1>2, <1>3, <1>4
  <2> QED BY <2>1
<1>6. \A j \in 1 .. i-1 : b[j] = ls[j]
  <2>1. CASE i = 1
    BY <2>1
  <2>2. CASE i > 1
    <3>0. b # <<>> /\ i-1 \in 1 .. Len(b) /\ i-1 \in 1 .. Len(ls)
      BY <1>0, <1>2, <1>5, <2>2
    <3>1. ls[i].previous = ls[i-1].hash /\ ls[i].previous = b[i-1].hash
      BY <1>2, <1>4, <1>5, <2>2, <3>0 DEF Verifies
    <3>2. ls[i-1] \in made /\ b[i-1] \in made
      BY <1>0, <1>4, <3>0, ElementOfSeq DEF Verifies
    <3>3. b[i-1] = ls[i-1]
      BY <3>1, <3>2 DEF HInv
    <3>4. basis[ls[i-1].hash] = SubSeq(ls, 1, i-1-1)
      BY <1>1, <1>2, <3>0 DEF T
    <3>5. basis[b[i-1].hash] = SubSeq(b, 1, i-1-1)
      BY <1>4, <3>0 DEF Consistent
    <3>6. SubSeq(ls, 1, i-1-1) = SubSeq(b, 1, i-1-1)
      BY <3>3, <3>4, <3>5
    <3>7. ASSUME NEW j \in 1 .. i-1-1 PROVE b[j] = ls[j]
      <4>1. /\ \A k \in 1 .. i-1-1 : ls[k] \in S /\ b[k] \in S
            /\ 1 \in Int /\ i-1-1 \in Int /\ j \in 1 .. (i-1-1) - 1 + 1 /\ 1 + j - 1 = j
        BY <1>0, <1>2, <1>4, <1>5, ElementOfSeq
      <4>2. SubSeq(ls, 1, i-1-1)[j] = ls[j] /\ SubSeq(b, 1, i-1-1)[j] = b[j]
        BY <4>1, SubSeqProperties
      <4> QED BY <3>6, <4>2
    <3> QED BY <1>2, <3>3, <3>7
  <2> QED BY <1>2, <2>1, <2>2
<1>7. /\ SubSeq(ls, 1, i-1) \in Seq(S) /\ Len(SubSeq(ls, 1, i-1)) = i-1
      /\ \A j \in 1 .. i-1 : SubSeq(ls, 1, i-1)[j] = ls[j]
  <2>1. /\ \A k \in 1 .. i-1 : ls[k] \in S
        /\ 1 \in Int /\ i-1 \in Int
        /\ \A j \in 1 .. i-1 : j \in 1 .. (i-1) - 1 + 1 /\ 1 + j - 1 = j
    BY <1>0, <1>2, ElementOfSeq
  <2> QED BY <1>2, <2>1, SubSeqProperties
<1>8. b = SubSeq(ls, 1, i-1)
  BY <1>4, <1>5, <1>6, <1>7, SeqEqual
<1> QED BY <1>2, <1>8 DEF b

(* The variables of the appends in progress.                               *)
CallType ==
    /\ pc \in [Tasks -> {"idle", "look", "write"}]
    /\ body \in [Tasks -> Entry \cup {None}]
    /\ event \in [Tasks -> Events \cup {None}]
    /\ separator \in [Tasks -> BOOLEAN]
    /\ last \in [Tasks -> {"none", "appended", "AuditIntegrityError", "OSError",
                          "valid", "invalid"}]
    /\ fresh \in [Tasks -> BOOLEAN]

(* After a step, the types of its parts make the invariant.                *)
LEMMA TypeJoin ==
    /\ CallType' /\ CallsAgree'
    /\ lines' \in Seq(Line) /\ ended' \in BOOLEAN /\ (lines' = <<>> => ended')
    /\ basis' \in [Hashes -> Seq(Line)] /\ made' \in SUBSET Entry
    => TInv'
BY DEF TInv, TypeOK, CallType

(* An append or a verification that ends leaves its outcome only.          *)
LEMMA ReturnType ==
    ASSUME TInv, NEW t \in Tasks, made' = made, fresh' \in {fresh, Stale},
           NEW o \in {"none", "appended", "AuditIntegrityError", "OSError",
                      "valid", "invalid"}, Return(t, o)
    PROVE  CallType' /\ CallsAgree'
<1>1. CallType'
  BY DEF TInv, TypeOK, CallType, Return, Stale
<1>2. CallsAgree'
  BY DEF TInv, TypeOK, CallsAgree, Return
<1> QED BY <1>1, <1>2

(* The entry that an append builds.                                        *)
LEMMA ReadEntry ==
    ASSUME TInv, Kept(lines), NEW t \in Tasks, NEW ev \in Events, AppendRead(t, ev)
    PROVE  \E e \in Entry :
              /\ \A f \in made : f.hash # e.hash
              /\ e.sequence = Len(lines) + 1
              /\ e.previous = IF lines = <<>> THEN Genesis ELSE lines[Len(lines)].hash
              /\ body' = [body EXCEPT ![t] = e]
              /\ basis' = [basis EXCEPT ![e.hash] = lines]
              /\ made' = made \cup {e}
<1>1. PICK h \in Hashes \ {e.hash : e \in made} :
         LET e == [sequence |-> Len(lines) + 1,
                   previous |-> IF lines = <<>> THEN Genesis
                                ELSE lines[Len(lines)].hash,
                   hash     |-> h]
         IN  /\ body' = [body EXCEPT ![t] = e]
             /\ basis' = [basis EXCEPT ![h] = lines]
             /\ made' = made \cup {e}
  BY DEF AppendRead
<1> DEFINE p == IF lines = <<>> THEN Genesis ELSE lines[Len(lines)].hash
           e == [sequence |-> Len(lines) + 1, previous |-> p, hash |-> h]
<1>2. p \in Hashes \cup {Genesis}
  <2>1. CASE lines # <<>>
    <3>1. Len(lines) \in 1 .. Len(lines) /\ lines[Len(lines)] \in made \cup {Broken}
      BY <2>1, EmptySeq, ElementOfSeq DEF Kept
    <3>2. lines[Len(lines)] # Broken
      BY <3>1 DEF AppendRead, Verifies
    <3> QED BY <2>1, <3>1, <3>2 DEF TInv, TypeOK, Entry
  <2> QED BY <2>1
<1>3. Len(lines) + 1 \in Nat
  BY LenProperties DEF Kept
<1>4. e \in Entry /\ e.sequence = Len(lines) + 1 /\ e.previous = p /\ e.hash = h
  BY <1>1, <1>2, <1>3 DEF Entry
<1>5. \A f \in made : f.hash # e.hash
  BY <1>1
<1>6. /\ body' = [body EXCEPT ![t] = e]
      /\ basis' = [basis EXCEPT ![e.hash] = lines]
      /\ made' = made \cup {e}
  BY <1>1
<1> HIDE DEF e
<1> QED BY <1>4, <1>5, <1>6

(* Every step keeps the types.                                             *)
LEMMA StepType ==
    ASSUME TInv, Kept(lines), [Next]_vars
    PROVE  TInv'
<1> USE DEF TInv
<1>1. ASSUME NEW t \in Tasks, Verify(t) \/ AppendRefused(t) \/ Restart(t) PROVE TInv'
  <2>1. CallType' /\ CallsAgree'
    BY <1>1, ReturnType DEF Verify, AppendRefused, Restart
  <2> QED BY <1>1, <2>1, TypeJoin DEF Verify, AppendRefused, Restart, file, TypeOK
<1>2. ASSUME NEW t \in Tasks, NEW ev \in Events, AppendRead(t, ev) PROVE TInv'
  <2>1. PICK e \in Entry :
           /\ body' = [body EXCEPT ![t] = e]
           /\ basis' = [basis EXCEPT ![e.hash] = lines]
           /\ made' = made \cup {e}
    BY <1>2, ReadEntry
  <2>2. CallType'
    BY <1>2, <2>1 DEF AppendRead, CallType, TypeOK
  <2>3. CallsAgree'
    BY <1>2, <2>1 DEF AppendRead, CallsAgree, TypeOK
  <2>4. basis' \in [Hashes -> Seq(Line)]
    BY <2>1 DEF TypeOK
  <2> QED BY <1>2, <2>1, <2>2, <2>3, <2>4, TypeJoin DEF AppendRead, file, TypeOK
<1>3. ASSUME NEW t \in Tasks, AppendLook(t) PROVE TInv'
  <2>1. CallType' /\ CallsAgree'
    BY <1>3 DEF AppendLook, CallType, CallsAgree, TypeOK
  <2> QED BY <1>3, <2>1, TypeJoin DEF AppendLook, file, TypeOK
<1>4. Broken \in Line /\ made \subseteq Line /\ lines \in Seq(Line)
  BY DEF Line, TypeOK
<1>5. ASSUME NEW t \in Tasks, AppendWrite(t) \/ AppendTorn(t) PROVE TInv'
  <2>1. lines' \in Seq(Line) /\ (lines' = <<>> => ended') /\ ended' \in BOOLEAN
    BY <1>4, <1>5, FileStep
  <2>2. CallType' /\ CallsAgree'
    BY <1>5, ReturnType DEF AppendWrite, AppendTorn
  <2> QED BY <1>5, <2>1, <2>2, TypeJoin DEF AppendWrite, AppendTorn, TypeOK
<1>6. CASE Tamper
  <2>1. lines' \in Seq(Line) /\ (lines' = <<>> => ended') /\ ended' \in BOOLEAN
    BY <1>4, <1>6, FileStep
  <2>2. CallType' /\ CallsAgree'
    BY <1>6 DEF Tamper, Stale, CallType, CallsAgree, TypeOK
  <2> QED BY <1>6, <2>1, <2>2, TypeJoin DEF Tamper, TypeOK
<1>7. CASE UNCHANGED vars
  <2>1. CallType' /\ CallsAgree'
    BY <1>7 DEF vars, CallType, CallsAgree, TypeOK
  <2> QED BY <1>7, <2>1, TypeJoin DEF vars, TypeOK
<1> QED BY <1>1, <1>2, <1>3, <1>5, <1>6, <1>7 DEF Next, Step

(* An entry that is added leaves what is known of the others.              *)
LEMMA ReadHistory ==
    ASSUME TInv, HInv, NEW e \in Entry,
           \A f \in made : f.hash # e.hash,
           Verifies(lines), lines' = lines,
           e.sequence = Len(lines) + 1,
           e.previous = IF lines = <<>> THEN Genesis ELSE lines[Len(lines)].hash,
           basis' = [basis EXCEPT ![e.hash] = lines],
           made' = made \cup {e}
    PROVE  HInv'
<1>1. \A f \in made : f.hash \in Hashes /\ basis'[f.hash] = basis[f.hash]
  BY DEF TInv, TypeOK, Entry
<1>2. basis'[e.hash] = lines
  BY DEF TInv, TypeOK, Entry
<1>3. ASSUME NEW ls, Kept(ls) PROVE ls \in Seq(made' \cup {Broken})
  <2>1. made \cup {Broken} \subseteq made' \cup {Broken}
    OBVIOUS
  <2> QED BY <1>3, <2>1, SeqMonotonic DEF Kept
<1>4. ASSUME NEW ls, Kept(ls), Verifies(ls), Consistent(ls)
      PROVE  \A i \in 1 .. Len(ls) : basis'[ls[i].hash] = SubSeq(ls, 1, i-1)
  <2> SUFFICES ASSUME NEW i \in 1 .. Len(ls)
               PROVE  basis'[ls[i].hash] = SubSeq(ls, 1, i-1)
    OBVIOUS
  <2>1. ls[i] \in made \cup {Broken}
    BY <1>4, ElementOfSeq DEF Kept
  <2>2. ls[i] \in made
    BY <1>4, <2>1 DEF Verifies
  <2> QED BY <1>1, <1>4, <2>2 DEF Consistent
<1>5. ASSUME NEW f \in made PROVE Follows(f)'
  <2>1. Follows(f) /\ basis'[f.hash] = basis[f.hash]
    BY <1>1 DEF HInv
  <2>2. Kept(basis[f.hash]) /\ Verifies(basis[f.hash]) /\ Consistent(basis[f.hash])
    BY <2>1 DEF Follows
  <2>3. /\ basis[f.hash] \in Seq(made' \cup {Broken})
        /\ \A i \in 1 .. Len(basis[f.hash]) :
              basis'[basis[f.hash][i].hash] = SubSeq(basis[f.hash], 1, i-1)
    BY <1>3, <1>4, <2>2
  <2>4. Kept(basis[f.hash])'
    BY <2>1, <2>3 DEF Kept
  <2>5. Verifies(basis[f.hash])'
    BY <2>1, <2>2 DEF Verifies
  <2>6. Consistent(basis[f.hash])'
    BY <2>1, <2>3 DEF Consistent
  <2> QED BY <2>1, <2>4, <2>5, <2>6 DEF Follows
<1>6. Follows(e)'
  <2>1. Kept(lines) /\ Consistent(lines)
    BY ChainHistory DEF HInv
  <2>2. /\ lines \in Seq(made' \cup {Broken})
        /\ \A i \in 1 .. Len(lines) : basis'[lines[i].hash] = SubSeq(lines, 1, i-1)
    BY <1>3, <1>4, <2>1
  <2> QED BY <1>2, <2>2 DEF Follows, Kept, Consistent, Verifies
<1>7. Kept(lines)'
  BY <1>3 DEF HInv, Kept
<1>8. \A f, g \in made' : f.hash = g.hash => f = g
  BY DEF HInv
<1> QED BY <1>5, <1>6, <1>7, <1>8 DEF HInv

(* Every step keeps the history.                                           *)
LEMMA StepHistory ==
    ASSUME TInv, HInv, [Next]_vars
    PROVE  HInv'
<1>1. ASSUME NEW t \in Tasks, NEW ev \in Events, AppendRead(t, ev) PROVE HInv'
  <2>1. Kept(lines)
    BY DEF HInv
  <2>2. Verifies(lines) /\ lines' = lines
    BY <1>1 DEF AppendRead, file
  <2> QED BY <1>1, <2>1, <2>2, ReadEntry, ReadHistory
<1>2. ASSUME UNCHANGED <<basis, made>>, lines' \in Seq(made \cup {Broken}) PROVE HInv'
  BY <1>2 DEF HInv, Follows, Kept, Consistent, Verifies
<1>3. CASE Tamper \/ \E t \in Tasks : AppendWrite(t) \/ AppendTorn(t)
  <2>1. lines' \in Seq(made \cup {Broken})
    BY <1>3, FileStep DEF HInv, Kept
  <2>2. UNCHANGED <<basis, made>>
    BY <1>3 DEF Tamper, AppendWrite, AppendTorn
  <2> QED BY <1>2, <2>1, <2>2
<1>4. CASE UNCHANGED <<basis, made, lines>>
  BY <1>2, <1>4 DEF HInv, Kept
<1>5. ASSUME NEW t \in Tasks,
             Verify(t) \/ AppendRefused(t) \/ AppendLook(t) \/ Restart(t)
      PROVE  HInv'
  BY <1>4, <1>5 DEF Verify, AppendRefused, AppendLook, Restart, file
<1> QED BY <1>1, <1>3, <1>4, <1>5 DEF Next, Step, vars

(* And what an undisturbed append knows of the file.                       *)
LEMMA StepFresh ==
    ASSUME AInv, [Next]_vars
    PROVE  FreshInv'
<1> USE DEF AInv, TInv
<1>1. ASSUME NEW t \in Tasks, NEW ev \in Events, AppendRead(t, ev) PROVE FreshInv'
  <2>1. PICK e \in Entry :
           /\ \A f \in made : f.hash # e.hash
           /\ body' = [body EXCEPT ![t] = e]
           /\ basis' = [basis EXCEPT ![e.hash] = lines]
    BY <1>1, ReadEntry DEF HInv
  <2>2. /\ body'[t] = e /\ basis'[e.hash] = lines /\ pc'[t] = "look"
        /\ UNCHANGED file /\ Verifies(lines)
    BY <1>1, <2>1 DEF AppendRead, TypeOK, Entry
  <2>3. ASSUME NEW s \in Tasks \ {t}, pc[s] # "idle"
        PROVE  body'[s] = body[s] /\ basis'[body[s].hash] = basis[body[s].hash]
    BY <2>1, <2>3 DEF CallsAgree, TypeOK, Entry
  <2>4. \A s \in Tasks \ {t} : /\ pc'[s] = pc[s] /\ fresh'[s] = fresh[s]
                               /\ separator'[s] = separator[s]
    BY <1>1 DEF AppendRead, TypeOK
  <2> SUFFICES ASSUME NEW s \in Tasks, fresh'[s], pc'[s] # "idle"
               PROVE  /\ Verifies(lines') /\ basis'[body'[s].hash] = lines'
                      /\ pc'[s] = "write" => separator'[s] = ~ended'
    BY DEF FreshInv, Verifies
  <2>5. CASE s = t
    BY <2>2, <2>5 DEF file
  <2>6. CASE s # t
    BY <2>2, <2>3, <2>4, <2>6 DEF FreshInv, file
  <2> QED BY <2>5, <2>6
<1>2. CASE fresh' = Stale
  BY <1>2 DEF FreshInv, Stale
<1>3. ASSUME UNCHANGED <<file, basis, fresh>>,
             \A s \in Tasks : pc'[s] # "idle" =>
                /\ pc[s] # "idle" /\ body'[s] = body[s]
                /\ pc'[s] = "write" =>
                      \/ separator'[s] = ~ended
                      \/ pc[s] = "write" /\ separator'[s] = separator[s]
      PROVE  FreshInv'
  BY <1>3 DEF FreshInv, file, Verifies
<1>4. ASSUME NEW t \in Tasks, NEW o, Return(t, o), UNCHANGED <<file, basis, fresh>>
      PROVE  FreshInv'
  BY <1>3, <1>4 DEF Return, TypeOK
<1>5. ASSUME NEW t \in Tasks, AppendLook(t) PROVE FreshInv'
  BY <1>3, <1>5 DEF AppendLook, TypeOK
<1>6. CASE UNCHANGED vars
  BY <1>3, <1>6 DEF vars, file
<1> QED BY <1>1, <1>2, <1>4, <1>5, <1>6
        DEF Next, Step, Verify, AppendRefused, AppendWrite, AppendTorn, Restart, Tamper

(* The three together hold always.                                         *)
LEMMA Inductive == Spec => []AInv
<1>1. Init => TInv
  <2>1. <<>> \in Seq(Line)
    BY EmptySeq
  <2> QED BY <2>1 DEF Init, TInv, TypeOK, CallsAgree
<1>2. Init => HInv /\ FreshInv
  <2>1. <<>> \in Seq({} \cup {Broken})
    BY EmptySeq
  <2> QED BY <2>1 DEF Init, HInv, Kept, FreshInv
<1>3. ASSUME AInv, [Next]_vars PROVE AInv'
  <2>1. Kept(lines)
    BY <1>3 DEF AInv, HInv
  <2>2. TInv' /\ HInv' /\ FreshInv'
    BY <1>3, <2>1, StepType, StepHistory, StepFresh DEF AInv
  <2> QED BY <2>2 DEF AInv
<1>4. Init => AInv
  BY <1>1, <1>2 DEF AInv
<1> QED BY <1>3, <1>4, PTL DEF Spec

(* The variables have their types: an empty file counts as ended           *)
(* (audit.py:94-102).                                                      *)
THEOREM TypeCorrect == Spec => []TypeOK
<1>1. AInv => TypeOK
  BY DEF AInv, TInv
<1> QED BY <1>1, Inductive, PTL

(* A log that verifies is one that appends have made, line by line in this *)
(* order, whatever raced, was torn or was edited (audit.py:105-155).       *)
THEOREM HistoriesAgree == Spec => []SameHistory
<1>1. ASSUME AInv, Verifies(lines)
      PROVE  \A i \in 1 .. Len(lines) : basis[lines[i].hash] = SubSeq(lines, 1, i-1)
  <2>1. Consistent(lines)
    BY <1>1, ChainHistory DEF AInv, HInv
  <2> QED BY <2>1 DEF Consistent
<1>2. AInv => SameHistory
  BY <1>1 DEF SameHistory
<1> QED BY <1>2, Inductive, PTL

(* Damage before the end of the file is not repaired by what is written    *)
(* behind it.                                                              *)
LEMMA DamageRemains ==
    ASSUME NEW ls, NEW ms, lines \in Seq(ls), Len(ms) \in Nat,
           Len(ms) >= Len(lines),
           \A i \in 1 .. Len(lines) : ms[i] \in {lines[i], Broken},
           Verifies(ms)
    PROVE  Verifies(lines)
<1>1. Len(lines) \in Nat /\ \A i \in 1 .. Len(lines) : i \in 1 .. Len(ms)
  BY LenProperties
<1>2. \A i \in 1 .. Len(lines) : ms[i] # Broken /\ ms[i] = lines[i]
  BY <1>1 DEF Verifies
<1>3. ASSUME NEW i \in 1 .. Len(lines)
      PROVE  lines[i].previous = IF i = 1 THEN Genesis ELSE lines[i-1].hash
  <2>1. CASE i = 1
    BY <1>1, <1>2, <2>1 DEF Verifies
  <2>2. CASE i # 1
    <3>1. i-1 \in 1 .. Len(lines)
      BY <1>1, <2>2
    <3> QED BY <1>1, <1>2, <2>2, <3>1 DEF Verifies
  <2> QED BY <2>1, <2>2
<1> QED BY <1>1, <1>2, <1>3 DEF Verifies

(* Appends never make a damaged chain valid again, and only an append that *)
(* had verified it before the damage still adds to it (audit.py:67-102).   *)
THEOREM DamageIsKept == Spec => DamagedStays
<1>1. ASSUME AInv, [Next]_vars, ~Verifies(lines), lines' # lines, ~Tamper
      PROVE  /\ ~Verifies(lines')
             /\ \E t \in Tasks : pc[t] = "write" /\ Verifies(basis[body[t].hash])
  <2>1. PICK t \in Tasks : AppendWrite(t) \/ AppendTorn(t)
    BY <1>1 DEF Next, Step, vars, file, Verify, AppendRefused, AppendRead,
                AppendLook, Restart
  <2>2. pc[t] = "write" /\ body[t] \in made
    BY <1>1, <2>1 DEF AppendWrite, AppendTorn, AInv, TInv, CallsAgree
  <2>3. Verifies(basis[body[t].hash])
    BY <1>1, <2>2 DEF AInv, HInv, Follows
  <2>4. Broken \in Line /\ lines \in Seq(Line) /\ (lines = <<>> => ended)
    BY <1>1 DEF AInv, TInv, TypeOK, Line
  <2>5. PICK ls : /\ ls \in {<<Broken>>, Pieces(t)}
                  /\ lines' = Written(t, ls) \/ lines' = Separated(t)
    BY <1>1, <2>1 DEF AppendWrite, AppendTorn, file
  <2>6. ls \in Seq(Line) /\ ls # <<>>
    <3>1. body[t] \in Line
      BY <1>1, <2>2 DEF AInv, TInv, TypeOK, Line
    <3>2. /\ <<Broken>> \in Seq(Line) /\ <<Broken, Broken>> \in Seq(Line)
          /\ <<body[t]>> \in Seq(Line)
      BY <2>4, <3>1
    <3>3. Pieces(t) \in Seq(Line) /\ Pieces(t) # <<>> /\ <<Broken>> # <<>>
      BY <3>2 DEF Pieces
    <3> QED BY <2>5, <3>2, <3>3
  <2>7. /\ Len(lines') \in Nat /\ Len(lines') >= Len(lines)
        /\ \A i \in 1 .. Len(lines) : lines'[i] \in {lines[i], Broken}
    <3>1. CASE lines' = Written(t, ls)
      <4>1. /\ Written(t, ls) \in Seq(Line) /\ Len(Written(t, ls)) >= Len(lines)
            /\ \A i \in 1 .. Len(lines) : Written(t, ls)[i] \in {lines[i], Broken}
        BY <2>4, <2>6, WrittenSeq
      <4> QED BY <3>1, <4>1, LenProperties
    <3>2. CASE lines' = Separated(t)
      BY <2>4, <3>2 DEF Separated
    <3> QED BY <2>5, <3>1, <3>2
  <2> QED BY <1>1, <2>2, <2>3, <2>4, <2>7, DamageRemains
<1> QED BY <1>1, Inductive, PTL DEF Spec, DamagedStays

(* An append that runs undisturbed makes the log one valid entry longer,   *)
(* whatever the last write left at the end of the file (audit.py:94-102).  *)
THEOREM AppendsAreValid == Spec => AppendKeepsValid
<1>1. ASSUME AInv, [Next]_vars, NEW t \in Tasks, last[t] = "none",
             last'[t] = "appended", event[t] = "plain", fresh[t]
      PROVE  Verifies(lines') /\ Len(lines') = Len(lines) + 1
  <2>1. AppendWrite(t)
    <3>1. ASSUME NEW s \in Tasks, NEW o, Return(s, o), o # "appended" PROVE FALSE
      BY <1>1, <3>1 DEF AInv, TInv, TypeOK, Return
    <3>2. ASSUME NEW s \in Tasks, AppendWrite(s) PROVE s = t
      BY <1>1, <3>2 DEF AInv, TInv, TypeOK, AppendWrite, Return
    <3>3. ASSUME NEW s \in Tasks, NEW ev, AppendRead(s, ev) PROVE FALSE
      BY <1>1, <3>3 DEF AInv, TInv, TypeOK, AppendRead
    <3>4. ~(\E s \in Tasks : Verify(s) \/ AppendRefused(s) \/ AppendTorn(s) \/ Restart(s))
      BY <3>1 DEF Verify, AppendRefused, AppendTorn, Restart
    <3>5. ~(Tamper \/ UNCHANGED vars \/ \E s \in Tasks : AppendLook(s))
      BY <1>1 DEF Tamper, vars, AppendLook
    <3> QED BY <1>1, <3>2, <3>3, <3>4, <3>5 DEF Next, Step
  <2>2. pc[t] = "write" /\ body[t] \in made /\ lines' = Written(t, <<body[t]>>)
    BY <1>1, <2>1 DEF AppendWrite, Pieces, AInv, TInv, CallsAgree
  <2>3. /\ Verifies(lines) /\ basis[body[t].hash] = lines /\ separator[t] = ~ended
    BY <1>1, <2>2 DEF AInv, FreshInv
  <2>4. lines' = lines \o <<body[t]>>
    <3>1. ~Glued(t) /\ Separated(t) = lines
      BY <2>3 DEF Glued, Separated
    <3> QED BY <2>2, <3>1 DEF Written
  <2>5. lines \in Seq(Line) /\ body[t] \in Line /\ body[t] # Broken
    BY <1>1, <2>2, BrokenAssumption DEF AInv, TInv, TypeOK, Line
  <2>6. /\ body[t].sequence = Len(lines) + 1
        /\ body[t].previous = IF lines = <<>> THEN Genesis ELSE lines[Len(lines)].hash
    BY <1>1, <2>2, <2>3 DEF AInv, HInv, Follows
  <2>7. /\ Len(lines') = Len(lines) + 1 /\ Len(lines) \in Nat
        /\ \A i \in 1 .. Len(lines) : lines'[i] = lines[i]
        /\ lines'[Len(lines) + 1] = body[t]
    BY <2>4, <2>5
  <2>8. lines = <<>> <=> Len(lines) = 0
    BY <2>5
  <2>9. ASSUME NEW i \in 1 .. Len(lines')
        PROVE  /\ lines'[i] # Broken /\ lines'[i].sequence = i
               /\ lines'[i].previous = IF i = 1 THEN Genesis ELSE lines'[i-1].hash
    <3>1. CASE i = Len(lines) + 1
      BY <2>5, <2>6, <2>7, <2>8, <3>1
    <3>2. CASE i # Len(lines) + 1
      <4>1. i \in 1 .. Len(lines) /\ (i # 1 => i-1 \in 1 .. Len(lines))
        BY <2>7, <3>2
      <4> QED BY <2>3, <2>7, <4>1 DEF Verifies
    <3> QED BY <3>1, <3>2
  <2> QED BY <2>7, <2>9 DEF Verifies
<1>2. ASSUME AInv, [Next]_vars
      PROVE  \A t \in Tasks :
                /\ last[t] = "none" /\ last'[t] = "appended"
                /\ event[t] = "plain" /\ fresh[t]
                => Verifies(lines') /\ Len(lines') = Len(lines) + 1
  BY <1>1, <1>2
<1> QED BY <1>2, Inductive, PTL DEF Spec, AppendKeepsValid
=============================================================================
