---------------------------- MODULE ServiceProofs ----------------------------
(***************************************************************************)
(* Proofs about Service for every set of processes, users and resources.   *)
(***************************************************************************)
EXTENDS Service, SequenceTheorems, TLAPS

(* Between the elements of H in a sequence and its start there is one of G *)
(* each: who is to pass a gate of H has passed one of G.                   *)
Precedes(s, G, H) ==
    \A j \in 1 .. Len(s) : s[j] \in H => \E i \in 1 .. j-1 : s[i] \in G

Openers == {"unlocked", "dek"}
Deeds == {"entitled", "owner", "read", "replace", "list", "acl", "work"}
Asking == {"session", "ensure", "prompt"}

(* The gates that lie on the way of a call.                                *)
Gates(p, c) ==
    {"unlocked", "dek", "session"}
    \cup (IF front[p] = "menu" THEN {"ensure"} ELSE {})
    \cup (IF front[p] = "cli" THEN {"prompt"} ELSE {})
    \cup CASE c.op = "use"  -> {"entitled", "work"}
           [] c.op = "list" -> {"list"}
           [] c.op = "acl"  -> {"owner", "acl"}
           [] OTHER         -> {"owner", "read", "replace"}

HasDek(p) == sealed # None /\ held[p] = sealed.dek

(* A gate still to be passed stands before those that rely on it; one that *)
(* was passed has left its trace.                                          *)
InOrder(p) ==
    /\ ahead[p] \in Seq(Gates(p, call[p]))
    /\ "unlocked" \in saw[p] \/ Precedes(ahead[p], Openers, Deeds \cup Asking)
    /\ "session" \in saw[p] \/ Precedes(ahead[p], {"session"}, Deeds)
    /\ HasDek(p) \/ Precedes(ahead[p], {"dek"}, {"work"})
    /\ Precedes(ahead[p], {"read"}, {"replace"}) \/ pdoc[p] \in SUBSET Shares
    /\ front[p] \in Menus => call[p].by = token[p]

(* What holds however requests interleave: saw is up to date, too.         *)
OInv ==
    /\ TypeOK
    /\ \A p \in Procs : open[p] # None => sealed # None /\ open[p] = sealed.dek
    /\ \A p \in Procs : ~Idle(p) => call[p] \in Call /\ InOrder(p)
    /\ \A p \in Procs : Truth(p) \subseteq saw[p]

(* Who has read the policy document replaces it next.                      *)
ReadsAndReplaces(s) == \A j \in 2 .. Len(s) : s[j] = "replace" => s[j-1] = "read"

(* No two changes of the shares overlap: at most one process has read the  *)
(* policy document and is about to replace it.                             *)
NoOverlap == \A p, q \in Procs : At(p, "replace") /\ At(q, "replace") => p = q

(* What the change that p asks for makes of the policy document.           *)
Made(p) == IF call[p].op = "grant" THEN policies \cup Changed(p)
           ELSE policies \ Changed(p)

(* As long as changes do not overlap, the policy document holds the shares *)
(* that were granted, a change replaces it by what the change makes of it, *)
(* and who gets to his work or to an access list was seen to have a right  *)
(* to it.                                                                  *)
SInv ==
    /\ policies = granted
    /\ \A p \in Procs : ~Idle(p) =>
          /\ ReadsAndReplaces(ahead[p])
          /\ Precedes(ahead[p], {"read"}, {"replace"}) \/ pdoc[p] = Made(p)
          /\ \/ call[p].about \subseteq saw[p]
             \/ Precedes(ahead[p], {"entitled", "owner"}, {"work", "acl"})
    /\ RefusedInOrder
    /\ RevokedIsDenied

(* One process serves all owners.                                          *)
OwnersTogether ==
    \A p, q \in Procs : \A r, s \in Resources :
        Owner[r] \in Callers[p] /\ Owner[s] \in Callers[q] => p = q

(* Then only its requests pass the gate of the owner.                      *)
Own(p) == \E r \in call[p].about : Owner[r] = call[p].by

MInv ==
    /\ \A p \in Procs : token[p] \in Callers[p] \cup {None}
    /\ \A p \in Procs : ~Idle(p) =>
          /\ call[p].by \in Callers[p] \cup {None}
          /\ front[p] = "cli" => call[p].op = "use"
          /\ Own(p) \/ Precedes(ahead[p], {"owner"}, {"replace"})

(* A gate that is passed and is not one of G leaves the order of the rest. *)
LEMMA TailPrecedes ==
    ASSUME NEW S, NEW s \in Seq(S), s # <<>>, NEW G, NEW H, Precedes(s, G, H),
           Head(s) \notin G
    PROVE  Precedes(Tail(s), G, H)
<1>1. /\ Len(s) \in Nat /\ Len(Tail(s)) = Len(s) - 1 /\ s[1] \notin G
      /\ \A j \in 1 .. Len(Tail(s)) : Tail(s)[j] = s[j+1]
  OBVIOUS
<1> SUFFICES ASSUME NEW j \in 1 .. Len(Tail(s)), Tail(s)[j] \in H
             PROVE  \E i \in 1 .. j-1 : Tail(s)[i] \in G
  BY DEF Precedes
<1>2. j+1 \in 1 .. Len(s) /\ s[j+1] \in H
  BY <1>1
<1>3. PICK i \in 1 .. j : s[i] \in G
  BY <1>1, <1>2 DEF Precedes
<1>4. i # 1 /\ i-1 \in 1 .. j-1 /\ i-1 \in 1 .. Len(Tail(s)) /\ (i-1) + 1 = i
  BY <1>1, <1>3
<1>5. Tail(s)[i-1] \in G
  BY <1>1, <1>3, <1>4
<1> QED BY <1>4, <1>5

(* The first gate needs none before it.                                    *)
LEMMA HeadPrecedes ==
    ASSUME NEW S, NEW s \in Seq(S), s # <<>>, NEW G, NEW H, Precedes(s, G, H)
    PROVE  Head(s) \notin H
<1>1. 1 \in 1 .. Len(s) /\ Head(s) = s[1]
  OBVIOUS
<1> QED BY <1>1 DEF Precedes

(* The elements of two sequences put together.                             *)
LEMMA ConcatElements ==
    ASSUME NEW S, NEW a \in Seq(S), NEW b \in Seq(S)
    PROVE  /\ Len(a) \in Nat /\ Len(b) \in Nat /\ Len(a \o b) = Len(a) + Len(b)
           /\ \A i \in 1 .. Len(a) : (a \o b)[i] = a[i]
           /\ \A i \in 1 .. Len(b) : (a \o b)[Len(a) + i] = b[i]
OBVIOUS

(* Ways are put together from ways.                                        *)
LEMMA ConcatPrecedes ==
    ASSUME NEW S, NEW a \in Seq(S), NEW b \in Seq(S), NEW G, NEW H,
           Precedes(a, G, H),
           Precedes(b, G, H) \/ \E i \in 1 .. Len(a) : a[i] \in G
    PROVE  Precedes(a \o b, G, H)
<1>1. /\ Len(a) \in Nat /\ Len(b) \in Nat /\ Len(a \o b) = Len(a) + Len(b)
      /\ \A i \in 1 .. Len(a) : (a \o b)[i] = a[i]
      /\ \A i \in 1 .. Len(b) : (a \o b)[Len(a) + i] = b[i]
  BY ConcatElements
<1> SUFFICES ASSUME NEW j \in 1 .. Len(a \o b), (a \o b)[j] \in H
             PROVE  \E i \in 1 .. j-1 : (a \o b)[i] \in G
  BY DEF Precedes
<1>2. CASE j \in 1 .. Len(a)
  <2>1. PICK i \in 1 .. j-1 : a[i] \in G
    BY <1>1, <1>2 DEF Precedes
  <2> QED BY <1>1, <1>2, <2>1
<1>3. CASE j \notin 1 .. Len(a)
  <2>1. j - Len(a) \in 1 .. Len(b) /\ Len(a) + (j - Len(a)) = j
    BY <1>1, <1>3
  <2>2. CASE \E i \in 1 .. Len(a) : a[i] \in G
    BY <1>1, <1>3, <2>2
  <2>3. CASE Precedes(b, G, H)
    <3>1. b[j - Len(a)] \in H
      BY <1>1, <2>1
    <3>2. PICK i \in 1 .. (j - Len(a)) - 1 : b[i] \in G
      BY <2>1, <2>3, <3>1 DEF Precedes
    <3>3. /\ i \in 1 .. Len(b) /\ Len(a) + i \in 1 .. j-1
          /\ (a \o b)[Len(a) + i] \in G
      BY <1>1, <2>1, <3>2
    <3> QED BY <3>3
  <2> QED BY <2>2, <2>3
<1> QED BY <1>2, <1>3

(* Passing a gate leaves a change of the document as it is.                *)
LEMMA TailReads ==
    ASSUME NEW S, NEW s \in Seq(S), s # <<>>, ReadsAndReplaces(s)
    PROVE  ReadsAndReplaces(Tail(s))
<1>1. /\ Len(s) \in Nat /\ Len(Tail(s)) = Len(s) - 1
      /\ \A j \in 1 .. Len(Tail(s)) : Tail(s)[j] = s[j+1]
  OBVIOUS
<1> SUFFICES ASSUME NEW j \in 2 .. Len(Tail(s)), Tail(s)[j] = "replace"
             PROVE  Tail(s)[j-1] = "read"
  BY DEF ReadsAndReplaces
<1>2. j+1 \in 2 .. Len(s) /\ s[j+1] = "replace"
  BY <1>1
<1>3. s[(j+1)-1] = "read"
  BY <1>2 DEF ReadsAndReplaces
<1> QED BY <1>1, <1>3

(* So do gates that stand before it.                                       *)
LEMMA ConcatReads ==
    ASSUME NEW S, NEW a \in Seq(S), NEW b \in Seq(S),
           Precedes(a, {}, {"replace"}), ReadsAndReplaces(b),
           Precedes(b, {"read"}, {"replace"})
    PROVE  ReadsAndReplaces(a \o b)
<1>1. /\ Len(a) \in Nat /\ Len(b) \in Nat /\ Len(a \o b) = Len(a) + Len(b)
      /\ \A i \in 1 .. Len(a) : (a \o b)[i] = a[i]
      /\ \A i \in 1 .. Len(b) : (a \o b)[Len(a) + i] = b[i]
  BY ConcatElements
<1> SUFFICES ASSUME NEW j \in 2 .. Len(a \o b), (a \o b)[j] = "replace"
             PROVE  (a \o b)[j-1] = "read"
  BY DEF ReadsAndReplaces
<1>2. j \notin 1 .. Len(a)
  BY <1>1 DEF Precedes
<1> DEFINE k == j - Len(a)
<1>3. k \in 1 .. Len(b) /\ Len(a) + k = j /\ Len(a) + (k-1) = j-1
  BY <1>1, <1>2
<1> HIDE DEF k
<1>4. b[k] = "replace"
  BY <1>1, <1>3
<1>5. k # 1
  <2>1. CASE k = 1
    BY <1>3, <1>4, <2>1 DEF Precedes
  <2> QED BY <2>1
<1>6. k \in 2 .. Len(b) /\ k-1 \in 1 .. Len(b)
  BY <1>1, <1>3, <1>5
<1>7. b[k-1] = "read"
  BY <1>4, <1>6 DEF ReadsAndReplaces
<1> QED BY <1>1, <1>3, <1>6, <1>7

(* Short ways.                                                             *)
LEMMA ShortWays ==
    ASSUME NEW G, NEW H
    PROVE  /\ Precedes(<<>>, G, H)
           /\ \A a : a \notin H => Precedes(<<a>>, G, H)
           /\ \A a, b : a \notin H /\ (b \in H => a \in G) => Precedes(<<a, b>>, G, H)
           /\ \A a, b, c : /\ a \notin H /\ (b \in H => a \in G)
                          /\ (c \in H => a \in G \/ b \in G)
                          => Precedes(<<a, b, c>>, G, H)
<1>1. Precedes(<<>>, G, H)
  BY DEF Precedes
<1>2. ASSUME NEW a, a \notin H PROVE Precedes(<<a>>, G, H)
  BY <1>2 DEF Precedes
<1>3. ASSUME NEW a, NEW b, a \notin H, b \in H => a \in G PROVE Precedes(<<a, b>>, G, H)
  <2> DEFINE s == <<a, b>>
  <2>1. Len(s) = 2 /\ s[1] = a /\ s[2] = b
    OBVIOUS
  <2> HIDE DEF s
  <2>2. \A j \in 1 .. Len(s) : j = 1 \/ j = 2
    BY <2>1
  <2>3. 1 \in 1 .. 2-1
    OBVIOUS
  <2>4. Precedes(s, G, H)
    BY <1>3, <2>1, <2>2, <2>3 DEF Precedes
  <2> QED BY <2>4 DEF s
<1>4. ASSUME NEW a, NEW b, NEW c, a \notin H, b \in H => a \in G,
             c \in H => a \in G \/ b \in G
      PROVE  Precedes(<<a, b, c>>, G, H)
  <2> DEFINE s == <<a, b, c>>
  <2>1. Len(s) = 3 /\ s[1] = a /\ s[2] = b /\ s[3] = c
    OBVIOUS
  <2> HIDE DEF s
  <2>2. \A j \in 1 .. Len(s) : j = 1 \/ j = 2 \/ j = 3
    BY <2>1
  <2>3. 1 \in 1 .. 2-1 /\ 1 \in 1 .. 3-1 /\ 2 \in 1 .. 3-1
    OBVIOUS
  <2>4. Precedes(s, G, H)
    BY <1>4, <2>1, <2>2, <2>3 DEF Precedes
  <2> QED BY <2>4 DEF s
<1> QED BY <1>1, <1>2, <1>3, <1>4

(* Short sequences.                                                        *)
LEMMA ShortSeqs ==
    ASSUME NEW S
    PROVE  /\ <<>> \in Seq(S) /\ \A a \in S : <<a>> \in Seq(S)
           /\ \A a, b \in S : <<a, b>> \in Seq(S)
           /\ \A a, b, c \in S : <<a, b, c>> \in Seq(S)
OBVIOUS

(* The gates of the front and of the operation.                            *)
LEMMA GateNames ==
    ASSUME NEW p \in Procs, NEW c
    PROVE  /\ {"unlocked", "dek", "session"} \subseteq Gates(p, c)
           /\ front[p] = "menu" => "ensure" \in Gates(p, c)
           /\ front[p] = "cli" => "prompt" \in Gates(p, c)
           /\ c.op = "use" => {"entitled", "work"} \subseteq Gates(p, c)
           /\ c.op = "list" => "list" \in Gates(p, c)
           /\ c.op = "acl" => {"owner", "acl"} \subseteq Gates(p, c)
           /\ c.op \notin {"use", "list", "acl"} =>
                 {"owner", "read", "replace"} \subseteq Gates(p, c)
BY DEF Gates

(* What a process asks first brings nothing that a deed relies on, and     *)
(* asks about the vault first.                                             *)
LEMMA BeforeInOrder ==
    ASSUME NEW p \in Procs, NEW c
    PROVE  /\ Before(p) \in Seq(Gates(p, c))
           /\ Precedes(Before(p), Openers, Deeds \cup Asking)
           /\ \A G, H : H \subseteq Deeds => Precedes(Before(p), G, H)
<1>1. ASSUME NEW s, s \in {<<"unlocked", "ensure">>, <<"unlocked", "prompt">>,
                          <<"unlocked">>, <<>>}
      PROVE  /\ Precedes(s, Openers, Deeds \cup Asking)
             /\ \A G, H : H \subseteq Deeds => Precedes(s, G, H)
  <2>1. /\ "unlocked" \notin Deeds \cup Asking /\ "unlocked" \in Openers
        /\ "ensure" \notin Deeds /\ "prompt" \notin Deeds
    BY DEF Deeds, Asking, Openers
  <2>2. Precedes(s, Openers, Deeds \cup Asking)
    BY <1>1, <2>1, ShortWays
  <2>3. ASSUME NEW G, NEW H, H \subseteq Deeds PROVE Precedes(s, G, H)
    <3>1. "unlocked" \notin H /\ "ensure" \notin H /\ "prompt" \notin H
      BY <2>1, <2>3
    <3> QED BY <1>1, <3>1, ShortWays
  <2> QED BY <2>2, <2>3
<1>2. Before(p) \in {<<"unlocked", "ensure">>, <<"unlocked", "prompt">>,
                    <<"unlocked">>, <<>>}
  BY DEF Before
<1>3. Before(p) \in Seq(Gates(p, c))
  <2> DEFINE S == Gates(p, c)
  <2>1. /\ "unlocked" \in S
        /\ front[p] = "menu" => "ensure" \in S
        /\ front[p] = "cli" => "prompt" \in S
    BY GateNames
  <2> HIDE DEF S
  <2>2. Before(p) \in Seq(S)
    BY <2>1, ShortSeqs DEF Before
  <2> QED BY <2>2 DEF S
<1> QED BY <1>1, <1>2, <1>3

(* The ways of Way keep the order of the gates.                            *)
LEMMA WayInOrder ==
    ASSUME NEW p \in Procs, NEW c \in Call
    PROVE  /\ Way(p, c) \in Seq(Gates(p, c))
           /\ Precedes(Way(p, c), Openers, Deeds \cup Asking)
           /\ Precedes(Way(p, c), {"session"}, Deeds)
           /\ Precedes(Way(p, c), {"dek"}, {"work"})
           /\ Precedes(Way(p, c), {"read"}, {"replace"})
           /\ Precedes(Way(p, c), {"entitled", "owner"}, {"work", "acl"})
           /\ Precedes(Way(p, c), {"owner"}, {"replace"})
           /\ ReadsAndReplaces(Way(p, c))
<1> DEFINE kv == c.about \subseteq Secrets
           S == Gates(p, c)
           first == Before(p)
           pair == IF kv THEN KVDoor ELSE TransitDoor
           rest == IF c.op # "use" THEN Sharing(c.op)
                   ELSE IF kv THEN <<"entitled", "work">>
                   ELSE <<"entitled", "dek", "work">>
<1>1. Way(p, c) = (first \o pair) \o rest
  BY DEF Way
<1> USE DEF KVDoor, TransitDoor, Sharing
<1>s. /\ {"work"} \subseteq Deeds /\ {"work", "acl"} \subseteq Deeds
      /\ {"replace"} \subseteq Deeds
  BY DEF Deeds
<1>2. /\ first \in Seq(S) /\ Precedes(first, Openers, Deeds \cup Asking)
      /\ \A G, H : H \subseteq Deeds => Precedes(first, G, H)
  BY BeforeInOrder
<1>3. /\ pair \in Seq(S)
      /\ Len(pair) = 2 /\ pair[1] \in Openers /\ pair[2] = "session"
      /\ kv => pair[1] = "dek"
  <2>1. pair \in Seq(S)
    <3>1. "dek" \in S /\ "unlocked" \in S /\ "session" \in S
      BY GateNames
    <3> HIDE DEF S
    <3> QED BY <3>1, ShortSeqs
  <2> QED BY <2>1 DEF Openers
<1>4. Precedes(pair, Openers, Deeds \cup Asking)
  <2>1. \A a \in Openers : a \notin Deeds \cup Asking
    BY DEF Openers, Deeds, Asking
  <2> QED BY <2>1, ShortWays DEF Openers
<1>5. ASSUME NEW G, NEW H, H \subseteq Deeds PROVE Precedes(pair, G, H)
  <2>1. "dek" \notin H /\ "unlocked" \notin H /\ "session" \notin H
    BY <1>5 DEF Deeds
  <2> QED BY <2>1, ShortWays
<1>6. rest \in Seq(S)
  <2>1. /\ c.op = "use" => "entitled" \in S /\ "dek" \in S /\ "work" \in S
        /\ c.op = "list" => "list" \in S
        /\ c.op = "acl" => "owner" \in S /\ "acl" \in S
        /\ c.op \notin {"use", "list", "acl"} =>
              "owner" \in S /\ "read" \in S /\ "replace" \in S
    BY GateNames
  <2> HIDE DEF S
  <2> QED BY <2>1, ShortSeqs
<1>7. /\ ~kv => Precedes(rest, {"dek"}, {"work"})
      /\ Precedes(rest, {"read"}, {"replace"})
      /\ Precedes(rest, {"entitled", "owner"}, {"work", "acl"})
      /\ Precedes(rest, {"owner"}, {"replace"})
  BY ShortWays
<1>r. ReadsAndReplaces(rest)
  BY DEF ReadsAndReplaces
<1> HIDE DEF S, first, pair, rest
<1>8. /\ first \o pair \in Seq(S)
      /\ Precedes(first \o pair, Openers, Deeds \cup Asking)
      /\ \A G, H : H \subseteq Deeds => Precedes(first \o pair, G, H)
  <2>1. first \o pair \in Seq(S)
    BY <1>2, <1>3, ConcatProperties
  <2>2. Precedes(first \o pair, Openers, Deeds \cup Asking)
    BY <1>2, <1>3, <1>4, ConcatPrecedes
  <2>3. ASSUME NEW G, NEW H, H \subseteq Deeds PROVE Precedes(first \o pair, G, H)
    <3>1. Precedes(first, G, H) /\ Precedes(pair, G, H)
      BY <1>2, <1>5, <2>3
    <3> QED BY <1>2, <1>3, <3>1, ConcatPrecedes
  <2> QED BY <2>1, <2>2, <2>3
<1>9. LET w == first \o pair
      IN  /\ \E i \in 1 .. Len(w) : w[i] \in Openers
          /\ \E i \in 1 .. Len(w) : w[i] \in {"session"}
          /\ kv => \E i \in 1 .. Len(w) : w[i] \in {"dek"}
  <2> DEFINE w == first \o pair
  <2>1. /\ Len(first) \in Nat /\ Len(w) = Len(first) + 2
        /\ w[Len(first) + 1] = pair[1] /\ w[Len(first) + 2] = pair[2]
    <3>1. first \in Seq(S) /\ pair \in Seq(S)
      BY <1>2, <1>3
    <3>2. /\ Len(first) \in Nat /\ Len(w) = Len(first) + Len(pair)
          /\ \A i \in 1 .. Len(pair) : w[Len(first) + i] = pair[i]
      BY <3>1, ConcatElements
    <3> HIDE DEF w
    <3>3. Len(pair) = 2
      BY <1>3
    <3>4. 1 \in 1 .. Len(pair) /\ 2 \in 1 .. Len(pair)
      BY <3>3
    <3> QED BY <3>2, <3>3, <3>4
  <2> HIDE DEF w
  <2>2. Len(first) + 1 \in 1 .. Len(w) /\ Len(first) + 2 \in 1 .. Len(w)
    BY <2>1
  <2>3. /\ \E i \in 1 .. Len(w) : w[i] \in Openers
        /\ \E i \in 1 .. Len(w) : w[i] \in {"session"}
        /\ kv => \E i \in 1 .. Len(w) : w[i] \in {"dek"}
    BY <1>3, <2>1, <2>2
  <2> QED BY <2>3 DEF w
<1> DEFINE w == first \o pair
<1> HIDE DEF w
<1>10. w \o rest \in Seq(S)
  BY <1>6, <1>8, ConcatProperties DEF w
<1>11. Precedes(w \o rest, Openers, Deeds \cup Asking)
  BY <1>6, <1>8, <1>9, ConcatPrecedes DEF w
<1>12. Precedes(w \o rest, {"session"}, Deeds)
  BY <1>6, <1>8, <1>9, ConcatPrecedes DEF w
<1>13. Precedes(w \o rest, {"dek"}, {"work"})
  BY <1>s, <1>6, <1>7, <1>8, <1>9, ConcatPrecedes DEF w
<1>14. /\ Precedes(w \o rest, {"read"}, {"replace"})
       /\ Precedes(w \o rest, {"owner"}, {"replace"})
  BY <1>s, <1>6, <1>7, <1>8, ConcatPrecedes DEF w
<1>15. Precedes(w \o rest, {"entitled", "owner"}, {"work", "acl"})
  BY <1>s, <1>6, <1>7, <1>8, ConcatPrecedes DEF w
<1>16. ReadsAndReplaces(w \o rest)
  BY <1>s, <1>r, <1>6, <1>7, <1>8, ConcatReads DEF w
<1> QED BY <1>1, <1>10, <1>11, <1>12, <1>13, <1>14, <1>15, <1>16 DEF w, S

(* The fields that a call has, by its operation.                           *)
LEMMA CallFields ==
    ASSUME NEW c \in Call
    PROVE  /\ c.op \in {"use", "acl", "grant", "withdraw", "list"}
           /\ c.by \in Users \cup {None}
           /\ c.about \subseteq Resources
           /\ c.op # "list" => \E r \in Resources : c.about = {r}
           /\ c.op \in {"grant", "withdraw"} => c.to \in Users
BY DEF Call, Resources

(* The types of what holds the requests in progress.                       *)
RequestType ==
    /\ ahead \in [Procs -> Seq(Steps)]
    /\ call \in [Procs -> Call \cup {None}]
    /\ held \in [Procs -> {e.dek : e \in Envelopes} \cup {None}]
    /\ pdoc \in [Procs -> (SUBSET Shares) \cup {None}]
    /\ reply \in Answer \cup {None}

VaultType ==
    /\ sealed \in Envelopes \cup {None}
    /\ open \in [Procs -> {e.dek : e \in Envelopes} \cup {None}]
    /\ \A p \in Procs : open[p] # None => sealed # None /\ open[p] = sealed.dek

OtherType ==
    /\ sessions \in [Procs -> SUBSET Users]
    /\ token \in [Procs -> Users \cup {None}]
    /\ policies \subseteq Shares
    /\ granted \subseteq Shares

Requests == \A p \in Procs : ~Idle(p) => call[p] \in Call /\ InOrder(p)

(* What is observed is what is true of a request, and while it runs        *)
(* nothing is forgotten.                                                   *)
LEMMA Observed ==
    ASSUME OInv, Observe, RequestType', Requests'
    PROVE  /\ saw' \in [Procs -> SUBSET (Facts \cup Resources)]
           /\ \A p \in Procs : Truth(p)' \subseteq saw'[p]
           /\ \A p \in Procs : ~Idle(p) => saw[p] \subseteq saw'[p]
<1>1. ASSUME NEW p \in Procs PROVE Truth(p)' \subseteq Facts \cup Resources
  <2>1. CASE Idle(p)'
    BY <2>1 DEF Truth
  <2>2. CASE ~Idle(p)'
    <3>1. call'[p].about \subseteq Resources
      BY <2>2, CallFields DEF Requests
    <3>2. Due(p)' \subseteq call'[p].about
      BY DEF Due
    <3> QED BY <3>1, <3>2 DEF Truth, Facts
  <2> QED BY <2>1, <2>2
<1>2. \A p \in Procs : saw[p] \subseteq Facts \cup Resources
  BY DEF OInv, TypeOK
<1> QED BY <1>1, <1>2 DEF Observe

(* The parts make the whole: at its work a request has the DEK, since it   *)
(* took it on its way.                                                     *)
LEMMA Assemble ==
    ASSUME OInv, Observe, front' = front, VaultType', OtherType', RequestType', Requests'
    PROVE  OInv'
<1>1. ASSUME NEW p \in Procs, At(p, "work")' PROVE held'[p] = sealed'.dek
  <2>1. ahead'[p] # <<>> /\ Head(ahead'[p]) = "work" /\ ahead'[p] \in Seq(Steps)
    BY <1>1 DEF At, Idle, RequestType
  <2>2. ~Precedes(ahead'[p], {"dek"}, {"work"})
    BY <2>1, HeadPrecedes
  <2>3. InOrder(p)'
    BY <1>1 DEF At, Requests
  <2> QED BY <2>2, <2>3 DEF InOrder, HasDek
<1>2. front' \in [Procs -> Kinds]
  BY DEF OInv, TypeOK
<1>3. TypeOK'
  BY <1>1, <1>2, Observed DEF TypeOK, VaultType, OtherType, RequestType
<1> QED BY <1>3, Observed DEF OInv, VaultType, Requests

(* A request that makes no step stays in order.                            *)
LEMMA OrderKept ==
    ASSUME OInv, NEW p \in Procs, ~Idle(p), saw[p] \subseteq saw'[p], front' = front,
           ahead'[p] = ahead[p], call'[p] = call[p], held'[p] = held[p],
           pdoc'[p] = pdoc[p], front[p] \in Menus => token'[p] = token[p],
           sealed # None => sealed' = sealed
    PROVE  call'[p] \in Call /\ InOrder(p)'
<1>1. call[p] \in Call /\ InOrder(p)
  BY DEF OInv
<1>2. HasDek(p) => HasDek(p)'
  BY DEF HasDek
<1>3. Gates(p, call[p])' = Gates(p, call[p])
  BY DEF Gates
<1> QED BY <1>1, <1>2, <1>3 DEF InOrder

(* One that passes a gate stays so if the gate has left its trace.         *)
LEMMA OrderPassed ==
    ASSUME OInv, NEW p \in Procs, ~Idle(p), saw[p] \subseteq saw'[p], front' = front,
           ahead'[p] = Tail(ahead[p]), call'[p] \in Call,
           call'[p].op = call[p].op, front[p] \in Menus => call'[p].by = token'[p],
           sealed' = sealed,
           Head(ahead[p]) \in Openers => open[p] # None,
           Head(ahead[p]) = "session" => call[p].by \in sessions[p],
           held'[p] = IF Head(ahead[p]) = "dek" THEN open[p] ELSE held[p],
           Head(ahead[p]) = "read" => pdoc'[p] \in SUBSET Shares,
           Head(ahead[p]) # "read" => pdoc'[p] = pdoc[p]
    PROVE  InOrder(p)'
<1> DEFINE s == ahead[p]
           S == Gates(p, call[p])
<1>1. s # <<>> /\ s \in Seq(S) /\ InOrder(p)
  BY DEF OInv, Idle, InOrder
<1>2. Gates(p, call[p])' = S
  BY DEF Gates
<1>3. Tail(s) \in Seq(S)
  BY <1>1, HeadTailProperties
<1>4. \A G, H : Precedes(s, G, H) /\ Head(s) \notin G => Precedes(Tail(s), G, H)
  BY <1>1, TailPrecedes
<1>5. Truth(p) \subseteq saw[p]
  BY DEF OInv
<1>6. "unlocked" \in saw'[p] \/ Precedes(Tail(s), Openers, Deeds \cup Asking)
  <2>1. CASE Head(s) \in Openers
    BY <1>5, <2>1 DEF Truth
  <2>2. CASE Head(s) \notin Openers
    BY <1>1, <1>4, <2>2 DEF InOrder
  <2> QED BY <2>1, <2>2
<1>7. "session" \in saw'[p] \/ Precedes(Tail(s), {"session"}, Deeds)
  <2>1. CASE Head(s) = "session"
    BY <1>5, <2>1 DEF Truth
  <2>2. CASE Head(s) # "session"
    BY <1>1, <1>4, <2>2 DEF InOrder
  <2> QED BY <2>1, <2>2
<1>8. HasDek(p)' \/ Precedes(Tail(s), {"dek"}, {"work"})
  <2>1. CASE Head(s) = "dek"
    BY <2>1 DEF OInv, HasDek, Openers
  <2>2. CASE Head(s) # "dek"
    BY <1>1, <1>4, <2>2 DEF InOrder, HasDek
  <2> QED BY <2>1, <2>2
<1>9. Precedes(Tail(s), {"read"}, {"replace"}) \/ pdoc'[p] \in SUBSET Shares
  <2>1. CASE Head(s) = "read"
    BY <2>1
  <2>2. CASE Head(s) # "read"
    BY <1>1, <1>4, <2>2 DEF InOrder
  <2> QED BY <2>1, <2>2
<1> QED BY <1>2, <1>3, <1>6, <1>7, <1>8, <1>9 DEF InOrder

(* What is seen of a request grows while it runs.                          *)
LEMMA SawGrows ==
    ASSUME Observe, NEW p \in Procs, ~Idle(p)
    PROVE  saw[p] \subseteq saw'[p]
BY DEF Observe

(* A request that is answered is over.                                     *)
LEMMA ReturnOK ==
    ASSUME OInv, Observe, NEW p \in Procs, NEW o, NEW gave \in SUBSET Resources,
           o \in Refusals \cup {"no session", "done"}, Return(p, o, gave),
           UNCHANGED vault, front' = front, OtherType',
           \A q \in Procs \ {p} : token'[q] = token[q]
    PROVE  OInv'
<1>1. /\ ahead' = [ahead EXCEPT ![p] = <<>>] /\ call' = [call EXCEPT ![p] = None]
      /\ held' = [held EXCEPT ![p] = None] /\ pdoc' = [pdoc EXCEPT ![p] = None]
      /\ reply' = [to |-> p, outcome |-> o, gave |-> gave]
  BY DEF Return, End
<1>2. RequestType'
  <2>1. <<>> \in Seq(Steps)
    BY ShortSeqs
  <2>2. reply' \in Answer
    BY <1>1 DEF Answer
  <2>3. ahead' \in [Procs -> Seq(Steps)]
    BY <1>1, <2>1 DEF OInv, TypeOK
  <2> QED BY <1>1, <2>2, <2>3 DEF OInv, TypeOK, RequestType
<1>3. VaultType'
  BY DEF OInv, TypeOK, vault, VaultType
<1>4. ASSUME NEW q \in Procs, ~Idle(q)' PROVE call'[q] \in Call /\ InOrder(q)'
  <2>1. q # p /\ ~Idle(q)
    BY <1>1, <1>4 DEF OInv, TypeOK, Idle
  <2>2. /\ ahead'[q] = ahead[q] /\ call'[q] = call[q] /\ held'[q] = held[q]
        /\ pdoc'[q] = pdoc[q] /\ sealed' = sealed
    BY <1>1, <2>1 DEF OInv, TypeOK, vault
  <2> QED BY <2>1, <2>2, SawGrows, OrderKept
<1> QED BY <1>2, <1>3, <1>4, Assemble DEF Requests

(* A request that passes a gate.                                           *)
LEMMA PassOK ==
    ASSUME OInv, Observe, NEW p \in Procs, ~Idle(p),
           UNCHANGED vault, front' = front, OtherType',
           \A q \in Procs \ {p} : token'[q] = token[q],
           ahead' = [ahead EXCEPT ![p] = Tail(@)], reply' = None,
           NEW c \in Call, call' = [call EXCEPT ![p] = c],
           c.op = call[p].op, front[p] \in Menus => c.by = token'[p],
           Head(ahead[p]) \in Openers => open[p] # None,
           Head(ahead[p]) = "session" => call[p].by \in sessions[p],
           held' = IF Head(ahead[p]) = "dek" THEN [held EXCEPT ![p] = open[p]] ELSE held,
           Head(ahead[p]) = "read" =>
               \E P \in SUBSET Shares : pdoc' = [pdoc EXCEPT ![p] = P],
           Head(ahead[p]) # "read" => pdoc' = pdoc
    PROVE  OInv'
<1>1. RequestType'
  <2>1. ahead[p] \in Seq(Steps) /\ ahead[p] # <<>>
    BY DEF OInv, TypeOK, Idle
  <2>2. Tail(ahead[p]) \in Seq(Steps)
    BY <2>1, HeadTailProperties
  <2>3. ahead' \in [Procs -> Seq(Steps)]
    BY <2>2 DEF OInv, TypeOK
  <2>4. held' \in [Procs -> {e.dek : e \in Envelopes} \cup {None}]
    BY DEF OInv, TypeOK
  <2>5. pdoc' \in [Procs -> (SUBSET Shares) \cup {None}]
    BY DEF OInv, TypeOK
  <2> QED BY <2>3, <2>4, <2>5 DEF OInv, TypeOK, RequestType
<1>2. VaultType'
  BY DEF OInv, TypeOK, vault, VaultType
<1>3. ASSUME NEW q \in Procs, ~Idle(q)' PROVE call'[q] \in Call /\ InOrder(q)'
  <2>1. CASE q = p
    <3>1. /\ ahead'[p] = Tail(ahead[p]) /\ call'[p] = c /\ sealed' = sealed
          /\ held'[p] = IF Head(ahead[p]) = "dek" THEN open[p] ELSE held[p]
      BY DEF OInv, TypeOK, vault
    <3>2. /\ Head(ahead[p]) = "read" => pdoc'[p] \in SUBSET Shares
          /\ Head(ahead[p]) # "read" => pdoc'[p] = pdoc[p]
      BY DEF OInv, TypeOK
    <3> QED BY <2>1, <3>1, <3>2, SawGrows, OrderPassed
  <2>2. CASE q # p
    <3>1. /\ ~Idle(q)
          /\ ahead'[q] = ahead[q] /\ call'[q] = call[q] /\ held'[q] = held[q]
          /\ pdoc'[q] = pdoc[q] /\ sealed' = sealed
      BY <1>3, <2>2 DEF OInv, TypeOK, vault, Idle
    <3> QED BY <2>2, <3>1, SawGrows, OrderKept
  <2> QED BY <2>1, <2>2
<1> QED BY <1>1, <1>2, <1>3, Assemble DEF Requests

(* What happens beside the requests.                                       *)
LEMMA BesideOK ==
    ASSUME OInv, Observe, NoRequest, front' = front, VaultType', OtherType',
           sealed # None => sealed' = sealed,
           \A q \in Procs : ~Idle(q) /\ front[q] \in Menus => token'[q] = token[q]
    PROVE  OInv'
<1>1. RequestType'
  BY DEF OInv, TypeOK, RequestType, NoRequest
<1>2. ASSUME NEW q \in Procs, ~Idle(q)' PROVE call'[q] \in Call /\ InOrder(q)'
  <2>1. ~Idle(q) /\ UNCHANGED <<ahead, call, held, pdoc>>
    BY <1>2 DEF NoRequest, Idle
  <2> QED BY <2>1, SawGrows, OrderKept
<1> QED BY <1>1, <1>2, Assemble DEF Requests

(* A request comes in: it has its whole way before it.                     *)
LEMMA ArriveOK ==
    ASSUME OInv, Observe, NEW p \in Procs, NEW c \in Call, Arrive(p, c)
    PROVE  OInv'
<1>1. /\ ahead' = [ahead EXCEPT ![p] = Way(p, c)] /\ call' = [call EXCEPT ![p] = c]
      /\ reply' = None /\ Asks(p, c)
      /\ UNCHANGED <<sealed, open, front, sessions, token, policies, granted, held, pdoc>>
  BY DEF Arrive, vault, shares
<1>2. /\ Way(p, c) \in Seq(Gates(p, c))
      /\ Precedes(Way(p, c), Openers, Deeds \cup Asking)
      /\ Precedes(Way(p, c), {"session"}, Deeds)
      /\ Precedes(Way(p, c), {"dek"}, {"work"})
      /\ Precedes(Way(p, c), {"read"}, {"replace"})
  BY WayInOrder
<1>3. RequestType'
  <2>1. Gates(p, c) \subseteq Steps
    BY DEF Gates, Steps
  <2>2. Way(p, c) \in Seq(Steps)
    BY <1>2, <2>1, SeqMonotonic
  <2> QED BY <1>1, <2>2 DEF OInv, TypeOK, RequestType
<1>4. VaultType' /\ OtherType'
  BY <1>1 DEF OInv, TypeOK, VaultType, OtherType
<1>5. ASSUME NEW q \in Procs, ~Idle(q)' PROVE call'[q] \in Call /\ InOrder(q)'
  <2>1. CASE q = p
    <3>1. ahead'[p] = Way(p, c) /\ call'[p] = c
      BY <1>1 DEF OInv, TypeOK
    <3>2. front[p] \in Menus => c.by = token'[p]
      BY <1>1 DEF Asks, Menus
    <3>3. Gates(p, c)' = Gates(p, c)
      BY <1>1 DEF Gates
    <3>4. Gates(p, call[p])' = Gates(p, c)
      BY <1>1, <3>1 DEF Gates
    <3> QED BY <1>1, <1>2, <2>1, <3>1, <3>2, <3>4 DEF InOrder
  <2>2. CASE q # p
    <3>1. ~Idle(q) /\ ahead'[q] = ahead[q] /\ call'[q] = call[q]
      BY <1>1, <1>5, <2>2 DEF OInv, TypeOK, Idle
    <3> QED BY <1>1, <3>1, SawGrows, OrderKept
  <2> QED BY <2>1, <2>2
<1> QED BY <1>1, <1>3, <1>4, <1>5, Assemble DEF Requests

(* Every step on a request leads to a gate passed or to an answer.         *)
LEMMA ContinueOK ==
    ASSUME OInv, Observe, NEW p \in Procs, Continue(p)
    PROVE  OInv'
<1>0. ~Idle(p)
  BY DEF Continue, CheckUnlocked, Ensure, Prompt, TakeDek, CheckSession, CheckEntitled,
         Work, List, ReadAcl, CheckOwner, ReadPolicies, ReplacePolicies, At
<1>c. /\ call[p] \in Call /\ call[p].about \in SUBSET Resources
      /\ front[p] \in Menus => call[p].by = token[p]
      /\ ahead[p] \in Seq(Gates(p, call[p])) /\ ahead[p] # <<>>
      /\ call = [call EXCEPT ![p] = call[p]]
  BY <1>0, CallFields DEF OInv, InOrder, Idle, TypeOK
<1>h. Head(ahead[p]) \in Gates(p, call[p])
  BY <1>c, HeadTailProperties
<1>t. OtherType
  BY DEF OInv, TypeOK, OtherType
<1>1. ASSUME NEW o \in Refusals \cup {"no session", "done"},
             NEW gave \in SUBSET Resources, Return(p, o, gave),
             UNCHANGED vault, front' = front, sessions' = sessions,
             \/ token' = token \/ token' = [token EXCEPT ![p] = None],
             policies' \subseteq Shares, granted' \subseteq Shares
      PROVE  OInv'
  <2>1. OtherType' /\ \A q \in Procs \ {p} : token'[q] = token[q]
    BY <1>1 DEF OInv, TypeOK, OtherType
  <2> QED BY <1>0, <1>1, <2>1, ReturnOK
<1>2. ASSUME Pass(p), UNCHANGED <<vault, front, sessions, token, shares>>,
             Head(ahead[p]) # "read",
             Head(ahead[p]) \in Openers => open[p] # None,
             Head(ahead[p]) = "session" => call[p].by \in sessions[p],
             held' = IF Head(ahead[p]) = "dek" THEN [held EXCEPT ![p] = open[p]] ELSE held
      PROVE  OInv'
  <2>1. OtherType'
    BY <1>2, <1>t DEF OtherType, shares
  <2>2. /\ ahead' = [ahead EXCEPT ![p] = Tail(@)] /\ reply' = None
        /\ call' = [call EXCEPT ![p] = call[p]] /\ pdoc' = pdoc /\ token' = token
        /\ UNCHANGED vault /\ front' = front
    BY <1>2, <1>c DEF Pass
  <2> QED BY <1>0, <1>2, <1>c, <2>1, <2>2, PassOK
<1>r. ASSUME NEW o \in Refusals \cup {"no session", "done"}, Return(p, o, {}),
             UNCHANGED <<vault, front, sessions, shares>>,
             \/ token' = token \/ token' = [token EXCEPT ![p] = None]
      PROVE  OInv'
  <2>1. /\ policies' \subseteq Shares /\ granted' \subseteq Shares
        /\ UNCHANGED vault /\ front' = front /\ sessions' = sessions
    BY <1>r, <1>t DEF shares, OtherType
  <2>2. {} \in SUBSET Resources
    OBVIOUS
  <2> QED BY <1>1, <1>r, <2>1, <2>2
<1>o. /\ "VAULT_LOCKED" \in Refusals /\ "UNAUTHENTICATED" \in Refusals
      /\ "PERMISSION_DENIED" \in Refusals
  BY DEF Refusals
<1>p. ASSUME Pass(p), UNCHANGED <<vault, front, sessions, token, shares, held>>,
             Head(ahead[p]) \notin {"read", "dek"},
             Head(ahead[p]) \in Openers => open[p] # None,
             Head(ahead[p]) = "session" => call[p].by \in sessions[p]
      PROVE  OInv'
  BY <1>2, <1>p
<1>3. CASE CheckUnlocked(p)
  <2>1. /\ Head(ahead[p]) = "unlocked"
        /\ UNCHANGED <<vault, front, sessions, token, shares>>
        /\ \/ Return(p, "VAULT_LOCKED", {})
           \/ open[p] # None /\ Pass(p) /\ held' = held
    BY <1>3 DEF CheckUnlocked, At
  <2>2. CASE Return(p, "VAULT_LOCKED", {})
    BY <1>r, <1>o, <2>1, <2>2
  <2>3. CASE open[p] # None /\ Pass(p) /\ held' = held
    BY <1>p, <2>1, <2>3
  <2> QED BY <2>1, <2>2, <2>3
<1>4. CASE Ensure(p)
  <2>1. /\ Head(ahead[p]) = "ensure" /\ "ensure" \notin Openers
        /\ UNCHANGED <<vault, front, sessions, shares>>
        /\ \/ Return(p, "no session", {}) /\ token' = token
           \/ Return(p, "UNAUTHENTICATED", {}) /\ token' = [token EXCEPT ![p] = None]
           \/ Pass(p) /\ held' = held /\ token' = token
    BY <1>4 DEF Ensure, At, Openers
  <2>2. CASE Return(p, "no session", {}) /\ token' = token
    BY <1>r, <2>1, <2>2
  <2>3. CASE Return(p, "UNAUTHENTICATED", {}) /\ token' = [token EXCEPT ![p] = None]
    BY <1>r, <1>o, <2>1, <2>3
  <2>4. CASE Pass(p) /\ held' = held /\ token' = token
    BY <1>p, <2>1, <2>4
  <2> QED BY <2>1, <2>2, <2>3, <2>4
<1>5. CASE Prompt(p)
  <2>1. CASE Return(p, "no session", {}) /\ UNCHANGED <<sessions, token>>
    <3>1. UNCHANGED <<vault, front, sessions, token, shares>>
      BY <1>5, <2>1 DEF Prompt
    <3> QED BY <1>r, <2>1, <3>1
  <2>2. CASE Pass(p) /\ UNCHANGED <<sessions, token, held>>
    BY <1>2, <1>5, <2>2 DEF Prompt, At, shares, Openers
  <2>3. CASE \E u \in Callers[p] :
                /\ sessions' = [sessions EXCEPT ![p] = @ \cup {u}]
                /\ token' = [token EXCEPT ![p] = u]
                /\ call' = [call EXCEPT ![p].by = u]
                /\ ahead' = [ahead EXCEPT ![p] = Tail(@)]
                /\ reply' = None
                /\ UNCHANGED <<held, pdoc>>
    <3>1. PICK u \in Callers[p] :
             /\ sessions' = [sessions EXCEPT ![p] = @ \cup {u}]
             /\ token' = [token EXCEPT ![p] = u]
             /\ call' = [call EXCEPT ![p].by = u]
             /\ ahead' = [ahead EXCEPT ![p] = Tail(@)]
             /\ reply' = None
             /\ UNCHANGED <<held, pdoc>>
      BY <2>3
    <3>2. u \in Users /\ Head(ahead[p]) = "prompt"
      BY <1>5, ServiceAssumption DEF Prompt, At
    <3> DEFINE c == [call[p] EXCEPT !.by = u]
    <3>3. c \in Call /\ c.op = call[p].op /\ c.by = u
      BY <1>c, <3>2 DEF Call
    <3>4. call' = [call EXCEPT ![p] = c]
      BY <3>1
    <3>5. /\ OtherType' /\ token'[p] = u /\ \A q \in Procs \ {p} : token'[q] = token[q]
          /\ UNCHANGED vault /\ front' = front
      BY <1>5, <1>t, <3>1, <3>2 DEF Prompt, OtherType, shares
    <3> HIDE DEF c
    <3> QED BY <1>0, <3>1, <3>2, <3>3, <3>4, <3>5, PassOK DEF Openers
  <2> QED BY <1>5, <2>1, <2>2, <2>3 DEF Prompt
<1>6. CASE TakeDek(p)
  <2>1. /\ Head(ahead[p]) = "dek"
        /\ UNCHANGED <<vault, front, sessions, token, shares>>
        /\ \/ Return(p, "VAULT_LOCKED", {})
           \/ open[p] # None /\ Pass(p) /\ held' = [held EXCEPT ![p] = open[p]]
    BY <1>6 DEF TakeDek, At
  <2>2. CASE Return(p, "VAULT_LOCKED", {})
    BY <1>r, <1>o, <2>1, <2>2
  <2>3. CASE open[p] # None /\ Pass(p) /\ held' = [held EXCEPT ![p] = open[p]]
    BY <1>2, <2>1, <2>3
  <2> QED BY <2>1, <2>2, <2>3
<1>7. CASE CheckSession(p)
  <2>1. /\ Head(ahead[p]) = "session" /\ "session" \notin Openers
        /\ UNCHANGED <<vault, front, sessions, token, shares>>
        /\ \/ Return(p, "UNAUTHENTICATED", {})
           \/ call[p].by \in sessions[p] /\ Pass(p) /\ held' = held
    BY <1>7 DEF CheckSession, At, Openers
  <2>2. CASE Return(p, "UNAUTHENTICATED", {})
    BY <1>r, <1>o, <2>1, <2>2
  <2>3. CASE call[p].by \in sessions[p] /\ Pass(p) /\ held' = held
    BY <1>p, <2>1, <2>3
  <2> QED BY <2>1, <2>2, <2>3
<1>8. CASE CheckEntitled(p) \/ CheckOwner(p)
  <2>1. /\ Head(ahead[p]) \in {"entitled", "owner"}
        /\ "entitled" \notin Openers /\ "owner" \notin Openers
        /\ UNCHANGED <<vault, front, sessions, token, shares>>
        /\ Return(p, "PERMISSION_DENIED", {}) \/ (Pass(p) /\ held' = held)
    BY <1>8 DEF CheckEntitled, CheckOwner, At, Openers
  <2>2. CASE Return(p, "PERMISSION_DENIED", {})
    BY <1>r, <1>o, <2>1, <2>2
  <2>3. CASE Pass(p) /\ held' = held
    BY <1>p, <2>1, <2>3
  <2> QED BY <2>1, <2>2, <2>3
<1>9. CASE Work(p) \/ List(p) \/ ReadAcl(p)
  <2>1. PICK gave \in SUBSET Resources : Return(p, "done", gave)
    <3> DEFINE shared == {r \in call[p].about : <<r, call[p].by>> \in policies}
    <3>1. shared \in SUBSET Resources
      BY <1>c
    <3>2. Return(p, "done", call[p].about) \/ Return(p, "done", shared)
      BY <1>9 DEF Work, List, ReadAcl
    <3> HIDE DEF shared
    <3> QED BY <1>c, <3>1, <3>2
  <2>2. UNCHANGED <<vault, front, sessions, token, shares>>
    BY <1>9 DEF Work, List, ReadAcl
  <2>3. /\ policies' \subseteq Shares /\ granted' \subseteq Shares
        /\ UNCHANGED vault /\ front' = front /\ sessions' = sessions
    BY <2>2, <1>t DEF shares, OtherType
  <2> QED BY <1>1, <2>1, <2>2, <2>3
<1>11. ASSUME Head(ahead[p]) \in {"read", "replace"} PROVE Changed(p) \subseteq Shares
  <2>1. call[p].op \in {"grant", "withdraw"}
    BY <1>11, <1>c, <1>h, CallFields DEF Gates
  <2> QED BY <1>c, <2>1, CallFields DEF Changed, Shares
<1>12. CASE ReadPolicies(p)
  <2>1. Head(ahead[p]) = "read" /\ Changed(p) \subseteq Shares
    BY <1>11, <1>12 DEF ReadPolicies, At
  <2>2. CASE Return(p, "done", {}) /\ granted' = granted \ Changed(p)
    <3>1. /\ UNCHANGED vault /\ front' = front /\ sessions' = sessions /\ token' = token
          /\ policies' \subseteq Shares /\ granted' \subseteq Shares
      BY <1>12, <1>t, <2>2 DEF ReadPolicies, OtherType
    <3>2. {} \in SUBSET Resources
      OBVIOUS
    <3> QED BY <1>1, <2>2, <3>1, <3>2
  <2>3. CASE ~(Return(p, "done", {}) /\ granted' = granted \ Changed(p))
    <3> DEFINE P == IF call[p].op = "grant" THEN policies \cup Changed(p)
                    ELSE policies \ Changed(p)
    <3>1. /\ pdoc' = [pdoc EXCEPT ![p] = P] /\ ahead' = [ahead EXCEPT ![p] = Tail(@)]
          /\ reply' = None /\ call' = call /\ held' = held /\ granted' = granted
          /\ UNCHANGED <<vault, front, sessions, token, policies>>
      BY <1>12, <2>3 DEF ReadPolicies
    <3>2. P \in SUBSET Shares
      BY <1>t, <2>1 DEF OtherType
    <3>3. OtherType'
      BY <1>t, <3>1 DEF OtherType
    <3>4. call' = [call EXCEPT ![p] = call[p]]
      BY <1>c, <3>1
    <3> HIDE DEF P
    <3> QED BY <1>0, <1>c, <2>1, <3>1, <3>2, <3>3, <3>4, PassOK DEF Openers
  <2> QED BY <2>2, <2>3
<1>13. CASE ReplacePolicies(p)
  <2>1. Head(ahead[p]) = "replace" /\ Changed(p) \subseteq Shares
    BY <1>11, <1>13 DEF ReplacePolicies, At
  <2>2. pdoc[p] \in SUBSET Shares
    <3>1. ~Precedes(ahead[p], {"read"}, {"replace"})
      BY <1>c, <2>1, HeadPrecedes
    <3> QED BY <1>0, <3>1 DEF OInv, InOrder
  <2>3. /\ Return(p, "done", {})
        /\ UNCHANGED vault /\ front' = front /\ sessions' = sessions /\ token' = token
        /\ policies' \subseteq Shares /\ granted' \subseteq Shares
    BY <1>13, <1>t, <2>1, <2>2 DEF ReplacePolicies, OtherType
  <2>4. {} \in SUBSET Resources
    OBVIOUS
  <2> QED BY <1>1, <2>3, <2>4
<1> QED BY <1>3, <1>4, <1>5, <1>6, <1>7, <1>8, <1>9, <1>12, <1>13 DEF Continue

(* Nothing that happens beside a request disorders it: a vault that has    *)
(* its envelope keeps it, and a menu changes its token between requests.   *)
LEMMA OutsideOK ==
    ASSUME OInv, Observe, Outside
    PROVE  OInv'
<1>t. VaultType /\ OtherType
  BY DEF OInv, TypeOK, VaultType, OtherType
<1>1. CASE Seal
  <2>1. PICK e \in Envelopes :
           sealed = None /\ sealed' = e /\ NoRequest /\ UNCHANGED <<open, front, sessions, token, shares>>
    BY <1>1 DEF Seal, V!Seal
  <2>2. VaultType' /\ OtherType'
    BY <1>t, <2>1 DEF VaultType, OtherType, shares
  <2> QED BY <2>1, <2>2, BesideOK
<1>2. ASSUME NEW p \in Procs, Unlock(p) \/ Lock(p) PROVE OInv'
  <2>1. /\ NoRequest /\ UNCHANGED <<sealed, front, sessions, token, shares>>
        /\ \/ sealed # None /\ open' = [open EXCEPT ![p] = sealed.dek]
           \/ open' = [open EXCEPT ![p] = None]
    BY <1>2 DEF Unlock, Lock, V!Open, V!Lock
  <2>2. sealed # None => sealed.dek \in {e.dek : e \in Envelopes}
    BY <1>t DEF VaultType
  <2>3. VaultType'
    BY <1>t, <2>1, <2>2 DEF VaultType
  <2>4. OtherType'
    BY <1>t, <2>1 DEF OtherType, shares
  <2> QED BY <2>1, <2>3, <2>4, BesideOK
<1>3. ASSUME NEW p \in Procs, LoginFails(p) PROVE OInv'
  <2>1. /\ NoRequest /\ UNCHANGED <<sealed, open, front, sessions, shares>>
        /\ token' = [token EXCEPT ![p] = None] /\ Idle(p)
    BY <1>3 DEF LoginFails, vault
  <2>2. VaultType'
    BY <1>t, <2>1 DEF VaultType
  <2>3. OtherType'
    BY <1>t, <2>1 DEF OtherType, shares
  <2>4. \A q \in Procs : ~Idle(q) => token'[q] = token[q]
    BY <1>t, <2>1 DEF OtherType
  <2> QED BY <2>1, <2>2, <2>3, <2>4, BesideOK
<1>4. ASSUME NEW p \in Procs, NEW u \in Users, Login(p, u) \/ Expire(p, u) PROVE OInv'
  <2>1. /\ NoRequest /\ UNCHANGED <<sealed, open, front, shares>>
        /\ \E S \in SUBSET Users : sessions' = [sessions EXCEPT ![p] = S]
        /\ \/ token' = token
           \/ front[p] \in Menus /\ Idle(p) /\ token' = [token EXCEPT ![p] = u]
    <3>1. sessions[p] \cup {u} \in SUBSET Users /\ sessions[p] \ {u} \in SUBSET Users
      BY <1>t DEF OtherType
    <3> QED BY <1>4, <3>1 DEF Login, Expire, vault, Free
  <2>2. VaultType'
    BY <1>t, <2>1 DEF VaultType
  <2>3. OtherType'
    BY <1>t, <2>1 DEF OtherType, shares
  <2>4. \A q \in Procs : ~Idle(q) => token'[q] = token[q]
    BY <1>t, <2>1 DEF OtherType
  <2> QED BY <2>1, <2>2, <2>3, <2>4, BesideOK
<1>5. ASSUME NEW p \in Procs, Restart(p) PROVE OInv'
  <2>1. /\ UNCHANGED <<sealed, front, shares>> /\ reply' = None
        /\ open' = [open EXCEPT ![p] = None]
        /\ sessions' = [sessions EXCEPT ![p] = {}] /\ token' = [token EXCEPT ![p] = None]
        /\ ahead' = [ahead EXCEPT ![p] = <<>>] /\ call' = [call EXCEPT ![p] = None]
        /\ held' = [held EXCEPT ![p] = None] /\ pdoc' = [pdoc EXCEPT ![p] = None]
    BY <1>5 DEF Restart, V!Lock, End
  <2>2. VaultType'
    BY <1>t, <2>1 DEF VaultType
  <2>3. OtherType'
    BY <1>t, <2>1 DEF OtherType, shares
  <2>4. RequestType'
    <3>1. <<>> \in Seq(Steps)
      BY ShortSeqs
    <3> QED BY <2>1, <3>1 DEF OInv, TypeOK, RequestType
  <2>5. ASSUME NEW q \in Procs, ~Idle(q)' PROVE call'[q] \in Call /\ InOrder(q)'
    <3>1. q # p /\ ~Idle(q)
      BY <2>1, <2>5 DEF OInv, TypeOK, Idle
    <3>2. /\ ahead'[q] = ahead[q] /\ call'[q] = call[q] /\ held'[q] = held[q]
          /\ pdoc'[q] = pdoc[q] /\ token'[q] = token[q] /\ sealed' = sealed
      BY <2>1, <3>1 DEF OInv, TypeOK
    <3> QED BY <2>1, <3>1, <3>2, SawGrows, OrderKept
  <2> QED BY <2>1, <2>2, <2>3, <2>4, <2>5, Assemble DEF Requests
<1> QED BY <1>1, <1>2, <1>3, <1>4, <1>5 DEF Outside

(* It holds at first ...                                                   *)
LEMMA OrderInit == Init => OInv
<1> SUFFICES ASSUME Init PROVE OInv
  OBVIOUS
<1>1. /\ sealed = None /\ open = [p \in Procs |-> None]
      /\ \A p \in Procs : Idle(p)
  BY DEF Init, V!Init, Idle
<1>2. TypeOK
  <2>1. <<>> \in Seq(Steps)
    BY ShortSeqs
  <2>2. front \in [Procs -> Kinds]
    BY ServiceAssumption DEF Init
  <2> QED BY <1>1, <2>1, <2>2 DEF Init, TypeOK, At
<1> QED BY <1>1, <1>2 DEF OInv, Truth

(* ... and every step keeps it.                                            *)
LEMMA OrderNext == OInv /\ [Next]_vars => OInv'
<1> SUFFICES ASSUME OInv, [Next]_vars PROVE OInv'
  OBVIOUS
<1>1. CASE Next
  BY <1>1, ContinueOK, ArriveOK, OutsideOK DEF Next
<1>2. CASE UNCHANGED vars
  <2>1. TypeOK'
    BY <1>2 DEF vars, OInv, TypeOK, At, Idle
  <2>2. \A p \in Procs : open'[p] # None => sealed' # None /\ open'[p] = sealed'.dek
    BY <1>2 DEF vars, OInv
  <2>3. \A p \in Procs : /\ Idle(p)' = Idle(p) /\ InOrder(p)' = InOrder(p)
                         /\ Truth(p)' = Truth(p) /\ call'[p] = call[p] /\ saw'[p] = saw[p]
    BY <1>2 DEF vars, Idle, InOrder, HasDek, Gates, Truth, Due
  <2> QED BY <2>1, <2>2, <2>3 DEF OInv
<1> QED BY <1>1, <1>2

(* The invariant of the gates holds in every reachable state.              *)
LEMMA OrderInductive == Spec => []OInv
BY OrderInit, OrderNext, PTL DEF Spec

(* Every variable keeps its type, and a request at its work holds the DEK  *)
(* of the envelope, however requests interleave (app.py:228-250,           *)
(* kv_engine.py:64-95).                                                    *)
THEOREM TypeCorrect == Spec => []TypeOK
<1>1. OInv => TypeOK
  BY DEF OInv
<1> QED BY <1>1, OrderInductive, PTL

(* The gates of an operation lie on no other way.                          *)
LEMMA GateOps ==
    ASSUME NEW p \in Procs, NEW c \in Call, NEW g \in Gates(p, c)
    PROVE  /\ g \in {"entitled", "work"} => c.op = "use"
           /\ g = "list" => c.op = "list"
           /\ g \in {"owner", "acl"} => c.op \in {"acl", "grant", "withdraw"}
           /\ g \in {"read", "replace"} => c.op \in {"grant", "withdraw"}
           /\ g \in {"ensure", "prompt"} => front[p] \in Menus
<1>1. c.op \in {"use", "acl", "grant", "withdraw", "list"}
  BY CallFields
<1>2. CASE c.op = "use"
  BY <1>2 DEF Gates, Menus
<1>3. CASE c.op = "list"
  BY <1>3 DEF Gates, Menus
<1>4. CASE c.op = "acl"
  BY <1>4 DEF Gates, Menus
<1>5. CASE c.op \in {"grant", "withdraw"}
  BY <1>5 DEF Gates, Menus
<1> QED BY <1>1, <1>2, <1>3, <1>4, <1>5

(* A request that stands at a gate has passed those that this one relies   *)
(* on, and its operation is one that leads there.                          *)
LEMMA GateTraces ==
    ASSUME OInv, NEW p \in Procs, NEW g, At(p, g)
    PROVE  /\ ~Idle(p) /\ ahead[p] \in Seq(Steps) /\ ahead[p] # <<>> /\ Head(ahead[p]) = g
           /\ call[p] \in Call /\ Truth(p) \subseteq saw[p]
           /\ g \in Deeds \cup Asking => "unlocked" \in saw[p]
           /\ g \in Deeds => "session" \in saw[p]
           /\ \A G, H : Precedes(ahead[p], G, H) => g \notin H
           /\ g \in Gates(p, call[p])
<1>1. /\ ~Idle(p) /\ ahead[p] \in Seq(Steps) /\ ahead[p] # <<>> /\ Head(ahead[p]) = g
      /\ call[p] \in Call /\ InOrder(p) /\ Truth(p) \subseteq saw[p]
  BY DEF OInv, TypeOK, At, Idle
<1>2. \A G, H : Precedes(ahead[p], G, H) => g \notin H
  BY <1>1, HeadPrecedes
<1>3. ahead[p] \in Seq(Gates(p, call[p]))
  BY <1>1 DEF InOrder
<1>4. g \in Gates(p, call[p])
  BY <1>1, <1>3, HeadTailProperties
<1> QED BY <1>1, <1>2, <1>4 DEF InOrder

(* The reason of a refusal, and what is given, is seen of the request that *)
(* is answered.                                                            *)
LEMMA AnswerSeen ==
    ASSUME OInv, Observe, NEW p \in Procs, ~Idle(p), NEW o, NEW gave, Return(p, o, gave),
           Reasons(o) \subseteq saw[p], gave \subseteq saw[p]
    PROVE  RefusedInOrder' /\ RevokedIsDenied'
<1>1. reply' = [to |-> p, outcome |-> o, gave |-> gave]
  BY DEF Return
<1>2. saw[p] \subseteq saw'[p]
  BY SawGrows
<1>3. Reasons(reply'.outcome) \subseteq saw'[reply'.to] /\ reply'.gave \subseteq saw'[reply'.to]
  BY <1>1, <1>2
<1> QED BY <1>3 DEF RefusedInOrder, RevokedIsDenied, Reasons

(* What an outcome may be for.                                             *)
LEMMA OutcomeReasons ==
    /\ Reasons("VAULT_LOCKED") = {"locked"}
    /\ Reasons("UNAUTHENTICATED") = {"unlocked", "no session"}
    /\ Reasons("PERMISSION_DENIED") = {"unlocked", "session", "not entitled"}
    /\ Reasons("no session") = {"unlocked", "no session"}
    /\ Reasons("done") = {"unlocked", "session"}
BY DEF Reasons

(* Without an answer there is nothing to justify.                          *)
LEMMA NoAnswer ==
    ASSUME reply' = None
    PROVE  RefusedInOrder' /\ RevokedIsDenied'
BY DEF RefusedInOrder, RevokedIsDenied

(* Every refusal and every answer of a request is justified, as long as    *)
(* the policy document holds the shares that were granted.                 *)
LEMMA AnswersJustified ==
    ASSUME OInv, SInv, Observe, NEW p \in Procs, Continue(p)
    PROVE  RefusedInOrder' /\ RevokedIsDenied'
<1>d. /\ {"entitled", "owner", "read", "replace", "list", "acl", "work"} \subseteq Deeds
      /\ {"session", "ensure", "prompt"} \subseteq Asking
  BY DEF Deeds, Asking
<1>o. ASSUME At(p, "entitled") \/ At(p, "work") PROVE call[p].op = "use"
  <2>1. PICK g \in {"entitled", "work"} : At(p, g)
    BY <1>o
  <2>2. call[p] \in Call /\ g \in Gates(p, call[p])
    BY <2>1, GateTraces
  <2> QED BY <2>2, GateOps
<1>e. {} \subseteq saw[p]
  OBVIOUS
<1>1. CASE reply' = None
  BY <1>1, NoAnswer
<1>2. CASE CheckUnlocked(p) \/ TakeDek(p)
  <2>1. CASE Pass(p)
    BY <2>1, NoAnswer DEF Pass
  <2>2. CASE ~Pass(p)
    <3>1. /\ At(p, "unlocked") \/ At(p, "dek")
          /\ open[p] = None /\ Return(p, "VAULT_LOCKED", {})
      BY <1>2, <2>2 DEF CheckUnlocked, TakeDek
    <3>2. ~Idle(p) /\ Truth(p) \subseteq saw[p]
      BY <3>1, GateTraces
    <3>3. "locked" \in saw[p]
      BY <3>1, <3>2 DEF Truth
    <3>4. Reasons("VAULT_LOCKED") \subseteq saw[p]
      BY <3>3, OutcomeReasons
    <3> QED BY <1>e, <3>1, <3>2, <3>4, AnswerSeen
  <2> QED BY <2>1, <2>2
<1>3. CASE Ensure(p) \/ Prompt(p) \/ CheckSession(p)
  <2>1. CASE reply' = None
    BY <2>1, NoAnswer
  <2>2. CASE reply' # None
    <3>1. \/ /\ At(p, "ensure")
             /\ token[p] = None \/ token[p] \notin sessions[p]
             /\ Return(p, "no session", {}) \/ Return(p, "UNAUTHENTICATED", {})
          \/ /\ At(p, "prompt")
             /\ token[p] = None
             /\ Return(p, "no session", {})
          \/ /\ At(p, "session")
             /\ call[p].by \notin sessions[p]
             /\ Return(p, "UNAUTHENTICATED", {})
      BY <1>3, <2>2 DEF Ensure, Prompt, CheckSession, Pass
    <3>2. PICK g \in Asking : At(p, g)
      BY <3>1, <1>d
    <3>3. /\ ~Idle(p) /\ Truth(p) \subseteq saw[p] /\ "unlocked" \in saw[p]
          /\ g \in Gates(p, call[p])
      BY <3>2, GateTraces
    <3>4. g \in {"ensure", "prompt"} => front[p] \in Menus
      BY <3>2, <3>3, GateTraces, GateOps
    <3>5. front[p] \in Menus => call[p].by = token[p]
      BY <3>3 DEF OInv, InOrder
    <3>6. None \notin sessions[p]
      BY ServiceAssumption DEF OInv, TypeOK
    <3>7. call[p].by \notin sessions[p]
      <4>1. g = "ensure" \/ g = "prompt" \/ g = "session"
        BY DEF Asking
      <4> QED BY <3>1, <3>2, <3>4, <3>5, <3>6, <4>1 DEF At
    <3>8. "no session" \in saw[p]
      BY <3>3, <3>7 DEF Truth
    <3>9. /\ Reasons("no session") \subseteq saw[p]
          /\ Reasons("UNAUTHENTICATED") \subseteq saw[p]
      BY <3>3, <3>8, OutcomeReasons
    <3>10. Return(p, "no session", {}) \/ Return(p, "UNAUTHENTICATED", {})
      BY <3>1
    <3>11. CASE Return(p, "no session", {})
      <4>1. Reasons("no session") \subseteq saw[p] /\ ~Idle(p)
        BY <3>3, <3>9
      <4> DEFINE o == "no session"
      <4>2. Reasons(o) \subseteq saw[p] /\ Return(p, o, {})
        BY <3>11, <4>1
      <4> HIDE DEF o
      <4> QED BY <1>e, <4>1, <4>2, AnswerSeen
    <3>12. CASE Return(p, "UNAUTHENTICATED", {})
      <4>1. Reasons("UNAUTHENTICATED") \subseteq saw[p] /\ ~Idle(p)
        BY <3>3, <3>9
      <4> QED BY <1>e, <3>12, <4>1, AnswerSeen
    <3> QED BY <3>10, <3>11, <3>12
  <2> QED BY <2>1, <2>2
<1>4. CASE CheckEntitled(p) \/ CheckOwner(p)
  <2>1. CASE Pass(p)
    BY <2>1, NoAnswer DEF Pass
  <2>2. CASE ~Pass(p)
    <3>1. /\ At(p, "entitled") \/ At(p, "owner")
          /\ Return(p, "PERMISSION_DENIED", {})
          /\ At(p, "entitled") =>
                \E r \in call[p].about : ~Entitled(call[p].by, r, granted)
          /\ At(p, "owner") => \E r \in call[p].about : call[p].by # Owner[r]
      BY <1>4, <2>2 DEF CheckEntitled, CheckOwner, At, SInv
    <3>2. /\ ~Idle(p) /\ Truth(p) \subseteq saw[p]
          /\ "unlocked" \in saw[p] /\ "session" \in saw[p]
      BY <1>d, <3>1, GateTraces
    <3>3. \E r \in call[p].about : r \notin Due(p)
      <4>1. CASE At(p, "entitled")
        BY <1>o, <3>1, <4>1 DEF Due
      <4>2. CASE At(p, "owner")
        <5>1. call[p] \in Call /\ "owner" \in Gates(p, call[p])
          BY <4>2, GateTraces
        <5>2. call[p].op \notin {"use", "list"}
          BY <5>1, GateOps
        <5> QED BY <3>1, <4>2, <5>2 DEF Due, Entitled
      <4> QED BY <3>1, <4>1, <4>2
    <3>4. "not entitled" \in saw[p]
      BY <3>2, <3>3 DEF Truth
    <3>5. Reasons("PERMISSION_DENIED") \subseteq saw[p]
      BY <3>2, <3>4, OutcomeReasons
    <3> QED BY <1>e, <3>1, <3>2, <3>5, AnswerSeen
  <2> QED BY <2>1, <2>2
<1>5. CASE Work(p) \/ ReadAcl(p)
  <2>1. PICK g \in {"work", "acl"} : At(p, g)
    BY <1>5 DEF Work, ReadAcl
  <2>2. /\ ~Idle(p) /\ "unlocked" \in saw[p] /\ "session" \in saw[p]
        /\ ~Precedes(ahead[p], {"entitled", "owner"}, {"work", "acl"})
    <3>1. "work" \in Deeds /\ "acl" \in Deeds
      BY <1>d
    <3> QED BY <2>1, <3>1, GateTraces
  <2>3. call[p].about \subseteq saw[p]
    BY <2>2 DEF SInv
  <2>4. Return(p, "done", call[p].about)
    BY <1>5 DEF Work, ReadAcl
  <2>5. Reasons("done") \subseteq saw[p]
    BY <2>2, OutcomeReasons
  <2> QED BY <2>2, <2>3, <2>4, <2>5, AnswerSeen
<1>6. CASE List(p)
  <2>1. /\ At(p, "list")
        /\ Return(p, "done", {r \in call[p].about : <<r, call[p].by>> \in granted})
    BY <1>6 DEF List, SInv
  <2>2. /\ ~Idle(p) /\ "unlocked" \in saw[p] /\ "session" \in saw[p]
        /\ Truth(p) \subseteq saw[p] /\ call[p].op = "list"
    <3>1. call[p] \in Call /\ "list" \in Gates(p, call[p]) /\ "list" \in Deeds
      BY <1>d, <2>1, GateTraces
    <3>2. call[p].op = "list"
      BY <3>1, GateOps
    <3> QED BY <2>1, <3>1, <3>2, GateTraces
  <2>3. {r \in call[p].about : <<r, call[p].by>> \in granted} \subseteq saw[p]
    BY <2>2 DEF Truth, Due, Entitled
  <2>4. Reasons("done") \subseteq saw[p]
    BY <2>2, OutcomeReasons
  <2> QED BY <2>1, <2>2, <2>3, <2>4, AnswerSeen
<1>7. CASE ReadPolicies(p) \/ ReplacePolicies(p)
  <2>1. CASE reply' = None
    BY <2>1, NoAnswer
  <2>2. CASE reply' # None
    <3>1. (At(p, "read") \/ At(p, "replace")) /\ Return(p, "done", {})
      BY <1>7, <2>2 DEF ReadPolicies, ReplacePolicies
    <3>2. ~Idle(p) /\ "unlocked" \in saw[p] /\ "session" \in saw[p]
      BY <1>d, <3>1, GateTraces
    <3>3. Reasons("done") \subseteq saw[p]
      BY <3>2, OutcomeReasons
    <3> QED BY <1>e, <3>1, <3>2, <3>3, AnswerSeen
  <2> QED BY <2>1, <2>2
<1> QED BY <1>2, <1>3, <1>4, <1>5, <1>6, <1>7 DEF Continue

(* Passing a gate of entitlement or of ownership shows the right to what   *)
(* the request is about.                                                   *)
LEMMA RightSeen ==
    ASSUME OInv, SInv, Observe, NEW p \in Procs, Continue(p), ~Idle(p)'
    PROVE  \/ call'[p].about \subseteq saw'[p]
           \/ Precedes(ahead'[p], {"entitled", "owner"}, {"work", "acl"})
<1> DEFINE s == ahead[p]
<1>1. PICK g : At(p, g)
  BY DEF Continue, CheckUnlocked, Ensure, Prompt, TakeDek, CheckSession, CheckEntitled,
         Work, List, ReadAcl, CheckOwner, ReadPolicies, ReplacePolicies
<1>2. /\ ~Idle(p) /\ s \in Seq(Steps) /\ s # <<>> /\ Head(s) = g
      /\ call[p] \in Call /\ Truth(p) \subseteq saw[p] /\ g \in Gates(p, call[p])
  BY <1>1, GateTraces
<1>3. saw[p] \subseteq saw'[p]
  BY <1>2, SawGrows
<1>4. ahead'[p] = Tail(s) /\ call'[p].about = call[p].about
  <2>1. ASSUME NEW o, NEW gave, Return(p, o, gave) PROVE FALSE
    BY <2>1 DEF Return, End, Idle, OInv, TypeOK
  <2>2. CASE Pass(p)
    BY <2>2 DEF Pass, OInv, TypeOK
  <2>3. CASE Prompt(p) /\ ~Pass(p)
    <3>1. PICK u : /\ call' = [call EXCEPT ![p].by = u]
                   /\ ahead' = [ahead EXCEPT ![p] = Tail(@)]
      BY <2>1, <2>3 DEF Prompt
    <3>2. ahead \in [Procs -> Seq(Steps)] /\ call \in [Procs -> Call \cup {None}]
      BY DEF OInv, TypeOK
    <3>3. ahead'[p] = Tail(s)
      BY <3>1, <3>2
    <3>4. call'[p] = [call[p] EXCEPT !.by = u]
      BY <3>1, <3>2
    <3>5. call'[p].about = call[p].about
      BY <1>2, <3>4 DEF Call
    <3> QED BY <3>3, <3>5
  <2>4. CASE ReadPolicies(p)
    BY <2>1, <2>4 DEF ReadPolicies, OInv, TypeOK
  <2> QED BY <2>1, <2>2, <2>3, <2>4
          DEF Continue, CheckUnlocked, Ensure, TakeDek, CheckSession, CheckEntitled,
              Work, List, ReadAcl, CheckOwner, ReplacePolicies
<1>5. CASE g \in {"entitled", "owner"}
  <2>1. CheckEntitled(p) \/ CheckOwner(p)
    BY <1>1, <1>5 DEF Continue, CheckUnlocked, Ensure, Prompt, TakeDek, CheckSession,
       CheckEntitled, Work, List, ReadAcl, CheckOwner, ReadPolicies, ReplacePolicies, At
  <2>2. ASSUME NEW o, NEW gave, Return(p, o, gave) PROVE FALSE
    BY <2>2 DEF Return, End, Idle, OInv, TypeOK
  <2>3. CASE CheckEntitled(p)
    <3>1. /\ g = "entitled"
          /\ \A r \in call[p].about : Entitled(call[p].by, r, granted)
      BY <1>2, <2>2, <2>3 DEF CheckEntitled, At, SInv
    <3>2. call[p].op = "use"
      BY <1>2, <3>1, GateOps
    <3>3. call[p].about \subseteq Due(p)
      BY <3>1, <3>2 DEF Due
    <3> QED BY <1>2, <1>3, <1>4, <3>3 DEF Truth
  <2>4. CASE CheckOwner(p)
    <3>1. \A r \in call[p].about : call[p].by = Owner[r]
      BY <2>2, <2>4 DEF CheckOwner
    <3>2. call[p].about \subseteq Due(p)
      BY <3>1 DEF Due, Entitled
    <3> QED BY <1>2, <1>3, <1>4, <3>2 DEF Truth
  <2> QED BY <2>1, <2>3, <2>4
<1>6. CASE g \notin {"entitled", "owner"}
  <2>1. CASE call[p].about \subseteq saw[p]
    BY <1>3, <1>4, <2>1
  <2>2. CASE Precedes(s, {"entitled", "owner"}, {"work", "acl"})
    BY <1>2, <1>4, <1>6, <2>2, TailPrecedes
  <2> QED BY <1>2, <2>1, <2>2 DEF SInv
<1> QED BY <1>5, <1>6

(* What SInv says of the document that a request is about to store.        *)
Stores(p) == /\ ReadsAndReplaces(ahead[p])
             /\ Precedes(ahead[p], {"read"}, {"replace"}) \/ pdoc[p] = Made(p)

(* It stays true of a request that makes no step.                          *)
LEMMA StoreKept ==
    ASSUME SInv, NEW p \in Procs, ~Idle(p), policies' = policies,
           ahead'[p] = ahead[p], call'[p] = call[p], pdoc'[p] = pdoc[p]
    PROVE  Stores(p)'
BY DEF SInv, Stores, Made, Changed

(* Every step on a request answers it, or passes the gate it stands at,    *)
(* and only the last two of a change touch the document.                   *)
LEMMA ContinueKinds ==
    ASSUME OInv, NEW p \in Procs, Continue(p)
    PROVE  /\ ~Idle(p)
           /\ \A q \in Procs \ {p} : /\ ahead'[q] = ahead[q] /\ call'[q] = call[q]
                                     /\ pdoc'[q] = pdoc[q]
           /\ \/ Idle(p)' /\ UNCHANGED shares
              \/ /\ ahead'[p] = Tail(ahead[p]) /\ Head(ahead[p]) # "read"
                 /\ pdoc'[p] = pdoc[p] /\ UNCHANGED shares
                 /\ call'[p] = call[p] \/ Head(ahead[p]) = "prompt"
              \/ ReadPolicies(p)
              \/ ReplacePolicies(p)
<1>t. /\ ahead \in [Procs -> Seq(Steps)] /\ call \in [Procs -> Call \cup {None}]
      /\ pdoc \in [Procs -> (SUBSET Shares) \cup {None}]
  BY DEF OInv, TypeOK
<1> DEFINE Others == \A q \in Procs \ {p} : /\ ahead'[q] = ahead[q]
                                           /\ call'[q] = call[q] /\ pdoc'[q] = pdoc[q]
<1>0. ~Idle(p)
  BY DEF Continue, CheckUnlocked, Ensure, Prompt, TakeDek, CheckSession, CheckEntitled,
         Work, List, ReadAcl, CheckOwner, ReadPolicies, ReplacePolicies, At
<1>1. ASSUME NEW o, NEW gave, Return(p, o, gave) PROVE Idle(p)' /\ Others
  BY <1>t, <1>1 DEF Return, End, Idle
<1>2. ASSUME Pass(p)
      PROVE  Others /\ ahead'[p] = Tail(ahead[p]) /\ pdoc'[p] = pdoc[p] /\ call'[p] = call[p]
  BY <1>t, <1>2 DEF Pass
<1>3. CASE Prompt(p)
  <2>1. Head(ahead[p]) = "prompt" /\ UNCHANGED shares
    BY <1>3 DEF Prompt, At
  <2>2. CASE Pass(p) \/ Return(p, "no session", {})
    BY <1>0, <1>1, <1>2, <2>1, <2>2
  <2>3. CASE ~(Pass(p) \/ Return(p, "no session", {}))
    <3>1. PICK u : /\ call' = [call EXCEPT ![p].by = u]
                   /\ ahead' = [ahead EXCEPT ![p] = Tail(@)] /\ pdoc' = pdoc
      BY <1>3, <2>3 DEF Prompt
    <3>2. Others /\ ahead'[p] = Tail(ahead[p]) /\ pdoc'[p] = pdoc[p]
      BY <1>t, <3>1
    <3> QED BY <1>0, <2>1, <3>2
  <2> QED BY <2>2, <2>3
<1>4. CASE ReadPolicies(p)
  BY <1>0, <1>1, <1>4, <1>t DEF ReadPolicies
<1>5. CASE ReplacePolicies(p)
  BY <1>0, <1>1, <1>5 DEF ReplacePolicies
<1>6. CASE ~(Prompt(p) \/ ReadPolicies(p) \/ ReplacePolicies(p))
  <2>1. /\ UNCHANGED shares
        /\ (\E o, gave : Return(p, o, gave)) \/ (Pass(p) /\ Head(ahead[p]) # "read")
    BY <1>6 DEF Continue, CheckUnlocked, Ensure, TakeDek, CheckSession, CheckEntitled,
                Work, List, ReadAcl, CheckOwner, At
  <2>2. CASE \E o, gave : Return(p, o, gave)
    BY <1>0, <1>1, <2>1, <2>2
  <2>3. CASE Pass(p) /\ Head(ahead[p]) # "read"
    BY <1>0, <1>2, <2>1, <2>3
  <2> QED BY <2>1, <2>2, <2>3
<1> QED BY <1>3, <1>4, <1>5, <1>6

(* Who stands at "replace" stores what his change makes of the document as *)
(* it is; and who has read the document stands there.                      *)
LEMMA AtReplace ==
    ASSUME OInv, SInv, NEW p \in Procs, ~Idle(p)
    PROVE  /\ At(p, "replace") => pdoc[p] = Made(p)
           /\ ~At(p, "replace") => Precedes(ahead[p], {"read"}, {"replace"})
<1>1. ahead[p] \in Seq(Steps) /\ ahead[p] # <<>>
  BY DEF OInv, TypeOK, Idle
<1>2. Len(ahead[p]) \in Nat /\ Head(ahead[p]) = ahead[p][1]
  BY <1>1
<1>3. ASSUME At(p, "replace") PROVE pdoc[p] = Made(p)
  <2>1. ~Precedes(ahead[p], {"read"}, {"replace"})
    BY <1>3, GateTraces
  <2> QED BY <2>1 DEF SInv
<1>4. ASSUME ~At(p, "replace") PROVE Precedes(ahead[p], {"read"}, {"replace"})
  <2> SUFFICES ASSUME NEW j \in 1 .. Len(ahead[p]), ahead[p][j] = "replace"
               PROVE  \E i \in 1 .. j-1 : ahead[p][i] \in {"read"}
    BY DEF Precedes
  <2>1. j # 1
    BY <1>2, <1>4 DEF At
  <2>2. j \in 2 .. Len(ahead[p]) /\ j-1 \in 1 .. j-1
    BY <1>2, <2>1
  <2>3. ahead[p][j-1] = "read"
    BY <2>2 DEF SInv, ReadsAndReplaces
  <2> QED BY <2>2, <2>3
<1> QED BY <1>3, <1>4

(* Steps of a request keep the document and the shares that were granted   *)
(* together, unless two changes overlap.                                   *)
LEMMA DocumentKept ==
    ASSUME OInv, SInv, NoOverlap, NEW p \in Procs, Continue(p)
    PROVE  /\ policies' = granted'
           /\ \A q \in Procs : ~Idle(q)' => Stores(q)'
<1>t. /\ ahead \in [Procs -> Seq(Steps)] /\ call \in [Procs -> Call \cup {None}]
      /\ pdoc \in [Procs -> (SUBSET Shares) \cup {None}] /\ policies = granted
  BY DEF OInv, TypeOK, SInv
<1>o. /\ ~Idle(p)
      /\ \A q \in Procs \ {p} : /\ ahead'[q] = ahead[q] /\ call'[q] = call[q]
                                /\ pdoc'[q] = pdoc[q]
  BY ContinueKinds
<1>h. /\ ahead[p] \in Seq(Steps) /\ ahead[p] # <<>> /\ Stores(p) /\ call[p] \in Call
      /\ ahead[p] \in Seq(Gates(p, call[p]))
  BY <1>t, <1>o DEF Idle, SInv, Stores, OInv, InOrder
<1>q. ASSUME policies' = policies, NEW q \in Procs, q # p, ~Idle(q)' PROVE Stores(q)'
  <2>1. ~Idle(q)
    BY <1>o, <1>q DEF Idle
  <2> QED BY <1>o, <1>q, <2>1, StoreKept
<1>1. CASE Idle(p)' /\ UNCHANGED shares
  <2>1. policies' = policies /\ granted' = granted
    BY <1>1 DEF shares
  <2> QED BY <1>1, <1>q, <1>t, <2>1
<1>2. CASE /\ ahead'[p] = Tail(ahead[p]) /\ Head(ahead[p]) # "read"
           /\ pdoc'[p] = pdoc[p] /\ UNCHANGED shares
           /\ call'[p] = call[p] \/ Head(ahead[p]) = "prompt"
  <2>1. policies' = policies /\ granted' = granted
    BY <1>2 DEF shares
  <2>2. ReadsAndReplaces(ahead'[p])
    BY <1>2, <1>h, TailReads DEF Stores
  <2>3. Precedes(ahead'[p], {"read"}, {"replace"}) \/ pdoc'[p] = Made(p)'
    <3>1. CASE Precedes(ahead[p], {"read"}, {"replace"})
      BY <1>2, <1>h, <3>1, TailPrecedes
    <3>2. CASE ~Precedes(ahead[p], {"read"}, {"replace"})
      <4>1. At(p, "replace")
        BY <1>o, <3>2, AtReplace
      <4>2. Head(ahead[p]) # "prompt"
        BY <4>1 DEF At
      <4> QED BY <1>2, <1>h, <2>1, <3>2, <4>2 DEF Stores, Made, Changed
    <3> QED BY <3>1, <3>2
  <2>4. Stores(p)'
    BY <2>2, <2>3 DEF Stores
  <2> QED BY <1>q, <1>t, <2>1, <2>4
<1>3. CASE ReadPolicies(p)
  <2>1. policies' = policies
    BY <1>3 DEF ReadPolicies
  <2>2. CASE Return(p, "done", {}) /\ granted' = granted \ Changed(p)
    <3>1. Idle(p)'
      BY <1>t, <2>2 DEF Return, End, Idle
    <3>2. granted' = granted
      <4>1. Changed(p) \cap policies = {} \/ ~Idle(p)'
        BY <1>3, <1>h, <1>t, <2>2 DEF ReadPolicies, Return, End, Idle
      <4> QED BY <1>t, <2>2, <3>1, <4>1
    <3> QED BY <1>q, <1>t, <2>1, <3>1, <3>2
  <2>3. CASE ~(Return(p, "done", {}) /\ granted' = granted \ Changed(p))
    <3>1. /\ pdoc' = [pdoc EXCEPT ![p] = Made(p)] /\ ahead' = [ahead EXCEPT ![p] = Tail(@)]
          /\ call' = call /\ granted' = granted
      BY <1>3, <2>3 DEF ReadPolicies, Made
    <3>2. pdoc'[p] = Made(p) /\ ahead'[p] = Tail(ahead[p])
      BY <1>t, <3>1
    <3>3. Made(p)' = Made(p)
      BY <2>1, <3>1 DEF Made, Changed
    <3>4. Stores(p)'
      BY <1>h, <3>2, <3>3, TailReads DEF Stores
    <3> QED BY <1>q, <1>t, <2>1, <3>1, <3>4
  <2> QED BY <2>2, <2>3
<1>4. CASE ReplacePolicies(p)
  <2>1. /\ At(p, "replace") /\ policies' = pdoc[p]
        /\ granted' = IF call[p].op = "grant" THEN granted \cup Changed(p)
                      ELSE granted \ Changed(p)
    BY <1>4 DEF ReplacePolicies
  <2>2. policies' = granted'
    BY <1>o, <1>t, <2>1, AtReplace DEF Made
  <2>3. Idle(p)'
    BY <1>4, <1>t DEF ReplacePolicies, Return, End, Idle
  <2>4. ASSUME NEW q \in Procs, ~Idle(q)' PROVE Stores(q)'
    <3>1. q # p /\ ~Idle(q) /\ ahead'[q] = ahead[q]
      BY <1>o, <2>3, <2>4 DEF Idle
    <3>2. ~At(q, "replace")
      BY <2>1, <3>1 DEF NoOverlap
    <3>3. Precedes(ahead[q], {"read"}, {"replace"}) /\ ReadsAndReplaces(ahead[q])
      BY <3>1, <3>2, AtReplace DEF SInv
    <3> QED BY <3>1, <3>3 DEF Stores
  <2> QED BY <2>2, <2>4
<1> QED BY <1>1, <1>2, <1>3, <1>4, ContinueKinds

(* What SInv says of the right to what a request is about.                 *)
Rightful(p) == \/ call[p].about \subseteq saw[p]
               \/ Precedes(ahead[p], {"entitled", "owner"}, {"work", "acl"})

(* Requests that make no step keep what SInv says of them.                 *)
LEMMA OthersKept ==
    ASSUME SInv, Observe, NEW q \in Procs, ~Idle(q), policies' = policies,
           ahead'[q] = ahead[q], call'[q] = call[q], pdoc'[q] = pdoc[q]
    PROVE  Stores(q)' /\ Rightful(q)'
<1>1. saw[q] \subseteq saw'[q]
  BY SawGrows
<1>2. Rightful(q)
  BY DEF SInv, Rightful
<1> QED BY <1>1, <1>2, StoreKept DEF Rightful

(* All of it together.                                                     *)
LEMMA SerialNext ==
    ASSUME OInv, SInv, NoOverlap, [Next]_vars
    PROVE  SInv'
<1>c. /\ policies = granted
      /\ ahead \in [Procs -> Seq(Steps)] /\ call \in [Procs -> Call \cup {None}]
      /\ pdoc \in [Procs -> (SUBSET Shares) \cup {None}]
  BY DEF OInv, TypeOK, SInv
<1>a. ASSUME policies' = granted', RefusedInOrder', RevokedIsDenied',
             \A q \in Procs : ~Idle(q)' => Stores(q)' /\ Rightful(q)'
      PROVE  SInv'
  BY <1>a DEF SInv, Stores, Rightful
<1>1. ASSUME NEW p \in Procs, Continue(p), Observe PROVE SInv'
  <2>1. RefusedInOrder' /\ RevokedIsDenied'
    BY <1>1, AnswersJustified
  <2>2. policies' = granted' /\ \A q \in Procs : ~Idle(q)' => Stores(q)'
    BY <1>1, DocumentKept
  <2>3. ASSUME NEW q \in Procs, ~Idle(q)' PROVE Rightful(q)'
    <3>1. CASE q = p
      BY <1>1, <2>3, <3>1, RightSeen DEF Rightful
    <3>2. CASE q # p
      <4>1. ahead'[q] = ahead[q] /\ call'[q] = call[q] /\ ~Idle(q)
        BY <1>1, <2>3, <3>2, ContinueKinds DEF Idle
      <4>2. saw[q] \subseteq saw'[q] /\ Rightful(q)
        BY <1>1, <4>1, SawGrows DEF SInv, Rightful
      <4> QED BY <4>1, <4>2 DEF Rightful
    <3> QED BY <3>1, <3>2
  <2> QED BY <1>a, <2>1, <2>2, <2>3
<1>2. ASSUME NEW p \in Procs, NEW c \in Call, Arrive(p, c), Observe PROVE SInv'
  <2>1. /\ ahead' = [ahead EXCEPT ![p] = Way(p, c)] /\ call' = [call EXCEPT ![p] = c]
        /\ reply' = None /\ policies' = policies /\ granted' = granted /\ pdoc' = pdoc
    BY <1>2 DEF Arrive, shares
  <2>2. /\ Precedes(Way(p, c), {"read"}, {"replace"}) /\ ReadsAndReplaces(Way(p, c))
        /\ Precedes(Way(p, c), {"entitled", "owner"}, {"work", "acl"})
    BY WayInOrder
  <2>3. ASSUME NEW q \in Procs, ~Idle(q)' PROVE Stores(q)' /\ Rightful(q)'
    <3>1. CASE q = p
      <4>1. ahead'[p] = Way(p, c)
        BY <1>c, <2>1
      <4> QED BY <2>2, <3>1, <4>1 DEF Stores, Rightful
    <3>2. CASE q # p
      <4>1. ahead'[q] = ahead[q] /\ call'[q] = call[q] /\ pdoc'[q] = pdoc[q] /\ ~Idle(q)
        BY <1>c, <2>1, <2>3, <3>2 DEF Idle
      <4> QED BY <1>2, <2>1, <4>1, OthersKept
    <3> QED BY <3>1, <3>2
  <2> QED BY <1>a, <1>c, <2>1, <2>3, NoAnswer
<1>3. ASSUME Outside, Observe PROVE SInv'
  <2>1. /\ reply' = None /\ policies' = policies /\ granted' = granted
        /\ \/ UNCHANGED <<ahead, call, held, pdoc>>
           \/ \E p \in Procs : End(p)
    BY <1>3 DEF Outside, Seal, Unlock, Lock, Restart, LoginFails, Login, Expire, NoRequest,
                shares
  <2>2. ASSUME NEW q \in Procs, ~Idle(q)' PROVE Stores(q)' /\ Rightful(q)'
    <3>1. ahead'[q] = ahead[q] /\ call'[q] = call[q] /\ pdoc'[q] = pdoc[q] /\ ~Idle(q)
      <4>1. CASE UNCHANGED <<ahead, call, held, pdoc>>
        BY <2>2, <4>1 DEF Idle
      <4>2. ASSUME NEW p \in Procs, End(p)
            PROVE  ahead'[q] = ahead[q] /\ call'[q] = call[q] /\ pdoc'[q] = pdoc[q] /\ ~Idle(q)
        <5>1. q # p
          BY <1>c, <2>2, <4>2 DEF End, Idle
        <5> QED BY <1>c, <2>2, <4>2, <5>1 DEF End, Idle
      <4> QED BY <2>1, <4>1, <4>2
    <3> QED BY <1>3, <2>1, <3>1, OthersKept
  <2> QED BY <1>a, <1>c, <2>1, <2>2, NoAnswer
<1>4. CASE UNCHANGED vars
  <2>1. \A q \in Procs : /\ Idle(q)' = Idle(q) /\ Stores(q)' = Stores(q)
                         /\ Rightful(q)' = Rightful(q)
    BY <1>4 DEF vars, Idle, Stores, Rightful, Made, Changed
  <2>2. \A q \in Procs : ~Idle(q) => Stores(q) /\ Rightful(q)
    BY DEF SInv, Stores, Rightful
  <2>3. policies' = granted'
    BY <1>4, <1>c DEF vars
  <2>4. RefusedInOrder' /\ RevokedIsDenied'
    BY <1>4 DEF vars, SInv, RefusedInOrder, RevokedIsDenied
  <2> QED BY <1>a, <2>1, <2>2, <2>3, <2>4
<1> QED BY <1>1, <1>2, <1>3, <1>4 DEF Next

(* As long as changes of the shares do not overlap, the invariant holds.   *)
LEMMA SerialInductive == Spec /\ []NoOverlap => []SInv
<1>1. Init => SInv
  BY DEF Init, SInv, Idle, RefusedInOrder, RevokedIsDenied
<1>2. OInv /\ SInv /\ NoOverlap /\ [Next]_vars => SInv'
  BY SerialNext
<1> QED BY <1>1, <1>2, OrderInductive, PTL DEF Spec

(* A refusal tells the truth and no more, whatever happens to the vault    *)
(* and the sessions meanwhile: its reason was true at some moment of the   *)
(* request, and so were all that the gates before it ask for               *)
(* (app.py:228-250, main.py:177-195, kv_engine.py:64-95,                   *)
(* transit/service.py:82-89).  The policy document is not locked while a   *)
(* change reads and replaces it (policy.py:130-186), so that the shares    *)
(* are those that were granted only as long as no two changes overlap.     *)
THEOREM RefusalsAreTrue == Spec /\ []NoOverlap => []RefusedInOrder
<1>1. SInv => RefusedInOrder
  BY DEF SInv
<1> QED BY <1>1, SerialInductive, PTL

(* Whatever a request gives, its caller owned or was shared with him at    *)
(* some moment of the request, as long as no two changes overlap           *)
(* (kv_engine.py:170-247, transit/service.py:531-610).                     *)
THEOREM GivenByRight == Spec /\ []NoOverlap => []RevokedIsDenied
<1>1. SInv => RevokedIsDenied
  BY DEF SInv
<1> QED BY <1>1, SerialInductive, PTL

(* What MInv says of a request.                                            *)
Manages(p) == /\ call[p].by \in Callers[p] \cup {None}
              /\ front[p] = "cli" => call[p].op = "use"
              /\ Own(p) \/ Precedes(ahead[p], {"owner"}, {"replace"})

(* A request passes the gate of the owner only if its caller is the owner. *)
LEMMA PassesAsOwner ==
    ASSUME OInv, MInv, NEW p \in Procs, Continue(p), ~Idle(p)'
    PROVE  token'[p] \in Callers[p] \cup {None} /\ Manages(p)'
<1>t. /\ ahead \in [Procs -> Seq(Steps)] /\ call \in [Procs -> Call \cup {None}]
      /\ token \in [Procs -> Users \cup {None}]
  BY DEF OInv, TypeOK
<1>0. ~Idle(p)
  BY ContinueKinds
<1>h. /\ ahead[p] \in Seq(Steps) /\ ahead[p] # <<>> /\ call[p] \in Call /\ Manages(p)
      /\ Head(ahead[p]) \in Gates(p, call[p]) /\ token[p] \in Callers[p] \cup {None}
  <2>1. At(p, Head(ahead[p]))
    BY <1>0 DEF At
  <2> QED BY <1>0, <2>1, GateTraces DEF MInv, Manages
<1>r. ASSUME NEW o, NEW gave, Return(p, o, gave) PROVE FALSE
  BY <1>t, <1>r DEF Return, End, Idle
<1>f. front' = front
  BY DEF Continue, CheckUnlocked, Ensure, Prompt, TakeDek, CheckSession, CheckEntitled,
         Work, List, ReadAcl, CheckOwner, ReadPolicies, ReplacePolicies
<1>1. ASSUME ahead'[p] = Tail(ahead[p]), call'[p] = call[p], token' = token,
             Head(ahead[p]) = "owner" => Own(p)
      PROVE  token'[p] \in Callers[p] \cup {None} /\ Manages(p)'
  <2>1. Own(p)' = Own(p)
    BY <1>1 DEF Own
  <2>2. Own(p) \/ Precedes(Tail(ahead[p]), {"owner"}, {"replace"})
    <3>1. CASE Head(ahead[p]) = "owner"
      BY <1>1, <3>1
    <3>2. CASE Head(ahead[p]) # "owner"
      BY <1>h, <3>2, TailPrecedes DEF Manages
    <3> QED BY <3>1, <3>2
  <2> QED BY <1>1, <1>f, <1>h, <2>1, <2>2 DEF Manages
<1>2. CASE Prompt(p)
  <2>1. CASE Pass(p) /\ token' = token
    <3>1. /\ ahead'[p] = Tail(ahead[p]) /\ call'[p] = call[p] /\ token' = token
          /\ Head(ahead[p]) # "owner"
      BY <1>2, <1>r, <1>t, <2>1 DEF Prompt, Pass, At
    <3> QED BY <1>1, <3>1
  <2>2. CASE ~(Pass(p) /\ token' = token)
    <3>1. PICK u \in Callers[p] :
             /\ token' = [token EXCEPT ![p] = u] /\ call' = [call EXCEPT ![p].by = u]
             /\ ahead' = [ahead EXCEPT ![p] = Tail(@)]
      BY <1>2, <1>r, <2>2 DEF Prompt
    <3>2. call[p].op = "use"
      <4>1. Head(ahead[p]) = "prompt"
        BY <1>2 DEF Prompt, At
      <4>2. front[p] = "cli"
        BY <1>h, <4>1 DEF Gates
      <4> QED BY <1>h, <4>2 DEF Manages
    <3>3. ~Precedes(Tail(ahead[p]), {"owner"}, {"replace"}) => FALSE
      <4>1. ahead[p] \in Seq(Gates(p, call[p]))
        BY <1>0 DEF OInv, InOrder
      <4>2. Tail(ahead[p]) \in Seq(Gates(p, call[p]))
        BY <1>h, <4>1, HeadTailProperties
      <4>3. "replace" \notin Gates(p, call[p])
        BY <1>h, <3>2, GateOps
      <4>4. \A j \in 1 .. Len(Tail(ahead[p])) : Tail(ahead[p])[j] \in Gates(p, call[p])
        BY <4>2, ElementOfSeq
      <4> QED BY <4>3, <4>4 DEF Precedes
    <3>4. /\ ahead'[p] = Tail(ahead[p]) /\ call'[p] = [call[p] EXCEPT !.by = u]
          /\ token'[p] = u
      BY <1>t, <3>1
    <3>5. call'[p].by = u /\ call'[p].op = "use"
      BY <1>h, <3>2, <3>4 DEF Call
    <3> QED BY <3>3, <3>4, <3>5 DEF Manages
  <2> QED BY <2>1, <2>2
<1>3. CASE CheckOwner(p)
  <2>1. /\ Pass(p) /\ token' = token /\ \A r \in call[p].about : call[p].by = Owner[r]
        /\ Head(ahead[p]) = "owner"
    BY <1>3, <1>r DEF CheckOwner, At
  <2>2. ahead'[p] = Tail(ahead[p]) /\ call'[p] = call[p]
    BY <1>t, <2>1 DEF Pass
  <2>3. call[p].about # {}
    <3>1. call[p].op # "list"
      BY <1>h, <2>1, GateOps
    <3> QED BY <1>h, <3>1, CallFields
  <2>4. Own(p)
    BY <2>1, <2>3 DEF Own
  <2> QED BY <1>1, <2>1, <2>2, <2>4
<1>4. CASE ReadPolicies(p)
  <2>1. /\ ahead' = [ahead EXCEPT ![p] = Tail(@)] /\ call' = call /\ token' = token
        /\ Head(ahead[p]) # "owner"
    BY <1>4, <1>r DEF ReadPolicies, At
  <2>2. ahead'[p] = Tail(ahead[p]) /\ call'[p] = call[p]
    BY <1>t, <2>1
  <2> QED BY <1>1, <2>1, <2>2
<1>5. CASE ~(Prompt(p) \/ CheckOwner(p) \/ ReadPolicies(p))
  <2>1. Pass(p) /\ token' = token /\ Head(ahead[p]) # "owner"
    BY <1>5, <1>r DEF Continue, CheckUnlocked, Ensure, TakeDek, CheckSession, CheckEntitled,
       Work, List, ReadAcl, ReplacePolicies, At
  <2>2. ahead'[p] = Tail(ahead[p]) /\ call'[p] = call[p]
    BY <1>t, <2>1 DEF Pass
  <2> QED BY <1>1, <2>1, <2>2
<1> QED BY <1>2, <1>3, <1>4, <1>5

(* Who changes shares is an owner who calls the process.                   *)
LEMMA ManagersNext ==
    ASSUME OInv, MInv, [Next]_vars
    PROVE  MInv'
<1>t. /\ ahead \in [Procs -> Seq(Steps)] /\ call \in [Procs -> Call \cup {None}]
      /\ token \in [Procs -> Users \cup {None}]
  BY DEF OInv, TypeOK
<1>m. /\ \A q \in Procs : token[q] \in Callers[q] \cup {None}
      /\ \A q \in Procs : ~Idle(q) => Manages(q)
  BY DEF MInv, Manages
<1>a. ASSUME \A q \in Procs : token'[q] \in Callers[q] \cup {None},
             \A q \in Procs : ~Idle(q)' => Manages(q)'
      PROVE  MInv'
  BY <1>a DEF MInv, Manages
<1>k. ASSUME NEW q \in Procs, ~Idle(q), ahead'[q] = ahead[q], call'[q] = call[q],
             front' = front
      PROVE  Manages(q)'
  BY <1>k, <1>m DEF Manages, Own
<1>1. ASSUME NEW p \in Procs, Continue(p) PROVE MInv'
  <2>1. front' = front /\ \A q \in Procs \ {p} : token'[q] = token[q]
    BY <1>1, <1>t DEF Continue, CheckUnlocked, Ensure, Prompt, TakeDek, CheckSession,
       CheckEntitled, Work, List, ReadAcl, CheckOwner, ReadPolicies, ReplacePolicies
  <2>2. token'[p] \in Callers[p] \cup {None}
    BY <1>1, <1>t, <1>m DEF Continue, CheckUnlocked, Ensure, Prompt, TakeDek, CheckSession,
       CheckEntitled, Work, List, ReadAcl, CheckOwner, ReadPolicies, ReplacePolicies
  <2>3. ASSUME NEW q \in Procs, ~Idle(q)' PROVE Manages(q)'
    <3>1. CASE q = p
      BY <1>1, <2>3, <3>1, PassesAsOwner
    <3>2. CASE q # p
      <4>1. ahead'[q] = ahead[q] /\ call'[q] = call[q] /\ ~Idle(q)
        BY <1>1, <2>3, <3>2, ContinueKinds DEF Idle
      <4> QED BY <1>k, <2>1, <4>1
    <3> QED BY <3>1, <3>2
  <2>4. \A q \in Procs : token'[q] \in Callers[q] \cup {None}
    BY <1>m, <2>1, <2>2
  <2> QED BY <1>a, <2>3, <2>4
<1>2. ASSUME NEW p \in Procs, NEW c \in Call, Arrive(p, c) PROVE MInv'
  <2>1. /\ ahead' = [ahead EXCEPT ![p] = Way(p, c)] /\ call' = [call EXCEPT ![p] = c]
        /\ front' = front /\ token' = token /\ Asks(p, c)
    BY <1>2 DEF Arrive
  <2>2. ASSUME NEW q \in Procs, ~Idle(q)' PROVE Manages(q)'
    <3>1. CASE q = p
      <4>1. ahead'[p] = Way(p, c) /\ call'[p] = c
        BY <1>t, <2>1
      <4>2. c.by \in Callers[p] \cup {None} /\ (front[p] = "cli" => c.op = "use")
        BY <1>m, <2>1 DEF Asks, Menus
      <4>3. Precedes(Way(p, c), {"owner"}, {"replace"})
        BY WayInOrder
      <4> QED BY <2>1, <3>1, <4>1, <4>2, <4>3 DEF Manages
    <3>2. CASE q # p
      <4>1. ahead'[q] = ahead[q] /\ call'[q] = call[q] /\ ~Idle(q)
        BY <1>t, <2>1, <2>2, <3>2 DEF Idle
      <4> QED BY <1>k, <2>1, <4>1
    <3> QED BY <3>1, <3>2
  <2> QED BY <1>a, <1>m, <2>1, <2>2
<1>3. ASSUME Outside PROVE MInv'
  <2>1. /\ front' = front
        /\ \/ UNCHANGED <<ahead, call, held, pdoc>>
           \/ \E p \in Procs : End(p)
    BY <1>3 DEF Outside, Seal, Unlock, Lock, Restart, LoginFails, Login, Expire, NoRequest
  <2>2. \A q \in Procs : token'[q] \in Callers[q] \cup {None}
    <3>1. \/ token' = token
          \/ \E p \in Procs : token' = [token EXCEPT ![p] = None]
          \/ \E p \in Procs : \E u \in Callers[p] : token' = [token EXCEPT ![p] = u]
      BY <1>3 DEF Outside, Seal, Unlock, Lock, Restart, LoginFails, Login, Expire
    <3> QED BY <1>m, <1>t, <3>1
  <2>3. ASSUME NEW q \in Procs, ~Idle(q)' PROVE Manages(q)'
    <3>1. ahead'[q] = ahead[q] /\ call'[q] = call[q] /\ ~Idle(q)
      <4>1. CASE UNCHANGED <<ahead, call, held, pdoc>>
        BY <2>3, <4>1 DEF Idle
      <4>2. ASSUME NEW p \in Procs, End(p)
            PROVE  ahead'[q] = ahead[q] /\ call'[q] = call[q] /\ ~Idle(q)
        <5>1. q # p
          BY <1>t, <2>3, <4>2 DEF End, Idle
        <5> QED BY <1>t, <2>3, <4>2, <5>1 DEF End, Idle
      <4> QED BY <2>1, <4>1, <4>2
    <3> QED BY <1>k, <2>1, <3>1
  <2> QED BY <1>a, <2>2, <2>3
<1>4. CASE UNCHANGED vars
  <2>1. \A q \in Procs : /\ Idle(q)' = Idle(q) /\ Manages(q)' = Manages(q)
                         /\ token'[q] = token[q]
    BY <1>4 DEF vars, Idle, Manages, Own
  <2> QED BY <1>a, <1>m, <2>1
<1> QED BY <1>1, <1>2, <1>3, <1>4 DEF Next

(* When one process serves the requests of all owners, changes of the      *)
(* shares do not overlap: of its requests one at a time is followed, and   *)
(* only an owner gets to change his shares (kv_engine.py:83-140).  This    *)
(* is the assumption of the two theorems above, from the constants alone.  *)
THEOREM OneManagerSuffices == OwnersTogether => (Spec => []NoOverlap)
<1>1. Init => MInv
  BY DEF Init, MInv, Idle
<1>2. OInv /\ MInv /\ [Next]_vars => MInv'
  BY ManagersNext
<1>3. ASSUME OwnersTogether, OInv, MInv PROVE NoOverlap
  <2>1. ASSUME NEW p \in Procs, At(p, "replace")
        PROVE  \E r \in Resources : Owner[r] \in Callers[p]
    <3>1. ~Idle(p) /\ call[p] \in Call /\ ~Precedes(ahead[p], {"owner"}, {"replace"})
      BY <1>3, <2>1, GateTraces
    <3>2. Own(p) /\ call[p].by \in Callers[p] \cup {None}
      BY <1>3, <3>1 DEF MInv
    <3>3. PICK r \in call[p].about : Owner[r] = call[p].by
      BY <3>2 DEF Own
    <3>4. r \in Resources
      BY <3>1, CallFields
    <3>5. Owner[r] \in Users /\ None \notin Users
      BY <3>4, ServiceAssumption
    <3> QED BY <3>2, <3>3, <3>4, <3>5
  <2> QED BY <1>3, <2>1 DEF OwnersTogether, NoOverlap
<1>4. OwnersTogether /\ OInv /\ MInv => NoOverlap
  BY <1>3
<1>5. Spec => []MInv
  BY <1>1, <1>2, OrderInductive, PTL DEF Spec
<1>6. ASSUME OwnersTogether PROVE OInv /\ MInv => NoOverlap
  BY <1>4, <1>6
<1>7. ASSUME OwnersTogether PROVE Spec => []NoOverlap
  BY <1>5, <1>6, <1>7, OrderInductive, PTL
<1> QED BY <1>7
==============================================================================
