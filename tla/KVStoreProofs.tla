--------------------------- MODULE KVStoreProofs ---------------------------
(***************************************************************************)
(* Proofs about KVStore for every set of tasks, users, paths, owners and   *)
(* values.                                                                 *)
(***************************************************************************)
EXTENDS KVStore, TLAPS

(* What a call carries from step to step: an idle task nothing, a write    *)
(* that has got its record a history that ends in its value, a save the    *)
(* document to write.                                                      *)
CallsAgree ==
    \A t \in Tasks :
        /\ pc[t] = "idle" => call[t] = None
        /\ call[t] = None => record[t] = None /\ store[t] = None /\ pdoc[t] = None
        /\ pc[t] # "idle" => call[t] # None /\ given[t] = None
        /\ pc[t] \in {"get", "set"} => call[t].op = "write"
        /\ pc[t] \in {"open", "save"} =>
              call[t].op \in {"write", "delete"} /\ store[t] # None
        /\ pc[t] \in {"set", "open", "save"} /\ call[t].op = "write" =>
              record[t] # None
        /\ record[t] # None =>
              /\ call[t].op = "write"
              /\ record[t] # <<>>
              /\ record[t][Len(record[t])] = call[t].value
        /\ pc[t] \in {"exists", "delete", "dropAcl"} => call[t].op = "delete"
        /\ pc[t] = "read" => call[t].op = "read"
        /\ pc[t] = "change" => call[t].op \in {"grant_access", "revoke_access"}
        /\ pc[t] = "storeAcl" =>
              /\ call[t].op \in {"delete", "grant_access", "revoke_access"}
              /\ pdoc[t] # None

TInv == TypeOK /\ CallsAgree

Labels == {"idle", "get", "set", "exists", "delete", "open", "save", "dropAcl",
           "read", "change", "storeAcl"}

(* The variables that hold the calls in progress, and the history.         *)
LocalType ==
    /\ pc \in [Tasks -> Labels]
    /\ call \in [Tasks -> Call \cup {None}]
    /\ record \in [Tasks -> Seq(Values) \cup {None}]
    /\ store \in [Tasks -> Doc \cup {None}]
    /\ pdoc \in [Tasks -> PolicyDoc \cup {None}]
    /\ last \in [Tasks -> Outcomes]
    /\ given \in [Tasks -> Version \cup {None}]
HistoryType ==
    /\ used \subseteq Values /\ attempted \subseteq Version
    /\ answered \subseteq Version /\ removed \subseteq Values
    /\ calm \in BOOLEAN

(* After a step, the types of its parts make the type invariant.           *)
LEMMA TypeJoin ==
    /\ LocalType' /\ HistoryType'
    /\ doc' \in Doc \cup {Empty, Garbage} /\ policies' \in PolicyDoc
    => TypeOK'
BY DEF TypeOK, LocalType, HistoryType, Labels

(* The fields that a call has, by its operation.                           *)
LEMMA CallFields ==
    ASSUME NEW c \in Call
    PROVE  /\ c.path \in Paths /\ c # None
           /\ c.op \in {"write", "read", "delete", "grant_access", "revoke_access"}
           /\ c.op = "write" => c.value \in Values
           /\ c.op = "read" => c.number \in Nat
           /\ c.op \in {"grant_access", "revoke_access"} =>
                 c.to \in Users /\ c.perms \in SUBSET Permissions
BY NoneAssumption DEF Call

(* What a load returns is a document, whatever is in the file.             *)
LEMMA LoadsType == TInv => Loads \subseteq Doc
<1>1. Nothing \in Doc
  <2>1. <<>> \in Seq(Values)
    OBVIOUS
  <2> QED BY <2>1 DEF Doc, Nothing
<1> QED BY <1>1 DEF TInv, TypeOK, Loads

(* A call that ends leaves nothing behind but its outcome.                 *)
LEMMA AnswerInv ==
    ASSUME TInv, NEW t \in Tasks, NEW o \in Outcomes,
           NEW v \in Version \cup {None}, Answer(t, o, v)
    PROVE  LocalType' /\ CallsAgree'
<1>1. LocalType'
  BY DEF TInv, TypeOK, LocalType, Labels, Answer
<1>2. CallsAgree'
  BY DEF TInv, TypeOK, CallsAgree, Answer
<1> QED BY <1>1, <1>2

(* What is remembered keeps its type.                                      *)
LEMMA RememberType ==
    ASSUME TInv, NEW t \in Tasks, NEW ok, Calm(t, ok),
           NEW a \in SUBSET Version, NEW r \in SUBSET Values, Remember(a, r),
           used' \subseteq Values, attempted' \subseteq Version
    PROVE  HistoryType'
BY DEF Calm, Remember, HistoryType

(* A step that stores and removes no secret keeps the type of the history. *)
LEMMA QuietType ==
    ASSUME TInv, NEW t \in Tasks, NEW ok, Quiet(t, ok)
    PROVE  HistoryType'
BY RememberType DEF Quiet, TInv, TypeOK

(* A call that ends without a write keeps every type.                      *)
LEMMA RefusalType ==
    ASSUME TInv, NEW t \in Tasks, NEW o \in Outcomes, Return(t, o),
           NEW ok, Quiet(t, ok), UNCHANGED policies,
           doc' \in Doc \cup {Empty, Garbage}
    PROVE  TInv'
<1>1. LocalType' /\ CallsAgree'
  BY AnswerInv DEF Return
<1> QED BY <1>1, QuietType, TypeJoin DEF TInv, TypeOK

(* A call that begins puts down what it was asked.                         *)
LEMMA BeginType ==
    ASSUME TInv, NEW t \in Tasks, pc[t] = "idle", NEW c \in Call, NEW l \in Labels,
           Begin(t, c, l), HistoryType', UNCHANGED files,
           \/ l = "get" /\ c.op = "write"
           \/ l = "exists" /\ c.op = "delete"
           \/ l = "read" /\ c.op = "read"
           \/ l = "change" /\ c.op \in {"grant_access", "revoke_access"}
    PROVE  TInv'
<1>1. LocalType'
  BY DEF TInv, TypeOK, LocalType, Labels, Begin, Outcomes
<1>2. CallsAgree'
  BY CallFields DEF TInv, TypeOK, CallsAgree, Begin
<1> QED BY <1>1, <1>2, TypeJoin DEF TInv, TypeOK, files

(* The steps of writing.                                                   *)
LEMMA WriteStepsType ==
    ASSUME TInv, NEW t \in Tasks,
           \/ \E p \in Paths, u \in Users : Write(t, u, p)
           \/ WriteGet(t) \/ StoreSet(t) \/ SaveOpen(t) \/ SaveClose(t)
    PROVE  TInv'
<1> USE DEF TInv
<1>1. ASSUME NEW p \in Paths, NEW u \in Users, Write(t, u, p)
      PROVE  TInv'
  <2>1. PICK v \in Values \ used :
           /\ used' = used \cup {v}
           /\ Begin(t, [op |-> "write", path |-> p, value |-> v], "get")
    BY <1>1 DEF Write
  <2> DEFINE c == [op |-> "write", path |-> p, value |-> v]
  <2>2. c \in Call /\ c.op = "write"
    BY DEF Call
  <2>3. HistoryType'
    BY <1>1, <2>1, RememberType DEF Write, TypeOK
  <2>4. pc[t] = "idle" /\ UNCHANGED files /\ "get" \in Labels
    BY <1>1 DEF Write, Labels
  <2> HIDE DEF c
  <2> QED BY <2>1, <2>2, <2>3, <2>4, BeginType DEF c
<1>2. CASE WriteGet(t)
  <2>1. PICK d \in Loads :
           /\ record' = [record EXCEPT
                            ![t] = Append(d[call[t].path], call[t].value)]
           /\ Attempt(t, Len(Append(d[call[t].path], call[t].value)))
           /\ Calm(t, Sound(d))
    BY <1>2 DEF WriteGet
  <2>2. call[t].path \in Paths /\ call[t].value \in Values /\ call[t].op = "write"
    BY <1>2, CallFields DEF WriteGet, TypeOK, CallsAgree
  <2> DEFINE h == d[call[t].path]
             r == Append(h, call[t].value)
  <2>3. h \in Seq(Values)
    BY <2>2, LoadsType DEF Doc
  <2>4. r \in Seq(Values) /\ r # <<>> /\ r[Len(r)] = call[t].value /\ Len(r) \in Nat \ {0}
    BY <2>2, <2>3
  <2>5. attempted' \subseteq Version
    BY <2>1, <2>2, <2>4 DEF Attempt, Version, TypeOK
  <2>6. HistoryType'
    BY <1>2, <2>1, <2>5, RememberType DEF WriteGet, TypeOK
  <2>7. LocalType'
    BY <1>2, <2>1, <2>4 DEF WriteGet, Goto, LocalType, Labels, TypeOK
  <2>8. CallsAgree'
    <3> HIDE DEF r
    <3>1. record' = [record EXCEPT ![t] = r]
      BY <2>1 DEF r
    <3> QED BY ZenonT(40), <1>2, <2>2, <2>4, <3>1, NoneAssumption
            DEF WriteGet, Goto, TypeOK, CallsAgree
  <2> QED BY <1>2, <2>6, <2>7, <2>8, TypeJoin DEF WriteGet, files, TypeOK
<1>3. CASE StoreSet(t)
  <2>1. PICK d \in Loads :
           /\ store' = [store EXCEPT ![t] = [d EXCEPT ![call[t].path] = record[t]]]
           /\ Quiet(t, Sound(d))
    BY <1>3 DEF StoreSet
  <2>2. call[t].path \in Paths /\ record[t] \in Seq(Values) /\ call[t].op = "write"
    BY <1>3, CallFields DEF StoreSet, TypeOK, CallsAgree
  <2>3. [d EXCEPT ![call[t].path] = record[t]] \in Doc
    BY <2>2, LoadsType DEF Doc
  <2>4. LocalType'
    BY <1>3, <2>1, <2>3 DEF StoreSet, Goto, LocalType, Labels, TypeOK
  <2>5. CallsAgree'
    <3> DEFINE e == [d EXCEPT ![call[t].path] = record[t]]
    <3> HIDE DEF e
    <3>1. store' = [store EXCEPT ![t] = e] /\ e # None
      BY <2>1, <2>3, NoneAssumption DEF e
    <3> QED BY SMTT(30), <1>3, <2>2, <3>1 DEF StoreSet, Goto, TypeOK, CallsAgree
  <2> QED BY <1>3, <2>1, <2>4, <2>5, QuietType, TypeJoin DEF StoreSet, files, TypeOK
<1>4. CASE SaveOpen(t)
  <2>1. LocalType' /\ CallsAgree'
    BY <1>4 DEF SaveOpen, Goto, locals, LocalType, Labels, TypeOK, CallsAgree
  <2> QED BY <1>4, <2>1, QuietType, TypeJoin DEF SaveOpen, TypeOK
<1>5. CASE SaveClose(t)
  <2>1. doc' \in Doc \cup {Empty, Garbage} /\ call[t].path \in Paths
    BY <1>5, CallFields DEF SaveClose, Written, TypeOK, CallsAgree
  <2>2. CASE call[t].op = "write"
    <3>1. Answered(t) /\ Return(t, "written")
      BY <1>5, <2>2 DEF SaveClose
    <3> DEFINE w == [path |-> call[t].path, number |-> Len(record[t]),
                     value |-> call[t].value]
    <3>2. w \in Version
      <4>1. record[t] \in Seq(Values) /\ record[t] # <<>> /\ call[t].value \in Values
        BY <1>5, <2>2, CallFields DEF SaveClose, TypeOK, CallsAgree
      <4> QED BY <2>1, <4>1 DEF Version
    <3>3. HistoryType'
      BY <1>5, <3>1, <3>2, RememberType DEF SaveClose, Answered, TypeOK
    <3>4. LocalType' /\ CallsAgree'
      BY <3>1, AnswerInv DEF Return, Outcomes
    <3> QED BY <1>5, <2>1, <3>3, <3>4, TypeJoin DEF SaveClose, TypeOK
  <2>3. CASE call[t].op = "delete"
    <3>1. Forget(call[t].path) /\ Goto(t, "dropAcl") /\ UNCHANGED locals
      BY <1>5, <2>3 DEF SaveClose
    <3> DEFINE gone == {w \in answered : w.path = call[t].path}
    <3>2. answered \ gone \in SUBSET Version
          /\ removed \cup {w.value : w \in gone} \in SUBSET Values
      BY DEF TypeOK, Version
    <3>3. HistoryType'
      BY <1>5, <3>1, <3>2, RememberType DEF SaveClose, Forget, TypeOK
    <3>4. LocalType' /\ CallsAgree'
      BY <1>5, <2>3, <3>1 DEF SaveClose, Goto, locals, LocalType, Labels, TypeOK, CallsAgree
    <3> QED BY <1>5, <2>1, <3>3, <3>4, TypeJoin DEF SaveClose, TypeOK
  <2> QED BY <1>5, <2>2, <2>3 DEF SaveClose
<1> QED BY <1>1, <1>2, <1>3, <1>4, <1>5

(* The steps of deleting.                                                  *)
LEMMA DeleteStepsType ==
    ASSUME TInv, NEW t \in Tasks,
           \/ \E p \in Paths, u \in Users : Delete(t, u, p)
           \/ Exists(t) \/ StoreDelete(t) \/ DropAcl(t)
    PROVE  TInv'
<1> USE DEF TInv
<1>1. ASSUME NEW p \in Paths, NEW u \in Users, Delete(t, u, p)
      PROVE  TInv'
  <2> DEFINE c == [op |-> "delete", path |-> p]
  <2>1. c \in Call /\ c.op = "delete" /\ "exists" \in Labels
    BY DEF Call, Labels
  <2>2. HistoryType' /\ pc[t] = "idle" /\ UNCHANGED files
    BY <1>1, QuietType DEF Delete
  <2> HIDE DEF c
  <2> QED BY <1>1, <2>1, <2>2, BeginType DEF c, Delete
<1>2. CASE StoreDelete(t)
  <2>1. call[t].path \in Paths /\ call[t].op = "delete" /\ record[t] = None
    BY <1>2, CallFields DEF StoreDelete, TypeOK, CallsAgree
  <2>2. PICK d \in Loads :
           /\ Calm(t, Sound(d))
           /\ \/ /\ Forget(call[t].path) /\ Goto(t, "dropAcl") /\ UNCHANGED store
              \/ /\ store' = [store EXCEPT ![t] = [d EXCEPT ![call[t].path] = <<>>]]
                 /\ Remember(answered, removed)
                 /\ Goto(t, "open")
    BY <1>2 DEF StoreDelete
  <2>3. CASE Forget(call[t].path) /\ Goto(t, "dropAcl") /\ UNCHANGED store
    <3> DEFINE gone == {w \in answered : w.path = call[t].path}
    <3>1. answered \ gone \in SUBSET Version
          /\ removed \cup {w.value : w \in gone} \in SUBSET Values
      BY DEF TypeOK, Version
    <3>2. HistoryType'
      BY <1>2, <2>2, <2>3, <3>1, RememberType DEF StoreDelete, Forget, TypeOK
    <3>3. LocalType' /\ CallsAgree'
      BY <1>2, <2>1, <2>3 DEF StoreDelete, Goto, LocalType, Labels, TypeOK, CallsAgree
    <3> QED BY <1>2, <3>2, <3>3, TypeJoin DEF StoreDelete, files, TypeOK
  <2>4. CASE /\ store' = [store EXCEPT ![t] = [d EXCEPT ![call[t].path] = <<>>]]
             /\ Remember(answered, removed)
             /\ Goto(t, "open")
    <3> DEFINE e == [d EXCEPT ![call[t].path] = <<>>]
    <3>1. e \in Doc /\ e # None
      <4>1. <<>> \in Seq(Values) /\ d \in Doc
        BY LoadsType
      <4> QED BY <2>1, <4>1, NoneAssumption DEF Doc
    <3>2. HistoryType'
      BY <1>2, <2>2, <2>4, RememberType DEF StoreDelete, TypeOK
    <3> HIDE DEF e
    <3>3. LocalType'
      BY <1>2, <2>4, <3>1 DEF StoreDelete, Goto, LocalType, Labels, TypeOK, e
    <3>4. store' = [store EXCEPT ![t] = e]
      BY <2>4 DEF e
    <3>5. CallsAgree'
      <4>1. /\ pc[t] = "delete" /\ pc' = [pc EXCEPT ![t] = "open"]
            /\ UNCHANGED <<call, record, pdoc, given>>
        BY <1>2, <2>4 DEF StoreDelete, Goto
      <4> QED BY SMTT(30), <2>1, <3>1, <3>4, <4>1 DEF TypeOK, CallsAgree
    <3> QED BY <1>2, <3>2, <3>3, <3>5, TypeJoin DEF StoreDelete, files, TypeOK
  <2> QED BY <2>2, <2>3, <2>4
<1>3. CASE DropAcl(t)
  <2>1. CASE policies[call[t].path] = NoGrants
    BY <1>3, <2>1, RefusalType DEF DropAcl, files, Outcomes, TypeOK
  <2>2. CASE policies[call[t].path] # NoGrants
    <3>1. call[t].path \in Paths /\ call[t].op = "delete"
      BY <1>3, CallFields DEF DropAcl, TypeOK, CallsAgree
    <3>2. [policies EXCEPT ![call[t].path] = NoGrants] \in PolicyDoc
      BY <3>1 DEF TypeOK, PolicyDoc, NoGrants
    <3>3. LocalType' /\ CallsAgree'
      BY SMTT(30), <1>3, <2>2, <3>1, <3>2, NoneAssumption
         DEF DropAcl, Goto, LocalType, Labels, TypeOK, CallsAgree
    <3> QED BY <1>3, <3>3, QuietType, TypeJoin DEF DropAcl, files, TypeOK
  <2> QED BY <2>1, <2>2
<1>4. CASE Exists(t)
  <2>1. PICK d \in Loads :
           /\ Return(t, "NOT_FOUND") \/ (Goto(t, "delete") /\ UNCHANGED locals)
           /\ Quiet(t, Sound(d))
    BY <1>4 DEF Exists
  <2>2. CASE Return(t, "NOT_FOUND")
    BY <1>4, <2>1, <2>2, RefusalType DEF Exists, files, Outcomes, TypeOK
  <2>3. CASE Goto(t, "delete") /\ UNCHANGED locals
    <3>1. LocalType' /\ CallsAgree'
      BY <1>4, <2>3 DEF Exists, Goto, locals, LocalType, Labels, TypeOK, CallsAgree
    <3> QED BY <1>4, <2>1, <3>1, QuietType, TypeJoin DEF Exists, files, TypeOK
  <2> QED BY <2>1, <2>2, <2>3
<1> QED BY <1>1, <1>2, <1>3, <1>4

(* The steps of reading, of granting and of withdrawing access.            *)
LEMMA OtherStepsType ==
    ASSUME TInv, NEW t \in Tasks,
           \/ \E p \in Paths, u \in Users :
                 \/ \E n \in 0 .. Cardinality(Values) : Read(t, u, p, n)
                 \/ \E op \in {"grant_access", "revoke_access"}, P \in Asked :
                       ChangeAccess(t, op, p, u, P)
           \/ Denied(t) \/ ReadLoad(t) \/ Grant(t) \/ Withdraw(t) \/ StoreAcl(t)
           \/ Fault(t) \/ Restart(t)
    PROVE  TInv'
<1> USE DEF TInv
<1>1. ASSUME NEW p \in Paths, NEW u \in Users, NEW n \in 0 .. Cardinality(Values),
             Read(t, u, p, n)
      PROVE  TInv'
  <2> DEFINE c == [op |-> "read", path |-> p, number |-> n]
  <2>1. n \in Nat
    OBVIOUS
  <2>2. c \in Call /\ c.op = "read" /\ "read" \in Labels
    BY <2>1 DEF Call, Labels
  <2>3. HistoryType' /\ pc[t] = "idle" /\ UNCHANGED files
    BY <1>1, QuietType DEF Read
  <2> HIDE DEF c
  <2> QED BY <1>1, <2>2, <2>3, BeginType DEF c, Read
<1>2. ASSUME NEW p \in Paths, NEW u \in Users,
             NEW op \in {"grant_access", "revoke_access"}, NEW P \in Asked,
             ChangeAccess(t, op, p, u, P)
      PROVE  TInv'
  <2> DEFINE c == [op |-> op, path |-> p, to |-> u, perms |-> P]
  <2>1. PICK d \in Loads :
           /\ Return(t, "NOT_FOUND") \/ Return(t, "INVALID_INPUT") \/ Begin(t, c, "change")
           /\ Quiet(t, Sound(d))
    BY <1>2 DEF ChangeAccess
  <2>2. CASE Return(t, "NOT_FOUND") \/ Return(t, "INVALID_INPUT")
    BY <1>2, <2>1, <2>2, RefusalType DEF ChangeAccess, files, Outcomes, TypeOK
  <2>3. CASE Begin(t, c, "change")
    <3>1. c \in Call /\ c.op \in {"grant_access", "revoke_access"} /\ "change" \in Labels
      BY KVAssumption DEF Call, Labels
    <3>2. HistoryType' /\ pc[t] = "idle" /\ UNCHANGED files
      BY <1>2, <2>1, QuietType DEF ChangeAccess
    <3> HIDE DEF c
    <3> QED BY <2>3, <3>1, <3>2, BeginType
  <2> QED BY <2>1, <2>2, <2>3
<1>3. CASE Denied(t)
  BY <1>3, RefusalType DEF Denied, files, Outcomes, TypeOK
<1>4. CASE ReadLoad(t)
  <2>1. call[t].path \in Paths /\ call[t].number \in Nat
    BY <1>4, CallFields DEF ReadLoad, TypeOK, CallsAgree
  <2>2. PICK d \in Loads :
          LET h == d[call[t].path]
              n == IF call[t].number = 0 THEN Len(h) ELSE call[t].number
          IN  /\ \/ n \notin 1 .. Len(h) /\ Return(t, "NOT_FOUND")
                 \/ /\ n \in 1 .. Len(h)
                    /\ Answer(t, "read", [path |-> call[t].path, number |-> n,
                                          value |-> h[n]])
              /\ Quiet(t, Sound(d))
    BY <1>4 DEF ReadLoad
  <2> DEFINE h == d[call[t].path]
             n == IF call[t].number = 0 THEN Len(h) ELSE call[t].number
             w == [path |-> call[t].path, number |-> n, value |-> h[n]]
  <2>3. CASE Return(t, "NOT_FOUND")
    BY <1>4, <2>2, <2>3, RefusalType DEF ReadLoad, files, Outcomes, TypeOK
  <2>4. CASE n \in 1 .. Len(h) /\ Answer(t, "read", w)
    <3>1. h \in Seq(Values)
      BY <2>1, LoadsType DEF Doc
    <3>2. w \in Version
      BY <2>1, <2>4, <3>1 DEF Version
    <3>3. LocalType' /\ CallsAgree'
      <4> HIDE DEF w
      <4> QED BY <2>4, <3>2, AnswerInv DEF Outcomes
    <3> QED BY <1>4, <2>2, <3>3, QuietType, TypeJoin DEF ReadLoad, files, TypeOK
  <2> QED BY <2>2, <2>3, <2>4
<1>5. ASSUME pc[t] = "change", NEW d \in PolicyDoc,
             pdoc' = [pdoc EXCEPT ![t] = d], Goto(t, "storeAcl"),
             UNCHANGED <<call, record, store, last, given, files>>, Quiet(t, TRUE)
      PROVE  TInv'
  <2>1. LocalType' /\ CallsAgree'
    BY <1>5, NoneAssumption DEF Goto, LocalType, Labels, TypeOK, CallsAgree
  <2> QED BY <1>5, <2>1, QuietType, TypeJoin DEF files, TypeOK
<1>6. ASSUME pc[t] = "change"
      PROVE  /\ call[t].path \in Paths /\ call[t].to \in Users
             /\ call[t].perms \in SUBSET Permissions
  BY <1>6, CallFields DEF TypeOK, CallsAgree
<1>7. CASE Grant(t)
  <2>1. [policies EXCEPT ![call[t].path][call[t].to] = @ \cup call[t].perms]
           \in PolicyDoc
    BY <1>6, <1>7 DEF Grant, TypeOK, PolicyDoc
  <2> QED BY <1>5, <1>7, <2>1 DEF Grant
<1>8. CASE Withdraw(t)
  <2>1. [policies EXCEPT ![call[t].path][call[t].to] = @ \ call[t].perms]
           \in PolicyDoc
    BY SMTT(30), <1>6, <1>8 DEF Withdraw, TypeOK, PolicyDoc
  <2>2. ASSUME Return(t, "done") PROVE TInv'
    BY <1>8, <2>2, RefusalType DEF Withdraw, files, Outcomes, TypeOK
  <2> QED BY <1>5, <1>8, <2>1, <2>2 DEF Withdraw
<1>9. CASE StoreAcl(t)
  <2>1. PICK o \in Outcomes : Return(t, o)
    BY <1>9 DEF StoreAcl, Outcomes
  <2>2. LocalType' /\ CallsAgree'
    BY <2>1, AnswerInv DEF Return
  <2>3. policies' \in PolicyDoc
    BY <1>9 DEF StoreAcl, TypeOK, CallsAgree
  <2> QED BY <1>9, <2>2, <2>3, QuietType, TypeJoin DEF StoreAcl, TypeOK
<1>10. CASE Fault(t)
  <2>1. PICK o \in Outcomes : Return(t, o)
    BY <1>10 DEF Fault, Outcomes
  <2> QED BY <1>10, <2>1, RefusalType DEF Fault, TypeOK
<1>11. CASE Restart(t)
  BY <1>11, RefusalType DEF Restart, files, Outcomes, TypeOK
<1> QED BY <1>1, <1>2, <1>3, <1>4, <1>7, <1>8, <1>9, <1>10, <1>11

(* The types hold at the start ...                                         *)
LEMMA InitType == Init => TInv
BY DEF Init, TInv, TypeOK, CallsAgree, Doc, Nothing, PolicyDoc, NoGrants, Outcomes

(* ... after each step of a call ...                                       *)
LEMMA StepType ==
    ASSUME TInv, NEW t \in Tasks, Step(t)
    PROVE  TInv'
BY WriteStepsType, DeleteStepsType, OtherStepsType DEF Step

(* ... and so in every reachable state.                                    *)
LEMMA TypeInductive == Spec => []TInv
<1>1. ASSUME TInv, [Next]_vars PROVE TInv'
  <2>1. CASE UNCHANGED vars
    BY <1>1, <2>1 DEF vars, TInv, TypeOK, CallsAgree
  <2> QED BY <1>1, <2>1, StepType DEF Next
<1> QED BY <1>1, InitType, PTL DEF Spec

(* The files, the calls in progress and the history keep their shape: the  *)
(* document on disk is whole, empty or garbage (storage.py:15-41).         *)
THEOREM TypeCorrect == Spec => []TypeOK
<1>1. TInv => TypeOK
  BY DEF TInv
<1> QED BY <1>1, TypeInductive, PTL
-----------------------------------------------------------------------------
(* Every version in the document on disk, in a document about to be saved  *)
(* and in a history about to be stored was made by a write, under that     *)
(* number.                                                                 *)
Made(h, p) ==
    \A i \in 1 .. Len(h) : [path |-> p, number |-> i, value |-> h[i]] \in attempted

Traced ==
    /\ doc \in Doc => \A p \in Paths : Made(doc[p], p)
    /\ \A t \in Tasks : store[t] # None => \A p \in Paths : Made(store[t][p], p)
    /\ \A t \in Tasks : record[t] # None => Made(record[t], call[t].path)
    /\ ReadIsWritten

(* A value is drawn by one write and belongs to its path; what is          *)
(* remembered was written once.                                            *)
OneOrigin ==
    /\ \A w, x \in attempted : w.value = x.value => w.path = x.path
    /\ \A w \in attempted : w.value \in used
    /\ \A t \in Tasks :
          call[t] # None /\ call[t].op = "write" => call[t].value \in used
    /\ \A t \in Tasks : pc[t] = "get" =>
          /\ \A w \in attempted : w.value # call[t].value
          /\ \A s \in Tasks \ {t} :
                call[s] # None /\ call[s].op = "write" => call[s].value # call[t].value
    /\ answered \subseteq attempted
    /\ removed \subseteq used
HInv == Traced /\ OneOrigin

(* Whatever a load may answer was written by a call.                       *)
LEMMA LoadsMade ==
    ASSUME TInv, Traced, NEW d \in Loads, NEW p \in Paths
    PROVE  Made(d[p], p)
<1>1. CASE d = Nothing
  BY <1>1 DEF Nothing, Made
<1>2. CASE d # Nothing
  BY <1>2 DEF Loads, Traced, TInv, TypeOK
<1> QED BY <1>1, <1>2

(* A step that takes its documents, its histories and what it gives out    *)
(* from what was made keeps the trace.                                     *)
LEMMA TracedStep ==
    ASSUME TInv, Traced, attempted \subseteq attempted',
           \/ doc' = doc \/ doc' \notin Doc
           \/ \A p \in Paths : Made(doc'[p], p),
           \A u \in Tasks : \/ store'[u] \in {None, store[u]}
                            \/ \A p \in Paths : Made(store'[u][p], p),
           \A u \in Tasks : \/ record'[u] = None
                            \/ UNCHANGED <<record[u], call[u]>>
                            \/ Made(record[u], call[u].path)',
           \A u \in Tasks : given'[u] \in {None, given[u]} \cup attempted
    PROVE  Traced'
<1>1. ASSUME NEW h, NEW p, Made(h, p) PROVE Made(h, p)'
  BY <1>1 DEF Made
<1>2. ASSUME doc' \in Doc, NEW p \in Paths PROVE Made(doc[p], p)'
  <2>1. Made(doc'[p], p)
    BY <1>2 DEF Traced
  <2> QED BY <2>1 DEF Made
<1>3. ASSUME NEW u \in Tasks, store'[u] # None, NEW p \in Paths
      PROVE  Made(store[u][p], p)'
  <2>1. Made(store'[u][p], p)
    BY <1>3 DEF Traced
  <2> QED BY <2>1 DEF Made
<1>4. ASSUME NEW u \in Tasks, record'[u] # None
      PROVE  Made(record[u], call[u].path)'
  <2>1. CASE UNCHANGED <<record[u], call[u]>>
    <3>1. Made(record'[u], call'[u].path)
      BY <1>4, <2>1 DEF Traced
    <3> QED BY <3>1 DEF Made
  <2>2. CASE ~UNCHANGED <<record[u], call[u]>>
    BY <1>4, <2>2 DEF Made
  <2> QED BY <2>1, <2>2
<1>5. ReadIsWritten'
  BY DEF Traced, ReadIsWritten
<1> QED BY <1>2, <1>3, <1>4, <1>5 DEF Traced

(* A step that draws no value, makes no version and remembers only what    *)
(* was made keeps the origins.                                             *)
LEMMA OriginStep ==
    ASSUME TInv, OneOrigin, UNCHANGED <<used, attempted>>,
           \A u \in Tasks : \/ call'[u] = None \/ call'[u] = call[u]
                            \/ call'[u].op # "write",
           \A u \in Tasks : pc'[u] = "get" => pc[u] = "get" /\ call'[u] = call[u],
           answered' \subseteq attempted, removed' \subseteq used
    PROVE  OneOrigin'
<1>1. ASSUME NEW u \in Tasks, pc'[u] = "get"
      PROVE  /\ \A w \in attempted' : w.value # call'[u].value
             /\ \A s \in Tasks \ {u} :
                   call'[s] # None /\ call'[s].op = "write" =>
                      call'[s].value # call'[u].value
  BY <1>1 DEF OneOrigin
<1> QED BY <1>1 DEF OneOrigin

(* A call that ends, or that only goes on, keeps both.                     *)
LEMMA AnswerTraced ==
    ASSUME TInv, HInv, NEW t \in Tasks, NEW o, NEW v \in {None} \cup attempted,
           Answer(t, o, v), UNCHANGED <<used, attempted>>,
           \/ doc' = doc \/ doc' \notin Doc
           \/ \A p \in Paths : Made(doc'[p], p),
           answered' \subseteq attempted, removed' \subseteq used
    PROVE  HInv'
<1>1. \A u \in Tasks :
         /\ pc'[u] \in {"idle", pc[u]} /\ call'[u] \in {None, call[u]}
         /\ pc'[u] = "get" => call'[u] = call[u]
         /\ store'[u] \in {None, store[u]}
         /\ record'[u] = None \/ UNCHANGED <<record[u], call[u]>>
         /\ given'[u] \in {None, given[u]} \cup attempted
  BY DEF TInv, TypeOK, Answer
<1>2. Traced'
  BY <1>1, TracedStep DEF HInv
<1>3. OneOrigin'
  BY <1>1, OriginStep DEF HInv
<1> QED BY <1>2, <1>3 DEF HInv

(* A call that begins without a write knows nothing yet.                   *)
LEMMA BeginTraced ==
    ASSUME TInv, HInv, NEW t \in Tasks, pc[t] = "idle", NEW c, NEW l,
           Begin(t, c, l), c.op # "write", l # "get", UNCHANGED files,
           UNCHANGED <<used, attempted>>,
           answered' \subseteq attempted, removed' \subseteq used
    PROVE  HInv'
<1>1. \A u \in Tasks :
         /\ call'[u] = call[u] \/ call'[u].op # "write"
         /\ pc'[u] = "get" => pc[u] = "get" /\ call'[u] = call[u]
         /\ store'[u] = store[u]
         /\ record'[u] = None \/ UNCHANGED <<record[u], call[u]>>
         /\ given'[u] \in {None, given[u]}
  BY DEF TInv, TypeOK, CallsAgree, Begin
<1>2. Traced'
  BY <1>1, TracedStep DEF HInv, files
<1>3. OneOrigin'
  BY <1>1, OriginStep DEF HInv
<1> QED BY <1>2, <1>3 DEF HInv

(* A call that goes on keeps what it knows.                                *)
LEMMA GoOnTraced ==
    ASSUME TInv, HInv, NEW t \in Tasks, NEW l, Goto(t, l), l # "get",
           UNCHANGED <<call, record, given, used, attempted>>,
           \/ doc' = doc \/ doc' \notin Doc
           \/ \A p \in Paths : Made(doc'[p], p),
           \A u \in Tasks : \/ store'[u] = store[u]
                            \/ \A p \in Paths : Made(store'[u][p], p),
           answered' \subseteq attempted, removed' \subseteq used
    PROVE  HInv'
<1>1. \A u \in Tasks : /\ pc'[u] = "get" => pc[u] = "get"
                       /\ given'[u] = given[u]
                       /\ UNCHANGED <<record[u], call[u]>>
  BY DEF TInv, TypeOK, Goto
<1>2. Traced'
  BY <1>1, TracedStep DEF HInv
<1>3. OneOrigin'
  BY <1>1, OriginStep DEF HInv
<1> QED BY <1>2, <1>3 DEF HInv

(* What a quiet step and a delete remember was made before.                *)
LEMMA QuietRemembers ==
    ASSUME HInv, NEW t, NEW ok, Quiet(t, ok)
    PROVE  answered' \subseteq attempted /\ removed' \subseteq used
BY DEF HInv, OneOrigin, Quiet, Remember

(* What is forgotten was attempted and used once.                          *)
LEMMA ForgetRemembers ==
    ASSUME HInv, NEW p, Forget(p)
    PROVE  answered' \subseteq attempted /\ removed' \subseteq used
<1> DEFINE gone == {w \in answered : w.path = p}
<1>1. removed \cup {w.value : w \in gone} \subseteq used
  BY DEF HInv, OneOrigin
<1> QED BY <1>1 DEF HInv, OneOrigin, Forget, Remember

(* Every step of a call keeps the origin of each record.                   *)
LEMMA StepTraced ==
    ASSUME TInv, HInv, NEW t \in Tasks, Step(t)
    PROVE  HInv'
<1> USE DEF TInv
<1>1. ASSUME NEW o, Return(t, o), NEW ok, Quiet(t, ok), doc' = doc \/ doc' = Garbage
      PROVE  HInv'
  BY <1>1, QuietRemembers, AnswerTraced, FileAssumption DEF Return, Quiet
<1>2. ASSUME pc[t] = "idle", NEW c, NEW l, Begin(t, c, l), c.op # "write", l # "get",
             UNCHANGED files, NEW ok, Quiet(t, ok)
      PROVE  HInv'
  BY <1>2, QuietRemembers, BeginTraced DEF Quiet
<1>3. ASSUME NEW l, Goto(t, l), l # "get", UNCHANGED <<call, record, given, store>>,
             NEW ok, Quiet(t, ok), doc' = doc \/ doc' = Empty
      PROVE  HInv'
  <2>1. UNCHANGED <<used, attempted>> /\ (doc' = doc \/ doc' \notin Doc)
    BY <1>3, FileAssumption DEF Quiet
  <2> QED BY <1>3, <2>1, QuietRemembers, GoOnTraced DEF Quiet
<1>4. ASSUME NEW p \in Paths, NEW u \in Users, Write(t, u, p)
      PROVE  HInv'
  <2>1. PICK v \in Values \ used :
           /\ used' = used \cup {v}
           /\ Begin(t, [op |-> "write", path |-> p, value |-> v], "get")
    BY <1>4 DEF Write
  <2>2. answered' \subseteq attempted /\ removed' \subseteq used
        /\ UNCHANGED <<doc, attempted>>
    BY <1>4 DEF Write, Remember, files, HInv, OneOrigin
  <2>3. /\ pc'[t] = "get" /\ call'[t].value = v
        /\ \A s \in Tasks \ {t} : UNCHANGED <<pc[s], call[s]>>
        /\ \A s \in Tasks :
             /\ store'[s] = store[s]
             /\ record'[s] = None \/ UNCHANGED <<record[s], call[s]>>
             /\ given'[s] \in {None, given[s]}
    BY <1>4, <2>1 DEF Write, Begin, TypeOK, CallsAgree
  <2>4. Traced'
    BY <2>2, <2>3, TracedStep DEF HInv
  <2>5. ASSUME NEW s \in Tasks, call'[s] # None, call'[s].op = "write"
        PROVE  call'[s].value \in used' /\ (s # t => call'[s].value # v)
    BY <2>1, <2>3, <2>5 DEF HInv, OneOrigin
  <2>6. ASSUME NEW s \in Tasks, pc'[s] = "get"
        PROVE  /\ \A w \in attempted' : w.value # call'[s].value
               /\ \A x \in Tasks \ {s} : call'[x] # None /\ call'[x].op = "write" =>
                     call'[x].value # call'[s].value
    <3>1. CASE s = t
      BY <2>1, <2>2, <2>3, <2>5, <3>1 DEF HInv, OneOrigin
    <3>2. CASE s # t
      <4>1. call[s].op = "write" /\ call[s] # None
        BY <2>3, <2>6, <3>2 DEF CallsAgree
      <4>2. call[s].value # v
        BY <2>1, <4>1 DEF HInv, OneOrigin
      <4> QED BY <2>2, <2>3, <2>6, <3>2, <4>2 DEF HInv, OneOrigin
    <3> QED BY <3>1, <3>2
  <2>7. OneOrigin'
    BY <2>1, <2>2, <2>5, <2>6 DEF HInv, OneOrigin
  <2> QED BY <2>4, <2>7 DEF HInv
<1>5. CASE WriteGet(t)
  <2> DEFINE p == call[t].path
             v == call[t].value
  <2>1. PICK d \in Loads :
           /\ record' = [record EXCEPT ![t] = Append(d[p], v)]
           /\ Attempt(t, Len(Append(d[p], v)))
    BY <1>5 DEF WriteGet
  <2>2. p \in Paths /\ v \in Values /\ call[t].op = "write" /\ call[t] # None
    BY <1>5, CallFields DEF WriteGet, CallsAgree, TypeOK
  <2>3. d[p] \in Seq(Values)
    BY <2>2, LoadsType DEF Doc
  <2> DEFINE w == [path |-> p, number |-> Len(d[p]) + 1, value |-> v]
  <2>4. attempted' = attempted \cup {w}
    BY <2>1, <2>3 DEF Attempt
  <2>5. Made(record[t], call[t].path)'
    <3>1. record'[t] = Append(d[p], v) /\ call' = call
      BY <1>5, <2>1 DEF WriteGet, TypeOK
    <3>2. ASSUME NEW i \in 1 .. Len(record'[t])
          PROVE  [path |-> p, number |-> i, value |-> record'[t][i]] \in attempted'
      <4>1. CASE i = Len(d[p]) + 1
        BY <2>2, <2>3, <2>4, <3>1, <4>1
      <4>2. CASE i # Len(d[p]) + 1
        <5>1. i \in 1 .. Len(d[p]) /\ record'[t][i] = d[p][i]
          BY <2>2, <2>3, <3>1, <4>2
        <5> QED BY <2>2, <2>4, <5>1, LoadsMade DEF Made, HInv
      <4> QED BY <4>1, <4>2
    <3> QED BY <3>1, <3>2 DEF Made
  <2>6. /\ UNCHANGED <<doc, store, given, call, used>>
        /\ \A s \in Tasks : pc'[s] = "get" => pc[s] = "get" /\ s # t
        /\ answered' \subseteq answered /\ removed' \subseteq removed
    BY <1>5 DEF WriteGet, Goto, files, TypeOK, Remember
  <2>7. Traced'
    <3>1. \A u \in Tasks : \/ UNCHANGED <<record[u], call[u]>>
                           \/ Made(record[u], call[u].path)'
      BY <2>1, <2>5, <2>6 DEF TypeOK
    <3> QED BY <2>4, <2>6, <3>1, TracedStep DEF HInv
  <2>8. \A x \in attempted : x.value # v
    BY <1>5 DEF WriteGet, HInv, OneOrigin
  <2>9. v \in used /\ \A s \in Tasks \ {t} : pc[s] = "get" => v # call[s].value
    BY <2>2 DEF HInv, OneOrigin
  <2>10. OneOrigin'
    BY <2>2, <2>4, <2>6, <2>8, <2>9 DEF HInv, OneOrigin
  <2> QED BY <2>7, <2>10 DEF HInv
<1>6. CASE StoreSet(t)
  <2>1. PICK d \in Loads :
           /\ store' = [store EXCEPT ![t] = [d EXCEPT ![call[t].path] = record[t]]]
           /\ Quiet(t, Sound(d))
    BY <1>6 DEF StoreSet
  <2>2. /\ call[t].path \in Paths /\ d \in Doc /\ record[t] # None
        /\ Made(record[t], call[t].path)
    BY <1>6, CallFields, LoadsType DEF StoreSet, TypeOK, CallsAgree, HInv, Traced
  <2>3. \A p \in Paths : Made([d EXCEPT ![call[t].path] = record[t]][p], p)
    BY <2>2, LoadsMade DEF Doc, HInv
  <2>4. \A u \in Tasks : \/ store'[u] = store[u]
                         \/ \A p \in Paths : Made(store'[u][p], p)
    BY <2>1, <2>3 DEF TypeOK
  <2> QED BY <1>6, <2>1, <2>4, QuietRemembers, GoOnTraced DEF StoreSet, files, Quiet
<1>7. CASE StoreDelete(t)
  <2>1. call[t].path \in Paths
    BY <1>7, CallFields DEF StoreDelete, TypeOK, CallsAgree
  <2>2. PICK d \in Loads :
           \/ /\ Forget(call[t].path) /\ Goto(t, "dropAcl") /\ UNCHANGED store
           \/ /\ store' = [store EXCEPT ![t] = [d EXCEPT ![call[t].path] = <<>>]]
              /\ Remember(answered, removed)
              /\ Goto(t, "open")
    BY <1>7 DEF StoreDelete
  <2>3. UNCHANGED <<call, record, given, used, attempted, doc>>
    BY <1>7 DEF StoreDelete, files
  <2>4. CASE Forget(call[t].path) /\ Goto(t, "dropAcl") /\ UNCHANGED store
    BY <2>3, <2>4, ForgetRemembers, GoOnTraced
  <2>5. CASE /\ store' = [store EXCEPT ![t] = [d EXCEPT ![call[t].path] = <<>>]]
             /\ Remember(answered, removed)
             /\ Goto(t, "open")
    <3>1. d \in Doc
      BY LoadsType
    <3>2. \A p \in Paths : Made([d EXCEPT ![call[t].path] = <<>>][p], p)
      BY <2>1, <3>1, LoadsMade DEF Doc, Made, HInv
    <3>3. \A u \in Tasks : \/ store'[u] = store[u]
                           \/ \A p \in Paths : Made(store'[u][p], p)
      BY <2>5, <3>2 DEF TypeOK
    <3>4. answered' \subseteq attempted /\ removed' \subseteq used
      BY <2>5 DEF Remember, HInv, OneOrigin
    <3> QED BY <2>3, <2>5, <3>3, <3>4, GoOnTraced
  <2> QED BY <2>2, <2>4, <2>5
<1>8. CASE SaveClose(t)
  <2>1. store[t] # None /\ call[t].path \in Paths
    BY <1>8, CallFields DEF SaveClose, TypeOK, CallsAgree
  <2>2. doc' \notin Doc \/ \A p \in Paths : Made(doc'[p], p)
    BY <1>8, <2>1, FileAssumption DEF SaveClose, Written, HInv, Traced
  <2>3. UNCHANGED <<used, attempted>>
    BY <1>8 DEF SaveClose
  <2>4. CASE call[t].op = "write"
    <3> DEFINE w == [path |-> call[t].path, number |-> Len(record[t]),
                     value |-> call[t].value]
    <3>1. w \in attempted
      <4>1. /\ record[t] \in Seq(Values) /\ record[t] # <<>>
            /\ record[t][Len(record[t])] = call[t].value
            /\ Made(record[t], call[t].path)
        BY <1>8, <2>4 DEF SaveClose, TypeOK, CallsAgree, HInv, Traced
      <4>2. Len(record[t]) \in 1 .. Len(record[t])
        BY <4>1
      <4> QED BY <4>1, <4>2 DEF Made
    <3>2. Answered(t) /\ Return(t, "written")
      BY <1>8, <2>4 DEF SaveClose
    <3>3. answered' \subseteq attempted /\ removed' \subseteq used
      BY <3>1, <3>2 DEF Answered, Remember, HInv, OneOrigin
    <3> QED BY <2>2, <2>3, <3>2, <3>3, AnswerTraced DEF Return
  <2>5. CASE call[t].op = "delete"
    <3>1. Forget(call[t].path) /\ Goto(t, "dropAcl") /\ UNCHANGED locals
      BY <1>8, <2>5 DEF SaveClose
    <3> QED BY <2>2, <2>3, <3>1, ForgetRemembers, GoOnTraced DEF locals
  <2> QED BY <1>8, <2>4, <2>5 DEF SaveClose
<1>9. CASE ReadLoad(t)
  <2>1. call[t].path \in Paths /\ call[t].number \in Nat
    BY <1>9, CallFields DEF ReadLoad, TypeOK, CallsAgree
  <2>2. PICK d \in Loads :
          LET h == d[call[t].path]
              n == IF call[t].number = 0 THEN Len(h) ELSE call[t].number
          IN  /\ \/ Return(t, "NOT_FOUND")
                 \/ /\ n \in 1 .. Len(h)
                    /\ Answer(t, "read", [path |-> call[t].path, number |-> n,
                                          value |-> h[n]])
              /\ Quiet(t, Sound(d))
    BY <1>9 DEF ReadLoad
  <2> DEFINE h == d[call[t].path]
             n == IF call[t].number = 0 THEN Len(h) ELSE call[t].number
             w == [path |-> call[t].path, number |-> n, value |-> h[n]]
  <2>3. n \in 1 .. Len(h) => w \in attempted
    BY <2>1, LoadsMade DEF Made, HInv
  <2>4. \/ Return(t, "NOT_FOUND")
        \/ w \in attempted /\ Answer(t, "read", w)
    BY <2>2, <2>3
  <2>5. doc' = doc /\ Quiet(t, Sound(d))
    BY <1>9, <2>2 DEF ReadLoad, files
  <2> HIDE DEF w
  <2> QED BY <1>1, <2>4, <2>5, QuietRemembers, AnswerTraced DEF Quiet
<1>10. ASSUME NEW p \in Paths, NEW u \in Users, Delete(t, u, p) PROVE HInv'
  BY <1>2, <1>10 DEF Delete
<1>11. ASSUME NEW p \in Paths, NEW u \in Users, NEW n, Read(t, u, p, n) PROVE HInv'
  BY <1>2, <1>11 DEF Read
<1>12. ASSUME NEW p \in Paths, NEW u \in Users, NEW P,
              NEW op \in {"grant_access", "revoke_access"}, ChangeAccess(t, op, p, u, P)
       PROVE  HInv'
  BY <1>1, <1>2, <1>12 DEF ChangeAccess, files
<1>13. CASE Denied(t) \/ Restart(t)
  BY <1>1, <1>13 DEF Denied, Restart, files
<1>14. CASE Fault(t)
  BY <1>1, <1>14 DEF Fault
<1>15. CASE SaveOpen(t)
  BY <1>3, <1>15 DEF SaveOpen, locals
<1>16. CASE DropAcl(t)
  BY <1>1, <1>3, <1>16 DEF DropAcl, files
<1>17. CASE Grant(t) \/ Withdraw(t)
  BY <1>1, <1>3, <1>17 DEF Grant, Withdraw, files
<1>18. CASE StoreAcl(t)
  BY <1>1, <1>18 DEF StoreAcl
<1>19. CASE Exists(t)
  BY <1>1, <1>3, <1>19 DEF Exists, files, locals
<1> QED BY <1>4, <1>5, <1>6, <1>7, <1>8, <1>9, <1>10, <1>11, <1>12, <1>13,
           <1>14, <1>15, <1>16, <1>17, <1>18, <1>19 DEF Step

(* Every record that is stored or answered was written by a call.          *)
LEMMA TraceInductive == Spec => [](TInv /\ HInv)
<1>1. Init => HInv
  BY DEF Init, HInv, Traced, OneOrigin, Made, Nothing, ReadIsWritten
<1>2. ASSUME TInv, HInv, [Next]_vars PROVE HInv'
  <2>1. CASE UNCHANGED vars
    BY <1>2, <2>1 DEF vars, HInv, Traced, OneOrigin, Made, ReadIsWritten
  <2> QED BY <1>2, <2>1, StepTraced DEF Next
<1> QED BY <1>1, <1>2, TypeInductive, PTL DEF Spec

(* However many calls interleave, however torn or out of date the file is  *)
(* that they load, what a read gives out as version n of a path is what    *)
(* some write made as version n of that path (kv_engine.py:170-236,        *)
(* storage.py:15-41).                                                      *)
THEOREM ReadsAreWritten == Spec => []ReadIsWritten
<1>1. HInv => ReadIsWritten
  BY DEF HInv, Traced
<1> QED BY <1>1, TraceInductive, PTL
-----------------------------------------------------------------------------
(* What a document must hold in calm: the versions W, nothing removed, and *)
(* a secret on every path with an access list, those of P excepted.        *)
Holds(d, W) ==
    \A w \in W : w.number \in 1 .. Len(d[w.path]) /\ d[w.path][w.number] = w.value
Clean(d) == \A p \in Paths : \A i \in 1 .. Len(d[p]) : d[p][i] \notin removed
Listed(d, P) == \A p \in Paths \ P : d[p] = <<>> => policies[p] = NoGrants

(* What a grant or a withdrawal makes of the policies.                     *)
Changed(c) == [policies EXCEPT ![c.path][c.to] =
                  IF c.op = "grant_access" THEN @ \cup c.perms ELSE @ \ c.perms]

(* What the one call under way knows in calm, by the step it has come to.  *)
Knows(t, c) ==
    /\ pc[t] # "idle" /\ c.op = "write" => c.value \notin removed
    /\ pc[t] = "set" => record[t] = Append(doc[c.path], c.value)
    /\ pc[t] = "open" /\ c.op = "write" =>
          /\ record[t] = Append(doc[c.path], c.value)
          /\ store[t] = [doc EXCEPT ![c.path] = record[t]]
    /\ pc[t] = "open" /\ c.op = "delete" =>
          /\ doc[c.path] # <<>>
          /\ store[t] = [doc EXCEPT ![c.path] = <<>>]
    /\ pc[t] = "save" =>
          /\ doc = Empty
          /\ Clean(store[t])
    /\ pc[t] = "save" /\ c.op = "write" =>
          /\ store[t][c.path] = record[t]
          /\ Holds(store[t], answered)
          /\ Listed(store[t], {})
    /\ pc[t] = "save" /\ c.op = "delete" =>
          /\ store[t][c.path] = <<>>
          /\ Holds(store[t], {w \in answered : w.path # c.path})
          /\ Listed(store[t], {c.path})
    /\ pc[t] = "dropAcl" => doc[c.path] = <<>>
    /\ pc[t] = "change" => doc[c.path] # <<>> /\ c.to # Owner[c.path]
    /\ pc[t] = "storeAcl" /\ c.op = "delete" =>
          doc[c.path] = <<>> /\ pdoc[t] = [policies EXCEPT ![c.path] = NoGrants]
    /\ pc[t] = "storeAcl" /\ c.op # "delete" =>
          /\ doc[c.path] # <<>> /\ c.to # Owner[c.path]
          /\ pdoc[t] = Changed(c)

(* The paths whose secret is deleted and whose access list is about to be. *)
Dropping == {p \in Paths : \E t \in Tasks :
                /\ pc[t] \in {"dropAcl", "storeAcl"}
                /\ call[t].op = "delete" /\ call[t].path = p}

InCalm ==
    /\ \A s, t \in Tasks : pc[s] # "idle" /\ pc[t] # "idle" => s = t
    /\ \A t \in Tasks : Knows(t, call[t])
    /\ ~Saving => doc \in Doc /\ Holds(doc, answered) /\ Clean(doc)
                               /\ Listed(doc, Dropping)

CalmInv == calm => InCalm

KInv == TInv /\ HInv /\ CalmInv

(* A step after which it is calm found all other tasks idle, and nothing   *)
(* of it went wrong.                                                       *)
LEMMA CalmStep ==
    ASSUME KInv, NEW t \in Tasks, NEW ok, Calm(t, ok), calm'
    PROVE  /\ calm /\ ok /\ InCalm
           /\ \A s \in Tasks \ {t} : pc[s] = "idle"
           /\ Knows(t, call[t])
           /\ pc[t] # "save" => /\ doc \in Doc /\ Holds(doc, answered) /\ Clean(doc)
                                /\ Listed(doc, Dropping)
<1>1. calm /\ ok /\ InCalm /\ \A s \in Tasks \ {t} : pc[s] = "idle"
  BY DEF Calm, KInv, CalmInv
<1>2. pc[t] # "save" => ~Saving
  BY <1>1 DEF Saving
<1> QED BY <1>1, <1>2 DEF InCalm

(* In calm a load returns the document on disk.                            *)
LEMMA SoundLoad ==
    ASSUME NEW d, doc \in Doc, Sound(d)
    PROVE  d = doc
BY DEF Sound

(* So what a step must establish is about its own task and the document.   *)
LEMMA OnlyCaller ==
    ASSUME NEW t \in Tasks,
           \A s \in Tasks \ {t} : pc[s] = "idle" /\ pc'[s] = "idle",
           Knows(t, call[t])',
           pc'[t] # "save" => /\ doc' \in Doc /\ Holds(doc, answered)' /\ Clean(doc)'
                             /\ Listed(doc, Dropping)'
    PROVE  InCalm'
<1>1. \A s \in Tasks \ {t} : Knows(s, call[s])'
  BY DEF Knows
<1>2. Saving' => pc'[t] = "save"
  BY DEF Saving
<1>3. (~Saving)' => pc'[t] # "save"
  BY DEF Saving
<1> QED BY <1>1, <1>3 DEF InCalm

(* A call that begins in calm.                                             *)
LEMMA BeginCalm ==
    ASSUME KInv, NEW t \in Tasks, NEW ok, Calm(t, ok), calm', pc[t] = "idle",
           NEW c, NEW l \in {"get", "exists", "read", "change"}, Begin(t, c, l),
           UNCHANGED files, UNCHANGED <<answered, removed>>,
           c.op = "write" => c.value \notin removed,
           l = "change" => doc[c.path] # <<>> /\ c.to # Owner[c.path]
    PROVE  InCalm'
<1>1. /\ \A s \in Tasks \ {t} : pc[s] = "idle" /\ pc'[s] = "idle"
      /\ pc'[t] = l /\ call'[t] = c
  BY CalmStep DEF KInv, TInv, TypeOK, Begin
<1>2. /\ doc \in Doc /\ Holds(doc, answered) /\ Clean(doc) /\ Listed(doc, Dropping)
  BY CalmStep
<1>3. Dropping = {}
  BY <1>1 DEF Dropping
<1>4. Knows(t, call[t])'
  BY <1>1 DEF Knows, files
<1>5. /\ doc' \in Doc /\ Holds(doc, answered)' /\ Clean(doc)' /\ Listed(doc, Dropping)'
  BY <1>2, <1>3 DEF Holds, Clean, Listed, files
<1> QED BY <1>1, <1>4, <1>5, OnlyCaller

(* A call that ends in calm, and leaves a document with all that must be   *)
(* there.                                                                  *)
LEMMA ReturnCalm ==
    ASSUME KInv, NEW t \in Tasks, NEW o, NEW v, Answer(t, o, v),
           NEW ok, Calm(t, ok), calm',
           doc' \in Doc, Holds(doc, answered)', Clean(doc)', Listed(doc, {})'
    PROVE  InCalm'
<1>1. /\ \A s \in Tasks \ {t} : pc[s] = "idle" /\ pc'[s] = "idle"
      /\ pc'[t] = "idle"
  BY CalmStep DEF KInv, TInv, TypeOK, Answer
<1>2. Knows(t, call[t])'
  BY <1>1 DEF Knows
<1>3. Listed(doc, Dropping)'
  BY DEF Listed
<1> QED BY <1>1, <1>2, <1>3, OnlyCaller

(* A call that is refused while all is calm keeps what was promised.       *)
LEMMA RefuseCalm ==
    ASSUME KInv, NEW t \in Tasks, NEW o, NEW v, Answer(t, o, v),
           NEW ok, Quiet(t, ok), calm', UNCHANGED files,
           pc[t] \notin {"save", "storeAcl"},
           pc[t] = "dropAcl" => policies[call[t].path] = NoGrants
    PROVE  InCalm'
<1>1. /\ Calm(t, ok) /\ UNCHANGED <<answered, removed>>
  BY DEF Quiet, Remember
<1>2. /\ doc \in Doc /\ Holds(doc, answered) /\ Clean(doc) /\ Listed(doc, Dropping)
      /\ \A s \in Tasks \ {t} : pc[s] = "idle"
  BY <1>1, CalmStep
<1>3. \A p \in Dropping : policies[p] = NoGrants
  BY <1>2 DEF Dropping
<1>4. Listed(doc, {})
  BY <1>2, <1>3 DEF Listed
<1>5. doc' \in Doc /\ Holds(doc, answered)' /\ Clean(doc)' /\ Listed(doc, {})'
  BY <1>1, <1>2, <1>4 DEF Holds, Clean, Listed, files
<1> QED BY <1>1, <1>5, ReturnCalm

(* A step of a call that leaves the files alone, and stays out of the      *)
(* deletion of access lists.                                               *)
LEMMA GoOnCalm ==
    ASSUME KInv, NEW t \in Tasks, NEW l \in Labels \ {"save"}, Goto(t, l),
           NEW ok, Calm(t, ok), calm', call' = call, UNCHANGED files,
           UNCHANGED <<answered, removed>>, pc[t] # "save",
           pc[t] \in {"dropAcl", "storeAcl"} => l = "storeAcl",
           Knows(t, call[t])'
    PROVE  InCalm'
<1>1. /\ \A s \in Tasks \ {t} : pc[s] = "idle" /\ pc'[s] = "idle"
      /\ pc'[t] = l
  BY CalmStep DEF KInv, TInv, TypeOK, Goto
<1>2. /\ doc \in Doc /\ Holds(doc, answered) /\ Clean(doc) /\ Listed(doc, Dropping)
  BY CalmStep
<1>3. Dropping \subseteq Dropping'
  BY <1>1 DEF Dropping
<1>4. /\ doc' \in Doc /\ Holds(doc, answered)' /\ Clean(doc)' /\ Listed(doc, Dropping)'
  BY <1>2, <1>3 DEF Holds, Clean, Listed, files
<1> QED BY <1>1, <1>4, OnlyCaller

(* The steps of a write and of a delete, up to the opening of the file.    *)
LEMMA PrepareCalm ==
    ASSUME KInv, NEW t \in Tasks, calm',
           WriteGet(t) \/ StoreSet(t) \/ StoreDelete(t)
    PROVE  InCalm'
<1> USE DEF KInv
<1> DEFINE p == call[t].path
<1>0. /\ p \in Paths /\ call[t] # None
      /\ pc[t] \in {"get", "set"} => call[t].op = "write" /\ call[t].value \in Values
      /\ pc[t] = "delete" => call[t].op = "delete"
  BY CallFields DEF TInv, TypeOK, CallsAgree, WriteGet, StoreSet, StoreDelete
<1>1. CASE WriteGet(t)
  <2>1. PICK d \in Loads :
           /\ record' = [record EXCEPT ![t] = Append(d[p], call[t].value)]
           /\ Calm(t, Sound(d))
    BY <1>1 DEF WriteGet
  <2>2. /\ pc[t] = "get" /\ Goto(t, "set") /\ call' = call /\ UNCHANGED files
        /\ UNCHANGED <<answered, removed>>
    BY <1>1 DEF WriteGet, Remember
  <2>3. d = doc /\ call[t].value \notin removed
    <3>1. doc \in Doc /\ Sound(d) /\ Knows(t, call[t])
      BY <2>1, <2>2, CalmStep
    <3> QED BY <1>0, <2>2, <3>1, SoundLoad DEF Knows
  <2>4. record'[t] = Append(doc[p], call[t].value) /\ pc'[t] = "set"
    BY <2>1, <2>2, <2>3 DEF TInv, TypeOK, Goto
  <2>5. Knows(t, call[t])'
    BY <1>0, <2>2, <2>3, <2>4 DEF Knows, files
  <2> QED BY <2>1, <2>2, <2>5, GoOnCalm DEF Labels
<1>2. CASE StoreSet(t)
  <2>1. PICK d \in Loads :
           /\ store' = [store EXCEPT ![t] = [d EXCEPT ![p] = record[t]]]
           /\ Quiet(t, Sound(d))
    BY <1>2 DEF StoreSet
  <2>2. /\ pc[t] = "set" /\ Goto(t, "open") /\ UNCHANGED <<call, record>>
        /\ UNCHANGED files /\ UNCHANGED <<answered, removed>> /\ Calm(t, Sound(d))
    BY <1>2, <2>1 DEF StoreSet, Quiet, Remember
  <2>3. /\ d = doc /\ call[t].value \notin removed
        /\ record[t] = Append(doc[p], call[t].value)
    <3>1. doc \in Doc /\ Sound(d) /\ Knows(t, call[t])
      BY <2>2, CalmStep
    <3> QED BY <1>0, <2>2, <3>1, SoundLoad DEF Knows
  <2>4. store'[t] = [doc EXCEPT ![p] = record[t]] /\ pc'[t] = "open"
    BY <2>1, <2>2, <2>3 DEF TInv, TypeOK, Goto
  <2>5. Knows(t, call[t])'
    BY <1>0, <2>2, <2>3, <2>4 DEF Knows, files
  <2> QED BY <2>2, <2>5, GoOnCalm DEF Labels
<1>3. CASE StoreDelete(t)
  <2>1. PICK d \in Loads :
           /\ Calm(t, Sound(d))
           /\ \/ d[p] = <<>> /\ Forget(p) /\ Goto(t, "dropAcl")
              \/ /\ d[p] # <<>>
                 /\ store' = [store EXCEPT ![t] = [d EXCEPT ![p] = <<>>]]
                 /\ Remember(answered, removed)
                 /\ Goto(t, "open")
    BY <1>3 DEF StoreDelete
  <2>2. pc[t] = "delete" /\ UNCHANGED files /\ UNCHANGED <<call, record>>
    BY <1>3 DEF StoreDelete
  <2>3. /\ d = doc /\ doc \in Doc /\ Holds(doc, answered)
    BY <2>1, <2>2, CalmStep, SoundLoad
  <2>4. CASE d[p] = <<>> /\ Forget(p) /\ Goto(t, "dropAcl")
    <3>1. {w \in answered : w.path = p} = {}
      BY <2>3, <2>4 DEF Holds
    <3>2. UNCHANGED <<answered, removed>>
      BY <2>4, <3>1 DEF Forget, Remember
    <3>3. pc'[t] = "dropAcl"
      BY <2>4 DEF Goto, TInv, TypeOK
    <3>4. Knows(t, call[t])'
      BY <1>0, <2>2, <2>3, <2>4, <3>3 DEF Knows, files
    <3> QED BY <2>1, <2>2, <2>4, <3>2, <3>4, GoOnCalm DEF Labels
  <2>5. CASE /\ d[p] # <<>>
             /\ store' = [store EXCEPT ![t] = [d EXCEPT ![p] = <<>>]]
             /\ Remember(answered, removed)
             /\ Goto(t, "open")
    <3>1. store'[t] = [doc EXCEPT ![p] = <<>>] /\ pc'[t] = "open"
      BY <2>3, <2>5 DEF Goto, TInv, TypeOK
    <3>2. UNCHANGED <<answered, removed>>
      BY <2>5 DEF Remember
    <3>3. Knows(t, call[t])'
      BY <1>0, <2>2, <2>3, <2>5, <3>1 DEF Knows, files
    <3> QED BY <2>1, <2>2, <2>5, <3>2, <3>3, GoOnCalm DEF Labels
  <2> QED BY <2>1, <2>4, <2>5
<1> QED BY <1>1, <1>2, <1>3

(* Opening the file takes from the disk what the document to be saved      *)
(* holds.                                                                  *)
LEMMA SaveOpenCalm ==
    ASSUME KInv, NEW t \in Tasks, calm', SaveOpen(t)
    PROVE  InCalm'
<1> USE DEF KInv
<1> DEFINE p == call[t].path
           v == call[t].value
<1>0. /\ p \in Paths /\ call[t] # None /\ call[t].op \in {"write", "delete"}
      /\ store[t] \in Doc
      /\ call[t].op = "write" => v \in Values /\ record[t] \in Seq(Values)
  BY CallFields DEF TInv, TypeOK, CallsAgree, SaveOpen
<1>1. /\ pc[t] = "open" /\ doc' = Empty /\ Quiet(t, TRUE) /\ Goto(t, "save")
      /\ UNCHANGED locals /\ UNCHANGED policies
  BY DEF SaveOpen
<1>2. Calm(t, TRUE) /\ UNCHANGED <<answered, removed>>
  BY <1>1 DEF Quiet, Remember
<1>3. /\ \A s \in Tasks \ {t} : pc[s] = "idle" /\ pc'[s] = "idle"
      /\ pc'[t] = "save"
  BY <1>1, <1>2, CalmStep DEF TInv, TypeOK, Goto
<1>4. /\ doc \in Doc /\ Holds(doc, answered) /\ Clean(doc)
      /\ Listed(doc, {}) /\ Knows(t, call[t])
  <2>1. Dropping = {}
    BY <1>1, <1>3 DEF Dropping
  <2> QED BY <1>1, <1>2, <2>1, CalmStep
<1>5. answered \subseteq Version
  BY DEF TInv, TypeOK
<1>6. CASE call[t].op = "write"
  <2>1. /\ record[t] = Append(doc[p], v) /\ store[t] = [doc EXCEPT ![p] = record[t]]
        /\ v \notin removed /\ doc[p] \in Seq(Values)
    BY <1>0, <1>1, <1>4, <1>6 DEF Knows, Doc
  <2>2. /\ store[t][p] = Append(doc[p], v)
        /\ \A q \in Paths \ {p} : store[t][q] = doc[q]
    BY <1>0, <1>4, <2>1 DEF Doc
  <2>3. Holds(store[t], answered)
    <3> SUFFICES ASSUME NEW w \in answered
                 PROVE  /\ w.number \in 1 .. Len(store[t][w.path])
                        /\ store[t][w.path][w.number] = w.value
      BY DEF Holds
    <3>1. /\ w.path \in Paths /\ w.number \in 1 .. Len(doc[w.path])
          /\ doc[w.path][w.number] = w.value
      BY <1>4, <1>5 DEF Holds, Version
    <3>2. CASE w.path = p
      BY <1>0, <2>1, <2>2, <3>1, <3>2
    <3>3. CASE w.path # p
      BY <2>2, <3>1, <3>3
    <3> QED BY <3>2, <3>3
  <2>4. Clean(store[t])
    <3> SUFFICES ASSUME NEW q \in Paths, NEW i \in 1 .. Len(store[t][q])
                 PROVE  store[t][q][i] \notin removed
      BY DEF Clean
    <3>1. CASE q # p
      BY <1>4, <2>2, <3>1 DEF Clean
    <3>2. CASE q = p /\ i = Len(doc[p]) + 1
      BY <1>0, <1>6, <2>1, <2>2, <3>2
    <3>3. CASE q = p /\ i # Len(doc[p]) + 1
      <4>1. i \in 1 .. Len(doc[p]) /\ store[t][q][i] = doc[p][i]
        BY SMTT(30), <1>0, <1>6, <2>1, <2>2, <3>3
      <4> QED BY <1>0, <1>4, <4>1 DEF Clean
    <3> QED BY <3>1, <3>2, <3>3
  <2>5. Listed(store[t], {})
    <3>1. store[t][p] # <<>>
      <4>1. v \in Values /\ doc[p] \in Seq(Values) /\ store[t][p] = Append(doc[p], v)
        BY <1>0, <1>6, <2>1, <2>2
      <4>2. \A h \in Seq(Values), e \in Values :
               Len(Append(h, e)) = Len(h) + 1 /\ Len(h) \in Nat
        OBVIOUS
      <4>3. Len(store[t][p]) # 0
        BY <4>1, <4>2
      <4> QED BY <4>3
    <3> QED BY <1>4, <2>2, <3>1 DEF Listed
  <2>6. Knows(t, call[t])'
    BY <1>1, <1>2, <1>3, <1>6, <2>1, <2>2, <2>3, <2>4, <2>5
       DEF Knows, Holds, Clean, Listed, locals
  <2> QED BY <1>3, <2>6, OnlyCaller
<1>7. CASE call[t].op = "delete"
  <2>1. store[t] = [doc EXCEPT ![p] = <<>>]
    BY <1>1, <1>4, <1>7 DEF Knows
  <2>2. /\ store[t][p] = <<>>
        /\ \A q \in Paths \ {p} : store[t][q] = doc[q]
    BY <1>0, <1>4, <2>1 DEF Doc
  <2>3. Holds(store[t], {w \in answered : w.path # p})
    BY <1>4, <1>5, <2>2 DEF Holds, Version
  <2>4. Clean(store[t])
    <3> SUFFICES ASSUME NEW q \in Paths, NEW i \in 1 .. Len(store[t][q])
                 PROVE  store[t][q][i] \notin removed
      BY DEF Clean
    <3>1. q # p
      BY <2>2
    <3> QED BY <1>4, <2>2, <3>1 DEF Clean
  <2>5. Listed(store[t], {p})
    BY <1>4, <2>2 DEF Listed
  <2>6. Knows(t, call[t])'
    BY <1>1, <1>2, <1>3, <1>7, <2>2, <2>3, <2>4, <2>5
       DEF Knows, Holds, Clean, Listed, locals
  <2> QED BY <1>3, <2>6, OnlyCaller
<1> QED BY <1>0, <1>6, <1>7

(* Closing it puts that on the disk.                                       *)
LEMMA SaveCloseCalm ==
    ASSUME KInv, NEW t \in Tasks, calm', SaveClose(t)
    PROVE  InCalm'
<1> USE DEF KInv
<1> DEFINE p == call[t].path
           v == call[t].value
<1>0. /\ p \in Paths /\ call[t] # None /\ call[t].op \in {"write", "delete"}
      /\ store[t] \in Doc
  BY CallFields DEF TInv, TypeOK, CallsAgree, SaveClose
<1>1. pc[t] = "save" /\ Calm(t, TRUE) /\ UNCHANGED policies
  BY DEF SaveClose
<1>2. Knows(t, call[t]) /\ \A s \in Tasks \ {t} : pc[s] = "idle"
  BY <1>1, CalmStep
<1>3. doc' = store[t]
  BY <1>1, <1>2 DEF SaveClose, Written, Knows
<1>4. CASE call[t].op = "write"
  <2> DEFINE w == [path |-> p, number |-> Len(record[t]), value |-> v]
  <2>1. /\ store[t][p] = record[t] /\ Holds(store[t], answered)
        /\ Listed(store[t], {}) /\ Clean(store[t])
    BY <1>1, <1>2, <1>4 DEF Knows
  <2>2. Answered(t) /\ Return(t, "written")
    BY <1>4 DEF SaveClose
  <2>3. answered' = answered \cup {w} /\ removed' = removed
    BY <2>2 DEF Answered, Remember
  <2>4. /\ record[t] \in Seq(Values) /\ record[t] # <<>>
        /\ record[t][Len(record[t])] = v
    BY <1>1, <1>4 DEF TInv, TypeOK, CallsAgree
  <2>5. Len(record[t]) \in 1 .. Len(record[t])
    BY <2>4
  <2>6. Holds(doc, answered)'
    BY <1>3, <2>1, <2>3, <2>4, <2>5 DEF Holds
  <2>7. Clean(doc)' /\ Listed(doc, {})'
    BY <1>1, <1>3, <2>1, <2>3 DEF Clean, Listed
  <2> QED BY <1>0, <1>1, <1>3, <2>2, <2>6, <2>7, ReturnCalm DEF Return
<1>5. CASE call[t].op = "delete"
  <2> DEFINE gone == {w \in answered : w.path = p}
  <2>1. /\ store[t][p] = <<>> /\ Holds(store[t], {w \in answered : w.path # p})
        /\ Listed(store[t], {p}) /\ Clean(store[t])
    BY <1>1, <1>2, <1>5 DEF Knows
  <2>2. /\ answered' = answered \ gone
        /\ removed' = removed \cup {w.value : w \in gone}
        /\ Goto(t, "dropAcl") /\ UNCHANGED locals
    BY <1>5 DEF SaveClose, Forget, Remember
  <2>3. Holds(doc, answered)'
    BY <1>3, <2>1, <2>2 DEF Holds
  <2>4. Clean(doc)'
    <3> SUFFICES ASSUME NEW q \in Paths, NEW i \in 1 .. Len(store[t][q])
                 PROVE  store[t][q][i] \notin removed'
      BY <1>3 DEF Clean
    <3>1. store[t][q][i] \notin removed
      BY <2>1 DEF Clean
    <3>2. ASSUME NEW w \in gone, w.value = store[t][q][i] PROVE FALSE
      <4>1. [path |-> q, number |-> i, value |-> store[t][q][i]] \in attempted
        BY <1>0, NoneAssumption DEF HInv, Traced, Made
      <4>2. w \in attempted /\ w.path = p
        BY DEF HInv, OneOrigin
      <4>3. q = p
        BY <3>2, <4>1, <4>2 DEF HInv, OneOrigin
      <4> QED BY <2>1, <4>3
    <3> QED BY <2>2, <3>1, <3>2
  <2>5. pc'[t] = "dropAcl" /\ \A s \in Tasks \ {t} : pc[s] = "idle" /\ pc'[s] = "idle"
    BY <1>2, <2>2 DEF Goto, TInv, TypeOK
  <2>6. p \in Dropping' /\ call' = call
    BY <1>0, <1>5, <2>2, <2>5 DEF Dropping, locals
  <2>7. Listed(doc, Dropping)'
    BY <1>1, <1>3, <2>1, <2>6 DEF Listed
  <2>8. Knows(t, call[t])'
    BY <1>3, <1>5, <2>1, <2>5, <2>6 DEF Knows
  <2> QED BY <1>0, <1>3, <2>3, <2>4, <2>5, <2>7, <2>8, OnlyCaller
<1> QED BY <1>0, <1>4, <1>5

(* The steps on the access lists.                                          *)
LEMMA AccessCalm ==
    ASSUME KInv, NEW t \in Tasks, calm',
           DropAcl(t) \/ Grant(t) \/ Withdraw(t) \/ StoreAcl(t)
    PROVE  InCalm'
<1> USE DEF KInv
<1> DEFINE p == call[t].path
<1>0. /\ p \in Paths /\ call[t] # None
      /\ pc[t] = "dropAcl" => call[t].op = "delete"
      /\ pc[t] = "change" => call[t].op \in {"grant_access", "revoke_access"}
      /\ call[t].op \in {"grant_access", "revoke_access"} => call[t].to \in Users
      /\ policies \in PolicyDoc
  BY CallFields DEF TInv, TypeOK, CallsAgree, DropAcl, Grant, Withdraw, StoreAcl
<1>1. Quiet(t, TRUE)
  BY DEF DropAcl, Grant, Withdraw, StoreAcl
<1>2. Calm(t, TRUE) /\ UNCHANGED <<answered, removed>>
  BY <1>1 DEF Quiet, Remember
<1>3. pc[t] # "save" /\ doc' = doc
  BY DEF DropAcl, Grant, Withdraw, StoreAcl, files
<1>4. /\ doc \in Doc /\ Holds(doc, answered) /\ Clean(doc) /\ Listed(doc, Dropping)
      /\ Knows(t, call[t]) /\ \A s \in Tasks \ {t} : pc[s] = "idle"
  BY <1>2, <1>3, CalmStep
<1>5. CASE DropAcl(t)
  <2>1. CASE policies[p] = NoGrants
    BY <1>1, <1>5, <2>1, RefuseCalm DEF DropAcl, Return
  <2>2. CASE policies[p] # NoGrants
    <3>1. /\ pc[t] = "dropAcl" /\ Goto(t, "storeAcl") /\ call' = call /\ UNCHANGED files
          /\ pdoc' = [pdoc EXCEPT ![t] = [policies EXCEPT ![p] = NoGrants]]
      BY <1>5, <2>2 DEF DropAcl
    <3>2. pc'[t] = "storeAcl" /\ pdoc'[t] = [policies EXCEPT ![p] = NoGrants]
      BY <3>1 DEF Goto, TInv, TypeOK
    <3>3. Knows(t, call[t])'
      BY <1>0, <1>4, <3>1, <3>2 DEF Knows, files
    <3> QED BY <1>2, <3>1, <3>3, GoOnCalm DEF Labels
  <2> QED BY <2>1, <2>2
<1>6. ASSUME pc[t] = "change", Goto(t, "storeAcl"), call' = call, UNCHANGED files,
             pdoc' = [pdoc EXCEPT ![t] = Changed(call[t])]
      PROVE  InCalm'
  <2>1. pc'[t] = "storeAcl" /\ pdoc'[t] = Changed(call[t])
    BY <1>6 DEF Goto, TInv, TypeOK
  <2>2. Changed(call[t])' = Changed(call[t])
    BY <1>6 DEF Changed, files
  <2>3. Knows(t, call[t])'
    BY <1>0, <1>4, <1>6, <2>1, <2>2 DEF Knows, files
  <2> QED BY <1>2, <1>6, <2>3, GoOnCalm DEF Labels
<1>7. CASE Grant(t)
  BY <1>6, <1>7 DEF Grant, Changed
<1>8. CASE Withdraw(t)
  <2>1. CASE policies[p][call[t].to] = {}
    BY <1>1, <1>8, <2>1, RefuseCalm DEF Withdraw, Return
  <2>2. CASE policies[p][call[t].to] # {}
    BY <1>6, <1>8, <2>2 DEF Withdraw, Changed
  <2> QED BY <2>1, <2>2
<1>9. CASE StoreAcl(t)
  <2>1. pc[t] = "storeAcl" /\ policies' = pdoc[t]
    BY <1>9 DEF StoreAcl
  <2>2. Dropping \subseteq {p}
    BY <1>4 DEF Dropping
  <2>3. Listed(doc, {})'
    <3>1. CASE call[t].op = "delete"
      <4>1. policies' = [policies EXCEPT ![p] = NoGrants]
        BY <1>4, <2>1, <3>1 DEF Knows
      <4> QED BY <1>0, <1>3, <1>4, <2>2, <4>1 DEF Listed, PolicyDoc
    <3>2. CASE call[t].op # "delete"
      <4>1. doc[p] # <<>> /\ \A q \in Paths \ {p} : policies'[q] = policies[q]
        BY <1>0, <1>4, <2>1, <3>2 DEF Knows, Changed, PolicyDoc
      <4> QED BY <1>3, <1>4, <2>2, <4>1 DEF Listed
    <3> QED BY <3>1, <3>2
  <2>4. doc' \in Doc /\ Holds(doc, answered)' /\ Clean(doc)'
    BY <1>2, <1>3, <1>4 DEF Holds, Clean
  <2>5. PICK o : Return(t, o)
    BY <1>9 DEF StoreAcl
  <2> QED BY <1>2, <2>3, <2>4, <2>5, ReturnCalm DEF Return
<1> QED BY <1>5, <1>7, <1>8, <1>9

(* Every step of a call that is still calm keeps them.                     *)
LEMMA StepCalm ==
    ASSUME KInv, NEW t \in Tasks, Step(t), calm'
    PROVE  InCalm'
<1> USE DEF KInv
<1>1. ASSUME NEW o, NEW v, Answer(t, o, v), NEW ok, Quiet(t, ok), UNCHANGED files,
             pc[t] \in {"idle", "exists", "read"}
      PROVE  InCalm'
  BY <1>1, RefuseCalm
<1>2. ASSUME NEW c, NEW l \in {"exists", "read", "change"}, Begin(t, c, l),
             c.op # "write", NEW ok, Quiet(t, ok), UNCHANGED files, pc[t] = "idle",
             l = "change" => doc[c.path] # <<>> /\ c.to # Owner[c.path]
      PROVE  InCalm'
  <2>1. Calm(t, ok) /\ UNCHANGED <<answered, removed>>
    BY <1>2 DEF Quiet, Remember
  <2> QED BY <1>2, <2>1, BeginCalm
<1>3. ASSUME NEW p \in Paths, NEW u \in Users, Write(t, u, p) PROVE InCalm'
  <2>1. PICK v \in Values \ used :
           Begin(t, [op |-> "write", path |-> p, value |-> v], "get")
    BY <1>3 DEF Write
  <2>2. /\ pc[t] = "idle" /\ Calm(t, TRUE) /\ UNCHANGED files
        /\ UNCHANGED <<answered, removed>>
    BY <1>3 DEF Write, Remember
  <2>3. v \notin removed
    BY DEF HInv, OneOrigin
  <2> QED BY <2>1, <2>2, <2>3, BeginCalm
<1>4. ASSUME NEW p \in Paths, NEW u \in Users, Delete(t, u, p) PROVE InCalm'
  BY <1>2, <1>4 DEF Delete
<1>5. ASSUME NEW p \in Paths, NEW u \in Users, NEW n, Read(t, u, p, n) PROVE InCalm'
  BY <1>2, <1>5 DEF Read
<1>6. ASSUME NEW p \in Paths, NEW u \in Users, NEW P,
             NEW op \in {"grant_access", "revoke_access"}, ChangeAccess(t, op, p, u, P)
      PROVE  InCalm'
  <2> DEFINE c == [op |-> op, path |-> p, to |-> u, perms |-> P]
  <2>1. PICK d \in Loads :
           /\ \/ Return(t, "NOT_FOUND") \/ Return(t, "INVALID_INPUT")
              \/ d[p] # <<>> /\ u # Owner[p] /\ Begin(t, c, "change")
           /\ Quiet(t, Sound(d))
    BY <1>6 DEF ChangeAccess
  <2>2. pc[t] = "idle" /\ UNCHANGED files
    BY <1>6 DEF ChangeAccess
  <2>3. d = doc
    <3>1. Calm(t, Sound(d))
      BY <2>1 DEF Quiet
    <3> QED BY <2>2, <3>1, CalmStep, SoundLoad
  <2>4. c.op # "write" /\ c.path = p /\ c.to = u
    OBVIOUS
  <2> HIDE DEF c
  <2> QED BY <1>1, <1>2, <2>1, <2>2, <2>3, <2>4 DEF Return
<1>7. CASE Denied(t)
  BY <1>1, <1>7 DEF Denied, Return
<1>8. CASE ReadLoad(t)
  BY <1>1, <1>8 DEF ReadLoad, Return
<1>9. CASE Fault(t) \/ Restart(t)
  BY <1>9 DEF Fault, Restart, Quiet, Calm
<1>10. CASE Exists(t)
  <2>1. PICK d \in Loads :
           /\ Return(t, "NOT_FOUND") \/ (Goto(t, "delete") /\ UNCHANGED locals)
           /\ Quiet(t, Sound(d))
    BY <1>10 DEF Exists
  <2>2. CASE Return(t, "NOT_FOUND")
    BY <1>1, <1>10, <2>1, <2>2 DEF Exists, Return
  <2>3. CASE Goto(t, "delete") /\ UNCHANGED locals
    <3>1. /\ pc[t] = "exists" /\ UNCHANGED files /\ call' = call
          /\ Calm(t, Sound(d)) /\ UNCHANGED <<answered, removed>>
      BY <1>10, <2>1, <2>3 DEF Exists, locals, Quiet, Remember
    <3>2. pc'[t] = "delete" /\ call[t].op = "delete"
      BY <2>3, <3>1 DEF Goto, TInv, TypeOK, CallsAgree
    <3>3. Knows(t, call[t])'
      BY <3>1, <3>2 DEF Knows
    <3> QED BY <2>3, <3>1, <3>3, GoOnCalm DEF Labels
  <2> QED BY <2>1, <2>2, <2>3
<1> QED BY <1>3, <1>4, <1>5, <1>6, <1>7, <1>8, <1>9, <1>10, PrepareCalm, SaveOpenCalm,
           SaveCloseCalm, AccessCalm DEF Step

(* They hold as long as nothing raced and nothing failed.                  *)
LEMMA CalmInductive == Spec => []KInv
<1>1. Init => CalmInv
  BY DEF Init, CalmInv, InCalm, Knows, Saving, Holds, Clean, Listed, Nothing, Doc
<1>2. ASSUME KInv, [Next]_vars PROVE CalmInv'
  <2>1. CASE UNCHANGED vars
    <3>1. \A c : Changed(c)' = Changed(c)
      BY <2>1 DEF vars, Changed
    <3>2. ASSUME NEW t \in Tasks, Knows(t, call[t]) PROVE Knows(t, call[t])'
      BY <2>1, <3>1, <3>2 DEF vars, Knows, Holds, Clean, Listed
    <3>3. (InCalm => InCalm') /\ calm' = calm
      BY <2>1, <3>2 DEF vars, InCalm, Saving, Holds, Clean, Listed, Dropping
    <3> QED BY <1>2, <3>3 DEF KInv, CalmInv
  <2> QED BY <1>2, <2>1, StepCalm DEF Next, CalmInv
<1>3. KInv <=> TInv /\ HInv /\ CalmInv
  BY DEF KInv
<1> QED BY <1>1, <1>2, <1>3, TraceInductive, PTL DEF Spec

(* While calls do not overlap and none is disturbed, no acknowledged       *)
(* version is lost but by the deletion of its own path                     *)
(* (kv_engine.py:170-211, storage.py:30-41).                               *)
THEOREM WritesAreKept == Spec => []WritesKept
<1>1. KInv => WritesKept
  BY DEF KInv, CalmInv, InCalm, WritesKept, Holds
<1> QED BY <1>1, CalmInductive, PTL

(* And nothing that a delete removed ever comes back, whatever is written, *)
(* deleted and written again; nor does the access list stay: between calls *)
(* only existing secrets have one (kv_engine.py:238-247).                  *)
THEOREM DeletedStaysGone == Spec => []DeletedIsGone
<1>1. ASSUME KInv, calm, doc \in Doc PROVE Clean(doc)
  <2>1. ~Saving
    BY <1>1, FileAssumption DEF KInv, CalmInv, InCalm, Knows, Saving
  <2> QED BY <1>1, <2>1 DEF KInv, CalmInv, InCalm
<1>2. ASSUME KInv, calm, \A t \in Tasks : pc[t] = "idle"
      PROVE  \A p \in Paths : doc[p] = <<>> => policies[p] = NoGrants
  <2>1. ~Saving /\ Dropping = {}
    BY <1>2 DEF Saving, Dropping
  <2> QED BY <1>2, <2>1 DEF KInv, CalmInv, InCalm, Listed
<1>3. KInv => DeletedIsGone
  BY <1>1, <1>2 DEF DeletedIsGone, Clean
<1> QED BY <1>3, CalmInductive, PTL
-----------------------------------------------------------------------------
(* What the promise sees of the one call under way in calm: a save, the    *)
(* deletion of an access list, a value that is not saved yet.              *)
Drops(t) == pc[t] \in {"save", "dropAcl", "storeAcl"} /\ call[t].op = "delete"
Holdsback(t) == pc[t] \in {"set", "open"} /\ call[t].op = "write"
Attempts == {w.value : w \in attempted}

LEMMA View ==
    ASSUME NEW t \in Tasks, \A s \in Tasks \ {t} : pc[s] = "idle",
           policies \in PolicyDoc
    PROVE  /\ Secrets = IF pc[t] = "save" THEN store[t] ELSE doc
           /\ Grants = IF Drops(t) THEN [policies EXCEPT ![call[t].path] = NoGrants]
                       ELSE policies
           /\ Spent = Attempts \ (IF Holdsback(t) THEN {call[t].value} ELSE {})
<1>1. Secrets = IF pc[t] = "save" THEN store[t] ELSE doc
  <2>1. \A u \in Tasks : pc[u] = "save" => u = t
    OBVIOUS
  <2>2. pc[t] = "save" => (CHOOSE u \in Tasks : pc[u] = "save") = t
    BY <2>1
  <2> QED BY <2>1, <2>2 DEF Secrets, Saving
<1>2. \A p \in Paths : Deleting(p) <=> Drops(t) /\ call[t].path = p
  BY DEF Deleting, Drops
<1>3. Grants = IF Drops(t) THEN [policies EXCEPT ![call[t].path] = NoGrants]
               ELSE policies
  BY <1>2 DEF Grants, PolicyDoc
<1>4. Unsaved = {w \in attempted : Holdsback(t) /\ call[t].value = w.value}
  BY DEF Unsaved, Holdsback
<1>5. Spent = Attempts \ (IF Holdsback(t) THEN {call[t].value} ELSE {})
  BY <1>4 DEF Spent, Attempts
<1> QED BY <1>1, <1>3, <1>5

(* The same after a step.                                                  *)
LEMMA ViewAfter ==
    ASSUME NEW t \in Tasks, \A s \in Tasks \ {t} : pc'[s] = "idle",
           policies' \in PolicyDoc
    PROVE  /\ Secrets' = IF pc'[t] = "save" THEN store'[t] ELSE doc'
           /\ Grants' = IF Drops(t)' THEN [policies' EXCEPT ![call'[t].path] = NoGrants]
                        ELSE policies'
           /\ Spent' = Attempts' \ (IF Holdsback(t)' THEN {call'[t].value} ELSE {})
<1>1. Secrets' = IF pc'[t] = "save" THEN store'[t] ELSE doc'
  <2>1. \A u \in Tasks : pc'[u] = "save" => u = t
    OBVIOUS
  <2>2. pc'[t] = "save" => (CHOOSE u \in Tasks : pc'[u] = "save") = t
    BY <2>1
  <2> QED BY <2>1, <2>2 DEF Secrets, Saving
<1>2. \A p \in Paths : Deleting(p)' <=> Drops(t)' /\ call'[t].path = p
  BY DEF Deleting, Drops
<1>3. Grants' = IF Drops(t)' THEN [policies' EXCEPT ![call'[t].path] = NoGrants]
                ELSE policies'
  BY <1>2 DEF Grants, PolicyDoc
<1>4. Unsaved' = {w \in attempted' : Holdsback(t)' /\ call'[t].value = w.value}
  BY DEF Unsaved, Holdsback
<1>5. Spent' = Attempts' \ (IF Holdsback(t)' THEN {call'[t].value} ELSE {})
  BY <1>4 DEF Spent, Attempts
<1> QED BY <1>1, <1>3, <1>5

(* A step that the promise sees nothing of, but that the task forgets what *)
(* it was given.                                                           *)
LEMMA Unseen ==
    ASSUME NEW t \in Tasks, UNCHANGED <<Secrets, Grants, Spent>>,
           given' = given \/ given' = [given EXCEPT ![t] = None]
    PROVE  [Abs!Next]_(Abs!vars)
BY DEF Abs!Next, Abs!Forget, Abs!vars

(* A step from one label to another that changes neither file.             *)
LEMMA MovesUnseen ==
    ASSUME KInv, KInv', NEW t \in Tasks, NEW ok, Calm(t, ok), calm',
           UNCHANGED files, pc[t] # "save", pc'[t] # "save",
           \A s \in Tasks \ {t} : pc'[s] = "idle",
           given' = given \/ given' = [given EXCEPT ![t] = None],
           Attempts' \ (IF Holdsback(t)' THEN {call'[t].value} ELSE {})
              = Attempts \ (IF Holdsback(t) THEN {call[t].value} ELSE {}),
           Drops(t) /\ Drops(t)' => call'[t].path = call[t].path,
           Drops(t) /\ ~Drops(t)' => policies[call[t].path] = NoGrants,
           Drops(t)' /\ ~Drops(t) => policies[call'[t].path] = NoGrants
    PROVE  [Abs!Next]_(Abs!vars)
<1>1. \A s \in Tasks \ {t} : pc[s] = "idle"
  BY CalmStep
<1>2. policies \in PolicyDoc /\ policies' = policies /\ doc' = doc
  BY DEF KInv, TInv, TypeOK, files
<1>3. UNCHANGED <<Secrets, Spent>>
  BY <1>1, <1>2, View, ViewAfter
<1>4. \A p : policies[p] = NoGrants => [policies EXCEPT ![p] = NoGrants] = policies
  BY <1>2 DEF PolicyDoc
<1>5. /\ Grants = IF Drops(t) THEN [policies EXCEPT ![call[t].path] = NoGrants]
                  ELSE policies
      /\ Grants' = IF Drops(t)' THEN [policies EXCEPT ![call'[t].path] = NoGrants]
                   ELSE policies
  BY <1>1, <1>2, View, ViewAfter
<1>6. Grants' = Grants
  <2>1. CASE Drops(t) /\ ~Drops(t)'
    BY <1>2, <1>4, <1>5, <2>1
  <2>2. CASE ~Drops(t) /\ Drops(t)'
    BY <1>2, <1>4, <1>5, <2>2
  <2>3. CASE ~Drops(t) /\ ~Drops(t)'
    BY <1>2, <1>5, <2>3
  <2>4. CASE Drops(t) /\ Drops(t)'
    BY <1>2, <1>5, <2>4
  <2> QED BY <2>1, <2>2, <2>3, <2>4
<1> QED BY <1>3, <1>6, Unseen

(* A call that begins or is refused.                                       *)
LEMMA IdleUnseen ==
    ASSUME KInv, KInv', NEW t \in Tasks, pc[t] = "idle", NEW ok, Calm(t, ok), calm',
           UNCHANGED <<files, attempted>>,
           \/ \E c, l : l \in {"get", "exists", "read", "change"} /\ Begin(t, c, l)
           \/ \E o : Return(t, o)
    PROVE  [Abs!Next]_(Abs!vars)
<1>1. /\ pc'[t] \in {"idle", "get", "exists", "read", "change"}
      /\ \A s \in Tasks \ {t} : pc'[s] = pc[s]
      /\ given' = [given EXCEPT ![t] = None]
  BY DEF Begin, Return, Answer, KInv, TInv, TypeOK
<1>2. \A s \in Tasks \ {t} : pc'[s] = "idle"
  BY <1>1, CalmStep
<1>3. ~Drops(t) /\ ~Drops(t)' /\ ~Holdsback(t) /\ ~Holdsback(t)'
  BY <1>1 DEF Drops, Holdsback
<1>4. Attempts' = Attempts
  BY DEF Attempts
<1> QED BY <1>1, <1>2, <1>3, <1>4, MovesUnseen

(* A call that ends and changes neither file.                              *)
LEMMA EndUnseen ==
    ASSUME KInv, KInv', NEW t \in Tasks, NEW o, Return(t, o), NEW ok, Calm(t, ok), calm',
           UNCHANGED <<files, attempted>>, pc[t] \in {"exists", "dropAcl", "read", "change"},
           pc[t] = "dropAcl" => policies[call[t].path] = NoGrants
    PROVE  [Abs!Next]_(Abs!vars)
<1>1. /\ pc'[t] = "idle" /\ \A s \in Tasks \ {t} : pc'[s] = pc[s]
      /\ given' = [given EXCEPT ![t] = None]
  BY DEF Return, Answer, KInv, TInv, TypeOK
<1>2. \A s \in Tasks \ {t} : pc'[s] = "idle"
  BY <1>1, CalmStep
<1>3. /\ Drops(t) => policies[call[t].path] = NoGrants
      /\ ~Drops(t)' /\ ~Holdsback(t) /\ ~Holdsback(t)'
  BY <1>1 DEF Drops, Holdsback
<1>4. Attempts' = Attempts
  BY DEF Attempts
<1> QED BY <1>1, <1>2, <1>3, <1>4, MovesUnseen

(* The look whether the secret to delete exists.                           *)
LEMMA ExistsUnseen ==
    ASSUME KInv, KInv', NEW t \in Tasks, calm', Exists(t)
    PROVE  [Abs!Next]_(Abs!vars)
<1> USE DEF KInv
<1>1. PICK ok : Calm(t, ok)
  BY DEF Exists, Quiet
<1>2. pc[t] = "exists" /\ UNCHANGED <<files, attempted>>
  BY DEF Exists, Quiet
<1>3. CASE Return(t, "NOT_FOUND")
  BY <1>1, <1>2, <1>3, EndUnseen
<1>4. CASE Goto(t, "delete") /\ UNCHANGED locals
  <2>1. /\ pc'[t] = "delete" /\ \A s \in Tasks \ {t} : pc'[s] = pc[s]
        /\ given' = given
    BY <1>4 DEF Goto, locals, TInv, TypeOK
  <2>2. \A s \in Tasks \ {t} : pc'[s] = "idle"
    BY <1>1, <2>1, CalmStep
  <2>3. ~Drops(t) /\ ~Drops(t)' /\ ~Holdsback(t) /\ ~Holdsback(t)'
    BY <1>2, <2>1 DEF Drops, Holdsback
  <2>4. Attempts' = Attempts
    BY <1>2 DEF Attempts
  <2> QED BY <1>1, <1>2, <2>1, <2>2, <2>3, <2>4, MovesUnseen
<1> QED BY <1>3, <1>4 DEF Exists

(* The steps of a write and of a delete, up to the opening of the file.    *)
LEMMA PrepareUnseen ==
    ASSUME KInv, KInv', NEW t \in Tasks, calm',
           WriteGet(t) \/ StoreSet(t) \/ StoreDelete(t)
    PROVE  [Abs!Next]_(Abs!vars)
<1> USE DEF KInv
<1>1. PICK l \in {"set", "open", "dropAcl"} : \E ok : Goto(t, l) /\ Calm(t, ok)
  BY DEF WriteGet, StoreSet, StoreDelete, Quiet
<1>2. /\ pc'[t] = l /\ \A s \in Tasks \ {t} : pc'[s] = pc[s]
      /\ UNCHANGED <<files, call, given>>
  BY <1>1 DEF WriteGet, StoreSet, StoreDelete, Goto, TInv, TypeOK
<1>3. \A s \in Tasks \ {t} : pc'[s] = "idle"
  BY <1>1, <1>2, CalmStep
<1>4. call[t] # None /\ call[t] \in Call
  BY DEF WriteGet, StoreSet, StoreDelete, TInv, TypeOK, CallsAgree
<1>5. CASE WriteGet(t)
  <2>1. pc[t] = "get" /\ l = "set" /\ call[t].op = "write"
    <3>1. pc[t] = "get"
      BY <1>5 DEF WriteGet
    <3>2. pc'[t] = "set"
      BY <1>5 DEF WriteGet, Goto, TInv, TypeOK
    <3>3. call[t].op = "write"
      BY <3>1 DEF TInv, CallsAgree
    <3> QED BY <1>2, <3>1, <3>2, <3>3
  <2>2. call[t].value \notin Attempts
    BY <2>1 DEF HInv, OneOrigin, Attempts
  <2>3. PICK n : Attempt(t, n)
    BY <1>5 DEF WriteGet
  <2>4. Attempts' = Attempts \cup {call[t].value}
    <3> DEFINE w == [path |-> call[t].path, number |-> n, value |-> call[t].value]
    <3>1. attempted' = attempted \cup {w} /\ w.value = call[t].value
      BY <2>3 DEF Attempt
    <3> HIDE DEF w
    <3> QED BY <3>1 DEF Attempts
  <2>5. ~Drops(t) /\ ~Drops(t)' /\ ~Holdsback(t) /\ Holdsback(t)'
    BY <1>2, <2>1 DEF Drops, Holdsback
  <2> QED BY <1>1, <1>2, <1>3, <2>1, <2>2, <2>4, <2>5, MovesUnseen
<1>6. CASE StoreSet(t)
  <2>1. pc[t] = "set" /\ l = "open" /\ call[t].op = "write" /\ attempted' = attempted
    BY <1>1, <1>2, <1>6 DEF StoreSet, Goto, Quiet, TInv, TypeOK, CallsAgree
  <2>2. Attempts' = Attempts
    BY <2>1 DEF Attempts
  <2>3. ~Drops(t) /\ ~Drops(t)' /\ Holdsback(t) /\ Holdsback(t)'
    BY <1>2, <2>1 DEF Drops, Holdsback
  <2> QED BY <1>1, <1>2, <1>3, <2>1, <2>2, <2>3, MovesUnseen
<1>7. CASE StoreDelete(t)
  <2>1. pc[t] = "delete" /\ call[t].op = "delete" /\ attempted' = attempted
    BY <1>7 DEF StoreDelete, TInv, CallsAgree
  <2>2. Attempts' = Attempts
    BY <2>1 DEF Attempts
  <2>3. ~Drops(t) /\ ~Holdsback(t) /\ ~Holdsback(t)'
    BY <1>2, <2>1 DEF Drops, Holdsback
  <2>4. l = "open" => ~Drops(t)'
    BY <1>2 DEF Drops
  <2>5. l # "open" => policies[call'[t].path] = NoGrants
    <3> SUFFICES ASSUME l # "open" PROVE policies[call[t].path] = NoGrants
      BY <1>2
    <3>1. PICK d \in Loads : d[call[t].path] = <<>> /\ Calm(t, Sound(d))
      BY <1>2, <1>7 DEF StoreDelete, Goto, TInv, TypeOK
    <3>2. d = doc /\ Listed(doc, Dropping) /\ \A s \in Tasks \ {t} : pc[s] = "idle"
      BY <2>1, <3>1, CalmStep, SoundLoad
    <3>3. Dropping = {}
      BY <2>1, <3>2 DEF Dropping
    <3>4. call[t].path \in Paths
      BY <1>4, CallFields
    <3> QED BY <3>1, <3>2, <3>3, <3>4 DEF Listed
  <2> QED BY <1>1, <1>2, <1>3, <2>1, <2>2, <2>3, <2>4, <2>5, MovesUnseen
<1> QED BY <1>5, <1>6, <1>7

(* Opening the file writes or deletes the secret.                          *)
LEMMA SaveOpenIsOneStep ==
    ASSUME KInv, KInv', NEW t \in Tasks, calm', SaveOpen(t)
    PROVE  Abs!Next
<1> USE DEF KInv
<1> DEFINE p == call[t].path
           v == call[t].value
<1>0. /\ p \in Paths /\ call[t] # None /\ call[t].op \in {"write", "delete"}
      /\ store[t] \in Doc /\ policies \in PolicyDoc
      /\ call[t].op = "write" => v \in Values /\ record[t] \in Seq(Values)
                                 /\ record[t] # <<>>
                                 /\ record[t][Len(record[t])] = v
  BY CallFields DEF TInv, TypeOK, CallsAgree, SaveOpen
<1>1. /\ pc[t] = "open" /\ Calm(t, TRUE) /\ pc'[t] = "save"
      /\ UNCHANGED <<call, store, given, policies, attempted>>
  BY DEF SaveOpen, Quiet, Goto, locals, TInv, TypeOK
<1>2. \A s \in Tasks \ {t} : pc[s] = "idle" /\ pc'[s] = "idle"
  BY <1>1, CalmStep DEF SaveOpen, Goto, TInv, TypeOK
<1>3. doc \in Doc /\ Knows(t, call[t])
  BY <1>1, CalmStep
<1>4. Secrets = doc /\ Secrets' = store[t] /\ Attempts' = Attempts
  BY <1>0, <1>1, <1>2, View, ViewAfter DEF Attempts
<1>5. Grants = policies
  BY <1>0, <1>1, <1>2, View DEF Drops
<1>6. CASE call[t].op = "write"
  <2>1. store[t] = [doc EXCEPT ![p] = Append(doc[p], v)]
    BY <1>1, <1>3, <1>6 DEF Knows
  <2>2. Grants' = policies
    BY <1>0, <1>1, <1>2, <1>6, ViewAfter DEF Drops
  <2>3. Spent = Attempts \ {v}
    BY <1>0, <1>1, <1>2, <1>6, View DEF Holdsback
  <2>4. Spent' = Attempts
    BY <1>0, <1>1, <1>2, <1>4, ViewAfter DEF Holdsback
  <2>5. v \in Attempts
    <3>1. Len(record[t]) \in 1 .. Len(record[t])
      BY <1>0, <1>6
    <3>2. Made(record[t], p)
      BY <1>0, <1>6, NoneAssumption DEF HInv, Traced
    <3>3. [path |-> p, number |-> Len(record[t]), value |-> v] \in attempted
      BY <1>0, <1>6, <3>1, <3>2 DEF Made
    <3> QED BY <3>3 DEF Attempts
  <2>6. v \in Values \ Spent /\ Spent' = Spent \cup {v}
    BY <1>0, <1>6, <2>3, <2>4, <2>5
  <2>7. Secrets' = [Secrets EXCEPT ![p] = Append(@, v)]
    BY <1>4, <2>1
  <2>8. Abs!Write(p)
    BY <1>1, <1>5, <2>2, <2>6, <2>7 DEF Abs!Write
  <2> QED BY <1>0, <2>8 DEF Abs!Next
<1>7. CASE call[t].op = "delete"
  <2>1. doc[p] # <<>> /\ store[t] = [doc EXCEPT ![p] = <<>>]
    BY <1>1, <1>3, <1>7 DEF Knows
  <2>2. Grants' = [policies EXCEPT ![p] = NoGrants]
    BY <1>0, <1>1, <1>2, <1>7, ViewAfter DEF Drops
  <2>3. ~Holdsback(t) /\ ~Holdsback(t)'
    BY <1>1, <1>7 DEF Holdsback
  <2>4. Spent' = Spent
    BY <1>0, <1>1, <1>2, <1>4, <2>3, View, ViewAfter
  <2>5. Abs!Delete(p)
    BY <1>1, <1>4, <1>5, <2>1, <2>2, <2>4
       DEF Abs!Delete, Abs!NoGrants, NoGrants
  <2> QED BY <1>0, <2>5 DEF Abs!Next
<1> QED BY <1>0, <1>6, <1>7

(* Closing it changes nothing any more.                                    *)
LEMMA SaveCloseUnseen ==
    ASSUME KInv, KInv', NEW t \in Tasks, calm', SaveClose(t)
    PROVE  [Abs!Next]_(Abs!vars)
<1> USE DEF KInv
<1>1. /\ pc[t] = "save" /\ Calm(t, TRUE) /\ UNCHANGED <<policies, attempted>>
      /\ policies \in PolicyDoc /\ store[t] \in Doc
  BY DEF SaveClose, TInv, TypeOK, CallsAgree
<1>2. Knows(t, call[t]) /\ \A s \in Tasks \ {t} : pc[s] = "idle"
  BY <1>1, CalmStep
<1>3. doc' = store[t]
  BY <1>1, <1>2 DEF SaveClose, Written, Knows
<1>4. \/ /\ call[t].op = "write" /\ pc'[t] = "idle"
         /\ given' = [given EXCEPT ![t] = None]
      \/ /\ call[t].op = "delete" /\ pc'[t] = "dropAcl"
         /\ UNCHANGED <<call, given>>
  BY DEF SaveClose, Return, Answer, Goto, locals, TInv, TypeOK
<1>5. \A s \in Tasks \ {t} : pc'[s] = "idle"
  BY <1>2 DEF SaveClose, Return, Answer, Goto, TInv, TypeOK
<1>6. Secrets' = Secrets
  BY <1>1, <1>2, <1>3, <1>4, <1>5, View, ViewAfter
<1>7. ~Holdsback(t) /\ ~Holdsback(t)' /\ Attempts' = Attempts
  BY <1>1, <1>4 DEF Holdsback, Attempts
<1>8. Spent' = Spent
  BY <1>1, <1>2, <1>5, <1>7, View, ViewAfter
<1>9. Drops(t) = Drops(t)' /\ (Drops(t) => call'[t] = call[t])
  BY <1>1, <1>4 DEF Drops
<1>10. Grants' = Grants
  BY <1>1, <1>2, <1>5, <1>9, View, ViewAfter
<1> QED BY <1>4, <1>6, <1>8, <1>10, Unseen

(* A call that ends with a read has given out what is there.               *)
LEMMA ReadIsOneStep ==
    ASSUME KInv, KInv', NEW t \in Tasks, calm', ReadLoad(t)
    PROVE  [Abs!Next]_(Abs!vars)
<1> USE DEF KInv
<1> DEFINE p == call[t].path
           h == doc[p]
           n == IF call[t].number = 0 THEN Len(h) ELSE call[t].number
           w == [path |-> p, number |-> n, value |-> h[n]]
<1>1. pc[t] = "read" /\ UNCHANGED files
  BY DEF ReadLoad
<1>2. PICK d \in Loads :
        LET g == d[p]
            m == IF call[t].number = 0 THEN Len(g) ELSE call[t].number
        IN  /\ \/ m \notin 1 .. Len(g) /\ Return(t, "NOT_FOUND")
               \/ /\ m \in 1 .. Len(g)
                  /\ Answer(t, "read", [path |-> p, number |-> m, value |-> g[m]])
            /\ Quiet(t, Sound(d))
  BY DEF ReadLoad
<1>3. Calm(t, Sound(d)) /\ attempted' = attempted
  BY <1>2 DEF Quiet
<1>4. d = doc /\ \A s \in Tasks \ {t} : pc[s] = "idle"
  BY <1>1, <1>3, CalmStep, SoundLoad
<1>5. Return(t, "NOT_FOUND") \/ (n \in 1 .. Len(h) /\ Answer(t, "read", w))
  BY <1>2, <1>4
<1>6. CASE Return(t, "NOT_FOUND")
  BY <1>1, <1>3, <1>6, EndUnseen
<1>7. CASE n \in 1 .. Len(h) /\ Answer(t, "read", w)
  <2>1. p \in Paths
    BY <1>1, CallFields DEF TInv, TypeOK, CallsAgree
  <2>2. /\ pc'[t] = "idle" /\ \A s \in Tasks \ {t} : pc'[s] = "idle"
        /\ given' = [given EXCEPT ![t] = w]
    <3> HIDE DEF w
    <3> QED BY <1>4, <1>7 DEF Answer, TInv, TypeOK
  <2>3. ~Drops(t) /\ ~Drops(t)' /\ ~Holdsback(t) /\ ~Holdsback(t)'
    BY <1>1, <2>2 DEF Drops, Holdsback
  <2>4. /\ policies' = policies /\ doc' = doc /\ Attempts' = Attempts
        /\ policies \in PolicyDoc
    BY <1>1, <1>3 DEF files, Attempts, TInv, TypeOK
  <2>5. Secrets = doc /\ UNCHANGED <<Secrets, Grants, Spent>>
    BY <1>1, <1>4, <2>2, <2>3, <2>4, View, ViewAfter
  <2>6. Abs!Read(t, p)
    BY <1>7, <2>2, <2>5 DEF Abs!Read
  <2> QED BY <2>1, <2>6 DEF Abs!Next
<1> QED BY <1>5, <1>6, <1>7

(* The steps on the access lists before the list is stored.                *)
LEMMA AccessUnseen ==
    ASSUME KInv, KInv', NEW t \in Tasks, calm',
           DropAcl(t) \/ Grant(t) \/ Withdraw(t)
    PROVE  [Abs!Next]_(Abs!vars)
<1> USE DEF KInv
<1>1. /\ Calm(t, TRUE) /\ attempted' = attempted /\ UNCHANGED files
      /\ pc[t] \in {"dropAcl", "change"}
  BY DEF DropAcl, Grant, Withdraw, Quiet
<1>2. \/ \E o : Return(t, o) /\ (pc[t] = "dropAcl" => policies[call[t].path] = NoGrants)
      \/ Goto(t, "storeAcl") /\ UNCHANGED <<call, given>>
  BY DEF DropAcl, Grant, Withdraw
<1>3. ASSUME NEW o, Return(t, o), pc[t] = "dropAcl" => policies[call[t].path] = NoGrants
      PROVE  [Abs!Next]_(Abs!vars)
  BY <1>1, <1>3, EndUnseen
<1>4. CASE Goto(t, "storeAcl") /\ UNCHANGED <<call, given>>
  <2>1. pc'[t] = "storeAcl" /\ \A s \in Tasks \ {t} : pc'[s] = pc[s]
    BY <1>4 DEF Goto, TInv, TypeOK
  <2>2. \A s \in Tasks \ {t} : pc'[s] = "idle"
    BY <1>1, <2>1, CalmStep
  <2>3. /\ pc[t] = "dropAcl" => call[t].op = "delete"
        /\ pc[t] = "change" => call[t].op # "delete"
    BY DEF TInv, CallsAgree
  <2>4. Drops(t)' = Drops(t) /\ ~Holdsback(t) /\ ~Holdsback(t)'
    BY <1>1, <1>4, <2>1, <2>3 DEF Drops, Holdsback
  <2>5. Attempts' = Attempts
    BY <1>1 DEF Attempts
  <2> QED BY <1>1, <1>4, <2>1, <2>2, <2>4, <2>5, MovesUnseen
<1> QED BY <1>2, <1>3, <1>4

(* Storing the list grants or withdraws; after a delete, which took effect *)
(* when it emptied the file, it changes nothing any more.                  *)
LEMMA StoreAclIsOneStep ==
    ASSUME KInv, KInv', NEW t \in Tasks, calm', StoreAcl(t)
    PROVE  [Abs!Next]_(Abs!vars)
<1> USE DEF KInv
<1> DEFINE c == call[t]
           p == c.path
<1>1. /\ pc[t] = "storeAcl" /\ Calm(t, TRUE) /\ policies' = pdoc[t]
      /\ doc' = doc /\ attempted' = attempted
  BY DEF StoreAcl, Quiet
<1>2. Knows(t, call[t]) /\ doc \in Doc /\ \A s \in Tasks \ {t} : pc[s] = "idle"
  BY <1>1, CalmStep
<1>3. PICK o : Return(t, o)
  BY DEF StoreAcl
<1>4. /\ pc'[t] = "idle" /\ \A s \in Tasks \ {t} : pc'[s] = "idle"
      /\ given' = [given EXCEPT ![t] = None]
  BY <1>2, <1>3 DEF Return, Answer, TInv, TypeOK
<1>5. /\ c \in Call /\ p \in Paths /\ given[t] = None
      /\ c.op \in {"delete", "grant_access", "revoke_access"}
      /\ policies \in PolicyDoc /\ policies' \in PolicyDoc
  BY <1>1, CallFields DEF TInv, TypeOK, CallsAgree
<1>6. given' = given
  BY <1>4, <1>5 DEF TInv, TypeOK
<1>7. ~Holdsback(t) /\ ~Holdsback(t)' /\ ~Drops(t)' /\ Attempts' = Attempts
  BY <1>1, <1>4 DEF Holdsback, Drops, Attempts
<1>8. Secrets = doc /\ UNCHANGED <<Secrets, Spent>> /\ Grants' = policies'
  BY <1>1, <1>2, <1>4, <1>5, <1>7, View, ViewAfter
<1>9. CASE c.op = "delete"
  <2>1. policies' = [policies EXCEPT ![p] = NoGrants]
    BY <1>1, <1>2, <1>9 DEF Knows
  <2>2. Drops(t)
    BY <1>1, <1>9 DEF Drops
  <2>3. Grants = [policies EXCEPT ![p] = NoGrants]
    BY <1>2, <1>5, <2>2, View
  <2> QED BY <1>6, <1>8, <2>1, <2>3, Unseen
<1>10. CASE c.op # "delete"
  <2>1. /\ doc[p] # <<>> /\ c.to # Owner[p]
        /\ policies' = Changed(c)
    BY <1>1, <1>2, <1>10 DEF Knows
  <2>2. ~Drops(t)
    BY <1>10 DEF Drops
  <2>3. Grants = policies
    BY <1>2, <1>5, <2>2, View
  <2>4. c.to \in Users \ {Owner[p]} /\ c.perms \in SUBSET {"READ", "WRITE", "DELETE"}
    BY <1>5, <1>10, <2>1, CallFields DEF Permissions
  <2>5. CASE c.op = "grant_access"
    <3>1. Abs!Grant(p, c.to, c.perms)
      BY <1>6, <1>8, <2>1, <2>3, <2>5 DEF Abs!Grant, Changed
    <3> QED BY <1>5, <2>4, <3>1 DEF Abs!Next
  <2>6. CASE c.op = "revoke_access"
    <3>1. Abs!Withdraw(p, c.to, c.perms)
      BY <1>6, <1>8, <2>1, <2>3, <2>6 DEF Abs!Withdraw, Changed
    <3> QED BY <1>5, <2>4, <3>1 DEF Abs!Next
  <2> QED BY <1>5, <1>10, <2>5, <2>6
<1> QED BY <1>9, <1>10

(* Every step after which it is still calm is one step of the promise or   *)
(* none.                                                                   *)
LEMMA StepInPromise ==
    ASSUME KInv, KInv', NEW t \in Tasks, Step(t), calm'
    PROVE  [Abs!Next]_(Abs!vars)
<1>1. ASSUME NEW p \in Paths, NEW u \in Users,
             \/ Write(t, u, p) \/ Delete(t, u, p) \/ \E n : Read(t, u, p, n)
             \/ \E op, P : ChangeAccess(t, op, p, u, P)
      PROVE  [Abs!Next]_(Abs!vars)
  <2>1. pc[t] = "idle" /\ UNCHANGED <<files, attempted>>
    BY <1>1 DEF Write, Delete, Read, ChangeAccess, Quiet
  <2>2. PICK ok : Calm(t, ok)
    BY <1>1 DEF Write, Delete, Read, ChangeAccess, Quiet
  <2>3. \/ \E c, l : l \in {"get", "exists", "read", "change"} /\ Begin(t, c, l)
        \/ \E o : Return(t, o)
    BY <1>1 DEF Write, Delete, Read, ChangeAccess
  <2> QED BY <2>1, <2>2, <2>3, IdleUnseen
<1>2. CASE Denied(t)
  BY <1>2, IdleUnseen DEF Denied, Quiet
<1>3. CASE Fault(t) \/ Restart(t)
  BY <1>3 DEF Fault, Restart, Quiet, Calm
<1>4. CASE SaveOpen(t)
  BY <1>4, SaveOpenIsOneStep
<1> QED BY <1>1, <1>2, <1>3, <1>4, ExistsUnseen, PrepareUnseen, SaveCloseUnseen, ReadIsOneStep,
           AccessUnseen, StoreAclIsOneStep DEF Step

(* As long as calls do not overlap and none is disturbed, KVStore keeps    *)
(* the promise of KVAbs: a write takes effect as a whole when it empties   *)
(* the file, a delete takes secret and access list away at one moment, a   *)
(* grant adds what was asked for and nothing else, and a read gives out    *)
(* what is there (kv_engine.py:170-323, storage.py:23-68).                 *)
THEOREM Implements == Spec => Refinement
<1>1. Init => Abs!Init
  <2> SUFFICES ASSUME Init PROVE Abs!Init
    OBVIOUS
  <2>1. Secrets = Nothing
    BY DEF Init, Secrets, Saving
  <2>2. \A p : ~Deleting(p)
    BY DEF Init, Deleting
  <2>3. Grants = [p \in Paths |-> NoGrants]
    BY <2>2 DEF Init, Grants
  <2>4. Spent = {}
    BY DEF Init, Spent
  <2> QED BY <2>1, <2>3, <2>4 DEF Init, Abs!Init, Abs!NoGrants, NoGrants, Nothing
<1>2. ASSUME KInv, KInv', [Next]_vars
      PROVE  [calm' => [Abs!Next]_(Abs!vars)]_vars
  BY <1>2, StepInPromise DEF Next
<1> QED BY <1>1, <1>2, CalmInductive, PTL DEF Spec, Refinement

(* So a behaviour that is calm throughout is one of KVAbs.                 *)
THEOREM CalmImplements == Spec /\ []calm => Abs!Spec
<1>1. ASSUME UNCHANGED vars PROVE UNCHANGED Abs!vars
  <2>1. UNCHANGED <<Secrets, Grants, Spent, given>>
    BY <1>1 DEF vars, Secrets, Saving, Grants, Deleting, Spent, Unsaved
  <2> QED BY <2>1 DEF Abs!vars
<1>2. ASSUME calm', [calm' => [Abs!Next]_(Abs!vars)]_vars PROVE [Abs!Next]_(Abs!vars)
  BY <1>1, <1>2
<1> QED BY <1>2, Implements, PTL DEF Refinement, Abs!Spec

(* Calm is what a single caller has whom nothing disturbs.                 *)
THEOREM OneCallerSuffices ==
    (\A s, t \in Tasks : s = t) /\ Interrupts = {} => (Spec => []calm)
<1> SUFFICES ASSUME \A s, t \in Tasks : s = t, Interrupts = {} PROVE Spec => []calm
  OBVIOUS
<1>1. Init => calm
  BY DEF Init
<1>2. ASSUME calm, [Next]_vars PROVE calm'
  <2>1. ASSUME NEW t \in Tasks, NEW ok, Calm(t, ok), ok PROVE calm'
    BY <1>2, <2>1 DEF Calm
  <2>2. \A d \in Loads : Sound(d)
    BY FileAssumption DEF Loads, Sound
  <2>3. ASSUME NEW t \in Tasks, NEW p \in Paths, NEW u \in Users,
               \/ Write(t, u, p) \/ Delete(t, u, p) \/ \E n : Read(t, u, p, n)
               \/ \E op, P : ChangeAccess(t, op, p, u, P)
        PROVE  calm'
    BY <2>1, <2>2, <2>3 DEF Write, Delete, Read, ChangeAccess, Quiet
  <2>4. ASSUME NEW t \in Tasks, \/ WriteGet(t) \/ StoreSet(t) \/ Exists(t)
                                \/ StoreDelete(t) \/ SaveOpen(t) \/ SaveClose(t)
                                \/ ReadLoad(t)
        PROVE  calm'
    BY <2>1, <2>2, <2>4
       DEF WriteGet, StoreSet, Exists, StoreDelete, SaveOpen, SaveClose, ReadLoad,
           Quiet
  <2>5. ASSUME NEW t \in Tasks, \/ Denied(t) \/ DropAcl(t) \/ Grant(t)
                                \/ Withdraw(t) \/ StoreAcl(t)
        PROVE  calm'
    BY <2>1, <2>5 DEF Denied, DropAcl, Grant, Withdraw, StoreAcl, Quiet
  <2>6. \A t \in Tasks : ~Fault(t) /\ ~Restart(t)
    BY DEF Fault, Restart
  <2>7. CASE UNCHANGED vars
    BY <1>2, <2>7 DEF vars
  <2> QED BY <1>2, <2>3, <2>4, <2>5, <2>6, <2>7 DEF Next, Step
<1> QED BY <1>1, <1>2, PTL DEF Spec
=============================================================================
