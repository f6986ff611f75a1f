------------------------------ MODULE KVStore -------------------------------
(***************************************************************************)
(* Versioned secrets and their access lists: src/kv/kv_engine.py over      *)
(* src/kv/storage.py (main.py has the same storage again) and the access   *)
(* lists of src/policy.py.                                                 *)
(*                                                                         *)
(* All secrets are one JSON document.  Every access loads it; a save       *)
(* empties the file and writes it anew, and a file that is not complete    *)
(* JSON, or cannot be read, loads as no secrets at all.  Threads and       *)
(* processes share the file without a lock.  Callers have passed the vault *)
(* and the session gates.                                                  *)
(*                                                                         *)
(* A value names the ciphertext of one write, fresh by its nonce.  The     *)
(* document fits the buffer of the file object, so that it is written by   *)
(* one system call.                                                        *)
(***************************************************************************)
EXTENDS Integers, Sequences, FiniteSets

CONSTANTS Tasks,       \* threads of any process
          Users,
          Paths,
          Owner,       \* Owner[p]: the user in the path secret/<email>/...
          Values,
          Asked,       \* the sets of permissions that callers name
          Interrupts,  \* what may end a call early: "fault", "restart"
          Empty,       \* the file after open("w")
          Garbage,     \* a file that is not JSON
          None

Permissions == {"READ", "WRITE", "DELETE"}

ASSUME KVAssumption ==
    /\ Owner \in [Paths -> Users]
    /\ Asked \subseteq SUBSET Permissions
    /\ Interrupts \subseteq {"fault", "restart"}
    /\ None \notin Values

VARIABLES doc,       \* the document on disk, Empty or Garbage
          policies,  \* policies[p][u]: the grants in the policy document
          pc, call,  \* where the call of a task stands; what it was asked
          record,    \* record[t]: the history that a write will store
          store,     \* store[t]: the document that a save will write
          pdoc,      \* pdoc[t]: the policy document it will store
          last,      \* last[t]: the outcome of the last call of t
          given,     \* given[t]: the version it has read, if it was a read
          used,      \* values already used
          attempted, \* the versions that were ever made
          answered,  \* those of them reported as written and not deleted since
          removed,   \* the values that an answered delete has removed
          calm       \* TRUE until two calls overlap or one is disturbed; what
                     \* was answered and removed is remembered that long
vars == <<doc, policies, pc, call, record, store, pdoc, last, given, used,
          attempted, answered, removed, calm>>
-----------------------------------------------------------------------------
(* A path without a record has no history, and a policy without grants is  *)
(* removed from its document.                                              *)
Doc == [Paths -> Seq(Values)]
Nothing == [p \in Paths |-> <<>>]
PolicyDoc == [Paths -> [Users -> SUBSET Permissions]]
NoGrants == [u \in Users |-> {}]

Version == [path : Paths, number : Nat \ {0}, value : Values]

Call == [op : {"write"}, path : Paths, value : Values]
   \cup [op : {"read"}, path : Paths, number : Nat]
   \cup [op : {"delete"}, path : Paths]
   \cup [op : {"grant_access", "revoke_access"}, path : Paths,
         to : Users, perms : SUBSET Permissions]

ASSUME NoneAssumption == None \notin Call /\ None \notin Doc /\ None \notin PolicyDoc
                             /\ None \notin Seq(Values) /\ None \notin Version
ASSUME FileAssumption == Empty \notin Doc /\ Garbage \notin Doc /\ Empty # Garbage

Outcomes == {"none", "written", "read", "deleted", "done", "NOT_FOUND",
             "INVALID_INPUT", "PERMISSION_DENIED", "OSError"}

Init == /\ doc = Nothing
        /\ policies = [p \in Paths |-> NoGrants]
        /\ pc = [t \in Tasks |-> "idle"]
        /\ call = [t \in Tasks |-> None]
        /\ record = [t \in Tasks |-> None]
        /\ store = [t \in Tasks |-> None]
        /\ pdoc = [t \in Tasks |-> None]
        /\ last = [t \in Tasks |-> "none"]
        /\ given = [t \in Tasks |-> None]
        /\ used = {}
        /\ attempted = {}
        /\ answered = {}
        /\ removed = {}
        /\ calm = TRUE

files == <<doc, policies>>
locals == <<call, record, store, pdoc, last, given>>

(* KVFileStorage._load: what it returns, and whether that is the document. *)
Loads == (IF doc \in {Empty, Garbage} THEN {Nothing} ELSE {doc})
            \cup (IF "fault" \in Interrupts THEN {Nothing} ELSE {})
Sound(d) == doc \in Doc => d = doc

(* A step of t, of which nothing goes wrong if ok, keeps the calm unless   *)
(* another call is under way.                                              *)
Calm(t, ok) ==
    calm' = (calm /\ ok /\ \A s \in Tasks \ {t} : pc[s] = "idle")
Remember(a, r) == /\ answered' = IF calm' THEN a ELSE {}
                  /\ removed' = IF calm' THEN r ELSE {}
Quiet(t, ok) == /\ Calm(t, ok)
                /\ Remember(answered, removed)
                /\ UNCHANGED <<used, attempted>>

Answer(t, outcome, version) ==
    /\ pc' = [pc EXCEPT ![t] = "idle"]
    /\ call' = [call EXCEPT ![t] = None]
    /\ record' = [record EXCEPT ![t] = None]
    /\ store' = [store EXCEPT ![t] = None]
    /\ pdoc' = [pdoc EXCEPT ![t] = None]
    /\ last' = [last EXCEPT ![t] = outcome]
    /\ given' = [given EXCEPT ![t] = version]
Return(t, outcome) == Answer(t, outcome, None)

Begin(t, c, label) ==
    /\ call' = [call EXCEPT ![t] = c]
    /\ pc' = [pc EXCEPT ![t] = label]
    /\ last' = [last EXCEPT ![t] = "none"]
    /\ given' = [given EXCEPT ![t] = None]
    /\ UNCHANGED <<record, store, pdoc>>

Goto(t, label) == pc' = [pc EXCEPT ![t] = label]
-----------------------------------------------------------------------------
Allowed(u, p, operation) == u = Owner[p] \/ operation \in policies[p][u]

(* _authorize and _require_owner turn a caller away.                       *)
Denied(t) ==
    /\ pc[t] = "idle"
    /\ \E u \in Users, p \in Paths :
          \/ \E operation \in Permissions : ~Allowed(u, p, operation)
          \/ u # Owner[p]
    /\ Return(t, "PERMISSION_DENIED")
    /\ Quiet(t, TRUE)
    /\ UNCHANGED files

(* write encrypts the data first ...                                       *)
Write(t, u, p) ==
    /\ pc[t] = "idle"
    /\ Allowed(u, p, "WRITE")
    /\ \E v \in Values \ used :
          /\ used' = used \cup {v}
          /\ Begin(t, [op |-> "write", path |-> p, value |-> v], "get")
    /\ Calm(t, TRUE)
    /\ Remember(answered, removed)
    /\ UNCHANGED <<files, attempted>>

Attempt(t, n) ==
    attempted' = attempted \cup
        {[path |-> call[t].path, number |-> n, value |-> call[t].value]}

(* Mutant: an existing path is overwritten, with a new version number. *)
WriteGet_Overwrites(t) ==
    /\ pc[t] = "get"
    /\ \E d \in Loads :
          /\ record' = [record EXCEPT ![t] = <<call[t].value>>]
          /\ Attempt(t, Len(d[call[t].path]) + 1)
          /\ Calm(t, Sound(d))
    /\ Remember(answered, removed)
    /\ Goto(t, "set")
    /\ UNCHANGED <<call, store, pdoc, last, given, files, used>>

(* Mutant: versions count from zero. *)
WriteGet_FromZero(t) ==
    /\ pc[t] = "get"
    /\ \E d \in Loads :
          LET h == Append(d[call[t].path], call[t].value)
          IN  /\ record' = [record EXCEPT ![t] = h]
              /\ Attempt(t, Len(h) - 1)
              /\ Calm(t, Sound(d))
    /\ Remember(answered, removed)
    /\ Goto(t, "set")
    /\ UNCHANGED <<call, store, pdoc, last, given, files, used>>

(* ... then gets the record and adds a version to its history ...          *)
WriteGet(t) ==
    /\ pc[t] = "get"
    /\ \E d \in Loads :
          LET h == Append(d[call[t].path], call[t].value)
          IN  /\ record' = [record EXCEPT ![t] = h]
              /\ Attempt(t, Len(h))
              /\ Calm(t, Sound(d))
    /\ Remember(answered, removed)
    /\ Goto(t, "set")
    /\ UNCHANGED <<call, store, pdoc, last, given, files, used>>

(* ... and stores it in a document that is loaded again.                   *)
StoreSet(t) ==
    /\ pc[t] = "set"
    /\ \E d \in Loads :
          /\ store' = [store EXCEPT ![t] = [d EXCEPT ![call[t].path] = record[t]]]
          /\ Quiet(t, Sound(d))
    /\ Goto(t, "open")
    /\ UNCHANGED <<call, record, pdoc, last, given, files>>

(* delete has the caller authorized ...                                    *)
Delete(t, u, p) ==
    /\ pc[t] = "idle"
    /\ Allowed(u, p, "DELETE")
    /\ Begin(t, [op |-> "delete", path |-> p], "exists")
    /\ Quiet(t, TRUE)
    /\ UNCHANGED files

(* ... asks whether the path exists, and loads the document once more.     *)
Exists(t) ==
    /\ pc[t] = "exists"
    /\ \E d \in Loads :
          /\ \/ d[call[t].path] = <<>> /\ Return(t, "NOT_FOUND")
             \/ d[call[t].path] # <<>> /\ Goto(t, "delete") /\ UNCHANGED locals
          /\ Quiet(t, Sound(d))
    /\ UNCHANGED files

(* From here on the delete counts: its versions must not come back.        *)
Forget(p) ==
    LET gone == {w \in answered : w.path = p}
    IN  Remember(answered \ gone, removed \cup {w.value : w \in gone})

(* Mutant: only the latest version is deleted. *)
StoreDelete_OnlyLatest(t) ==
    LET p == call[t].path
    IN  /\ pc[t] = "delete"
        /\ \E d \in Loads :
              /\ Calm(t, Sound(d))
              /\ \/ d[p] = <<>> /\ Forget(p) /\ Goto(t, "dropAcl") /\ UNCHANGED store
                 \/ /\ d[p] # <<>>
                    /\ store' = [store EXCEPT ![t] =
                          [d EXCEPT ![p] = SubSeq(@, 1, Len(@) - 1)]]
                    /\ Remember(answered, removed)
                    /\ Goto(t, "open")
        /\ UNCHANGED <<call, record, pdoc, last, given, files, used, attempted>>

StoreDelete(t) ==
    LET p == call[t].path
    IN  /\ pc[t] = "delete"
        /\ \E d \in Loads :
              /\ Calm(t, Sound(d))
              /\ \/ d[p] = <<>> /\ Forget(p) /\ Goto(t, "dropAcl") /\ UNCHANGED store
                 \/ /\ d[p] # <<>>
                    /\ store' = [store EXCEPT ![t] = [d EXCEPT ![p] = <<>>]]
                    /\ Remember(answered, removed)
                    /\ Goto(t, "open")
        /\ UNCHANGED <<call, record, pdoc, last, given, files, used, attempted>>

(* _save: open("w") empties the file ...                                   *)
SaveOpen(t) ==
    /\ pc[t] = "open"
    /\ doc' = Empty
    /\ Goto(t, "save")
    /\ Quiet(t, TRUE)
    /\ UNCHANGED <<locals, policies>>

(* ... and closing it writes the document from its start.  What another    *)
(* save has written meanwhile stays behind it when that was longer.        *)
Written(t) == {store[t]} \cup (IF doc = Empty THEN {} ELSE {Garbage})

Answered(t) ==
    Remember(answered \cup {[path |-> call[t].path, number |-> Len(record[t]),
                             value |-> call[t].value]}, removed)

(* Mutant: a deleted secret keeps its access list. *)
SaveClose_KeepsAcl(t) ==
    /\ pc[t] = "save"
    /\ doc' \in Written(t)
    /\ Calm(t, TRUE)
    /\ \/ call[t].op = "write" /\ Answered(t) /\ Return(t, "written")
       \/ call[t].op = "delete" /\ Forget(call[t].path) /\ Return(t, "deleted")
    /\ UNCHANGED <<policies, used, attempted>>

SaveClose(t) ==
    /\ pc[t] = "save"
    /\ doc' \in Written(t)
    /\ Calm(t, TRUE)
    /\ \/ call[t].op = "write" /\ Answered(t) /\ Return(t, "written")
       \/ /\ call[t].op = "delete"
          /\ Forget(call[t].path)
          /\ Goto(t, "dropAcl")
          /\ UNCHANGED locals
    /\ UNCHANGED <<policies, used, attempted>>

(* delete_resource removes the policy of the path, if there is one.        *)
DropAcl(t) ==
    /\ pc[t] = "dropAcl"
    /\ \/ /\ policies[call[t].path] = NoGrants
          /\ Return(t, "deleted")
       \/ /\ policies[call[t].path] # NoGrants
          /\ pdoc' = [pdoc EXCEPT ![t] = [policies EXCEPT ![call[t].path] = NoGrants]]
          /\ Goto(t, "storeAcl")
          /\ UNCHANGED <<call, record, store, last, given>>
    /\ Quiet(t, TRUE)
    /\ UNCHANGED files
-----------------------------------------------------------------------------
(* read loads the document once, and takes the latest version or the one   *)
(* that was asked for (0 stands for none asked for).                       *)
Read(t, u, p, n) ==
    /\ pc[t] = "idle"
    /\ Allowed(u, p, "READ")
    /\ Begin(t, [op |-> "read", path |-> p, number |-> n], "read")
    /\ Quiet(t, TRUE)
    /\ UNCHANGED files

(* Mutant: the latest version is taken for the one before it. *)
ReadLoad_OffByOne(t) ==
    LET c == call[t]
    IN  /\ pc[t] = "read"
        /\ \E d \in Loads :
              LET h == d[c.path]
                  n == IF c.number = 0 THEN Len(h) ELSE c.number
              IN  /\ \/ n \notin 2 .. Len(h) /\ Return(t, "NOT_FOUND")
                     \/ /\ n \in 2 .. Len(h)
                        /\ Answer(t, "read", [path |-> c.path, number |-> n,
                                              value |-> h[n - 1]])
                  /\ Quiet(t, Sound(d))
        /\ UNCHANGED files

ReadLoad(t) ==
    LET c == call[t]
    IN  /\ pc[t] = "read"
        /\ \E d \in Loads :
              LET h == d[c.path]
                  n == IF c.number = 0 THEN Len(h) ELSE c.number
              IN  /\ \/ n \notin 1 .. Len(h) /\ Return(t, "NOT_FOUND")
                     \/ /\ n \in 1 .. Len(h)
                        /\ Answer(t, "read", [path |-> c.path, number |-> n,
                                              value |-> h[n]])
                  /\ Quiet(t, Sound(d))
        /\ UNCHANGED files
-----------------------------------------------------------------------------
(* grant_access and revoke_access, by the owner, for a path that exists;   *)
(* revoke_access without permissions withdraws them all.                   *)
ChangeAccess(t, op, p, u, P) ==
    /\ pc[t] = "idle"
    /\ \E d \in Loads :
          /\ \/ d[p] = <<>> /\ Return(t, "NOT_FOUND")
             \/ /\ d[p] # <<>>
                /\ P = {} \/ u = Owner[p]
                /\ Return(t, "INVALID_INPUT")
             \/ /\ d[p] # <<>>
                /\ P # {} /\ u # Owner[p]
                /\ Begin(t, [op |-> op, path |-> p, to |-> u, perms |-> P], "change")
          /\ Quiet(t, Sound(d))
    /\ UNCHANGED files

Grant(t) ==
    /\ pc[t] = "change"
    /\ call[t].op = "grant_access"
    /\ pdoc' = [pdoc EXCEPT ![t] =
          [policies EXCEPT ![call[t].path][call[t].to] = @ \cup call[t].perms]]
    /\ Goto(t, "storeAcl")
    /\ Quiet(t, TRUE)
    /\ UNCHANGED <<call, record, store, last, given, files>>

Withdraw(t) ==
    /\ pc[t] = "change"
    /\ call[t].op = "revoke_access"
    /\ \/ /\ policies[call[t].path][call[t].to] = {}
          /\ Return(t, "done")
       \/ /\ policies[call[t].path][call[t].to] # {}
          /\ pdoc' = [pdoc EXCEPT ![t] =
                [policies EXCEPT ![call[t].path][call[t].to] = @ \ call[t].perms]]
          /\ Goto(t, "storeAcl")
          /\ UNCHANGED <<call, record, store, last, given>>
    /\ Quiet(t, TRUE)
    /\ UNCHANGED files

StoreAcl(t) ==
    /\ pc[t] = "storeAcl"
    /\ policies' = pdoc[t]
    /\ Return(t, IF call[t].op = "delete" THEN "deleted" ELSE "done")
    /\ Quiet(t, TRUE)
    /\ UNCHANGED doc
-----------------------------------------------------------------------------
(* The operating system refuses the save, before the file is emptied or    *)
(* after a part of the document was written, or an access to the policies. *)
Fault(t) ==
    /\ "fault" \in Interrupts
    /\ \/ pc[t] \in {"open", "dropAcl", "change", "storeAcl"} /\ UNCHANGED doc
       \/ pc[t] = "save" /\ doc' = Garbage
    /\ Return(t, IF pc[t] \in {"open", "save"} THEN "OSError" ELSE "INVALID_INPUT")
    /\ Quiet(t, FALSE)
    /\ UNCHANGED policies

(* The process of a call ends; both files stay as they are.                *)
Restart(t) ==
    /\ "restart" \in Interrupts
    /\ pc[t] # "idle"
    /\ Return(t, "none")
    /\ Quiet(t, FALSE)
    /\ UNCHANGED files

Step(t) ==
    \/ \E p \in Paths, u \in Users :
          \/ Write(t, u, p) \/ Delete(t, u, p)
          \/ \E n \in 0 .. Cardinality(Values) : Read(t, u, p, n)
          \/ \E op \in {"grant_access", "revoke_access"}, P \in Asked :
                ChangeAccess(t, op, p, u, P)
    \/ Denied(t)
    \/ WriteGet(t) \/ StoreSet(t) \/ Exists(t) \/ StoreDelete(t)
    \/ SaveOpen(t) \/ SaveClose(t) \/ DropAcl(t) \/ ReadLoad(t)
    \/ Grant(t) \/ Withdraw(t) \/ StoreAcl(t)
    \/ Fault(t) \/ Restart(t)

Next == \E t \in Tasks : Step(t)

Spec == Init /\ [][Next]_vars
-----------------------------------------------------------------------------
TypeOK ==
    /\ doc \in Doc \cup {Empty, Garbage}
    /\ policies \in PolicyDoc
    /\ pc \in [Tasks -> {"idle", "get", "set", "exists", "delete", "open",
                         "save", "dropAcl", "read", "change", "storeAcl"}]
    /\ call \in [Tasks -> Call \cup {None}]
    /\ record \in [Tasks -> Seq(Values) \cup {None}]
    /\ store \in [Tasks -> Doc \cup {None}]
    /\ pdoc \in [Tasks -> PolicyDoc \cup {None}]
    /\ last \in [Tasks -> Outcomes]
    /\ given \in [Tasks -> Version \cup {None}]
    /\ used \subseteq Values
    /\ attempted \subseteq Version
    /\ answered \subseteq Version
    /\ removed \subseteq Values
    /\ calm \in BOOLEAN

(* However calls interleave and files are torn, what a read gives out as   *)
(* version n of a path is what some write stored there as its version n    *)
(* (kv_engine.py:183-205 and 216-224).                                     *)
ReadIsWritten == \A t \in Tasks : given[t] # None => given[t] \in attempted

(* A save under way, whose file is empty for the moment.                   *)
Saving == \E t \in Tasks : pc[t] = "save"

(* While calls do not overlap and none is disturbed, every version whose   *)
(* write was answered, and which nobody has deleted since, is in the       *)
(* document, under its number: nothing done to other paths loses it        *)
(* (SPEC.md:229, kv_engine.py:170-211, storage.py:30-41).                  *)
WritesKept ==
    calm /\ ~Saving =>
        /\ doc \in Doc
        /\ \A w \in answered : /\ w.number \in 1 .. Len(doc[w.path])
                               /\ doc[w.path][w.number] = w.value

(* What delete has removed never comes back: in calm it is not in the      *)
(* document (SPEC.md:200, "permanently deletes the record"); nor does its  *)
(* access list stay: while no call runs only an existing secret has one,   *)
(* so a path that is written again starts without the grants of the        *)
(* deleted secret (specs/003-policy-acl.md:37-38, kv_engine.py:238-247).   *)
DeletedIsGone ==
    calm =>
      /\ doc \in Doc => \A p \in Paths :
            \A i \in 1 .. Len(doc[p]) : doc[p][i] \notin removed
      /\ (\A t \in Tasks : pc[t] = "idle") =>
            \A p \in Paths : doc[p] = <<>> => policies[p] = NoGrants
-----------------------------------------------------------------------------
(* KVAbs as this module keeps it in calm.  A save takes effect when it     *)
(* empties the file; from then on the secrets are what it will write, and  *)
(* the access list of a path it deletes no longer counts.  A value counts  *)
(* as written when it is saved.                                            *)
Secrets == IF Saving THEN store[CHOOSE t \in Tasks : pc[t] = "save"] ELSE doc
Deleting(p) ==
    \E t \in Tasks : /\ pc[t] \in {"save", "dropAcl", "storeAcl"}
                     /\ call[t].op = "delete" /\ call[t].path = p
Grants == [p \in Paths |-> IF Deleting(p) THEN NoGrants ELSE policies[p]]
Unsaved == {w \in attempted : \E t \in Tasks :
                /\ pc[t] \in {"set", "open"}
                /\ call[t].op = "write" /\ call[t].value = w.value}
Spent == {w.value : w \in attempted \ Unsaved}

Abs == INSTANCE KVAbs WITH secrets <- Secrets, grants <- Grants, spent <- Spent

(* As long as calls do not overlap and none is disturbed, each takes       *)
(* effect at one moment and as a whole, although a write loads the file    *)
(* twice and empties it before it fills it, and a delete writes two files  *)
(* (kv_engine.py:170-323, storage.py:23-68).                               *)
Refinement == Abs!Init /\ [][calm' => [Abs!Next]_(Abs!vars)]_vars
=============================================================================
