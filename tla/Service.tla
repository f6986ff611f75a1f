------------------------------ MODULE Service -------------------------------
(***************************************************************************)
(* Requests on their way through Mini Vault: src/api/app.py, main.py,      *)
(* src/CLI.py and programs that embed KVEngine and TransitService.         *)
(*                                                                         *)
(* Vault, sessions, policies and the two engines meet here.  A request     *)
(* passes gates one after the other, and each looks at something that      *)
(* others change meanwhile: the DEK of its process, the session table of   *)
(* its process, and the one policy document that both engines of all       *)
(* processes share (policy.py:118, transit/service.py:74-75).              *)
(*                                                                         *)
(* One request of every process is followed; what its other requests do to *)
(* its DEK and its sessions happens at any time.  The DEK behaves as       *)
(* VaultAbs says.  Resources exist throughout and each is shared by one    *)
(* permission: KVStore and Transit look at the rest.  A user stands for    *)
(* his latest session token at a process, if he has one there, and for any *)
(* string that is not a token in force otherwise.                          *)
(***************************************************************************)
EXTENDS Sequences

CONSTANTS Procs,
          Fronts,     \* the ways, one of them chosen, to assign to every process
                      \* one of the Kinds below
          Users,
          Callers,    \* Callers[p]: the users who have accounts and call p
          Secrets,    \* the KV paths
          Keys,       \* the Transit keys
          Owner,      \* Owner[r]: the owner of a secret or key
          Envelopes,  \* as in VaultAbs
          None

(* The HTTP server, the menu of main.py, its commands (each runs in a      *)
(* process of its own, which is locked and has no session), the menu of    *)
(* CLI.py, and programs that use the engines.                              *)
Kinds == {"http", "menu", "command", "cli", "library"}
Menus == {"menu", "cli"}

Resources == Secrets \cup Keys
Shares == Resources \X Users

ASSUME ServiceAssumption ==
    /\ Fronts \subseteq [Procs -> Kinds]
    /\ Callers \in [Procs -> SUBSET Users]
    /\ Secrets \cap Keys = {}
    /\ Owner \in [Resources -> Users]
    /\ None \notin Users

VARIABLES sealed, open,  \* the envelope and the DEK of each process, as in VaultAbs
          front,     \* front[p]: what kind of process p is
          sessions,  \* sessions[p]: the users whose latest token is in force at p
          token,     \* token[p]: the token that a menu remembers
          policies,  \* the shares in the policy document
          ahead,     \* ahead[p]: the gates before the request of p; <<>>: none runs
          call,      \* call[p]: what the request asks for
          held,      \* held[p]: the DEK that the request has taken
          pdoc,      \* pdoc[p]: the policy document that it will store
          reply,     \* the answer that the last step gave, if it gave one
          granted,   \* the shares as the changes that took effect left them
          saw        \* saw[p]: what was true at some moment of the request
vars == <<sealed, open, front, sessions, token, policies, ahead, call, held, pdoc,
          reply, granted, saw>>

V == INSTANCE VaultAbs
-----------------------------------------------------------------------------
(* What a request is about: one resource, to use it or to see or change    *)
(* whom it is shared with, or all of a kind to list those of them that are *)
(* shared with the caller.                                                 *)
Call == [op : {"use", "acl"}, by : Users \cup {None}, about : {{r} : r \in Resources}]
   \cup [op : {"grant", "withdraw"}, by : Users \cup {None},
         about : {{r} : r \in Resources}, to : Users]
   \cup [op : {"list"}, by : Users \cup {None}, about : {Secrets, Keys}]

Steps == {"unlocked", "ensure", "prompt", "dek", "session", "entitled", "owner", "read",
          "replace", "list", "acl", "work"}
Refusals == {"VAULT_LOCKED", "UNAUTHENTICATED", "PERMISSION_DENIED"}
Answer == [to : Procs, outcome : Refusals \cup {"no session", "done"},
           gave : SUBSET Resources]
Facts == {"locked", "unlocked", "session", "no session", "not entitled"}

(* What a kind of process asks before it calls an engine.                  *)
Before(p) == CASE front[p] = "menu"    -> <<"unlocked", "ensure">>
               [] front[p] = "cli"     -> <<"unlocked", "prompt">>
               [] front[p] = "command" -> <<"unlocked">>
               [] OTHER                -> <<>>

(* KVEngine is built around the DEK, before the token is looked at;        *)
(* TransitService asks only whether the vault is unlocked.                 *)
KVDoor == <<"dek", "session">>
TransitDoor == <<"unlocked", "session">>

(* Who owns a resource sees, and changes, whom it is shared with.          *)
Sharing(op) == CASE op = "list" -> <<"list">>
                 [] op = "acl"  -> <<"owner", "acl">>
                 [] OTHER       -> <<"owner", "read", "replace">>

(* Mutant: KVEngine looks at the token before the DEK is fetched.          *)
Way_SessionFirst(p, c) ==
    LET kv == c.about \subseteq Secrets
    IN  Before(p) \o (IF kv THEN <<"session", "dek">> ELSE TransitDoor)
        \o IF c.op # "use" THEN Sharing(c.op)
           ELSE IF kv THEN <<"entitled", "work">> ELSE <<"entitled", "dek", "work">>

(* The order of the gates.  Transit fetches the DEK at the end, and only   *)
(* for the use of a key.                                                   *)
Way(p, c) ==
    LET kv == c.about \subseteq Secrets
    IN  Before(p) \o (IF kv THEN KVDoor ELSE TransitDoor)
        \o IF c.op # "use" THEN Sharing(c.op)
           ELSE IF kv THEN <<"entitled", "work">> ELSE <<"entitled", "dek", "work">>

(* What each kind of process asks for.  The menu knows the secret of its   *)
(* own user only, HTTP has no route for Transit or for shares, CLI.py only *)
(* encrypts, and only a program can see an access list.                    *)
Asks(p, c) ==
    /\ c.op \in {"grant", "withdraw"} => \A r \in c.about : c.to # Owner[r]
    /\ c.op = "acl" => front[p] = "library"
    /\ front[p] = "http" => c.op = "use" /\ c.about \subseteq Secrets
    /\ front[p] = "menu" =>
          /\ c.by = token[p]
          /\ c.about \subseteq Keys \cup {s \in Secrets : c.op = "use" /\ Owner[s] = token[p]}
    /\ front[p] = "cli" =>
          c.by = token[p] /\ c.op = "use" /\ c.about \subseteq Keys
    /\ front[p] \notin Menus => c.by \in Callers[p]

Init == /\ V!Init
        /\ front \in Fronts
        /\ sessions = [p \in Procs |-> {}]
        /\ token = [p \in Procs |-> None]
        /\ policies = {}
        /\ ahead = [p \in Procs |-> <<>>]
        /\ call = [p \in Procs |-> None]
        /\ held = [p \in Procs |-> None]
        /\ pdoc = [p \in Procs |-> None]
        /\ reply = None
        /\ granted = {}
        /\ saw = [p \in Procs |-> {}]

vault == <<sealed, open>>
shares == <<policies, granted>>
Idle(p) == ahead[p] = <<>>

End(p) == /\ ahead' = [ahead EXCEPT ![p] = <<>>]
          /\ call' = [call EXCEPT ![p] = None]
          /\ held' = [held EXCEPT ![p] = None]
          /\ pdoc' = [pdoc EXCEPT ![p] = None]

(* An answer ends the request.                                             *)
Return(p, outcome, gave) ==
    End(p) /\ reply' = [to |-> p, outcome |-> outcome, gave |-> gave]

Pass(p) == /\ ahead' = [ahead EXCEPT ![p] = Tail(@)]
           /\ reply' = None
           /\ UNCHANGED <<call, pdoc>>

At(p, step) == ~Idle(p) /\ Head(ahead[p]) = step
-----------------------------------------------------------------------------
Arrive(p, c) ==
    /\ Idle(p)
    /\ Asks(p, c)
    /\ ahead' = [ahead EXCEPT ![p] = Way(p, c)]
    /\ call' = [call EXCEPT ![p] = c]
    /\ reply' = None
    /\ UNCHANGED <<vault, front, sessions, token, shares, held, pdoc>>

(* _require_unlocked, ensure_unlocked.                                     *)
CheckUnlocked(p) ==
    /\ At(p, "unlocked")
    /\ \/ open[p] = None /\ Return(p, "VAULT_LOCKED", {})
       \/ open[p] # None /\ Pass(p) /\ UNCHANGED held
    /\ UNCHANGED <<vault, front, sessions, token, shares>>

(* ensure_session: a menu whose session is over forgets its token.         *)
Ensure(p) ==
    /\ At(p, "ensure")
    /\ \/ /\ token[p] = None
          /\ Return(p, "no session", {})
          /\ UNCHANGED token
       \/ /\ token[p] # None /\ token[p] \notin sessions[p]
          /\ Return(p, "UNAUTHENTICATED", {})
          /\ token' = [token EXCEPT ![p] = None]
       \/ token[p] \in sessions[p] /\ Pass(p) /\ UNCHANGED <<held, token>>
    /\ UNCHANGED <<vault, front, sessions, shares>>

(* CLI.py asks who is there only if it remembers no token.  A token whose  *)
(* session is over it keeps, until the user chooses to log in.  It then    *)
(* tries to create the key, whatever comes of it: that passes the gates of *)
(* TransitService with their refusals ignored, and if it changes anything, *)
(* it is the key document, which is not here since keys exist throughout.  *)
Prompt(p) ==
    /\ At(p, "prompt")
    /\ \/ token[p] # None /\ Pass(p) /\ UNCHANGED <<sessions, token, held>>
       \/ /\ token[p] = None
          /\ Return(p, "no session", {})
          /\ UNCHANGED <<sessions, token>>
       \/ \E u \in Callers[p] :
             /\ token[p] = None
             /\ sessions' = [sessions EXCEPT ![p] = @ \cup {u}]
             /\ token' = [token EXCEPT ![p] = u]
             /\ call' = [call EXCEPT ![p].by = u]
             /\ ahead' = [ahead EXCEPT ![p] = Tail(@)]
             /\ reply' = None
             /\ UNCHANGED <<held, pdoc>>
    /\ UNCHANGED <<vault, front, shares>>

(* Mutant: a request that finds the vault locked waits for it.             *)
TakeDek_Waits(p) ==
    /\ At(p, "dek")
    /\ open[p] # None
    /\ held' = [held EXCEPT ![p] = open[p]]
    /\ Pass(p)
    /\ UNCHANGED <<vault, front, sessions, token, shares>>

(* Mutant: the DEK is looked at and not copied.                            *)
TakeDek_NoCopy(p) ==
    /\ At(p, "dek")
    /\ \/ open[p] = None /\ Return(p, "VAULT_LOCKED", {})
       \/ open[p] # None /\ Pass(p) /\ UNCHANGED held
    /\ UNCHANGED <<vault, front, sessions, token, shares>>

(* get_dek: the request keeps a copy, which no later lock takes away.      *)
TakeDek(p) ==
    /\ At(p, "dek")
    /\ \/ open[p] = None /\ Return(p, "VAULT_LOCKED", {})
       \/ /\ open[p] # None
          /\ held' = [held EXCEPT ![p] = open[p]]
          /\ Pass(p)
    /\ UNCHANGED <<vault, front, sessions, token, shares>>

(* verify_token, _require_authenticated.                                   *)
CheckSession(p) ==
    /\ At(p, "session")
    /\ \/ call[p].by \notin sessions[p] /\ Return(p, "UNAUTHENTICATED", {})
       \/ call[p].by \in sessions[p] /\ Pass(p) /\ UNCHANGED held
    /\ UNCHANGED <<vault, front, sessions, token, shares>>

Entitled(u, r, given) == u = Owner[r] \/ <<r, u>> \in given

(* Mutant: a share of any resource will do.                                *)
CheckEntitled_AnyShare(p) ==
    LET ok == \A r \in call[p].about :
                 \/ call[p].by = Owner[r]
                 \/ \E q \in Resources : <<q, call[p].by>> \in policies
    IN  /\ At(p, "entitled")
        /\ \/ ~ok /\ Return(p, "PERMISSION_DENIED", {})
           \/ ok /\ Pass(p) /\ UNCHANGED held
        /\ UNCHANGED <<vault, front, sessions, token, shares>>

(* _authorize, _get_authorized_key.                                        *)
CheckEntitled(p) ==
    LET ok == \A r \in call[p].about : Entitled(call[p].by, r, policies)
    IN  /\ At(p, "entitled")
        /\ \/ ~ok /\ Return(p, "PERMISSION_DENIED", {})
           \/ ok /\ Pass(p) /\ UNCHANGED held
        /\ UNCHANGED <<vault, front, sessions, token, shares>>

(* The secret is read or written, the key used, with the DEK held.         *)
Work(p) ==
    /\ At(p, "work")
    /\ Return(p, "done", call[p].about)
    /\ UNCHANGED <<vault, front, sessions, token, shares>>

(* list_shared, list_shared_keys.                                          *)
List(p) ==
    /\ At(p, "list")
    /\ Return(p, "done", {r \in call[p].about : <<r, call[p].by>> \in policies})
    /\ UNCHANGED <<vault, front, sessions, token, shares>>

(* get_acl, get_key_acl.                                                   *)
ReadAcl(p) ==
    /\ At(p, "acl")
    /\ Return(p, "done", call[p].about)
    /\ UNCHANGED <<vault, front, sessions, token, shares>>

(* Only the owner sees and changes whom a resource is shared with.         *)
CheckOwner(p) ==
    /\ At(p, "owner")
    /\ \/ \E r \in call[p].about : call[p].by # Owner[r]
          /\ Return(p, "PERMISSION_DENIED", {})
       \/ /\ \A r \in call[p].about : call[p].by = Owner[r]
          /\ Pass(p)
          /\ UNCHANGED held
    /\ UNCHANGED <<vault, front, sessions, token, shares>>

Changed(p) == call[p].about \X {call[p].to}

(* PolicyRepository.grant and revoke read the whole document ...           *)
ReadPolicies(p) ==
    /\ At(p, "read")
    /\ \/ /\ call[p].op = "withdraw" /\ Changed(p) \cap policies = {}
          /\ Return(p, "done", {})
          /\ granted' = granted \ Changed(p)
       \/ /\ call[p].op = "grant" \/ Changed(p) \cap policies # {}
          /\ pdoc' = [pdoc EXCEPT ![p] = IF call[p].op = "grant"
                                         THEN policies \cup Changed(p)
                                         ELSE policies \ Changed(p)]
          /\ ahead' = [ahead EXCEPT ![p] = Tail(@)]
          /\ reply' = None
          /\ UNCHANGED <<call, held, granted>>
    /\ UNCHANGED <<vault, front, sessions, token, policies>>

(* ... and replace it.                                                     *)
ReplacePolicies(p) ==
    /\ At(p, "replace")
    /\ policies' = pdoc[p]
    /\ granted' = IF call[p].op = "grant" THEN granted \cup Changed(p)
                  ELSE granted \ Changed(p)
    /\ Return(p, "done", {})
    /\ UNCHANGED <<vault, front, sessions, token>>
-----------------------------------------------------------------------------
NoRequest == reply' = None /\ UNCHANGED <<ahead, call, held, pdoc>>

(* Other requests initialize, unlock, or fail to unlock.  A menu does one  *)
(* thing at a time, and a command only one.                                *)
Free(p) == front[p] # "command" /\ (front[p] \in Menus => Idle(p))

Seal == V!Seal /\ NoRequest /\ UNCHANGED <<front, sessions, token, shares>>
Unlock(p) == /\ Free(p) /\ open[p] = None
             /\ V!Open(p)
             /\ NoRequest /\ UNCHANGED <<front, sessions, token, shares>>
Lock(p) == /\ Free(p) /\ open[p] # None
           /\ V!Lock(p)
           /\ NoRequest /\ UNCHANGED <<front, sessions, token, shares>>

(* login issues a new token.  It takes the name of the user once no        *)
(* request with his old one is under way.                                  *)
Login(p, u) ==
    /\ u \in Callers[p]
    /\ Free(p)
    /\ u \in sessions[p] => token[p] # u /\ front[p] \in Menus
    /\ ~(~Idle(p) /\ call[p].by = u)
    /\ sessions' = [sessions EXCEPT ![p] = @ \cup {u}]
    /\ token' = IF front[p] \in Menus THEN [token EXCEPT ![p] = u] ELSE token
    /\ NoRequest /\ UNCHANGED <<vault, front, shares>>

(* A login fails: CLI.py forgets the token it had.                         *)
LoginFails(p) ==
    /\ front[p] = "cli" /\ Idle(p)
    /\ token' = [token EXCEPT ![p] = None]
    /\ NoRequest /\ UNCHANGED <<vault, front, sessions, shares>>

(* Half an hour has passed.                                                *)
Expire(p, u) ==
    /\ u \in sessions[p]
    /\ sessions' = [sessions EXCEPT ![p] = @ \ {u}]
    /\ NoRequest /\ UNCHANGED <<vault, front, token, shares>>

(* The process ends and is started again: it is locked and has no session. *)
Restart(p) ==
    /\ V!Lock(p)
    /\ sessions' = [sessions EXCEPT ![p] = {}]
    /\ token' = [token EXCEPT ![p] = None]
    /\ End(p)
    /\ reply' = None
    /\ UNCHANGED <<front, shares>>

Continue(p) ==
    \/ CheckUnlocked(p) \/ Ensure(p) \/ Prompt(p) \/ TakeDek(p) \/ CheckSession(p)
    \/ CheckEntitled(p) \/ Work(p) \/ List(p) \/ ReadAcl(p)
    \/ CheckOwner(p) \/ ReadPolicies(p) \/ ReplacePolicies(p)

Outside == \/ Seal
           \/ \E p \in Procs : \/ Unlock(p) \/ Lock(p) \/ Restart(p) \/ LoginFails(p)
                               \/ \E u \in Users : Login(p, u) \/ Expire(p, u)

(* What is true of the request of p now.  Its rights are judged by granted *)
(* and not by the document.                                                *)
Due(p) == {r \in call[p].about :
              Entitled(call[p].by, r, IF call[p].op \in {"use", "list"} THEN granted ELSE {})}
Truth(p) ==
    IF Idle(p) THEN {}
    ELSE {IF open[p] = None THEN "locked" ELSE "unlocked",
          IF call[p].by \in sessions[p] THEN "session" ELSE "no session"}
         \cup Due(p)
         \cup (IF Due(p) = call[p].about THEN {} ELSE {"not entitled"})

Observe ==
    saw' = [p \in Procs |-> IF Idle(p) THEN Truth(p)' ELSE saw[p] \cup Truth(p)']

Next == /\ \/ \E p \in Procs : Continue(p) \/ \E c \in Call : Arrive(p, c)
           \/ Outside
        /\ Observe

(* Nothing in a request waits, so a thread that runs gets to its answer.   *)
Spec == /\ Init /\ [][Next]_vars
        /\ \A p \in Procs : WF_vars(Continue(p) /\ Observe)
-----------------------------------------------------------------------------
TypeOK ==
    /\ sealed \in Envelopes \cup {None}
    /\ open \in [Procs -> {e.dek : e \in Envelopes} \cup {None}]
    /\ front \in [Procs -> Kinds]
    /\ sessions \in [Procs -> SUBSET Users]
    /\ token \in [Procs -> Users \cup {None}]
    /\ policies \subseteq Shares
    /\ ahead \in [Procs -> Seq(Steps)]
    /\ call \in [Procs -> Call \cup {None}]
    /\ held \in [Procs -> {e.dek : e \in Envelopes} \cup {None}]
    /\ pdoc \in [Procs -> (SUBSET Shares) \cup {None}]
    /\ reply \in Answer \cup {None}
    /\ granted \subseteq Shares
    /\ saw \in [Procs -> SUBSET (Facts \cup Resources)]
    /\ \A p \in Procs : At(p, "work") => held[p] = sealed.dek

Reasons(outcome) ==
    CASE outcome = "VAULT_LOCKED"      -> {"locked"}
      [] outcome = "UNAUTHENTICATED"   -> {"unlocked", "no session"}
      [] outcome = "PERMISSION_DENIED" -> {"unlocked", "session", "not entitled"}
      [] outcome = "no session"        -> {"unlocked", "no session"}
      [] outcome = "done"              -> {"unlocked", "session"}

(* A refusal tells the truth and no more: its reason was true at some      *)
(* moment of the request, and every gate before it was passed.  So a       *)
(* caller without a session learns nothing but that, and a locked process  *)
(* says nothing else (specs/003-policy-acl.md:136-137; app.py:228-250,     *)
(* main.py:177-195, kv_engine.py:64-95, transit/service.py:83-90).         *)
RefusedInOrder ==
    reply # None => Reasons(reply.outcome) \subseteq saw[reply.to]

(* Whatever a request gave to its caller, he owned it or it was shared     *)
(* with him at some moment of the request: once a withdrawal is answered,  *)
(* later requests get nothing (specs/003-policy-acl.md:169).               *)
RevokedIsDenied == reply # None => reply.gave \subseteq saw[reply.to]

(* Every request is answered, however often the process is locked and      *)
(* sessions end meanwhile (no gate waits: app.py:233, main.py:177-195).    *)
Answered == \A p \in Procs : ~Idle(p) ~> Idle(p)
=============================================================================
