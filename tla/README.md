# Mini Vault in TLA+

A verification project for Mini Vault, a Python secret manager in the manner of
HashiCorp Vault: TLA+ modules of its components, TLC configurations that check
them on small instances, and TLAPS proofs, for every value of the constants, of
all that the runs check but the one liveness property.
Line numbers are those of this repository (`src/...` is the package directory,
`specs/...` and `SPEC.md` are its documents).

    tlc -config MCVault.cfg MCVault          # one run
    tlapm VaultProofs.tla                    # one set of proofs

Contents: 1 the system, 2 the plan, 3 the modules and the code, 4 the runs,
5 what the code does otherwise than its documents say, 6 the proofs,
7 what is assumed, bounded or left out.

## 1. The system

A data directory holds six files: the sealed envelope of the Data Encryption
Key (`metadata.json`), the accounts, the Transit keys, the policies, the audit
log and the KV secrets. Any number of processes use it at
once: a FastAPI server, whose synchronous handlers run on a pool of threads,
and command lines. **No file and no object is locked anywhere**; whatever
atomicity there is comes from `os.link`, `os.replace` and `O_APPEND`. That is
where nearly all the difficulty of the system is.

| component | state | operations | talks to |
|---|---|---|---|
| Vault (`core/vault.py`) | `_dek` of the process | initialize, initialize_shamir, unlock, unlock_with_shares | metadata repository, cryptography, Shamir |
| Metadata repository (`storage/repository.py:80-140`) | metadata file, written once | create, read, exists | - |
| Shamir (`shamir.py`) | none | split, combine over GF(257), share format | - |
| Auth service (`auth/service.py`) | session table of the process | register, login, enable_mfa, validate_session | user repository, TOTP |
| User repository (`storage/repository.py:143-245`) | account document | create_account, replace_account, read | - |
| TOTP (`auth/totp.py`) | none (the sealed seed is in the account) | verify, seal, open | - |
| Transit (`transit/service.py`) | none | create, rotate, revoke, list keys; grant, revoke access; encrypt, decrypt, sign, verify | key repository, policies, audit log, the two gates |
| Key repository (`storage/repository.py:248-390`) | key document | create_key, replace_key, delete_key, get_key | - |
| Policies (`policy.py`) | policy document, shared by Transit and KV | grant, revoke, allows, delete_resource | - |
| Audit log (`audit.py`) | hash-chained log | append, verify | - |
| KV engine (`kv/kv_engine.py`) | none | write, read, delete, grant and revoke access | file storage, policies, audit log |
| KV storage (`kv/storage.py`, again in `main.py`) | KV document | get, set, delete, exists | - |
| HTTP (`api/app.py`) | none of its own | a route per vault and account call and per KV operation | vault, accounts, KV engine |
| Command lines (`main.py`, `CLI.py`) | the token that a menu remembers | two menus; commands, each in a process of its own | vault, accounts, both engines |
| KV gate (`kv/service.py`) | none | unlocked, then authenticated, then a callback that nothing passes to it | vault, accounts |
| Demo (`demo.py`) | none | a scripted tour; it removes `data/` first | all of the above |

What makes each one correct, and what makes that hard:

- **Vault.** One envelope ever; an unlocked process holds the DEK of that
  envelope; a credential that opens it is the only way in. Hard: processes that
  initialize at once, threads that share `_dek`, an envelope published by a call
  that then fails.
- **Accounts.** Five failures in a row lock for five minutes, a locked account
  gives out nothing, a second factor stays, addresses are unique. Hard: every
  call decides on a copy it read earlier and writes the whole document; locks
  run out while calls are under way; `os.replace` happened but the call failed.
- **Transit.** Rotation loses nothing, a ciphertext finds its own version and no
  other, only the owner and the grantees use a key, a revoked key leaves no
  grants. Hard: two documents that change one after the other, read in the
  opposite order by those who use them; names that are reused.
- **Audit log.** A log that verifies is the true history; one that was damaged
  is never extended. Hard: two appends, torn writes, a separator byte that is
  looked up before it is needed, and someone who edits the file.
- **KV.** What was written can be read under its version, what was deleted stays
  deleted. Hard: the single document is emptied and rewritten on every change
  and a torn one is read as "no secrets".
- **Requests.** Locked, unauthenticated, not entitled: the first of these that
  applies is what the caller hears, and a share that was withdrawn is of no use.
  Hard: the DEK, the session table and the policies change between the gates,
  the two engines have their gates in different orders, and they share one
  policy document without a lock.
- **Shamir, formats.** Pure functions: k shares rebuild the secret, the
  identifier of a ciphertext parses back to what it was made of. Hard: 256 is a
  share value but not a byte; separators inside names.

The hazards are listed one by one, each at its line with the properties that
watch it, in `PROJECT.json`.

## 2. The plan

Order of work, the most important behaviour first. All of it is written.

1. `VaultAbs`, `Vault`, `VaultProofs`: what is promised about the DEK, the
   lifecycle that implements it, and the proof that it does.
2. `Auth`, `AuthProofs`: accounts, lockout, second factor, sessions.
3. `Transit`: named keys, versions, access lists.
4. `AuditLog`: the chain.
5. `KVStore`: versioned secrets.
6. `Service`: the requests of servers, menus, commands and programs through the
   gates, composed of `VaultAbs`, session tables and the one policy document of
   both engines; liveness of the requests.
7. `Shamir` and `KeyReference`: the arithmetic over a small prime field and the
   ciphertext identifier, as functions checked against reference definitions.
8. Proofs of the components after the first two: `TransitProofs`, `KVStoreProofs`,
   `AuditLogProofs`, `ServiceProofs`, `KeyReferenceProofs`, `ShamirProofs`, and in
   `VaultProofs` and `AuthProofs` of what was only checked before.
9. Abstract specifications beside `VaultAbs`: `AuthAbs`, `TransitAbs` and `KVAbs`,
   and the proofs that `Auth`, `Transit` and `KVStore` implement them. `AuditLog`
   needs none, since `SameHistory` says it all: a log that verifies is an
   append-only history.

## 3. The modules and the code

In every module a **task** is a thread of some process that runs one call at a
time. `pc[t]` says where the call stands, other variables indexed by `t` are the
call's local variables, and one action is what the code does between two
accesses to something others can change: a file, `_dek`, the session table, the
clock. `last[t]` is the answer of the previous call. Definitions named
`X_Something` above a definition `X` are mutants, plausible errors in that piece
of code; nothing refers to them except the experiment that puts one in place of
`X` to see a property fail.

**`VaultAbs`** has two variables, the envelope and the DEK of each process, and
three actions, `Seal`, `Open(p)`, `Lock(p)`.

**`AuthAbs`**, **`TransitAbs`** and **`KVAbs`** say what the other three stores
promise while calls do not overlap: each call takes effect at one moment, on what
is then there, as a whole or not at all. Their actions have no program counter and
no copies; their guards are the rules (an account that is locked takes nothing, a
seed is no one else's, a new version comes behind those that stay, the deletion of
a secret takes its access list along). `Refinement` in the module of each store
names the mapping:

- `Auth`: `users` are the `accounts`. A call takes effect when its document replaces
  the old one, by the time at which it read the clock before (`\E n \in 0 .. now`).
  From then on a login has a session to open, which `Entered` says: the address
  and that time, while `pc` is "token".
- `Transit`: the documents are the variables of the same names. A revocation has two
  moments, `Revoke` and `Clear`, because the key document is replaced before the
  access list is dropped and a crash may come between.
- `KVStore`: a save takes effect when `SaveOpen` empties the file. While it is empty,
  `Secrets` are what the save will write, and `Grants` are without the list of the
  path that is being deleted. A value is `Spent` when it is saved. The refinement
  is of the steps that leave `calm` true; a crash between emptying and writing is
  not one of them, and it is no step of `KVAbs`.

**`Vault`**: `meta` is the file, `dek[p]` is `Vault._dek`. `initialize` is
`InitRefused`/`InitBegin` (check, validation, drawing of secrets), `CreateCheck`,
`CreateLink`, `InitDone`, with `CreateLost` for the two `FileExistsError`s and
`CreateFault` for any `OSError`, also one after the link. `unlock` is
`UnlockBegin` (which drops the DEK first, vault.py:81), `UnlockRead`, and
`UnlockDone` or `UnlockFail`. Shares are records of a share set, an index and
"intact"; `Reconstructs` is the decision of `combine_shares`. They can be
presented only after an initialization has answered with them (`HandedOut`).

**`Auth`**: `users` is the account document, `sessions[p]` the table of a
process, `now` the clock in TOTP periods. `login` is `ReadAccount`, `Refuse`,
`Reject` or `AcceptLogin`, `ReplaceRead`, `Write`, `IssueToken`; `enable_mfa`
begins alike and ends in `Write` (`os.replace`) and `Answer`; `register` is
`Register`, `Write` and `Answer`. A process may end between the last two, and then
the document is replaced and nobody was answered. `validate_session` is
`ValidateLookup` and `ValidateExpiry`. `Fault` is an `OSError` before or after
`os.replace`. `secrets` and `streak` are history: the
seeds that were answered, and the failures answered in a row.

**`Transit`**: `keys` and `policies` are the two documents. Creation and rotation
build a record and `StoreKey` replaces the document; `replace_key` reads it once
more (`ReplaceKey`). `revoke_key` is `RevokeKey`, `StoreKey`, `DropAcl`,
`StoreAcl`. `Authorize` reads the access list, the actions after it the key, in
the order of `_load_authorized_key`. `issued` and `entitled` are history.

**`AuditLog`**: `lines` and `ended` are the file. `append` is `AppendRefused` or
`AppendRead`, `AppendLook` (the last byte), `AppendWrite` or `AppendTorn`.
`Written` says what text at the end of a file makes of its last line. `basis[h]`
is history: the log that the maker of entry `h` had verified.

**`KVStore`**: `doc` is the one document, or `Empty` between `open("w")` and the
write, or `Garbage`. `write` is `Write`, `WriteGet`, `StoreSet`, `SaveOpen`,
`SaveClose`; `delete` is `Delete` (the policies), `Exists`, `StoreDelete` (the
document, twice), the two of the save, and then the access list; `Loads` is
`_load`, which takes everything that is not a document for no secrets.
`attempted`, `answered`, `removed` and `calm` are history; `calm` is true until
calls overlap, a fault happens or a process ends, and the helpers `Quiet`,
`Remember`, `Forget` and `Attempt` keep these four.

**`Service`**: `open[p]` is `_dek` of process `p` and changes as `VaultAbs` says
(`V!Open`, `V!Lock`); `sessions[p]` is its session table, `token[p]` what a menu
remembers, `policies` the document of `policy.py`. `front[p]` says what kind of
program `p` is. A request is followed from `Arrive` on; `ahead[p]` holds the gates
that are still before it, in the order in which `Way` puts them: `CheckUnlocked`
(`_require_unlocked`, `ensure_unlocked`), `Ensure` (`ensure_session`), `Prompt`
(choice 6 of `CLI.py`), `TakeDek` (`get_dek`), `CheckSession`, `CheckEntitled`,
`CheckOwner`, and then `Work`, `List`, `ReadAcl` or `ReadPolicies` followed by
`ReplacePolicies`. `KVDoor` and `TransitDoor` are the orders of the two engines,
and `Sharing` tells the requests that change shares. Between any two of these,
other requests unlock, lock, log in, or find that a session is over. `granted` and
`saw` are history: the shares as the changes that took effect left them, and what
was true at some moment of the request.

**`Shamir`**: `Split` draws a polynomial, `Present` is a call of `combine_shares`
with any few of the `Presentable` shares: those handed out, those of another vault
or another configuration, and those whose digits, at any index, were `Altered`.
`Evaluate`, `Select`, `Interpolate`, `Digits` and `Number` are the code's
functions, over the field of `Prime` elements, where a byte is anything below
`Prime - 1` as it is below 256 in the code. **`KeyReference`**: a text is a
sequence of tokens; `Encrypt` resolves a reference and formats an identifier,
`Decrypt` parses it and resolves what it names. `Resolve`, `Format` and `Parse`
are `_resolve_key_reference`, the end of `encrypt` and the start of `decrypt`.

`MCVault`, `MCAuth`, `MCTransit`, `MCAuditLog`, `MCKVStore`, `MCService` and
`MCCodecs` (both pure modules) give the constants their values. `VaultProofs`,
`AuthProofs`, `TransitProofs`, `AuditLogProofs`, `KVStoreProofs`, `ServiceProofs`,
`KeyReferenceProofs` and `ShamirProofs` each extend the module they are named for
with the theorems about it. The "map" of `PROJECT.json` gives the lines of every
definition that stands for code.

## 4. The runs

Passing runs, with the distinct states TLC finds:

| run | states | shows |
|---|---|---|
| `vault` | 200,000 | Two threads of a server and a shell; weak, wrong and right passphrases, invalid and valid Shamir configurations, damaged, foreign, too few shares. `DekIsPersisted`, `AckedIsPersisted`, `ReportedStateHolds` (for a process with one caller), `OpenedByCredential`, and the refinement of `VaultAbs`. |
| `auth_serial` | 526,000 | One caller, two accounts, faults and restarts: `FailuresCounted`, `LockHolds`, `SecretsInForce`, `AccountsPersist`, and the refinement of `AuthAbs`. |
| `auth_concurrent` | 1,044,000 | Two threads on one account: `RecordsSound`, `DeadlinesBounded` and `SessionsEnd`. |
| `transit_serial` | 97,000 | One caller, two keys, faults and crashes at every step: `Decryptable`, `GrantsKept`, `NoInheritedGrant`, `UseIsEntitled`, and the refinement of `TransitAbs`. |
| `transit_concurrent` | 154,000 | Two callers, faults and crashes: `InPlace`. |
| `audit` | 390,000 | Two appenders, torn writes and edits of the file: `SameHistory`, `DamagedStays`, `AppendKeepsValid`. |
| `kv` | 165,000 | Two callers, faults and crashes: `ReadIsWritten`; and as long as it is calm `WritesKept`, `DeletedIsGone`, and the refinement of `KVAbs`. |
| `service` | 232,000 | Two processes (a program and a server; two menus; the menu of `CLI.py` and a command), an owner and a user she shares with: `RefusedInOrder`, `RevokedIsDenied`, and the liveness property `Answered`. |
| `codecs` | 1,490,000 | Shares of 2-of-4 and 3-of-4 over five elements, up to three presented, in any order, repeated, altered at any index, or of another vault or configuration: `Rebuilds`, `NothingInvented`, `Hiding`. Identifiers of all texts of up to three tokens and of longer full names: `SameKey`, `SameVersion`. |

The pattern is the same for every component. One caller at a time keeps what the
documents promise, storage faults included where the table says so. Overlapping
callers do not (section 5), and for them the runs check what the code does keep:
records that are well-formed, versions that are never confused, values that were
really written, a log that does not lie. `TypeOK` is checked in the run with most
callers of each module that has processes.

Every property has a mutant of the code that breaks it in its own run
(`PROJECT.json`).

## 5. Where the code departs from its documents

Three runs must end in a violation, one that a document excludes; `PROJECT.json`
quotes it.

| run | callers | what happens |
|---|---|---|
| `auth_lock_holds` | two | A login that read the account before it was locked stores its copy afterwards: the lock is gone and a session is issued (SPEC.md:152). |
| `transit_rotations` | two | Two rotations of an existing key (`SpecCreated` starts with one) yield the same version number; the ciphertexts of one of them no longer decrypt (specs/006:5). Two creations of an absent key overlap in the same way (`MCTransitRotations.cfg` with `Spec`). |
| `service_sharing` | two | A KV grant and a Transit withdrawal overlap in the one policy document: the withdrawn share comes back and is used (specs/003:169). |

The same models show more of the kind. The properties that the serial runs check
fail when the configuration is given two tasks, or the interruption named:

- `FailuresCounted`, `AccountsPersist` (two tasks, in `MCAuthLockHolds.cfg`;
  `AccountsPersist` from `Spec`, whose document is empty): failures that overlap
  count as one, a stale login removes a second factor, and of two registrations the
  later one wins;
- `WritesKept`, `DeletedIsGone` without their `calm`: of two writes one is lost,
  and a write of another path brings a deleted secret back. One crash between
  emptying the document and writing it loses every secret (storage.py:32, where
  SPEC.md:229 says "Write then read on the same path returns the original data
  exactly");
- the second half of `DeletedIsGone` without its `calm`: a crash inside `delete`
  leaves the access list to the next secret of that path. `NoInheritedGrant`
  exempts the like case of `revoke_key`, by the history variable `halfway`;
- `GrantsKept` (two tasks in `MCTransitSerial.cfg`): grants and withdrawals that
  overlap undo each other, so a withdrawn permission may come back;
- a log that nobody touched (specs/007-tamper-evident-audit-log.md:134, "Untouched
  logs verify successfully"): two appends that overlap write one sequence number,
  and one denied path with U+2028 in it, which `Glued` and `Separated` tell apart,
  is written as one line and read as two. `AppendKeepsValid` is about plain
  events and appends that do not overlap;
- `SameKey` without `Plain`: an address may contain "/" and ":" (`EMAIL_RE`
  excludes only blanks and a second "@"). With "/" a qualified ciphertext is read
  as one of another owner, or of a key of the reader's own; with ":" it is
  refused. Also, an own key whose name starts with an address and "/" is reached
  only by its full name.

Four more are steps of the models that no property names. Of two validations of
one expired token the second may find the entry gone and end in a KeyError, which
is no public error (`ValidateExpiry`). An initialization
that lost the race clears the DEK of a process that another thread unlocked
meanwhile (`CreateLost`). A failing fsync after `os.link` answers INVALID_INPUT
for a vault that is sealed, and its shares are lost (`CreateFault`). A crash after
the account was replaced leaves a second factor whose seed nobody was given
(`Restart` of `Auth` between `Write` and `Answer`).

And four are about the fronts. `Demo.md:36-66` shows `python main.py kv write
--token ...` and the like at work; such a command runs in a process of its own,
which starts locked and has no session, so it only ever prints VAULT_LOCKED
(`Free` never lets a command process be unlocked). The menu of `CLI.py` keeps a
token whose session is over and asks for a login only when it has none (`Prompt`).
An account with a second factor cannot log in over HTTP, whose `LoginBody` has no
field for the code. The menu of `main.py` builds KV paths from the address as it
was typed, so an owner who types capitals is denied his own secret.

## 6. The proofs

They hold for every value of the constants: any number of processes, threads,
passphrases, accounts, keys, paths, share sets, any limits and lifetimes, and for
`KeyReference` texts of any length, for `Shamir` every prime, configuration and
number of shares. They assume the named `ASSUME`s of the modules
(section 7), which TLC evaluates on the instances.

| module | always | while calls do not overlap |
|---|---|---|
| `VaultProofs` | `TypeCorrect`, `DekSafe`, `AckedSafe`, `Implements`, `UnlocksAreEarned`, `ReportsHold` | |
| `AuthProofs` | `TypeCorrect`, `AccountsSound`, `NoLateDeadline`, `SessionsHold` | `FailuresAreCounted`, `SecretsAreInForce`, `LocksHold`, `AccountsStay`, `Implements` |
| `TransitProofs` | `TypeCorrect`, `MaterialsStayInPlace` | `CiphertextsDecrypt`, `GrantsAreKept`, `NoGrantIsInherited`, `UsersAreEntitled`, `Implements` |
| `AuditLogProofs` | `TypeCorrect`, `HistoriesAgree`, `DamageIsKept`, `AppendsAreValid` | |
| `KVStoreProofs` | `TypeCorrect`, `ReadsAreWritten`, `WritesAreKept`, `DeletedStaysGone`, `Implements`, `OneCallerSuffices` | `CalmImplements` |
| `ServiceProofs` | `TypeCorrect`, `OneManagerSuffices` | `RefusalsAreTrue`, `GivenByRight` |
| `KeyReferenceProofs` | `VersionsSurvive`, `KeysAreFound` | |
| `ShamirProofs` | `SecretsAreRebuilt`, `NothingIsInvented`, `FewSharesSayNothing` | |

**Calls that do not overlap.** The theorems of the right column have the form
`Spec /\ []C => ...`, where `C` says what must not overlap: calls that work on the
copy of an account (`CallsApart`), Transit calls (`NoOverlap` of `TransitProofs`),
the reading and replacing of the policy document (`NoOverlap` of `ServiceProofs`).
The code does nothing to keep these apart, since it locks nothing, and without `C`
the properties are false: the three runs of section 5 and the remarks after them
show how. So `C` is part of what is claimed, and it is weaker than one caller: any
number of tasks may take turns, be cut short, fail and restart in any process, and
in `Service` everything but the two steps of a change may interleave. That `C`
itself follows where the constants exclude the overlap is proved as well:
`OneThreadSuffices` (`Auth`) and `OneTaskSuffices` (`Transit`) for one thread, and
the theorem `OneManagerSuffices` for a `Service` where one process serves all
owners, as in the run `service`. The last needs an invariant of its own: no
request of another process gets past the gate of the owner. In `KVStore` the
condition is in the properties, which speak of the time while the history variable
`calm` is true; `OneCallerSuffices` proves that one task without interruptions is
calm for good.

**`VaultProofs`.** `DekIsPersisted` alone is not inductive: an unlock stores the DEK
of an envelope it read two steps before, and an answered initialization reports
one it linked a step before. The invariant `IInv` adds `CallsAgree`, that the
envelope a call has read, or linked, is the one on disk. That is stable because
the only step that writes the file, `CreateLink`, requires that there is none,
which is the whole point of `os.link`. `Implements` shows that each step is a step
of `VaultAbs` or a stutter: the link is `Seal`, a successful unlock is `Open`, and
dropping the DEK is `Lock`. `UnlocksAreEarned` is about a step and needs that the
credentials of an unlock under way could be presented when it began, which no
later step takes back. `ReportsHold` is inductive with `IInv`, once the steps of a
process with one caller are told from those of the others.

**`AuthProofs`.** A stored account is the copy some call made of an account as it was
earlier, inside a document read at another time, so `RecordsSound` has to be said
of all three at once: `CopiesGood` says it of the document on disk, of every
document a call has read and of every copy, together with the bound on the lock;
`CallShape` says what a call has at hand where, and that the time it goes by is
not in the future. The lemmas `RejectedGood`, `AuthenticatedGood`, `EnrolledGood`,
`NewGood` are about the four ways an account changes, `GoodLater` about the passing
of time, and there is one lemma per operation. For the serial theorems the
invariant `SInv` says that the copy is faithful: it is the stored account until the
call has decided, and what the call makes of it after; the document to be replaced
is the one on disk; and an account on which a call has decided is not locked,
which stays true because time only unlocks. `LocksHold` and `AccountsStay` are about
steps and follow from it.

`SessionsHold` needs no such condition. A validation answers by an entry that it
found earlier, when it was valid or not, and another may remove it in between. The
invariant `Found` says that the entry is still there as long as its time is not
over, and `TokensOnce` that no other session ever takes its place.

`Implements` shows which one moment is a call's: the read, the decision and the
second read are stutters, the write is a step of `AuthAbs` (`StoreIsOneStep`),
which needs that what was decided is still so when it is stored: the address of a
registration has no account, the seed of an enrolment is no one else's, the
account was free at the time the call went by (`SInv`, and `DInv` beside it). The
session of a login is a second step (`IssueIsOneStep`), and `TokensOnce` says why
a token opens at most one and why a validation closes the session it had found,
and no younger one (`ExpiryIsOneStep`).

**`TransitProofs`.** Versions change place only by being drawn, so the invariant
`OnePlace` says of each material that it is under one key and version in all the
documents, on disk or read by any call, in the records about to be stored, and in
the ciphertexts. Storing an old document brings old places back but no new one,
which is why it needs no condition. The serial invariant says for each step of a
call how what it holds relates to the documents (`KeyCall`, `AccessCall`): the
record it will store keeps every version in force, the policies it will store
differ from those in force by what was asked. `Implements` follows from the two:
what `StoreKey` stores is the documents with one `Create`, `Rotate` or `Revoke`
(`KeyStoredIsOneStep`), where `OnePlace` gives that the material drawn is in no key
and no ciphertext (`AddedIsFresh`), what `StoreAcl` stores is one `Grant`, `Withdraw`
or `Clear` (`AclStoredIsOneStep`), and everything else but `Use` is a stutter, faults
and restarts included.

**`AuditLogProofs`.** `SameHistory` is proved for files that anybody edits, so
nothing can be said of the file but that its lines are entries that appends made,
or broken. What is said is about the entries: each follows the log its maker had
verified (`Follows`), and no two have one hash. A file that verifies is then the
history line by line; in place of an induction over the log, a least line that is
not where its maker put it is shown to be impossible. `DamageIsKept` follows,
since an append never changes a line but the last, and that only into a broken
one. `FreshInv` is for appends that nobody disturbs.

**`KVStoreProofs`.** `ReadIsWritten` holds for a file that is torn, emptied or
overwritten with what another call read long before, because each record in any
document, on disk or held by a call, was written by a call as that version of that
path (`Traced`), and each value by one call only (`OneOrigin`). For the other three,
`Knows` says what the one call under way knows as long as it is calm: what it will
save is the document with the one change it was asked for, while the file is empty
between `SaveOpen` and `SaveClose`. For `Implements`, `View` and `ViewAfter` say what
the mapping amounts to when the one caller is known; then `SaveOpenIsOneStep`,
`ReadIsOneStep` and `StoreAclIsOneStep` name the steps that count, and the lemmas
called `Unseen` show of all the others that they change nothing the promise speaks
of, `SaveClose` and the dropping of the access list among them.

**`ServiceProofs`.** A request carries the gates that are ahead of it, and the
invariant `InOrder` is about that sequence whatever it is: a gate that relies on
another has it before it, or that one was passed and has left its trace in `saw`.
`WayInOrder` proves it of every way through the fronts and engines, the other
lemmas that taking the first gate away keeps it. A refusal is then justified by
what was seen, a gift by the right that was seen, and `SInv` adds that the policy
document holds the shares as they were granted and withdrawn.

**`KeyReferenceProofs`.** No induction over texts: a text is cut at the first
place of a separator, which is there if there is any, and what `Encrypt` wrote is
a concatenation in which the first separators are known. `CutConcat`, `CutWhole`
and `CutTokens` say what a cut makes of a concatenation, `ParsePlain` and
`ParseColon` what `Decrypt` makes of an identifier, and `FoundKey` and
`FoundVersion` that it is what was meant.

**`ShamirProofs`.** That an interpolation finds the secret is not a matter of
states: the invariant `ShamirInv` is simple, and the work is the algebra. It is
done from the definition of a prime alone. Numbers are reckoned by congruence
(`Cong`). What a fold of the library computes is established once (`FoldExists`,
`FoldUnique`, `SumFacts`, `ProductFacts`). These are inductions, and the library
states induction for an operator, which the provers cannot instantiate; here it is
stated for a set (`Induction`, `SubsetInduction`: no number is the least that is
missing), and each use defines the set of the numbers, or subsets, of which its
claim holds. `PrimeUnit` gives every number of the field but zero a reciprocal,
`LagrangeOne` that the weights of any set of indexes add up to one. A polynomial
is its value at `a` and `x - a` times a shorter one (`Divide`), from which both
facts follow that carry everything: `Unique`, that two polynomials of length k
which agree at k places are one, and `Through`, that there is one through any
values at k places and that Lagrange's sum is what it has at zero. `ChosenIndexes`
shows that `Select` leaves exactly k shares. `SecretsAreRebuilt` is then
uniqueness, `NothingIsInvented` existence. `FewSharesSayNothing` takes a
polynomial that is zero at the shares known and b at zero: adding it maps the
polynomials that fit the secret 0 one to one onto those that fit b (`SameFits`).

**Only model-checked.** `Answered`, the one property left, is a liveness property
under fairness, which this prover does not do; the run `service` checks it. Every
other property that a passing run checks is a theorem above, those of the right
column under their condition.

## 7. Assumptions, bounds, omissions

**Bounds.** `Vault`: two draws and one of another vault; a third initialization
meets the same cases as the second. `Auth`: two failures lock instead of five, a
lock lasts one or two periods instead of ten, a session one instead of sixty;
`MaxTime` stops the clock after a lock has run out (serial: 3 with a lock of 2)
and `MaxCount` stops counting one above the limit, which is past every comparison.
Two passphrases tell right from wrong, one seed suffices because an account enrols
once and the other account's use of it is refused as drawn. `Transit`: three or
four materials, up to three versions, one or two keys; `transit_concurrent` has
four materials so that two rotations and a creation can overlap. `AuditLog`: three
lines and four hashes, so that an edit can bring back an entry that a race left
out; the links relate neighbours only. `KVStore`: two paths, three values, and a
call asks for one of the versions that can exist (`MCAsked`). `Service`: one
request per process is followed, one secret and one key stand for the two engines,
one permission for all; one envelope, since `Vault` shows that there is never
another; in the run `service` the owner works in one process, so that changes of
shares do not overlap. `Shamir`: five elements have bytes 0 to 3 and the one
value 4 that is none, and four indexes; an altered share has the digits of 0, of 4,
or of 5, which is outside the field. That the size does not matter is proved, for
any digits.
`KeyReference`: one word, two addresses without and two with separators, three
versions (one written without a number, and two with). Two concurrent callers are
enough for every lost update, which needs one reader and one writer.

**Symmetry.** Passphrases, seeds, tokens, accounts, keys, materials, hashes,
paths, values and tasks are interchangeable where a configuration names them so:
all keys and paths belong to one owner there, and no definition singles one out.

**Deadlock** is checked in every run; some call can always be made.

**Fairness.** Only `Service` assumes any: weak fairness of `Continue(p)`, the next
step of the request of each process. It says that a thread which runs goes on
running. The code justifies it: no gate waits for anything (each looks once and
either passes or answers), there is no lock to be held by another and nothing is
retried. It is not assumed that anybody ever unlocks the vault, logs in or stops
failing to. `Answered` follows only because a gate that is shut answers; it is
what a wait for the vault to be unlocked would break. The other components claim
no liveness: their calls are sequences of steps without a loop, as in `Service`.

**Constants.** The `ASSUME`s say of them: every thread has a process (`Vault`,
`Auth`); limits and lifetimes are positive; `None` is not a member of the sets it
is added to, nor one of the entries of `AuthAbs` (`EntryAssumption`); every key
and every secret has an owner; hashes are not the genesis hash; the tokens for
words, plain addresses and digits are not separators, and words are not addresses;
every user is an address (`IsAddress`, as `EMAIL_RE` demands); different versions
have different numerals; `Prime` is a prime number, and a configuration has a
threshold of at least 2, no fewer shares than that and fewer than `Prime` (`PRIME`
is 257, and `validate_config` admits at most 255 shares: shamir.py:11, 36); the
digits of `Altered` shares are numbers.

**Assumed.** Argon2id, AES-GCM, HMAC, SHA-256 and Ed25519 are ideal and random
draws are fresh. A process may end at any point but the machine does not lose
power: what was written is there. A document is written by one system call, and so
is a log entry. What a thread does between two accesses to shared data is atomic.
Addresses are canonical and input is well-formed except where its refusal changes
something.

**Not modelled.** In `Service`, choice 6 of `CLI.py` tries to create the key
before it encrypts and swallows the error (CLI.py:123-126): which keys exist is
not told apart there, so `Prompt` leaves the attempt out, whose gates are those
that the encryption passes anyway; `Transit` has the creation itself. Prompts,
argument parsing, JSON and HTTP framing (FastAPI refuses a request without a
bearer token before a handler runs). The bytes of envelopes, sealed seeds, shares
and signatures: Base64, Base32, the provisioning URI and the length checks around
the ideal primitives decide nothing that a property is about. That one TOTP code
opens several sessions is as the code and the documents have it. `demo.py` is a
tour of its own, without logic, that begins by removing `data/`. The callback of
`kv/service.py` does not exist. `list_keys`, `list_key_versions` and the status
queries read and change nothing. `Transit` and `KVStore` have the policy document
to themselves; `Service` is where they share it.
