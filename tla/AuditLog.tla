------------------------------ MODULE AuditLog ------------------------------
(***************************************************************************)
(* The hash-chained log of denied accesses: src/audit.py.                  *)
(*                                                                         *)
(* Engines of all threads and processes append to one file, without a      *)
(* lock: an append verifies the file, looks again at its last byte, and    *)
(* then writes one piece of text to the end of it.                         *)
(*                                                                         *)
(* A hash names the body it was computed from and never comes out twice.   *)
(* A line is an entry, or Broken when read_verified cannot accept it at    *)
(* any place: incomplete, not JSON, or edited after it was hashed.         *)
(***************************************************************************)
EXTENDS Integers, Sequences, FiniteSets

CONSTANTS Tasks,      \* threads of any process
          Events,     \* the events that are logged: "plain", "separated"
          Hashes,
          Genesis,    \* sixty-four zeroes
          MaxLines,   \* bound on the lines of the file
          Hazards,    \* "fault", "restart" and "tamper", or some of them
          Broken,
          None

ASSUME AuditAssumption ==
    /\ Events \subseteq {"plain", "separated"}
    /\ Genesis \notin Hashes
    /\ MaxLines \in Nat
    /\ Hazards \subseteq {"fault", "restart", "tamper"}

Entry == [sequence : Nat, previous : Hashes \cup {Genesis}, hash : Hashes]

ASSUME BrokenAssumption == Broken \notin Entry /\ None \notin Entry

VARIABLES lines,  \* the lines of the file
          ended,  \* does the file end with a newline, or is it empty?
          pc,
          body,   \* body[t]: the entry that the append of t has built
          event,  \* event[t]: what it is about
          separator, \* separator[t]: needs_separator
          last,   \* last[t]: the outcome of the last append of t
          basis,  \* basis[h]: the log that the maker of the entry h had verified
          made,   \* the entries built so far
          fresh   \* fresh[t]: is the file as the append of t has verified it?
vars == <<lines, ended, pc, body, event, separator, last, basis, made, fresh>>
-----------------------------------------------------------------------------
Line == Entry \cup {Broken}

(* Mutant: the hash of the line before is not compared. *)
Verifies_NoLinks(ls) ==
    /\ \A i \in 1 .. Len(ls) : ls[i] # Broken
    /\ \A i \in 1 .. Len(ls) : ls[i].sequence = i

Verifies(ls) ==
    /\ \A i \in 1 .. Len(ls) : ls[i] # Broken
    /\ \A i \in 1 .. Len(ls) :
          /\ ls[i].sequence = i
          /\ ls[i].previous = IF i = 1 THEN Genesis ELSE ls[i-1].hash

(* What an event becomes in the file.  JSON leaves the line separators of  *)
(* Unicode as they are and splitlines() breaks at them, so an event that   *)
(* has one in its path takes two lines, neither of them JSON.              *)
Pieces(t) == IF event[t] = "plain" THEN <<body[t]>> ELSE <<Broken, Broken>>

(* The file after the separator, or no separator, was written.  A newline  *)
(* that is not needed leaves an empty line, which is never accepted.       *)
Separated(t) == IF separator[t] /\ ended THEN Append(lines, Broken) ELSE lines

(* Text written behind an unfinished line spoils that line.                *)
Glued(t) == ~ended /\ ~separator[t]
Written(t, ls) ==
    IF Glued(t) THEN [lines EXCEPT ![Len(lines)] = Broken] \o Tail(ls)
    ELSE Separated(t) \o ls

Init == /\ lines = <<>>
        /\ ended = TRUE
        /\ pc = [t \in Tasks |-> "idle"]
        /\ body = [t \in Tasks |-> None]
        /\ event = [t \in Tasks |-> None]
        /\ separator = [t \in Tasks |-> FALSE]
        /\ last = [t \in Tasks |-> "none"]
        /\ basis = [h \in Hashes |-> <<>>]
        /\ made = {}
        /\ fresh = [t \in Tasks |-> FALSE]

file == <<lines, ended>>
Stale == [t \in Tasks |-> FALSE]

Return(t, outcome) ==
    /\ pc' = [pc EXCEPT ![t] = "idle"]
    /\ body' = [body EXCEPT ![t] = None]
    /\ event' = [event EXCEPT ![t] = None]
    /\ separator' = [separator EXCEPT ![t] = FALSE]
    /\ last' = [last EXCEPT ![t] = outcome]
-----------------------------------------------------------------------------
(* verify reports, and changes nothing.                                    *)
Verify(t) ==
    /\ pc[t] = "idle"
    /\ Return(t, IF Verifies(lines) THEN "valid" ELSE "invalid")
    /\ UNCHANGED <<file, basis, made, fresh>>

(* append gives up when the chain does not verify; its callers swallow the *)
(* error (kv_engine.py:53, transit/service.py:673).                        *)
AppendRefused(t) ==
    /\ pc[t] = "idle"
    /\ ~Verifies(lines)
    /\ Return(t, "AuditIntegrityError")
    /\ UNCHANGED <<file, basis, made, fresh>>

(* Mutant: behind a damaged chain a new one is started. *)
AppendRead_StartsOver(t, ev) ==
    /\ pc[t] = "idle"
    /\ \E h \in Hashes \ {e.hash : e \in made} :
          LET e == [sequence |-> Len(lines) + 1,
                    previous |-> IF Verifies(lines) /\ lines # <<>>
                                 THEN lines[Len(lines)].hash ELSE Genesis,
                    hash     |-> h]
          IN  /\ body' = [body EXCEPT ![t] = e]
              /\ basis' = [basis EXCEPT ![h] = lines]
              /\ made' = made \cup {e}
    /\ event' = [event EXCEPT ![t] = ev]
    /\ last' = [last EXCEPT ![t] = "none"]
    /\ fresh' = [fresh EXCEPT ![t] = TRUE]
    /\ pc' = [pc EXCEPT ![t] = "look"]
    /\ UNCHANGED <<file, separator>>

(* Mutant: the sequence number is one less, not one more. *)
AppendRead_OffByTwo(t, ev) ==
    /\ pc[t] = "idle"
    /\ Verifies(lines)
    /\ \E h \in Hashes \ {e.hash : e \in made} :
          LET e == [sequence |-> Len(lines) - 1,
                    previous |-> IF lines = <<>> THEN Genesis
                                 ELSE lines[Len(lines)].hash,
                    hash     |-> h]
          IN  /\ body' = [body EXCEPT ![t] = e]
              /\ basis' = [basis EXCEPT ![h] = lines]
              /\ made' = made \cup {e}
    /\ event' = [event EXCEPT ![t] = ev]
    /\ last' = [last EXCEPT ![t] = "none"]
    /\ fresh' = [fresh EXCEPT ![t] = TRUE]
    /\ pc' = [pc EXCEPT ![t] = "look"]
    /\ UNCHANGED <<file, separator>>

(* Otherwise it builds the entry that follows the last one.                *)
AppendRead(t, ev) ==
    /\ pc[t] = "idle"
    /\ Verifies(lines)
    /\ \E h \in Hashes \ {e.hash : e \in made} :
          LET e == [sequence |-> Len(lines) + 1,
                    previous |-> IF lines = <<>> THEN Genesis
                                 ELSE lines[Len(lines)].hash,
                    hash     |-> h]
          IN  /\ body' = [body EXCEPT ![t] = e]
              /\ basis' = [basis EXCEPT ![h] = lines]
              /\ made' = made \cup {e}
    /\ event' = [event EXCEPT ![t] = ev]
    /\ last' = [last EXCEPT ![t] = "none"]
    /\ fresh' = [fresh EXCEPT ![t] = TRUE]
    /\ pc' = [pc EXCEPT ![t] = "look"]
    /\ UNCHANGED <<file, separator>>

(* Mutant: the last byte is never looked at. *)
AppendLook_Skips(t) ==
    /\ pc[t] = "look"
    /\ pc' = [pc EXCEPT ![t] = "write"]
    /\ UNCHANGED <<file, separator, body, event, last, basis, made, fresh>>

(* needs_separator looks at the file once more.                            *)
AppendLook(t) ==
    /\ pc[t] = "look"
    /\ separator' = [separator EXCEPT ![t] = ~ended]
    /\ pc' = [pc EXCEPT ![t] = "write"]
    /\ UNCHANGED <<file, body, event, last, basis, made, fresh>>

(* The text goes to the end of the file in one write.                      *)
AppendWrite(t) ==
    /\ pc[t] = "write"
    /\ Len(Written(t, Pieces(t))) <= MaxLines
    /\ lines' = Written(t, Pieces(t))
    /\ ended' = TRUE
    /\ Return(t, "appended")
    /\ fresh' = Stale
    /\ UNCHANGED <<basis, made>>

(* The write fails, as on a full disk: no text, the separator alone, a     *)
(* part of the entry or all of it but the newline has reached the file.    *)
AppendTorn(t) ==
    /\ "fault" \in Hazards
    /\ pc[t] = "write"
    /\ \/ UNCHANGED file
       \/ /\ separator[t]
          /\ lines' = Separated(t)
          /\ ended' = TRUE
       \/ \E ls \in {<<Broken>>, Pieces(t)} :
             /\ lines' = Written(t, ls)
             /\ ended' = FALSE
    /\ Len(lines') <= MaxLines
    /\ Return(t, "OSError")
    /\ fresh' = Stale
    /\ UNCHANGED <<basis, made>>

(* The process of an append ends, or an earlier access to the file fails.  *)
Restart(t) ==
    /\ "restart" \in Hazards
    /\ pc[t] # "idle"
    /\ Return(t, "none")
    /\ UNCHANGED <<file, basis, made, fresh>>

(* Someone who does not compute hashes edits the file: a line is taken     *)
(* away, spoiled, or put in from what the log has held at some time.       *)
Without(i) == SubSeq(lines, 1, i-1) \o SubSeq(lines, i+1, Len(lines))
With(i, e) == SubSeq(lines, 1, i-1) \o <<e>> \o SubSeq(lines, i, Len(lines))
Tamper ==
    /\ "tamper" \in Hazards
    /\ \/ \E i \in 1 .. Len(lines) : lines' = Without(i)
       \/ \E i \in 1 .. Len(lines) : lines' = [lines EXCEPT ![i] = Broken]
       \/ /\ Len(lines) < MaxLines
          /\ \E i \in 1 .. Len(lines) + 1, e \in made : lines' = With(i, e)
    /\ ended' = TRUE
    /\ fresh' = Stale
    /\ UNCHANGED <<pc, body, event, separator, last, basis, made>>

Step(t) == \/ Verify(t) \/ AppendRefused(t)
           \/ \E ev \in Events : AppendRead(t, ev)
           \/ AppendLook(t) \/ AppendWrite(t) \/ AppendTorn(t)
           \/ Restart(t)

Next == (\E t \in Tasks : Step(t)) \/ Tamper

Spec == Init /\ [][Next]_vars
-----------------------------------------------------------------------------
TypeOK ==
    /\ lines \in Seq(Line)
    /\ ended \in BOOLEAN
    /\ lines = <<>> => ended
    /\ pc \in [Tasks -> {"idle", "look", "write"}]
    /\ body \in [Tasks -> Entry \cup {None}]
    /\ event \in [Tasks -> Events \cup {None}]
    /\ separator \in [Tasks -> BOOLEAN]
    /\ last \in [Tasks -> {"none", "appended", "AuditIntegrityError", "OSError",
                         "valid", "invalid"}]
    /\ basis \in [Hashes -> Seq(Line)]
    /\ made \subseteq Entry
    /\ fresh \in [Tasks -> BOOLEAN]

(* Every line of a log that verifies stands behind exactly the lines its   *)
(* maker had verified before, whatever appends raced and whatever was      *)
(* taken out, put in or put elsewhere (specs/007:75-88, audit.py:105-155). *)
SameHistory ==
    Verifies(lines) =>
        \A i \in 1 .. Len(lines) : basis[lines[i].hash] = SubSeq(lines, 1, i-1)

(* Appends never repair a damaged chain, and none adds to it but one that  *)
(* had verified it before it was damaged                                   *)
(* (specs/007-tamper-evident-audit-log.md:72 and 140, audit.py:67).        *)
DamagedStays ==
    [][~Verifies(lines) /\ lines' # lines /\ ~Tamper =>
          /\ ~Verifies(lines')
          /\ \E t \in Tasks : pc[t] = "write" /\ Verifies(basis[body[t].hash])]_vars

(* An append that runs while nobody else touches the file makes it one     *)
(* valid entry longer, whatever torn write the last one ended in           *)
(* (audit.py:94-102).                                                      *)
AppendKeepsValid ==
    [][\A t \in Tasks :
          /\ last[t] = "none" /\ last'[t] = "appended"
          /\ event[t] = "plain" /\ fresh[t]
          => Verifies(lines') /\ Len(lines') = Len(lines) + 1]_vars
=============================================================================
