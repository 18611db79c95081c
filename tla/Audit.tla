------------------------------- MODULE Audit -------------------------------
(***************************************************************************)
(* The audit log of fbmcp (internal/audit): audit.jsonl, a file of lines   *)
(* that each carry the hash of the line before, and audit.jsonl.head, a    *)
(* sidecar with the number of lines and the last hash, that Open compares  *)
(* with the file.                                                          *)
(*                                                                         *)
(* Log reads the last hash before it takes the lock and appends the line,  *)
(* syncs, updates its fields and rewrites the sidecar under it.  A line's  *)
(* hash is represented by the entry itself: SHA-256 does not collide.      *)
(***************************************************************************)
EXTENDS Naturals, Sequences

CONSTANTS
  Entries,     \* calls of Log, one entry each
  Genesis,     \* the hash before the first line (64 zeros)
  Torn,        \* a last line cut short, without its newline
  Garbage,     \* a line that does not parse
  Nobody,      \* no call holds the lock
  MaxFaults,   \* bound: failing writes and syncs
  MaxKills,    \* bound: kills with a call in flight
  MaxCuts      \* bound: times somebody removes lines from the end of the file

ASSUME AuditAssumption ==
  /\ {Genesis, Torn, Garbage, Nobody} \cap Entries = {}
  /\ Torn # Garbage
  /\ MaxFaults \in Nat /\ MaxKills \in Nat /\ MaxCuts \in Nat

VARIABLES
  mode,        \* "up", "down", or "refused": Open returned an error
  log,         \* the lines of audit.jsonl
  head,        \* the sidecar: state (absent, good, unreadable), count, last
  last, count, \* the fields of the Logger
  call,        \* progress of each call of Log
  prev,        \* the previous hash each call has read
  lock,        \* the call that holds l.mu
  faults, kills, cuts,
  acked,       \* history: calls that returned without error
  overlap,     \* history: two calls were between reading last and returning
  hurt,        \* history: a write failed, a call was killed, or lines were cut
  cutSeen      \* history: lines are missing and the sidecar was readable then

files   == <<log, head>>
fields  == <<last, count>>
calls   == <<call, prev, lock>>
bounds  == <<faults, kills, cuts>>
history == <<acked, overlap, hurt, cutSeen>>
vars == <<mode, files, fields, calls, bounds, history>>

Lines == [hash : Entries \cup {Torn, Garbage}, prev : Entries \cup {Genesis}]
CallStates == {"idle", "read", "written", "cleared", "done", "failed", "lost"}
Absent     == [state |-> "absent", count |-> 0, last |-> Genesis]
Unreadable == [state |-> "unreadable", count |-> 0, last |-> Genesis]

Init ==
  /\ mode = "up" /\ log = << >> /\ head = Absent
  /\ last = Genesis /\ count = 0
  /\ call = [e \in Entries |-> "idle"] /\ prev = [e \in Entries |-> Genesis] /\ lock = Nobody
  /\ faults = 0 /\ kills = 0 /\ cuts = 0
  /\ acked = {} /\ overlap = FALSE /\ hurt = FALSE /\ cutSeen = FALSE

TypeOK ==
  /\ mode \in {"up", "down", "refused"}
  /\ log \in Seq(Lines)
  /\ head \in [state : {"absent", "good", "unreadable"}, count : Nat, last : Entries \cup {Genesis}]
  /\ last \in Entries \cup {Genesis} /\ count \in Nat
  /\ call \in [Entries -> CallStates]
  /\ prev \in [Entries -> Entries \cup {Genesis}]
  /\ lock \in Entries \cup {Nobody}
  /\ faults \in 0..MaxFaults /\ kills \in 0..MaxKills /\ cuts \in 0..MaxCuts
  /\ acked \in SUBSET Entries
  /\ overlap \in BOOLEAN /\ hurt \in BOOLEAN /\ cutSeen \in BOOLEAN

-----------------------------------------------------------------------------
InFlight == {e \in Entries : call[e] \in {"read", "written", "cleared"}}

\* Log, before the lock: the previous hash is read from the shared field.
ReadLast(e) ==
  /\ mode = "up" /\ call[e] = "idle"
  /\ call' = [call EXCEPT ![e] = "read"]
  /\ prev' = [prev EXCEPT ![e] = last]
  /\ overlap' = (overlap \/ InFlight # {})
  /\ UNCHANGED <<mode, files, fields, lock, bounds, acked, hurt, cutSeen>>

Line(e) == [hash |-> e, prev |-> prev[e]]

\* What the bytes of a line become at the end of the file: after a torn line
\* they continue that line, up to a newline if they have one, and the result
\* does not parse.
Appended(lines, line) ==
  IF lines # << >> /\ lines[Len(lines)].hash = Torn
  THEN [lines EXCEPT ![Len(lines)].hash = IF line.hash = Torn THEN Torn ELSE Garbage]
  ELSE Append(lines, line)

Fault ==
  /\ faults < MaxFaults
  /\ faults' = faults + 1
  /\ hurt' = TRUE
  /\ UNCHANGED <<kills, cuts>>

\* Under the lock: the line is written.
Write(e) ==
  /\ call[e] = "read" /\ lock = Nobody
  /\ lock' = e
  /\ log' = Appended(log, Line(e))
  /\ call' = [call EXCEPT ![e] = "written"]
  /\ UNCHANGED <<mode, head, fields, prev, bounds, history>>

\* The write fails, with nothing or a part of the line in the file.
WriteFails(e) ==
  /\ call[e] = "read" /\ lock = Nobody
  /\ Fault
  /\ \/ UNCHANGED log
     \/ log' = Appended(log, [hash |-> Torn, prev |-> prev[e]])
  /\ call' = [call EXCEPT ![e] = "failed"]
  /\ UNCHANGED <<mode, head, fields, prev, lock, acked, overlap, cutSeen>>

\* Mutant: last is not moved on.
SyncForgets(e) ==
  /\ call[e] = "written"
  /\ count' = count + 1
  /\ head' = Unreadable
  /\ call' = [call EXCEPT ![e] = "cleared"]
  /\ UNCHANGED <<mode, log, last, prev, lock, bounds, history>>

\* Sync succeeds, the fields move on, and WriteFile truncates the sidecar.
Sync(e) ==
  /\ call[e] = "written"
  /\ last' = e /\ count' = count + 1
  /\ head' = Unreadable
  /\ call' = [call EXCEPT ![e] = "cleared"]
  /\ UNCHANGED <<mode, log, prev, lock, bounds, history>>

\* Sync fails: the line stays in the file, the fields stay behind.
SyncFails(e) ==
  /\ call[e] = "written"
  /\ Fault
  /\ lock' = Nobody
  /\ call' = [call EXCEPT ![e] = "failed"]
  /\ UNCHANGED <<mode, files, fields, prev, acked, overlap, cutSeen>>

\* Mutant: the sidecar gets the count from before the line.
HeadWriteStale(e) ==
  /\ call[e] = "cleared"
  /\ head' = [state |-> "good", count |-> count - 1, last |-> last]
  /\ lock' = Nobody
  /\ call' = [call EXCEPT ![e] = "done"]
  /\ acked' = acked \cup {e}
  /\ UNCHANGED <<mode, log, fields, prev, bounds, overlap, hurt, cutSeen>>

\* WriteFile fills the sidecar and Log returns.
HeadWrite(e) ==
  /\ call[e] = "cleared"
  /\ head' = [state |-> "good", count |-> count, last |-> last]
  /\ lock' = Nobody
  /\ call' = [call EXCEPT ![e] = "done"]
  /\ acked' = acked \cup {e}
  /\ UNCHANGED <<mode, log, fields, prev, bounds, overlap, hurt, cutSeen>>

\* WriteFile cannot open the sidecar: the fields have moved on, the sidecar
\* still has what it had.
HeadStays(e) ==
  /\ call[e] = "written"
  /\ Fault
  /\ last' = e /\ count' = count + 1
  /\ lock' = Nobody
  /\ call' = [call EXCEPT ![e] = "failed"]
  /\ UNCHANGED <<mode, files, prev, acked, overlap, cutSeen>>

\* WriteFile fails behind the truncation.
HeadFails(e) ==
  /\ call[e] = "cleared"
  /\ Fault
  /\ lock' = Nobody
  /\ call' = [call EXCEPT ![e] = "failed"]
  /\ UNCHANGED <<mode, files, fields, prev, acked, overlap, cutSeen>>

-----------------------------------------------------------------------------
\* The process ends.  With a call in flight it was killed; a line that was
\* being written may be torn.
Stop ==
  /\ mode = "up"
  /\ \/ InFlight = {} /\ UNCHANGED <<bounds, hurt>>
     \/ /\ InFlight # {}
        /\ kills < MaxKills /\ kills' = kills + 1 /\ hurt' = TRUE
        /\ UNCHANGED <<faults, cuts>>
  /\ \/ UNCHANGED log
     \/ /\ lock # Nobody /\ call[lock] = "written"
        /\ log # << >> /\ log[Len(log)].hash = lock
        /\ log' = [log EXCEPT ![Len(log)].hash = Torn]
  /\ mode' = "down"
  /\ call' = [e \in Entries |-> IF e \in InFlight THEN "lost" ELSE call[e]]
  /\ lock' = Nobody
  /\ UNCHANGED <<head, fields, prev, acked, overlap, cutSeen>>

\* Somebody removes lines from the end of the file while the process is down.
Cut ==
  /\ mode = "down" /\ log # << >>
  /\ cuts < MaxCuts /\ cuts' = cuts + 1
  /\ \E n \in 0..(Len(log) - 1) : log' = SubSeq(log, 1, n)
  /\ hurt' = TRUE
  /\ cutSeen' = (cutSeen \/ (head.state = "good" /\ head.last \notin {log'[i].hash : i \in DOMAIN log'}))
  /\ UNCHANGED <<mode, head, fields, calls, faults, kills, acked, overlap>>

Parses(line) == line.hash \in Entries

\* Where Open resumes the chain: the last line, if it parses.
Resumed ==
  IF log # << >> /\ Parses(log[Len(log)])
  THEN [last |-> log[Len(log)].hash, count |-> Len(log)]
  ELSE [last |-> Genesis, count |-> 0]

\* Mutant: the sidecar is not compared.
AgreesAlways(h, r) == TRUE

Agrees(h, r) == h.state = "good" => h.count = r.count /\ h.last = r.last

Open ==
  /\ mode = "down"
  /\ last' = Resumed.last /\ count' = Resumed.count
  /\ mode' = IF Agrees(head, Resumed) THEN "up" ELSE "refused"
  /\ UNCHANGED <<files, calls, bounds, history>>

Next ==
  \/ \E e \in Entries :
       \/ ReadLast(e) \/ Write(e) \/ WriteFails(e) \/ Sync(e) \/ SyncFails(e)
       \/ HeadWrite(e) \/ HeadStays(e) \/ HeadFails(e)
  \/ Stop \/ Cut \/ Open

Spec == Init /\ [][Next]_vars

-----------------------------------------------------------------------------
(***************************************************************************)
(* Properties.                                                             *)
(***************************************************************************)

\* Verify: every line parses and continues the one before, and a readable
\* sidecar has the last hash (and the count, give or take one).
Before(i) == IF i = 1 THEN Genesis ELSE log[i - 1].hash
Verifies ==
  /\ \A i \in DOMAIN log : Parses(log[i]) /\ log[i].prev = Before(i)
  /\ head.state = "good" =>
       /\ head.count + 1 = Len(log) \/ head.count = Len(log)
       /\ log # << >> /\ head.last = log[Len(log)].hash

\* However the calls of Log interleave, a process that stopped with none of
\* them in flight, and none failed, starts again: Open refuses only what a
\* failure, a kill or a cut has touched.
CleanRestart ==
  /\ mode = "refused" => hurt
  /\ ~hurt /\ lock = Nobody => Agrees(head, Resumed)

\* An entry whose Log returned without error is a line of the file that can be
\* read, exactly once, until a failure, a kill or a cut touches the file.
AckedKept ==
  ~hurt => \A e \in acked : \E i \in DOMAIN log :
             log[i].hash = e /\ \A k \in DOMAIN log : log[k].hash = e => k = i

(***************************************************************************)
(* The strengthening the proofs use: as long as nothing failed, was killed *)
(* or was cut, the fields and the sidecar follow the file, the holder of   *)
(* the lock being at most one step ahead.                                  *)
(***************************************************************************)
Holder ==
  /\ lock # Nobody => mode = "up" /\ call[lock] \in {"written", "cleared"}
  /\ \A e \in Entries : call[e] \in {"written", "cleared"} => lock = e
  /\ mode # "up" => InFlight = {}

\* Every line parses and belongs to a call that has written it, once.
WholeLines ==
  /\ \A i \in DOMAIN log : log[i].hash \in Entries /\ call[log[i].hash] \in {"written", "cleared", "done"}
  /\ \A i, k \in DOMAIN log : log[i].hash = log[k].hash => i = k

Follows ==
  /\ lock = Nobody =>
       /\ mode = "up" => Resumed = [last |-> last, count |-> count]
       /\ \/ head.state = "good" /\ head.count = Resumed.count /\ head.last = Resumed.last
          \/ head.state = "absent" /\ log = << >>
  /\ lock # Nobody =>
       /\ log # << >> /\ log[Len(log)].hash = lock
       /\ call[lock] = "written" => count + 1 = Len(log)
       /\ call[lock] = "cleared" => count = Len(log) /\ last = lock

Kept == \A e \in Entries : call[e] = "done" => \E i \in DOMAIN log : log[i].hash = e

AuditInv ==
  /\ TypeOK /\ Holder
  /\ \A e \in acked : call[e] = "done"
  /\ mode = "refused" => hurt
  /\ ~hurt => WholeLines /\ Follows /\ Kept

\* While calls do not overlap there is one of them at a time, the hash it has read
\* is still the last one, and each line carries the hash of the line before.
Serial ==
  /\ \A d, e \in InFlight : d = e
  /\ \A e \in Entries : call[e] = "read" => prev[e] = last
  /\ \A i \in DOMAIN log : log[i].prev = Before(i)

\* The sidecar is filled by the call that moved the field on, whatever failed.
HeadNames ==
  /\ \A e \in Entries : call[e] = "cleared" => last = e
  /\ head.state = "good" => head.last \in Entries

\* A line that was removed stays missing, and the sidecar goes on naming it.
LineMissing ==
  cutSeen => /\ mode # "up" /\ head.state = "good"
             /\ \A i \in DOMAIN log : log[i].hash # head.last

ChainInv == AuditInv /\ (~hurt /\ ~overlap => Serial) /\ HeadNames /\ LineMissing

\* Calls of Log that do not overlap leave a chain that Verify accepts.
SerialVerifies == ~hurt /\ ~overlap /\ lock = Nobody => Verifies

\* ".head detects truncation": once the line the sidecar names has been removed
\* no process comes up on the file, nor does Verify accept it.
CutIsRefused == cutSeen => mode # "up" /\ ~Verifies

-----------------------------------------------------------------------------
(***************************************************************************)
(* What comments, messages and documents of the repository say and the     *)
(* code does not do: TLC finds a counterexample to each of these (README,  *)
(* section 6).                                                             *)
(***************************************************************************)

\* "Chain: each entry hashes the previous hash": whoever calls Log and when,
\* each line carries the hash of the line before it.
ChainHolds == ~hurt => \A i \in DOMAIN log : log[i].prev = Before(i)

\* "restarts it, and checks the recovery invariants: audit chain verifies":
\* serial calls of Log and kills, and nothing else, leave a log that verifies.
KillKeepsChain == ~overlap /\ faults = 0 /\ cuts = 0 /\ lock = Nobody => Verifies
=============================================================================
