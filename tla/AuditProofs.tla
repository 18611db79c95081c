---------------------------- MODULE AuditProofs ----------------------------
(***************************************************************************)
(* Machine-checked proofs about Audit, for any number of calls of Log and  *)
(* any number of failures, kills and cuts.                                 *)
(***************************************************************************)
EXTENDS Audit, TLAPS

Hashes == Entries \cup {Genesis}

\* A line at the end of a file whose last line is whole.
LEMMA AppendedLine ==
  ASSUME NEW lines \in Seq(Lines), NEW line \in Lines,
         lines # << >> => lines[Len(lines)].hash # Torn
  PROVE  /\ Appended(lines, line) \in Seq(Lines)
         /\ Len(lines) \in Nat
         /\ Len(Appended(lines, line)) = Len(lines) + 1
         /\ DOMAIN lines = 1..Len(lines)
         /\ DOMAIN Appended(lines, line) = 1..(Len(lines) + 1)
         /\ Appended(lines, line)[Len(lines) + 1] = line
         /\ \A i \in 1..Len(lines) : Appended(lines, line)[i] = lines[i]
         /\ Appended(lines, line) # << >>
<1>1. Appended(lines, line) = Append(lines, line)
  BY DEF Appended
<1> QED
  BY <1>1

\* Whatever the last line is, the result is a file.
LEMMA AppendedType ==
  ASSUME NEW lines \in Seq(Lines), NEW line \in Lines
  PROVE  Appended(lines, line) \in Seq(Lines)
<1>1. CASE lines # << >> /\ lines[Len(lines)].hash = Torn
  <2>1. Len(lines) \in 1..Len(lines) /\ lines[Len(lines)] \in Lines
    BY <1>1
  <2>2. PICK h : h = IF line.hash = Torn THEN Torn ELSE Garbage
    OBVIOUS
  <2>3. [lines[Len(lines)] EXCEPT !.hash = h] \in Lines
    BY <2>1, <2>2 DEF Lines
  <2>4. [lines EXCEPT ![Len(lines)].hash = h] \in Seq(Lines)
    BY <2>1, <2>3
  <2> QED
    BY <1>1, <2>2, <2>4 DEF Appended
<1>2. CASE ~(lines # << >> /\ lines[Len(lines)].hash = Torn)
  BY <1>2 DEF Appended
<1> QED
  BY <1>1, <1>2

\* Open resumes at the last line when it is whole.
LEMMA ResumedLast ==
  ASSUME TypeOK
  PROVE  /\ Resumed.last \in Hashes /\ Resumed.count \in Nat
         /\ log = << >> => Resumed.last = Genesis /\ Resumed.count = 0
         /\ log # << >> /\ log[Len(log)].hash \in Entries
              => Resumed.last = log[Len(log)].hash /\ Resumed.count = Len(log)
         /\ Resumed = [last |-> Resumed.last, count |-> Resumed.count]
<1>1. Len(log) \in Nat
  BY DEF TypeOK
<1> QED
  BY <1>1 DEF Resumed, Parses, Hashes

-----------------------------------------------------------------------------
LEMMA AuditInvInit == Init => AuditInv
<1> SUFFICES ASSUME Init PROVE AuditInv
  OBVIOUS
<1>1. TypeOK
  <2>1. log \in Seq(Lines)
    BY DEF Init
  <2>2. head \in [state : {"absent", "good", "unreadable"}, count : Nat, last : Entries \cup {Genesis}]
    BY DEF Init, Absent
  <2>3. call \in [Entries -> CallStates] /\ prev \in [Entries -> Entries \cup {Genesis}]
    BY DEF Init, CallStates
  <2>4. faults \in 0..MaxFaults /\ kills \in 0..MaxKills /\ cuts \in 0..MaxCuts /\ count \in Nat
    BY AuditAssumption DEF Init
  <2> QED
    BY <2>1, <2>2, <2>3, <2>4 DEF Init, TypeOK
<1>2. Holder
  BY DEF Init, Holder
<1>3. WholeLines /\ Kept
  BY DEF Init, WholeLines, Kept
<1>4. Follows
  BY <1>1, ResumedLast DEF Init, Follows, Absent
<1> QED
  BY <1>1, <1>2, <1>3, <1>4 DEF Init, AuditInv

\* Every step leaves the state well typed and the lock with a call that uses it.
LEMMA TypeStep == TypeOK /\ Holder /\ [Next]_vars => TypeOK' /\ Holder'
<1> SUFFICES ASSUME TypeOK, Holder, [Next]_vars PROVE TypeOK' /\ Holder'
  OBVIOUS
<1> USE AuditAssumption DEF files, fields, calls, bounds, history
<1>1. ASSUME NEW e \in Entries, ReadLast(e) PROVE TypeOK' /\ Holder'
  <2>1. TypeOK'
    BY <1>1 DEF ReadLast, TypeOK, CallStates
  <2>2. Holder'
    BY <1>1 DEF ReadLast, TypeOK, Holder, InFlight
  <2> QED
    BY <2>1, <2>2
<1>2. ASSUME NEW e \in Entries, Write(e) PROVE TypeOK' /\ Holder'
  <2>1. Line(e) \in Lines
    BY DEF TypeOK, Line, Lines
  <2>2. log' \in Seq(Lines)
    BY <1>2, <2>1, AppendedType DEF Write, TypeOK
  <2>3. TypeOK'
    BY <1>2, <2>2 DEF Write, TypeOK, CallStates
  <2>4. mode = "up"
    BY <1>2 DEF Write, Holder, InFlight
  <2>5. Holder'
    BY <1>2, <2>4 DEF Write, TypeOK, Holder, InFlight
  <2> QED
    BY <2>3, <2>5
<1>3. ASSUME NEW e \in Entries, WriteFails(e) PROVE TypeOK' /\ Holder'
  <2>1. [hash |-> Torn, prev |-> prev[e]] \in Lines
    BY DEF TypeOK, Lines
  <2>2. log' \in Seq(Lines)
    BY <1>3, <2>1, AppendedType DEF WriteFails, TypeOK
  <2>3. faults' \in 0..MaxFaults /\ hurt' = TRUE
    BY <1>3 DEF WriteFails, Fault, TypeOK
  <2>4. TypeOK'
    BY <1>3, <2>2, <2>3 DEF WriteFails, Fault, TypeOK, CallStates
  <2>5. Holder'
    BY <1>3 DEF WriteFails, TypeOK, Holder, InFlight
  <2> QED
    BY <2>4, <2>5
<1>4. ASSUME NEW e \in Entries, Sync(e) PROVE TypeOK' /\ Holder'
  <2>1. TypeOK'
    BY <1>4 DEF Sync, TypeOK, CallStates, Unreadable
  <2>2. lock = e /\ mode = "up"
    BY <1>4 DEF Sync, Holder, InFlight
  <2>3. Holder'
    BY <1>4, <2>2 DEF Sync, TypeOK, Holder, InFlight
  <2> QED
    BY <2>1, <2>3
<1>5. ASSUME NEW e \in Entries, SyncFails(e) \/ HeadStays(e) \/ HeadFails(e) PROVE TypeOK' /\ Holder'
  <2>1. faults' \in 0..MaxFaults /\ hurt' = TRUE
    BY <1>5 DEF SyncFails, HeadStays, HeadFails, Fault, TypeOK
  <2>2. TypeOK'
    BY <1>5, <2>1 DEF SyncFails, HeadStays, HeadFails, Fault, TypeOK, CallStates
  <2>3. lock = e
    BY <1>5 DEF SyncFails, HeadStays, HeadFails, Holder
  <2>4. Holder'
    BY <1>5, <2>3 DEF SyncFails, HeadStays, HeadFails, TypeOK, Holder, InFlight
  <2> QED
    BY <2>2, <2>4
<1>6. ASSUME NEW e \in Entries, HeadWrite(e) PROVE TypeOK' /\ Holder'
  <2>1. TypeOK'
    BY <1>6 DEF HeadWrite, TypeOK, CallStates
  <2>2. lock = e
    BY <1>6 DEF HeadWrite, Holder
  <2>3. Holder'
    BY <1>6, <2>2 DEF HeadWrite, TypeOK, Holder, InFlight
  <2> QED
    BY <2>1, <2>3
<1>7. CASE Stop
  <2>1. log' \in Seq(Lines)
    <3>1. CASE UNCHANGED log
      BY <3>1 DEF TypeOK
    <3>2. CASE log # << >> /\ log' = [log EXCEPT ![Len(log)].hash = Torn]
      <4>1. Len(log) \in 1..Len(log) /\ log[Len(log)] \in Lines
        BY <3>2 DEF TypeOK
      <4>2. [log[Len(log)] EXCEPT !.hash = Torn] \in Lines
        BY <4>1 DEF Lines
      <4> QED
        BY <3>2, <4>1, <4>2 DEF TypeOK
    <3> QED
      BY <1>7, <3>1, <3>2 DEF Stop
  <2>2. kills' \in 0..MaxKills /\ faults' = faults /\ cuts' = cuts /\ hurt' \in BOOLEAN
    <3>1. CASE UNCHANGED <<bounds, hurt>>
      BY <3>1 DEF TypeOK
    <3>2. CASE kills < MaxKills /\ kills' = kills + 1 /\ hurt' = TRUE /\ UNCHANGED <<faults, cuts>>
      BY <3>2 DEF TypeOK
    <3> QED
      BY <1>7, <3>1, <3>2 DEF Stop
  <2>3. call' \in [Entries -> CallStates]
    BY <1>7 DEF Stop, TypeOK, CallStates
  <2>4. TypeOK'
    BY <1>7, <2>1, <2>2, <2>3 DEF Stop, TypeOK
  <2>5. \A e \in Entries : call'[e] \notin {"read", "written", "cleared"}
    BY <1>7 DEF Stop, InFlight
  <2>6. Holder'
    BY <1>7, <2>5 DEF Stop, Holder, InFlight
  <2> QED
    BY <2>4, <2>6
<1>8. CASE Cut
  <2>1. log' \in Seq(Lines)
    <3>1. PICK n \in 0..(Len(log) - 1) : log' = SubSeq(log, 1, n)
      BY <1>8 DEF Cut
    <3>2. Len(log) \in Nat /\ n \in Nat /\ n <= Len(log)
      BY DEF TypeOK
    <3> QED
      BY <3>1, <3>2 DEF TypeOK
  <2>2. TypeOK'
    BY <1>8, <2>1 DEF Cut, TypeOK
  <2>3. Holder'
    BY <1>8 DEF Cut, Holder, InFlight
  <2> QED
    BY <2>2, <2>3
<1>9. CASE Open
  <2>1. TypeOK'
    BY <1>9, ResumedLast DEF Open, TypeOK, Hashes
  <2>2. Holder'
    BY <1>9 DEF Open, Holder, InFlight
  <2> QED
    BY <2>1, <2>2
<1>10. CASE UNCHANGED vars
  BY <1>10 DEF vars, TypeOK, Holder, InFlight
<1> QED
  BY <1>1, <1>2, <1>3, <1>4, <1>5, <1>6, <1>7, <1>8, <1>9, <1>10 DEF Next

\* The part of the invariant that speaks of an unhurt log.
Sound == WholeLines /\ Follows /\ Kept

LEMMA SoundStep ==
  ASSUME AuditInv, [Next]_vars, TypeOK', Holder', ~hurt'
  PROVE  Sound' /\ (\A e \in acked' : call'[e] = "done") /\ mode' # "refused"
<1> USE AuditAssumption DEF files, fields, calls, bounds, history
<1>0. /\ TypeOK /\ Holder /\ (\A e \in acked : call[e] = "done")
      /\ ~hurt => WholeLines /\ Follows /\ Kept
      /\ mode = "refused" => hurt
  BY DEF AuditInv
<1>1. ~hurt
  BY DEF Next, vars, ReadLast, Write, WriteFails, Sync, SyncFails, HeadWrite, HeadStays, HeadFails,
     Fault, Stop, Cut, Open
<1>2. WholeLines /\ Follows /\ Kept /\ mode # "refused"
  BY <1>0, <1>1
<1>3. \A i \in DOMAIN log : log[i].hash \in Entries /\ log[i].hash # Torn
  BY <1>2 DEF WholeLines
<1>4. Len(log) \in Nat /\ DOMAIN log = 1..Len(log)
  BY <1>0 DEF TypeOK
<1>5. log # << >> => Len(log) \in DOMAIN log
  BY <1>0 DEF TypeOK
<1>6. ASSUME NEW e \in Entries, ReadLast(e) PROVE Sound' /\ (\A d \in acked' : call'[d] = "done")
  <2>1. /\ call' = [call EXCEPT ![e] = "read"] /\ call[e] = "idle"
        /\ UNCHANGED <<mode, log, head, last, count, lock, acked>>
    BY <1>6 DEF ReadLast
  <2>2. \A d \in Entries : call[d] # "idle" => call'[d] = call[d]
    BY <2>1, <1>0 DEF TypeOK
  <2>3. \A d \in Entries : call'[d] = "done" => call[d] = "done"
    BY <2>1, <1>0 DEF TypeOK
  <2>4. WholeLines'
    BY <2>1, <2>2, <1>2 DEF WholeLines
  <2>5. Kept'
    BY <2>1, <2>3, <1>2 DEF Kept
  <2>6. lock # Nobody => call'[lock] = call[lock]
    BY <2>2, <1>0 DEF Holder, TypeOK
  <2>7. Follows'
    BY <2>1, <2>6, <1>2 DEF Follows, Resumed, Parses
  <2>8. \A d \in acked : d \in Entries /\ call'[d] = "done"
    BY <2>2, <1>0 DEF TypeOK
  <2> QED
    BY <2>1, <2>4, <2>5, <2>7, <2>8 DEF Sound
<1>7. ASSUME NEW e \in Entries, Write(e) PROVE Sound' /\ (\A d \in acked' : call'[d] = "done")
  <2>1. /\ call' = [call EXCEPT ![e] = "written"] /\ call[e] = "read" /\ lock = Nobody /\ lock' = e
        /\ log' = Appended(log, Line(e))
        /\ UNCHANGED <<mode, head, last, count, acked>>
    BY <1>7 DEF Write
  <2>2. Line(e) \in Lines /\ Line(e).hash = e
    BY <1>0 DEF TypeOK, Line, Lines
  <2>3. log # << >> => log[Len(log)].hash # Torn
    BY <1>3, <1>5
  <2>4. /\ Len(log') = Len(log) + 1
        /\ DOMAIN log' = 1..(Len(log) + 1)
        /\ log'[Len(log) + 1] = Line(e)
        /\ \A i \in 1..Len(log) : log'[i] = log[i]
        /\ log' # << >>
    BY <2>1, <2>2, <2>3, <1>0, AppendedLine DEF TypeOK
  <2>5. \A i \in 1..(Len(log) + 1) : i \in 1..Len(log) \/ i = Len(log) + 1
    BY <1>4
  <2>6. \A d \in Entries : d # e => call'[d] = call[d]
    BY <2>1, <1>0 DEF TypeOK
  <2>7. call'[e] = "written"
    BY <2>1, <1>0 DEF TypeOK
  <2>8. \A i \in 1..Len(log) : log[i].hash # e
    BY <2>1, <1>2, <1>4 DEF WholeLines
  <2>9. WholeLines'
    <3>1. \A i \in DOMAIN log' : log'[i].hash \in Entries /\ call'[log'[i].hash] \in {"written", "cleared", "done"}
      <4> TAKE i \in DOMAIN log'
      <4>1. CASE i \in 1..Len(log)
        BY <4>1, <2>4, <2>6, <2>8, <1>2, <1>4 DEF WholeLines
      <4>2. CASE i = Len(log) + 1
        BY <4>2, <2>2, <2>4, <2>7
      <4> QED
        BY <4>1, <4>2, <2>4, <2>5
    <3>2. \A i, k \in DOMAIN log' : log'[i].hash = log'[k].hash => i = k
      <4> SUFFICES ASSUME NEW i \in DOMAIN log', NEW k \in DOMAIN log', log'[i].hash = log'[k].hash
                   PROVE  i = k
        OBVIOUS
      <4>1. CASE i \in 1..Len(log) /\ k \in 1..Len(log)
        BY <4>1, <2>4, <1>2, <1>4 DEF WholeLines
      <4>2. CASE i = Len(log) + 1 /\ k = Len(log) + 1
        BY <4>2
      <4>3. CASE i \in 1..Len(log) /\ k = Len(log) + 1
        BY <4>3, <2>2, <2>4, <2>8
      <4>4. CASE i = Len(log) + 1 /\ k \in 1..Len(log)
        BY <4>4, <2>2, <2>4, <2>8
      <4> QED
        BY <4>1, <4>2, <4>3, <4>4, <2>4, <2>5
    <3> QED
      BY <3>1, <3>2 DEF WholeLines
  <2>10. Kept'
    <3>1. \A d \in Entries : call'[d] = "done" => call[d] = "done"
      BY <2>6, <2>7
    <3>2. \A i \in DOMAIN log : i \in DOMAIN log' /\ log'[i] = log[i]
      BY <2>4, <1>4
    <3> QED
      BY <3>1, <3>2, <1>2 DEF Kept
  <2>11. Follows'
    <3>1. mode = "up" /\ Len(log) = count
      <4>1. mode = "up"
        BY <2>1, <1>0 DEF Holder, InFlight
      <4>2. Resumed = [last |-> last, count |-> count]
        BY <2>1, <4>1, <1>2 DEF Follows
      <4>3. CASE log = << >>
        BY <4>1, <4>2, <4>3, <1>0, ResumedLast
      <4>4. CASE log # << >>
        BY <4>1, <4>2, <4>4, <1>0, <1>3, <1>5, ResumedLast
      <4> QED
        BY <4>3, <4>4
    <3> QED
      BY <3>1, <2>1, <2>2, <2>4, <2>7 DEF Follows
  <2>12. \A d \in acked : d \in Entries /\ call'[d] = "done"
    BY <2>1, <2>6, <1>0 DEF TypeOK
  <2> QED
    BY <2>1, <2>9, <2>10, <2>11, <2>12 DEF Sound
<1>8. ASSUME NEW e \in Entries, Sync(e) PROVE Sound' /\ (\A d \in acked' : call'[d] = "done")
  <2>1. /\ call' = [call EXCEPT ![e] = "cleared"] /\ call[e] = "written"
        /\ last' = e /\ count' = count + 1
        /\ UNCHANGED <<mode, log, lock, acked>>
    BY <1>8 DEF Sync
  <2>2. lock = e /\ e # Nobody
    BY <2>1, <1>0 DEF Holder
  <2>3. /\ \A d \in Entries : d # e => call'[d] = call[d]
        /\ call'[e] = "cleared"
    BY <2>1, <1>0 DEF TypeOK
  <2>4. WholeLines' /\ Kept'
    BY <2>1, <2>3, <1>2 DEF WholeLines, Kept
  <2>5. Follows'
    BY <2>1, <2>2, <2>3, <1>2 DEF Follows
  <2>6. \A d \in acked : d \in Entries /\ call'[d] = "done"
    BY <2>1, <2>3, <1>0 DEF TypeOK
  <2> QED
    BY <2>1, <2>4, <2>5, <2>6 DEF Sound
<1>9. ASSUME NEW e \in Entries, HeadWrite(e) PROVE Sound' /\ (\A d \in acked' : call'[d] = "done")
  <2>1. /\ call' = [call EXCEPT ![e] = "done"] /\ call[e] = "cleared"
        /\ head' = [state |-> "good", count |-> count, last |-> last]
        /\ lock' = Nobody /\ acked' = acked \cup {e}
        /\ UNCHANGED <<mode, log, last, count>>
    BY <1>9 DEF HeadWrite
  <2>2. lock = e /\ e # Nobody
    BY <2>1, <1>0 DEF Holder
  <2>3. log # << >> /\ log[Len(log)].hash = e /\ count = Len(log) /\ last = e
    BY <2>1, <2>2, <1>2 DEF Follows
  <2>4. Resumed.last = last /\ Resumed.count = count /\ Resumed = [last |-> last, count |-> count]
    BY <2>3, <1>0, ResumedLast
  <2>5. Resumed' = Resumed
    BY <2>1 DEF Resumed, Parses
  <2>6. /\ \A d \in Entries : d # e => call'[d] = call[d]
        /\ call'[e] = "done"
    BY <2>1, <1>0 DEF TypeOK
  <2>7. WholeLines'
    BY <2>1, <2>6, <1>2 DEF WholeLines
  <2>8. Kept'
    BY <2>1, <2>3, <2>6, <1>2, <1>5 DEF Kept
  <2>9. head'.state = "good" /\ head'.count = count /\ head'.last = last
    BY <2>1
  <2>10. Follows'
    BY <2>1, <2>4, <2>5, <2>9 DEF Follows
  <2>11. \A d \in acked' : d \in Entries /\ call'[d] = "done"
    BY <2>1, <2>6, <1>0 DEF TypeOK
  <2> QED
    BY <2>7, <2>8, <2>10, <2>11 DEF Sound
<1>10. ASSUME Stop PROVE Sound' /\ (\A d \in acked' : call'[d] = "done")
  <2>1. InFlight = {}
    BY <1>10 DEF Stop
  <2>2. lock = Nobody
    BY <2>1, <1>0 DEF Holder, InFlight, TypeOK
  <2>3. /\ UNCHANGED <<log, head, last, count, acked>> /\ lock' = Nobody /\ mode' = "down"
    BY <1>10, <2>2 DEF Stop
  <2>4. \A e \in Entries : call'[e] = call[e]
    BY <1>10, <2>1 DEF Stop
  <2>5. WholeLines' /\ Kept'
    BY <2>3, <2>4, <1>2 DEF WholeLines, Kept
  <2>6. Follows'
    BY <2>2, <2>3, <1>2 DEF Follows, Resumed, Parses
  <2>7. \A d \in acked : d \in Entries /\ call'[d] = "done"
    BY <2>4, <1>0 DEF TypeOK
  <2> QED
    BY <2>3, <2>5, <2>6, <2>7 DEF Sound
<1>11. ASSUME Open PROVE Sound' /\ (\A d \in acked' : call'[d] = "done") /\ mode' = "up"
  <2>1. /\ UNCHANGED <<log, head, call, lock, acked>> /\ mode = "down"
        /\ last' = Resumed.last /\ count' = Resumed.count
        /\ mode' = IF Agrees(head, Resumed) THEN "up" ELSE "refused"
    BY <1>11 DEF Open
  <2>2. lock = Nobody
    BY <2>1, <1>0 DEF Holder
  <2>3. mode' = "up"
    BY <2>1, <2>2, <1>2 DEF Follows, Agrees
  <2>4. Resumed' = Resumed
    BY <2>1 DEF Resumed, Parses
  <2>5. WholeLines' /\ Kept'
    BY <2>1, <1>2 DEF WholeLines, Kept
  <2>6. Resumed' = [last |-> last', count |-> count']
    BY <2>1, <2>4, <1>0, ResumedLast
  <2>7. Follows'
    BY <2>1, <2>2, <2>4, <2>6, <1>2 DEF Follows
  <2> QED
    BY <2>1, <2>3, <2>5, <2>7, <1>0 DEF Sound
<1>12. ASSUME UNCHANGED vars PROVE Sound' /\ (\A d \in acked' : call'[d] = "done")
  BY <1>12, <1>0, <1>2 DEF vars, Sound, WholeLines, Follows, Kept, Resumed, Parses
<1>13. mode' # "refused"
  BY <1>2, <1>11 DEF Next, vars, ReadLast, Write, WriteFails, Sync, SyncFails, HeadWrite,
     HeadStays, HeadFails, Stop, Cut
<1>14. ~Cut /\ \A e \in Entries : ~WriteFails(e) /\ ~SyncFails(e) /\ ~HeadStays(e) /\ ~HeadFails(e)
  BY DEF Cut, WriteFails, SyncFails, HeadStays, HeadFails, Fault
<1> QED
  BY <1>6, <1>7, <1>8, <1>9, <1>10, <1>11, <1>12, <1>13, <1>14 DEF Next

\* A call whose success was reported stays reported.
LEMMA AckedStep ==
  ASSUME TypeOK, Holder, [Next]_vars, \A e \in acked : call[e] = "done"
  PROVE  \A e \in acked' : call'[e] = "done"
<1> USE DEF files, fields, calls, bounds, history
<1>1. ASSUME NEW e \in Entries,
             \/ ReadLast(e) \/ Write(e) \/ WriteFails(e) \/ Sync(e) \/ SyncFails(e)
             \/ HeadStays(e) \/ HeadFails(e)
      PROVE  \A d \in acked' : call'[d] = "done"
  BY <1>1 DEF TypeOK, ReadLast, Write, WriteFails, Sync, SyncFails, HeadStays, HeadFails
<1>2. ASSUME NEW e \in Entries, HeadWrite(e) PROVE \A d \in acked' : call'[d] = "done"
  BY <1>2 DEF TypeOK, HeadWrite
<1>3. CASE Stop
  BY <1>3 DEF TypeOK, Stop, InFlight
<1>4. CASE Cut \/ Open \/ UNCHANGED vars
  BY <1>4 DEF Cut, Open, vars
<1> QED
  BY <1>1, <1>2, <1>3, <1>4 DEF Next

\* Every step preserves the invariant.
LEMMA AuditInvStep == AuditInv /\ [Next]_vars => AuditInv'
<1> SUFFICES ASSUME AuditInv, [Next]_vars PROVE AuditInv'
  OBVIOUS
<1>1. TypeOK' /\ Holder'
  BY TypeStep DEF AuditInv
<1>2. \A e \in acked' : call'[e] = "done"
  BY AckedStep DEF AuditInv
<1>3. ~hurt' => Sound' /\ mode' # "refused"
  BY <1>1, SoundStep
<1> QED
  BY <1>1, <1>2, <1>3 DEF AuditInv, Sound

-----------------------------------------------------------------------------
(***************************************************************************)
(* The theorems.                                                           *)
(***************************************************************************)

\* The inductive invariant holds in every reachable state of the audit log.
THEOREM AuditInvariant == Spec => []AuditInv
BY AuditInvInit, AuditInvStep, PTL DEF Spec

\* Any interleaving of calls of Log leaves file and sidecar in agreement: the
\* next Open refuses only what a failure, a kill or a cut has touched.
THEOREM AuditCleanRestart == Spec => []CleanRestart
<1>1. AuditInv => CleanRestart
  BY DEF AuditInv, CleanRestart, Follows, Agrees
<1> QED
  BY <1>1, AuditInvariant, PTL

\* An entry whose Log succeeded is in the file, readable and once.
THEOREM AuditAckedKept == Spec => []AckedKept
<1>1. AuditInv => AckedKept
  <2> SUFFICES ASSUME AuditInv, ~hurt, NEW e \in acked
               PROVE  \E i \in DOMAIN log :
                        log[i].hash = e /\ \A k \in DOMAIN log : log[k].hash = e => k = i
    BY DEF AckedKept
  <2>1. e \in Entries /\ call[e] = "done"
    BY DEF AuditInv, TypeOK
  <2>2. PICK i \in DOMAIN log : log[i].hash = e
    BY <2>1 DEF AuditInv, Kept
  <2>3. \A k \in DOMAIN log : log[k].hash = e => k = i
    BY <2>2 DEF AuditInv, WholeLines
  <2> QED
    BY <2>2, <2>3
<1> QED
  BY <1>1, AuditInvariant, PTL

-----------------------------------------------------------------------------
(***************************************************************************)
(* The chain of calls that do not overlap, and lines removed from the end. *)
(***************************************************************************)

\* A call in flight belongs to a process that is up.
LEMMA FlightIsUp ==
  ASSUME Holder, NEW e \in Entries, call[e] \in {"read", "written", "cleared"}
  PROVE  mode = "up"
BY DEF Holder, InFlight

LEMMA ChainInvInit == Init => ChainInv
<1> SUFFICES ASSUME Init PROVE ChainInv
  OBVIOUS
<1>1. Serial
  BY DEF Init, Serial, InFlight
<1>2. HeadNames /\ LineMissing
  BY DEF Init, HeadNames, LineMissing, Absent
<1> QED
  BY <1>1, <1>2, AuditInvInit DEF ChainInv

\* Nothing but the call that holds the lock moves the field or fills the sidecar.
LEMMA HeadNamesStep ==
  ASSUME TypeOK, Holder, HeadNames, [Next]_vars
  PROVE  HeadNames'
<1> USE AuditAssumption DEF files, fields, calls, bounds, history
<1>1. ASSUME NEW e \in Entries,
             ReadLast(e) \/ Write(e) \/ WriteFails(e) \/ SyncFails(e) \/ HeadFails(e)
      PROVE  HeadNames'
  <2>1. /\ UNCHANGED <<head, last>>
        /\ \A d \in Entries : call'[d] = "cleared" => call[d] = "cleared"
    BY <1>1 DEF ReadLast, Write, WriteFails, SyncFails, HeadFails, TypeOK
  <2> QED
    BY <2>1 DEF HeadNames
<1>2. ASSUME NEW e \in Entries, Sync(e) PROVE HeadNames'
  <2>1. /\ call[e] = "written" /\ last' = e /\ head' = Unreadable
        /\ call' = [call EXCEPT ![e] = "cleared"]
    BY <1>2 DEF Sync
  <2>2. \A d \in Entries : call[d] = "cleared" => d = e
    BY <2>1 DEF Holder
  <2>3. \A d \in Entries : call'[d] = "cleared" => d = e
    BY <2>1, <2>2 DEF TypeOK
  <2> QED
    BY <2>1, <2>3 DEF HeadNames, Unreadable
<1>3. ASSUME NEW e \in Entries, HeadWrite(e) PROVE HeadNames'
  <2>1. /\ call[e] = "cleared" /\ last' = last /\ call' = [call EXCEPT ![e] = "done"]
        /\ head' = [state |-> "good", count |-> count, last |-> last]
    BY <1>3 DEF HeadWrite
  <2>2. last = e /\ head'.last = e
    BY <2>1 DEF HeadNames
  <2>3. \A d \in Entries : call'[d] = "cleared" => call[d] = "cleared"
    BY <2>1 DEF TypeOK
  <2> QED
    BY <2>1, <2>2, <2>3 DEF HeadNames
<1>4. CASE Stop
  <2>1. UNCHANGED <<head, last>> /\ \A d \in Entries : call'[d] # "cleared"
    BY <1>4 DEF Stop, InFlight
  <2> QED
    BY <2>1 DEF HeadNames
<1>5. CASE Cut \/ UNCHANGED vars
  BY <1>5 DEF Cut, vars, HeadNames
<1>6. CASE Open
  <2>1. UNCHANGED <<head, call>> /\ mode = "down"
    BY <1>6 DEF Open
  <2>2. \A d \in Entries : call[d] # "cleared"
    BY <2>1, FlightIsUp
  <2> QED
    BY <2>1, <2>2 DEF HeadNames
<1>7. ASSUME NEW e \in Entries, HeadStays(e) PROVE HeadNames'
  <2>1. call[e] = "written" /\ head' = head /\ call' = [call EXCEPT ![e] = "failed"]
    BY <1>7 DEF HeadStays
  <2>2. \A d \in Entries : call'[d] # "cleared"
    BY <2>1 DEF Holder, TypeOK
  <2> QED
    BY <2>1, <2>2 DEF HeadNames
<1> QED
  BY <1>1, <1>2, <1>3, <1>4, <1>5, <1>6, <1>7 DEF Next

\* Once the line the sidecar names is gone no process comes up to write another.
LEMMA LineMissingStep ==
  ASSUME TypeOK, Holder, HeadNames, LineMissing, [Next]_vars
  PROVE  LineMissing'
<1> USE AuditAssumption DEF files, fields, calls, bounds, history
<1>1. ASSUME NEW e \in Entries,
             \/ ReadLast(e) \/ Write(e) \/ WriteFails(e) \/ Sync(e) \/ SyncFails(e)
             \/ HeadWrite(e) \/ HeadStays(e) \/ HeadFails(e)
      PROVE  LineMissing'
  <2>1. mode = "up" /\ cutSeen' = cutSeen
    <3>1. mode = "up" \/ call[e] \in {"read", "written", "cleared"}
      BY <1>1 DEF ReadLast, Write, WriteFails, Sync, SyncFails, HeadWrite, HeadStays, HeadFails
    <3>2. cutSeen' = cutSeen
      BY <1>1 DEF ReadLast, Write, WriteFails, Sync, SyncFails, HeadWrite, HeadStays, HeadFails
    <3> QED
      BY <3>1, <3>2, FlightIsUp
  <2> QED
    BY <2>1 DEF LineMissing
<1>2. CASE Stop
  BY <1>2 DEF Stop, LineMissing
<1>3. CASE Cut
  <2>1. PICK n \in 0..(Len(log) - 1) : log' = SubSeq(log, 1, n)
    BY <1>3 DEF Cut
  <2>2. /\ mode = "down" /\ UNCHANGED <<mode, head>>
        /\ cutSeen' => \/ cutSeen
                       \/ head.state = "good" /\ head.last \notin {log'[i].hash : i \in DOMAIN log'}
    BY <1>3 DEF Cut
  <2>3. \A i \in DOMAIN log' : i \in DOMAIN log /\ log'[i] = log[i]
    <3>1. Len(log) \in Nat /\ DOMAIN log = 1..Len(log) /\ n \in Nat /\ n <= Len(log)
      BY DEF TypeOK
    <3>2. DOMAIN log' = 1..n /\ \A i \in 1..n : log'[i] = log[i]
      BY <2>1, <3>1 DEF TypeOK
    <3> QED
      BY <3>1, <3>2
  <2>4. CASE cutSeen
    BY <2>2, <2>3, <2>4 DEF LineMissing
  <2>5. CASE cutSeen' /\ ~cutSeen
    BY <2>2, <2>5 DEF LineMissing
  <2> QED
    BY <2>4, <2>5 DEF LineMissing
<1>4. CASE Open
  <2> SUFFICES ASSUME cutSeen PROVE LineMissing'
    BY <1>4 DEF Open, LineMissing
  <2>1. UNCHANGED <<log, head, cutSeen>> /\ mode' = IF Agrees(head, Resumed) THEN "up" ELSE "refused"
    BY <1>4 DEF Open
  <2>2. head.state = "good" /\ head.last \in Entries /\ \A i \in DOMAIN log : log[i].hash # head.last
    BY DEF LineMissing, HeadNames
  <2>3. Resumed.last # head.last
    <3>1. CASE log # << >> /\ Parses(log[Len(log)])
      <4>1. Len(log) \in DOMAIN log
        BY <3>1 DEF TypeOK
      <4> QED
        BY <3>1, <4>1, <2>2 DEF Resumed
    <3>2. CASE ~(log # << >> /\ Parses(log[Len(log)]))
      BY <3>2, <2>2 DEF Resumed
    <3> QED
      BY <3>1, <3>2
  <2> QED
    BY <2>1, <2>2, <2>3 DEF LineMissing, Agrees
<1>5. CASE UNCHANGED vars
  BY <1>5 DEF vars, LineMissing
<1> QED
  BY <1>1, <1>2, <1>3, <1>4, <1>5 DEF Next

\* A call that nothing overlaps writes a line that continues the last one.
LEMMA SerialStep ==
  ASSUME AuditInv, ~hurt /\ ~overlap => Serial, [Next]_vars, ~hurt', ~overlap'
  PROVE  Serial'
<1> USE AuditAssumption DEF files, fields, calls, bounds, history
<1>1. ~hurt
  BY DEF Next, vars, ReadLast, Write, WriteFails, Sync, SyncFails, HeadWrite, HeadStays, HeadFails,
     Fault, Stop, Cut, Open
<1>2. ~overlap
  BY DEF Next, vars, ReadLast, Write, WriteFails, Sync, SyncFails, HeadWrite, HeadStays, HeadFails,
     Stop, Cut, Open
<1>3. Serial /\ TypeOK /\ Holder /\ WholeLines /\ Follows
  BY <1>1, <1>2 DEF AuditInv
<1>4. \A i \in DOMAIN log : log[i].prev = Before(i)
  BY <1>3 DEF Serial
<1>5. ASSUME NEW e \in Entries, ReadLast(e) PROVE Serial'
  <2>1. /\ call' = [call EXCEPT ![e] = "read"] /\ prev' = [prev EXCEPT ![e] = last]
        /\ UNCHANGED <<log, last>> /\ InFlight = {}
    BY <1>5 DEF ReadLast
  <2>2. \A d \in Entries : call'[d] \in {"read", "written", "cleared"} => d = e
    BY <2>1, <1>3 DEF TypeOK, InFlight
  <2>3. prev'[e] = last
    BY <2>1, <1>3 DEF TypeOK
  <2> QED
    BY <2>1, <2>2, <2>3, <1>4 DEF Serial, InFlight, Before
<1>6. ASSUME NEW e \in Entries, Write(e) PROVE Serial'
  <2>1. /\ call[e] = "read" /\ lock = Nobody /\ call' = [call EXCEPT ![e] = "written"]
        /\ log' = Appended(log, Line(e)) /\ UNCHANGED <<last, prev>>
    BY <1>6 DEF Write
  <2>2. \A d \in Entries : call[d] \in {"read", "written", "cleared"} => d = e
    BY <2>1, <1>3 DEF Serial, InFlight
  <2>3. \A d \in Entries : call'[d] \in {"read", "written", "cleared"} => d = e
    BY <2>1, <2>2, <1>3 DEF TypeOK
  <2>4. call'[e] = "written"
    BY <2>1, <1>3 DEF TypeOK
  <2>5. mode = "up"
    BY <2>1, <1>3, FlightIsUp
  <2>6. prev[e] = last /\ Resumed.last = last
    BY <2>1, <2>5, <1>3 DEF Serial, Follows
  <2>7. Line(e) \in Lines /\ Line(e).prev = last
    BY <2>6, <1>3 DEF TypeOK, Line, Lines
  <2>8. \A i \in DOMAIN log : log[i].hash \in Entries /\ log[i].hash # Torn
    BY <1>3 DEF WholeLines
  <2>9. /\ Len(log) \in Nat /\ DOMAIN log = 1..Len(log)
        /\ log # << >> => Len(log) \in DOMAIN log
    BY <1>3 DEF TypeOK
  <2>10. /\ DOMAIN log' = 1..(Len(log) + 1)
         /\ log'[Len(log) + 1] = Line(e)
         /\ \A i \in 1..Len(log) : log'[i] = log[i]
    <3>1. log # << >> => log[Len(log)].hash # Torn
      BY <2>8, <2>9
    <3>2. log \in Seq(Lines)
      BY <1>3 DEF TypeOK
    <3> QED
      BY <2>1, <2>7, <3>1, <3>2, AppendedLine
  <2>11. ASSUME NEW i \in DOMAIN log' PROVE log'[i].prev = Before(i)'
    <3>1. CASE i \in 1..Len(log)
      <4>1. log'[i].prev = Before(i)
        BY <3>1, <2>9, <2>10, <1>4
      <4>2. i # 1 => i - 1 \in 1..Len(log)
        BY <3>1, <2>9
      <4> QED
        BY <4>1, <4>2, <2>10 DEF Before
    <3>2. CASE i = Len(log) + 1
      <4>1. log'[i].prev = Resumed.last
        BY <3>2, <2>6, <2>7, <2>10
      <4>2. CASE log = << >>
        BY <4>1, <4>2, <3>2, <1>3, ResumedLast DEF Before
      <4>3. CASE log # << >>
        <5>1. Resumed.last = log[Len(log)].hash
          BY <4>3, <2>8, <2>9, <1>3, ResumedLast
        <5>2. Len(log) \in 1..Len(log) /\ i # 1 /\ i - 1 = Len(log)
          BY <4>3, <3>2, <2>9
        <5> QED
          BY <4>1, <5>1, <5>2, <2>10 DEF Before
      <4> QED
        BY <4>2, <4>3
    <3> QED
      BY <3>1, <3>2, <2>9, <2>10
  <2>12. (\A d, f \in InFlight : d = f)'
    BY <2>3 DEF InFlight
  <2> QED
    BY <2>3, <2>4, <2>11, <2>12 DEF Serial
<1>7. ASSUME NEW e \in Entries, Sync(e) \/ HeadWrite(e) PROVE Serial'
  <2>1. /\ call[e] \in {"written", "cleared"} /\ UNCHANGED <<log, prev>>
        /\ call' = [call EXCEPT ![e] = "cleared"] \/ call' = [call EXCEPT ![e] = "done"]
    BY <1>7 DEF Sync, HeadWrite
  <2>2. \A d \in Entries : call[d] \in {"read", "written", "cleared"} => d = e
    BY <2>1, <1>3 DEF Serial, InFlight
  <2>3. \A d \in Entries : call'[d] \in {"read", "written", "cleared"} => d = e /\ call'[d] # "read"
    BY <2>1, <2>2, <1>3 DEF TypeOK
  <2>4. (\A d, f \in InFlight : d = f)' /\ \A d \in Entries : call'[d] # "read"
    BY <2>3 DEF InFlight
  <2> QED
    BY <2>1, <2>4, <1>4 DEF Serial, Before
<1>8. CASE Stop
  <2>1. InFlight = {}
    BY <1>1, <1>8 DEF Stop
  <2>2. lock = Nobody
    BY <2>1, <1>3 DEF Holder, InFlight, TypeOK
  <2>3. UNCHANGED log
    BY <1>8, <2>2 DEF Stop
  <2>4. \A d \in Entries : call'[d] \notin {"read", "written", "cleared"}
    BY <1>8 DEF Stop, InFlight
  <2> QED
    BY <2>3, <2>4, <1>4 DEF Serial, InFlight, Before
<1>9. CASE Open
  <2>1. UNCHANGED <<log, call>> /\ mode = "down"
    BY <1>9 DEF Open
  <2>2. \A d \in Entries : call[d] \notin {"read", "written", "cleared"}
    BY <2>1, <1>3, FlightIsUp
  <2> QED
    BY <2>1, <2>2, <1>4 DEF Serial, InFlight, Before
<1>10. CASE UNCHANGED vars
  BY <1>10, <1>3 DEF vars, Serial, InFlight, Before
<1>11. ~Cut /\ \A e \in Entries : ~WriteFails(e) /\ ~SyncFails(e) /\ ~HeadStays(e) /\ ~HeadFails(e)
  BY DEF Cut, WriteFails, SyncFails, HeadStays, HeadFails, Fault
<1> QED
  BY <1>5, <1>6, <1>7, <1>8, <1>9, <1>10, <1>11 DEF Next

\* AuditInv with the chain and the missing line is inductive.
THEOREM AuditChain == Spec => []ChainInv
<1>1. ChainInv /\ [Next]_vars => ChainInv'
  <2> SUFFICES ASSUME ChainInv, [Next]_vars PROVE ChainInv'
    OBVIOUS
  <2>1. AuditInv'
    BY AuditInvStep DEF ChainInv
  <2>2. TypeOK /\ Holder
    BY DEF ChainInv, AuditInv
  <2>3. HeadNames' /\ LineMissing'
    BY <2>2, HeadNamesStep, LineMissingStep DEF ChainInv
  <2>4. ~hurt' /\ ~overlap' => Serial'
    BY SerialStep DEF ChainInv
  <2> QED
    BY <2>1, <2>3, <2>4 DEF ChainInv
<1> QED
  BY <1>1, ChainInvInit, PTL DEF Spec

\* Calls of Log that do not overlap leave a chain that Verify accepts, for any
\* number of calls, clean stops and starts.
THEOREM AuditSerialVerifies == Spec => []SerialVerifies
<1>1. ChainInv => SerialVerifies
  <2> SUFFICES ASSUME ChainInv, ~hurt, ~overlap, lock = Nobody PROVE Verifies
    BY DEF SerialVerifies
  <2>1. TypeOK /\ Serial /\ WholeLines /\ Follows /\ HeadNames
    BY DEF ChainInv, AuditInv
  <2>2. \A i \in DOMAIN log : Parses(log[i]) /\ log[i].prev = Before(i)
    BY <2>1 DEF Serial, WholeLines, Parses
  <2>3. ASSUME head.state = "good"
        PROVE  head.count = Len(log) /\ log # << >> /\ head.last = log[Len(log)].hash
    <3>1. head.count = Resumed.count /\ head.last = Resumed.last /\ head.last \in Entries
      BY <2>1, <2>3 DEF Follows, HeadNames
    <3>2. log # << >>
      BY <3>1, <2>1, ResumedLast, AuditAssumption
    <3>3. log[Len(log)].hash \in Entries
      BY <3>2, <2>1 DEF WholeLines, TypeOK
    <3> QED
      BY <3>1, <3>2, <3>3, <2>1, ResumedLast
  <2> QED
    BY <2>2, <2>3 DEF Verifies
<1> QED
  BY <1>1, AuditChain, PTL

\* ".head detects truncation": once the line the sidecar names has been removed no
\* process comes up on the file and Verify does not accept it, whatever failures
\* and kills came before and whatever is removed after.
THEOREM AuditCutIsRefused == Spec => []CutIsRefused
<1>1. ChainInv => CutIsRefused
  <2> SUFFICES ASSUME ChainInv, cutSeen PROVE mode # "up" /\ ~Verifies
    BY DEF CutIsRefused
  <2>1. /\ mode # "up" /\ head.state = "good"
        /\ \A i \in DOMAIN log : log[i].hash # head.last
    BY DEF ChainInv, LineMissing
  <2>2. log # << >> => Len(log) \in DOMAIN log
    BY DEF ChainInv, AuditInv, TypeOK
  <2> QED
    BY <2>1, <2>2 DEF Verifies
<1> QED
  BY <1>1, AuditChain, PTL
=============================================================================
