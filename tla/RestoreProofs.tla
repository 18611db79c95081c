---------------------------- MODULE RestoreProofs ----------------------------
(***************************************************************************)
(* Machine-checked proofs about RestoreReplace, for every number of runs,  *)
(* kills, failing persists, failing steps and cancels.                     *)
(***************************************************************************)
EXTENDS RestoreReplace, TLAPS

\* The fields of a stored record.
LEMMA RecordFields ==
  ASSUME NEW r \in Records
  PROVE  r.state \in States /\ r.step \in 0..4
BY RestoreAssumption DEF Records

\* The record Run stores, and the one before any run.
LEMMA FirstRecord ==
  /\ NoRecord \in Records
  /\ [state |-> "running", step |-> 0] \in Records
BY RestoreAssumption DEF Records, NoRecord, States

\* A record with another state keeps its step.
LEMMA WithState ==
  ASSUME NEW r \in Records, NEW s \in States
  PROVE  /\ [r EXCEPT !.state = s] \in Records
         /\ [r EXCEPT !.state = s].state = s
         /\ [r EXCEPT !.state = s].step = r.step
BY DEF Records

\* A record with another step keeps its state.
LEMMA WithStep ==
  ASSUME NEW r \in Records, NEW i \in 0..4
  PROVE  /\ [r EXCEPT !.step = i] \in Records
         /\ [r EXCEPT !.step = i].state = r.state
         /\ [r EXCEPT !.step = i].step = i
BY RestoreAssumption DEF Records

\* PutWorkflow: memory has the new record, state.json the new or, after a
\* fault, the old one.
LEMMA PutEffect ==
  ASSUME TypeOK, NEW w \in Records, Put(w)
  PROVE  /\ wf' = w /\ wf' \in Records
         /\ saved' \in {saved, w} /\ saved' \in Records
         /\ faults' \in 0..MaxFaults
         /\ faults' = 0 => faults = 0 /\ saved' = w
<1>1. wf' = w /\ saved' \in {saved, w} /\ saved \in Records
  BY DEF Put, TypeOK, EngineTypeOK
<1>2. faults' \in 0..MaxFaults /\ (faults' = 0 => faults = 0 /\ saved' = w)
  BY WorkflowAssumption DEF Put, TypeOK, EngineTypeOK
<1> QED
  BY <1>1, <1>2

-----------------------------------------------------------------------------
LEMMA RestoreInvInit == Init => RestoreInv
<1> SUFFICES ASSUME Init PROVE RestoreInv
  OBVIOUS
<1> USE WorkflowAssumption, RestoreAssumption
<1>1. TypeOK
  <2>1. wf \in Records /\ saved \in Records
    BY FirstRecord DEF Init, EngineInit
  <2>2. /\ compErr \in BOOLEAN /\ cancelled \in BOOLEAN /\ byJob \in BOOLEAN
        /\ writing \in BOOLEAN /\ undone \in BOOLEAN
    BY DEF Init, EngineInit
  <2>3. /\ at \in 0..N /\ runs \in 0..MaxRuns /\ faults \in 0..MaxFaults
        /\ kills \in 0..MaxKills /\ fails \in 0..MaxFails
    BY DEF Init, EngineInit
  <2>4. /\ pc \in {"idle", "loop", "do", "failing", "comp", "ended", "down"}
        /\ file \in Contents /\ pre \in Contents
    BY DEF Init, EngineInit, Contents
  <2> QED
    BY <2>1, <2>2, <2>3, <2>4 DEF TypeOK, EngineTypeOK
<1>2. /\ pc = "idle" /\ wf.step = 0 /\ wf = NoRecord /\ wf.state = "none" /\ saved = wf
      /\ file = "orig" /\ writing = FALSE
  BY DEF Init, EngineInit, NoRecord
<1> QED
  BY <1>1, <1>2 DEF RestoreInv, StepLags, WritingIsInside, ReplacedIsNew, PastReplace,
     SnapshotHolds, PutBackHolds, Active, Snapshot, Replace, VerifyOnline

\* The step a put record names exists, so memory and state.json hold records.
LEMMA NextKeepsTypes == ASSUME TypeOK, Next PROVE TypeOK'
<1> USE WorkflowAssumption, RestoreAssumption
<1>0. /\ wf \in Records /\ saved \in Records /\ at \in 0..5 /\ saved.step \in 0..4
      /\ \A s \in States : [wf EXCEPT !.state = s] \in Records
      /\ \A i \in 0..4 : [wf EXCEPT !.step = i] \in Records
  BY RecordFields, WithState, WithStep DEF TypeOK, EngineTypeOK
<1>1. CASE Engine
  <2>1. wf' \in Records /\ saved' \in Records
    BY <1>0, <1>1, FirstRecord DEF Engine, EngineStep, LoopCancelled, LoopStep, LoopEnd,
       CompensateStart, CompensateSkip, CompensateEnd, Put, States
  <2>2. /\ compErr' \in BOOLEAN /\ cancelled' \in BOOLEAN /\ byJob' \in BOOLEAN
        /\ writing' \in BOOLEAN /\ undone' \in BOOLEAN
    BY <1>0, <1>1 DEF Engine, EngineStep, LoopCancelled, LoopStep, LoopEnd, CompensateStart,
       CompensateSkip, CompensateEnd, TypeOK, EngineTypeOK
  <2>3. /\ at' \in 0..N /\ runs' \in 0..MaxRuns /\ faults' \in 0..MaxFaults
        /\ kills' \in 0..MaxKills /\ fails' \in 0..MaxFails
    BY <1>0, <1>1 DEF Engine, EngineStep, LoopCancelled, LoopStep, LoopEnd, CompensateStart,
       CompensateSkip, CompensateEnd, Put, TypeOK, EngineTypeOK, Failure, Doing, Snapshot,
       ClosePools, Replace, Validate, VerifyOnline
  <2>4. /\ pc' \in {"idle", "loop", "do", "failing", "comp", "ended", "down"}
        /\ file' \in Contents /\ pre' \in Contents
    BY <1>0, <1>1 DEF Engine, EngineStep, LoopCancelled, LoopStep, LoopEnd, CompensateStart,
       CompensateSkip, CompensateEnd, TypeOK, EngineTypeOK, Contents
  <2> QED
    BY <2>1, <2>2, <2>3, <2>4 DEF TypeOK, EngineTypeOK
<1>2. CASE SnapshotNone \/ SnapshotOpen \/ SnapshotCopy \/ SnapshotErr \/ ClosePoolsOk
  <2>1. wf' \in Records /\ saved' \in Records
    BY <1>0, <1>2, FirstRecord DEF SnapshotNone, SnapshotOpen, SnapshotCopy, SnapshotErr,
       ClosePoolsOk, StepDone, StepFailed, engineVars, Put, States
  <2>2. /\ compErr' \in BOOLEAN /\ cancelled' \in BOOLEAN /\ byJob' \in BOOLEAN
        /\ writing' \in BOOLEAN /\ undone' \in BOOLEAN
    BY <1>0, <1>2 DEF SnapshotNone, SnapshotOpen, SnapshotCopy, SnapshotErr, ClosePoolsOk,
       StepDone, StepFailed, engineVars, TypeOK, EngineTypeOK
  <2>3. /\ at' \in 0..N /\ runs' \in 0..MaxRuns /\ faults' \in 0..MaxFaults
        /\ kills' \in 0..MaxKills /\ fails' \in 0..MaxFails
    BY <1>0, <1>2 DEF SnapshotNone, SnapshotOpen, SnapshotCopy, SnapshotErr, ClosePoolsOk,
       StepDone, StepFailed, engineVars, Put, TypeOK, EngineTypeOK, Failure, Doing,
       Snapshot, ClosePools, Replace, Validate, VerifyOnline
  <2>4. /\ pc' \in {"idle", "loop", "do", "failing", "comp", "ended", "down"}
        /\ file' \in Contents /\ pre' \in Contents
    BY <1>0, <1>2 DEF SnapshotNone, SnapshotOpen, SnapshotCopy, SnapshotErr, ClosePoolsOk,
       StepDone, StepFailed, engineVars, TypeOK, EngineTypeOK, Contents
  <2> QED
    BY <2>1, <2>2, <2>3, <2>4 DEF TypeOK, EngineTypeOK
<1>3. CASE ReplaceRemove \/ ReplaceWrite \/ ReplaceOk \/ ReplaceErr
  <2>1. wf' \in Records /\ saved' \in Records
    BY <1>0, <1>3, FirstRecord DEF ReplaceRemove, ReplaceWrite, ReplaceOk, ReplaceErr,
       StepDone, StepFailed, engineVars, Put, States
  <2>2. /\ compErr' \in BOOLEAN /\ cancelled' \in BOOLEAN /\ byJob' \in BOOLEAN
        /\ writing' \in BOOLEAN /\ undone' \in BOOLEAN
    BY <1>0, <1>3 DEF ReplaceRemove, ReplaceWrite, ReplaceOk, ReplaceErr, StepDone,
       StepFailed, engineVars, TypeOK, EngineTypeOK
  <2>3. /\ at' \in 0..N /\ runs' \in 0..MaxRuns /\ faults' \in 0..MaxFaults
        /\ kills' \in 0..MaxKills /\ fails' \in 0..MaxFails
    BY <1>0, <1>3 DEF ReplaceRemove, ReplaceWrite, ReplaceOk, ReplaceErr, StepDone,
       StepFailed, engineVars, Put, TypeOK, EngineTypeOK, Failure, Doing, Snapshot,
       ClosePools, Replace, Validate, VerifyOnline
  <2>4. /\ pc' \in {"idle", "loop", "do", "failing", "comp", "ended", "down"}
        /\ file' \in Contents /\ pre' \in Contents
    BY <1>0, <1>3 DEF ReplaceRemove, ReplaceWrite, ReplaceOk, ReplaceErr, StepDone,
       StepFailed, engineVars, TypeOK, EngineTypeOK, Contents
  <2> QED
    BY <2>1, <2>2, <2>3, <2>4 DEF TypeOK, EngineTypeOK
<1>4. CASE ValidateOk \/ VerifyOk \/ CheckErr
  <2>1. wf' \in Records /\ saved' \in Records
    BY <1>0, <1>4, FirstRecord DEF ValidateOk, VerifyOk, CheckErr, StepDone, StepFailed,
       Put, States
  <2>2. /\ compErr' \in BOOLEAN /\ cancelled' \in BOOLEAN /\ byJob' \in BOOLEAN
        /\ writing' \in BOOLEAN /\ undone' \in BOOLEAN
    BY <1>0, <1>4 DEF ValidateOk, VerifyOk, CheckErr, StepDone, StepFailed, TypeOK,
       EngineTypeOK
  <2>3. /\ at' \in 0..N /\ runs' \in 0..MaxRuns /\ faults' \in 0..MaxFaults
        /\ kills' \in 0..MaxKills /\ fails' \in 0..MaxFails
    BY <1>0, <1>4 DEF ValidateOk, VerifyOk, CheckErr, StepDone, StepFailed, Put, TypeOK,
       EngineTypeOK, Failure, Doing, Snapshot, ClosePools, Replace, Validate, VerifyOnline
  <2>4. /\ pc' \in {"idle", "loop", "do", "failing", "comp", "ended", "down"}
        /\ file' \in Contents /\ pre' \in Contents
    BY <1>0, <1>4 DEF ValidateOk, VerifyOk, CheckErr, StepDone, StepFailed, TypeOK,
       EngineTypeOK, Contents
  <2> QED
    BY <2>1, <2>2, <2>3, <2>4 DEF TypeOK, EngineTypeOK
<1>5. CASE PutBackRemove \/ PutBackOpen \/ PutBackCopy \/ PutBackErr
  <2>1. wf' \in Records /\ saved' \in Records
    BY <1>0, <1>5, FirstRecord DEF PutBackRemove, PutBackOpen, PutBackCopy, PutBackErr,
       Compensated, CompensateFailed, engineVars, Put, States
  <2>2. /\ compErr' \in BOOLEAN /\ cancelled' \in BOOLEAN /\ byJob' \in BOOLEAN
        /\ writing' \in BOOLEAN /\ undone' \in BOOLEAN
    BY <1>0, <1>5 DEF PutBackRemove, PutBackOpen, PutBackCopy, PutBackErr, Compensated,
       CompensateFailed, engineVars, TypeOK, EngineTypeOK
  <2>3. /\ at' \in 0..N /\ runs' \in 0..MaxRuns /\ faults' \in 0..MaxFaults
        /\ kills' \in 0..MaxKills /\ fails' \in 0..MaxFails
    BY <1>0, <1>5 DEF PutBackRemove, PutBackOpen, PutBackCopy, PutBackErr, Compensated,
       CompensateFailed, engineVars, Put, TypeOK, EngineTypeOK, Failure, Doing, Snapshot,
       ClosePools, Replace, Validate, VerifyOnline
  <2>4. /\ pc' \in {"idle", "loop", "do", "failing", "comp", "ended", "down"}
        /\ file' \in Contents /\ pre' \in Contents
    BY <1>0, <1>5 DEF PutBackRemove, PutBackOpen, PutBackCopy, PutBackErr, Compensated,
       CompensateFailed, engineVars, TypeOK, EngineTypeOK, Contents
  <2> QED
    BY <2>1, <2>2, <2>3, <2>4 DEF TypeOK, EngineTypeOK
<1>6. CASE Begins \/ CancelJob \/ Persist \/ KillServer \/ Restart
  <2>1. wf' \in Records /\ saved' \in Records
    BY <1>0, <1>6, FirstRecord DEF Begins, Begin, CancelJob, Cancel, Persist, OtherWrite,
       KillServer, Kill, Restart, Reconcile, Unfinished, Put, States
  <2>2. /\ compErr' \in BOOLEAN /\ cancelled' \in BOOLEAN /\ byJob' \in BOOLEAN
        /\ writing' \in BOOLEAN /\ undone' \in BOOLEAN
    BY <1>0, <1>6 DEF Begins, Begin, CancelJob, Cancel, Persist, OtherWrite, KillServer,
       Kill, Restart, Reconcile, Unfinished, TypeOK, EngineTypeOK
  <2>3. /\ at' \in 0..N /\ runs' \in 0..MaxRuns /\ faults' \in 0..MaxFaults
        /\ kills' \in 0..MaxKills /\ fails' \in 0..MaxFails
    BY <1>0, <1>6 DEF Begins, Begin, CancelJob, Cancel, Persist, OtherWrite, KillServer,
       Kill, Restart, Reconcile, Unfinished, Put, TypeOK, EngineTypeOK, Failure, Doing,
       Snapshot, ClosePools, Replace, Validate, VerifyOnline
  <2>4. /\ pc' \in {"idle", "loop", "do", "failing", "comp", "ended", "down"}
        /\ file' \in Contents /\ pre' \in Contents
    BY <1>0, <1>6 DEF Begins, Begin, CancelJob, Cancel, Persist, OtherWrite, KillServer,
       Kill, Restart, Reconcile, Unfinished, TypeOK, EngineTypeOK, Contents
  <2> QED
    BY <2>1, <2>2, <2>3, <2>4 DEF TypeOK, EngineTypeOK
<1> QED
  BY <1>1, <1>2, <1>3, <1>4, <1>5, <1>6 DEF Next, Step

LEMMA LoopCancelledKeeps == ASSUME RestoreInv, Engine /\ LoopCancelled PROVE RestoreInv'
<1> USE WorkflowAssumption, RestoreAssumption
<1>0. TypeOK /\ wf \in Records /\ saved \in Records
  BY DEF RestoreInv, TypeOK, EngineTypeOK
<1>1. /\ wf.state \in States /\ wf.step \in 0..4
      /\ saved.state \in States /\ saved.step \in 0..4
  BY <1>0, RecordFields
<1>2. Put([wf EXCEPT !.state = "failed"])
  BY DEF Engine, LoopCancelled
<1>3. /\ [wf EXCEPT !.state = "failed"] \in Records
      /\ [wf EXCEPT !.state = "failed"].state = "failed"
      /\ [wf EXCEPT !.state = "failed"].step = wf.step
  BY <1>0, WithState DEF States
<1>4. /\ wf' \in Records /\ saved' \in {saved, wf'} /\ saved' \in Records
      /\ faults' \in 0..MaxFaults /\ (faults' = 0 => faults = 0 /\ saved' = wf')
      /\ wf'.state = "failed" /\ wf'.step = wf.step
  BY <1>0, <1>2, <1>3, PutEffect
<1>5. TypeOK'
  BY <1>0, NextKeepsTypes DEF Next, Engine, EngineStep, Step
<1>6. StepLags'
  BY <1>0, <1>1, <1>4 DEF RestoreInv, Engine, LoopCancelled, TypeOK, EngineTypeOK, Doing,
     StepLags, Active, NoRecord
<1>7. WritingIsInside'
  BY <1>0, <1>1, <1>4 DEF RestoreInv, Engine, LoopCancelled, TypeOK, EngineTypeOK, Doing,
     WritingIsInside, Snapshot, Replace, ClosePools, Validate, VerifyOnline
<1>8. ReplacedIsNew'
  BY <1>0, <1>1, <1>4 DEF RestoreInv, Engine, LoopCancelled, TypeOK, EngineTypeOK, Doing,
     ReplacedIsNew, PastReplace, Active, Usable, StepLags, WritingIsInside, Snapshot,
     Replace, VerifyOnline, Validate, ClosePools
<1>9. SnapshotHolds'
  BY <1>0, <1>1, <1>4 DEF RestoreInv, Engine, LoopCancelled, TypeOK, EngineTypeOK, Doing,
     SnapshotHolds, FirstRun, NoRecord, Active, StepLags, WritingIsInside, Snapshot,
     Replace, ClosePools, Validate, VerifyOnline
<1>10. PutBackHolds'
  BY <1>0, <1>1, <1>4 DEF RestoreInv, Engine, LoopCancelled, TypeOK, EngineTypeOK, Doing,
     PutBackHolds, SnapshotHolds, FirstRun, Active, StepLags, WritingIsInside, Snapshot,
     Replace, VerifyOnline, Validate, ClosePools
<1> QED
  BY <1>5, <1>6, <1>7, <1>8, <1>9, <1>10 DEF RestoreInv

LEMMA LoopStepKeeps == ASSUME RestoreInv, Engine /\ LoopStep PROVE RestoreInv'
<1> USE WorkflowAssumption, RestoreAssumption
<1>0. TypeOK /\ wf \in Records /\ saved \in Records
  BY DEF RestoreInv, TypeOK, EngineTypeOK
<1>1. /\ wf.state \in States /\ wf.step \in 0..4
      /\ saved.state \in States /\ saved.step \in 0..4
  BY <1>0, RecordFields
<1>2. Put([wf EXCEPT !.step = at])
  BY DEF Engine, LoopStep
<1>3. /\ [wf EXCEPT !.step = at] \in Records
      /\ [wf EXCEPT !.step = at].state = wf.state
      /\ [wf EXCEPT !.step = at].step = at
  <2>1. at \in 0..4
    BY DEF Engine, LoopStep, RestoreInv, TypeOK, EngineTypeOK
  <2> QED
    BY <1>0, <2>1, WithStep
<1>4. /\ wf' \in Records /\ saved' \in {saved, wf'} /\ saved' \in Records
      /\ faults' \in 0..MaxFaults /\ (faults' = 0 => faults = 0 /\ saved' = wf')
      /\ wf'.state = wf.state /\ wf'.step = at
  BY <1>0, <1>2, <1>3, PutEffect
<1>5. TypeOK'
  BY <1>0, NextKeepsTypes DEF Next, Engine, EngineStep, Step
<1>6. StepLags'
  BY <1>0, <1>1, <1>4 DEF RestoreInv, Engine, LoopStep, TypeOK, EngineTypeOK, Doing,
     StepLags, Active, NoRecord
<1>7. WritingIsInside'
  BY <1>0, <1>1, <1>4 DEF RestoreInv, Engine, LoopStep, TypeOK, EngineTypeOK, Doing,
     WritingIsInside, Snapshot, Replace, ClosePools, Validate, VerifyOnline
<1>8. ReplacedIsNew'
  BY <1>0, <1>1, <1>4 DEF RestoreInv, Engine, LoopStep, TypeOK, EngineTypeOK, Doing,
     ReplacedIsNew, PastReplace, Active, Usable, StepLags, WritingIsInside, Snapshot,
     Replace, VerifyOnline, Validate, ClosePools
<1>9. SnapshotHolds'
  BY <1>0, <1>1, <1>4 DEF RestoreInv, Engine, LoopStep, TypeOK, EngineTypeOK, Doing,
     SnapshotHolds, FirstRun, NoRecord, Active, StepLags, WritingIsInside, Snapshot,
     Replace, ClosePools, Validate, VerifyOnline
<1>10. PutBackHolds'
  BY <1>0, <1>1, <1>4 DEF RestoreInv, Engine, LoopStep, TypeOK, EngineTypeOK, Doing,
     PutBackHolds, SnapshotHolds, FirstRun, Active, StepLags, WritingIsInside, Snapshot,
     Replace, VerifyOnline, Validate, ClosePools
<1> QED
  BY <1>5, <1>6, <1>7, <1>8, <1>9, <1>10 DEF RestoreInv

LEMMA LoopEndKeeps == ASSUME RestoreInv, Engine /\ LoopEnd PROVE RestoreInv'
<1> USE WorkflowAssumption, RestoreAssumption
<1>0. TypeOK /\ wf \in Records /\ saved \in Records
  BY DEF RestoreInv, TypeOK, EngineTypeOK
<1>1. /\ wf.state \in States /\ wf.step \in 0..4
      /\ saved.state \in States /\ saved.step \in 0..4
  BY <1>0, RecordFields
<1>2. Put([wf EXCEPT !.state = "succeeded"])
  BY DEF Engine, LoopEnd
<1>3. /\ [wf EXCEPT !.state = "succeeded"] \in Records
      /\ [wf EXCEPT !.state = "succeeded"].state = "succeeded"
      /\ [wf EXCEPT !.state = "succeeded"].step = wf.step
  BY <1>0, WithState DEF States
<1>4. /\ wf' \in Records /\ saved' \in {saved, wf'} /\ saved' \in Records
      /\ faults' \in 0..MaxFaults /\ (faults' = 0 => faults = 0 /\ saved' = wf')
      /\ wf'.state = "succeeded" /\ wf'.step = wf.step
  BY <1>0, <1>2, <1>3, PutEffect
<1>5. TypeOK'
  BY <1>0, NextKeepsTypes DEF Next, Engine, EngineStep, Step
<1>6. StepLags'
  BY <1>0, <1>1, <1>4 DEF RestoreInv, Engine, LoopEnd, TypeOK, EngineTypeOK, Doing,
     StepLags, Active, NoRecord
<1>7. WritingIsInside'
  BY <1>0, <1>1, <1>4 DEF RestoreInv, Engine, LoopEnd, TypeOK, EngineTypeOK, Doing,
     WritingIsInside, Snapshot, Replace, ClosePools, Validate, VerifyOnline
<1>8. ReplacedIsNew'
  BY <1>0, <1>1, <1>4 DEF RestoreInv, Engine, LoopEnd, TypeOK, EngineTypeOK, Doing,
     ReplacedIsNew, PastReplace, Active, Usable, StepLags, WritingIsInside, Snapshot,
     Replace, VerifyOnline, Validate, ClosePools
<1>9. SnapshotHolds'
  BY <1>0, <1>1, <1>4 DEF RestoreInv, Engine, LoopEnd, TypeOK, EngineTypeOK, Doing,
     SnapshotHolds, FirstRun, NoRecord, Active, StepLags, WritingIsInside, Snapshot,
     Replace, ClosePools, Validate, VerifyOnline
<1>10. PutBackHolds'
  BY <1>0, <1>1, <1>4 DEF RestoreInv, Engine, LoopEnd, TypeOK, EngineTypeOK, Doing,
     PutBackHolds, SnapshotHolds, FirstRun, Active, StepLags, WritingIsInside, Snapshot,
     Replace, VerifyOnline, Validate, ClosePools
<1> QED
  BY <1>5, <1>6, <1>7, <1>8, <1>9, <1>10 DEF RestoreInv

LEMMA CompensateStartKeeps == ASSUME RestoreInv, Engine /\ CompensateStart PROVE RestoreInv'
<1> USE WorkflowAssumption, RestoreAssumption
<1>0. TypeOK /\ wf \in Records /\ saved \in Records
  BY DEF RestoreInv, TypeOK, EngineTypeOK
<1>1. /\ wf.state \in States /\ wf.step \in 0..4
      /\ saved.state \in States /\ saved.step \in 0..4
  BY <1>0, RecordFields
<1>2. Put([wf EXCEPT !.state = "compensating"])
  BY DEF Engine, CompensateStart
<1>3. /\ [wf EXCEPT !.state = "compensating"] \in Records
      /\ [wf EXCEPT !.state = "compensating"].state = "compensating"
      /\ [wf EXCEPT !.state = "compensating"].step = wf.step
  BY <1>0, WithState DEF States
<1>4. /\ wf' \in Records /\ saved' \in {saved, wf'} /\ saved' \in Records
      /\ faults' \in 0..MaxFaults /\ (faults' = 0 => faults = 0 /\ saved' = wf')
      /\ wf'.state = "compensating" /\ wf'.step = wf.step
  BY <1>0, <1>2, <1>3, PutEffect
<1>5. TypeOK'
  BY <1>0, NextKeepsTypes DEF Next, Engine, EngineStep, Step
<1>6. StepLags'
  BY <1>0, <1>1, <1>4 DEF RestoreInv, Engine, CompensateStart, TypeOK, EngineTypeOK, Doing,
     StepLags, Active, NoRecord
<1>7. WritingIsInside'
  BY <1>0, <1>1, <1>4 DEF RestoreInv, Engine, CompensateStart, TypeOK, EngineTypeOK, Doing,
     WritingIsInside, Snapshot, Replace, ClosePools, Validate, VerifyOnline
<1>8. ReplacedIsNew'
  BY <1>0, <1>1, <1>4 DEF RestoreInv, Engine, CompensateStart, TypeOK, EngineTypeOK, Doing,
     ReplacedIsNew, PastReplace, Active, Usable, StepLags, WritingIsInside, Snapshot,
     Replace, VerifyOnline, Validate, ClosePools
<1>9. SnapshotHolds'
  BY <1>0, <1>1, <1>4 DEF RestoreInv, Engine, CompensateStart, TypeOK, EngineTypeOK, Doing,
     SnapshotHolds, FirstRun, NoRecord, Active, StepLags, WritingIsInside, Snapshot,
     Replace, ClosePools, Validate, VerifyOnline
<1>10. PutBackHolds'
  BY <1>0, <1>1, <1>4 DEF RestoreInv, Engine, CompensateStart, TypeOK, EngineTypeOK, Doing,
     PutBackHolds, SnapshotHolds, FirstRun, Active, StepLags, WritingIsInside, Snapshot,
     Replace, VerifyOnline, Validate, ClosePools
<1> QED
  BY <1>5, <1>6, <1>7, <1>8, <1>9, <1>10 DEF RestoreInv

LEMMA CompensateSkipKeeps == ASSUME RestoreInv, Engine /\ CompensateSkip PROVE RestoreInv'
<1> USE WorkflowAssumption, RestoreAssumption
<1>0. TypeOK /\ wf \in Records /\ saved \in Records
  BY DEF RestoreInv, TypeOK, EngineTypeOK
<1>1. /\ wf.state \in States /\ wf.step \in 0..4
      /\ saved.state \in States /\ saved.step \in 0..4
  BY <1>0, RecordFields
<1>5. TypeOK'
  BY <1>0, NextKeepsTypes DEF Next, Engine, EngineStep, Step
<1>6. StepLags'
  BY <1>0, <1>1 DEF RestoreInv, Engine, CompensateSkip, TypeOK, EngineTypeOK, Doing,
     StepLags, Active, NoRecord
<1>7. WritingIsInside'
  BY <1>0, <1>1 DEF RestoreInv, Engine, CompensateSkip, TypeOK, EngineTypeOK, Doing,
     WritingIsInside, Snapshot, Replace, ClosePools, Validate, VerifyOnline
<1>8. ReplacedIsNew'
  BY <1>0, <1>1 DEF RestoreInv, Engine, CompensateSkip, TypeOK, EngineTypeOK, Doing,
     ReplacedIsNew, PastReplace, Active, Usable, StepLags, WritingIsInside, Snapshot,
     Replace, VerifyOnline, Validate, ClosePools
<1>9. SnapshotHolds'
  BY <1>0, <1>1 DEF RestoreInv, Engine, CompensateSkip, TypeOK, EngineTypeOK, Doing,
     SnapshotHolds, FirstRun, NoRecord, Active, StepLags, WritingIsInside, Snapshot,
     Replace, ClosePools, Validate, VerifyOnline
<1>10. PutBackHolds'
  BY <1>0, <1>1 DEF RestoreInv, Engine, CompensateSkip, TypeOK, EngineTypeOK, Doing,
     PutBackHolds, SnapshotHolds, FirstRun, Active, StepLags, WritingIsInside, Snapshot,
     Replace, VerifyOnline, Validate, ClosePools
<1> QED
  BY <1>5, <1>6, <1>7, <1>8, <1>9, <1>10 DEF RestoreInv

LEMMA CompensateEndErrKeeps ==
  ASSUME RestoreInv, Engine /\ CompensateEnd /\ compErr
  PROVE  RestoreInv'
<1> USE WorkflowAssumption, RestoreAssumption
<1>0. TypeOK /\ wf \in Records /\ saved \in Records
  BY DEF RestoreInv, TypeOK, EngineTypeOK
<1>1. /\ wf.state \in States /\ wf.step \in 0..4
      /\ saved.state \in States /\ saved.step \in 0..4
  BY <1>0, RecordFields
<1>2. Put(wf)
  BY DEF Engine, CompensateEnd
<1>3. wf \in Records
  BY <1>0
<1>4. /\ wf' \in Records /\ saved' \in {saved, wf'} /\ saved' \in Records
      /\ faults' \in 0..MaxFaults /\ (faults' = 0 => faults = 0 /\ saved' = wf')
      /\ wf'.state = wf.state /\ wf'.step = wf.step
  BY <1>0, <1>2, <1>3, PutEffect
<1>5. TypeOK'
  BY <1>0, NextKeepsTypes DEF Next, Engine, EngineStep, Step
<1>6. StepLags'
  BY <1>0, <1>1, <1>4 DEF RestoreInv, Engine, CompensateEnd, TypeOK, EngineTypeOK, Doing,
     StepLags, Active, NoRecord
<1>7. WritingIsInside'
  BY <1>0, <1>1, <1>4 DEF RestoreInv, Engine, CompensateEnd, TypeOK, EngineTypeOK, Doing,
     WritingIsInside, Snapshot, Replace, ClosePools, Validate, VerifyOnline
<1>8. ReplacedIsNew'
  BY <1>0, <1>1, <1>4 DEF RestoreInv, Engine, CompensateEnd, TypeOK, EngineTypeOK, Doing,
     ReplacedIsNew, PastReplace, Active, Usable, StepLags, WritingIsInside, Snapshot,
     Replace, VerifyOnline, Validate, ClosePools
<1>9. SnapshotHolds'
  BY <1>0, <1>1, <1>4 DEF RestoreInv, Engine, CompensateEnd, TypeOK, EngineTypeOK, Doing,
     SnapshotHolds, FirstRun, NoRecord, Active, StepLags, WritingIsInside, Snapshot,
     Replace, ClosePools, Validate, VerifyOnline
<1>10. PutBackHolds'
  BY <1>0, <1>1, <1>4 DEF RestoreInv, Engine, CompensateEnd, TypeOK, EngineTypeOK, Doing,
     PutBackHolds, SnapshotHolds, FirstRun, Active, StepLags, WritingIsInside, Snapshot,
     Replace, VerifyOnline, Validate, ClosePools
<1> QED
  BY <1>5, <1>6, <1>7, <1>8, <1>9, <1>10 DEF RestoreInv

LEMMA CompensateEndOkKeeps ==
  ASSUME RestoreInv, Engine /\ CompensateEnd /\ ~compErr
  PROVE  RestoreInv'
<1> USE WorkflowAssumption, RestoreAssumption
<1>0. TypeOK /\ wf \in Records /\ saved \in Records
  BY DEF RestoreInv, TypeOK, EngineTypeOK
<1>1. /\ wf.state \in States /\ wf.step \in 0..4
      /\ saved.state \in States /\ saved.step \in 0..4
  BY <1>0, RecordFields
<1>2. Put([wf EXCEPT !.state = "compensated"])
  BY DEF Engine, CompensateEnd
<1>3. /\ [wf EXCEPT !.state = "compensated"] \in Records
      /\ [wf EXCEPT !.state = "compensated"].state = "compensated"
      /\ [wf EXCEPT !.state = "compensated"].step = wf.step
  BY <1>0, WithState DEF States
<1>4. /\ wf' \in Records /\ saved' \in {saved, wf'} /\ saved' \in Records
      /\ faults' \in 0..MaxFaults /\ (faults' = 0 => faults = 0 /\ saved' = wf')
      /\ wf'.state = "compensated" /\ wf'.step = wf.step
  BY <1>0, <1>2, <1>3, PutEffect
<1>5. TypeOK'
  BY <1>0, NextKeepsTypes DEF Next, Engine, EngineStep, Step
<1>6. StepLags'
  BY <1>0, <1>1, <1>4 DEF RestoreInv, Engine, CompensateEnd, TypeOK, EngineTypeOK, Doing,
     StepLags, Active, NoRecord
<1>7. WritingIsInside'
  BY <1>0, <1>1, <1>4 DEF RestoreInv, Engine, CompensateEnd, TypeOK, EngineTypeOK, Doing,
     WritingIsInside, Snapshot, Replace, ClosePools, Validate, VerifyOnline
<1>8. ReplacedIsNew'
  BY <1>0, <1>1, <1>4 DEF RestoreInv, Engine, CompensateEnd, TypeOK, EngineTypeOK, Doing,
     ReplacedIsNew, PastReplace, Active, Usable, StepLags, WritingIsInside, Snapshot,
     Replace, VerifyOnline, Validate, ClosePools
<1>9. SnapshotHolds'
  BY <1>0, <1>1, <1>4 DEF RestoreInv, Engine, CompensateEnd, TypeOK, EngineTypeOK, Doing,
     SnapshotHolds, FirstRun, NoRecord, Active, StepLags, WritingIsInside, Snapshot,
     Replace, ClosePools, Validate, VerifyOnline
<1>10. PutBackHolds'
  BY <1>0, <1>1, <1>4 DEF RestoreInv, Engine, CompensateEnd, TypeOK, EngineTypeOK, Doing,
     PutBackHolds, SnapshotHolds, FirstRun, Active, StepLags, WritingIsInside, Snapshot,
     Replace, VerifyOnline, Validate, ClosePools
<1> QED
  BY <1>5, <1>6, <1>7, <1>8, <1>9, <1>10 DEF RestoreInv

LEMMA SnapshotNoneKeeps == ASSUME RestoreInv, SnapshotNone PROVE RestoreInv'
<1> USE WorkflowAssumption, RestoreAssumption
<1>0. TypeOK /\ wf \in Records /\ saved \in Records
  BY DEF RestoreInv, TypeOK, EngineTypeOK
<1>1. /\ wf.state \in States /\ wf.step \in 0..4
      /\ saved.state \in States /\ saved.step \in 0..4
  BY <1>0, RecordFields
<1>2. Put(wf)
  BY DEF SnapshotNone, StepDone
<1>3. wf \in Records
  BY <1>0
<1>4. /\ wf' \in Records /\ saved' \in {saved, wf'} /\ saved' \in Records
      /\ faults' \in 0..MaxFaults /\ (faults' = 0 => faults = 0 /\ saved' = wf')
      /\ wf'.state = wf.state /\ wf'.step = wf.step
  BY <1>0, <1>2, <1>3, PutEffect
<1>5. TypeOK'
  BY <1>0, NextKeepsTypes DEF Next, Engine, EngineStep, Step
<1>6. StepLags'
  BY <1>0, <1>1, <1>4 DEF RestoreInv, SnapshotNone, StepDone, TypeOK, EngineTypeOK, Doing,
     StepLags, Active, NoRecord
<1>7. WritingIsInside'
  BY <1>0, <1>1, <1>4 DEF RestoreInv, SnapshotNone, StepDone, TypeOK, EngineTypeOK, Doing,
     WritingIsInside, Snapshot, Replace, ClosePools, Validate, VerifyOnline
<1>8. ReplacedIsNew'
  BY <1>0, <1>1, <1>4 DEF RestoreInv, SnapshotNone, StepDone, TypeOK, EngineTypeOK, Doing,
     ReplacedIsNew, PastReplace, Active, Usable, StepLags, WritingIsInside, Snapshot,
     Replace, VerifyOnline, Validate, ClosePools
<1>9. SnapshotHolds'
  BY <1>0, <1>1, <1>4 DEF RestoreInv, SnapshotNone, StepDone, TypeOK, EngineTypeOK, Doing,
     SnapshotHolds, FirstRun, NoRecord, Active, StepLags, WritingIsInside, Snapshot,
     Replace, ClosePools, Validate, VerifyOnline
<1>10. PutBackHolds'
  BY <1>0, <1>1, <1>4 DEF RestoreInv, SnapshotNone, StepDone, TypeOK, EngineTypeOK, Doing,
     PutBackHolds, SnapshotHolds, FirstRun, Active, StepLags, WritingIsInside, Snapshot,
     Replace, VerifyOnline, Validate, ClosePools
<1> QED
  BY <1>5, <1>6, <1>7, <1>8, <1>9, <1>10 DEF RestoreInv

LEMMA SnapshotOpenKeeps == ASSUME RestoreInv, SnapshotOpen PROVE RestoreInv'
<1> USE WorkflowAssumption, RestoreAssumption
<1>0. TypeOK /\ wf \in Records /\ saved \in Records
  BY DEF RestoreInv, TypeOK, EngineTypeOK
<1>1. /\ wf.state \in States /\ wf.step \in 0..4
      /\ saved.state \in States /\ saved.step \in 0..4
  BY <1>0, RecordFields
<1>5. TypeOK'
  BY <1>0, NextKeepsTypes DEF Next, Engine, EngineStep, Step
<1>6. StepLags'
  BY <1>0, <1>1 DEF RestoreInv, SnapshotOpen, engineVars, TypeOK, EngineTypeOK, Doing,
     StepLags, Active, NoRecord
<1>7. WritingIsInside'
  BY <1>0, <1>1 DEF RestoreInv, SnapshotOpen, engineVars, TypeOK, EngineTypeOK, Doing,
     WritingIsInside, Snapshot, Replace, ClosePools, Validate, VerifyOnline
<1>8. ReplacedIsNew'
  BY <1>0, <1>1 DEF RestoreInv, SnapshotOpen, engineVars, TypeOK, EngineTypeOK, Doing,
     ReplacedIsNew, PastReplace, Active, Usable, StepLags, WritingIsInside, Snapshot,
     Replace, VerifyOnline, Validate, ClosePools
<1>9. SnapshotHolds'
  BY <1>0, <1>1 DEF RestoreInv, SnapshotOpen, engineVars, TypeOK, EngineTypeOK, Doing,
     SnapshotHolds, FirstRun, NoRecord, Active, StepLags, WritingIsInside, Snapshot,
     Replace, ClosePools, Validate, VerifyOnline
<1>10. PutBackHolds'
  BY <1>0, <1>1 DEF RestoreInv, SnapshotOpen, engineVars, TypeOK, EngineTypeOK, Doing,
     PutBackHolds, SnapshotHolds, FirstRun, Active, StepLags, WritingIsInside, Snapshot,
     Replace, VerifyOnline, Validate, ClosePools
<1> QED
  BY <1>5, <1>6, <1>7, <1>8, <1>9, <1>10 DEF RestoreInv

LEMMA SnapshotCopyKeeps == ASSUME RestoreInv, SnapshotCopy PROVE RestoreInv'
<1> USE WorkflowAssumption, RestoreAssumption
<1>0. TypeOK /\ wf \in Records /\ saved \in Records
  BY DEF RestoreInv, TypeOK, EngineTypeOK
<1>1. /\ wf.state \in States /\ wf.step \in 0..4
      /\ saved.state \in States /\ saved.step \in 0..4
  BY <1>0, RecordFields
<1>2. Put(wf)
  BY DEF SnapshotCopy, StepDone
<1>3. wf \in Records
  BY <1>0
<1>4. /\ wf' \in Records /\ saved' \in {saved, wf'} /\ saved' \in Records
      /\ faults' \in 0..MaxFaults /\ (faults' = 0 => faults = 0 /\ saved' = wf')
      /\ wf'.state = wf.state /\ wf'.step = wf.step
  BY <1>0, <1>2, <1>3, PutEffect
<1>5. TypeOK'
  BY <1>0, NextKeepsTypes DEF Next, Engine, EngineStep, Step
<1>6. StepLags'
  BY <1>0, <1>1, <1>4 DEF RestoreInv, SnapshotCopy, StepDone, TypeOK, EngineTypeOK, Doing,
     StepLags, Active, NoRecord
<1>7. WritingIsInside'
  BY <1>0, <1>1, <1>4 DEF RestoreInv, SnapshotCopy, StepDone, TypeOK, EngineTypeOK, Doing,
     WritingIsInside, Snapshot, Replace, ClosePools, Validate, VerifyOnline
<1>8. ReplacedIsNew'
  BY <1>0, <1>1, <1>4 DEF RestoreInv, SnapshotCopy, StepDone, TypeOK, EngineTypeOK, Doing,
     ReplacedIsNew, PastReplace, Active, Usable, StepLags, WritingIsInside, Snapshot,
     Replace, VerifyOnline, Validate, ClosePools
<1>9. SnapshotHolds'
  BY <1>0, <1>1, <1>4 DEF RestoreInv, SnapshotCopy, StepDone, TypeOK, EngineTypeOK, Doing,
     SnapshotHolds, FirstRun, NoRecord, Active, StepLags, WritingIsInside, Snapshot,
     Replace, ClosePools, Validate, VerifyOnline
<1>10. PutBackHolds'
  BY <1>0, <1>1, <1>4 DEF RestoreInv, SnapshotCopy, StepDone, TypeOK, EngineTypeOK, Doing,
     PutBackHolds, SnapshotHolds, FirstRun, Active, StepLags, WritingIsInside, Snapshot,
     Replace, VerifyOnline, Validate, ClosePools
<1> QED
  BY <1>5, <1>6, <1>7, <1>8, <1>9, <1>10 DEF RestoreInv

LEMMA SnapshotErrKeeps == ASSUME RestoreInv, SnapshotErr PROVE RestoreInv'
<1> USE WorkflowAssumption, RestoreAssumption
<1>0. TypeOK /\ wf \in Records /\ saved \in Records
  BY DEF RestoreInv, TypeOK, EngineTypeOK
<1>1. /\ wf.state \in States /\ wf.step \in 0..4
      /\ saved.state \in States /\ saved.step \in 0..4
  BY <1>0, RecordFields
<1>2. Put([wf EXCEPT !.state = "failed"])
  BY DEF SnapshotErr, StepFailed
<1>3. /\ [wf EXCEPT !.state = "failed"] \in Records
      /\ [wf EXCEPT !.state = "failed"].state = "failed"
      /\ [wf EXCEPT !.state = "failed"].step = wf.step
  BY <1>0, WithState DEF States
<1>4. /\ wf' \in Records /\ saved' \in {saved, wf'} /\ saved' \in Records
      /\ faults' \in 0..MaxFaults /\ (faults' = 0 => faults = 0 /\ saved' = wf')
      /\ wf'.state = "failed" /\ wf'.step = wf.step
  BY <1>0, <1>2, <1>3, PutEffect
<1>5. TypeOK'
  BY <1>0, NextKeepsTypes DEF Next, Engine, EngineStep, Step
<1>6. StepLags'
  BY <1>0, <1>1, <1>4 DEF RestoreInv, SnapshotErr, StepFailed, TypeOK, EngineTypeOK, Doing,
     StepLags, Active, NoRecord
<1>7. WritingIsInside'
  BY <1>0, <1>1, <1>4 DEF RestoreInv, SnapshotErr, StepFailed, TypeOK, EngineTypeOK, Doing,
     WritingIsInside, Snapshot, Replace, ClosePools, Validate, VerifyOnline
<1>8. ReplacedIsNew'
  BY <1>0, <1>1, <1>4 DEF RestoreInv, SnapshotErr, StepFailed, TypeOK, EngineTypeOK, Doing,
     ReplacedIsNew, PastReplace, Active, Usable, StepLags, WritingIsInside, Snapshot,
     Replace, VerifyOnline, Validate, ClosePools
<1>9. SnapshotHolds'
  BY <1>0, <1>1, <1>4 DEF RestoreInv, SnapshotErr, StepFailed, TypeOK, EngineTypeOK, Doing,
     SnapshotHolds, FirstRun, NoRecord, Active, StepLags, WritingIsInside, Snapshot,
     Replace, ClosePools, Validate, VerifyOnline
<1>10. PutBackHolds'
  BY <1>0, <1>1, <1>4 DEF RestoreInv, SnapshotErr, StepFailed, TypeOK, EngineTypeOK, Doing,
     PutBackHolds, SnapshotHolds, FirstRun, Active, StepLags, WritingIsInside, Snapshot,
     Replace, VerifyOnline, Validate, ClosePools
<1> QED
  BY <1>5, <1>6, <1>7, <1>8, <1>9, <1>10 DEF RestoreInv

LEMMA ClosePoolsOkKeeps == ASSUME RestoreInv, ClosePoolsOk PROVE RestoreInv'
<1> USE WorkflowAssumption, RestoreAssumption
<1>0. TypeOK /\ wf \in Records /\ saved \in Records
  BY DEF RestoreInv, TypeOK, EngineTypeOK
<1>1. /\ wf.state \in States /\ wf.step \in 0..4
      /\ saved.state \in States /\ saved.step \in 0..4
  BY <1>0, RecordFields
<1>2. Put(wf)
  BY DEF ClosePoolsOk, StepDone
<1>3. wf \in Records
  BY <1>0
<1>4. /\ wf' \in Records /\ saved' \in {saved, wf'} /\ saved' \in Records
      /\ faults' \in 0..MaxFaults /\ (faults' = 0 => faults = 0 /\ saved' = wf')
      /\ wf'.state = wf.state /\ wf'.step = wf.step
  BY <1>0, <1>2, <1>3, PutEffect
<1>5. TypeOK'
  BY <1>0, NextKeepsTypes DEF Next, Engine, EngineStep, Step
<1>6. StepLags'
  BY <1>0, <1>1, <1>4 DEF RestoreInv, ClosePoolsOk, StepDone, TypeOK, EngineTypeOK, Doing,
     StepLags, Active, NoRecord
<1>7. WritingIsInside'
  BY <1>0, <1>1, <1>4 DEF RestoreInv, ClosePoolsOk, StepDone, TypeOK, EngineTypeOK, Doing,
     WritingIsInside, Snapshot, Replace, ClosePools, Validate, VerifyOnline
<1>8. ReplacedIsNew'
  BY <1>0, <1>1, <1>4 DEF RestoreInv, ClosePoolsOk, StepDone, TypeOK, EngineTypeOK, Doing,
     ReplacedIsNew, PastReplace, Active, Usable, StepLags, WritingIsInside, Snapshot,
     Replace, VerifyOnline, Validate, ClosePools
<1>9. SnapshotHolds'
  BY <1>0, <1>1, <1>4 DEF RestoreInv, ClosePoolsOk, StepDone, TypeOK, EngineTypeOK, Doing,
     SnapshotHolds, FirstRun, NoRecord, Active, StepLags, WritingIsInside, Snapshot,
     Replace, ClosePools, Validate, VerifyOnline
<1>10. PutBackHolds'
  BY <1>0, <1>1, <1>4 DEF RestoreInv, ClosePoolsOk, StepDone, TypeOK, EngineTypeOK, Doing,
     PutBackHolds, SnapshotHolds, FirstRun, Active, StepLags, WritingIsInside, Snapshot,
     Replace, VerifyOnline, Validate, ClosePools
<1> QED
  BY <1>5, <1>6, <1>7, <1>8, <1>9, <1>10 DEF RestoreInv

LEMMA ReplaceRemoveKeeps == ASSUME RestoreInv, ReplaceRemove PROVE RestoreInv'
<1> USE WorkflowAssumption, RestoreAssumption
<1>0. TypeOK /\ wf \in Records /\ saved \in Records
  BY DEF RestoreInv, TypeOK, EngineTypeOK
<1>1. /\ wf.state \in States /\ wf.step \in 0..4
      /\ saved.state \in States /\ saved.step \in 0..4
  BY <1>0, RecordFields
<1>5. TypeOK'
  BY <1>0, NextKeepsTypes DEF Next, Engine, EngineStep, Step
<1>6. StepLags'
  BY <1>0, <1>1 DEF RestoreInv, ReplaceRemove, engineVars, TypeOK, EngineTypeOK, Doing,
     StepLags, Active, NoRecord
<1>7. WritingIsInside'
  BY <1>0, <1>1 DEF RestoreInv, ReplaceRemove, engineVars, TypeOK, EngineTypeOK, Doing,
     WritingIsInside, Snapshot, Replace, ClosePools, Validate, VerifyOnline
<1>8. ReplacedIsNew'
  BY <1>0, <1>1 DEF RestoreInv, ReplaceRemove, engineVars, TypeOK, EngineTypeOK, Doing,
     ReplacedIsNew, PastReplace, Active, Usable, StepLags, WritingIsInside, Snapshot,
     Replace, VerifyOnline, Validate, ClosePools
<1>9. SnapshotHolds'
  BY <1>0, <1>1 DEF RestoreInv, ReplaceRemove, engineVars, TypeOK, EngineTypeOK, Doing,
     SnapshotHolds, FirstRun, NoRecord, Active, StepLags, WritingIsInside, Snapshot,
     Replace, ClosePools, Validate, VerifyOnline
<1>10. PutBackHolds'
  BY <1>0, <1>1 DEF RestoreInv, ReplaceRemove, engineVars, TypeOK, EngineTypeOK, Doing,
     PutBackHolds, SnapshotHolds, FirstRun, Active, StepLags, WritingIsInside, Snapshot,
     Replace, VerifyOnline, Validate, ClosePools
<1> QED
  BY <1>5, <1>6, <1>7, <1>8, <1>9, <1>10 DEF RestoreInv

LEMMA ReplaceWriteKeeps == ASSUME RestoreInv, ReplaceWrite PROVE RestoreInv'
<1> USE WorkflowAssumption, RestoreAssumption
<1>0. TypeOK /\ wf \in Records /\ saved \in Records
  BY DEF RestoreInv, TypeOK, EngineTypeOK
<1>1. /\ wf.state \in States /\ wf.step \in 0..4
      /\ saved.state \in States /\ saved.step \in 0..4
  BY <1>0, RecordFields
<1>5. TypeOK'
  BY <1>0, NextKeepsTypes DEF Next, Engine, EngineStep, Step
<1>6. StepLags'
  BY <1>0, <1>1 DEF RestoreInv, ReplaceWrite, engineVars, TypeOK, EngineTypeOK, Doing,
     StepLags, Active, NoRecord
<1>7. WritingIsInside'
  BY <1>0, <1>1 DEF RestoreInv, ReplaceWrite, engineVars, TypeOK, EngineTypeOK, Doing,
     WritingIsInside, Snapshot, Replace, ClosePools, Validate, VerifyOnline
<1>8. ReplacedIsNew'
  BY <1>0, <1>1 DEF RestoreInv, ReplaceWrite, engineVars, TypeOK, EngineTypeOK, Doing,
     ReplacedIsNew, PastReplace, Active, Usable, StepLags, WritingIsInside, Snapshot,
     Replace, VerifyOnline, Validate, ClosePools
<1>9. SnapshotHolds'
  BY <1>0, <1>1 DEF RestoreInv, ReplaceWrite, engineVars, TypeOK, EngineTypeOK, Doing,
     SnapshotHolds, FirstRun, NoRecord, Active, StepLags, WritingIsInside, Snapshot,
     Replace, ClosePools, Validate, VerifyOnline
<1>10. PutBackHolds'
  BY <1>0, <1>1 DEF RestoreInv, ReplaceWrite, engineVars, TypeOK, EngineTypeOK, Doing,
     PutBackHolds, SnapshotHolds, FirstRun, Active, StepLags, WritingIsInside, Snapshot,
     Replace, VerifyOnline, Validate, ClosePools
<1> QED
  BY <1>5, <1>6, <1>7, <1>8, <1>9, <1>10 DEF RestoreInv

LEMMA ReplaceOkKeeps == ASSUME RestoreInv, ReplaceOk PROVE RestoreInv'
<1> USE WorkflowAssumption, RestoreAssumption
<1>0. TypeOK /\ wf \in Records /\ saved \in Records
  BY DEF RestoreInv, TypeOK, EngineTypeOK
<1>1. /\ wf.state \in States /\ wf.step \in 0..4
      /\ saved.state \in States /\ saved.step \in 0..4
  BY <1>0, RecordFields
<1>2. Put(wf)
  BY DEF ReplaceOk, StepDone
<1>3. wf \in Records
  BY <1>0
<1>4. /\ wf' \in Records /\ saved' \in {saved, wf'} /\ saved' \in Records
      /\ faults' \in 0..MaxFaults /\ (faults' = 0 => faults = 0 /\ saved' = wf')
      /\ wf'.state = wf.state /\ wf'.step = wf.step
  BY <1>0, <1>2, <1>3, PutEffect
<1>5. TypeOK'
  BY <1>0, NextKeepsTypes DEF Next, Engine, EngineStep, Step
<1>6. StepLags'
  BY <1>0, <1>1, <1>4 DEF RestoreInv, ReplaceOk, StepDone, TypeOK, EngineTypeOK, Doing,
     StepLags, Active, NoRecord
<1>7. WritingIsInside'
  BY <1>0, <1>1, <1>4 DEF RestoreInv, ReplaceOk, StepDone, TypeOK, EngineTypeOK, Doing,
     WritingIsInside, Snapshot, Replace, ClosePools, Validate, VerifyOnline
<1>8. ReplacedIsNew'
  BY <1>0, <1>1, <1>4 DEF RestoreInv, ReplaceOk, StepDone, TypeOK, EngineTypeOK, Doing,
     ReplacedIsNew, PastReplace, Active, Usable, StepLags, WritingIsInside, Snapshot,
     Replace, VerifyOnline, Validate, ClosePools
<1>9. SnapshotHolds'
  BY <1>0, <1>1, <1>4 DEF RestoreInv, ReplaceOk, StepDone, TypeOK, EngineTypeOK, Doing,
     SnapshotHolds, FirstRun, NoRecord, Active, StepLags, WritingIsInside, Snapshot,
     Replace, ClosePools, Validate, VerifyOnline
<1>10. PutBackHolds'
  BY <1>0, <1>1, <1>4 DEF RestoreInv, ReplaceOk, StepDone, TypeOK, EngineTypeOK, Doing,
     PutBackHolds, SnapshotHolds, FirstRun, Active, StepLags, WritingIsInside, Snapshot,
     Replace, VerifyOnline, Validate, ClosePools
<1> QED
  BY <1>5, <1>6, <1>7, <1>8, <1>9, <1>10 DEF RestoreInv

LEMMA ReplaceErrKeeps == ASSUME RestoreInv, ReplaceErr PROVE RestoreInv'
<1> USE WorkflowAssumption, RestoreAssumption
<1>0. TypeOK /\ wf \in Records /\ saved \in Records
  BY DEF RestoreInv, TypeOK, EngineTypeOK
<1>1. /\ wf.state \in States /\ wf.step \in 0..4
      /\ saved.state \in States /\ saved.step \in 0..4
  BY <1>0, RecordFields
<1>2. Put([wf EXCEPT !.state = "failed"])
  BY DEF ReplaceErr, StepFailed
<1>3. /\ [wf EXCEPT !.state = "failed"] \in Records
      /\ [wf EXCEPT !.state = "failed"].state = "failed"
      /\ [wf EXCEPT !.state = "failed"].step = wf.step
  BY <1>0, WithState DEF States
<1>4. /\ wf' \in Records /\ saved' \in {saved, wf'} /\ saved' \in Records
      /\ faults' \in 0..MaxFaults /\ (faults' = 0 => faults = 0 /\ saved' = wf')
      /\ wf'.state = "failed" /\ wf'.step = wf.step
  BY <1>0, <1>2, <1>3, PutEffect
<1>5. TypeOK'
  BY <1>0, NextKeepsTypes DEF Next, Engine, EngineStep, Step
<1>6. StepLags'
  BY <1>0, <1>1, <1>4 DEF RestoreInv, ReplaceErr, StepFailed, TypeOK, EngineTypeOK, Doing,
     StepLags, Active, NoRecord
<1>7. WritingIsInside'
  BY <1>0, <1>1, <1>4 DEF RestoreInv, ReplaceErr, StepFailed, TypeOK, EngineTypeOK, Doing,
     WritingIsInside, Snapshot, Replace, ClosePools, Validate, VerifyOnline
<1>8. ReplacedIsNew'
  BY <1>0, <1>1, <1>4 DEF RestoreInv, ReplaceErr, StepFailed, TypeOK, EngineTypeOK, Doing,
     ReplacedIsNew, PastReplace, Active, Usable, StepLags, WritingIsInside, Snapshot,
     Replace, VerifyOnline, Validate, ClosePools
<1>9. SnapshotHolds'
  BY <1>0, <1>1, <1>4 DEF RestoreInv, ReplaceErr, StepFailed, TypeOK, EngineTypeOK, Doing,
     SnapshotHolds, FirstRun, NoRecord, Active, StepLags, WritingIsInside, Snapshot,
     Replace, ClosePools, Validate, VerifyOnline
<1>10. PutBackHolds'
  BY <1>0, <1>1, <1>4 DEF RestoreInv, ReplaceErr, StepFailed, TypeOK, EngineTypeOK, Doing,
     PutBackHolds, SnapshotHolds, FirstRun, Active, StepLags, WritingIsInside, Snapshot,
     Replace, VerifyOnline, Validate, ClosePools
<1> QED
  BY <1>5, <1>6, <1>7, <1>8, <1>9, <1>10 DEF RestoreInv

LEMMA ValidateOkKeeps == ASSUME RestoreInv, ValidateOk PROVE RestoreInv'
<1> USE WorkflowAssumption, RestoreAssumption
<1>0. TypeOK /\ wf \in Records /\ saved \in Records
  BY DEF RestoreInv, TypeOK, EngineTypeOK
<1>1. /\ wf.state \in States /\ wf.step \in 0..4
      /\ saved.state \in States /\ saved.step \in 0..4
  BY <1>0, RecordFields
<1>2. Put(wf)
  BY DEF ValidateOk, StepDone
<1>3. wf \in Records
  BY <1>0
<1>4. /\ wf' \in Records /\ saved' \in {saved, wf'} /\ saved' \in Records
      /\ faults' \in 0..MaxFaults /\ (faults' = 0 => faults = 0 /\ saved' = wf')
      /\ wf'.state = wf.state /\ wf'.step = wf.step
  BY <1>0, <1>2, <1>3, PutEffect
<1>5. TypeOK'
  BY <1>0, NextKeepsTypes DEF Next, Engine, EngineStep, Step
<1>6. StepLags'
  BY <1>0, <1>1, <1>4 DEF RestoreInv, ValidateOk, StepDone, TypeOK, EngineTypeOK, Doing,
     StepLags, Active, NoRecord
<1>7. WritingIsInside'
  BY <1>0, <1>1, <1>4 DEF RestoreInv, ValidateOk, StepDone, TypeOK, EngineTypeOK, Doing,
     WritingIsInside, Snapshot, Replace, ClosePools, Validate, VerifyOnline
<1>8. ReplacedIsNew'
  BY <1>0, <1>1, <1>4 DEF RestoreInv, ValidateOk, StepDone, TypeOK, EngineTypeOK, Doing,
     ReplacedIsNew, PastReplace, Active, Usable, StepLags, WritingIsInside, Snapshot,
     Replace, VerifyOnline, Validate, ClosePools
<1>9. SnapshotHolds'
  BY <1>0, <1>1, <1>4 DEF RestoreInv, ValidateOk, StepDone, TypeOK, EngineTypeOK, Doing,
     SnapshotHolds, FirstRun, NoRecord, Active, StepLags, WritingIsInside, Snapshot,
     Replace, ClosePools, Validate, VerifyOnline
<1>10. PutBackHolds'
  BY <1>0, <1>1, <1>4 DEF RestoreInv, ValidateOk, StepDone, TypeOK, EngineTypeOK, Doing,
     PutBackHolds, SnapshotHolds, FirstRun, Active, StepLags, WritingIsInside, Snapshot,
     Replace, VerifyOnline, Validate, ClosePools
<1> QED
  BY <1>5, <1>6, <1>7, <1>8, <1>9, <1>10 DEF RestoreInv

LEMMA VerifyOkKeeps == ASSUME RestoreInv, VerifyOk PROVE RestoreInv'
<1> USE WorkflowAssumption, RestoreAssumption
<1>0. TypeOK /\ wf \in Records /\ saved \in Records
  BY DEF RestoreInv, TypeOK, EngineTypeOK
<1>1. /\ wf.state \in States /\ wf.step \in 0..4
      /\ saved.state \in States /\ saved.step \in 0..4
  BY <1>0, RecordFields
<1>2. Put(wf)
  BY DEF VerifyOk, StepDone
<1>3. wf \in Records
  BY <1>0
<1>4. /\ wf' \in Records /\ saved' \in {saved, wf'} /\ saved' \in Records
      /\ faults' \in 0..MaxFaults /\ (faults' = 0 => faults = 0 /\ saved' = wf')
      /\ wf'.state = wf.state /\ wf'.step = wf.step
  BY <1>0, <1>2, <1>3, PutEffect
<1>5. TypeOK'
  BY <1>0, NextKeepsTypes DEF Next, Engine, EngineStep, Step
<1>6. StepLags'
  BY <1>0, <1>1, <1>4 DEF RestoreInv, VerifyOk, StepDone, TypeOK, EngineTypeOK, Doing,
     StepLags, Active, NoRecord
<1>7. WritingIsInside'
  BY <1>0, <1>1, <1>4 DEF RestoreInv, VerifyOk, StepDone, TypeOK, EngineTypeOK, Doing,
     WritingIsInside, Snapshot, Replace, ClosePools, Validate, VerifyOnline
<1>8. ReplacedIsNew'
  BY <1>0, <1>1, <1>4 DEF RestoreInv, VerifyOk, StepDone, TypeOK, EngineTypeOK, Doing,
     ReplacedIsNew, PastReplace, Active, Usable, StepLags, WritingIsInside, Snapshot,
     Replace, VerifyOnline, Validate, ClosePools
<1>9. SnapshotHolds'
  BY <1>0, <1>1, <1>4 DEF RestoreInv, VerifyOk, StepDone, TypeOK, EngineTypeOK, Doing,
     SnapshotHolds, FirstRun, NoRecord, Active, StepLags, WritingIsInside, Snapshot,
     Replace, ClosePools, Validate, VerifyOnline
<1>10. PutBackHolds'
  BY <1>0, <1>1, <1>4 DEF RestoreInv, VerifyOk, StepDone, TypeOK, EngineTypeOK, Doing,
     PutBackHolds, SnapshotHolds, FirstRun, Active, StepLags, WritingIsInside, Snapshot,
     Replace, VerifyOnline, Validate, ClosePools
<1> QED
  BY <1>5, <1>6, <1>7, <1>8, <1>9, <1>10 DEF RestoreInv

LEMMA CheckErrKeeps == ASSUME RestoreInv, CheckErr PROVE RestoreInv'
<1> USE WorkflowAssumption, RestoreAssumption
<1>0. TypeOK /\ wf \in Records /\ saved \in Records
  BY DEF RestoreInv, TypeOK, EngineTypeOK
<1>1. /\ wf.state \in States /\ wf.step \in 0..4
      /\ saved.state \in States /\ saved.step \in 0..4
  BY <1>0, RecordFields
<1>2. Put([wf EXCEPT !.state = "failed"])
  BY DEF CheckErr, StepFailed
<1>3. /\ [wf EXCEPT !.state = "failed"] \in Records
      /\ [wf EXCEPT !.state = "failed"].state = "failed"
      /\ [wf EXCEPT !.state = "failed"].step = wf.step
  BY <1>0, WithState DEF States
<1>4. /\ wf' \in Records /\ saved' \in {saved, wf'} /\ saved' \in Records
      /\ faults' \in 0..MaxFaults /\ (faults' = 0 => faults = 0 /\ saved' = wf')
      /\ wf'.state = "failed" /\ wf'.step = wf.step
  BY <1>0, <1>2, <1>3, PutEffect
<1>5. TypeOK'
  BY <1>0, NextKeepsTypes DEF Next, Engine, EngineStep, Step
<1>6. StepLags'
  BY <1>0, <1>1, <1>4 DEF RestoreInv, CheckErr, StepFailed, TypeOK, EngineTypeOK, Doing,
     StepLags, Active, NoRecord
<1>7. WritingIsInside'
  BY <1>0, <1>1, <1>4 DEF RestoreInv, CheckErr, StepFailed, TypeOK, EngineTypeOK, Doing,
     WritingIsInside, Snapshot, Replace, ClosePools, Validate, VerifyOnline
<1>8. ReplacedIsNew'
  BY <1>0, <1>1, <1>4 DEF RestoreInv, CheckErr, StepFailed, TypeOK, EngineTypeOK, Doing,
     ReplacedIsNew, PastReplace, Active, Usable, StepLags, WritingIsInside, Snapshot,
     Replace, VerifyOnline, Validate, ClosePools
<1>9. SnapshotHolds'
  BY <1>0, <1>1, <1>4 DEF RestoreInv, CheckErr, StepFailed, TypeOK, EngineTypeOK, Doing,
     SnapshotHolds, FirstRun, NoRecord, Active, StepLags, WritingIsInside, Snapshot,
     Replace, ClosePools, Validate, VerifyOnline
<1>10. PutBackHolds'
  BY <1>0, <1>1, <1>4 DEF RestoreInv, CheckErr, StepFailed, TypeOK, EngineTypeOK, Doing,
     PutBackHolds, SnapshotHolds, FirstRun, Active, StepLags, WritingIsInside, Snapshot,
     Replace, VerifyOnline, Validate, ClosePools
<1> QED
  BY <1>5, <1>6, <1>7, <1>8, <1>9, <1>10 DEF RestoreInv

LEMMA PutBackRemoveKeeps == ASSUME RestoreInv, PutBackRemove PROVE RestoreInv'
<1> USE WorkflowAssumption, RestoreAssumption
<1>0. TypeOK /\ wf \in Records /\ saved \in Records
  BY DEF RestoreInv, TypeOK, EngineTypeOK
<1>1. /\ wf.state \in States /\ wf.step \in 0..4
      /\ saved.state \in States /\ saved.step \in 0..4
  BY <1>0, RecordFields
<1>5. TypeOK'
  BY <1>0, NextKeepsTypes DEF Next, Engine, EngineStep, Step
<1>6. StepLags'
  BY <1>0, <1>1 DEF RestoreInv, PutBackRemove, engineVars, TypeOK, EngineTypeOK, Doing,
     StepLags, Active, NoRecord
<1>7. WritingIsInside'
  BY <1>0, <1>1 DEF RestoreInv, PutBackRemove, engineVars, TypeOK, EngineTypeOK, Doing,
     WritingIsInside, Snapshot, Replace, ClosePools, Validate, VerifyOnline
<1>8. ReplacedIsNew'
  BY <1>0, <1>1 DEF RestoreInv, PutBackRemove, engineVars, TypeOK, EngineTypeOK, Doing,
     ReplacedIsNew, PastReplace, Active, Usable, StepLags, WritingIsInside, Snapshot,
     Replace, VerifyOnline, Validate, ClosePools
<1>9. SnapshotHolds'
  BY <1>0, <1>1 DEF RestoreInv, PutBackRemove, engineVars, TypeOK, EngineTypeOK, Doing,
     SnapshotHolds, FirstRun, NoRecord, Active, StepLags, WritingIsInside, Snapshot,
     Replace, ClosePools, Validate, VerifyOnline
<1>10. PutBackHolds'
  BY <1>0, <1>1 DEF RestoreInv, PutBackRemove, engineVars, TypeOK, EngineTypeOK, Doing,
     PutBackHolds, SnapshotHolds, FirstRun, Active, StepLags, WritingIsInside, Snapshot,
     Replace, VerifyOnline, Validate, ClosePools
<1> QED
  BY <1>5, <1>6, <1>7, <1>8, <1>9, <1>10 DEF RestoreInv

LEMMA PutBackOpenKeeps == ASSUME RestoreInv, PutBackOpen PROVE RestoreInv'
<1> USE WorkflowAssumption, RestoreAssumption
<1>0. TypeOK /\ wf \in Records /\ saved \in Records
  BY DEF RestoreInv, TypeOK, EngineTypeOK
<1>1. /\ wf.state \in States /\ wf.step \in 0..4
      /\ saved.state \in States /\ saved.step \in 0..4
  BY <1>0, RecordFields
<1>5. TypeOK'
  BY <1>0, NextKeepsTypes DEF Next, Engine, EngineStep, Step
<1>6. StepLags'
  BY <1>0, <1>1 DEF RestoreInv, PutBackOpen, engineVars, TypeOK, EngineTypeOK, Doing,
     StepLags, Active, NoRecord
<1>7. WritingIsInside'
  BY <1>0, <1>1 DEF RestoreInv, PutBackOpen, engineVars, TypeOK, EngineTypeOK, Doing,
     WritingIsInside, Snapshot, Replace, ClosePools, Validate, VerifyOnline
<1>8. ReplacedIsNew'
  BY <1>0, <1>1 DEF RestoreInv, PutBackOpen, engineVars, TypeOK, EngineTypeOK, Doing,
     ReplacedIsNew, PastReplace, Active, Usable, StepLags, WritingIsInside, Snapshot,
     Replace, VerifyOnline, Validate, ClosePools
<1>9. SnapshotHolds'
  BY <1>0, <1>1 DEF RestoreInv, PutBackOpen, engineVars, TypeOK, EngineTypeOK, Doing,
     SnapshotHolds, FirstRun, NoRecord, Active, StepLags, WritingIsInside, Snapshot,
     Replace, ClosePools, Validate, VerifyOnline
<1>10. PutBackHolds'
  BY <1>0, <1>1 DEF RestoreInv, PutBackOpen, engineVars, TypeOK, EngineTypeOK, Doing,
     PutBackHolds, SnapshotHolds, FirstRun, Active, StepLags, WritingIsInside, Snapshot,
     Replace, VerifyOnline, Validate, ClosePools
<1> QED
  BY <1>5, <1>6, <1>7, <1>8, <1>9, <1>10 DEF RestoreInv

LEMMA PutBackCopyKeeps == ASSUME RestoreInv, PutBackCopy PROVE RestoreInv'
<1> USE WorkflowAssumption, RestoreAssumption
<1>0. TypeOK /\ wf \in Records /\ saved \in Records
  BY DEF RestoreInv, TypeOK, EngineTypeOK
<1>1. /\ wf.state \in States /\ wf.step \in 0..4
      /\ saved.state \in States /\ saved.step \in 0..4
  BY <1>0, RecordFields
<1>5. TypeOK'
  BY <1>0, NextKeepsTypes DEF Next, Engine, EngineStep, Step
<1>6. StepLags'
  BY <1>0, <1>1 DEF RestoreInv, PutBackCopy, Compensated, TypeOK, EngineTypeOK, Doing,
     StepLags, Active, NoRecord
<1>7. WritingIsInside'
  BY <1>0, <1>1 DEF RestoreInv, PutBackCopy, Compensated, TypeOK, EngineTypeOK, Doing,
     WritingIsInside, Snapshot, Replace, ClosePools, Validate, VerifyOnline
<1>8. ReplacedIsNew'
  BY <1>0, <1>1 DEF RestoreInv, PutBackCopy, Compensated, TypeOK, EngineTypeOK, Doing,
     ReplacedIsNew, PastReplace, Active, Usable, StepLags, WritingIsInside, Snapshot,
     Replace, VerifyOnline, Validate, ClosePools
<1>9. SnapshotHolds'
  BY <1>0, <1>1 DEF RestoreInv, PutBackCopy, Compensated, TypeOK, EngineTypeOK, Doing,
     SnapshotHolds, FirstRun, NoRecord, Active, StepLags, WritingIsInside, Snapshot,
     Replace, ClosePools, Validate, VerifyOnline
<1>10. PutBackHolds'
  BY <1>0, <1>1 DEF RestoreInv, PutBackCopy, Compensated, TypeOK, EngineTypeOK, Doing,
     PutBackHolds, SnapshotHolds, FirstRun, Active, StepLags, WritingIsInside, Snapshot,
     Replace, VerifyOnline, Validate, ClosePools
<1> QED
  BY <1>5, <1>6, <1>7, <1>8, <1>9, <1>10 DEF RestoreInv

LEMMA PutBackErrKeeps == ASSUME RestoreInv, PutBackErr PROVE RestoreInv'
<1> USE WorkflowAssumption, RestoreAssumption
<1>0. TypeOK /\ wf \in Records /\ saved \in Records
  BY DEF RestoreInv, TypeOK, EngineTypeOK
<1>1. /\ wf.state \in States /\ wf.step \in 0..4
      /\ saved.state \in States /\ saved.step \in 0..4
  BY <1>0, RecordFields
<1>5. TypeOK'
  BY <1>0, NextKeepsTypes DEF Next, Engine, EngineStep, Step
<1>6. StepLags'
  BY <1>0, <1>1 DEF RestoreInv, PutBackErr, CompensateFailed, TypeOK, EngineTypeOK, Doing,
     StepLags, Active, NoRecord
<1>7. WritingIsInside'
  BY <1>0, <1>1 DEF RestoreInv, PutBackErr, CompensateFailed, TypeOK, EngineTypeOK, Doing,
     WritingIsInside, Snapshot, Replace, ClosePools, Validate, VerifyOnline
<1>8. ReplacedIsNew'
  BY <1>0, <1>1 DEF RestoreInv, PutBackErr, CompensateFailed, TypeOK, EngineTypeOK, Doing,
     ReplacedIsNew, PastReplace, Active, Usable, StepLags, WritingIsInside, Snapshot,
     Replace, VerifyOnline, Validate, ClosePools
<1>9. SnapshotHolds'
  BY <1>0, <1>1 DEF RestoreInv, PutBackErr, CompensateFailed, TypeOK, EngineTypeOK, Doing,
     SnapshotHolds, FirstRun, NoRecord, Active, StepLags, WritingIsInside, Snapshot,
     Replace, ClosePools, Validate, VerifyOnline
<1>10. PutBackHolds'
  BY <1>0, <1>1 DEF RestoreInv, PutBackErr, CompensateFailed, TypeOK, EngineTypeOK, Doing,
     PutBackHolds, SnapshotHolds, FirstRun, Active, StepLags, WritingIsInside, Snapshot,
     Replace, VerifyOnline, Validate, ClosePools
<1> QED
  BY <1>5, <1>6, <1>7, <1>8, <1>9, <1>10 DEF RestoreInv

LEMMA BeginsKeeps == ASSUME RestoreInv, Begins PROVE RestoreInv'
<1> USE WorkflowAssumption, RestoreAssumption
<1>0. TypeOK /\ wf \in Records /\ saved \in Records
  BY DEF RestoreInv, TypeOK, EngineTypeOK
<1>1. /\ wf.state \in States /\ wf.step \in 0..4
      /\ saved.state \in States /\ saved.step \in 0..4
  BY <1>0, RecordFields
<1>5. TypeOK'
  BY <1>0, NextKeepsTypes DEF Next, Engine, EngineStep, Step
<1>6. StepLags'
  BY <1>0, <1>1 DEF RestoreInv, Begins, Begin, TypeOK, EngineTypeOK, Doing, StepLags,
     Active, NoRecord
<1>7. WritingIsInside'
  BY <1>0, <1>1 DEF RestoreInv, Begins, Begin, TypeOK, EngineTypeOK, Doing, WritingIsInside,
     Snapshot, Replace, ClosePools, Validate, VerifyOnline
<1>8. ReplacedIsNew'
  BY <1>0, <1>1 DEF RestoreInv, Begins, Begin, TypeOK, EngineTypeOK, Doing, ReplacedIsNew,
     PastReplace, Active, Usable, StepLags, WritingIsInside, Snapshot, Replace,
     VerifyOnline, Validate, ClosePools
<1>9. SnapshotHolds'
  BY <1>0, <1>1 DEF RestoreInv, Begins, Begin, TypeOK, EngineTypeOK, Doing, SnapshotHolds,
     FirstRun, NoRecord, Active, StepLags, WritingIsInside, Snapshot, Replace, ClosePools,
     Validate, VerifyOnline
<1>10. PutBackHolds'
  BY <1>0, <1>1 DEF RestoreInv, Begins, Begin, TypeOK, EngineTypeOK, Doing, PutBackHolds,
     SnapshotHolds, FirstRun, Active, StepLags, WritingIsInside, Snapshot, Replace,
     VerifyOnline, Validate, ClosePools
<1> QED
  BY <1>5, <1>6, <1>7, <1>8, <1>9, <1>10 DEF RestoreInv

LEMMA CancelJobKeeps == ASSUME RestoreInv, CancelJob PROVE RestoreInv'
<1> USE WorkflowAssumption, RestoreAssumption
<1>0. TypeOK /\ wf \in Records /\ saved \in Records
  BY DEF RestoreInv, TypeOK, EngineTypeOK
<1>1. /\ wf.state \in States /\ wf.step \in 0..4
      /\ saved.state \in States /\ saved.step \in 0..4
  BY <1>0, RecordFields
<1>5. TypeOK'
  BY <1>0, NextKeepsTypes DEF Next, Engine, EngineStep, Step
<1>6. StepLags'
  BY <1>0, <1>1 DEF RestoreInv, CancelJob, Cancel, TypeOK, EngineTypeOK, Doing, StepLags,
     Active, NoRecord
<1>7. WritingIsInside'
  BY <1>0, <1>1 DEF RestoreInv, CancelJob, Cancel, TypeOK, EngineTypeOK, Doing,
     WritingIsInside, Snapshot, Replace, ClosePools, Validate, VerifyOnline
<1>8. ReplacedIsNew'
  BY <1>0, <1>1 DEF RestoreInv, CancelJob, Cancel, TypeOK, EngineTypeOK, Doing,
     ReplacedIsNew, PastReplace, Active, Usable, StepLags, WritingIsInside, Snapshot,
     Replace, VerifyOnline, Validate, ClosePools
<1>9. SnapshotHolds'
  BY <1>0, <1>1 DEF RestoreInv, CancelJob, Cancel, TypeOK, EngineTypeOK, Doing,
     SnapshotHolds, FirstRun, NoRecord, Active, StepLags, WritingIsInside, Snapshot,
     Replace, ClosePools, Validate, VerifyOnline
<1>10. PutBackHolds'
  BY <1>0, <1>1 DEF RestoreInv, CancelJob, Cancel, TypeOK, EngineTypeOK, Doing,
     PutBackHolds, SnapshotHolds, FirstRun, Active, StepLags, WritingIsInside, Snapshot,
     Replace, VerifyOnline, Validate, ClosePools
<1> QED
  BY <1>5, <1>6, <1>7, <1>8, <1>9, <1>10 DEF RestoreInv

LEMMA PersistKeeps == ASSUME RestoreInv, Persist PROVE RestoreInv'
<1> USE WorkflowAssumption, RestoreAssumption
<1>0. TypeOK /\ wf \in Records /\ saved \in Records
  BY DEF RestoreInv, TypeOK, EngineTypeOK
<1>1. /\ wf.state \in States /\ wf.step \in 0..4
      /\ saved.state \in States /\ saved.step \in 0..4
  BY <1>0, RecordFields
<1>5. TypeOK'
  BY <1>0, NextKeepsTypes DEF Next, Engine, EngineStep, Step
<1>6. StepLags'
  BY <1>0, <1>1 DEF RestoreInv, Persist, OtherWrite, TypeOK, EngineTypeOK, Doing, StepLags,
     Active, NoRecord
<1>7. WritingIsInside'
  BY <1>0, <1>1 DEF RestoreInv, Persist, OtherWrite, TypeOK, EngineTypeOK, Doing,
     WritingIsInside, Snapshot, Replace, ClosePools, Validate, VerifyOnline
<1>8. ReplacedIsNew'
  BY <1>0, <1>1 DEF RestoreInv, Persist, OtherWrite, TypeOK, EngineTypeOK, Doing,
     ReplacedIsNew, PastReplace, Active, Usable, StepLags, WritingIsInside, Snapshot,
     Replace, VerifyOnline, Validate, ClosePools
<1>9. SnapshotHolds'
  BY <1>0, <1>1 DEF RestoreInv, Persist, OtherWrite, TypeOK, EngineTypeOK, Doing,
     SnapshotHolds, FirstRun, NoRecord, Active, StepLags, WritingIsInside, Snapshot,
     Replace, ClosePools, Validate, VerifyOnline
<1>10. PutBackHolds'
  BY <1>0, <1>1 DEF RestoreInv, Persist, OtherWrite, TypeOK, EngineTypeOK, Doing,
     PutBackHolds, SnapshotHolds, FirstRun, Active, StepLags, WritingIsInside, Snapshot,
     Replace, VerifyOnline, Validate, ClosePools
<1> QED
  BY <1>5, <1>6, <1>7, <1>8, <1>9, <1>10 DEF RestoreInv

LEMMA KillServerKeeps == ASSUME RestoreInv, KillServer PROVE RestoreInv'
<1> USE WorkflowAssumption, RestoreAssumption
<1>0. TypeOK /\ wf \in Records /\ saved \in Records
  BY DEF RestoreInv, TypeOK, EngineTypeOK
<1>1. /\ wf.state \in States /\ wf.step \in 0..4
      /\ saved.state \in States /\ saved.step \in 0..4
  BY <1>0, RecordFields
<1>5. TypeOK'
  BY <1>0, NextKeepsTypes DEF Next, Engine, EngineStep, Step
<1>6. StepLags'
  BY <1>0, <1>1 DEF RestoreInv, KillServer, Kill, TypeOK, EngineTypeOK, Doing, StepLags,
     Active, NoRecord
<1>7. WritingIsInside'
  BY <1>0, <1>1 DEF RestoreInv, KillServer, Kill, TypeOK, EngineTypeOK, Doing,
     WritingIsInside, Snapshot, Replace, ClosePools, Validate, VerifyOnline
<1>8. ReplacedIsNew'
  BY <1>0, <1>1 DEF RestoreInv, KillServer, Kill, TypeOK, EngineTypeOK, Doing,
     ReplacedIsNew, PastReplace, Active, Usable, StepLags, WritingIsInside, Snapshot,
     Replace, VerifyOnline, Validate, ClosePools
<1>9. SnapshotHolds'
  BY <1>0, <1>1 DEF RestoreInv, KillServer, Kill, TypeOK, EngineTypeOK, Doing,
     SnapshotHolds, FirstRun, NoRecord, Active, StepLags, WritingIsInside, Snapshot,
     Replace, ClosePools, Validate, VerifyOnline
<1>10. PutBackHolds'
  BY <1>0, <1>1 DEF RestoreInv, KillServer, Kill, TypeOK, EngineTypeOK, Doing, PutBackHolds,
     SnapshotHolds, FirstRun, Active, StepLags, WritingIsInside, Snapshot, Replace,
     VerifyOnline, Validate, ClosePools
<1> QED
  BY <1>5, <1>6, <1>7, <1>8, <1>9, <1>10 DEF RestoreInv

LEMMA RestartKeeps == ASSUME RestoreInv, Restart PROVE RestoreInv'
<1> USE WorkflowAssumption, RestoreAssumption
<1>0. TypeOK /\ wf \in Records /\ saved \in Records
  BY DEF RestoreInv, TypeOK, EngineTypeOK
<1>1. /\ wf.state \in States /\ wf.step \in 0..4
      /\ saved.state \in States /\ saved.step \in 0..4
  BY <1>0, RecordFields
<1>2. /\ wf' = wf /\ saved' = saved /\ faults' = faults
      /\ \/ pc' = "loop" /\ at' = saved.step /\ saved.state \in Unfinished
         \/ pc' = "ended" /\ at' = at
  BY DEF Restart, Reconcile
<1>5. TypeOK'
  BY <1>0, NextKeepsTypes DEF Next, Engine, EngineStep, Step
<1>6. StepLags'
  BY <1>0, <1>1, <1>2 DEF RestoreInv, Restart, Reconcile, Unfinished, TypeOK, EngineTypeOK,
     Doing, StepLags, Active, NoRecord
<1>7. WritingIsInside'
  BY <1>0, <1>1, <1>2 DEF RestoreInv, Restart, Reconcile, Unfinished, TypeOK, EngineTypeOK,
     Doing, WritingIsInside, Snapshot, Replace, ClosePools, Validate, VerifyOnline
<1>8. ReplacedIsNew'
  BY <1>0, <1>1, <1>2 DEF RestoreInv, Restart, Reconcile, Unfinished, TypeOK, EngineTypeOK,
     Doing, ReplacedIsNew, PastReplace, Active, Usable, StepLags, WritingIsInside, Snapshot,
     Replace, VerifyOnline, Validate, ClosePools
<1>9. SnapshotHolds'
  BY <1>0, <1>1, <1>2 DEF RestoreInv, Restart, Reconcile, Unfinished, TypeOK, EngineTypeOK,
     Doing, SnapshotHolds, FirstRun, NoRecord, Active, StepLags, WritingIsInside, Snapshot,
     Replace, ClosePools, Validate, VerifyOnline
<1>10. PutBackHolds'
  BY <1>0, <1>1, <1>2 DEF RestoreInv, Restart, Reconcile, Unfinished, TypeOK, EngineTypeOK,
     Doing, PutBackHolds, SnapshotHolds, FirstRun, Active, StepLags, WritingIsInside,
     Snapshot, Replace, VerifyOnline, Validate, ClosePools
<1> QED
  BY <1>5, <1>6, <1>7, <1>8, <1>9, <1>10 DEF RestoreInv

-----------------------------------------------------------------------------
LEMMA RestoreInvStutter == ASSUME RestoreInv, UNCHANGED vars PROVE RestoreInv'
BY DEF RestoreInv, TypeOK, EngineTypeOK, StepLags, WritingIsInside, ReplacedIsNew,
   PastReplace, SnapshotHolds, PutBackHolds, FirstRun, Active, vars, engineVars

LEMMA RestoreInvNext == RestoreInv /\ [Next]_vars => RestoreInv'
<1> SUFFICES ASSUME RestoreInv, [Next]_vars PROVE RestoreInv'
  OBVIOUS
<1>1. CASE Engine
  BY <1>1, LoopCancelledKeeps, LoopStepKeeps, LoopEndKeeps, CompensateStartKeeps,
     CompensateSkipKeeps, CompensateEndErrKeeps, CompensateEndOkKeeps DEF Engine, EngineStep
<1>2. CASE Step
  BY <1>2, SnapshotNoneKeeps, SnapshotOpenKeeps, SnapshotCopyKeeps, SnapshotErrKeeps,
     ClosePoolsOkKeeps, ReplaceRemoveKeeps, ReplaceWriteKeeps, ReplaceOkKeeps,
     ReplaceErrKeeps, ValidateOkKeeps, VerifyOkKeeps, CheckErrKeeps, PutBackRemoveKeeps,
     PutBackOpenKeeps, PutBackCopyKeeps, PutBackErrKeeps DEF Step
<1>3. CASE Begins \/ CancelJob \/ Persist \/ KillServer \/ Restart
  BY <1>3, BeginsKeeps, CancelJobKeeps, PersistKeeps, KillServerKeeps, RestartKeeps
<1>4. CASE UNCHANGED vars
  BY <1>4, RestoreInvStutter
<1> QED
  BY <1>1, <1>2, <1>3, <1>4 DEF Next

\* The records lag behind the engine and never run ahead of it, a record past
\* replace goes with the restored file, and a first run keeps the old database
\* in the file or in the snapshot.
THEOREM RestoreInvariant == Spec => []RestoreInv
<1> QED
  BY RestoreInvInit, RestoreInvNext, PTL DEF Spec

\* fb_restore_replace: through a whole first run, over any kills, cancels and
\* failing steps, the old database is in the file or in <db>.pre-restore as long
\* as state.json can be written.
THEOREM RestoreKeepsOld == Spec => []OldKept
<1>1. RestoreInv => OldKept
  <2> SUFFICES ASSUME RestoreInv, runs <= 1, faults = 0 PROVE "orig" \in {file, pre}
    BY DEF OldKept
  <2>1. wf.step \in 0..4
    BY RecordFields DEF RestoreInv, TypeOK, EngineTypeOK
  <2> QED
    BY <2>1 DEF RestoreInv, SnapshotHolds, FirstRun, Snapshot, Replace
<1> QED
  BY <1>1, RestoreInvariant, PTL

\* What the record says at the end is what the file holds: "succeeded" the
\* restored backup (or at least a usable database), "compensated" past replace
\* the old one.
THEOREM RestoreRecordIsTrue == Spec => []RecordIsTrue
<1>1. RestoreInv => RecordIsTrue
  <2> SUFFICES ASSUME RestoreInv PROVE RecordIsTrue
    OBVIOUS
  <2>1. SucceededIsNew
    BY DEF RestoreInv, ReplacedIsNew, PastReplace, SucceededIsNew, VerifyOnline, Replace
  <2>2. SucceededIsUsable
    BY DEF RestoreInv, ReplacedIsNew, PastReplace, SucceededIsUsable
  <2>3. CompensatedIsOld
    BY DEF RestoreInv, PutBackHolds, FirstRun, CompensatedIsOld
  <2> QED
    BY <2>1, <2>2, <2>3 DEF RecordIsTrue
<1> QED
  BY <1>1, RestoreInvariant, PTL

=============================================================================
