--------------------------- MODULE ShutdownProofs ---------------------------
(***************************************************************************)
(* Machine-checked proofs about ShutdownWindow, for every number of runs,  *)
(* kills, failing persists, failing steps and cancels.                     *)
(***************************************************************************)
EXTENDS ShutdownWindow, TLAPS

\* What a stored record looks like after PutWorkflow, whether or not the write worked.
LEMMA PutEffect ==
  ASSUME TypeOK, NEW w \in Records, Put(w)
  PROVE  /\ wf' = w
         /\ wf' \in Records
         /\ saved' \in {saved, w}
         /\ saved' \in Records
         /\ faults' \in 0..MaxFaults
<1>1. wf' = w /\ saved' \in {saved, w} /\ saved \in Records
  BY DEF Put, TypeOK, EngineTypeOK
<1>2. faults' \in 0..MaxFaults
  BY WorkflowAssumption DEF Put, TypeOK, EngineTypeOK
<1> QED
  BY <1>1, <1>2

\* The fields of a stored record.
LEMMA RecordFields ==
  ASSUME NEW r \in Records
  PROVE  r.state \in States /\ r.step \in 0..4
BY ShutdownAssumption DEF Records

\* The record Run stores.
LEMMA FirstRecord ==
  /\ NoRecord \in Records
  /\ [state |-> "running", step |-> 0] \in Records
BY ShutdownAssumption DEF Records, NoRecord, States

-----------------------------------------------------------------------------
LEMMA ShutdownInvInit == Init => ShutdownInv
<1> SUFFICES ASSUME Init PROVE ShutdownInv
  OBVIOUS
<1>1. TypeOK
  <2>1. wf \in Records /\ saved \in Records
    BY FirstRecord DEF Init, EngineInit
  <2>2. compErr \in BOOLEAN /\ cancelled \in BOOLEAN /\ byJob \in BOOLEAN
    BY DEF Init, EngineInit
  <2>3. at \in 0..N /\ runs \in 0..MaxRuns /\ faults \in 0..MaxFaults /\ kills \in 0..MaxKills
    BY WorkflowAssumption DEF Init, EngineInit
  <2>4. /\ pc \in {"idle", "loop", "do", "failing", "comp", "ended", "down"}
        /\ db \in {"online", "shut"} /\ fails \in 0..MaxFails /\ blame \subseteq Blames
    BY ShutdownAssumption DEF Init, EngineInit, Blames
  <2> QED
    BY <2>1, <2>2, <2>3, <2>4 DEF TypeOK, EngineTypeOK
<1>2. OpenIsCovered /\ ForwardIsStored /\ LastStepIsOnline /\ OnlyJobsAreCancelled
  BY DEF Init, EngineInit, OpenIsCovered, ForwardIsStored, LastStepIsOnline,
     OnlyJobsAreCancelled, PastOnline, Forward, NoRecord
<1> QED
  BY <1>1, <1>2 DEF ShutdownInv

LEMMA BeginsKeeps == ASSUME ShutdownInv, Begins PROVE ShutdownInv'
<1> USE WorkflowAssumption, ShutdownAssumption
<1>0. TypeOK /\ wf \in Records /\ saved \in Records
  BY DEF ShutdownInv, TypeOK, EngineTypeOK
<1>5. TypeOK'
  <2>1. wf' \in Records /\ saved' \in Records
    BY <1>0, FirstRecord DEF Begins, Begin
  <2>2. compErr' \in BOOLEAN /\ cancelled' \in BOOLEAN /\ byJob' \in BOOLEAN
    BY <1>0 DEF Begins, Begin, TypeOK, EngineTypeOK
  <2>3. at' \in 0..N /\ runs' \in 0..MaxRuns /\ faults' \in 0..MaxFaults /\ kills' \in 0..MaxKills
    BY <1>0, FirstRecord DEF Begins, Begin, TypeOK, EngineTypeOK
  <2>4. /\ pc' \in {"idle", "loop", "do", "failing", "comp", "ended", "down"}
        /\ db' \in {"online", "shut"} /\ fails' \in 0..MaxFails /\ blame' \subseteq Blames
    BY <1>0 DEF Begins, Begin, TypeOK, EngineTypeOK, Blames
  <2> QED
    BY <2>1, <2>2, <2>3, <2>4 DEF TypeOK, EngineTypeOK
<1>6. OpenIsCovered'
  BY <1>0, RecordFields, FirstRecord DEF ShutdownInv, Begins, Begin, OpenIsCovered,
     ForwardIsStored
<1>7. ForwardIsStored'
  BY <1>0, RecordFields, FirstRecord DEF Begins, Begin, ForwardIsStored, Forward, Reaches,
     Unfinished, GfixOnlineStep
<1>8. LastStepIsOnline'
  BY <1>0, RecordFields, FirstRecord DEF ShutdownInv, Begins, Begin, LastStepIsOnline,
     PastOnline, GfixOnlineStep
<1>9. OnlyJobsAreCancelled'
  BY <1>0, RecordFields, FirstRecord DEF Begins, Begin, OnlyJobsAreCancelled
<1> QED
  BY <1>5, <1>6, <1>7, <1>8, <1>9 DEF ShutdownInv

LEMMA LoopCancelledKeeps == ASSUME ShutdownInv, Engine /\ LoopCancelled PROVE ShutdownInv'
<1> USE WorkflowAssumption, ShutdownAssumption
<1>0. TypeOK /\ wf \in Records /\ saved \in Records
  BY DEF ShutdownInv, TypeOK, EngineTypeOK
<1>1. Put([wf EXCEPT !.state = "failed"])
  BY DEF Engine, LoopCancelled
<1>2. [wf EXCEPT !.state = "failed"] \in Records
  BY <1>0, ShutdownAssumption DEF Records, States
<1>3. /\ wf' = [wf EXCEPT !.state = "failed"] /\ wf' \in Records
      /\ saved' \in {saved, wf'} /\ saved' \in Records /\ faults' \in 0..MaxFaults
  BY <1>0, <1>1, <1>2, PutEffect
<1>4. wf'.state = "failed" /\ wf'.step = wf.step
  BY <1>0, <1>3, ShutdownAssumption DEF Records, States
<1>5. TypeOK'
  BY <1>0, <1>3, <1>4 DEF Engine, LoopCancelled, TypeOK, EngineTypeOK
<1>6. OpenIsCovered'
  BY <1>0, <1>3, <1>4 DEF ShutdownInv, Engine, LoopCancelled, OpenIsCovered,
     OnlyJobsAreCancelled, Reaches
<1>7. ForwardIsStored'
  BY <1>0, <1>3, <1>4 DEF LoopCancelled, ForwardIsStored, Forward
<1>8. LastStepIsOnline'
  BY <1>0, <1>3, <1>4 DEF ShutdownInv, Engine, LastStepIsOnline, PastOnline
<1>9. OnlyJobsAreCancelled'
  BY <1>0, <1>3, <1>4 DEF ShutdownInv, LoopCancelled, OnlyJobsAreCancelled
<1> QED
  BY <1>5, <1>6, <1>7, <1>8, <1>9 DEF ShutdownInv

LEMMA LoopStepKeeps == ASSUME ShutdownInv, Engine /\ LoopStep PROVE ShutdownInv'
<1> USE WorkflowAssumption, ShutdownAssumption
<1>0. TypeOK /\ wf \in Records /\ saved \in Records
  BY DEF ShutdownInv, TypeOK, EngineTypeOK
<1>1. at \in 0..4 /\ Put([wf EXCEPT !.step = at])
  BY DEF Engine, LoopStep, ShutdownInv, TypeOK, EngineTypeOK
<1>2. [wf EXCEPT !.step = at] \in Records
  BY <1>0, <1>1, ShutdownAssumption DEF Records, States
<1>3. /\ wf' = [wf EXCEPT !.step = at] /\ wf' \in Records
      /\ saved' \in {saved, wf'} /\ saved' \in Records /\ faults' \in 0..MaxFaults
  BY <1>0, <1>1, <1>2, PutEffect
<1>4. wf'.state = wf.state /\ wf'.step = at
  BY <1>0, <1>1, <1>3, ShutdownAssumption DEF Records, States
<1>5. TypeOK'
  BY <1>0, <1>1, <1>3, <1>4 DEF Engine, LoopStep, TypeOK, EngineTypeOK
<1>6. OpenIsCovered'
  BY <1>0, <1>1, <1>3, <1>4 DEF ShutdownInv, Engine, LoopStep, OpenIsCovered, Forward,
     Reaches
<1>7. ForwardIsStored'
  <2>1. /\ pc' = "do" /\ at' = at /\ db' = db /\ wf.state \in Unfinished
        /\ at <= GfixOnlineStep => Reaches(saved)
        /\ at > GfixOnlineStep => db = "online"
    BY <1>0 DEF ShutdownInv, Engine, LoopStep, ForwardIsStored, Forward
  <2>2. at' < N /\ wf'.step = at' /\ wf'.state \in Unfinished
    BY <1>1, <1>4, <2>1
  <2>3. at' <= GfixOnlineStep => Reaches(wf')
    BY <2>1, <2>2 DEF Reaches, GfixOnlineStep
  <2>4. at' <= GfixOnlineStep => Reaches(saved')
    <3>1. CASE saved' = saved
      BY <2>1, <3>1 DEF Reaches
    <3>2. CASE saved' = wf'
      BY <2>3, <3>2 DEF Reaches
    <3> QED
      BY <1>3, <3>1, <3>2
  <2>5. at' # N
    BY <1>1, <2>1
  <2> QED
    BY <2>1, <2>2, <2>3, <2>4, <2>5 DEF ForwardIsStored, Reaches
<1>8. LastStepIsOnline'
  BY <1>0, <1>1, <1>3, <1>4 DEF ShutdownInv, Engine, LoopStep, ForwardIsStored,
     LastStepIsOnline, PastOnline, Forward, Unfinished
<1>9. OnlyJobsAreCancelled'
  BY <1>0, <1>1, <1>3, <1>4 DEF LoopStep, OnlyJobsAreCancelled
<1> QED
  BY <1>5, <1>6, <1>7, <1>8, <1>9 DEF ShutdownInv

LEMMA LoopEndKeeps == ASSUME ShutdownInv, Engine /\ LoopEnd PROVE ShutdownInv'
<1> USE WorkflowAssumption, ShutdownAssumption
<1>0. TypeOK /\ wf \in Records /\ saved \in Records
  BY DEF ShutdownInv, TypeOK, EngineTypeOK
<1>1. Put([wf EXCEPT !.state = "succeeded"])
  BY DEF Engine, LoopEnd
<1>2. [wf EXCEPT !.state = "succeeded"] \in Records
  BY <1>0, ShutdownAssumption DEF Records, States
<1>3. /\ wf' = [wf EXCEPT !.state = "succeeded"] /\ wf' \in Records
      /\ saved' \in {saved, wf'} /\ saved' \in Records /\ faults' \in 0..MaxFaults
  BY <1>0, <1>1, <1>2, PutEffect
<1>4. wf'.state = "succeeded" /\ wf'.step = wf.step
  BY <1>0, <1>3, ShutdownAssumption DEF Records, States
<1>5. TypeOK'
  BY <1>0, <1>3, <1>4 DEF Engine, LoopEnd, TypeOK, EngineTypeOK
<1>6. OpenIsCovered'
  BY <1>0, <1>3, <1>4 DEF ShutdownInv, Engine, LoopEnd, OpenIsCovered, GfixOnlineStep
<1>7. ForwardIsStored'
  BY <1>0, <1>3, <1>4 DEF LoopEnd, ForwardIsStored, Forward
<1>8. LastStepIsOnline'
  <2>1. PastOnline(wf)'
    BY <1>0, <1>3, <1>4, RecordFields DEF ShutdownInv, Engine, LoopEnd, ForwardIsStored,
       PastOnline, Forward, GfixOnlineStep
  <2>2. CASE saved' = saved
    <3>1. PastOnline(saved)'
      BY <1>0, <1>3, <1>4, RecordFields, <2>2 DEF ShutdownInv, Engine,
         LastStepIsOnline, PastOnline
    <3> QED
      BY <2>1, <3>1 DEF LastStepIsOnline
  <2>3. CASE saved' = wf'
    BY <2>1, <2>3 DEF LastStepIsOnline, PastOnline
  <2> QED
    BY <1>0, <1>3, <1>4, RecordFields, <2>2, <2>3
<1>9. OnlyJobsAreCancelled'
  BY <1>0, <1>3, <1>4 DEF ShutdownInv, LoopEnd, OnlyJobsAreCancelled
<1> QED
  BY <1>5, <1>6, <1>7, <1>8, <1>9 DEF ShutdownInv

LEMMA CompensateStartKeeps == ASSUME ShutdownInv, Engine /\ CompensateStart PROVE ShutdownInv'
<1> USE WorkflowAssumption, ShutdownAssumption
<1>0. TypeOK /\ wf \in Records /\ saved \in Records
  BY DEF ShutdownInv, TypeOK, EngineTypeOK
<1>1. Put([wf EXCEPT !.state = "compensating"])
  BY DEF Engine, CompensateStart
<1>2. [wf EXCEPT !.state = "compensating"] \in Records
  BY <1>0, ShutdownAssumption DEF Records, States
<1>3. /\ wf' = [wf EXCEPT !.state = "compensating"] /\ wf' \in Records
      /\ saved' \in {saved, wf'} /\ saved' \in Records /\ faults' \in 0..MaxFaults
  BY <1>0, <1>1, <1>2, PutEffect
<1>4. wf'.state = "compensating" /\ wf'.step = wf.step
  BY <1>0, <1>3, ShutdownAssumption DEF Records, States
<1>5. TypeOK'
  BY <1>0, <1>3, <1>4 DEF Engine, CompensateStart, TypeOK, EngineTypeOK
<1>6. OpenIsCovered'
  BY <1>0, <1>3, <1>4 DEF ShutdownInv, Engine, CompensateStart, OpenIsCovered, Forward,
     Reaches, Unfinished
<1>7. ForwardIsStored'
  BY <1>0, <1>3, <1>4 DEF CompensateStart, ForwardIsStored, Forward
<1>8. LastStepIsOnline'
  BY <1>0, <1>3, <1>4 DEF ShutdownInv, Engine, LastStepIsOnline, PastOnline
<1>9. OnlyJobsAreCancelled'
  BY <1>0, <1>3, <1>4 DEF ShutdownInv, CompensateStart, OnlyJobsAreCancelled
<1> QED
  BY <1>5, <1>6, <1>7, <1>8, <1>9 DEF ShutdownInv

LEMMA CompensateSkipKeeps == ASSUME ShutdownInv, Engine /\ CompensateSkip PROVE ShutdownInv'
<1> USE WorkflowAssumption, ShutdownAssumption
<1>0. TypeOK /\ wf \in Records /\ saved \in Records
  BY DEF ShutdownInv, TypeOK, EngineTypeOK
<1>5. TypeOK'
  BY <1>0, RecordFields, FirstRecord DEF Engine, CompensateSkip, TypeOK, EngineTypeOK
<1>6. OpenIsCovered'
  BY <1>0, RecordFields, FirstRecord DEF ShutdownInv, Engine, CompensateSkip,
     OpenIsCovered, Forward, GfixOnlineStep
<1>7. ForwardIsStored'
  BY <1>0, RecordFields, FirstRecord DEF CompensateSkip, ForwardIsStored, Forward
<1>8. LastStepIsOnline'
  BY <1>0, RecordFields, FirstRecord DEF ShutdownInv, Engine, CompensateSkip,
     LastStepIsOnline, PastOnline
<1>9. OnlyJobsAreCancelled'
  BY <1>0, RecordFields, FirstRecord DEF ShutdownInv, CompensateSkip, OnlyJobsAreCancelled
<1> QED
  BY <1>5, <1>6, <1>7, <1>8, <1>9 DEF ShutdownInv

LEMMA CompensateEndKeeps == ASSUME ShutdownInv, Engine /\ CompensateEnd PROVE ShutdownInv'
<1> USE WorkflowAssumption, ShutdownAssumption
<1>0. TypeOK /\ wf \in Records /\ saved \in Records
  BY DEF ShutdownInv, TypeOK, EngineTypeOK
<1>1. /\ wf \in Records /\ [wf EXCEPT !.state = "compensated"] \in Records
      /\ [wf EXCEPT !.state = "compensated"].step = wf.step
      /\ [wf EXCEPT !.state = "compensated"].state = "compensated"
  BY <1>0, ShutdownAssumption DEF Records, States
<1>2. Put(wf) \/ Put([wf EXCEPT !.state = "compensated"])
  BY DEF Engine, CompensateEnd
<1>3. /\ wf' \in {wf, [wf EXCEPT !.state = "compensated"]} /\ wf' \in Records
      /\ saved' \in {saved, wf'} /\ saved' \in Records /\ faults' \in 0..MaxFaults
  BY <1>0, <1>1, <1>2, PutEffect
<1>4. wf'.state \in {wf.state, "compensated"} /\ wf'.step = wf.step
  BY <1>1, <1>3
<1>5. TypeOK'
  BY <1>0, <1>3, <1>4 DEF Engine, CompensateEnd, TypeOK, EngineTypeOK
<1>6. OpenIsCovered'
  BY <1>0, <1>3, <1>4 DEF ShutdownInv, Engine, CompensateEnd, OpenIsCovered, Forward,
     GfixOnlineStep
<1>7. ForwardIsStored'
  BY <1>0, <1>3, <1>4 DEF CompensateEnd, ForwardIsStored, Forward
<1>8. LastStepIsOnline'
  BY <1>0, <1>3, <1>4 DEF ShutdownInv, Engine, LastStepIsOnline, PastOnline
<1>9. OnlyJobsAreCancelled'
  BY <1>0, <1>3, <1>4 DEF ShutdownInv, CompensateEnd, OnlyJobsAreCancelled
<1> QED
  BY <1>5, <1>6, <1>7, <1>8, <1>9 DEF ShutdownInv

LEMMA OtherStepOkKeeps == ASSUME ShutdownInv, OtherStepOk PROVE ShutdownInv'
<1> USE WorkflowAssumption, ShutdownAssumption
<1>0. TypeOK /\ wf \in Records /\ saved \in Records
  BY DEF ShutdownInv, TypeOK, EngineTypeOK
<1>1. Put(wf)
  BY DEF OtherStepOk, StepDone
<1>2. wf' = wf /\ saved' \in {saved, wf} /\ saved' \in Records /\ faults' \in 0..MaxFaults
  BY <1>0, <1>1, PutEffect
<1>5. TypeOK'
  BY <1>0, <1>2 DEF ShutdownInv, OtherStepOk, StepDone, TypeOK, EngineTypeOK,
     ForwardIsStored, Forward
<1>6. OpenIsCovered'
  BY <1>0, <1>2 DEF ShutdownInv, OtherStepOk, StepDone, TypeOK, EngineTypeOK,
     OpenIsCovered, Forward, GfixOnlineStep
<1>7. ForwardIsStored'
  BY <1>0, <1>2 DEF ShutdownInv, OtherStepOk, StepDone, TypeOK, EngineTypeOK,
     ForwardIsStored, Forward, GfixOnlineStep
<1>8. LastStepIsOnline'
  BY <1>0, <1>2 DEF ShutdownInv, OtherStepOk, LastStepIsOnline, PastOnline
<1>9. OnlyJobsAreCancelled'
  BY <1>0, <1>2 DEF ShutdownInv, OtherStepOk, StepDone, OnlyJobsAreCancelled
<1> QED
  BY <1>5, <1>6, <1>7, <1>8, <1>9 DEF ShutdownInv

LEMMA OtherStepErrKeeps == ASSUME ShutdownInv, OtherStepErr PROVE ShutdownInv'
<1> USE WorkflowAssumption, ShutdownAssumption
<1>0. TypeOK /\ wf \in Records /\ saved \in Records
  BY DEF ShutdownInv, TypeOK, EngineTypeOK
<1>1. Put([wf EXCEPT !.state = "failed"])
  BY DEF OtherStepErr, StepFailed, Failure, BlameShut, Blames
<1>2. [wf EXCEPT !.state = "failed"] \in Records
  BY <1>0, ShutdownAssumption DEF Records, States
<1>3. /\ wf' = [wf EXCEPT !.state = "failed"] /\ wf' \in Records
      /\ saved' \in {saved, wf'} /\ saved' \in Records /\ faults' \in 0..MaxFaults
  BY <1>0, <1>1, <1>2, PutEffect
<1>4. wf'.state = "failed" /\ wf'.step = wf.step
  BY <1>0, <1>3, ShutdownAssumption DEF Records, States
<1>5. TypeOK'
  BY <1>0, <1>3, <1>4 DEF OtherStepErr, StepFailed, Failure, BlameShut, Blames, TypeOK,
     EngineTypeOK
<1>6. OpenIsCovered'
  BY <1>0, <1>3, <1>4 DEF ShutdownInv, OtherStepErr, StepFailed, BlameShut, TypeOK,
     EngineTypeOK, OpenIsCovered, GfixShut, GfixOnlineStep
<1>7. ForwardIsStored'
  BY <1>0, <1>3, <1>4 DEF OtherStepErr, StepFailed, ForwardIsStored, Forward
<1>8. LastStepIsOnline'
  BY <1>0, <1>3, <1>4 DEF ShutdownInv, OtherStepErr, LastStepIsOnline, PastOnline
<1>9. OnlyJobsAreCancelled'
  BY <1>0, <1>3, <1>4 DEF ShutdownInv, OtherStepErr, StepFailed, OnlyJobsAreCancelled
<1> QED
  BY <1>5, <1>6, <1>7, <1>8, <1>9 DEF ShutdownInv

LEMMA ShutOkKeeps == ASSUME ShutdownInv, ShutOk PROVE ShutdownInv'
<1> USE WorkflowAssumption, ShutdownAssumption
<1>0. TypeOK /\ wf \in Records /\ saved \in Records
  BY DEF ShutdownInv, TypeOK, EngineTypeOK
<1>1. Put(wf)
  BY DEF ShutOk, StepDone
<1>2. wf' = wf /\ saved' \in {saved, wf} /\ saved' \in Records /\ faults' \in 0..MaxFaults
  BY <1>0, <1>1, PutEffect
<1>5. TypeOK'
  BY <1>0, <1>2 DEF ShutOk, StepDone, TypeOK, EngineTypeOK, GfixShut
<1>6. OpenIsCovered'
  BY <1>0, <1>2 DEF ShutdownInv, ShutOk, StepDone, OpenIsCovered, ForwardIsStored,
     Forward, GfixShut, GfixOnlineStep
<1>7. ForwardIsStored'
  BY <1>0, <1>2 DEF ShutdownInv, ShutOk, StepDone, ForwardIsStored, Forward, GfixShut,
     GfixOnlineStep
<1>8. LastStepIsOnline'
  <2>1. PastOnline(wf)'
    BY <1>0, <1>2, RecordFields DEF ShutdownInv, ShutOk, StepDone, ForwardIsStored,
       PastOnline, Forward, Unfinished, GfixShut, GfixOnlineStep
  <2>2. CASE saved' = saved
    <3>1. PastOnline(saved)'
      BY <1>0, <1>2, RecordFields, <2>2 DEF ShutdownInv, ShutOk, StepDone,
         ForwardIsStored, PastOnline, Forward, Reaches, Unfinished, GfixShut,
         GfixOnlineStep
    <3> QED
      BY <2>1, <3>1 DEF LastStepIsOnline
  <2>3. CASE saved' = wf'
    BY <2>1, <2>3 DEF LastStepIsOnline, PastOnline
  <2> QED
    BY <1>0, <1>2, RecordFields, <2>2, <2>3
<1>9. OnlyJobsAreCancelled'
  BY <1>0, <1>2 DEF ShutOk, StepDone, OnlyJobsAreCancelled
<1> QED
  BY <1>5, <1>6, <1>7, <1>8, <1>9 DEF ShutdownInv

LEMMA ShutErrKeeps == ASSUME ShutdownInv, ShutErr PROVE ShutdownInv'
<1> USE WorkflowAssumption, ShutdownAssumption
<1>0. TypeOK /\ wf \in Records /\ saved \in Records
  BY DEF ShutdownInv, TypeOK, EngineTypeOK
<1>1. Put([wf EXCEPT !.state = "failed"])
  BY DEF ShutErr, StepFailed, Failure, BlameShut, Blames
<1>2. [wf EXCEPT !.state = "failed"] \in Records
  BY <1>0, ShutdownAssumption DEF Records, States
<1>3. /\ wf' = [wf EXCEPT !.state = "failed"] /\ wf' \in Records
      /\ saved' \in {saved, wf'} /\ saved' \in Records /\ faults' \in 0..MaxFaults
  BY <1>0, <1>1, <1>2, PutEffect
<1>4. wf'.state = "failed" /\ wf'.step = wf.step
  BY <1>0, <1>3, ShutdownAssumption DEF Records, States
<1>5. TypeOK'
  BY <1>0, <1>3, <1>4 DEF ShutErr, StepFailed, Failure, BlameShut, Blames, TypeOK,
     EngineTypeOK
<1>6. OpenIsCovered'
  BY <1>0, <1>3, <1>4 DEF ShutErr, BlameShut, TypeOK, EngineTypeOK, OpenIsCovered
<1>7. ForwardIsStored'
  BY <1>0, <1>3, <1>4 DEF ShutErr, StepFailed, ForwardIsStored, Forward
<1>8. LastStepIsOnline'
  <2>1. PastOnline(wf)'
    BY <1>0, <1>3, <1>4, RecordFields DEF ShutdownInv, ShutErr, StepFailed,
       ForwardIsStored, PastOnline, Forward, GfixShut, GfixOnlineStep
  <2>2. CASE saved' = saved
    <3>1. PastOnline(saved)'
      BY <1>0, <1>3, <1>4, RecordFields, <2>2 DEF ShutdownInv, ShutErr, StepFailed,
         ForwardIsStored, PastOnline, Forward, Reaches, Unfinished, GfixShut,
         GfixOnlineStep
    <3> QED
      BY <2>1, <3>1 DEF LastStepIsOnline
  <2>3. CASE saved' = wf'
    BY <2>1, <2>3 DEF LastStepIsOnline, PastOnline
  <2> QED
    BY <1>0, <1>3, <1>4, RecordFields, <2>2, <2>3
<1>9. OnlyJobsAreCancelled'
  BY <1>0, <1>3, <1>4 DEF ShutdownInv, ShutErr, StepFailed, OnlyJobsAreCancelled
<1> QED
  BY <1>5, <1>6, <1>7, <1>8, <1>9 DEF ShutdownInv

LEMMA OnlineOkKeeps == ASSUME ShutdownInv, OnlineOk PROVE ShutdownInv'
<1> USE WorkflowAssumption, ShutdownAssumption
<1>0. TypeOK /\ wf \in Records /\ saved \in Records
  BY DEF ShutdownInv, TypeOK, EngineTypeOK
<1>1. Put(wf)
  BY DEF OnlineOk, StepDone
<1>2. wf' = wf /\ saved' \in {saved, wf} /\ saved' \in Records /\ faults' \in 0..MaxFaults
  BY <1>0, <1>1, PutEffect
<1>5. TypeOK'
  BY <1>0, <1>2 DEF OnlineOk, StepDone, TypeOK, EngineTypeOK, GfixOnlineStep
<1>6. OpenIsCovered'
  BY <1>0, <1>2 DEF OnlineOk, OpenIsCovered
<1>7. ForwardIsStored'
  BY <1>0, <1>2 DEF ShutdownInv, OnlineOk, StepDone, TypeOK, EngineTypeOK,
     ForwardIsStored, Forward
<1>8. LastStepIsOnline'
  BY <1>0, <1>2 DEF ShutdownInv, OnlineOk, LastStepIsOnline, PastOnline
<1>9. OnlyJobsAreCancelled'
  BY <1>0, <1>2 DEF OnlineOk, StepDone, OnlyJobsAreCancelled
<1> QED
  BY <1>5, <1>6, <1>7, <1>8, <1>9 DEF ShutdownInv

LEMMA OnlineErrKeeps == ASSUME ShutdownInv, OnlineErr PROVE ShutdownInv'
<1> USE WorkflowAssumption, ShutdownAssumption
<1>0. TypeOK /\ wf \in Records /\ saved \in Records
  BY DEF ShutdownInv, TypeOK, EngineTypeOK
<1>1. Put([wf EXCEPT !.state = "failed"])
  BY DEF OnlineErr, StepFailed, Failure, Blames
<1>2. [wf EXCEPT !.state = "failed"] \in Records
  BY <1>0, ShutdownAssumption DEF Records, States
<1>3. /\ wf' = [wf EXCEPT !.state = "failed"] /\ wf' \in Records
      /\ saved' \in {saved, wf'} /\ saved' \in Records /\ faults' \in 0..MaxFaults
  BY <1>0, <1>1, <1>2, PutEffect
<1>4. wf'.state = "failed" /\ wf'.step = wf.step
  BY <1>0, <1>3, ShutdownAssumption DEF Records, States
<1>5. TypeOK'
  BY <1>0, <1>3, <1>4 DEF OnlineErr, StepFailed, Failure, Blames, TypeOK, EngineTypeOK
<1>6. OpenIsCovered'
  BY <1>0, <1>3, <1>4 DEF OnlineErr, OpenIsCovered
<1>7. ForwardIsStored'
  BY <1>0, <1>3, <1>4 DEF OnlineErr, StepFailed, ForwardIsStored, Forward
<1>8. LastStepIsOnline'
  BY <1>0, <1>3, <1>4 DEF ShutdownInv, OnlineErr, LastStepIsOnline, PastOnline
<1>9. OnlyJobsAreCancelled'
  BY <1>0, <1>3, <1>4 DEF ShutdownInv, OnlineErr, StepFailed, OnlyJobsAreCancelled
<1> QED
  BY <1>5, <1>6, <1>7, <1>8, <1>9 DEF ShutdownInv

LEMMA CompensateOkKeeps == ASSUME ShutdownInv, CompensateOk PROVE ShutdownInv'
<1> USE WorkflowAssumption, ShutdownAssumption
<1>0. TypeOK /\ wf \in Records /\ saved \in Records
  BY DEF ShutdownInv, TypeOK, EngineTypeOK
<1>5. TypeOK'
  BY <1>0, RecordFields, FirstRecord DEF CompensateOk, Compensated, TypeOK, EngineTypeOK
<1>6. OpenIsCovered'
  BY <1>0, RecordFields, FirstRecord DEF CompensateOk, OpenIsCovered
<1>7. ForwardIsStored'
  BY <1>0, RecordFields, FirstRecord DEF CompensateOk, Compensated, ForwardIsStored,
     Forward
<1>8. LastStepIsOnline'
  BY <1>0, RecordFields, FirstRecord DEF ShutdownInv, CompensateOk, Compensated,
     LastStepIsOnline, PastOnline
<1>9. OnlyJobsAreCancelled'
  BY <1>0, RecordFields, FirstRecord DEF CompensateOk, Compensated, OnlyJobsAreCancelled
<1> QED
  BY <1>5, <1>6, <1>7, <1>8, <1>9 DEF ShutdownInv

LEMMA CompensateErrKeeps == ASSUME ShutdownInv, CompensateErr PROVE ShutdownInv'
<1> USE WorkflowAssumption, ShutdownAssumption
<1>0. TypeOK /\ wf \in Records /\ saved \in Records
  BY DEF ShutdownInv, TypeOK, EngineTypeOK
<1>5. TypeOK'
  BY <1>0, RecordFields, FirstRecord DEF CompensateErr, CompensateFailed, Failure, Blames,
     TypeOK, EngineTypeOK
<1>6. OpenIsCovered'
  BY <1>0, RecordFields, FirstRecord DEF CompensateErr, OpenIsCovered
<1>7. ForwardIsStored'
  BY <1>0, RecordFields, FirstRecord DEF CompensateErr, CompensateFailed, ForwardIsStored,
     Forward
<1>8. LastStepIsOnline'
  BY <1>0, RecordFields, FirstRecord DEF ShutdownInv, CompensateErr, CompensateFailed,
     LastStepIsOnline, PastOnline
<1>9. OnlyJobsAreCancelled'
  BY <1>0, RecordFields, FirstRecord DEF ShutdownInv, CompensateErr, CompensateFailed,
     OnlyJobsAreCancelled
<1> QED
  BY <1>5, <1>6, <1>7, <1>8, <1>9 DEF ShutdownInv

LEMMA CancelJobKeeps == ASSUME ShutdownInv, CancelJob PROVE ShutdownInv'
<1> USE WorkflowAssumption, ShutdownAssumption
<1>0. TypeOK /\ wf \in Records /\ saved \in Records
  BY DEF ShutdownInv, TypeOK, EngineTypeOK
<1>5. TypeOK'
  BY <1>0, RecordFields, FirstRecord DEF CancelJob, Cancel, TypeOK, EngineTypeOK
<1>6. OpenIsCovered'
  BY <1>0, RecordFields, FirstRecord DEF ShutdownInv, CancelJob, Cancel, OpenIsCovered,
     Forward
<1>7. ForwardIsStored'
  BY <1>0, RecordFields, FirstRecord DEF ShutdownInv, CancelJob, Cancel, ForwardIsStored,
     Forward
<1>8. LastStepIsOnline'
  BY <1>0, RecordFields, FirstRecord DEF ShutdownInv, CancelJob, Cancel, LastStepIsOnline,
     PastOnline
<1>9. OnlyJobsAreCancelled'
  BY <1>0, RecordFields, FirstRecord DEF CancelJob, Cancel, OnlyJobsAreCancelled
<1> QED
  BY <1>5, <1>6, <1>7, <1>8, <1>9 DEF ShutdownInv

LEMMA PersistKeeps == ASSUME ShutdownInv, Persist PROVE ShutdownInv'
<1> USE WorkflowAssumption, ShutdownAssumption
<1>0. TypeOK /\ wf \in Records /\ saved \in Records
  BY DEF ShutdownInv, TypeOK, EngineTypeOK
<1>5. TypeOK'
  BY <1>0, RecordFields, FirstRecord DEF Persist, OtherWrite, TypeOK, EngineTypeOK
<1>6. OpenIsCovered'
  BY <1>0, RecordFields, FirstRecord DEF ShutdownInv, Persist, OtherWrite, OpenIsCovered,
     Forward
<1>7. ForwardIsStored'
  BY <1>0, RecordFields, FirstRecord DEF ShutdownInv, Persist, OtherWrite,
     ForwardIsStored, Forward
<1>8. LastStepIsOnline'
  BY <1>0, RecordFields, FirstRecord DEF ShutdownInv, Persist, OtherWrite,
     LastStepIsOnline, PastOnline
<1>9. OnlyJobsAreCancelled'
  BY <1>0, RecordFields, FirstRecord DEF ShutdownInv, Persist, OtherWrite,
     OnlyJobsAreCancelled
<1> QED
  BY <1>5, <1>6, <1>7, <1>8, <1>9 DEF ShutdownInv

LEMMA KillServerKeeps == ASSUME ShutdownInv, KillServer PROVE ShutdownInv'
<1> USE WorkflowAssumption, ShutdownAssumption
<1>0. TypeOK /\ wf \in Records /\ saved \in Records
  BY DEF ShutdownInv, TypeOK, EngineTypeOK
<1>5. TypeOK'
  BY <1>0, RecordFields, FirstRecord DEF KillServer, Kill, TypeOK, EngineTypeOK
<1>6. OpenIsCovered'
  BY <1>0, RecordFields, FirstRecord DEF ShutdownInv, KillServer, Kill, OpenIsCovered,
     ForwardIsStored, Forward, GfixShut, GfixOnlineStep
<1>7. ForwardIsStored'
  BY <1>0, RecordFields, FirstRecord DEF KillServer, Kill, ForwardIsStored, Forward
<1>8. LastStepIsOnline'
  BY <1>0, RecordFields, FirstRecord DEF ShutdownInv, KillServer, Kill, ForwardIsStored,
     LastStepIsOnline, PastOnline, Forward, Reaches, GfixShut, GfixOnlineStep
<1>9. OnlyJobsAreCancelled'
  BY <1>0, RecordFields, FirstRecord DEF ShutdownInv, KillServer, Kill,
     OnlyJobsAreCancelled
<1> QED
  BY <1>5, <1>6, <1>7, <1>8, <1>9 DEF ShutdownInv

LEMMA RestartKeeps == ASSUME ShutdownInv, Restart PROVE ShutdownInv'
<1> USE WorkflowAssumption, ShutdownAssumption
<1>0. TypeOK /\ wf \in Records /\ saved \in Records
  BY DEF ShutdownInv, TypeOK, EngineTypeOK
<1>5. TypeOK'
  <2>1. wf' \in Records /\ saved' \in Records
    BY <1>0, RecordFields DEF Restart, Reconcile
  <2>2. compErr' \in BOOLEAN /\ cancelled' \in BOOLEAN /\ byJob' \in BOOLEAN
    BY <1>0 DEF Restart, Reconcile, TypeOK, EngineTypeOK
  <2>3. at' \in 0..N /\ runs' \in 0..MaxRuns /\ faults' \in 0..MaxFaults /\ kills' \in 0..MaxKills
    BY <1>0, RecordFields DEF Restart, Reconcile, TypeOK, EngineTypeOK
  <2>4. /\ pc' \in {"idle", "loop", "do", "failing", "comp", "ended", "down"}
        /\ db' \in {"online", "shut"} /\ fails' \in 0..MaxFails /\ blame' \subseteq Blames
    BY <1>0 DEF Restart, Reconcile, TypeOK, EngineTypeOK, Blames
  <2> QED
    BY <2>1, <2>2, <2>3, <2>4 DEF TypeOK, EngineTypeOK
<1>6. OpenIsCovered'
  BY <1>0, RecordFields, FirstRecord DEF ShutdownInv, Restart, Reconcile, OpenIsCovered,
     Forward, Reaches
<1>7. ForwardIsStored'
  BY <1>0, RecordFields, FirstRecord DEF ShutdownInv, Restart, Reconcile, ForwardIsStored,
     LastStepIsOnline, PastOnline, OnlyJobsAreCancelled, Forward, Reaches
<1>8. LastStepIsOnline'
  BY <1>0, RecordFields, FirstRecord DEF ShutdownInv, Restart, Reconcile,
     LastStepIsOnline, PastOnline
<1>9. OnlyJobsAreCancelled'
  BY <1>0, RecordFields, FirstRecord DEF Restart, Reconcile, OnlyJobsAreCancelled
<1> QED
  BY <1>5, <1>6, <1>7, <1>8, <1>9 DEF ShutdownInv

-----------------------------------------------------------------------------
LEMMA ShutdownInvStutter == ASSUME ShutdownInv, UNCHANGED vars PROVE ShutdownInv'
BY DEF ShutdownInv, TypeOK, EngineTypeOK, OpenIsCovered, ForwardIsStored, LastStepIsOnline,
   OnlyJobsAreCancelled, Forward, PastOnline, vars, engineVars

LEMMA ShutdownInvNext == ShutdownInv /\ [Next]_vars => ShutdownInv'
<1> SUFFICES ASSUME ShutdownInv, [Next]_vars PROVE ShutdownInv'
  OBVIOUS
<1>1. CASE Engine
  BY <1>1, LoopCancelledKeeps, LoopStepKeeps, LoopEndKeeps, CompensateStartKeeps,
     CompensateSkipKeeps, CompensateEndKeeps DEF Engine, EngineStep
<1>2. CASE Step
  BY <1>2, OtherStepOkKeeps, OtherStepErrKeeps, ShutOkKeeps, ShutErrKeeps, OnlineOkKeeps,
     OnlineErrKeeps, CompensateOkKeeps, CompensateErrKeeps DEF Step
<1>3. CASE Begins \/ CancelJob \/ Persist \/ KillServer \/ Restart
  BY <1>3, BeginsKeeps, CancelJobKeeps, PersistKeeps, KillServerKeeps, RestartKeeps
<1>4. CASE UNCHANGED vars
  BY <1>4, ShutdownInvStutter
<1> QED
  BY <1>1, <1>2, <1>3, <1>4 DEF Next

\* The engine's records and position always lead to an online command while
\* the window is open and nothing has gone wrong with it.
THEOREM ShutdownInvariant == Spec => []ShutdownInv
<1> QED
  BY ShutdownInvInit, ShutdownInvNext, PTL DEF Spec

\* fb_shutdown_window comes to rest with the database shut only after one of
\* the three named failures, over any kills, restarts and failing persists.
THEOREM ShutOnlyIfExplained == Spec => []LeftShutIsExplained
<1>1. ShutdownInv => LeftShutIsExplained
  BY DEF ShutdownInv, OpenIsCovered, LeftShutIsExplained, Forward
<1> QED
  BY <1>1, ShutdownInvariant, PTL

\* A record that says "succeeded" goes with an online database.
THEOREM ShutdownSucceededIsOnline == Spec => []SucceededIsOnline
<1>1. ShutdownInv => SucceededIsOnline
  BY DEF ShutdownInv, LastStepIsOnline, PastOnline, SucceededIsOnline
<1> QED
  BY <1>1, ShutdownInvariant, PTL

=============================================================================
