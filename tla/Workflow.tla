------------------------------ MODULE Workflow ------------------------------
(***************************************************************************)
(* The workflow engine (internal/workflows/engine.go): a graph of N steps  *)
(* run in order, persisted in state.json before and after every step,      *)
(* compensated in reverse when a step fails, and resumed at the next start *)
(* when the server died in the middle.                                     *)
(*                                                                         *)
(* The module has the engine only.  What a step does to the database is    *)
(* the business of the modules that extend this one (ShutdownWindow,       *)
(* RestoreReplace): they conjoin StepDone, StepFailed, Compensated and     *)
(* CompensateFailed with the effect of the step at index `at'.             *)
(*                                                                         *)
(* Abstractions.  One workflow record; a second run of the tool gets a     *)
(* record of its own and is modelled only once the first can no longer be  *)
(* resumed.  StepStatus and Message are written and never read, so they    *)
(* are left out.  A persist that fails is a fault: the store's memory has  *)
(* the new record, state.json the old one, and the engine goes on, because *)
(* it ignores the error everywhere but in Run.                             *)
(***************************************************************************)
EXTENDS Integers, FiniteSets

CONSTANTS
  N,            \* number of steps of the registered workflow type
  Compensable,  \* indices of the steps that have a Compensate function
  AutoReopen,   \* the flag Run was called with
  MaxRuns,      \* bound: runs of the tool
  MaxFaults,    \* bound: failed persists of state.json
  MaxKills      \* bound: hard kills of the server

ASSUME WorkflowAssumption ==
  /\ N \in Nat \ {0}
  /\ Compensable \subseteq 0..(N - 1)
  /\ AutoReopen \in BOOLEAN
  /\ MaxRuns \in Nat /\ MaxFaults \in Nat /\ MaxKills \in Nat

VARIABLES
  wf,        \* the record in the store's memory: state and step
  saved,     \* the record in state.json
  pc,        \* where exec, compensate or the server is
  at,        \* exec's i; while compensating, one above compensate's i
  compErr,   \* compensate's first # nil
  cancelled, \* ctx.Err() # nil
  byJob,     \* the run belongs to a job, whose context can be cancelled
  runs, faults, kills

engineVars == <<wf, saved, pc, at, compErr, cancelled, byJob, runs, faults, kills>>

States == {"none", "running", "failed", "compensating", "compensated", "succeeded"}

Records == [state : States, step : 0..(N - 1)]

NoRecord == [state |-> "none", step |-> 0]

EngineTypeOK ==
  /\ wf \in Records
  /\ saved \in Records
  /\ pc \in {"idle", "loop", "do", "failing", "comp", "ended", "down"}
  /\ at \in 0..N
  /\ compErr \in BOOLEAN
  /\ cancelled \in BOOLEAN
  /\ byJob \in BOOLEAN
  /\ runs \in 0..MaxRuns
  /\ faults \in 0..MaxFaults
  /\ kills \in 0..MaxKills

EngineInit ==
  /\ wf = NoRecord
  /\ saved = NoRecord
  /\ pc = "idle"
  /\ at = 0
  /\ compErr = FALSE
  /\ cancelled = FALSE
  /\ byJob = FALSE
  /\ runs = 0
  /\ faults = 0
  /\ kills = 0

-----------------------------------------------------------------------------
(* PutWorkflow with its error ignored. *)
Put(w) ==
  /\ wf' = w
  /\ \/ saved' = w /\ UNCHANGED faults
     \/ faults < MaxFaults /\ faults' = faults + 1 /\ UNCHANGED saved

(* RunningWorkflows: the states Reconcile looks at. *)
Unfinished == {"running", "compensating"}

(* Run: the record is stored and exec starts at step 0.  This is the one   *)
(* place where a failing persist is reported: the run is refused, but the  *)
(* record stays in the store's memory, and even in state.json when only    *)
(* the directory could not be opened after the rename.                     *)
Begin ==
  LET w == [state |-> "running", step |-> 0] IN
  /\ pc \in {"idle", "ended"}
  /\ runs < MaxRuns
  /\ wf.state \notin Unfinished /\ saved.state \notin Unfinished
  /\ runs' = runs + 1
  /\ wf' = w
  /\ \/ /\ saved' = w
        /\ pc' = "loop"
        /\ UNCHANGED faults
     \/ /\ faults < MaxFaults
        /\ faults' = faults + 1
        /\ saved' \in {saved, w}
        /\ pc' = "ended"
  /\ at' = 0
  /\ cancelled' = FALSE
  /\ byJob' = TRUE
  /\ UNCHANGED <<compErr, kills>>

(* exec, the head of the loop: the context is looked at before each step.  *)
LoopCancelled ==
  /\ pc = "loop"
  /\ at < N
  /\ cancelled
  /\ Put([wf EXCEPT !.state = "failed"])
  /\ pc' = "failing"
  /\ UNCHANGED <<at, compErr, cancelled, byJob, runs, kills>>

LoopStep ==
  /\ pc = "loop"
  /\ at < N
  /\ ~cancelled
  /\ Put([wf EXCEPT !.step = at])
  /\ pc' = "do"
  /\ UNCHANGED <<at, compErr, cancelled, byJob, runs, kills>>

LoopEnd ==
  /\ pc = "loop"
  /\ at = N
  /\ Put([wf EXCEPT !.state = "succeeded"])
  /\ pc' = "ended"
  /\ UNCHANGED <<at, compErr, cancelled, byJob, runs, kills>>

(* Do returned nil: StepStatus "done" is stored and i is incremented. *)
StepDone ==
  /\ pc = "do"
  /\ Put(wf)
  /\ pc' = "loop"
  /\ at' = at + 1
  /\ UNCHANGED <<compErr, cancelled, byJob, runs, kills>>

(* Do returned an error: "failed" is stored, then compensate is called with i-1. *)
StepFailed ==
  /\ pc = "do"
  /\ Put([wf EXCEPT !.state = "failed"])
  /\ pc' = "failing"
  /\ UNCHANGED <<at, compErr, cancelled, byJob, runs, kills>>

(* compensate: "compensating" is stored, then i goes from lastDone to 0. *)
CompensateStart ==
  /\ pc = "failing"
  /\ Put([wf EXCEPT !.state = "compensating"])
  /\ pc' = "comp"
  /\ compErr' = FALSE
  /\ UNCHANGED <<at, cancelled, byJob, runs, kills>>

(* Mutant: a step without compensation is not stepped over. *)
CompensateSkipStays ==
  /\ pc = "comp"
  /\ at > 0
  /\ at - 1 \notin Compensable
  /\ UNCHANGED engineVars

CompensateSkip ==
  /\ pc = "comp"
  /\ at > 0
  /\ at - 1 \notin Compensable
  /\ at' = at - 1
  /\ UNCHANGED <<wf, saved, pc, compErr, cancelled, byJob, runs, faults, kills>>

Compensated ==
  /\ pc = "comp"
  /\ at > 0
  /\ at - 1 \in Compensable
  /\ at' = at - 1
  /\ UNCHANGED <<wf, saved, pc, compErr, cancelled, byJob, runs, faults, kills>>

(* Mutant: the error of a compensation is dropped. *)
CompensateFailedSilently ==
  /\ pc = "comp"
  /\ at > 0
  /\ at - 1 \in Compensable
  /\ at' = at - 1
  /\ UNCHANGED <<wf, saved, pc, compErr, cancelled, byJob, runs, faults, kills>>

CompensateFailed ==
  /\ pc = "comp"
  /\ at > 0
  /\ at - 1 \in Compensable
  /\ at' = at - 1
  /\ compErr' = TRUE
  /\ UNCHANGED <<wf, saved, pc, cancelled, byJob, runs, faults, kills>>

(* The end of compensate: the state stays "compensating" after an error.   *)
CompensateEnd ==
  /\ pc = "comp"
  /\ at = 0
  /\ \/ compErr /\ Put(wf)
     \/ ~compErr /\ Put([wf EXCEPT !.state = "compensated"])
  /\ pc' = "ended"
  /\ UNCHANGED <<at, compErr, cancelled, byJob, runs, kills>>

(* fb_cancel, or Close, cancels the context of the job that runs the workflow. *)
Cancel ==
  /\ pc \in {"loop", "do", "failing", "comp"}
  /\ byJob
  /\ ~cancelled
  /\ cancelled' = TRUE
  /\ UNCHANGED <<wf, saved, pc, at, compErr, byJob, runs, faults, kills>>

(* Any other write to the store persists the whole snapshot, this record included. *)
OtherWrite ==
  /\ pc # "down"
  /\ saved # wf
  /\ saved' = wf
  /\ UNCHANGED <<wf, pc, at, compErr, cancelled, byJob, runs, faults, kills>>

(* A hard kill of the server: only state.json survives. *)
Kill ==
  /\ pc # "down"
  /\ kills < MaxKills
  /\ kills' = kills + 1
  /\ pc' = "down"
  /\ wf' = saved
  /\ UNCHANGED <<saved, at, compErr, cancelled, byJob, runs, faults>>

(* Mutant: only records in state "running" are resumed. *)
ReconcileRunningOnly ==
  /\ pc = "down"
  /\ IF saved.state = "running" /\ AutoReopen
       THEN pc' = "loop" /\ at' = saved.step
       ELSE pc' = "ended" /\ UNCHANGED at
  /\ cancelled' = FALSE
  /\ byJob' = FALSE
  /\ compErr' = FALSE
  /\ UNCHANGED <<wf, saved, runs, faults, kills>>

(* Mutant: a resumed workflow starts over. *)
ReconcileFromStart ==
  /\ pc = "down"
  /\ IF saved.state \in Unfinished /\ AutoReopen
       THEN pc' = "loop" /\ at' = 0
       ELSE pc' = "ended" /\ UNCHANGED at
  /\ cancelled' = FALSE
  /\ byJob' = FALSE
  /\ compErr' = FALSE
  /\ UNCHANGED <<wf, saved, runs, faults, kills>>

(* The next start: Reconcile runs an unfinished AutoReopen workflow forward *)
(* from its stored step, with a context nobody cancels, even when it was    *)
(* compensating; it marks an unfinished workflow without AutoReopen failed. *)
Reconcile ==
  /\ pc = "down"
  /\ IF saved.state \in Unfinished /\ ~AutoReopen
       THEN Put([saved EXCEPT !.state = "failed"])
       ELSE UNCHANGED <<wf, saved, faults>>
  /\ IF saved.state \in Unfinished /\ AutoReopen
       THEN pc' = "loop" /\ at' = saved.step
       ELSE pc' = "ended" /\ UNCHANGED at
  /\ cancelled' = FALSE
  /\ byJob' = FALSE
  /\ compErr' = FALSE
  /\ UNCHANGED <<runs, kills>>

(* The steps the engine takes by itself. *)
EngineStep ==
  \/ LoopCancelled \/ LoopStep \/ LoopEnd
  \/ CompensateStart \/ CompensateSkip \/ CompensateEnd

=============================================================================
