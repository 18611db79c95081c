--------------------------- MODULE RestoreReplace ---------------------------
(***************************************************************************)
(* fb_restore_replace (cmd/fbmcp/p3tools.go): snapshot the database file   *)
(* to <db>.pre-restore, close pools, remove the file and restore the       *)
(* newest backup in its place, validate, check that the database answers;  *)
(* the steps are run by the engine of module Workflow.                     *)
(*                                                                         *)
(* The two files are modelled by what is in them.  copyFile and the        *)
(* restore take several steps, so that a kill or an error leaves a partial *)
(* file.  The restore and the validation go through the service manager    *)
(* and ignore the context; the health check does not.                      *)
(***************************************************************************)
EXTENDS Workflow

CONSTANT MaxFails   \* bound: steps that fail for a reason of their own

ASSUME RestoreAssumption ==
  /\ MaxFails \in Nat
  /\ N = 5
  /\ Compensable = {2, 3}
  /\ AutoReopen = TRUE

VARIABLES
  file,   \* what the database file holds
  pre,    \* what <db>.pre-restore holds
  writing,\* the running step has begun to write its file
  fails,  \* steps that failed so far
  undone  \* history: putBack has touched the file since the last restore

vars == <<engineVars, file, pre, writing, fails, undone>>

Snapshot == 0
ClosePools == 1
Replace == 2
Validate == 3
VerifyOnline == 4

(* "orig" is the database before the first run, "new" the restored backup, *)
(* "older" a snapshot some earlier run has left.                            *)
Contents == {"absent", "partial", "older", "orig", "new"}

Usable == {"older", "orig", "new"}

TypeOK ==
  /\ EngineTypeOK
  /\ file \in Contents
  /\ pre \in Contents
  /\ writing \in BOOLEAN
  /\ fails \in 0..MaxFails
  /\ undone \in BOOLEAN

Init ==
  /\ EngineInit
  /\ file = "orig"
  /\ pre \in {"absent", "older"}
  /\ writing = FALSE
  /\ fails = 0
  /\ undone = FALSE

-----------------------------------------------------------------------------
Failure == fails < MaxFails /\ fails' = fails + 1

Doing(i) == pc = "do" /\ at = i

(* snapshot_pre: nothing to copy. *)
SnapshotNone ==
  /\ Doing(Snapshot) /\ ~writing
  /\ file = "absent"
  /\ StepDone
  /\ UNCHANGED <<file, pre, writing, fails, undone>>

(* copyFile(path, pre): os.Create truncates, io.Copy fills. *)
SnapshotOpen ==
  /\ Doing(Snapshot) /\ ~writing
  /\ file # "absent"
  /\ pre' = "partial"
  /\ writing' = TRUE
  /\ UNCHANGED <<engineVars, file, fails, undone>>

SnapshotCopy ==
  /\ Doing(Snapshot) /\ writing
  /\ StepDone
  /\ pre' = file
  /\ writing' = FALSE
  /\ UNCHANGED <<file, fails, undone>>

(* The stat, the open or the create fails, or the copy does. *)
SnapshotErr ==
  /\ Doing(Snapshot)
  /\ StepFailed
  /\ Failure
  /\ writing' = FALSE
  /\ UNCHANGED <<file, pre, undone>>

ClosePoolsOk ==
  /\ Doing(ClosePools)
  /\ StepDone
  /\ UNCHANGED <<file, pre, writing, fails, undone>>

(* replace: the file is removed, then the restore writes a new one. *)
ReplaceRemove ==
  /\ Doing(Replace) /\ ~writing
  /\ file' = "absent"
  /\ writing' = TRUE
  /\ UNCHANGED <<engineVars, pre, fails, undone>>

ReplaceWrite ==
  /\ Doing(Replace) /\ writing
  /\ file = "absent"
  /\ file' = "partial"
  /\ UNCHANGED <<engineVars, pre, writing, fails, undone>>

ReplaceOk ==
  /\ Doing(Replace) /\ writing
  /\ file = "partial"
  /\ StepDone
  /\ file' = "new"
  /\ writing' = FALSE
  /\ undone' = FALSE
  /\ UNCHANGED <<pre, fails>>

(* The file cannot be removed, or the restore fails at any point; without   *)
(* materialized views it runs under the job's context and a cancel ends it. *)
ReplaceErr ==
  /\ Doing(Replace)
  /\ StepFailed
  /\ Failure \/ (cancelled /\ UNCHANGED fails)
  /\ writing' = FALSE
  /\ UNCHANGED <<file, pre, undone>>

(* validate and verify_online pass on a usable file only. *)
ValidateOk ==
  /\ Doing(Validate)
  /\ file \in Usable
  /\ StepDone
  /\ UNCHANGED <<file, pre, writing, fails, undone>>

VerifyOk ==
  /\ Doing(VerifyOnline)
  /\ file \in Usable
  /\ ~cancelled
  /\ StepDone
  /\ UNCHANGED <<file, pre, writing, fails, undone>>

CheckErr ==
  /\ Doing(Validate) \/ Doing(VerifyOnline)
  /\ StepFailed
  /\ \/ Failure
     \/ file \notin Usable /\ UNCHANGED fails
     \/ Doing(VerifyOnline) /\ cancelled /\ UNCHANGED fails
  /\ UNCHANGED <<file, pre, writing, undone>>

(* putBack: stat of the snapshot, remove, copyFile(pre, path). *)
PutBackRemove ==
  /\ pc = "comp" /\ at > 0 /\ at - 1 \in Compensable
  /\ ~writing
  /\ pre # "absent"
  /\ file' = "absent"
  /\ writing' = TRUE
  /\ undone' = TRUE
  /\ UNCHANGED <<engineVars, pre, fails>>

PutBackOpen ==
  /\ pc = "comp" /\ writing
  /\ file = "absent"
  /\ file' = "partial"
  /\ UNCHANGED <<engineVars, pre, writing, fails, undone>>

PutBackCopy ==
  /\ writing
  /\ file = "partial"
  /\ Compensated
  /\ file' = pre
  /\ writing' = FALSE
  /\ UNCHANGED <<pre, fails, undone>>

PutBackErr ==
  /\ CompensateFailed
  /\ \/ pre = "absent" /\ UNCHANGED fails
     \/ Failure
  /\ writing' = FALSE
  /\ UNCHANGED <<file, pre, undone>>

KillServer ==
  /\ Kill
  /\ writing' = FALSE
  /\ UNCHANGED <<file, pre, fails, undone>>

Begins == Begin /\ UNCHANGED <<file, pre, writing, fails, undone>>

Engine == EngineStep /\ UNCHANGED <<file, pre, writing, fails, undone>>

CancelJob == Cancel /\ UNCHANGED <<file, pre, writing, fails, undone>>

Persist == OtherWrite /\ UNCHANGED <<file, pre, writing, fails, undone>>

Restart == Reconcile /\ UNCHANGED <<file, pre, writing, fails, undone>>

Step ==
  \/ SnapshotNone \/ SnapshotOpen \/ SnapshotCopy \/ SnapshotErr
  \/ ClosePoolsOk
  \/ ReplaceRemove \/ ReplaceWrite \/ ReplaceOk \/ ReplaceErr
  \/ ValidateOk \/ VerifyOk \/ CheckErr
  \/ PutBackRemove \/ PutBackOpen \/ PutBackCopy \/ PutBackErr

Next ==
  \/ Begins \/ Engine \/ Step
  \/ CancelJob \/ Persist \/ KillServer \/ Restart

Spec == Init /\ [][Next]_vars

(* The engine and its steps go on, and a killed server is started again. *)
Fairness == WF_vars(Engine) /\ WF_vars(Step) /\ WF_vars(Restart)

FairSpec == Spec /\ Fairness

-----------------------------------------------------------------------------
(* Through a whole run, with any kills, cancels and failing steps, the      *)
(* database as it was before is in the file or in the snapshot (claim C7a,  *)
(* "file intact or .pre-restore").  It needs every write of state.json to   *)
(* work: with a stale step a restart may copy a half restored file over the *)
(* snapshot.                                                                *)
OldKept == (runs <= 1 /\ faults = 0) => "orig" \in {file, pre}

(* A run that ends "succeeded" has the backup in place of the database,     *)
(* over any kills, retries and failing persists, unless a compensation had  *)
(* put the old file back and a restart then went forward again.             *)
SucceededIsNew ==
  (pc = "ended" /\ wf.state = "succeeded" /\ ~undone) => file = "new"

(* Even then it never ends "succeeded" on a missing or half written file.   *)
SucceededIsUsable ==
  (pc = "ended" /\ wf.state = "succeeded") => file \in Usable

(* A run that got past replace and ends "compensated" has put the old       *)
(* database back, over any kills (again while state.json is written).       *)
CompensatedIsOld ==
  (pc = "ended" /\ wf.state = "compensated" /\ wf.step > Replace /\ runs = 1 /\ faults = 0)
    => file = "orig"

(* What the record says at the end of a run is what the file holds. *)
RecordIsTrue == SucceededIsNew /\ SucceededIsUsable /\ CompensatedIsOld

(* The inductive invariant behind the two.  Where the engine stands, and    *)
(* what the two records say of it: in memory the step that runs, in         *)
(* state.json that one or an earlier one.                                   *)
Active == pc \in {"loop", "do", "failing", "comp"}

StepLags ==
  /\ pc \in {"loop", "do"} => wf.step <= at /\ saved.step <= at
  /\ pc = "do" => wf.step = at
  /\ pc = "failing" => wf.step <= at
  /\ Active => at <= wf.step + 1
  /\ pc = "down" => wf = saved
  /\ faults = 0 => wf = saved
  /\ runs = 0 => ~Active /\ wf = NoRecord /\ saved = NoRecord

(* A file is half written only inside a step that writes it. *)
WritingIsInside ==
  writing => \/ pc = "do" /\ at \in {Snapshot, Replace}
             \/ pc = "comp" /\ at - 1 \in Compensable /\ undone

(* A record past replace, and the engine past replace, go with the restored *)
(* file until putBack touches it.                                           *)
PastReplace(r) ==
  /\ (r.step > Replace /\ ~undone) => file = "new"
  /\ r.state = "succeeded" => r.step = VerifyOnline /\ file \in Usable /\ ~Active

ReplacedIsNew ==
  /\ PastReplace(wf) /\ PastReplace(saved)
  /\ (pc \in {"loop", "do"} /\ at > Replace /\ ~undone) => file = "new"
  /\ (pc = "loop" /\ at = N) => file \in Usable

(* In a first run whose persists all work: the file is the old database     *)
(* until replace is entered, and from then on the snapshot is.              *)
FirstRun == runs <= 1 /\ faults = 0

SnapshotHolds ==
  FirstRun =>
    /\ wf.step < Replace => file = "orig"
    /\ (wf.step > Snapshot \/ (Active /\ at > Snapshot)) => pre = "orig"

(* Such a run that fails past replace has the old database back once        *)
(* putBack has run for replace without an error.                            *)
PutBackHolds ==
  /\ wf.state = "compensated" => ~Active
  /\ (FirstRun /\ wf.step > Replace) =>
       /\ (pc = "comp" /\ at <= Replace /\ ~compErr) => file = "orig"
       /\ wf.state = "compensated" => file = "orig"

RestoreInv ==
  /\ TypeOK /\ StepLags /\ WritingIsInside /\ ReplacedIsNew
  /\ SnapshotHolds /\ PutBackHolds

(* Every run comes to an end, over any kills and failures. *)
RunEnds == (pc # "idle") ~> (pc = "ended")

-----------------------------------------------------------------------------
(***************************************************************************)
(* What comments, messages and documents of the repository say and the     *)
(* code does not do: TLC finds a counterexample to each of these (README,  *)
(* section 6).                                                             *)
(***************************************************************************)

(* A failed run leaves the previous file in place. *)
FailureRestores ==
  (pc = "ended" /\ wf.state = "compensated" /\ kills = 0) => file = "orig"

(* After a kill the run finishes with the restored database.  It is claimed  *)
(* of runs in which nothing but the kill went wrong after the restart.       *)
KilledRunFinishes ==
  (pc = "ended" /\ kills > 0 /\ wf.state = "succeeded") => file = "new"

(* The old file stays as .pre-restore until the operator deletes it: at the *)
(* least, no step may give up the snapshot of the old database while the    *)
(* database file itself is missing or half written.                         *)
SnapshotStays ==
  [][(pre = "orig" /\ pre' # "orig") => file \in Usable]_vars

=============================================================================
