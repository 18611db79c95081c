--------------------------- MODULE ShutdownWindow ---------------------------
(***************************************************************************)
(* fb_shutdown_window (cmd/fbmcp/p4tools.go, internal/workflows/gfix.go):  *)
(* close pools, optional kick, gfix -shut, gfix -online, verify, run by    *)
(* the engine of module Workflow.  gfix is a child process under a 30 s    *)
(* limit and under the context of the run: it may fail before or after it  *)
(* changed the database, and with a cancelled context it is not started or *)
(* is killed.  gfix -shut on a shut database and gfix -online on an online *)
(* one succeed.  The child of a killed server has ended by the time the    *)
(* next server reconciles.                                                 *)
(***************************************************************************)
EXTENDS Workflow

CONSTANT MaxFails   \* bound: steps that fail for a reason of their own

ASSUME ShutdownAssumption ==
  /\ MaxFails \in Nat
  /\ N = 5
  /\ Compensable = {2}
  /\ AutoReopen = TRUE

VARIABLES
  db,      \* "online" or "shut"
  fails,   \* steps that failed so far
  blame    \* history: what went wrong that may keep the database shut

vars == <<engineVars, db, fails, blame>>

GfixShut == 2
GfixOnlineStep == 3

(* What can keep the database shut: an online command that failed or was    *)
(* cancelled; a step up to gfix_shut that failed while the database was     *)
(* shut, so that compensate starts below gfix_shut (gfix -shut that worked  *)
(* and reported an error, or a step repeated after a restart); a start that *)
(* found the record "failed" and did not resume it.                         *)
Blames == {"online_failed", "failed_while_shut", "failed_not_resumed"}

TypeOK ==
  /\ EngineTypeOK
  /\ db \in {"online", "shut"}
  /\ fails \in 0..MaxFails
  /\ blame \subseteq Blames

Init ==
  /\ EngineInit
  /\ db = "online"
  /\ fails = 0
  /\ blame = {}

-----------------------------------------------------------------------------
(* A command fails by itself, within the bound, or because its context is cancelled. *)
Failure ==
  \/ cancelled /\ UNCHANGED fails
  \/ ~cancelled /\ fails < MaxFails /\ fails' = fails + 1

(* History: the failing step is not covered by the compensation of gfix_shut. *)
BlameShut ==
  blame' = IF at <= GfixShut /\ db' = "shut" THEN blame \cup {"failed_while_shut"} ELSE blame

(* close_pools cannot fail; optional_kick and verify leave the mode alone. *)
OtherStepOk ==
  /\ at \notin {GfixShut, GfixOnlineStep}
  /\ at = 0 \/ ~cancelled
  /\ StepDone
  /\ UNCHANGED <<db, fails, blame>>

OtherStepErr ==
  /\ at \notin {0, GfixShut, GfixOnlineStep}
  /\ StepFailed
  /\ Failure
  /\ UNCHANGED db
  /\ BlameShut

(* GfixShutdown. *)
ShutOk ==
  /\ at = GfixShut
  /\ ~cancelled
  /\ StepDone
  /\ db' = "shut"
  /\ UNCHANGED <<fails, blame>>

ShutErr ==
  /\ at = GfixShut
  /\ StepFailed
  /\ Failure
  /\ db' \in {db, "shut"}
  /\ BlameShut

(* GfixOnline as the step after the window. *)
OnlineOk ==
  /\ at = GfixOnlineStep
  /\ ~cancelled
  /\ StepDone
  /\ db' = "online"
  /\ UNCHANGED <<fails, blame>>

OnlineErr ==
  /\ at = GfixOnlineStep
  /\ StepFailed
  /\ Failure
  /\ db' \in {db, "online"}
  /\ blame' = blame \cup {"online_failed"}

(* GfixOnline as the compensation of gfix_shut, under the same context. *)
CompensateOk ==
  /\ ~cancelled
  /\ Compensated
  /\ db' = "online"
  /\ UNCHANGED <<fails, blame>>

CompensateErr ==
  /\ CompensateFailed
  /\ Failure
  /\ db' \in {db, "online"}
  /\ blame' = blame \cup {"online_failed"}

(* A kill may come before or after the running gfix has changed the mode. *)
KillServer ==
  /\ Kill
  /\ \/ UNCHANGED db
     \/ pc = "do" /\ at = GfixShut /\ db' = "shut"
     \/ pc = "do" /\ at = GfixOnlineStep /\ db' = "online"
     \/ pc = "comp" /\ at - 1 \in Compensable /\ db' = "online"
  /\ UNCHANGED <<fails, blame>>

Restart ==
  /\ Reconcile
  /\ blame' = IF saved.state = "failed" THEN blame \cup {"failed_not_resumed"} ELSE blame
  /\ UNCHANGED <<db, fails>>

Begins == Begin /\ UNCHANGED <<db, fails, blame>>

Engine == EngineStep /\ UNCHANGED <<db, fails, blame>>

CancelJob == Cancel /\ UNCHANGED <<db, fails, blame>>

Persist == OtherWrite /\ UNCHANGED <<db, fails, blame>>

Step ==
  \/ OtherStepOk \/ OtherStepErr
  \/ ShutOk \/ ShutErr
  \/ OnlineOk \/ OnlineErr
  \/ CompensateOk \/ CompensateErr

Next ==
  \/ Begins \/ Engine \/ Step
  \/ CancelJob \/ Persist \/ KillServer \/ Restart

Spec == Init /\ [][Next]_vars

(* The run goes on by itself: every gfix ends within its 30 s limit, and a *)
(* killed server is started again.  Nothing forces a cancel, a persist by  *)
(* another tool, a kill or a new run.                                      *)
Fairness == WF_vars(Engine) /\ WF_vars(Step) /\ WF_vars(Restart)

FairSpec == Spec /\ Fairness

-----------------------------------------------------------------------------
(* When the workflow has come to rest with the database shut, an online     *)
(* command had failed or been cancelled, a step up to gfix_shut had failed  *)
(* on the shut database, or a start had found the record "failed": no other *)
(* mix of kills, restarts, failing persists, cancels and step errors leaves *)
(* the database shut (engine.go Reconcile, "never left shut").              *)
LeftShutIsExplained ==
  (pc = "ended" /\ db = "shut") => blame # {}

(* A workflow whose record says "succeeded" left the database online,       *)
(* whatever was killed, cancelled, resumed or failed before.                *)
SucceededIsOnline ==
  (pc = "ended" /\ wf.state = "succeeded") => db = "online"

(* The inductive invariant behind the two.  While the window is open and    *)
(* nothing has gone wrong with it, the engine stands where it will still    *)
(* run an online command, and so would a restart from either record.        *)
Forward == pc \in {"loop", "do"}

Reaches(r) == r.state \in Unfinished \cup {"failed"} /\ r.step <= GfixOnlineStep

OpenIsCovered ==
  (db = "shut" /\ blame = {}) =>
    /\ Reaches(wf) /\ Reaches(saved)
    /\ \/ Forward /\ at <= GfixOnlineStep /\ (byJob => at = GfixOnlineStep)
       \/ pc \in {"failing", "comp"} /\ at = GfixOnlineStep
       \/ pc = "down"

ForwardIsStored ==
  Forward =>
    /\ wf.state \in Unfinished
    /\ pc = "do" => (at < N /\ wf.step = at)
    /\ at = N => wf.step = N - 1
    /\ at <= GfixOnlineStep => (Reaches(wf) /\ Reaches(saved))
    /\ at > GfixOnlineStep => db = "online"

PastOnline(r) ==
  /\ r.step > GfixOnlineStep => db = "online"
  /\ r.state = "succeeded" => r.step > GfixOnlineStep

LastStepIsOnline == PastOnline(wf) /\ PastOnline(saved)

OnlyJobsAreCancelled == (cancelled => byJob) /\ (pc = "down" => wf = saved)

ShutdownInv ==
  TypeOK /\ OpenIsCovered /\ ForwardIsStored /\ LastStepIsOnline /\ OnlyJobsAreCancelled

(* A database that was shut is online again in the end, over any kills,    *)
(* unless one of the three named failures happens (claim C7a).             *)
Reopens == (db = "shut") ~> (db = "online" \/ blame # {})

-----------------------------------------------------------------------------
(***************************************************************************)
(* What comments, messages and documents of the repository say and the     *)
(* code does not do: TLC finds a counterexample to each of these (README,  *)
(* section 6).                                                             *)
(***************************************************************************)

(* The tool's own text: "always gfix -online".  Whatever happens inside one *)
(* run, it does not end with the database shut, unless gfix itself failed.  *)
AlwaysOnline ==
  (pc = "ended" /\ fails = 0 /\ kills = 0) => db = "online"

(* The engine's promise for a restart: a start that found the window in     *)
(* progress leaves the database online, unless gfix -online failed.         *)
RestartReopens ==
  (pc = "ended" /\ "online_failed" \notin blame /\ "failed_while_shut" \notin blame)
    => db = "online"

=============================================================================
