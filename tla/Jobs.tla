-------------------------------- MODULE Jobs --------------------------------
(***************************************************************************)
(* The job runner of fbmcp (internal/jobs): one FIFO channel and one       *)
(* worker goroutine per database, job records kept in memory and in        *)
(* state.json, cooperative cancellation, draining for a configuration      *)
(* reload, closing at shutdown, and the reconciliation of the records      *)
(* after a kill.                                                           *)
(*                                                                         *)
(* Submit looks at closed and drain under the runner's lock, lets the lock *)
(* go, writes the record, and only then sends the task: each of these is a *)
(* step of its own here.                                                   *)
(***************************************************************************)
EXTENDS Naturals, Sequences

CONSTANTS
  Jobs,        \* job ids, one per call of Submit
  Dbs,         \* database ids
  Target,      \* Target[j]: the database of job j
  QueueCap,    \* capacity of a database's channel (256 in the code)
  NoJob,       \* what an idle worker holds
  MaxFaults,   \* bound: failing writes of state.json
  MaxCrashes   \* bound: kills of the process

ASSUME JobsAssumption ==
  /\ Target \in [Jobs -> Dbs]
  /\ QueueCap \in Nat
  /\ NoJob \notin Jobs
  /\ MaxFaults \in Nat
  /\ MaxCrashes \in Nat

VARIABLES
  record,      \* state of each job's record in memory
  disk,        \* the same in state.json
  submit,      \* progress of each call of Submit
  chan,        \* each database's channel: not made yet, open, or closed
  queue,       \* tasks in each channel
  worker,      \* what each database's worker is doing
  task,        \* the job it does that for
  ctxDone,     \* jobs whose context is cancelled
  drain,       \* databases marked as draining
  closed,      \* Close has been called
  canceller,   \* the job a Cancel call has looked up and not acted on yet
  faults, crashes,
  starts,      \* history: how often the body of each job was started
  acked,       \* history: jobs whose cancellation was acknowledged while queued
  panicked     \* history: a task was sent on a closed channel

records == <<record, disk, faults>>
workers == <<worker, task>>
history == <<starts, acked, panicked>>
vars == <<records, submit, chan, queue, workers, ctxDone, drain, closed,
          canceller, crashes, history>>

Live     == {"queued", "running"}
Terminal == {"succeeded", "failed", "cancelled", "interrupted"}
States   == {"none"} \cup Live \cup Terminal

Submits == {"no", "admitted", "recorded", "sent", "refused", "lost"}
Steps   == {"idle", "dequeued", "registered", "running", "returned"}

Init ==
  /\ record = [j \in Jobs |-> "none"] /\ disk = record
  /\ submit = [j \in Jobs |-> "no"]
  /\ chan = [d \in Dbs |-> "none"] /\ queue = [d \in Dbs |-> << >>]
  /\ worker = [d \in Dbs |-> "idle"] /\ task = [d \in Dbs |-> NoJob]
  /\ ctxDone = {} /\ drain = {} /\ closed = FALSE /\ canceller = NoJob
  /\ faults = 0 /\ crashes = 0
  /\ starts = [j \in Jobs |-> 0] /\ acked = {} /\ panicked = FALSE

TypeOK ==
  /\ record \in [Jobs -> States] /\ disk \in [Jobs -> States]
  /\ submit \in [Jobs -> Submits]
  /\ chan \in [Dbs -> {"none", "open", "closed"}]
  /\ queue \in [Dbs -> Seq(Jobs)]
  /\ worker \in [Dbs -> Steps]
  /\ task \in [Dbs -> Jobs \cup {NoJob}]
  /\ ctxDone \in SUBSET Jobs /\ drain \in SUBSET Dbs /\ closed \in BOOLEAN
  /\ canceller \in Jobs \cup {NoJob}
  /\ faults \in 0..MaxFaults /\ crashes \in 0..MaxCrashes
  /\ starts \in [Jobs -> Nat] /\ acked \in SUBSET Jobs /\ panicked \in BOOLEAN

-----------------------------------------------------------------------------
\* persist: the whole snapshot is written beside state.json and renamed over
\* it; a failure before the rename keeps the old file, one after it does not.
Persist(ok) ==
  /\ ok \/ faults < MaxFaults
  /\ faults' = IF ok THEN faults ELSE faults + 1
  /\ disk' \in IF ok THEN {record'} ELSE {disk, record'}

\* Store.PutJob: the record changes in memory whatever becomes of the file.
PutJob(j, s, ok) ==
  /\ record' = [record EXCEPT ![j] = s]
  /\ Persist(ok)

-----------------------------------------------------------------------------
(***************************************************************************)
(* Submit.                                                                 *)
(***************************************************************************)

\* Under the lock: refuse when closed or draining, else make the channel and
\* start its worker if this is the database's first job.
SubmitAdmit(j) ==
  /\ submit[j] = "no"
  /\ \/ /\ closed \/ Target[j] \in drain
        /\ submit' = [submit EXCEPT ![j] = "refused"]
        /\ UNCHANGED chan
     \/ /\ ~closed /\ Target[j] \notin drain
        /\ submit' = [submit EXCEPT ![j] = "admitted"]
        /\ chan' = [chan EXCEPT ![Target[j]] = IF @ = "none" THEN "open" ELSE @]
  /\ UNCHANGED <<records, queue, workers, ctxDone, drain, closed, canceller, crashes, history>>

\* The record of the queued job; a failing write ends the call with an error
\* and leaves the record in memory.
SubmitRecord(j) ==
  /\ submit[j] = "admitted"
  /\ \E ok \in BOOLEAN :
       /\ PutJob(j, "queued", ok)
       /\ submit' = [submit EXCEPT ![j] = IF ok THEN "recorded" ELSE "refused"]
  /\ UNCHANGED <<chan, queue, workers, ctxDone, drain, closed, canceller, crashes, history>>

SubmitSend(j) ==
  /\ submit[j] = "recorded"
  /\ chan[Target[j]] = "open"
  /\ \/ /\ Len(queue[Target[j]]) < QueueCap
        /\ queue' = [queue EXCEPT ![Target[j]] = Append(@, j)]
        /\ submit' = [submit EXCEPT ![j] = "sent"]
        /\ UNCHANGED records
     \/ /\ Len(queue[Target[j]]) >= QueueCap
        /\ \E ok \in BOOLEAN : PutJob(j, "failed", ok)
        /\ submit' = [submit EXCEPT ![j] = "refused"]
        /\ UNCHANGED queue
  /\ UNCHANGED <<chan, workers, ctxDone, drain, closed, canceller, crashes, history>>

-----------------------------------------------------------------------------
(***************************************************************************)
(* The worker of one database.                                             *)
(***************************************************************************)
Busy(d, step) ==
  /\ worker' = [worker EXCEPT ![d] = step]
  /\ UNCHANGED task

\* range ch: a closed channel is drained before the worker ends.
Dequeue(d) ==
  /\ worker[d] = "idle"
  /\ queue[d] # << >>
  /\ queue' = [queue EXCEPT ![d] = Tail(@)]
  /\ worker' = [worker EXCEPT ![d] = "dequeued"]
  /\ task' = [task EXCEPT ![d] = Head(queue[d])]
  /\ UNCHANGED <<records, submit, chan, ctxDone, drain, closed, canceller, crashes, history>>

\* Only from here on does Cancel find a function to call.
Register(d) ==
  /\ worker[d] = "dequeued"
  /\ Busy(d, "registered")
  /\ UNCHANGED <<records, submit, chan, queue, ctxDone, drain, closed, canceller, crashes, history>>

Start(d) ==
  /\ worker[d] = "registered"
  /\ \E ok \in BOOLEAN : PutJob(task[d], "running", ok)
  /\ Busy(d, "running")
  /\ starts' = [starts EXCEPT ![task[d]] = @ + 1]
  /\ UNCHANGED <<submit, chan, queue, ctxDone, drain, closed, canceller, crashes, acked, panicked>>

\* A progress report that is not coalesced rewrites the snapshot.
Progress(d) ==
  /\ worker[d] = "running"
  /\ \E ok \in BOOLEAN : PutJob(task[d], "running", ok)
  /\ UNCHANGED <<submit, chan, queue, workers, ctxDone, drain, closed, canceller, crashes, history>>

\* The body returns; the worker looks at the context and then unregisters.
BodyReturns(d) ==
  /\ worker[d] = "running"
  /\ Busy(d, "returned")
  /\ UNCHANGED <<records, submit, chan, queue, ctxDone, drain, closed, canceller, crashes, history>>

\* Mutant: a cancelled job gets no terminal record.
FinishSilent(d) ==
  /\ worker[d] = "returned"
  /\ \/ task[d] \in ctxDone /\ UNCHANGED records
     \/ /\ task[d] \notin ctxDone
        /\ \E s \in {"failed", "succeeded"}, ok \in BOOLEAN : PutJob(task[d], s, ok)
  /\ worker' = [worker EXCEPT ![d] = "idle"]
  /\ task' = [task EXCEPT ![d] = NoJob]
  /\ UNCHANGED <<submit, chan, queue, ctxDone, drain, closed, canceller, crashes, history>>

\* The terminal record; a job whose context is done counts as cancelled
\* whatever its body returned.
Finish(d) ==
  /\ worker[d] = "returned"
  /\ \E s \in IF task[d] \in ctxDone THEN {"cancelled"} ELSE {"failed", "succeeded"},
        ok \in BOOLEAN : PutJob(task[d], s, ok)
  /\ worker' = [worker EXCEPT ![d] = "idle"]
  /\ task' = [task EXCEPT ![d] = NoJob]
  /\ UNCHANGED <<submit, chan, queue, ctxDone, drain, closed, canceller, crashes, history>>

-----------------------------------------------------------------------------
(***************************************************************************)
(* Cancel, draining, closing, restarting.                                  *)
(***************************************************************************)

\* Cancel reads the record first ...
CancelLookup(j) ==
  /\ canceller = NoJob
  /\ record[j] \in Live
  /\ canceller' = j
  /\ UNCHANGED <<records, submit, chan, queue, workers, ctxDone, drain, closed, crashes, history>>

\* ... and then calls the registered function, if there is one.  The reply is
\* the same either way: "cancellation requested".
CancelAct ==
  /\ canceller # NoJob
  /\ ctxDone' = IF \E d \in Dbs : task[d] = canceller /\ worker[d] \in {"registered", "running"}
                  THEN ctxDone \cup {canceller} ELSE ctxDone
  /\ acked' = IF record[canceller] = "queued" /\ starts[canceller] = 0
                THEN acked \cup {canceller} ELSE acked
  /\ canceller' = NoJob
  /\ UNCHANGED <<records, submit, chan, queue, workers, drain, closed, crashes, starts, panicked>>

SetDraining(d) ==
  /\ drain' = IF d \in drain THEN drain \ {d} ELSE drain \cup {d}
  /\ UNCHANGED <<records, submit, chan, queue, workers, ctxDone, closed, canceller, crashes, history>>

\* Close marks the runner under the lock and closes the channels after it.
Close ==
  /\ ~closed
  /\ closed' = TRUE
  /\ UNCHANGED <<records, submit, chan, queue, workers, ctxDone, drain, canceller, crashes, history>>

CloseChan(d) ==
  /\ closed
  /\ chan[d] = "open"
  /\ chan' = [chan EXCEPT ![d] = "closed"]
  /\ UNCHANGED <<records, submit, queue, workers, ctxDone, drain, closed, canceller, crashes, history>>

\* Mutant: every record of the previous process becomes interrupted.
ReconciledAll(recs) == [j \in Jobs |-> IF recs[j] # "none" THEN "interrupted" ELSE recs[j]]

\* reconcile: live records of the previous process become interrupted.
Reconciled(recs) == [j \in Jobs |-> IF recs[j] \in Live THEN "interrupted" ELSE recs[j]]

\* Mutant: a new process takes up the jobs it was doing.
RebornResumes ==
  /\ record' = disk
  /\ \E ok \in BOOLEAN : Persist(ok)
  /\ submit' = [j \in Jobs |-> IF submit[j] \in {"admitted", "recorded"} THEN "lost" ELSE submit[j]]
  /\ chan' = [d \in Dbs |-> "open"]
  /\ queue' = [d \in Dbs |-> IF task[d] = NoJob THEN queue[d] ELSE <<task[d]>> \o queue[d]]
  /\ worker' = [d \in Dbs |-> "idle"] /\ task' = [d \in Dbs |-> NoJob]
  /\ ctxDone' = {} /\ drain' = {} /\ closed' = FALSE /\ canceller' = NoJob
  /\ UNCHANGED <<starts, acked>>

\* reconcile writes the file once for every record it changes; when writes fail
\* it has the changes up to the last one that worked.
PersistEach(ok) ==
  /\ ok \/ faults < MaxFaults
  /\ faults' = IF ok THEN faults ELSE faults + 1
  /\ \E part \in SUBSET Jobs :
       /\ ok => part = Jobs
       /\ disk' = [j \in Jobs |-> IF j \in part THEN record'[j] ELSE disk[j]]

\* A new process: channels, workers, contexts, marks and calls are gone, the
\* records are those of state.json after reconcile.
Reborn ==
  /\ record' = Reconciled(disk)
  /\ \E ok \in BOOLEAN : PersistEach(ok)
  /\ submit' = [j \in Jobs |-> IF submit[j] \in {"admitted", "recorded"} THEN "lost" ELSE submit[j]]
  /\ chan' = [d \in Dbs |-> "none"] /\ queue' = [d \in Dbs |-> << >>]
  /\ worker' = [d \in Dbs |-> "idle"] /\ task' = [d \in Dbs |-> NoJob]
  /\ ctxDone' = {} /\ drain' = {} /\ closed' = FALSE /\ canceller' = NoJob
  /\ UNCHANGED <<starts, acked>>

Restart ==
  /\ crashes < MaxCrashes
  /\ crashes' = crashes + 1
  /\ Reborn
  /\ UNCHANGED panicked

\* A send on a closed channel panics, default branch or not, and the process
\* dies of it.
SubmitPanics(j) ==
  /\ submit[j] = "recorded"
  /\ chan[Target[j]] = "closed"
  /\ panicked' = TRUE
  /\ Reborn
  /\ UNCHANGED crashes

-----------------------------------------------------------------------------
Submitting(j) == SubmitAdmit(j) \/ SubmitRecord(j) \/ SubmitSend(j)

Working(d) == Dequeue(d) \/ Register(d) \/ Start(d) \/ BodyReturns(d) \/ Finish(d)

Next ==
  \/ \E j \in Jobs : Submitting(j) \/ CancelLookup(j) \/ SubmitPanics(j)
  \/ \E d \in Dbs : Working(d) \/ Progress(d) \/ SetDraining(d) \/ CloseChan(d)
  \/ CancelAct
  \/ Close
  \/ Restart

Spec == Init /\ [][Next]_vars

(***************************************************************************)
(* Goroutines that can run do run, and a job's body returns (its command   *)
(* has a time limit or ends by itself).                                    *)
(***************************************************************************)
Fairness ==
  /\ \A d \in Dbs : WF_vars(Working(d))
  /\ \A j \in Jobs : WF_vars(SubmitRecord(j)) /\ WF_vars(SubmitSend(j)) /\ WF_vars(SubmitPanics(j))

FairSpec == Spec /\ Fairness

-----------------------------------------------------------------------------
(***************************************************************************)
(* Properties.                                                             *)
(***************************************************************************)
InQueue(j) == \E i \in DOMAIN queue[Target[j]] : queue[Target[j]][i] = j

\* Somebody is going to give the record of j its terminal state.
Owned(j) ==
  \/ submit[j] = "recorded"
  \/ InQueue(j)
  \/ task[Target[j]] = j

\* HasLive and WaitIdle, the overlap guard of the scheduler and the drain of a
\* reload all take a record that says queued or running for a job that will
\* end.  As long as every write of state.json succeeds this is so: a live
\* record always has a submitter, a channel or a worker behind it, across
\* cancellations, full queues, Close, panics and kills.
LiveIsOwned == faults = 0 => \A j \in Jobs : record[j] \in Live => Owned(j)

\* "v1 marks them interrupted instead of auto-resuming destructive work": the
\* body of a job starts at most once, over any number of kills, and only when
\* its record was written and its task sent.
StartsOnce == \A j \in Jobs : starts[j] <= 1 /\ (starts[j] = 1 => submit[j] = "sent")

\* What state.json says of a finished job is final: no worker, submitter,
\* progress report or reconciliation takes it back.
TerminalIsFinal == [][\A j \in Jobs : disk[j] \in Terminal => disk'[j] = disk[j]]_vars

\* Single flight: a job that runs is the only one of its database that does,
\* and none of its database's jobs is at two places at once.
SingleFlight ==
  \A j \in Jobs :
    /\ submit[j] = "recorded" => ~InQueue(j) /\ task[Target[j]] # j
    /\ InQueue(j) => task[Target[j]] # j
    /\ \A d \in Dbs : task[d] = j => d = Target[j]
    /\ faults = 0 /\ record[j] = "running" => task[Target[j]] = j

(***************************************************************************)
(* The strengthening the proofs use.                                       *)
(***************************************************************************)
WorkerTask == \A d \in Dbs : task[d] = NoJob <=> worker[d] = "idle"

\* A task in a channel was sent to it once and has not been started.
Queued ==
  \A d \in Dbs : \A i \in DOMAIN queue[d] :
    /\ Target[queue[d][i]] = d
    /\ submit[queue[d][i]] = "sent"
    /\ starts[queue[d][i]] = 0
    /\ \A k \in DOMAIN queue[d] : queue[d][k] = queue[d][i] => k = i

\* A worker's task came out of its own channel.
Held ==
  \A d \in Dbs : task[d] # NoJob =>
    /\ Target[task[d]] = d
    /\ submit[task[d]] = "sent"
    /\ ~InQueue(task[d])
    /\ worker[d] \in {"dequeued", "registered"} => starts[task[d]] = 0

Unsent == \A j \in Jobs :
  /\ submit[j] # "sent" => starts[j] = 0
  /\ submit[j] \in {"no", "admitted"} => record[j] = "none" /\ disk[j] = "none"

\* A terminal record has nobody left who would write it.
Ended == \A j \in Jobs :
  /\ record[j] \in Terminal => submit[j] \in {"sent", "refused", "lost"} /\ ~Owned(j)
  /\ disk[j] \in Terminal => record[j] = disk[j]

InStep == faults = 0 => disk = record

JobsInv ==
  /\ TypeOK /\ WorkerTask /\ Queued /\ Held /\ Unsent /\ Ended /\ InStep
  /\ LiveIsOwned /\ StartsOnce /\ SingleFlight

\* Every job whose submission was acknowledged comes to an end that its record
\* in memory shows, unless the process dies (then its end is "interrupted" or
\* what the file says).
SentJobsEnd ==
  \A j \in Jobs : submit[j] = "sent" ~> record[j] \in Terminal

-----------------------------------------------------------------------------
(***************************************************************************)
(* What comments, messages and documents of the repository say and the     *)
(* code does not do: TLC finds a counterexample to each of these (README,  *)
(* section 6).                                                             *)
(***************************************************************************)

\* "Cancel cooperatively cancels a running/queued job": a job whose
\* cancellation was acknowledged while it was queued does not run to success.
CancelStopsQueued == \A j \in acked : record[j] # "succeeded"

\* "Close stops accepting jobs and waits (bounded) for workers": a Submit that
\* races with Close is refused; it does not bring the process down.
CloseRefuses == ~panicked

\* "HasLive reports queued/running jobs for db": a record that says queued or
\* running belongs to a job that is queued or running.
HasLiveIsTrue == \A j \in Jobs : record[j] \in Live => Owned(j)
=============================================================================
