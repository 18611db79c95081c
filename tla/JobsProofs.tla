----------------------------- MODULE JobsProofs -----------------------------
(***************************************************************************)
(* Machine-checked proofs about Jobs, for every set of jobs and databases, *)
(* every channel capacity and every number of kills and failing writes.    *)
(***************************************************************************)
EXTENDS Jobs, TLAPS

\* What PutJob does to the records, whatever the outcome of the write.
LEMMA PutEffect ==
  ASSUME TypeOK, NEW j \in Jobs, NEW s \in States, NEW ok \in BOOLEAN, PutJob(j, s, ok)
  PROVE  /\ record' = [record EXCEPT ![j] = s]
         /\ record' \in [Jobs -> States]
         /\ disk' \in {disk, record'}
         /\ disk' \in [Jobs -> States]
         /\ faults' \in 0..MaxFaults
         /\ faults' = 0 => faults = 0 /\ disk' = record'
<1>1. record' = [record EXCEPT ![j] = s] /\ record' \in [Jobs -> States]
  BY DEF TypeOK, PutJob
<1>2. CASE ok
  BY <1>1, <1>2 DEF TypeOK, PutJob, Persist
<1>3. CASE ~ok
  <2>1. faults \in Nat /\ faults < MaxFaults /\ faults' = faults + 1
    BY <1>3 DEF TypeOK, PutJob, Persist
  <2>2. disk \in [Jobs -> States] /\ disk' \in {disk, record'}
    BY <1>3 DEF TypeOK, PutJob, Persist
  <2>3. faults' \in 0..MaxFaults /\ faults' # 0
    BY <2>1, JobsAssumption
  <2> QED
    BY <1>1, <2>2, <2>3
<1> QED
  BY <1>2, <1>3

\* The elements of a channel after a send, and after a receive.
LEMMA SendElems ==
  ASSUME NEW q \in Seq(Jobs), NEW j \in Jobs
  PROVE  /\ Append(q, j) \in Seq(Jobs)
         /\ DOMAIN Append(q, j) = 1..(Len(q) + 1)
         /\ DOMAIN q = 1..Len(q)
         /\ Len(q) \in Nat
         /\ Append(q, j)[Len(q) + 1] = j
         /\ \A i \in 1..Len(q) : Append(q, j)[i] = q[i]
OBVIOUS

LEMMA ReceiveElems ==
  ASSUME NEW q \in Seq(Jobs), q # << >>
  PROVE  /\ Tail(q) \in Seq(Jobs)
         /\ Len(q) \in Nat
         /\ Len(q) >= 1
         /\ DOMAIN q = 1..Len(q)
         /\ DOMAIN Tail(q) = 1..(Len(q) - 1)
         /\ Head(q) = q[1]
         /\ Head(q) \in Jobs
         /\ \A i \in 1..(Len(q) - 1) : Tail(q)[i] = q[i + 1]
OBVIOUS

-----------------------------------------------------------------------------
LEMMA JobsInvInit == Init => JobsInv
<1> SUFFICES ASSUME Init PROVE JobsInv
  OBVIOUS
<1>1. TypeOK
  <2>1. /\ record \in [Jobs -> States] /\ disk \in [Jobs -> States]
        /\ submit \in [Jobs -> Submits]
        /\ chan \in [Dbs -> {"none", "open", "closed"}]
        /\ worker \in [Dbs -> Steps]
        /\ task \in [Dbs -> Jobs \cup {NoJob}]
    BY DEF Init, States, Submits, Steps
  <2>2. queue \in [Dbs -> Seq(Jobs)]
    BY DEF Init
  <2>3. /\ faults \in 0..MaxFaults /\ crashes \in 0..MaxCrashes
        /\ starts \in [Jobs -> Nat]
    BY JobsAssumption DEF Init
  <2> QED
    BY <2>1, <2>2, <2>3 DEF Init, TypeOK
<1>2. \A d \in Dbs : DOMAIN queue[d] = {}
  BY DEF Init
<1>3. \A j \in Jobs : record[j] = "none" /\ submit[j] = "no" /\ starts[j] = 0
  BY DEF Init
<1>4. \A d \in Dbs : worker[d] = "idle" /\ task[d] = NoJob
  BY DEF Init
<1>5. WorkerTask /\ Queued /\ Held /\ Unsent /\ StartsOnce
  BY <1>2, <1>3, <1>4 DEF Init, WorkerTask, Queued, Held, Unsent, StartsOnce
<1>6. Ended /\ InStep /\ LiveIsOwned
  BY <1>3 DEF Init, Ended, InStep, LiveIsOwned, Live, Terminal
<1>7. SingleFlight
  BY <1>2, <1>3, <1>4, JobsAssumption DEF SingleFlight
<1> QED
  BY <1>1, <1>5, <1>6, <1>7 DEF JobsInv

\* Steps that leave records, submissions, channels' contents and workers alone.
LEMMA QuietStep ==
  ASSUME JobsInv, TypeOK', UNCHANGED <<records, submit, queue, workers, starts>>
  PROVE  JobsInv'
BY DEF JobsInv, WorkerTask, Queued, Held, Unsent, Ended, InStep, LiveIsOwned, StartsOnce,
   SingleFlight, InQueue, Owned, records, workers

\* A worker that rewrites the record of its own task as running.
LEMMA RunningStep ==
  ASSUME JobsInv, NEW d \in Dbs, NEW ok \in BOOLEAN, PutJob(task[d], "running", ok),
         task[d] # NoJob,
         UNCHANGED <<submit, queue, task>>,
         worker' = [worker EXCEPT ![d] = "running"],
         \/ worker[d] = "registered" /\ starts' = [starts EXCEPT ![task[d]] = @ + 1]
         \/ worker[d] = "running" /\ UNCHANGED starts,
         TypeOK'
  PROVE  JobsInv'
<1> USE DEF JobsInv
<1> PICK j \in Jobs : j = task[d]
  BY DEF TypeOK
<1>1. /\ Target[j] = d /\ submit[j] = "sent" /\ ~InQueue(j)
      /\ j # NoJob
      /\ worker[d] = "registered" => starts[j] = 0
  BY JobsAssumption DEF Held
<1>2. /\ record' = [record EXCEPT ![j] = "running"]
      /\ disk' \in {disk, record'}
      /\ faults' = 0 => faults = 0 /\ disk' = record'
  BY PutEffect DEF States, Live
<1>3. /\ \A k \in Jobs : InQueue(k)' <=> InQueue(k)
      /\ \A k \in Jobs : Owned(k)' <=> Owned(k)
      /\ Owned(j)
  BY <1>1 DEF InQueue, Owned
<1>4. \A k \in Jobs : k # j => starts'[k] = starts[k] /\ record'[k] = record[k]
  BY <1>2 DEF TypeOK
<1>5. \A e \in Dbs : task[e] = j => e = d
  BY <1>1 DEF SingleFlight
<1>6. starts'[j] <= 1 /\ starts[j] \in Nat /\ record'[j] = "running"
  BY <1>1, <1>2 DEF TypeOK, StartsOnce
<1>7. WorkerTask'
  BY <1>1 DEF WorkerTask, TypeOK
<1>8. Queued'
  <2>1. \A e \in Dbs : \A i \in DOMAIN queue[e] : queue[e][i] \in Jobs
    BY DEF TypeOK
  <2>2. \A e \in Dbs : \A i \in DOMAIN queue[e] : queue[e][i] # j
    BY <1>1 DEF Queued, InQueue
  <2> QED
    BY <2>1, <2>2, <1>4 DEF Queued
<1>9. Held'
  <2> SUFFICES ASSUME NEW e \in Dbs, task'[e] # NoJob
               PROVE  /\ Target[task'[e]] = e
                      /\ submit'[task'[e]] = "sent"
                      /\ ~InQueue(task[e])
                      /\ worker'[e] \in {"dequeued", "registered"} => starts'[task[e]] = 0
    BY <1>3 DEF Held, InQueue
  <2>1. CASE e = d
    BY <2>1, <1>1 DEF TypeOK
  <2>2. CASE e # d
    BY <2>2, <1>4, <1>5 DEF Held, TypeOK
  <2> QED
    BY <2>1, <2>2
<1>10. Unsent'
  BY <1>1, <1>2, <1>4 DEF Unsent, TypeOK
<1>11. Ended'
  <2> SUFFICES ASSUME NEW k \in Jobs
               PROVE  /\ record'[k] \in Terminal => submit'[k] \in {"sent", "refused", "lost"} /\ ~Owned(k)'
                      /\ disk'[k] \in Terminal => record'[k] = disk'[k]
    BY DEF Ended
  <2>1. CASE k = j
    BY <2>1, <1>2, <1>3, <1>6 DEF Ended, Terminal
  <2>2. CASE k # j
    BY <2>2, <1>2, <1>3, <1>4 DEF Ended
  <2> QED
    BY <2>1, <2>2
<1>12. InStep' /\ LiveIsOwned'
  BY <1>2, <1>3, <1>4 DEF InStep, LiveIsOwned
<1>13. StartsOnce'
  BY <1>1, <1>4, <1>6 DEF StartsOnce, TypeOK
<1>14. SingleFlight'
  BY <1>1, <1>2, <1>3, <1>4 DEF SingleFlight, TypeOK
<1> QED
  BY <1>7, <1>8, <1>9, <1>10, <1>11, <1>12, <1>13, <1>14

\* A terminal record s is written for a job that nobody owns after the step.
Settles(j, s) ==
  /\ s \in {"cancelled", "failed", "succeeded"}
  /\ \E ok \in BOOLEAN : PutJob(j, s, ok)
  /\ UNCHANGED <<queue, starts>>
  /\ \A k \in Jobs : k # j => submit'[k] = submit[k]
  /\ submit'[j] \in {"sent", "refused"}
  /\ submit[j] \in {"recorded", "sent"}
  /\ submit'[j] = "refused" => submit[j] = "recorded"
  /\ Owned(j) /\ ~InQueue(j) /\ task'[Target[j]] # j
  /\ \A d \in Dbs : \/ task'[d] = task[d] /\ worker'[d] = worker[d]
                    \/ task[d] = j /\ task'[d] = NoJob /\ worker'[d] = "idle"

LEMMA TerminalStep ==
  ASSUME JobsInv, TypeOK', NEW j \in Jobs, NEW s, Settles(j, s)
  PROVE  JobsInv'
<1>0. PICK ok \in BOOLEAN : PutJob(j, s, ok)
  BY DEF Settles
<1> USE DEF Settles
<1> USE DEF JobsInv
<1>1. Target[j] \in Dbs
  BY JobsAssumption
<1>2. /\ record' = [record EXCEPT ![j] = s]
      /\ disk' \in {disk, record'}
      /\ faults' = 0 => faults = 0 /\ disk' = record'
  BY <1>0, PutEffect DEF States, Terminal
<1>3. /\ record'[j] = s /\ s \in Terminal /\ s \notin Live
      /\ \A k \in Jobs : k # j => record'[k] = record[k] /\ submit'[k] = submit[k]
  BY <1>2 DEF TypeOK, Terminal, Live
<1>4. \A k \in Jobs : InQueue(k)' <=> InQueue(k)
  BY DEF InQueue
<1>5. \A k \in Jobs : k # j => (Owned(k)' <=> Owned(k))
  BY <1>3, <1>4, JobsAssumption DEF Owned
<1>6. ~Owned(j)'
  BY <1>4 DEF Owned
<1>7. WorkerTask'
  BY DEF WorkerTask
<1>8. Queued'
  <2>1. \A d \in Dbs : \A i \in DOMAIN queue[d] : queue[d][i] \in Jobs /\ queue[d][i] # j
    BY DEF TypeOK, Queued, InQueue
  <2> QED
    BY <2>1, <1>3 DEF Queued
<1>9. Held'
  <2> SUFFICES ASSUME NEW d \in Dbs, task'[d] # NoJob
               PROVE  /\ Target[task'[d]] = d
                      /\ submit'[task'[d]] = "sent"
                      /\ ~InQueue(task'[d])
                      /\ worker'[d] \in {"dequeued", "registered"} => starts'[task'[d]] = 0
    BY DEF Held, InQueue
  <2>1. task'[d] = task[d] /\ worker'[d] = worker[d]
    OBVIOUS
  <2>2. Target[task[d]] = d /\ task[d] # j /\ task[d] \in Jobs
    BY <2>1 DEF Held, TypeOK
  <2> QED
    BY <2>1, <2>2, <1>3 DEF Held
<1>10. Unsent' /\ StartsOnce'
  <2>1. \A k \in Jobs : submit'[k] # "sent" => submit[k] # "sent"
    BY <1>3
  <2>2. \A k \in Jobs : submit[k] = "sent" => submit'[k] = "sent"
    BY <1>3
  <2>3. StartsOnce'
    BY <2>2 DEF StartsOnce
  <2>4. \A k \in Jobs : submit'[k] \in {"no", "admitted"} => record'[k] = "none" /\ disk'[k] = "none"
    <3> TAKE k \in Jobs
    <3>1. CASE k = j
      BY <3>1
    <3>2. CASE k # j
      <4>1. record'[k] = record[k] /\ submit'[k] = submit[k]
        BY <3>2, <1>3
      <4>2. disk'[k] = disk[k] \/ disk'[k] = record'[k]
        BY <1>2
      <4> QED
        BY <4>1, <4>2 DEF Unsent
    <3> QED
      BY <3>1, <3>2
  <2> QED
    BY <2>1, <2>3, <2>4 DEF Unsent
<1>11. Ended'
  <2> SUFFICES ASSUME NEW k \in Jobs
               PROVE  /\ record'[k] \in Terminal => submit'[k] \in {"sent", "refused", "lost"} /\ ~Owned(k)'
                      /\ disk'[k] \in Terminal => record'[k] = disk'[k]
    BY DEF Ended
  <2>1. CASE k = j
    <3>1. disk[j] \notin Terminal
      BY DEF Ended
    <3> QED
      BY <2>1, <3>1, <1>2, <1>3, <1>6
  <2>2. CASE k # j
    BY <2>2, <1>2, <1>3, <1>5 DEF Ended
  <2> QED
    BY <2>1, <2>2
<1>12. InStep' /\ LiveIsOwned'
  BY <1>2, <1>3, <1>5 DEF InStep, LiveIsOwned
<1>13. SingleFlight'
  <2>1. \A k \in Jobs : k # j => (task'[Target[k]] = k <=> task[Target[k]] = k)
    BY JobsAssumption DEF SingleFlight
  <2>2. \A k \in Jobs, d \in Dbs : task'[d] = k => task[d] = k
    BY JobsAssumption
  <2>3. record'[j] # "running"
    BY <1>3 DEF Live
  <2> QED
    BY <2>1, <2>2, <2>3, <1>2, <1>3, <1>4 DEF SingleFlight
<1> QED
  BY <1>7, <1>8, <1>9, <1>10, <1>11, <1>12, <1>13

\* The record of a newly queued job.
LEMMA RecordStep ==
  ASSUME JobsInv, NEW j \in Jobs, SubmitRecord(j)
  PROVE  JobsInv'
<1> USE DEF JobsInv
<1>1. PICK ok \in BOOLEAN :
        /\ PutJob(j, "queued", ok)
        /\ submit' = [submit EXCEPT ![j] = IF ok THEN "recorded" ELSE "refused"]
  BY DEF SubmitRecord
<1>2. /\ record' = [record EXCEPT ![j] = "queued"]
      /\ record' \in [Jobs -> States] /\ disk' \in [Jobs -> States]
      /\ disk' \in {disk, record'}
      /\ faults' \in 0..MaxFaults
      /\ faults' = 0 => faults = 0 /\ disk' = record'
  BY <1>1, PutEffect DEF States, Live
<1>3. /\ submit[j] = "admitted" /\ record[j] = "none" /\ disk[j] = "none" /\ starts[j] = 0
      /\ UNCHANGED <<chan, queue, worker, task, starts>>
  BY DEF SubmitRecord, Unsent, workers, history
<1>4. TypeOK'
  BY <1>1, <1>2, <1>3 DEF SubmitRecord, TypeOK, Submits, history
<1>5. /\ \A k \in Jobs : k # j => record'[k] = record[k] /\ submit'[k] = submit[k]
      /\ record'[j] = "queued" /\ submit'[j] \in {"recorded", "refused"}
      /\ faults' = 0 => submit'[j] = "recorded"
  <2>1. faults' = 0 => ok
    BY <1>1 DEF PutJob, Persist, TypeOK
  <2> QED
    BY <2>1, <1>1, <1>2 DEF TypeOK
<1>6. \A k \in Jobs : InQueue(k)' <=> InQueue(k)
  BY <1>3 DEF InQueue
<1>7. ~InQueue(j) /\ \A d \in Dbs : task[d] # j
  <2>1. ~InQueue(j)
    BY <1>3, JobsAssumption DEF InQueue, Queued
  <2>2. \A d \in Dbs : task[d] # j
    BY <1>3, JobsAssumption DEF Held
  <2> QED
    BY <2>1, <2>2
<1>8. \A k \in Jobs : k # j => (Owned(k)' <=> Owned(k))
  BY <1>3, <1>5, <1>6 DEF Owned
<1>9. WorkerTask'
  BY <1>3 DEF WorkerTask
<1>10. Queued'
  <2>1. \A d \in Dbs : \A i \in DOMAIN queue[d] : queue[d][i] \in Jobs /\ queue[d][i] # j
    BY <1>3 DEF TypeOK, Queued
  <2> QED
    BY <2>1, <1>3, <1>5 DEF Queued
<1>11. Held'
  <2>1. \A d \in Dbs : task[d] \in Jobs \cup {NoJob}
    BY DEF TypeOK
  <2> QED
    BY <2>1, <1>3, <1>5, <1>7 DEF Held, InQueue
<1>12. Unsent' /\ StartsOnce'
  <2> SUFFICES ASSUME NEW k \in Jobs
               PROVE  /\ submit'[k] # "sent" => starts'[k] = 0
                      /\ submit'[k] \in {"no", "admitted"} => record'[k] = "none" /\ disk'[k] = "none"
                      /\ starts'[k] <= 1 /\ (starts'[k] = 1 => submit'[k] = "sent")
    BY DEF Unsent, StartsOnce
  <2>1. CASE k = j
    BY <2>1, <1>3, <1>5 DEF StartsOnce
  <2>2. CASE k # j
    <3>1. disk'[k] = disk[k] \/ disk'[k] = record'[k]
      BY <1>2
    <3> QED
      BY <2>2, <3>1, <1>3, <1>5 DEF Unsent, StartsOnce
  <2> QED
    BY <2>1, <2>2
<1>13. Ended'
  <2> SUFFICES ASSUME NEW k \in Jobs
               PROVE  /\ record'[k] \in Terminal => submit'[k] \in {"sent", "refused", "lost"} /\ ~Owned(k)'
                      /\ disk'[k] \in Terminal => record'[k] = disk'[k]
    BY DEF Ended
  <2>0. disk'[k] = disk[k] \/ disk'[k] = record'[k]
    BY <1>2
  <2>1. CASE k = j
    BY <2>0, <2>1, <1>3, <1>5 DEF Terminal
  <2>2. CASE k # j
    BY <2>0, <2>2, <1>5, <1>8 DEF Ended
  <2> QED
    BY <2>1, <2>2
<1>14. InStep' /\ LiveIsOwned'
  <2>1. faults' = 0 => Owned(j)'
    BY <1>5 DEF Owned
  <2> QED
    BY <2>1, <1>2, <1>5, <1>8 DEF InStep, LiveIsOwned
<1>15. SingleFlight'
  <2> SUFFICES ASSUME NEW k \in Jobs
               PROVE  /\ submit'[k] = "recorded" => ~InQueue(k) /\ task[Target[k]] # k
                      /\ InQueue(k) => task[Target[k]] # k
                      /\ \A d \in Dbs : task[d] = k => d = Target[k]
                      /\ faults' = 0 /\ record'[k] = "running" => task[Target[k]] = k
    BY <1>3, <1>6 DEF SingleFlight
  <2>1. CASE k = j
    BY <2>1, <1>5, <1>7, JobsAssumption
  <2>2. CASE k # j
    BY <2>2, <1>2, <1>5 DEF SingleFlight
  <2> QED
    BY <2>1, <2>2
<1> QED
  BY <1>4, <1>9, <1>10, <1>11, <1>12, <1>13, <1>14, <1>15

\* A task sent to a channel with room.
LEMMA SendStep ==
  ASSUME JobsInv, NEW j \in Jobs, submit[j] = "recorded", UNCHANGED <<records, worker, task, starts>>,
         queue' = [queue EXCEPT ![Target[j]] = Append(@, j)],
         submit' = [submit EXCEPT ![j] = "sent"],
         TypeOK'
  PROVE  JobsInv'
<1> USE DEF JobsInv, records
<1>1. Target[j] \in Dbs /\ queue[Target[j]] \in Seq(Jobs) /\ j # NoJob
  BY JobsAssumption DEF TypeOK
<1>2. ~InQueue(j) /\ (\A d \in Dbs : task[d] # j) /\ starts[j] = 0
  BY <1>1 DEF SingleFlight, Unsent
<1>3. /\ \A k \in Jobs : k # j => submit'[k] = submit[k]
      /\ submit'[j] = "sent"
  BY DEF TypeOK
<1>4. PICK n \in Nat : n = Len(queue[Target[j]])
  BY <1>1, SendElems
<1>5. /\ DOMAIN queue[Target[j]] = 1..n
      /\ DOMAIN queue'[Target[j]] = 1..(n + 1)
      /\ queue'[Target[j]][n + 1] = j
      /\ \A i \in 1..n : queue'[Target[j]][i] = queue[Target[j]][i]
      /\ \A d \in Dbs : d # Target[j] => queue'[d] = queue[d]
  BY <1>1, <1>4, SendElems DEF TypeOK
<1>6. \A k \in Jobs : k # j => (InQueue(k)' <=> InQueue(k))
  <2> SUFFICES ASSUME NEW k \in Jobs, k # j PROVE InQueue(k)' <=> InQueue(k)
    OBVIOUS
  <2>1. CASE Target[k] # Target[j]
    BY <2>1, <1>5, JobsAssumption DEF InQueue
  <2>2. CASE Target[k] = Target[j]
    <3>1. InQueue(k) <=> \E i \in 1..n : queue[Target[j]][i] = k
      BY <2>2, <1>5 DEF InQueue
    <3>2. InQueue(k)' <=> \E i \in 1..(n + 1) : queue'[Target[j]][i] = k
      BY <2>2, <1>5 DEF InQueue
    <3>3. \A i \in 1..(n + 1) : i = n + 1 \/ i \in 1..n
      OBVIOUS
    <3>4. \A i \in 1..n : i \in 1..(n + 1)
      OBVIOUS
    <3> QED
      BY <3>1, <3>2, <3>3, <3>4, <1>5
  <2> QED
    BY <2>1, <2>2
<1>7. InQueue(j)'
  <2>1. n + 1 \in 1..(n + 1)
    OBVIOUS
  <2> QED
    BY <2>1, <1>5 DEF InQueue
<1>8. \A k \in Jobs : Owned(k)' <=> Owned(k)
  BY <1>3, <1>6, <1>7 DEF Owned
<1>9. Queued'
  <2> SUFFICES ASSUME NEW d \in Dbs, NEW i \in DOMAIN queue'[d]
               PROVE  /\ Target[queue'[d][i]] = d
                      /\ submit'[queue'[d][i]] = "sent"
                      /\ starts'[queue'[d][i]] = 0
                      /\ \A k \in DOMAIN queue'[d] : queue'[d][k] = queue'[d][i] => k = i
    BY DEF Queued
  <2>0. \A e \in Dbs : \A k \in DOMAIN queue[e] : queue[e][k] \in Jobs
    BY DEF TypeOK
  <2>1. CASE d # Target[j]
    <3>1. queue'[d] = queue[d]
      BY <2>1, <1>5
    <3>2. queue[d][i] \in Jobs
      BY <3>1, <2>0
    <3>3. /\ Target[queue[d][i]] = d /\ submit[queue[d][i]] = "sent" /\ starts[queue[d][i]] = 0
          /\ \A k \in DOMAIN queue[d] : queue[d][k] = queue[d][i] => k = i
      BY <3>1 DEF Queued
    <3> QED
      BY <3>1, <3>2, <3>3, <1>3
  <2>2. CASE d = Target[j]
    <3>1. /\ i = n + 1 \/ i \in 1..n
          /\ \A k \in 1..(n + 1) : k = n + 1 \/ k \in 1..n
      BY <2>2, <1>5
    <3>2. \A k \in 1..n : queue[d][k] \in Jobs /\ queue[d][k] # j
      BY <2>0, <2>2, <1>2, <1>5 DEF InQueue
    <3>3. \A k \in 1..n : /\ Target[queue[d][k]] = d /\ submit[queue[d][k]] = "sent"
                          /\ starts[queue[d][k]] = 0
                          /\ \A m \in 1..n : queue[d][m] = queue[d][k] => m = k
      BY <2>2, <1>5 DEF Queued
    <3>4. CASE i = n + 1
      BY <2>2, <3>1, <3>2, <3>4, <1>2, <1>3, <1>5
    <3>5. CASE i \in 1..n
      BY <2>2, <3>1, <3>2, <3>3, <3>5, <1>3, <1>5
    <3> QED
      BY <3>1, <3>4, <3>5
  <2> QED
    BY <2>1, <2>2
<1>10. WorkerTask' /\ InStep' /\ LiveIsOwned'
  BY <1>8 DEF WorkerTask, InStep, LiveIsOwned
<1>11. Held'
  <2> SUFFICES ASSUME NEW d \in Dbs, task[d] # NoJob
               PROVE  /\ Target[task[d]] = d
                      /\ submit'[task[d]] = "sent"
                      /\ ~InQueue(task[d])'
                      /\ worker[d] \in {"dequeued", "registered"} => starts[task[d]] = 0
    BY DEF Held, InQueue
  <2>1. PICK k \in Jobs : k = task[d] /\ k # j
    BY <1>2 DEF TypeOK
  <2>2. ~InQueue(k)'
    BY <2>1, <1>6 DEF Held
  <2> QED
    BY <2>1, <2>2, <1>3 DEF Held, InQueue
<1>12. Unsent' /\ StartsOnce' /\ Ended'
  <2>1. Unsent' /\ StartsOnce'
    BY <1>3 DEF Unsent, StartsOnce
  <2>2. Ended'
    BY <1>3, <1>8 DEF Ended
  <2> QED
    BY <2>1, <2>2
<1>13. SingleFlight'
  BY <1>1, <1>2, <1>3, <1>6 DEF SingleFlight
<1> QED
  BY <1>9, <1>10, <1>11, <1>12, <1>13

\* A worker that takes the head of its channel.
LEMMA ReceiveStep ==
  ASSUME JobsInv, NEW d \in Dbs, Dequeue(d)
  PROVE  JobsInv'
<1> USE DEF JobsInv
<1>1. /\ worker[d] = "idle" /\ queue[d] # << >> /\ queue[d] \in Seq(Jobs)
      /\ queue' = [queue EXCEPT ![d] = Tail(@)]
      /\ worker' = [worker EXCEPT ![d] = "dequeued"]
      /\ task' = [task EXCEPT ![d] = Head(queue[d])]
      /\ UNCHANGED <<record, disk, faults, submit, chan, starts>>
  BY DEF Dequeue, TypeOK, records, history
<1>2. PICK n \in Nat : n = Len(queue[d]) - 1
  <2>1. Len(queue[d]) \in Nat /\ Len(queue[d]) >= 1
    BY <1>1, ReceiveElems
  <2>2. Len(queue[d]) - 1 \in Nat
    BY <2>1
  <2> QED
    BY <2>2
<1>3. PICK j \in Jobs : j = Head(queue[d])
  BY <1>1, ReceiveElems
<1>4. /\ DOMAIN queue[d] = 1..(n + 1)
      /\ DOMAIN queue'[d] = 1..n
      /\ queue[d][1] = j
      /\ \A i \in 1..n : queue'[d][i] = queue[d][i + 1]
      /\ queue'[d] \in Seq(Jobs)
      /\ \A e \in Dbs : e # d => queue'[e] = queue[e]
  BY <1>1, <1>2, <1>3, ReceiveElems DEF TypeOK
<1>5. 1 \in 1..(n + 1) /\ \A i \in 1..n : i + 1 \in 1..(n + 1) /\ i + 1 # 1
  OBVIOUS
<1>6. /\ Target[j] = d /\ submit[j] = "sent" /\ starts[j] = 0
      /\ \A i \in 1..(n + 1) : queue[d][i] = j => i = 1
      /\ j # NoJob
  BY <1>4, <1>5, JobsAssumption DEF Queued
<1>7. InQueue(j) /\ ~InQueue(j)'
  <2>1. InQueue(j)
    BY <1>4, <1>5, <1>6 DEF InQueue
  <2>2. \A i \in 1..n : queue'[d][i] # j
    BY <1>4, <1>5, <1>6
  <2>3. ~InQueue(j)'
    BY <2>2, <1>4, <1>6 DEF InQueue
  <2> QED
    BY <2>1, <2>3
<1>8. \A k \in Jobs : k # j => (InQueue(k)' <=> InQueue(k))
  <2> SUFFICES ASSUME NEW k \in Jobs, k # j PROVE InQueue(k)' <=> InQueue(k)
    OBVIOUS
  <2>1. CASE Target[k] # d
    BY <2>1, <1>4, JobsAssumption DEF InQueue
  <2>2. CASE Target[k] = d
    <3>1. InQueue(k) <=> \E i \in 1..(n + 1) : queue[d][i] = k
      BY <2>2, <1>4 DEF InQueue
    <3>2. InQueue(k)' <=> \E i \in 1..n : queue'[d][i] = k
      BY <2>2, <1>4 DEF InQueue
    <3>3. \A i \in 1..(n + 1) : i = 1 \/ \E m \in 1..n : m + 1 = i
      <4> TAKE i \in 1..(n + 1)
      <4>1. i = 1 \/ (i - 1 \in 1..n /\ (i - 1) + 1 = i)
        OBVIOUS
      <4> QED
        BY <4>1
    <3>4. ASSUME NEW i \in 1..(n + 1), queue[d][i] = k
          PROVE  \E m \in 1..n : queue'[d][m] = k
      <4>1. i # 1
        BY <3>4, <1>4
      <4>2. PICK m \in 1..n : m + 1 = i
        BY <3>3, <4>1
      <4>3. queue'[d][m] = queue[d][m + 1]
        BY <1>4
      <4> QED
        BY <3>4, <4>2, <4>3
    <3>5. ASSUME NEW m \in 1..n, queue'[d][m] = k
          PROVE  \E i \in 1..(n + 1) : queue[d][i] = k
      BY <3>5, <1>4, <1>5
    <3> QED
      BY <3>1, <3>2, <3>4, <3>5
  <2> QED
    BY <2>1, <2>2
<1>9. /\ task[d] = NoJob /\ task'[d] = j /\ worker'[d] = "dequeued"
      /\ \A e \in Dbs : e # d => task'[e] = task[e] /\ worker'[e] = worker[e]
  BY <1>1, <1>3 DEF WorkerTask, TypeOK
<1>10. \A k \in Jobs : Owned(k)' <=> Owned(k)
  <2> SUFFICES ASSUME NEW k \in Jobs PROVE Owned(k)' <=> Owned(k)
    OBVIOUS
  <2>1. CASE k = j
    BY <2>1, <1>6, <1>7, <1>9 DEF Owned
  <2>2. CASE k # j
    <3>1. task'[Target[k]] = k <=> task[Target[k]] = k
      BY <2>2, <1>9, JobsAssumption
    <3> QED
      BY <2>2, <3>1, <1>1, <1>8 DEF Owned
  <2> QED
    BY <2>1, <2>2
<1>11. TypeOK'
  BY <1>1, <1>3, <1>4 DEF Dequeue, TypeOK, Steps, records, history
<1>12. WorkerTask'
  BY <1>6, <1>9 DEF WorkerTask
<1>13. Queued'
  <2> SUFFICES ASSUME NEW e \in Dbs, NEW i \in DOMAIN queue'[e]
               PROVE  /\ Target[queue'[e][i]] = e
                      /\ submit'[queue'[e][i]] = "sent"
                      /\ starts'[queue'[e][i]] = 0
                      /\ \A k \in DOMAIN queue'[e] : queue'[e][k] = queue'[e][i] => k = i
    BY DEF Queued
  <2>1. CASE e # d
    BY <2>1, <1>1, <1>4 DEF Queued
  <2>2. CASE e = d
    <3>1. \A k \in 1..(n + 1) : /\ Target[queue[d][k]] = d /\ submit[queue[d][k]] = "sent"
                                /\ starts[queue[d][k]] = 0
                                /\ \A m \in 1..(n + 1) : queue[d][m] = queue[d][k] => m = k
      BY <1>4 DEF Queued
    <3>2. i \in 1..n /\ i + 1 \in 1..(n + 1)
      BY <2>2, <1>4, <1>5
    <3>3. \A k \in 1..n : queue'[d][k] = queue'[d][i] => k = i
      <4> TAKE k \in 1..n
      <4>0. k + 1 \in 1..(n + 1) /\ queue'[d][k] = queue[d][k + 1] /\ queue'[d][i] = queue[d][i + 1]
        BY <3>2, <1>4, <1>5
      <4>1. queue'[d][k] = queue'[d][i] => k + 1 = i + 1
        BY <3>1, <3>2, <4>0
      <4> QED
        BY <3>2, <4>1
    <3> QED
      BY <2>2, <3>1, <3>2, <3>3, <1>1, <1>4
  <2> QED
    BY <2>1, <2>2
<1>14. Held'
  <2> SUFFICES ASSUME NEW e \in Dbs, task'[e] # NoJob
               PROVE  /\ Target[task'[e]] = e
                      /\ submit[task'[e]] = "sent"
                      /\ ~InQueue(task[e])'
                      /\ worker'[e] \in {"dequeued", "registered"} => starts[task'[e]] = 0
    BY <1>1 DEF Held, InQueue
  <2>1. CASE e = d
    BY <2>1, <1>6, <1>7, <1>9 DEF InQueue
  <2>2. CASE e # d
    <3>1. PICK k \in Jobs : k = task[e] /\ k = task'[e]
      BY <2>2, <1>9 DEF TypeOK
    <3>2. Target[k] = e /\ ~InQueue(k) /\ k # j
      BY <2>2, <3>1, <1>6, <1>9 DEF Held
    <3>3. ~InQueue(k)'
      BY <3>2, <1>8
    <3> QED
      BY <2>2, <3>1, <3>3, <1>9 DEF Held, InQueue
  <2> QED
    BY <2>1, <2>2
<1>15. Unsent' /\ StartsOnce' /\ InStep' /\ LiveIsOwned' /\ Ended'
  BY <1>1, <1>10 DEF Unsent, StartsOnce, InStep, LiveIsOwned, Ended
<1>16. SingleFlight'
  <2> SUFFICES ASSUME NEW k \in Jobs
               PROVE  /\ submit[k] = "recorded" => ~InQueue(k)' /\ task'[Target[k]] # k
                      /\ InQueue(k)' => task'[Target[k]] # k
                      /\ \A e \in Dbs : task'[e] = k => e = Target[k]
                      /\ faults = 0 /\ record[k] = "running" => task'[Target[k]] = k
    BY <1>1 DEF SingleFlight
  <2>1. CASE k = j
    <3>1. \A e \in Dbs : task[e] = j => e = d
      BY <1>6 DEF SingleFlight
    <3> QED
      BY <2>1, <3>1, <1>6, <1>7, <1>9
  <2>2. CASE k # j
    <3>1. \A e \in Dbs : task'[e] = k <=> task[e] = k
      BY <2>2, <1>9, JobsAssumption
    <3> QED
      BY <2>2, <3>1, <1>8, JobsAssumption DEF SingleFlight
  <2> QED
    BY <2>1, <2>2
<1> QED
  BY <1>11, <1>12, <1>13, <1>14, <1>15, <1>16

\* A new process on the file the last one left.
LEMMA RebornStep ==
  ASSUME JobsInv, Reborn, crashes' \in 0..MaxCrashes, panicked' \in BOOLEAN
  PROVE  JobsInv'
<1> USE DEF JobsInv
<1>1. /\ record' = Reconciled(disk)
      /\ starts' = starts
      /\ submit' = [j \in Jobs |-> IF submit[j] \in {"admitted", "recorded"} THEN "lost" ELSE submit[j]]
      /\ \A d \in Dbs : queue'[d] = << >> /\ task'[d] = NoJob /\ worker'[d] = "idle"
  BY DEF Reborn
<1>2. /\ record' \in [Jobs -> States]
      /\ \A j \in Jobs : record'[j] \notin Live
      /\ \A j \in Jobs : disk[j] \notin Live => record'[j] = disk[j]
      /\ \A j \in Jobs : disk[j] \in Live => record'[j] = "interrupted"
  BY <1>1 DEF Reconciled, TypeOK, States, Live, Terminal
<1>3. PICK ok \in BOOLEAN : PersistEach(ok)
  BY DEF Reborn
<1>4. /\ \A j \in Jobs : disk'[j] \in {disk[j], record'[j]}
      /\ disk' \in [Jobs -> States]
      /\ faults' \in 0..MaxFaults
      /\ faults' = 0 => disk' = record'
  <2>1. PICK part \in SUBSET Jobs :
          /\ ok => part = Jobs
          /\ disk' = [j \in Jobs |-> IF j \in part THEN record'[j] ELSE disk[j]]
    BY <1>3 DEF PersistEach
  <2>2. /\ \A j \in Jobs : disk'[j] \in {disk[j], record'[j]}
        /\ disk' \in [Jobs -> States]
    BY <2>1, <1>2 DEF TypeOK
  <2>3. CASE ok
    <3>1. disk' = record'
      BY <2>1, <2>3, <1>2
    <3> QED
      BY <2>2, <2>3, <3>1, <1>3 DEF PersistEach, TypeOK
  <2>4. CASE ~ok
    <3>1. faults \in Nat /\ faults < MaxFaults /\ faults' = faults + 1
      BY <2>4, <1>3 DEF PersistEach, TypeOK
    <3>2. faults' \in 0..MaxFaults /\ faults' # 0
      BY <3>1, JobsAssumption
    <3> QED
      BY <2>2, <3>2
  <2> QED
    BY <2>3, <2>4
<1>5. disk' \in [Jobs -> States]
  BY <1>2, <1>4 DEF TypeOK
<1>6. submit' \in [Jobs -> Submits]
  BY <1>1 DEF TypeOK, Submits
<1>7. queue' \in [Dbs -> Seq(Jobs)]
  BY DEF Reborn
<1>8. TypeOK'
  BY <1>2, <1>4, <1>5, <1>6, <1>7 DEF Reborn, TypeOK, Steps
<1>9. \A j \in Jobs : ~InQueue(j)' /\ task'[Target[j]] # j /\ submit'[j] # "recorded" /\ ~Owned(j)'
  BY <1>1, JobsAssumption DEF InQueue, Owned
<1>10. \A j \in Jobs : /\ submit'[j] = "sent" <=> submit[j] = "sent"
                       /\ submit'[j] \in {"no", "admitted"} => submit[j] = "no" /\ submit'[j] = "no"
  BY <1>1
<1>11. WorkerTask' /\ Queued' /\ Held'
  BY <1>1 DEF WorkerTask, Queued, Held
<1>12. Unsent' /\ StartsOnce'
  <2> SUFFICES ASSUME NEW j \in Jobs
               PROVE  /\ submit'[j] # "sent" => starts'[j] = 0
                      /\ submit'[j] \in {"no", "admitted"} => record'[j] = "none" /\ disk'[j] = "none"
                      /\ starts'[j] <= 1 /\ (starts'[j] = 1 => submit'[j] = "sent")
    BY DEF Unsent, StartsOnce
  <2>1. disk'[j] = disk[j] \/ disk'[j] = record'[j]
    BY <1>4
  <2> QED
    BY <2>1, <1>1, <1>2, <1>10 DEF Unsent, StartsOnce, Live
<1>13. Ended'
  <2> SUFFICES ASSUME NEW j \in Jobs
               PROVE  /\ record'[j] \in Terminal => submit'[j] \in {"sent", "refused", "lost"} /\ ~Owned(j)'
                      /\ disk'[j] \in Terminal => record'[j] = disk'[j]
    BY DEF Ended
  <2>1. disk'[j] = disk[j] \/ disk'[j] = record'[j]
    BY <1>4
  <2>2. disk[j] \in Terminal => disk[j] \notin Live
    BY DEF Terminal, Live
  <2>3. record'[j] \in Terminal => disk[j] # "none"
    BY <1>2 DEF Terminal, Live
  <2>4. disk[j] # "none" => submit[j] \notin {"no", "admitted"}
    BY DEF Unsent
  <2>5. submit[j] \in Submits
    BY DEF TypeOK
  <2>6. submit[j] \notin {"no", "admitted"} => submit'[j] \in {"sent", "refused", "lost"}
    BY <1>1, <2>5 DEF Submits
  <2> QED
    BY <2>1, <2>2, <2>3, <2>4, <2>6, <1>2, <1>9
<1>14. InStep' /\ LiveIsOwned'
  BY <1>2, <1>4 DEF InStep, LiveIsOwned
<1>15. SingleFlight'
  <2>1. \A j \in Jobs : record'[j] # "running"
    BY <1>2 DEF Live
  <2> QED
    BY <2>1, <1>1, <1>9, JobsAssumption DEF SingleFlight
<1> QED
  BY <1>8, <1>11, <1>12, <1>13, <1>14, <1>15

-----------------------------------------------------------------------------
LEMMA JobsInvStep == JobsInv /\ [Next]_vars => JobsInv'
<1> SUFFICES ASSUME JobsInv, [Next]_vars PROVE JobsInv'
  OBVIOUS
<1>0. TypeOK
  BY DEF JobsInv
<1>1. ASSUME NEW j \in Jobs, SubmitAdmit(j) PROVE JobsInv'
  <2>1. /\ submit[j] = "no"
        /\ submit'[j] \in {"refused", "admitted"}
        /\ \A k \in Jobs : k # j => submit'[k] = submit[k]
        /\ UNCHANGED <<record, disk, faults, queue, worker, task, starts>>
    BY <1>0, <1>1 DEF SubmitAdmit, TypeOK, records, workers, history
  <2>2. TypeOK'
    <3>1. submit' \in [Jobs -> Submits]
      BY <1>0, <1>1 DEF SubmitAdmit, TypeOK, Submits
    <3>2. chan' \in [Dbs -> {"none", "open", "closed"}]
      <4>1. Target[j] \in Dbs /\ chan \in [Dbs -> {"none", "open", "closed"}]
        BY <1>0, <1>1, JobsAssumption DEF TypeOK
      <4>2. chan' = chan \/ chan' = [chan EXCEPT ![Target[j]] = IF @ = "none" THEN "open" ELSE @]
        BY <1>1 DEF SubmitAdmit
      <4> QED
        BY <4>1, <4>2
    <3>3. UNCHANGED <<records, queue, workers, ctxDone, drain, closed, canceller, crashes, history>>
      BY <1>1 DEF SubmitAdmit
    <3> QED
      BY <1>0, <3>1, <3>2, <3>3 DEF TypeOK, records, workers, history
  <2>3. \A k \in Jobs : (InQueue(k)' <=> InQueue(k)) /\ (Owned(k)' <=> Owned(k))
    BY <2>1 DEF InQueue, Owned
  <2>4. WorkerTask' /\ InStep' /\ LiveIsOwned' /\ SingleFlight'
    BY <2>1, <2>3 DEF JobsInv, WorkerTask, InStep, LiveIsOwned, SingleFlight
  <2>5. Queued'
    <3>1. \A d \in Dbs : \A i \in DOMAIN queue[d] : queue[d][i] \in Jobs
      BY <1>0 DEF TypeOK
    <3> QED
      BY <3>1, <2>1 DEF JobsInv, Queued
  <2>6. Held'
    <3>1. \A d \in Dbs : task[d] \in Jobs \cup {NoJob}
      BY <1>0 DEF TypeOK
    <3> QED
      BY <3>1, <2>1 DEF JobsInv, Held, InQueue
  <2>7. Unsent' /\ StartsOnce' /\ Ended'
    BY <2>1, <2>3 DEF JobsInv, Unsent, StartsOnce, Ended, Terminal
  <2> QED
    BY <2>2, <2>4, <2>5, <2>6, <2>7 DEF JobsInv
<1>2. ASSUME NEW j \in Jobs, SubmitRecord(j) PROVE JobsInv'
  BY <1>2, RecordStep
<1>3. ASSUME NEW j \in Jobs, SubmitSend(j) PROVE JobsInv'
  <2>1. submit[j] = "recorded" /\ UNCHANGED <<worker, task, starts>>
    BY <1>3 DEF SubmitSend, workers, history
  <2>2. CASE /\ queue' = [queue EXCEPT ![Target[j]] = Append(@, j)]
             /\ submit' = [submit EXCEPT ![j] = "sent"]
             /\ UNCHANGED records
    <3>1. queue' \in [Dbs -> Seq(Jobs)]
      <4>1. queue[Target[j]] \in Seq(Jobs) /\ Append(queue[Target[j]], j) \in Seq(Jobs)
        BY <1>0, JobsAssumption, SendElems DEF TypeOK
      <4> QED
        BY <1>0, <2>2, <4>1 DEF TypeOK
    <3>2. TypeOK'
      BY <1>0, <1>3, <2>2, <3>1 DEF SubmitSend, TypeOK, Submits, records, workers, history
    <3> QED
      BY <2>1, <2>2, <3>2, SendStep
  <2>3. CASE /\ \E ok \in BOOLEAN : PutJob(j, "failed", ok)
             /\ submit' = [submit EXCEPT ![j] = "refused"]
             /\ UNCHANGED queue
    <3>1. PICK ok \in BOOLEAN : PutJob(j, "failed", ok)
      BY <2>3
    <3>2. TypeOK'
      <4>1. "failed" \in States
        BY DEF States, Terminal
      <4>2. record' \in [Jobs -> States] /\ disk' \in [Jobs -> States] /\ faults' \in 0..MaxFaults
        BY <1>0, <3>1, <4>1, PutEffect
      <4> QED
        BY <1>0, <1>3, <2>3, <4>2 DEF SubmitSend, TypeOK, Submits, workers, history
    <3>3. Owned(j) /\ ~InQueue(j) /\ task'[Target[j]] # j
      BY <2>1 DEF Owned, JobsInv, SingleFlight
    <3>4. (\A k \in Jobs : k # j => submit'[k] = submit[k]) /\ submit'[j] = "refused"
      BY <1>0, <2>3 DEF TypeOK
    <3>5. \A d \in Dbs : task'[d] = task[d] /\ worker'[d] = worker[d]
      BY <2>1
    <3>6. /\ submit'[j] \in {"sent", "refused"} /\ submit[j] \in {"recorded", "sent"}
          /\ submit'[j] = "refused" => submit[j] = "recorded"
          /\ UNCHANGED <<queue, starts>>
      BY <2>1, <2>3, <3>4
    <3>7. Settles(j, "failed")
      BY <3>1, <3>3, <3>4, <3>5, <3>6 DEF Settles
    <3> QED
      BY <3>2, <3>7, TerminalStep
  <2> QED
    BY <1>3, <2>2, <2>3 DEF SubmitSend
<1>4. ASSUME NEW d \in Dbs, Dequeue(d) PROVE JobsInv'
  BY <1>4, ReceiveStep
<1>5. ASSUME NEW d \in Dbs, Register(d) \/ BodyReturns(d) PROVE JobsInv'
  <2>1. /\ \/ worker[d] = "dequeued" /\ worker' = [worker EXCEPT ![d] = "registered"]
           \/ worker[d] = "running" /\ worker' = [worker EXCEPT ![d] = "returned"]
        /\ UNCHANGED <<record, disk, faults, submit, queue, task, starts>>
    BY <1>5 DEF Register, BodyReturns, Busy, records, history
  <2>2. TypeOK'
    BY <1>0, <1>5 DEF Register, BodyReturns, Busy, TypeOK, Steps, records, history
  <2>3. \A e \in Dbs : /\ worker'[e] = "idle" <=> worker[e] = "idle"
                       /\ worker'[e] \in {"dequeued", "registered"} => worker[e] \in {"dequeued", "registered"}
    BY <1>0, <2>1 DEF TypeOK
  <2>4. WorkerTask' /\ Held'
    BY <2>1, <2>3 DEF JobsInv, WorkerTask, Held, InQueue
  <2>5. \A k \in Jobs : (InQueue(k)' <=> InQueue(k)) /\ (Owned(k)' <=> Owned(k))
    BY <2>1 DEF InQueue, Owned
  <2>6. Queued' /\ Unsent' /\ Ended' /\ InStep' /\ LiveIsOwned' /\ StartsOnce' /\ SingleFlight'
    BY <2>1, <2>5 DEF JobsInv, Queued, Unsent, Ended, InStep, LiveIsOwned, StartsOnce, SingleFlight
  <2> QED
    BY <2>2, <2>4, <2>6 DEF JobsInv
<1>6. ASSUME NEW d \in Dbs, Start(d) \/ Progress(d) PROVE JobsInv'
  <2>1. PICK ok \in BOOLEAN : PutJob(task[d], "running", ok)
    BY <1>6 DEF Start, Progress
  <2>2. worker[d] \in {"registered", "running"} /\ task[d] # NoJob /\ task[d] \in Jobs
    BY <1>0, <1>6 DEF Start, Progress, JobsInv, WorkerTask, TypeOK
  <2>3. /\ UNCHANGED <<submit, queue, task>>
        /\ worker' = [worker EXCEPT ![d] = "running"]
        /\ \/ worker[d] = "registered" /\ starts' = [starts EXCEPT ![task[d]] = @ + 1]
           \/ worker[d] = "running" /\ UNCHANGED starts
    BY <1>0, <1>6 DEF Start, Progress, Busy, workers, history, TypeOK
  <2>4. record' \in [Jobs -> States] /\ disk' \in [Jobs -> States] /\ faults' \in 0..MaxFaults
    <3>1. "running" \in States
      BY DEF States, Live
    <3> QED
      BY <1>0, <2>1, <2>2, <3>1, PutEffect
  <2>5. starts' \in [Jobs -> Nat]
    BY <1>0, <2>2, <2>3 DEF TypeOK
  <2>6. TypeOK'
    BY <1>0, <1>6, <2>3, <2>4, <2>5 DEF Start, Progress, TypeOK, Steps, history
  <2> QED
    BY <2>1, <2>2, <2>3, <2>6, RunningStep
<1>7. ASSUME NEW d \in Dbs, Finish(d) PROVE JobsInv'
  <2>1. PICK j \in Jobs : j = task[d] /\ j # NoJob
    BY <1>0, <1>7, JobsAssumption DEF Finish, JobsInv, WorkerTask, TypeOK
  <2>2. PICK s \in {"cancelled", "failed", "succeeded"}, ok \in BOOLEAN : PutJob(j, s, ok)
    BY <1>7, <2>1 DEF Finish
  <2>3. Target[j] = d /\ submit[j] = "sent" /\ ~InQueue(j)
    BY <2>1 DEF JobsInv, Held
  <2>4. /\ worker' = [worker EXCEPT ![d] = "idle"]
        /\ task' = [task EXCEPT ![d] = NoJob]
        /\ UNCHANGED <<submit, queue, starts>>
    BY <1>7 DEF Finish, history
  <2>5. TypeOK'
    <3>1. s \in States
      BY DEF States, Terminal
    <3>2. record' \in [Jobs -> States] /\ disk' \in [Jobs -> States] /\ faults' \in 0..MaxFaults
      BY <1>0, <2>2, <3>1, PutEffect
    <3> QED
      BY <1>0, <1>7, <2>4, <3>2 DEF Finish, TypeOK, Steps, history
  <2>6. \A e \in Dbs : \/ task'[e] = task[e] /\ worker'[e] = worker[e]
                       \/ task[e] = j /\ task'[e] = NoJob /\ worker'[e] = "idle"
    BY <1>0, <2>1, <2>4 DEF TypeOK
  <2>7. Owned(j) /\ task'[Target[j]] # j
    BY <1>0, <2>1, <2>3, <2>4 DEF Owned, TypeOK
  <2>8. \A k \in Jobs : k # j => submit'[k] = submit[k]
    BY <1>0, <2>4 DEF TypeOK
  <2>9. /\ submit'[j] \in {"sent", "refused"} /\ submit[j] \in {"recorded", "sent"}
        /\ submit'[j] = "refused" => submit[j] = "recorded"
        /\ UNCHANGED <<queue, starts>>
    BY <2>3, <2>4
  <2>10. Settles(j, s)
    BY <2>2, <2>3, <2>6, <2>7, <2>8, <2>9 DEF Settles
  <2> QED
    BY <2>5, <2>10, TerminalStep
<1>8. ASSUME NEW j \in Jobs, CancelLookup(j) PROVE JobsInv'
  <2>1. TypeOK'
    BY <1>0, <1>8 DEF CancelLookup, TypeOK, records, workers, history
  <2> QED
    BY <1>8, <2>1, QuietStep DEF CancelLookup, history
<1>9. CASE CancelAct
  <2>1. TypeOK'
    BY <1>0, <1>9 DEF CancelAct, TypeOK, records, workers, history
  <2> QED
    BY <1>9, <2>1, QuietStep DEF CancelAct, history
<1>10. ASSUME NEW d \in Dbs, SetDraining(d) \/ CloseChan(d) PROVE JobsInv'
  <2>1. TypeOK'
    BY <1>0, <1>10 DEF SetDraining, CloseChan, TypeOK, records, workers, history
  <2> QED
    BY <1>10, <2>1, QuietStep DEF SetDraining, CloseChan, history
<1>11. CASE Close
  <2>1. TypeOK'
    BY <1>0, <1>11 DEF Close, TypeOK, records, workers, history
  <2> QED
    BY <1>11, <2>1, QuietStep DEF Close, history
<1>12. CASE Restart
  <2>1. crashes' \in 0..MaxCrashes /\ panicked' \in BOOLEAN
    BY <1>0, <1>12, JobsAssumption DEF Restart, TypeOK
  <2> QED
    BY <1>12, <2>1, RebornStep DEF Restart
<1>13. ASSUME NEW j \in Jobs, SubmitPanics(j) PROVE JobsInv'
  <2>1. crashes' \in 0..MaxCrashes /\ panicked' \in BOOLEAN
    BY <1>0, <1>13 DEF SubmitPanics, TypeOK
  <2> QED
    BY <1>13, <2>1, RebornStep DEF SubmitPanics
<1>14. CASE UNCHANGED vars
  <2>1. TypeOK'
    BY <1>0, <1>14 DEF vars, TypeOK, records, workers, history
  <2> QED
    BY <1>14, <2>1, QuietStep DEF vars, history
<1> QED
  BY <1>1, <1>2, <1>3, <1>4, <1>5, <1>6, <1>7, <1>8, <1>9, <1>10, <1>11, <1>12, <1>13, <1>14
  DEF Next, Submitting, Working

-----------------------------------------------------------------------------
(***************************************************************************)
(* The theorems.                                                           *)
(***************************************************************************)

\* The inductive invariant holds in every reachable state of the runner.
THEOREM JobsInvariant == Spec => []JobsInv
BY JobsInvInit, JobsInvStep, PTL DEF Spec

\* While state.json can be written, a record that says queued or running has a
\* submitter, a channel or a worker behind it.
THEOREM JobsLiveIsOwned == Spec => []LiveIsOwned
<1>1. JobsInv => LiveIsOwned
  BY DEF JobsInv
<1> QED
  BY <1>1, JobsInvariant, PTL

\* The body of a job is started at most once, and only after its record was
\* written and its task sent, over any number of kills.
THEOREM JobsStartsOnce == Spec => []StartsOnce
<1>1. JobsInv => StartsOnce
  BY DEF JobsInv
<1> QED
  BY <1>1, JobsInvariant, PTL

\* A job is in at most one place, and a running record belongs to the task of
\* its database's worker.
THEOREM JobsSingleFlight == Spec => []SingleFlight
<1>1. JobsInv => SingleFlight
  BY DEF JobsInv
<1> QED
  BY <1>1, JobsInvariant, PTL

\* What state.json says of a finished job never changes.
THEOREM JobsTerminalIsFinal == Spec => TerminalIsFinal
<1>1. JobsInv /\ JobsInv' /\ [Next]_vars
        => [\A j \in Jobs : disk[j] \in Terminal => disk'[j] = disk[j]]_vars
  <2> SUFFICES ASSUME JobsInv, JobsInv', Next, NEW j \in Jobs, disk[j] \in Terminal
               PROVE  disk'[j] = disk[j]
    BY DEF vars, records
  <2>1. /\ record[j] = disk[j] /\ ~Owned(j)
        /\ submit[j] \in {"sent", "refused", "lost"}
        /\ record \in [Jobs -> States]
    BY DEF JobsInv, Ended, TypeOK
  <2>2. ASSUME NEW k \in Jobs, NEW s \in States, NEW ok \in BOOLEAN, PutJob(k, s, ok), k # j
        PROVE  disk'[j] = disk[j]
    BY <2>1, <2>2, PutEffect DEF JobsInv
  <2>3. CASE \E k \in Jobs : SubmitRecord(k) \/ SubmitSend(k)
    <3>1. PICK k \in Jobs : SubmitRecord(k) \/ SubmitSend(k)
      BY <2>3
    <3>2. k # j
      BY <2>1, <3>1 DEF SubmitRecord, SubmitSend
    <3>3. UNCHANGED records \/ \E s \in {"queued", "failed"}, ok \in BOOLEAN : PutJob(k, s, ok)
      BY <3>1 DEF SubmitRecord, SubmitSend
    <3> QED
      BY <2>2, <3>2, <3>3 DEF States, Live, Terminal, records
  <2>4. CASE \E d \in Dbs : Start(d) \/ Progress(d) \/ Finish(d)
    <3>1. PICK d \in Dbs : Start(d) \/ Progress(d) \/ Finish(d)
      BY <2>4
    <3>2. worker[d] # "idle"
      BY <3>1 DEF Start, Progress, Finish
    <3>3. task[d] \in Jobs /\ Target[task[d]] = d
      BY <3>2 DEF JobsInv, WorkerTask, Held, TypeOK
    <3>4. task[d] # j
      BY <2>1, <3>3 DEF Owned
    <3>5. \E s \in {"running", "failed", "succeeded", "cancelled"}, ok \in BOOLEAN : PutJob(task[d], s, ok)
      BY <3>1 DEF Start, Progress, Finish
    <3> QED
      BY <2>2, <3>3, <3>4, <3>5 DEF States, Live, Terminal
  <2>5. CASE Reborn
    <3>1. record' = Reconciled(disk) /\ \E ok \in BOOLEAN : PersistEach(ok)
      BY <2>5 DEF Reborn
    <3>2. record'[j] = disk[j]
      BY <3>1 DEF Reconciled, Terminal, Live
    <3>3. disk'[j] = disk[j] \/ disk'[j] = record'[j]
      BY <3>1 DEF PersistEach
    <3> QED
      BY <3>2, <3>3
  <2>6. CASE UNCHANGED records
    BY <2>6 DEF records
  <2> QED
    BY <2>3, <2>4, <2>5, <2>6
    DEF Next, Submitting, Working, SubmitAdmit, Dequeue, Register, BodyReturns, CancelLookup,
        CancelAct, SetDraining, Close, CloseChan, Restart, SubmitPanics
<1> QED
  BY <1>1, JobsInvariant, PTL DEF Spec, TerminalIsFinal
=============================================================================
