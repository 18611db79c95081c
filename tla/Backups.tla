------------------------------- MODULE Backups -------------------------------
(***************************************************************************)
(* The backup catalog of one database: fb_backup_start, fb_backup_nbackup, *)
(* fb_restore_test, the nightly_verify workflow built from them,           *)
(* fb_retention_run with its housekeeping, and the catalog facts that      *)
(* policy preconditions read.  Jobs of a database run one at a time (Jobs, *)
(* SingleFlight); a kill or a failing state write may come between any two *)
(* steps of a job.                                                         *)
(*                                                                         *)
(* A backup file is named after the moment it was started; the model       *)
(* numbers them.  Days stand for the clock.                                *)
(***************************************************************************)
EXTENDS Naturals, Sequences, FiniteSets, FiniteSetsExt

CONSTANTS
  MaxFiles,    \* bound: backup files started
  MaxDay,      \* bound: the clock
  MaxEntries,  \* bound: catalog rows ever registered
  KeepDays,    \* retention.keep_days, 0 keeps everything
  OrphanDays,  \* age at which CleanOrphans removes a verify copy (48 hours)
  MaxFaults    \* bound: kills and failing writes

ASSUME BackupsAssumption ==
  {MaxFiles, MaxDay, MaxEntries, KeepDays, OrphanDays, MaxFaults} \subseteq Nat

VARIABLES
  day,
  files,      \* backup files in start order: [kind, level, born, what, tests]
  catalog,    \* rows in memory: [id, file, at, verified]
  stored,     \* rows of the state file
  rows,       \* rows registered so far (row ids are clock readings)
  copy,       \* the verify copy in the work dir: 0, or 1 + the day it was made
  nightly,    \* workflow record: step to run, 0 when none is open
  job,        \* the job of the database: [op, pc, file, plan]
  faults

svars == <<day, files, catalog, stored, rows, copy, nightly, job, faults>>

NoJob == [op |-> "none", pc |-> "none", file |-> 0, plan |-> {}]

SInit ==
  /\ day = 0 /\ files = <<>>
  /\ catalog = {} /\ stored = {} /\ rows = 0
  /\ copy = 0 /\ nightly = 0 /\ job = NoJob /\ faults = 0

Idle == job.op = "none"
Start(op, pc, f, plan) == job' = [op |-> op, pc |-> pc, file |-> f, plan |-> plan]
To(pc) == job' = [job EXCEPT !.pc = pc]

\* The end of a step: a nightly run goes on with its next step, a failed step
\* ends the run (its steps have no compensation), any other job is over.
Done == /\ job' = NoJob
        /\ nightly' = IF nightly \in 1..2 THEN nightly + 1 ELSE 0
Fail == job' = NoJob /\ nightly' = 0

-----------------------------------------------------------------------------
(* The catalog *)

\* RegisterKind: append, then persist; a failed write keeps the row in memory and
\* is reported.
Register(f, verified) ==
  LET e == [id |-> rows + 1, file |-> f, at |-> day, verified |-> verified]
  IN /\ rows < MaxEntries
     /\ rows' = rows + 1
     /\ catalog' = catalog \cup {e}
     /\ \/ stored' = catalog' /\ Done /\ UNCHANGED faults
        \/ /\ faults < MaxFaults /\ faults' = faults + 1
           /\ Fail /\ UNCHANGED stored

\* LatestVerifiedBackup and the two facts over it.
LatestVerified == {e.at : e \in {c \in catalog : c.verified}}
verified_backup_exists == LatestVerified # {}
\* Age in days of the newest verified row; an empty catalog is infinitely stale.
backup_freshness == IF LatestVerified = {} THEN MaxDay + 1 ELSE day - Max(LatestVerified)

LatestNBackup(level) ==
  {e \in catalog : files[e.file].kind = "nbk" /\ files[e.file].level = level}

-----------------------------------------------------------------------------
(* fb_backup_start and fb_backup_nbackup *)

NewFile(kind, level) ==
  /\ Len(files) < MaxFiles
  /\ files' = Append(files, [kind |-> kind, level |-> level, born |-> day,
                              what |-> "partial", tests |-> 0])

BackupBegin ==
  /\ Idle /\ nightly \in {0, 1}
  /\ NewFile("fbk", 0)
  /\ Start("backup", "run", Len(files) + 1, {})
  /\ UNCHANGED <<day, catalog, stored, rows, copy, nightly, faults>>

NBackupBegin(level) ==
  /\ Idle /\ nightly = 0
  /\ level > 0 => LatestNBackup(level - 1) # {}
  /\ NewFile("nbk", level)
  /\ Start("nbackup", "run", Len(files) + 1, {})
  /\ UNCHANGED <<day, catalog, stored, rows, copy, nightly, faults>>

\* Mutant: the error of the Services API call is logged only.
BackupReturnsAnyway ==
  /\ job.op \in {"backup", "nbackup"} /\ job.pc = "run"
  /\ files' \in {files, [files EXCEPT ![job.file].what = "good"]}
  /\ To("register")
  /\ UNCHANGED <<day, catalog, stored, rows, copy, nightly, faults>>

\* The Services API call returns: the file is complete, or what there is stays.
BackupReturns ==
  /\ job.op \in {"backup", "nbackup"} /\ job.pc = "run"
  /\ \/ /\ files' = [files EXCEPT ![job.file].what = "good"]
        /\ To("register")
        /\ UNCHANGED <<nightly, faults>>
     \/ /\ faults < MaxFaults /\ faults' = faults + 1
        /\ Fail /\ UNCHANGED files
  /\ UNCHANGED <<day, catalog, stored, rows, copy>>

BackupRegister ==
  /\ job.op \in {"backup", "nbackup"} /\ job.pc = "register"
  /\ Register(job.file, FALSE)
  /\ UNCHANGED <<day, files, copy>>

-----------------------------------------------------------------------------
(* fb_restore_test *)

\* The newest .fbk in the directory by modification time, cataloged or not.
OnDisk == {f \in DOMAIN files : files[f].kind = "fbk" /\ files[f].what # "gone"}
Newest(f) == f \in OnDisk /\ \A g \in OnDisk : files[g].born <= files[f].born

TestBegin ==
  /\ Idle /\ nightly \in {0, 2}
  /\ \/ /\ OnDisk = {}                      \* "no backup artifacts"
        /\ Fail /\ UNCHANGED copy
     \/ \E f \in OnDisk :
          /\ Newest(f)
          /\ copy' = 0                       \* the old copy is removed first
          /\ Start("test", "restore", f, {})
          /\ UNCHANGED nightly
  /\ UNCHANGED <<day, files, catalog, stored, rows, faults>>

\* Restore, then validate: both refuse a file that is not a whole backup.
TestRestore ==
  /\ job.op = "test" /\ job.pc = "restore"
  /\ copy' = day + 1
  /\ \/ files[job.file].what = "good" /\ To("register") /\ UNCHANGED <<nightly, faults>>
     \/ files[job.file].what # "good" /\ Fail /\ UNCHANGED faults
     \/ /\ files[job.file].what = "good"
        /\ faults < MaxFaults /\ faults' = faults + 1
        /\ Fail
  /\ UNCHANGED <<day, files, catalog, stored, rows>>

\* The copy goes (a nightly run with diff_schema keeps it), a verified row is added.
TestRegister ==
  /\ job.op = "test" /\ job.pc = "register"
  /\ copy' \in (IF nightly = 2 THEN {0, copy} ELSE {0})
  /\ Register(job.file, TRUE)
  /\ files' = [files EXCEPT ![job.file].tests = @ + 1]
  /\ UNCHANGED day

-----------------------------------------------------------------------------
(* nightly_verify *)

NightlyBegin ==
  /\ Idle /\ nightly = 0
  /\ nightly' = 1
  /\ UNCHANGED <<day, files, catalog, stored, rows, copy, job, faults>>

\* diff_schema: the copy is opened, compared and removed.  An error before the
\* comparison returns with the copy still there.
DiffSchema ==
  /\ Idle /\ nightly = 3
  /\ nightly' = 0
  /\ \/ copy' = 0 /\ UNCHANGED faults
     \/ faults < MaxFaults /\ faults' = faults + 1 /\ UNCHANGED copy
  /\ UNCHANGED <<day, files, catalog, stored, rows, job>>

-----------------------------------------------------------------------------
(* fb_retention_run *)

\* Mutant: every row past the cut-off, verified or not.
PlanEverything == IF KeepDays = 0 THEN {} ELSE {e \in catalog : e.at + KeepDays < day}

\* retention.Plan: verified rows older than the cut-off; nothing by default.
Plan == IF KeepDays = 0 THEN {} ELSE {e \in catalog : e.verified /\ e.at + KeepDays < day}

RetentionBegin ==
  /\ Idle /\ nightly = 0
  /\ Start("retention", "remove", 0, Plan)
  /\ UNCHANGED <<day, files, catalog, stored, rows, copy, nightly, faults>>

\* Execute: rows in catalog order ...
OldestOf(e, plan) == \A y \in plan : e.id <= y.id

\* ... the file first; that it could not be removed is not looked at ...
RetentionRemove ==
  /\ job.op = "retention" /\ job.pc = "remove" /\ job.plan # {}
  /\ \/ /\ \E e \in job.plan : /\ OldestOf(e, job.plan)
                               /\ files' = [files EXCEPT ![e.file].what = "gone"]
        /\ UNCHANGED faults
     \/ faults < MaxFaults /\ faults' = faults + 1 /\ UNCHANGED files
  /\ To("drop")
  /\ UNCHANGED <<day, catalog, stored, rows, copy, nightly>>

\* Mutant: only the state file loses the row.
RetentionDropStored ==
  /\ job.op = "retention" /\ job.pc = "drop"
  /\ \E e \in job.plan :
        /\ OldestOf(e, job.plan)
        /\ stored' = stored \ {e}
        /\ job' = [job EXCEPT !.pc = "remove", !.plan = @ \ {e}]
  /\ UNCHANGED <<day, files, catalog, rows, copy, nightly, faults>>

\* ... then its row; a failed write ends the run, the row gone from memory only.
RetentionDrop ==
  /\ job.op = "retention" /\ job.pc = "drop"
  /\ \E e \in job.plan :
        /\ OldestOf(e, job.plan)
        /\ catalog' = catalog \ {e}
        /\ \/ /\ stored' = catalog' /\ UNCHANGED <<faults, nightly>>
              /\ job' = [job EXCEPT !.pc = "remove", !.plan = @ \ {e}]
           \/ /\ faults < MaxFaults /\ faults' = faults + 1
              /\ Fail /\ UNCHANGED stored
  /\ UNCHANGED <<day, files, rows, copy>>

\* The report, then CleanOrphans: a copy older than OrphanDays is removed.
RetentionEnd ==
  /\ job.op = "retention" /\ job.pc = "remove" /\ job.plan = {}
  /\ copy' = IF copy # 0 /\ copy - 1 + OrphanDays < day THEN 0 ELSE copy
  /\ job' = NoJob
  /\ UNCHANGED <<day, files, catalog, stored, rows, nightly, faults>>

-----------------------------------------------------------------------------
(* Time and kills *)

Tick ==
  /\ day < MaxDay
  /\ day' = day + 1
  /\ UNCHANGED <<files, catalog, stored, rows, copy, nightly, job, faults>>

\* The process dies and starts again: the catalog is read back, the job is marked
\* interrupted, an open workflow goes on with the step it was in.
Kill ==
  /\ faults < MaxFaults /\ faults' = faults + 1
  /\ catalog' = stored
  /\ job' = NoJob
  /\ UNCHANGED <<day, files, stored, rows, copy, nightly>>

BackupStep ==
  \/ BackupBegin \/ (\E l \in 0..2 : NBackupBegin(l)) \/ BackupReturns \/ BackupRegister
  \/ TestBegin \/ TestRestore \/ TestRegister \/ NightlyBegin \/ DiffSchema
  \/ RetentionBegin \/ RetentionRemove \/ RetentionDrop \/ RetentionEnd

-----------------------------------------------------------------------------
(* Properties *)

\* A row is verified only for a whole backup, and a level-n nbackup only on top of
\* a cataloged level n-1: neither a killed backup nor a failed test restore can
\* be what a precondition trusts.
VerifiedIsWhole ==
  \A e \in catalog \cup stored :
    /\ files[e.file].what # "partial"
    /\ files[e.file].kind = "nbk" /\ files[e.file].level > 0 =>
         \E b \in DOMAIN files : /\ files[b].kind = "nbk" /\ files[b].what = "good"
                                 /\ files[b].level = files[e.file].level - 1
                                 /\ b < e.file

\* Retention goes by catalog rows and deletes by path: over rows of one file that
\* differ in age and in being verified, kills, failing writes and removals, it
\* deletes no backup younger than keep_days, none that no test restore has passed,
\* and no nbackup.
YoungIsKept ==
  \A f \in DOMAIN files :
    files[f].what = "gone" =>
      /\ files[f].kind = "fbk" /\ files[f].tests >= 1
      /\ KeepDays > 0 /\ files[f].born + KeepDays < day

\* Between jobs, a verified row whose file is gone comes from a kill or a failed
\* write, or the same file has been verified before: fb_restore_test adds a row of
\* its own each time, and the oldest one takes the file away.
GoneIsExplained ==
  Idle /\ faults = 0 =>
    \A e \in catalog :
      e.verified /\ files[e.file].what = "gone" => files[e.file].tests > 1

-----------------------------------------------------------------------------
(* The inductive invariant behind the three *)

Kinds == {"fbk", "nbk"}
FileRec == [kind : Kinds, level : Nat, born : Nat,
            what : {"partial", "good", "gone"}, tests : Nat]
Row == [id : Nat, file : Nat, at : Nat, verified : BOOLEAN]
JobOps == {"none", "backup", "nbackup", "test", "retention", "migrate", "write"}
JobPcs == {"none", "run", "register", "restore", "remove", "drop",
           "check", "boot", "apply", "begin", "exec", "commit", "report"}
JobRec == [op : JobOps, pc : JobPcs, file : Nat, plan : SUBSET Row]

BackupsTypeOK ==
  /\ day \in Nat /\ rows \in Nat /\ copy \in Nat /\ faults \in Nat /\ nightly \in 0..3
  /\ files \in Seq(FileRec)
  /\ catalog \subseteq Row /\ stored \subseteq Row
  /\ job \in JobRec

\* What every row, in memory or in the state file, says of its file.
RowFits(e) ==
  /\ e.id <= rows /\ e.file \in DOMAIN files
  /\ files[e.file].what # "partial"
  /\ files[e.file].born <= e.at /\ e.at <= day
  /\ e.verified => files[e.file].kind = "fbk" /\ files[e.file].tests >= 1
RowsFit == \A e \in catalog \cup stored : RowFits(e)

\* A row is known by its id, and two verified rows of a file are two tests of it.
RowsDiffer ==
  \A e, f \in catalog \cup stored :
    /\ e.id = f.id => e = f
    /\ e # f /\ e.verified /\ f.verified /\ e.file = f.file => files[e.file].tests >= 2

\* An nbackup is never removed, and a level above 0 has its base below it.
HasBase(f) == \E b \in DOMAIN files : /\ files[b].kind = "nbk" /\ files[b].what = "good"
                                     /\ files[b].level = files[f].level - 1 /\ b < f
Chained ==
  \A f \in DOMAIN files :
    files[f].kind = "nbk" => /\ files[f].what # "gone"
                             /\ files[f].level > 0 => HasBase(f)

\* What the job under way has read before the step it is at.
JobFits ==
  /\ job.op \in {"backup", "nbackup", "test"} => job.file \in DOMAIN files
  /\ job.op \in {"backup", "nbackup", "test"} /\ job.pc = "register" =>
       files[job.file].what = "good" /\ files[job.file].born <= day
  /\ job.op = "test" => files[job.file].kind = "fbk"
  /\ job.op = "retention" =>
       \A e \in job.plan : /\ e \in catalog /\ e.verified
                           /\ KeepDays > 0 /\ e.at + KeepDays < day

\* While nothing has failed, a verified row without its file is the one whose file
\* retention has just removed, or one of several of that file.
GoneFits ==
  faults = 0 =>
    \A e \in catalog :
      e.verified /\ files[e.file].what = "gone" =>
        \/ files[e.file].tests > 1
        \/ job.op = "retention" /\ job.pc = "drop" /\ e \in job.plan /\ OldestOf(e, job.plan)

BornInTime == \A f \in DOMAIN files : files[f].born <= day

CatalogInv == BornInTime /\ RowsFit /\ RowsDiffer /\ Chained /\ YoungIsKept

BackupsInv == BackupsTypeOK /\ CatalogInv /\ JobFits /\ GoneFits
=============================================================================
