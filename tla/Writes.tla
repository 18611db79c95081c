-------------------------------- MODULE Writes --------------------------------
(***************************************************************************)
(* Confirmed writes to one database: fb_write through the executor (one    *)
(* transaction, or a commit per statement when the script holds DDL) and   *)
(* fb_migration_apply (a directory of numbered files against a history     *)
(* table).  Composed with Backups: their jobs exclude each other, and a    *)
(* Tier-2 request is admitted on the catalog's facts.                      *)
(*                                                                         *)
(* A migration file is [sum, stmts, tier]; a statement is identified by    *)
(* its file's version and checksum and its position.                       *)
(***************************************************************************)
EXTENDS Backups

CONSTANTS
  Versions,   \* file versions, positive
  Dirs,       \* contents the migrations directory may have
  Scripts,    \* fb_write scripts: [stmts, tier]
  MaxRequests \* bound: write and migration requests

\* The checksum of a file is the SHA-256 of its bytes, so it fixes the statements.
ASSUME WritesAssumption ==
  /\ Versions \subseteq Nat \ {0} /\ MaxRequests \in Nat
  /\ \A d \in Dirs : /\ DOMAIN d \subseteq Versions
                    /\ \A v \in DOMAIN d : d[v].stmts \in Seq({"ddl", "dml"})
  /\ \A c, d \in Dirs : \A v \in DOMAIN c \cap DOMAIN d :
       c[v].sum = d[v].sum => c[v].stmts = d[v].stmts
  /\ \A s \in Scripts : s.stmts \in Seq({"ddl", "dml"})

VARIABLES
  dir,        \* the migrations directory: version -> file
  table,      \* FBMCP_MIGRATIONS exists
  hist,       \* its rows, as <<version, sum>>; <<0, "">> is the baseline
  done,       \* migration statements executed so far: <<v, sum, k>> -> times
  pend,       \* the request waiting for approval, with its manifest
  run,        \* locals of the write job: [req, todo, k, said]
  asked,      \* requests so far
  wrote       \* the fb_write under way: of the engine, tx (statements executed in the
              \* open transaction), kept (statements committed) and lost (those of
              \* them whose commit was answered with an error); of the executor,
              \* applied (its counter), said and count (its report)

dvars == <<dir, table, hist, done, pend, run, asked, wrote>>
vars  == <<svars, dvars>>

NoReq == [op |-> "none", baseline |-> FALSE, manifest |-> {}, script |-> <<>>]
NoRun == [req |-> NoReq, todo |-> {}, k |-> 1]
Fresh == [tx |-> {}, kept |-> {}, lost |-> {}, applied |-> 0, said |-> "none", count |-> 0]

Stmts(d) == UNION {{<<v, d[v].sum, k>> : k \in DOMAIN d[v].stmts} : v \in DOMAIN d}

Init ==
  /\ SInit
  /\ dir \in Dirs
  /\ table = FALSE /\ hist = {}
  /\ done = [s \in UNION {Stmts(d) : d \in Dirs} |-> 0]
  /\ pend = NoReq /\ run = NoRun
  /\ asked = 0 /\ wrote = Fresh

-----------------------------------------------------------------------------
(* migrate.Pending and loadBatch *)

\* History must be found in the directory, unchanged, and no file may be pending
\* below an applied version.
Refuses(d, h) ==
  \/ \E r \in h : r[1] \notin DOMAIN d \/ d[r[1]].sum # r[2]
  \/ \E v \in DOMAIN d, r \in h : v \notin {q[1] : q \in h} /\ v < r[1]

\* The pending files.  The code keeps them sorted by version, so that the set is
\* as good as the list: FirstOf is its head.
PendingOf(d, h) == DOMAIN d \ {r[1] : r \in h}

ManifestJSON(d, h) == {<<v, d[v].sum>> : v \in PendingOf(d, h)}

\* loadBatch returns an error: the executor's Prepare takes files of tiers 1 and 2.
BatchFails(baseline) ==
  \/ Refuses(dir, hist)
  \/ \E v \in PendingOf(dir, hist) : dir[v].tier \notin {1, 2}
  \/ ~baseline /\ PendingOf(dir, hist) = {} /\ table
  \/ baseline /\ table

BatchTier == Max({1} \cup {dir[v].tier : v \in PendingOf(dir, hist)})

\* Tier 2 asks for a verified backup less than a day old.
PreconditionsHold(tier) == tier >= 2 => verified_backup_exists /\ backup_freshness < 1

-----------------------------------------------------------------------------
(* Requests and approval *)

RequestMigration(baseline) ==
  /\ pend = NoReq /\ asked < MaxRequests /\ asked' = asked + 1
  /\ ~BatchFails(baseline)
  /\ PreconditionsHold(BatchTier)
  /\ pend' = [op |-> "migrate", baseline |-> baseline, manifest |-> ManifestJSON(dir, hist),
              script |-> <<>>]
  /\ UNCHANGED <<svars, dir, table, hist, done, run, wrote>>

RequestWrite(s) ==
  /\ pend = NoReq /\ asked < MaxRequests /\ asked' = asked + 1
  /\ PreconditionsHold(s.tier)
  /\ pend' = [op |-> "write", baseline |-> FALSE, manifest |-> {}, script |-> s.stmts]
  /\ UNCHANGED <<svars, dir, table, hist, done, run, wrote>>

\* The operator confirms: the gate dispatches the executor as the database's job.
Approve ==
  /\ Idle /\ nightly = 0 /\ pend # NoReq
  /\ Start(pend.op, IF pend.op = "migrate" THEN "check" ELSE "begin", 0, {})
  /\ run' = [NoRun EXCEPT !.req = pend]
  /\ pend' = NoReq
  /\ UNCHANGED <<day, files, catalog, stored, rows, copy, nightly, faults, dir, table, hist, done, asked, wrote>>

\* Someone edits the directory.
Edit ==
  /\ \E d \in Dirs : d # dir /\ dir' = d
  /\ UNCHANGED <<svars, table, hist, done, pend, run, asked, wrote>>

-----------------------------------------------------------------------------
(* migrationApplyExec *)

Calm == UNCHANGED <<day, files, catalog, stored, rows, copy, nightly>>
EndJob == job' = NoJob /\ run' = NoRun
Trouble == faults < MaxFaults /\ faults' = faults + 1

FileAt(d, v) == [v |-> v, sum |-> d[v].sum, stmts |-> d[v].stmts]
Todo == {FileAt(dir, v) : v \in PendingOf(dir, hist)}

\* The file the loop is at: the ones before it are applied and off the list.
FirstOf(f, todo) == f \in todo /\ \A g \in todo : f.v <= g.v

Applying == job.op = "migrate" /\ job.pc = "apply" /\ ~run.req.baseline

\* Mutant: whatever is pending now is applied.
MigrateCheckNothing ==
  /\ job.op = "migrate" /\ job.pc = "check"
  /\ IF BatchFails(run.req.baseline) THEN EndJob
       ELSE /\ To(IF ~table THEN "boot" ELSE "apply")
            /\ run' = [run EXCEPT !.todo = Todo]
  /\ Calm /\ UNCHANGED <<faults, dir, table, hist, done, pend, asked, wrote>>

\* Re-validation: the directory is read again and must give the same manifest; its
\* contents as read now are what runs.
MigrateCheck ==
  /\ job.op = "migrate" /\ job.pc = "check"
  /\ IF BatchFails(run.req.baseline) \/ ManifestJSON(dir, hist) # run.req.manifest
       THEN EndJob
       ELSE /\ To(IF ~table THEN "boot" ELSE "apply")
            /\ run' = [run EXCEPT !.todo = Todo]
  /\ Calm /\ UNCHANGED <<faults, dir, table, hist, done, pend, asked, wrote>>

MigrateBoot ==
  /\ job.op = "migrate" /\ job.pc = "boot"
  /\ \/ table' = TRUE /\ To("apply") /\ UNCHANGED <<run, faults>>
     \/ Trouble /\ EndJob /\ UNCHANGED table
  /\ Calm /\ UNCHANGED <<dir, hist, done, pend, asked, wrote>>

\* A baseline is one row of version 0 and nothing else.
MigrateBaseline ==
  /\ job.op = "migrate" /\ job.pc = "apply" /\ run.req.baseline
  /\ \/ hist' = hist \cup {<<0, "">>} /\ EndJob /\ UNCHANGED faults
     \/ Trouble /\ EndJob /\ UNCHANGED hist
  /\ Calm /\ UNCHANGED <<dir, table, done, pend, asked, wrote>>

\* One statement, committed at once.  DDL that was done before is refused by the
\* engine; DML is not.
MigrateStmt ==
  /\ Applying
  /\ \E f \in run.todo :
       LET s == <<f.v, f.sum, run.k>>
       IN /\ FirstOf(f, run.todo) /\ run.k <= Len(f.stmts)
          /\ \/ /\ f.stmts[run.k] = "ddl" => done[s] = 0
                /\ done' = [done EXCEPT ![s] = @ + 1]
                /\ run' = [run EXCEPT !.k = @ + 1]
                /\ UNCHANGED <<job, faults>>
             \/ /\ f.stmts[run.k] = "ddl" /\ done[s] > 0
                /\ EndJob /\ UNCHANGED <<done, faults>>
             \/ Trouble /\ EndJob /\ UNCHANGED done
  /\ Calm /\ UNCHANGED <<dir, table, hist, pend, asked, wrote>>

\* Mutant: the row is written with the file's last statement still to run.
MigrateRowEarly ==
  /\ Applying
  /\ \E f \in run.todo :
       /\ FirstOf(f, run.todo) /\ run.k >= Len(f.stmts)
       /\ hist' = hist \cup {<<f.v, f.sum>>}
       /\ run' = [run EXCEPT !.todo = @ \ {f}, !.k = 1]
  /\ Calm /\ UNCHANGED <<job, faults, dir, table, done, pend, asked, wrote>>

\* The history row marks the file complete.
MigrateRow ==
  /\ Applying
  /\ \E f \in run.todo :
       /\ FirstOf(f, run.todo) /\ run.k > Len(f.stmts)
       /\ \/ /\ hist' = hist \cup {<<f.v, f.sum>>}
             /\ run' = [run EXCEPT !.todo = @ \ {f}, !.k = 1]
             /\ UNCHANGED <<job, faults>>
          \/ Trouble /\ EndJob /\ UNCHANGED hist
  /\ Calm /\ UNCHANGED <<dir, table, done, pend, asked, wrote>>

MigrateEnd ==
  /\ Applying /\ run.todo = {}
  /\ EndJob
  /\ Calm /\ UNCHANGED <<faults, dir, table, hist, done, pend, asked, wrote>>

-----------------------------------------------------------------------------
(* executor.Exec for fb_write *)

HasDDL(script) == \E k \in DOMAIN script : script[k] = "ddl"
Script == run.req.script
Writing(pc) == job.op = "write" /\ job.pc = pc
Rest == Calm /\ UNCHANGED <<dir, table, hist, done, pend, asked>>

\* The executor returns: the report is fixed, an open transaction is rolled back.
Say(what, kept, lost) ==
  /\ wrote' = [wrote EXCEPT !.tx = {}, !.kept = kept, !.lost = lost,
                            !.said = what, !.count = wrote.applied]
  /\ To("report") /\ UNCHANGED run

\* A commit that returns an error: the engine has rolled back, or has committed and
\* the answer is lost.
CommitFails(what) ==
  /\ Trouble
  /\ \/ Say(what, wrote.kept, {})
     \/ Say(what, wrote.kept \cup wrote.tx, wrote.tx)

\* BeginTx: of the whole script without DDL, of each statement with it.
WriteBegin ==
  /\ Writing("begin") /\ (HasDDL(Script) => run.k <= Len(Script))
  /\ \/ To("exec") /\ UNCHANGED <<run, wrote, faults>>
     \/ Trouble /\ Say("error", wrote.kept, {})
  /\ Rest

\* execAtomic: every statement in the one transaction; an error rolls it back.
AtomicStmt ==
  /\ Writing("exec") /\ ~HasDDL(Script) /\ run.k <= Len(Script)
  /\ \/ /\ wrote' = [wrote EXCEPT !.tx = @ \cup {run.k}]
        /\ run' = [run EXCEPT !.k = @ + 1] /\ UNCHANGED <<job, faults>>
     \/ Trouble /\ Say("rolled back", wrote.kept, {})
  /\ Rest

\* "commit failed - rolled back" is what the executor says of any error.
AtomicCommit ==
  /\ Writing("exec") /\ ~HasDDL(Script) /\ run.k > Len(Script)
  /\ \/ Say("committed", wrote.kept \cup wrote.tx, {}) /\ UNCHANGED faults
     \/ CommitFails("rolled back")
  /\ Rest

\* execPerStatement: a statement that fails is rolled back, and the report gives the
\* counter as the number of statements that are committed.
PerStatementExec ==
  /\ Writing("exec") /\ HasDDL(Script)
  /\ \/ /\ wrote' = [wrote EXCEPT !.tx = {run.k}]
        /\ To("commit") /\ UNCHANGED <<run, faults>>
     \/ Trouble /\ Say("partially applied", wrote.kept, {})
  /\ Rest

\* The counter moves, and the loop goes on.
Counted(kept) ==
  /\ wrote' = [wrote EXCEPT !.tx = {}, !.kept = kept, !.applied = @ + 1]
  /\ run' = [run EXCEPT !.k = @ + 1] /\ To("begin")

\* Mutant: the error of the commit is not looked at.
PerStatementCommitAnyway ==
  /\ Writing("commit")
  /\ \/ Counted(wrote.kept \cup wrote.tx) /\ UNCHANGED faults
     \/ Trouble /\ Counted(wrote.kept)
  /\ Rest

PerStatementCommit ==
  /\ Writing("commit")
  /\ \/ Counted(wrote.kept \cup wrote.tx) /\ UNCHANGED faults
     \/ CommitFails("commit failed")
  /\ Rest

PerStatementEnd ==
  /\ Writing("begin") /\ HasDDL(Script) /\ run.k > Len(Script)
  /\ Say("committed", wrote.kept, {})
  /\ UNCHANGED faults /\ Rest

\* The report becomes the job's result and the job is over.
WriteReport ==
  /\ job.op = "write" /\ job.pc = "report"
  /\ EndJob /\ wrote' = Fresh
  /\ Calm /\ UNCHANGED <<faults, dir, table, hist, done, pend, asked>>

-----------------------------------------------------------------------------

\* A kill takes the requests' arguments with it; what the engine committed stays.
KillAll ==
  /\ Kill
  /\ pend' = NoReq /\ run' = NoRun /\ wrote' = Fresh
  /\ UNCHANGED <<dir, table, hist, done, asked>>

Next ==
  \/ (BackupStep \/ Tick) /\ UNCHANGED dvars
  \/ (\E b \in BOOLEAN : RequestMigration(b)) \/ (\E s \in Scripts : RequestWrite(s))
  \/ Approve \/ Edit
  \/ MigrateCheck \/ MigrateBoot \/ MigrateBaseline \/ MigrateStmt \/ MigrateRow \/ MigrateEnd
  \/ WriteBegin \/ AtomicStmt \/ AtomicCommit
  \/ PerStatementExec \/ PerStatementCommit \/ PerStatementEnd \/ WriteReport
  \/ KillAll

Spec == Init /\ [][Next]_vars

-----------------------------------------------------------------------------
(* Properties *)

\* The history row is the completion marker: every statement of the file it names,
\* with the checksum it names, has run, whatever was edited, killed or refused.
RowMeansComplete ==
  \A r \in hist : r[1] > 0 =>
    \A s \in DOMAIN done : s[1] = r[1] /\ s[2] = r[2] => done[s] >= 1

\* What runs is what the operator approved, whatever the directory holds by then:
\* a statement runs only from a file that the approved manifest names with that
\* checksum, in ascending version order, and never one the history already has.
AppliesNext ==
  /\ \A s \in DOMAIN done : done'[s] # done[s] =>
       /\ <<s[1], s[2]>> \in run.req.manifest
       /\ \A q \in hist : q[1] < s[1]
  /\ \A r \in hist' \ hist : \A q \in hist : q[1] < r[1]
AppliedInOrder == [][AppliesNext]_vars

\* What fb_write reports is what the engine holds, over begins, statements and
\* commits that fail at any point: a script without DDL is never there in part, a
\* success means every statement, the count of a partial report is exactly the
\* committed prefix, and whatever else is said there is a prefix and nothing after it.
\* A commit that worked and answered with an error is excepted where the report
\* speaks of a rollback, and adds one statement where it does not.
ReportIsTrue ==
  /\ ~HasDDL(Script) => wrote.kept \in {{}, DOMAIN Script}
  /\ wrote.said = "committed" => wrote.kept = DOMAIN Script
  /\ wrote.said = "rolled back" => wrote.kept = wrote.lost
  /\ wrote.said = "partially applied" =>
       wrote.kept = 1..wrote.count /\ wrote.count < Len(Script)
  /\ wrote.said \in {"error", "commit failed"} => wrote.kept \ wrote.lost = 1..wrote.count

-----------------------------------------------------------------------------
(* The inductive invariant behind the three *)

AllStmts == UNION {Stmts(d) : d \in Dirs}
AllFiles == UNION {{FileAt(d, v) : v \in DOMAIN d} : d \in Dirs}
AllPairs == {<<f.v, f.sum>> : f \in AllFiles}
Reqs == [op : {"none", "migrate", "write"}, baseline : BOOLEAN, manifest : SUBSET AllPairs,
         script : Seq({"ddl", "dml"})]
Says == {"none", "committed", "rolled back", "commit failed", "error",
         "partially applied"}

WroteRec == [tx : SUBSET Nat, kept : SUBSET Nat, lost : SUBSET Nat, applied : Nat,
             said : Says, count : Nat]

WritesTypeOK ==
  /\ dir \in Dirs /\ table \in BOOLEAN
  /\ hist \subseteq AllPairs \cup {<<0, "">>}
  /\ done \in [AllStmts -> Nat]
  /\ pend \in Reqs /\ (pend.op = "none" => pend = NoReq)
  /\ run \in [req : Reqs, todo : SUBSET AllFiles, k : Nat \ {0}]
  /\ wrote \in WroteRec

\* Only a job that writes has locals, and only one that is over has a report.
RunFits ==
  /\ job.op \notin {"migrate", "write"} => run = NoRun
  /\ job.op = "write" => run.todo = {}
  /\ wrote.said # "none" => job.op = "write" /\ job.pc = "report"

\* The history table is created before its first row, and a baseline is taken only
\* where there is none.
TableFits ==
  /\ ~table => hist = {}
  /\ job.op = "migrate" /\ job.pc = "apply" => table
  /\ job.op = "migrate" /\ job.pc \in {"boot", "apply"} /\ run.req.baseline => hist = {}

\* The files still to apply are the approved ones, each version once, all above the
\* history.
TodoFits ==
  /\ \A f \in run.todo : /\ <<f.v, f.sum>> \in run.req.manifest
                         /\ \A r \in hist : r[1] < f.v
  /\ \A f, g \in run.todo : f.v = g.v => f = g

\* The statements before the one the job is at have run.
PrefixDone ==
  /\ job.op = "migrate" /\ job.pc = "check" => run.k = 1
  /\ \A f \in run.todo : FirstOf(f, run.todo) =>
       \A k \in DOMAIN f.stmts : k < run.k => done[<<f.v, f.sum, k>>] >= 1

\* Before the report the engine holds the statements the executor has counted, and
\* the open transaction those it has executed since.
AtomicFits ==
  job.pc # "report" => /\ wrote.kept = {} /\ wrote.applied = 0 /\ job.pc # "commit"
                       /\ wrote.tx = 1..(run.k - 1)
                       /\ job.pc = "begin" => run.k = 1
StepsFit ==
  job.pc # "report" => /\ wrote.kept = 1..(run.k - 1) /\ wrote.applied = run.k - 1
                       /\ job.pc \in {"exec", "commit"} => run.k <= Len(Script)
                       /\ wrote.tx = IF job.pc = "commit" THEN {run.k} ELSE {}
WriteFits ==
  /\ job.op # "write" => wrote = Fresh
  /\ job.op = "write" => /\ run.k <= Len(Script) + 1
                         /\ job.pc \in {"begin", "exec", "commit", "report"}
                         /\ IF HasDDL(Script) THEN StepsFit ELSE AtomicFits

WritesInv ==
  /\ BackupsInv /\ WritesTypeOK /\ RunFits /\ TableFits /\ TodoFits /\ PrefixDone
  /\ WriteFits
  /\ RowMeansComplete /\ ReportIsTrue

-----------------------------------------------------------------------------
(* What the code does not give *)

\* What the Tier-2 preconditions promise (a verified backup less than a day old).
\* False of the code: a test restore of an old file dates its row today, and a row
\* may outlive its file.
AdmittedHasBackup ==
  [][\A s \in Scripts : RequestWrite(s) /\ s.tier >= 2 =>
       \E f \in DOMAIN files : /\ files[f].what = "good" /\ files[f].tests > 0
                               /\ day - files[f].born < 1]_vars

\* "commit failed - rolled back": nothing of the script is there.  False of the code:
\* an error of the commit does not say which.
RollbackIsTrue == wrote.said = "rolled back" => wrote.kept = {}

\* After a baseline the files of the directory can still be applied.  False of the
\* code: the baseline row has no file, so Pending refuses from then on.
BaselineAllowsApply ==
  hist = {<<0, "">>} => ~Refuses(dir, hist)
=============================================================================
