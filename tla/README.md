# fbmcp in TLA+

Specifications, model-checking runs and machine-checked proofs for fbmcp, the
Firebird DBA server that speaks the Model Context Protocol (`cmd/fbmcp` and
`internal/` of this repository).  Paths below are relative to the root of the
repository; modules and configurations are in this directory.

    tlc -workers 2 -config Gate.cfg MCGate            # one run
    tlapm GateProofs.tla                              # the proofs of one module

## 1. The system

fbmcp is one Go process per state directory.  MCP clients (a model behind stdio,
or several behind an HTTP listener) call tools.  A read-only tool answers at
once.  A mutating tool passes the policy engine, becomes a *pending action*,
waits for a confirmation through a channel its risk tier accepts, and then runs
as a *job*; two of the jobs are *workflows* of several steps on the database
file.  A schedule is a confirmed grant that submits such jobs at cron minutes.
All durable state is one JSON file that is rewritten on every change
(`internal/state`), next to a hash-chained audit log.  Being killed at any point
is part of the design: `internal/killpoint` names the interesting places.

### Inventory

| component | state it keeps | operations | talks to | what is hard | what makes it correct |
|---|---|---|---|---|---|
| gate (`internal/gate`) | pending actions, in memory and in state.json | Request, Confirm, SweepExpired, Get | state store, audit, notify hook | Confirm takes the action *out* of the store while it judges an attempt | a confirmation is used once; a refused action never runs; tier 2 needs the operator |
| tool dispatch, approval watcher (`cmd/fbmcp/p3tools.go`, `gatereply.go`) | argument table in memory, marker files | finishGated, fb_confirm, fb_cancel, approval and denial markers | gate, jobs, `fbmcpctl` | arguments are stored after the action; markers race with attempts and kills | an action runs with the arguments it was confirmed for |
| job runner (`internal/jobs`) | job records, one channel and one worker per database, cancel functions | Submit, Cancel, SetDraining, WaitIdle, Close, reconcile | state store, every tool | lock given up between check, write and send | one start per job, terminal records are final, nothing waits for ever |
| audit log (`internal/audit`) | audit.jsonl, its sidecar, last hash and count | Open, Log, Verify, Close | every tool | two files, two writes; hash read outside the lock | the chain verifies, acknowledged lines stay, cuts are noticed |
| workflow engine (`internal/workflows`) | one record per run (state, step) | Run, exec, compensate, Reconcile | state store, steps | a kill or failing write between any two steps | every run ends; a database is not left shut or lost |
| fb_shutdown_window, fb_restore_replace (`p4tools.go`, `p3tools.go`) | mode of the database; database file and .pre-restore | five steps each | engine, gfix, gbak, pools | effects of half-done steps, the context of a cancelled job | online again; the old data or the new, never neither |
| scheduler (`internal/schedule`) | grants with LastFiredAt | Tick, due, skip, catch-up, create, delete | state store, jobs, windows | works on copies, marks before it fires, clock changes | no slot twice, missed slots caught up, deleted grants silent |
| state store (`internal/state`) | the snapshot, in memory and on disk | Put…, Take…, Remap…, persist | everybody | memory changes before the file does | what was acknowledged survives a kill |
| live reload (`internal/reload`, `internal/config`) | current snapshot of the configuration | Apply, watch, register a database | jobs, gate, schedules, pools, listener | seven effects in a row, a drain that may time out | refused means unchanged; no pool of an old database under a new id |
| pools (`internal/dbpool`) | read and admin pool per database | get, CloseDB, CloseRead | Firebird | get races with CloseDB and Swap | a workflow that closed the pools meets no attachment |
| backup catalog, retention, housekeeping, nightly_verify (`internal/backupsvc`, `internal/retention`, `internal/housekeep`, `p5tools.go`) | catalog rows, backup files, verify copy | backup, restore test, register, plan, execute, clean | state store, gbak, file system | file and row are two steps | a row stands for a whole file; young backups are kept |
| statement classification (`internal/fbparse`, `internal/classify`) | none | Split, Parse, OpKey, tier of a statement | fb_write, fb_query, migrations | bodies, CASE, SET TERM, clauses that raise the tier | a statement means the same in a script as alone; nothing runs below its tier |
| policy (`internal/policy`), facts, lockout guards (`internal/lockout`) | none | EvaluateMeta, TierForRisk, DropUser, Revoke | every tool | many inputs, facts that fail | deny wins, unknown facts deny, the server keeps its accounts |
| write executor, migrations (`internal/executor`, `internal/migrate`, `migratetool.go`) | the database, its history table, the migrations directory | Prepare, Exec, Pending, apply, baseline | pools, catalog facts | commit per statement when there is DDL; directory edited between request and job | what is reported is what was applied; a history row is a complete file |
| HTTP transport (`internal/transport`, `cmd/fbmcp/http.go`) | keys, guards, sessions | Handler, reload of keys and limits, Start, Stop | MCP server | limits checked before and counted after, guards replaced under running requests | counters balance, caps hold up to the requests in flight |
| stdio bridge (`cmd/fbmcp/bridge.go`) | session, protocol, generation | handle, post, reinitialize, getLoop, close | HTTP transport | session lost with requests in flight | a call runs at most once and its answer is true |
| HQbird setup (`internal/hqbirdsetup`, `internal/ctl/hqbird_install.go`, `apikey.go`) | fbmcp.yaml, the list of owned entries, secrets, TLS pair, firewall rules, service | hqbird-install, apikey new | host, other writers of fbmcp.yaml | seven files and systems one after the other, killed anywhere | the port has its rule and its keys; operator's entries stay; a second run is quiet |
| instance lock, attach (`internal/instlock`, `internal/attach`) | lock file, endpoint files | Acquire, Start, Dial, Splice | operating system | stale files of a dead primary | one writer of the state directory |
| notify, traces, result grid, tray, fbmcpctl, agent tools, monitoring, advice, schema diff | small or none | | | reports, user interfaces, clients of other products | see `PROJECT.json` for the reason each is left out |

## 2. Modules

| module | models | extends |
|---|---|---|
| `Consent` | what the confirmation machinery promises: each request is open, granted or refused, and only a granted one runs, once | |
| `Gate` | gate, argument table, fb_confirm, fb_cancel, markers, watcher, sweep, state.json, kill and restart | `Consent` (INSTANCE) |
| `Jobs` | job runner with its records, channels, workers and reconcile | |
| `Audit` | audit log and sidecar | |
| `Workflow` | the engine, for any number of steps; the effects of steps are the instance's | |
| `ShutdownWindow`, `RestoreReplace` | the engine with the steps of the two workflows | `Workflow` |
| `Schedule` | the ticker, the grants, the clock | |
| `Reload` | live reload with the watcher and fb_db_register, against requests, jobs and pools | |
| `Transport` | authenticator, guards, session tracker, reload of keys and limits; the MCP SDK is external | |
| `Bridge` | the stdio bridge against that endpoint, with other clients of the same key | `Transport` |
| `Backups` | catalog, backup and restore-test jobs, nightly_verify, retention, orphan cleaning | |
| `Writes` | fb_write through the executor and fb_migration_apply, beside the jobs of the catalog | `Backups` |
| `Statements`, `Tiers` | splitter, parser families and operation keys; tier table, script verdict and policy decision (operators, no state) | |
| `Requests` | fb_write, fb_query, fb_query_check and the tools that build SQL, from the client's text to the database | `Statements`, `Tiers` |
| `Reconcile` | the plan of hqbird-install (operators, no state) | |
| `Setup` | the command step by step, with the other writers of fbmcp.yaml | `Reconcile` |
| `MC…` | model values, symmetry and the functions given to constants | one each |
| `GateProofs`, `JobsProofs`, `AuditProofs`, `ShutdownProofs`, `RestoreProofs`, `ScheduleProofs`, `WritesProofs`, `BridgeProofs` | theorems about the component of that name (`WritesProofs` also about `Backups`, `BridgeProofs` also about `Transport`).  `GateProofs` holds the proofs of `Reload` too, and `BridgeProofs` those of `Setup`; these pairs of specifications share no variable and no theorem | one each, the two with `Reload` and `Setup` two, TLAPS |

Common conventions.  A store operation changes memory and then the file; the
file part may fail (`faults`), and every module that uses the store lets it fail
at every write.  A kill (`crashes`, `kills`) may come between any two actions;
the restart takes over what is on disk and does what `main.go` does at a start.
Variables marked *history* are read by properties only.  A definition commented
`Mutant:` (`TakePendingCopies` before `TakePending`) is a plausible mistake one of
the properties is tested against; nothing else uses it.

### Gate
`pending` and `disk` are the pending list in memory and in state.json, `args` is
`gt.args`.  Confirm is three actions, as in the code: `ConfirmTake` (TakePending,
gate.go:142), the judgement of channel, owner, token and time-to-live
(`ConfirmExpired`, `ConfirmRequeue`, `ConfirmApprove`), and `Dispatch` by the
caller.  The watcher lists a directory once per pass (`scan`) and handles one
entry at a time; `fbmcpctl` creates markers at any time.  Time is one bit per
request: the action is over its time-to-live or not.

### Jobs
Submit is `SubmitAdmit` (the check under the lock), `SubmitRecord` (PutJob) and
`SubmitSend`; the worker is `Dequeue`, `Register`, `Start`, `Progress`, `BodyReturns`,
`Finish`; Cancel is a lookup and an act.  `SubmitPanics` is the send on a channel that
Close has closed.  At a start reconcile rewrites the file once per job it interrupts,
and each of these writes may fail (`PersistEach`).  `QueueCap` is 256 in the code and
1 in the run, so that the channel does fill up.

### Audit
A line is the entry with the hash it claims to follow; a hash is the entry it hashes.
Log is `ReadLast` (outside the lock), `Write`, `Sync`, `HeadWrite`, each with its
failure; a sidecar that cannot be opened keeps its old line (`HeadStays`), one that
fails behind the truncation does not (`HeadFails`).  `Stop` kills the process with
calls in flight, tearing the line being written; `Cut` removes lines from the end of a
closed log.  A torn read of `last` by the racing goroutines is not a value of its own:
its consequence, a line with a wrong previous hash, is already there.

### Workflow, ShutdownWindow, RestoreReplace
`wf` is the record in memory, `saved` the one in state.json, `pc` the place in
`exec`/`compensate`.  Every persist of the engine is an action that may fail
without notice, as `PutWorkflow`'s error is dropped.  Steps change the mode of the
database (`db`), or the contents of the file and of `.pre-restore`
(`none`, `orig`, `part`, `new`); a step may fail before or after its effect, and a
cancelled context makes gfix fail.  A gfix started by a server that was killed has
ended before the next server reconciles; the model keeps one record, the
workflow's own database; texts of the record are left out, nothing reads them.

### Schedule
Time is in minutes (a clock set back within one minute is not distinguished), a
cron expression is the set of minutes it matches, and the
minutes are local: time zones and daylight saving are outside the model.  The
tick copies the list (`copy`), then for each schedule skips, marks and fires in
separate actions, as the code does with `PutSchedule` in between.  Other jobs of
the database and closed windows are one blocking condition.

### Reload
A configuration is what the drain depends on: a path per database (users and secret
names count with it), the address of one instance (with its bin_dir), the backup
directory.  Apply holds the controller's mutex (`who`) and is one action per hook, in
the order of `applyLocked` (`hook` is the place in it); `Unlock` stands for its
returns, with the deferred SetDraining.  The watcher's timer uses up the event before
Apply loads the file.  Beside it move the operator's editor, the gate and Submit in
their two steps each (as in `Gate` and `Jobs`, here without failing writes and kills),
workers, `Manager.get` with its ping under the mutex of the pools, and fb_db_register,
which loads, rewrites and reloads the file from inside a job. `raced` and `slipped`
remember the actions and pools that came up after the hook that would have removed
them; the properties except them, and section 6 says what becomes of them.  A job may
run for ever: the drain's timeout is an action that is possible whenever somebody is
not idle.

### Transport, Bridge
A request is a slot whose record holds the handler's locals: `Lookup` (key and
identity), `Admit` (guard, session cap), `Serve` (the SDK) and `Finish` (the slot
given back to the guard *object* it came from, the session added or removed). `guards`
keeps every guard object made since the start, so that a reload (keys first, then the
rebuilt guards, as in the code) can replace one under a running request.  The
configuration names identities whose key may not resolve: keys are those that resolve,
guards are made for all that are named.  The limits of an identity are its own block
laid over the profile's and the global one (`EffectiveLimits`).  In `Bridge` a line of
the client is a goroutine: it reads session and generation, posts, and on a 404 takes
`reinitMu` and replays the cached initialize unless the generation has moved.
Connections fail before or after the call ran; the two are told apart only by the
model (`ran`).  A crash of the server breaks the connections that are open and leaves
alone those already broken.  The GET stream retries `maxGetRetries` times.

### Backups, Writes
Jobs of one database exclude each other (`JobsSingleFlight`), so the state has one
`job`; a kill or a failing write of state.json may come between any two of its
steps.  A file is `partial` until gbak has written it whole, `good` after, and `gone`
when retention took it; `catalog` and `stored` are the rows in memory and on disk.
Row ids are numbers in order (clock readings in the code).  A request for a
migration keeps the manifest (versions and checksums) the operator approves;
the directory may be edited before the job loads it again.  A batch is the set of
its files: versions are distinct (migrate.go:138), so the sorted list the code
walks is the set taken in order (`FirstOf`), and likewise a retention plan
(`OldestOf`).  A checksum fixes the statements of a file (it is taken over the whole
content, migrate.go:88).  `done` counts how often each statement ran.  For fb_write
`wrote` keeps apart what the executor knows (`applied`, its counter; `said` and `count`,
its report) and what the engine holds (`tx`, the open transaction; `kept`, what is
committed; `lost`, what a commit did before its answer got lost).  Begin, each
statement and each commit are actions that may fail.  The removal of a file by
retention may fail too; its error is dropped and the row goes all the same.

### Statements, Tiers, Requests
A script is a sequence of tokens: keywords are themselves, and literals, comments
and malformed pieces are one token of each kind the lexer tells apart.  `Split`
is a fold over the tokens with the splitter's locals; each statement family of the
parser is an operator from tokens to a statement record.  `Tiers` gives the row of
the operations table, the contextual escalations and the decision of
`EvaluateMeta`.  The client of `Requests` puts a text together from templates
whose meaning, tier floor and first engine version come from the decision record
and not from the parser; the properties compare the two.  The floors are the
escalations of ADR-019, item 2, and of its addendum; its sentence on `RestorePoint`
content (line 25) is `IrreversibleIsTierTwo`, which does not hold (section 6).  The
argument `on` of fb_grant and fb_revoke goes into the SQL as it comes, so it is a
sequence of tokens that may hold statements of its own (`OnTexts`); `takes` says
which accounts of the server these take.  `lost` are the dropped accounts, `stripped`
those the last request took a privilege from.  So this is a
check of the parser over bounded inputs against an independent reference: it says
nothing about SQL that no template has the form of.

### Reconcile, Setup
`Reconcile` is the planner with its order (update or drop owned entries, keep the
others, add the new, choose free ids, keep the secrets still needed).  `Setup` is one
action per effect of `cmdHqbirdInstall`: facts, plan, TLS key, certificate, firewall,
secrets, fbmcp.yaml, service, owned list, and the undo when remote mode cannot be had;
a kill ends it between any two.  `ManagedLines` chooses the lines, `WantLines` lists
what they need and `PlanFor` makes the new file of it.  What the agent folders and the
firewall answer is chosen when the run asks, and the firewall tool may refuse to add
or to remove any rule; `stuck` are the rules it kept although their record was
cleared.  A line passed on stdin counts whether its folder was discovered or not.
`whole` remembers that no run was cut short.

## 3. Runs

Passing runs.

| run | question | bounds and why they are enough |
|---|---|---|
| `gate` | single use, arguments of the same life, refinement of `Consent`, nothing pending or marked for ever | one request and two handlers beside the watcher, so three goroutines contend for it; two failing writes and two kills.  The safety properties are proved for any number of requests of any tier, and requests touch each other nowhere but in the list they are removed from |
| `jobs` | one start, terminal records final, every acknowledged job ends | two jobs of one database over a channel of capacity one; two kills, so that a restart can itself be cut short |
| `audit` | file and sidecar agree, serial calls verify, cuts are noticed | four calls, two failures, two kills, one cut; calls are interchangeable, hence the symmetry set (no temporal property is checked there) |
| `shutdown` | left shut only for one of three reasons, reopened in the end | three kills, two failing writes, two failing steps: more than the steps between gfix_shut and the end can absorb |
| `restore` | old data kept, the final record tells what the file holds, every run ends | two runs, so that a run meets what an earlier one left |
| `schedule` | no slot fires twice, no fire is forgotten, missed slots are caught up | two slots inside the horizon of the look-back, each disturbance once |
| `reload` | no pending action, job, backup, pool or window that the drain can reach is carried over to another database; a saved file is applied or refused; no drain lasts | two ids, two paths, two addresses, two directories: enough for rename, move, removal, duplicate and re-use of an id; one edit by the operator of each kind and one by fb_db_register, so that a second change meets every point of an Apply under way (with two edits the invariants hold for the first 17 million states; the whole does not finish in minutes) |
| `sessions` | calls run at most once and answers are true, counters balance, every line is finished with | two calls so that two goroutines lose the session together, three slots of direct clients so that the cap of one or two sessions is met and passed, one fault (kill of the server, dropped session, reload, throttled request) |
| `writes` | rows stand for whole files, young and never verified files are kept, rows without files are explained, history rows are complete, reports are true, approved manifests are what runs | two backup files, three rows, three days with a keep time of one, two migration files of which one is edited or held back, scripts of two statements with and without DDL, one kill or failing write, two requests: a row can outlive its file, a file have two rows, and a manifest be stale |
| `statements` | splitting, reads without a gate, tiers and preconditions, lockout | 108 templates, one for every kind of statement the parser tells apart, alone and followed by one of 22 with a body or a raised tier, sent whole or with an unclosed literal, an unclosed comment or an invalid byte; five texts for the argument `on`; nine callers, each with one thing wrong |
| `setup` | what is written can be served, rules precede and are recorded, second run quiet, operator's entries kept | two lines of which one moves to the other's port, three initial files, two runs with different options, one edit by another writer |

`audit_race` refutes a sentence of the repository: overlapping calls of Log break
the chain that audit.go:17 describes (the finding in `PROJECT.json`).

**Fairness.**  Weak fairness on goroutines that the code has started and that loop or
run to their end by themselves: handlers inside Confirm, watcher and sweeper
(tickers), workers, engine and steps (every external command has a time limit), the
passing of time, the end of a job or the opening of a window that blocks a schedule,
and the restart of a killed server by its service manager.  Clients, the operator,
kills and failures are never obliged to happen. Strong fairness in one place: where
`Reload` takes the controller's mutex for the watcher and the mutex of the pools for
CloseDB, since other callers may take and release either for ever, and `sync.Mutex`
hands over to a waiter after a millisecond.  In `Bridge` the goroutine of a line that
was read and the handler of a request that arrived go on (the HTTP client has a time
limit); the GET stream, reloads, other clients and failures are not obliged to
anything.  The end of a job is not assumed there.

**Deadlock** is checked in `Gate`, `Jobs`, `Reload` and `Requests`.  It is switched
off where the model may come to rest: all entries logged, all runs of a workflow used,
the last minute or day reached, all lines relayed, all runs of the installer made.

## 4. Proofs

TLAPS proves, for every value of the constants that satisfies the named
assumptions (any number of requests, goroutines, jobs, databases, channel
capacity, calls, schedules, minutes, files, migrations, clients, identities and
limits, failing writes and kills):

| theorem | says |
|---|---|
| `GateInvariant` | `GateInv` is an invariant of the gate |
| `GateTypes`, `GateSingleUse`, `GateRefusedNeverRuns`, `GateFuseSeven` | types, single use, refused actions never run, tier 2 out-of-band only |
| `GateRunsWithItsArgs` | an action runs only in the life that took the request |
| `GateImplementsConsent` | the gate's `Spec` implies `Consent`'s, under the mapping `Fate` |
| `JobsInvariant`, `JobsLiveIsOwned`, `JobsStartsOnce`, `JobsSingleFlight`, `JobsTerminalIsFinal` | live records are owned, one start, one place at a time, terminal records final |
| `AuditInvariant`, `AuditCleanRestart`, `AuditAckedKept` | file, sidecar and memory agree in an untouched log |
| `AuditChain`, `AuditSerialVerifies`, `AuditCutIsRefused` | calls that do not overlap leave a chain that verifies; a removed line is noticed by Open and by Verify |
| `ShutdownInvariant`, `ShutOnlyIfExplained`, `ShutdownSucceededIsOnline` | left shut only for a named reason, succeeded is online |
| `RestoreInvariant`, `RestoreKeepsOld`, `RestoreRecordIsTrue` | the old database is in the file or in `.pre-restore`; the final record says what the file holds |
| `ScheduleInvariant`, `ScheduleEachSlotOnce` | two fires have a cron minute between them, and a restart knows of every fire |
| `WritesInvariant` | `WritesInv` (with `BackupsInv`) is an invariant of catalog, retention, executor and migrations |
| `CatalogIsWhole`, `RetentionKeepsYoung`, `RetentionLeavesNoRow` | rows stand for whole files, files that are young or never passed a test restore stay, a verified row without its file is explained |
| `HistoryIsComplete`, `MigrationsInOrder`, `WriteReportsTruth` | a history row means every statement ran; only the approved files run, in order; the executor's reports agree with what the engine has committed |
| `BridgeInvariant`, `BridgeAnswersTruth` | a call runs at most once through lost sessions, and its answer says whether it ran |
| `ReloadInvariant`, `ReloadKeepsJobs` | outside the races the history variables name, a job's database and a backup's directory do not change under it |
| `ReloadStateFollows` | outside them, an open pool is one of the live snapshot and the maintenance window belongs to a configured database |
| `SetupInvariant`, `SetupListenIsServable` | a listen in fbmcp.yaml has its identities, keys and pair, whoever wrote last and wherever a run ended |
| `SetupRulesAreRecorded`, `SetupOpensFirst` | between whole runs the firewall holds the recorded rules and those a failed removal left; a new port is written behind its rules |
| `SetupEntriesKept` | every plan holds the operator's instances, databases and agents as they were read |
| `TransportLimitsHold` | guard counters are the requests inside, under their caps; the excess over max_live_sessions is bounded |

Each rests on an inductive invariant (the type invariant is a conjunct of it),
checked by TLC on the instance of the component before it was proved.  What is
proved for every instance and follows from such an invariant alone
(`RefusedNeverRuns`, `FuseSeven`, `LiveIsOwned`, `SingleFlight`, `AckedKept`,
`SucceededIsOnline` and the invariants themselves) is not repeated in the runs; any
of them can be added to the configuration.  The properties of the runs that are
also theorems are `SingleUse`, `RunsWithItsArgs`, `ImplementsConsent`,
`StartsOnce`, `TerminalIsFinal`, `CleanRestart`, `SerialVerifies`, `CutIsRefused`,
`LeftShutIsExplained`, `OldKept`, `RecordIsTrue`, `EachSlotOnce`, `VerifiedIsWhole`,
`YoungIsKept`, `GoneIsExplained`, `RowMeansComplete`, `ReportIsTrue`,
`AppliedInOrder`, `AnswerIsTrue`, `LimitsHold`, `JobKeepsItsConfig`,
`StateFollowsConfig`, `ListenIsServable`, `RulesAreRecorded` and `RuleBeforeListen`:
every safety property of the runs but three of `statements` and two of `setup`, listed
below.

- `GateInv`.  `SingleUse` alone is not inductive: it has to be known that an action
  is in one place at a time (`HeldAlone`: in the list or in one goroutine's hands),
  that a confirmed one is out of the store's memory and survives in state.json only
  without its arguments (`ApprovedGone`), and that a refused one can come back from
  a file whose rewrite failed only into a process that has lost its arguments
  (`RefusedDead`).
- `JobsInv` ties each record to the place that will end it: a submitter between
  two steps, a channel, or a worker (`Queued`, `Held`, `Unsent`), and memory to the
  file (`InStep`, `Ended`).
- `AuditInv` describes the log while one call is between its steps (`Holder`), so
  that a failure at that point is accounted for (`hurt`).  `ChainInv` adds that a call
  nothing overlaps has read what is still the last hash (`Serial`), that a readable
  sidecar names an entry and not the start of the chain (`HeadNames`; otherwise a
  file cut to nothing would agree with it), and that a missing line stays missing
  (`LineMissing`).
- `ShutdownInv` says that whenever the database is shut, the stored record will
  lead a restart over gfix_online (`OpenIsCovered`), or one of the three named
  failures has happened; it needs that the stored step lags behind the real one
  but never runs ahead (`ForwardIsStored`).
- `RestoreInv` is the same lag (`StepLags`) with what the two files hold at each step:
  the snapshot is the old database from the copy to the end of the first run
  (`SnapshotHolds`), the file is the new one past replace unless a compensation
  has run (`ReplacedIsNew`), and it is the old one after a put-back (`PutBackHolds`).
- `ScheduleInv`.  LastFiredAt is in three places, and any of them may be the one a
  restart, a tool or the tick's copy brings back; `Covered` says each lies at or
  after every fire.  A refused submission clears it, after which only the forward
  clock keeps two fires apart: hence the two cases of `Covers`, and hence
  `EachSlotOnce` excepts runs with both a refusal and a clock set back.
- `BackupsInv` knows which job may be between a file and its row (a half-written
  file has no row, a gone file has had its row planned), and `WritesInv` the position
  of the migration in its file: `RunFits` and `TodoFits` tie the batch to the approved
  manifest and the history, `PrefixDone` says the statements before the position ran.
  `ReportIsTrue` speaks of the report alone; `WriteFits` says what holds before there is
  one: with DDL the engine holds exactly the statements the counter counts and the open
  transaction at most the next one (`StepsFit`), without DDL it holds nothing and the
  transaction all that was executed (`AtomicFits`).
- `BridgeInv` relates each line to the request it has under way or landed
  (`FlyingFits`, `LandedFits`): a request that lost its session has not run, so it may
  be posted again.  For the limits, `InsideFits` says which guard object a request
  counts in, and the counters are compared with cardinalities of sets of requests
  step by step (`Counted`, in `BridgeProofs`); `FirstGuards` says that until a reload
  each identity has one guard, from which `CapOvershoot` follows by counting.  The
  constants must be finite sets of requests and identities; the lines, direct
  clients and the bridge's own three requests must be different requests.
- `ReloadInv` follows an Apply through its hooks.  What the two snapshots differ in
  is in `drain` (`DrainCovers`); behind the drop no drained action is before its
  record (`DroppedAll`), behind the wait none has one (`WaitedAll`), so that the swap
  changes the database of no job but those in `raced`.  For the pools, those CloseDB
  has been at stay closed until the swap (`ClosedAll`) unless they slipped in.  The
  window is remapped ahead of the swap, so between the two it is an id of the next
  snapshot and not of the live one (`WindowFits`), and a drain that times out there
  is what `strayed` excepts.  Assumed: finite sets of databases, and three
  different callers of Apply, and a first snapshot in which no path occurs twice.
- `SetupInv` says what the command and another writer hold in their hands.
  `ListenIsServable` speaks of the file alone and is not inductive: the file the
  command is about to write (`RunSound`) and the one another writer has loaded
  (`EditSound`) have to be servable too, which in turn needs that a stored key is
  never dropped (the list records no API key, `SoundList`, and no plan puts one
  there) and that the files of the pair never go.  `RulesFollow` says in whose list,
  the stored one or the run's, the rules in the firewall are recorded at each step, the
  stuck ones aside;
  `FirstFile` is the corner of a run that finds no line and no file and so writes no
  list; `RulesWait` is the order of firewall and file.  Assumed of the constants:
  the operator's first fbmcp.yaml has an identity and a pair if it has a listen, and
  his entries do not name the secret of an API key (`SetupAssumption`).

Only model-checked:

- all liveness (`PendingResolved`, `ApprovalsDrain`, `SentJobsEnd`, `Reopens`,
  `RunEnds`, `CaughtUp`, `Settles`, `DrainLifted`, `HandlersEnd`), which the prover
  cannot express with fairness;
- `SplitAgrees`, `ReadsAreReads`, `EffectPaidFor` and `AccessIsKept` of `Requests`:
  what the parser makes of *every* text would need induction over the tokens, and
  its operators are recursive;
- `SecondRunIsQuiet` and the second half of `OperatorKept` of `Setup` (a plan is a valid
  configuration; the first half, `EntriesKept`, is a theorem): both depend on what the
  folds over lines and database files compute, free ids above all, which would need
  induction over the sequences.

## 5. What is not modelled

Left out for good: reports, advice, schema comparison, error texts, the result
grid, notifications, trace records, the user interfaces and the clients of other
products (no state that a sequence of steps could spoil, or state of another
program); the text of messages and audit details; the characters inside a token;
time zones and daylight saving; the uniqueness of ids taken from the clock; hashes
and signatures (an entry is its own hash).

Taken together where the code has several steps: TakePending, removal of the marker and
forgetArgs of a denial (`Gate.Denial`: the marker is the watcher's own and the arguments
of an action that is out of the list are read by nobody); guard, session cap and
tracker of a request (`Transport.Admit`: a request that is over the cap holds its slot
for a moment, which can only make another one fail with 429, as `Throttle` does at any
time).  liveJobID's exclusion of the caller is `Reload.Idle`: one worker per key runs
the jobs in the order they came, so the first live register job is the caller itself.

Left out of modelled components: the demo tool fb_demo_write (FBMCP_DEMO_TOOLS=1),
which writes nothing; the error of `firewall-cmd --reload`, which is dropped
(hqbird_host_linux.go:271): `rules` are the stored rules, and whether the running
firewall has read them is outside the model; Start, Stop and Replace of the HTTP
listener and the reloading of certificates; SSE framing of the bridge; the schema
comparison and the advisory of nightly_verify; rotation of log files; the rollback
script of a migration; `--dry-run`, `--no-service` and the Windows host of
hqbird-install; secrets in the keyring or the environment; `fbmcpctl` doctor and
repair, which work on a stopped system; cron parsing (an expression is the set of its
minutes); the instance lock and attached sessions (a file lock of the operating system
and a spliced pipe).

## 6. Sentences of the repository that do not hold

Besides `audit_race`, the modules state further sentences of comments and
documents that TLC refutes.  They are kept behind the properties of each module and
can be tried by naming them in the configuration of the component (with two
requests, kills or failures where the table says so):

| property | sentence | what happens |
|---|---|---|
| `DenyTakesEffect` (Gate) | p3tools.go:520 "an operator's Deny takes effect immediately instead of waiting out the 15-minute TTL" | a denial marker read while a rejected attempt holds the action is removed without effect, and the action is put back |
| `AlwaysOnline` (ShutdownWindow) | p4tools.go:548 "close pools → gfix -shut → callback → always gfix -online" | after fb_cancel the compensating gfix runs under the cancelled context |
| `FailureRestores` (RestoreReplace, one failing step) | phase3-exit-review.md:12 "failure path restores previous file" | a replace that removed the file and then failed is not compensated |
| `AttemptKeepsPending` (Gate, one kill) | gate.go:200 "a wrong-channel or wrong-identity attempt must not destroy the pending confirmation" | a kill between take and requeue loses it |
| `ArgsLostOnlyByRestart` (Gate, no failure) | p3tools.go:148 "the arguments of this request were lost because the fbmcp server restarted" | an approval that arrives before the requesting handler has stored them finds none |
| `CancelStopsQueued` (Jobs) | jobs.go:164 "Cancel cooperatively cancels a running/queued job" | a job still in its channel is not cancelled, and the caller is told it is |
| `CloseRefuses` (Jobs) | jobs.go:231 "Close stops accepting jobs" | a Submit past its check sends on the closed channel and panics |
| `HasLiveIsTrue` (Jobs, one failing write) | jobs.go:201 "HasLive reports queued/running jobs" | a record whose write failed stays "queued" in memory |
| `KillKeepsChain` (Audit, one kill) | killharness_test.go:5 "audit chain verifies" after a kill | a kill between line and sidecar makes the next start refuse the log |
| `RestartReopens` (ShutdownWindow, one kill, one failing step) | engine.go:130 "a database is never left shut" | a kill between the writes of "failed" and "compensating" |
| `KilledRunFinishes` (RestoreReplace, one kill, one failing step) | runbook.md:340 "Finishes: restore, validate, database online" | a compensating run is resumed forward and succeeds on the old file |
| `SnapshotStays` (RestoreReplace, two runs) | runbook.md:370 "The old file stays as `<db>.pre-restore` until you delete it" | a second run copies a partial file over it |
| `NoDoubleRun` (Schedule, one rewind, one refusal) | runbook.md:345 "Clock moved back: Scheduler skips; no double run" | the refusal has cleared LastFiredAt |
| `DeletedStaysDeleted` (Schedule) | tool-reference.md:175 "Delete a grant" | the ticker writes back a copy from before the delete, and PutSchedule appends it |
| `RefusedIsRetried` (Schedule, one refusal) | schedule.go:124 "release the slot — retry next tick" | the catch-up needs LastFiredAt, which the release has cleared |
| `DropReachesAll` (Reload) | ADR-012:19 "drop matching pending actions" | an action requested after the drop, or in Confirm's hands during it and put back, survives and names the changed database |
| `NoPoolSurvives` (Reload) | ADR-012 "`CloseDB` for those IDs, **then** `Handle.Swap`" | a tool that opens the pool between the two opens it from the old snapshot, and it stays |
| `RefusalKeepsWindow` (Reload) | tool-reference.md:30 "a refuse keeps the old snapshot" | true of the snapshot; windows, schedules and pending actions have been remapped and dropped before the timeout |
| `SessionComesBack` (Bridge) | bridge.go: a lost session is re-initialized | a re-initialize that fails leaves the session empty; a post without a session is never answered 404, so no later line tries again |
| `AdmittedHasBackup` (Writes) | p4tools.go:107 "newest verified backup must be < 24h" | fb_restore_test of an old file adds a row dated now (backupsvc.go:181), and a row may outlive its file (retention.go:60); the facts are read at the request and not when the job runs |
| `BaselineAllowsApply` (Writes) | ADR-030 #4, tool-reference.md:130: baseline, then apply | the row of version 0 has no file, so Pending refuses every later apply (migrate.go:165) |
| `DynamicIsTierTwo` (Requests) | ADR-019:48 "**EXECUTE BLOCK** → Tier 2 when the body is not provably read-only", for dynamic SQL too | bodyOpaque looks for EXECUTE STATEMENT with one blank (v3map.go:241); with a line break or a comment between the words a block without other writes stays at tier 1.  `EffectPaidFor` excepts this one shape (`SpacedDynamic`) |
| `IrreversibleIsTierTwo` (Requests) | ADR-019:25 "irreversible (`RestorePoint`) content is at least Tier 2" | the contextual switch of v3map.go:159 does not look at the compensation; such statements stay at tier 1 where the operations table gives it |
| `RulesStayRecorded` (Setup) | hqbird_host_linux.go:251 "the rules added are recorded in m so they can be removed later" | the error of a removal is dropped (298, 301) and the record cleared (307): the rule stays in the firewall and no list names it, although every run went to its end |
| `RollbackIsTrue` (Writes, one fault) | executor.go:197 "commit failed — rolled back" | said of every error of the commit, also of one whose answer was lost after the engine had committed |
| `GrantIsOneStatement` (Requests) | toolargs.go:84 "object type, e.g. TABLE or PROCEDURE" | any text is taken as `on` and spliced into the SQL (p4tools.go:314), statements of its own included; the lockout looks at the grantee only |
| `ScriptKeepsAccess` (Requests) | lockout.go:1 "never drop/revoke the last admin, the operating identity, or the registry read-only user" | a confirmed script of fb_write is not compared with these accounts |
| `DroppedIsUnused` (Setup) | hqbirdsetup.go:616 "Secrets this command wrote and still needs" | when a line moves to another port, the secret its databases still name is removed |

`OldKept` and the compensated part of `RecordIsTrue` are claimed only while writes of
state.json succeed: with three failing writes in a row a restart copies the half
restored file over `.pre-restore` (engine.go:81 drops the error).

Read off the code while modelling, without a property of their own:

- `SET TERM` (split.go:99-115): the operand captured is the word TERM itself, so the
  new terminator is not taken over; templates therefore hold no SET TERM.  A local
  sub-routine in a declaration section leaves the section open (split.go:130-160).
- `KnownOpKeys` (opkeys.go:70 "enumerates every OpKey the library can emit") lacks
  keys the parser does emit: GRANT on a view, ALTER of an aggregate function, GRANT
  of a role WITH GRANT OPTION, RECREATE UNIQUE INDEX.  `EffectPaidFor` speaks of the
  statements the templates hold, which are among the known ones.
- A commit that fails in a script with DDL does not report the prefix that is committed
  (executor.go:222-225): the report names the statement and gives no count.
- hqbird-install: a kill between fbmcp.yaml (459) and the owned list (556) turns its
  own entries into the operator's for good and leaves rules unrecorded; the error of
  the write that turns remote mode off is dropped (523); on Linux a failing systemctl
  looks like a server without lines (systemd.go:61).
- max_live_sessions is exceeded by concurrent initializes (transport.go:330);
  `LimitsHold` bounds the excess.  Between the swap of the keys and the rebuilding of
  the guards a request passes without one.

## 7. Plan

Done, in the order of importance: `Consent`/`Gate`, `Jobs`, `Audit`, `Workflow`
with its two instances, `Schedule`, `Reload`, `Backups`/`Writes`,
`Transport`/`Bridge`, `Statements`/`Tiers`/`Requests`, `Reconcile`/`Setup`; proofs
for all of them but `Requests`, and there for every safety property of the runs except
`SecondRunIsQuiet` and the validity of a plan.

What stays with TLC for good: liveness, `Requests` (its operators are recursive over
the tokens), and what the folds of `Reconcile` compute.  What could be added: Start,
Stop and Replace of the HTTP listener beside `Transport`, and the instance lock with
attached sessions.
