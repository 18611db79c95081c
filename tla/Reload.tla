------------------------------- MODULE Reload -------------------------------
(***************************************************************************)
(* Live reload of fbmcp.yaml (internal/reload, internal/config,            *)
(* cmd/fbmcp/reload_hooks.go) against what goes on meanwhile: requests and *)
(* confirmations, Submit in its two steps, jobs, tools that open           *)
(* connection pools, and fb_db_register, a job that edits the file and     *)
(* calls Apply itself.                                                     *)
(*                                                                         *)
(* A configuration is what the drain depends on: the path of every         *)
(* database, the address of the one instance and the backup directory.     *)
(* Users and secrets count with the path, bin_dir with the address; the    *)
(* service settings go the way of the directory, with HasLiveServiceJob    *)
(* for HasLiveBackup, and are left out.  Keys, limits, listener and        *)
(* webhook are applied after the swap and have no part in the drain.       *)
(* There is one maintenance window; one hook remaps windows and schedules, *)
(* and the ticker, which writes schedules back, is in Schedule.            *)
(* A workflow counts as the job that runs it.                              *)
(* The read and the admin pool of a database are one pool.  Actions that   *)
(* expire or are cancelled stay where they are and are not confirmed.      *)
(***************************************************************************)
EXTENDS Integers, FiniteSets

CONSTANTS
  Dbs,         \* database ids
  Paths,       \* normalised database paths
  Addrs,       \* addresses of the instance
  Dirs,        \* backup directories
  Instance,    \* the id of the instance, which keys the jobs of fb_db_register
  Jobs,        \* gated actions, each of which becomes at most one job
  Key,         \* Key[j]: the id the job's queue and the drain know it by
  Backups,     \* the actions HasLiveBackup looks for
  NoPath,      \* the database is not in the configuration
  NoDb, NoDsn, \* no window; no pool
  Broken,      \* a file Load refuses, or one with another state.dir
  Files,       \* what an operator may save as fbmcp.yaml
  First,       \* the configuration the process started with
  FileWatcher, Client, Nobody, \* who may hold the controller's mutex, besides jobs
  MaxEdits     \* bound: edits by the operator

Configs == [path : [Dbs -> Paths \cup {NoPath}], addr : Addrs, dir : Dirs]

Ids(c) == {d \in Dbs : c.path[d] # NoPath}

ASSUME ReloadAssumption ==
  /\ IsFiniteSet(Dbs)
  /\ Key \in [Jobs -> Dbs \cup {Instance}]
  /\ Backups \subseteq {j \in Jobs : Key[j] \in Dbs}
  /\ Instance \notin Dbs /\ NoDb \notin Dbs /\ NoPath \notin Paths
  /\ NoDsn \notin Paths \X Addrs
  /\ Broken \notin Configs /\ Files \subseteq Configs \cup {Broken}
  /\ First \in Configs
  /\ \A d, e \in Ids(First) : First.path[d] = First.path[e] => d = e
  /\ FileWatcher # Client /\ FileWatcher # Nobody /\ Client # Nobody
  /\ {FileWatcher, Client, Nobody} \cap Jobs = {}
  /\ MaxEdits \in Nat

VARIABLES
  file,        \* fbmcp.yaml
  event,       \* the watcher has a change to act on
  live,        \* the snapshot behind config.Handle
  who,         \* holder of the controller's mutex
  hook,        \* where Apply is
  next, drain, \* the loaded snapshot and the ids it drains (First and none outside Apply)
  todo,        \* ids still to wait for, then ids still to close
  draining,    \* the runner's drain set
  stage,       \* where each action is
  draft,       \* the configuration each fb_db_register has read and not yet saved
  pool, getter,\* open pools, and the pool being opened under the pools' mutex
  window,      \* the database of the maintenance window in the store
  edits,
  meant,       \* history: the database each action was asked for
  dir,         \* history: the directory configured when each job was recorded
  raced,       \* history: actions asked for, in hand or admitted after the drop
  slipped,     \* history: pools opened between their CloseDB and the swap
  strayed,     \* history: a drain timed out
  rejected     \* history: the file as it is now has been refused

controller == <<who, hook, next, drain, todo, draining>>
actions    == <<stage, draft>>
pools      == <<pool, getter>>
ghosts     == <<meant, dir, raced, slipped, strayed, rejected>>
reloadVars == <<file, event, live, controller, actions, pools, window, edits, ghosts>>

Stages == {"no", "pending", "taken", "admitted", "queued", "running", "loaded", "saved", "ended"}
Registers == {j \in Jobs : Key[j] = Instance}

\* A record that HasLive counts.
Live(j) == stage[j] \in {"queued", "running", "loaded", "saved"}

\* What a pool of d is opened with.
Dsn(c, d) == IF d \in Ids(c) THEN <<c.path[d], c.addr>> ELSE NoDsn

Dsns == (Paths \X Addrs) \cup {NoDsn}

ReloadTypeOK ==
  /\ file \in Configs \cup {Broken} /\ live \in Configs /\ next \in Configs
  /\ event \in BOOLEAN
  /\ who \in {FileWatcher, Client, Nobody} \cup Registers
  /\ hook \in {"idle", "load", "mark", "drop", "remap", "wait", "close", "finish"}
  /\ hook = "idle" <=> who = Nobody
  /\ drain \subseteq Dbs \cup {Instance} /\ todo \subseteq drain /\ draining \subseteq drain
  /\ stage \in [Jobs -> Stages]
  /\ draft \in [Jobs -> Configs]
  /\ pool \in [Dbs -> Dsns]
  /\ getter \in [db : Dbs \cup {NoDb}, dsn : Dsns]
  /\ window \in Dbs \cup {NoDb}
  /\ meant \in [Jobs -> Dsns] /\ dir \in [Jobs -> Dirs]
  /\ raced \subseteq Jobs /\ slipped \subseteq Dbs
  /\ strayed \in BOOLEAN /\ rejected \in BOOLEAN
  /\ edits \in 0..MaxEdits

NoGetter == [db |-> NoDb, dsn |-> NoDsn]

ReloadInit ==
  /\ file = First /\ live = First /\ next = First
  /\ event = FALSE
  /\ who = Nobody /\ hook = "idle"
  /\ drain = {} /\ todo = {} /\ draining = {}
  /\ stage = [j \in Jobs |-> "no"] /\ draft = [j \in Jobs |-> First]
  /\ pool = [d \in Dbs |-> NoDsn] /\ getter = NoGetter
  /\ window \in Ids(First)
  /\ edits = 0
  /\ meant = [j \in Jobs |-> NoDsn] /\ dir = [j \in Jobs |-> First.dir]
  /\ raced = {} /\ slipped = {} /\ strayed = FALSE /\ rejected = FALSE

-----------------------------------------------------------------------------
(***************************************************************************)
(* CompareSnapshots.                                                       *)
(***************************************************************************)

Gone(old, new)  == Ids(old) \ Ids(new)
Added(old, new) == Ids(new) \ Ids(old)

\* Strict rename: exactly one id gone, exactly one added, the same path.
Renames(old, new) ==
  {r \in Gone(old, new) \X Added(old, new) :
     /\ Cardinality(Gone(old, new)) = 1 /\ Cardinality(Added(old, new)) = 1
     /\ old.path[r[1]] = new.path[r[2]]}

Removed(old, new) == IF Renames(old, new) # {} THEN {} ELSE Gone(old, new)

Duplicates(c) == \E d, e \in Ids(c) : d # e /\ c.path[d] = c.path[e]

DrainIDs(old, new) ==
  Gone(old, new)
    \cup {d \in Ids(old) \cap Ids(new) : old.path[d] # new.path[d]}
    \cup (IF old.addr # new.addr THEN Ids(new) \cup {Instance} ELSE {})

\* HasLiveBackup: a new backup directory drains the databases being backed up.
DirDrain(old, new) ==
  {d \in Ids(old) \cap Ids(new) :
     /\ old.dir # new.dir
     /\ \E j \in Backups : Key[j] = d /\ Live(j)}

-----------------------------------------------------------------------------
(***************************************************************************)
(* Apply, one step per hook, under the controller's mutex.                 *)
(***************************************************************************)

\* Mutex taken: by the watcher after an event, by fb_config_reload, or by a
\* job that has saved the file.
Lock(caller) ==
  /\ who = Nobody
  /\ who' = caller /\ hook' = "load"
  /\ UNCHANGED <<next, drain, todo, draining>>

\* Mutant: an event that meets another caller's Apply is dropped.
WatchFiresTryLock ==
  /\ event /\ event' = FALSE
  /\ IF who = Nobody THEN Lock(FileWatcher) ELSE UNCHANGED controller
  /\ UNCHANGED <<file, live, actions, pools, window, edits, ghosts>>

\* The debounce timer fires: the event is used up before Apply begins.
WatchFires ==
  /\ event /\ event' = FALSE
  /\ Lock(FileWatcher)
  /\ UNCHANGED <<file, live, actions, pools, window, edits, ghosts>>

ClientReloads ==
  /\ Lock(Client)
  /\ UNCHANGED <<file, event, live, actions, pools, window, edits, ghosts>>

\* Apply returns to its caller; a job ends with it.
Unlock ==
  /\ who' = Nobody /\ hook' = "idle"
  /\ stage' = IF who \in Jobs THEN [stage EXCEPT ![who] = "ended"] ELSE stage
  /\ next' = First /\ drain' = {} /\ todo' = {} /\ draining' = {}
  /\ UNCHANGED draft

\* Load fails, the snapshot may not be applied, or nothing has changed.
LoadRefused ==
  /\ hook = "load"
  /\ \/ /\ file # live /\ (file # Broken => Duplicates(file))
        /\ rejected' = TRUE
     \/ file = live /\ UNCHANGED rejected
  /\ Unlock
  /\ UNCHANGED <<file, event, live, pools, window, edits, meant, dir, raced, slipped, strayed>>

LoadAccepted ==
  /\ hook = "load"
  /\ file \notin {Broken, live} /\ ~Duplicates(file)
  /\ next' = file
  /\ drain' = DrainIDs(live, file) \cup DirDrain(live, file)
  /\ hook' = "mark"
  /\ UNCHANGED <<file, event, live, who, todo, draining, actions, pools, window, edits, ghosts>>

MarkDraining ==
  /\ hook = "mark"
  /\ draining' = drain
  /\ hook' = "drop"
  /\ UNCHANGED <<file, event, live, who, next, drain, todo, actions, pools, window, edits, ghosts>>

\* What is requested, in hand or admitted now is missed by the drop.
InFlight(j) == Key[j] \in drain /\ stage[j] \in {"taken", "admitted"}

\* Mutant: the pending actions stay.
DropPendingNone ==
  /\ hook = "drop"
  /\ raced' = raced \cup {j \in Jobs : InFlight(j)}
  /\ hook' = "remap"
  /\ UNCHANGED <<file, event, live, who, next, drain, todo, draining, actions, pools, window, edits>>
  /\ UNCHANGED <<meant, dir, slipped, strayed, rejected>>

\* fb_db_register is kept: its instance is never removed here.
DropPending ==
  /\ hook = "drop"
  /\ stage' = [j \in Jobs |-> IF stage[j] = "pending" /\ Key[j] \in drain \ {Instance}
                                THEN "ended" ELSE stage[j]]
  /\ raced' = raced \cup {j \in Jobs : InFlight(j)}
  /\ hook' = "remap"
  /\ UNCHANGED <<file, event, live, who, next, drain, todo, draining, draft, pools, window, edits>>
  /\ UNCHANGED <<meant, dir, slipped, strayed, rejected>>

\* RemapDatabaseID: the new id of a renamed database, none for a removed one.
NewIds(g) == {d \in Ids(next) : <<g, d>> \in Renames(live, next)}

Remapped(g) ==
  CASE NewIds(g) # {} -> CHOOSE d \in NewIds(g) : TRUE
    [] g \in Removed(live, next) -> NoDb
    [] OTHER -> g

RemapState ==
  /\ hook = "remap"
  /\ window' = Remapped(window)
  /\ todo' = drain
  /\ hook' = "wait"
  /\ UNCHANGED <<file, event, live, who, next, drain, draining, actions, pools, edits, ghosts>>

\* WaitIdle for one id after the other; the caller's own job does not count.
Idle(i) == \A j \in Jobs : Key[j] = i /\ j # who => ~Live(j)

WaitIdle(i) ==
  /\ hook = "wait" /\ i \in todo
  /\ Idle(i)
  /\ todo' = todo \ {i}
  /\ UNCHANGED <<file, event, live, who, hook, next, drain, draining, actions, pools, window, edits, ghosts>>

\* Mutant: the wait has no timeout.
WaitTimeoutNever == FALSE

\* After 30 seconds the reload is refused; what was dropped and remapped stays so.
WaitTimeout ==
  /\ hook = "wait"
  /\ \E i \in todo : ~Idle(i)
  /\ rejected' = (file = next)
  /\ strayed' = TRUE
  /\ Unlock
  /\ UNCHANGED <<file, event, live, pools, window, edits, meant, dir, raced, slipped>>

\* Mutant: the pools stay open.
WaitDoneNoClose ==
  /\ hook = "wait" /\ todo = {}
  /\ hook' = "close"
  /\ UNCHANGED <<file, event, live, who, next, drain, todo, draining, actions, pools, window, edits, ghosts>>

WaitDone ==
  /\ hook = "wait" /\ todo = {}
  /\ todo' = drain \ {Instance}
  /\ hook' = "close"
  /\ UNCHANGED <<file, event, live, who, next, drain, draining, actions, pools, window, edits, ghosts>>

\* CloseDB, under the mutex of the pools.
CloseDB(d) ==
  /\ hook = "close" /\ d \in todo
  /\ getter = NoGetter
  /\ pool' = [pool EXCEPT ![d] = NoDsn]
  /\ slipped' = slipped \ {d}
  /\ todo' = todo \ {d}
  /\ UNCHANGED <<file, event, live, who, hook, next, drain, draining, actions, getter, window, edits>>
  /\ UNCHANGED <<meant, dir, raced, strayed, rejected>>

Swap ==
  /\ hook = "close" /\ todo = {}
  /\ live' = next
  /\ hook' = "finish"
  /\ UNCHANGED <<file, event, who, next, drain, todo, draining, actions, pools, window, edits, ghosts>>

\* Facts, webhook, keys and listener; then the deferred end of the drain.
Finish ==
  /\ hook = "finish"
  /\ Unlock
  /\ UNCHANGED <<file, event, live, pools, window, edits, ghosts>>

Apply ==
  \/ LoadRefused \/ LoadAccepted \/ MarkDraining \/ DropPending \/ RemapState
  \/ \E i \in Dbs \cup {Instance} : WaitIdle(i)
  \/ WaitTimeout \/ WaitDone
  \/ \E d \in Dbs : CloseDB(d)
  \/ Swap \/ Finish

-----------------------------------------------------------------------------
(***************************************************************************)
(* What goes on meanwhile.                                                 *)
(***************************************************************************)

OperatorEdits ==
  /\ edits < MaxEdits /\ edits' = edits + 1
  /\ file' \in Files \ {file}
  /\ event' = TRUE /\ rejected' = FALSE
  /\ UNCHANGED <<live, controller, actions, pools, window, meant, dir, raced, slipped, strayed>>

Move(j, from, to) == stage[j] = from /\ stage' = [stage EXCEPT ![j] = to]

\* Whatever else a step of an action does, it leaves these alone.
OnlyStage == UNCHANGED <<file, event, live, controller, draft, pools, window, edits, slipped, strayed, rejected>>

\* The gate records the action for a database or instance it knows.
Ask(j) ==
  /\ Key[j] \in Ids(live) \cup {Instance}
  /\ Move(j, "no", "pending")
  /\ meant' = [meant EXCEPT ![j] = Dsn(live, Key[j])]
  /\ raced' = IF hook \in {"remap", "wait", "close"} /\ Key[j] \in drain THEN raced \cup {j} ELSE raced
  /\ OnlyStage /\ UNCHANGED dir

\* Confirm takes the pending action, and may put it back.
Take(j)    == Move(j, "pending", "taken") /\ OnlyStage /\ UNCHANGED <<meant, dir, raced>>
Requeue(j) == Move(j, "taken", "pending") /\ OnlyStage /\ UNCHANGED <<meant, dir, raced>>

\* Submit refuses under the runner's mutex while the key drains ...
Admit(j) ==
  /\ Move(j, "taken", IF Key[j] \in draining THEN "ended" ELSE "admitted")
  /\ OnlyStage /\ UNCHANGED <<meant, dir, raced>>

\* ... and records the job after it has let go of the mutex.
Record(j) ==
  /\ Move(j, "admitted", "queued")
  /\ dir' = [dir EXCEPT ![j] = live.dir]
  /\ raced' = IF hook \notin {"idle", "load", "finish"} /\ Key[j] \notin drain THEN raced \cup {j} ELSE raced
  /\ OnlyStage /\ UNCHANGED meant

\* One job at a time for a key; it fails if the database is not configured.
Run(j) ==
  /\ \A k \in Jobs : Key[k] = Key[j] => stage[k] \notin {"running", "loaded", "saved"}
  /\ Move(j, "queued", IF Key[j] \in Ids(live) \cup {Instance} THEN "running" ELSE "ended")
  /\ OnlyStage /\ UNCHANGED <<meant, dir, raced>>

End(j) ==
  /\ j \notin Registers
  /\ Move(j, "running", "ended")
  /\ OnlyStage /\ UNCHANGED <<meant, dir, raced>>

\* RegisterDatabase loads the file once more ...
RegisterLoads(j) ==
  /\ j \in Registers
  /\ Move(j, "running", IF file = Broken THEN "ended" ELSE "loaded")
  /\ draft' = IF file = Broken THEN draft ELSE [draft EXCEPT ![j] = file]
  /\ UNCHANGED <<file, event, live, controller, pools, window, edits, ghosts>>

\* ... and replaces it by what it loaded and the new database.
RegisterSaves(j, d, p) ==
  LET old == draft[j] IN
  /\ d \notin Ids(old) /\ \A e \in Ids(old) : old.path[e] # p
  /\ Move(j, "loaded", "saved")
  /\ file' = [old EXCEPT !.path[d] = p]
  /\ draft' = [draft EXCEPT ![j] = First]
  /\ event' = TRUE /\ rejected' = FALSE
  /\ UNCHANGED <<live, controller, pools, window, edits, meant, dir, raced, slipped, strayed>>

\* The id or the path is taken, or the file cannot be written.
RegisterDenied(j) ==
  /\ Move(j, "loaded", "ended")
  /\ draft' = [draft EXCEPT ![j] = First]
  /\ UNCHANGED <<file, event, live, controller, pools, window, edits, ghosts>>

RegisterReloads(j) ==
  /\ stage[j] = "saved"
  /\ Lock(j)
  /\ UNCHANGED <<file, event, live, actions, pools, window, edits, ghosts>>

\* A pool is opened and pinged under the mutex of the pools.
PoolOpens(d) ==
  /\ getter = NoGetter /\ pool[d] = NoDsn
  /\ d \in Ids(live)
  /\ getter' = [db |-> d, dsn |-> Dsn(live, d)]
  /\ slipped' = IF hook = "close" /\ d \in drain \ todo THEN slipped \cup {d} ELSE slipped
  /\ UNCHANGED <<file, event, live, controller, actions, pool, window, edits, meant, dir, raced, strayed, rejected>>

PoolPinged ==
  /\ getter # NoGetter /\ getter' = NoGetter
  /\ pool' \in {pool, [pool EXCEPT ![getter.db] = getter.dsn]}
  /\ UNCHANGED <<file, event, live, controller, actions, window, edits, ghosts>>

JobSteps(j) ==
  \/ Admit(j) \/ Record(j) \/ Run(j) \/ End(j)
  \/ RegisterLoads(j) \/ RegisterDenied(j) \/ RegisterReloads(j)
  \/ \E d \in Dbs, p \in Paths : RegisterSaves(j, d, p)

ReloadNext ==
  \/ Apply \/ WatchFires \/ ClientReloads
  \/ OperatorEdits
  \/ \E j \in Jobs : Ask(j) \/ Take(j) \/ Requeue(j) \/ JobSteps(j)
  \/ \E d \in Dbs : PoolOpens(d)
  \/ PoolPinged

\* The goroutines of Apply, of the watcher and of a ping (10 seconds at most)
\* keep going; clients and the operator need not, and a job may run for ever.
\* Fairness is strong where a mutex is taken: sync.Mutex starves nobody.
ReloadFairness ==
  /\ WF_reloadVars(Apply) /\ WF_reloadVars(PoolPinged)
  /\ SF_reloadVars(WatchFires) /\ SF_reloadVars(\E d \in Dbs : CloseDB(d))

ReloadSpec == ReloadInit /\ [][ReloadNext]_reloadVars /\ ReloadFairness

-----------------------------------------------------------------------------
(***************************************************************************)
(* Properties.                                                             *)
(***************************************************************************)

\* From its request to its end an action names the database it was asked for:
\* the swap never moves the path or the server under a pending action, a
\* queued job or a running one.  Excepted are the actions asked for, in
\* Confirm's hands or between the two steps of Submit after DropPending, which
\* nothing drops or waits for.
JobKeepsDatabase ==
  \A j \in Jobs \ raced :
    stage[j] \in {"pending", "taken", "admitted", "queued", "running"}
      => Dsn(live, Key[j]) = meant[j]

\* A backup that HasLiveBackup could see ends in the directory it began with.
BackupKeepsDir ==
  \A j \in Backups \ raced : Live(j) => dir[j] = live.dir

\* What a reload that drained first may not change under a job.
JobKeepsItsConfig == JobKeepsDatabase /\ BackupKeepsDir

\* An open pool is connected to the database and server of the live snapshot:
\* CloseDB before Swap leaves none behind.  Excepted are the pools opened from
\* the old snapshot between the two.
PoolIsLive ==
  \A d \in Dbs \ slipped : pool[d] # NoDsn => pool[d] = Dsn(live, d)

\* Between reloads the maintenance window belongs to a configured database,
\* so that no database configured later under a removed id inherits it, unless
\* a drain timed out after the remap.
WindowKnown ==
  who = Nobody /\ ~strayed /\ window # NoDb => window \in Ids(live)

\* What outlives a reload follows the snapshot the reload put in force.
StateFollowsConfig == PoolIsLive /\ WindowKnown

\* A saved file is applied or refused, whatever changes while Apply runs; no
\* edit is lost to the debounce or to an Apply already under way.
Settles == (file # live) ~> (file = live \/ rejected)

\* A database does not drain for ever, even if a job of it never ends or the
\* job that waits for the mutex is itself what the holder waits for.
DrainLifted == (draining # {}) ~> (draining = {})

-----------------------------------------------------------------------------
(***************************************************************************)
(* The inductive invariant behind JobKeepsItsConfig and StateFollowsConfig *)
(* (GateProofs): what each hook of Apply leaves for the ones after it.     *)
(***************************************************************************)

\* The locals of Apply: none outside it, and no ids to wait for, refuse or close
\* before the hook that begins to.
Locals ==
  /\ hook \in {"idle", "load"} => next = First /\ drain = {}
  /\ hook \in {"idle", "load", "mark", "drop", "remap"} => todo = {}
  /\ hook \in {"idle", "load", "mark"} => draining = {}

\* Only fb_db_register edits the file.
Registering == \A j \in Jobs : stage[j] \in {"loaded", "saved"} => j \in Registers

\* An action for a database was asked for while the database was configured.
Known ==
  \A j \in Jobs : stage[j] \notin {"no", "ended"} /\ Key[j] \in Dbs => meant[j] # NoDsn

Changing == hook \in {"mark", "drop", "remap", "wait", "close"}

\* What the snapshots differ in is drained: the databases, and with the
\* directory those a backup of which is on record.
DrainCovers ==
  Changing => /\ DrainIDs(live, next) \subseteq drain
              /\ \A j \in Backups \ raced : live.dir # next.dir /\ Live(j) => Key[j] \in drain

\* The actions of a drained database that no race has kept from the drop.
Drained(j) == j \in Jobs \ raced /\ Key[j] \in drain \ {Instance}

\* DropPending leaves none of them before its record ...
DroppedAll ==
  hook \in {"remap", "wait", "close"}
    => \A j \in Jobs : Drained(j) => stage[j] \notin {"pending", "taken", "admitted"}

\* ... and WaitIdle none with one.
WaitedAll ==
  \A j \in Jobs :
    /\ Drained(j)
    /\ (hook = "wait" /\ Key[j] \notin todo) \/ hook = "close"
    => ~Live(j)

\* The pool being opened is one of the live snapshot, and none that CloseDB has
\* been at is open or being opened.
GetterIsLive ==
  getter.db # NoDb => /\ getter.dsn # NoDsn
                      /\ getter.db \notin slipped => getter.dsn = Dsn(live, getter.db)

ClosedAll ==
  hook = "close" =>
    \A d \in Dbs \ slipped : d \in drain \ todo => pool[d] = NoDsn /\ getter.db # d

\* The window is remapped ahead of the swap.
WindowFits ==
  ~strayed /\ window # NoDb
    => window \in IF hook \in {"wait", "close"} THEN Ids(next) ELSE Ids(live)

ReloadInv ==
  /\ ReloadTypeOK /\ Locals /\ Registering /\ Known
  /\ DrainCovers /\ DroppedAll /\ WaitedAll /\ JobKeepsItsConfig
  /\ GetterIsLive /\ ClosedAll /\ PoolIsLive
  /\ WindowFits

-----------------------------------------------------------------------------
(***************************************************************************)
(* What ADR-012 says and the code does not always do: TLC finds a          *)
(* counterexample to each of these (README, section 6).                    *)
(***************************************************************************)

(* A reload leaves no pending action for a database that it changed. *)
DropReachesAll ==
  \A j \in Jobs : stage[j] = "pending" => Dsn(live, Key[j]) = meant[j]

(* After the swap no pool is open to what a database was before. *)
NoPoolSurvives ==
  \A d \in Dbs : pool[d] # NoDsn => pool[d] = Dsn(live, d)

(* A refused reload leaves the windows of configured databases alone. *)
RefusalKeepsWindow ==
  who = Nobody /\ window # NoDb => window \in Ids(live)
=============================================================================
