------------------------------ MODULE Schedule ------------------------------
(***************************************************************************)
(* The scheduler (internal/schedule/schedule.go, cron.go) with the part of *)
(* the state store that keeps schedules and the tools that create and      *)
(* delete them (cmd/fbmcp/p5tools.go).                                     *)
(*                                                                         *)
(* Time is counted in minutes, the unit of a cron expression; 0 is Go's    *)
(* zero time.  A cron expression is the set of minutes it matches, already *)
(* in the schedule's timezone.  The ticker takes one copy of all schedules *)
(* and one reading of the clock, then works on the copies, so creates,     *)
(* deletes, clock changes and kills come between any two of its steps.     *)
(* What can keep a due schedule from firing is a live job of the database  *)
(* (busy) or a closed maintenance window or unknown database (closed).     *)
(* Schedules are always enabled and their argument hash is intact: nothing *)
(* in the program changes either.                                          *)
(***************************************************************************)
EXTENDS Integers, FiniteSets, Sequences

CONSTANTS
  Schedules,    \* schedule ids, each created at most once
  Catchup,      \* the ones with missed_run = catchup-once
  Slots,        \* the minutes the cron expression matches
  Horizon,      \* how many minutes PreviousMatch looks back (8 days)
  MaxTime,      \* bound: the last minute
  MaxRewinds,   \* bound: the clock is set back
  MaxRefused,   \* bound: submissions refused by the job runner
  MaxBlocks,    \* bound: foreign jobs and closed windows
  MaxFaults,    \* bound: failing writes of state.json
  MaxKills      \* bound: hard kills

ASSUME ScheduleAssumption ==
  /\ Catchup \subseteq Schedules
  /\ Slots \subseteq Nat \ {0}
  /\ Horizon \in Nat
  /\ MaxTime \in Nat \ {0}
  /\ MaxRewinds \in Nat /\ MaxRefused \in Nat /\ MaxBlocks \in Nat
  /\ MaxFaults \in Nat /\ MaxKills \in Nat

VARIABLES
  now,                 \* the wall clock
  present, last,       \* the store's memory: which schedules, and LastFiredAt
  dpresent, dlast,     \* the same in state.json
  pc,                  \* the ticker: "idle", "scan", or "fire" once a marker is stored
  todo, copy, tnow,    \* the ticker's schedules still to consider, its copies, its reading of the clock
  cur,                 \* the schedules whose marker is stored and which are not fired yet (at most one)
  busy, closed,        \* what blocks a due schedule
  fires,               \* history: the minutes at which each schedule fired
  owed,                \* history: the last submission was refused
  deleted,             \* history: deletes reported as done
  created,             \* ids used so far
  rewinds, refused, blocks, faults, kills

store == <<present, last, dpresent, dlast>>
ticker == <<pc, todo, copy, tnow, cur>>
history == <<fires, owed, deleted, created>>
counts == <<rewinds, refused, blocks, faults, kills>>
vars == <<now, store, ticker, busy, closed, history, counts>>

Times == 0..MaxTime

TypeOK ==
  /\ now \in 1..MaxTime
  /\ present \subseteq Schedules /\ dpresent \subseteq Schedules
  /\ last \in [Schedules -> Times] /\ dlast \in [Schedules -> Times]
  /\ pc \in {"idle", "scan", "fire"}
  /\ todo \subseteq Schedules
  /\ cur \subseteq Schedules
  /\ copy \in [Schedules -> Times]
  /\ tnow \in 1..MaxTime
  /\ busy \in BOOLEAN /\ closed \in BOOLEAN
  /\ fires \in [Schedules -> Seq(1..MaxTime)]
  /\ owed \subseteq Schedules
  /\ deleted \subseteq Schedules /\ created \subseteq Schedules
  /\ {rewinds, refused, blocks, faults, kills} \subseteq Nat

Init ==
  /\ now = 1
  /\ present = {} /\ dpresent = {}
  /\ last = [s \in Schedules |-> 0] /\ dlast = [s \in Schedules |-> 0]
  /\ pc = "idle" /\ todo = {} /\ cur = {}
  /\ copy = [s \in Schedules |-> 0]
  /\ tnow = 1
  /\ busy = FALSE /\ closed = FALSE
  /\ fires = [s \in Schedules |-> << >>]
  /\ owed = {} /\ deleted = {} /\ created = {}
  /\ rewinds = 0 /\ refused = 0 /\ blocks = 0 /\ faults = 0 /\ kills = 0

-----------------------------------------------------------------------------
(* The store: memory is changed first, then the whole snapshot is written. *)
Saved ==
  /\ dpresent' = present' /\ dlast' = last'
  /\ UNCHANGED faults

SaveFails ==
  /\ faults < MaxFaults /\ faults' = faults + 1
  /\ \/ UNCHANGED <<dpresent, dlast>>
     \/ dpresent' = present' /\ dlast' = last'

(* PutSchedule: an id the store no longer has is added again. *)
PutSchedule(s, t) ==
  /\ present' = present \cup {s}
  /\ last' = [last EXCEPT ![s] = t]

RemoveSchedule(s) == present' = present \ {s} /\ UNCHANGED last

(* fb_schedule_create, once confirmed. *)
Create(s) ==
  /\ s \notin created
  /\ created' = created \cup {s}
  /\ PutSchedule(s, 0)
  /\ Saved \/ SaveFails
  /\ UNCHANGED <<now, ticker, busy, closed, fires, owed, deleted, rewinds, refused, blocks, kills>>

(* fb_schedule_delete: only a write that worked is reported as done. *)
Delete(s) ==
  /\ s \in present
  /\ RemoveSchedule(s)
  /\ \/ Saved /\ deleted' = deleted \cup {s}
     \/ SaveFails /\ UNCHANGED deleted
  /\ UNCHANGED <<now, ticker, busy, closed, fires, owed, created, rewinds, refused, blocks, kills>>

-----------------------------------------------------------------------------
Matches(t) == t \in Slots

(* PreviousMatch: the latest match before t, looked for down to the horizon. *)
PreviousMatches(t) == {m \in Slots : m < t /\ m >= t - 1 - Horizon}

(* due, up to the checks of busy and closed; l is the copy's LastFiredAt. *)
Rewound(l, t) == l # 0 /\ t < l

(* Mutant: the catch-up is tried in cron minutes instead of outside them. *)
WantedOnMatch(s, l, t) ==
  \/ Matches(t) /\ l # t
  \/ /\ s \in Catchup
     /\ l # 0
     /\ Matches(t)
     /\ \E m \in PreviousMatches(t) : l < m

Wanted(s, l, t) ==
  \/ Matches(t) /\ l # t
  \/ /\ s \in Catchup
     /\ l # 0
     /\ ~Matches(t)
     /\ \E m \in PreviousMatches(t) : l < m

(* Tick: one reading of the clock, one copy of all schedules. *)
TickStart ==
  /\ pc = "idle"
  /\ present # {}
  /\ pc' = "scan"
  /\ todo' = present
  /\ copy' = last
  /\ tnow' = now
  /\ UNCHANGED <<now, store, cur, busy, closed, history, counts>>

TickEnd ==
  /\ pc = "scan"
  /\ todo = {}
  /\ pc' = "idle"
  /\ UNCHANGED <<now, store, todo, copy, tnow, cur, busy, closed, history, counts>>

(* consider: nothing to do. *)
NotDue(s) ==
  /\ pc = "scan"
  /\ s \in todo
  /\ ~Rewound(copy[s], tnow)
  /\ ~Wanted(s, copy[s], tnow)
  /\ todo' = todo \ {s}
  /\ UNCHANGED <<now, store, pc, copy, tnow, cur, busy, closed, history, counts>>

(* consider and skip: the reason is stored with the ticker's copy. *)
Skip(s) ==
  /\ pc = "scan"
  /\ s \in todo
  /\ \/ Rewound(copy[s], tnow)
     \/ Wanted(s, copy[s], tnow) /\ (busy \/ closed)
  /\ PutSchedule(s, copy[s])
  /\ Saved \/ SaveFails
  /\ todo' = todo \ {s}
  /\ UNCHANGED <<now, pc, copy, tnow, cur, busy, closed, history, rewinds, refused, blocks, kills>>

Due(s) ==
  /\ pc = "scan"
  /\ s \in todo
  /\ ~Rewound(copy[s], tnow)
  /\ Wanted(s, copy[s], tnow)
  /\ ~busy /\ ~closed

(* Mutant: the marker is written after the fire only. *)
MarkUnsaved(s) ==
  /\ Due(s)
  /\ PutSchedule(s, tnow)
  /\ pc' = "fire"
  /\ todo' = todo \ {s}
  /\ cur' = {s}
  /\ UNCHANGED <<now, dpresent, dlast, copy, tnow, busy, closed, history, counts>>

(* consider: the dispatch marker is stored before the schedule fires. *)
Mark(s) ==
  /\ Due(s)
  /\ PutSchedule(s, tnow)
  /\ Saved
  /\ pc' = "fire"
  /\ todo' = todo \ {s}
  /\ cur' = {s}
  /\ UNCHANGED <<now, copy, tnow, busy, closed, history, rewinds, refused, blocks, kills>>

(* The marker could not be stored: skip stores the marked copy once more   *)
(* and the schedule does not fire.                                         *)
MarkFails(s) ==
  /\ Due(s)
  /\ PutSchedule(s, tnow)
  /\ SaveFails
  /\ todo' = todo \ {s}
  /\ UNCHANGED <<now, pc, copy, tnow, cur, busy, closed, history, rewinds, refused, blocks, kills>>

(* The runner takes the job. *)
Fire(s) ==
  /\ pc = "fire"
  /\ s \in cur
  /\ fires' = [fires EXCEPT ![s] = Append(@, tnow)]
  /\ owed' = owed \ {s}
  /\ busy' = TRUE
  /\ pc' = "scan"
  /\ cur' = {}
  /\ UNCHANGED <<now, present, last, todo, copy, tnow, closed, deleted, created>>
  /\ UNCHANGED <<rewinds, refused, blocks, kills>>
  /\ Saved \/ SaveFails

(* The runner refuses it: LastFiredAt is set to the zero time. *)
FireRefused(s) ==
  /\ pc = "fire"
  /\ s \in cur
  /\ refused < MaxRefused
  /\ refused' = refused + 1
  /\ PutSchedule(s, 0)
  /\ Saved \/ SaveFails
  /\ owed' = owed \cup {s}
  /\ pc' = "scan"
  /\ cur' = {}
  /\ UNCHANGED <<now, todo, copy, tnow, busy, closed, fires, deleted, created, rewinds, blocks, kills>>

-----------------------------------------------------------------------------
Clock ==
  /\ now < MaxTime
  /\ now' = now + 1
  /\ UNCHANGED <<store, ticker, busy, closed, history, counts>>

(* The operator or the time service sets the clock back. *)
ClockBack ==
  /\ rewinds < MaxRewinds
  /\ rewinds' = rewinds + 1
  /\ now' \in 1..(now - 1)
  /\ UNCHANGED <<store, ticker, busy, closed, history, refused, blocks, faults, kills>>

(* Another caller's job, or a window that closes. *)
Block ==
  /\ blocks < MaxBlocks
  /\ blocks' = blocks + 1
  /\ \/ busy' = TRUE /\ UNCHANGED closed
     \/ closed' = TRUE /\ UNCHANGED busy
  /\ UNCHANGED <<now, store, ticker, history, rewinds, refused, faults, kills>>

Unblock ==
  /\ busy \/ closed
  /\ busy' = FALSE /\ closed' = FALSE
  /\ UNCHANGED <<now, store, ticker, history, counts>>

(* A hard kill and the next start: jobs are marked interrupted. *)
Kill ==
  /\ kills < MaxKills
  /\ kills' = kills + 1
  /\ present' = dpresent /\ last' = dlast
  /\ pc' = "idle" /\ todo' = {} /\ cur' = {}
  /\ busy' = FALSE
  /\ UNCHANGED <<now, dpresent, dlast, copy, tnow, closed, history, rewinds, refused, blocks, faults>>

Tick ==
  \/ TickStart \/ TickEnd
  \/ \E s \in Schedules : NotDue(s) \/ Skip(s) \/ Mark(s) \/ MarkFails(s) \/ Fire(s)
  \/ \E s \in Schedules : FireRefused(s)

Next ==
  \/ Tick
  \/ \E s \in Schedules : Create(s) \/ Delete(s)
  \/ Clock \/ ClockBack \/ Block \/ Unblock \/ Kill

Spec == Init /\ [][Next]_vars

(* The ticker ticks every 15 seconds for as long as the process lives, time *)
(* goes on, and jobs and windows that block end.                            *)
Fairness == WF_vars(Tick) /\ WF_vars(Clock) /\ WF_vars(Unblock)

FairSpec == Spec /\ Fairness

-----------------------------------------------------------------------------
(* Two fires of a schedule have a cron minute between them: no slot is      *)
(* dispatched twice, not after a kill between marker and fire, not after a  *)
(* failing write, not when the clock is set back, and a catch-up stands for *)
(* all the slots missed before it.  Exempt are runs in which the clock was  *)
(* set back and a submission refused.                                       *)
FireIsEarned ==
  (rewinds = 0 \/ refused = 0) =>
    \A s \in Schedules : \A i \in 1..(Len(fires[s]) - 1) :
      \E m \in Slots : fires[s][i] < m /\ m <= fires[s][i + 1]

(* The marker of a schedule that fired is in state.json for as long as no   *)
(* submission was refused: a restart cannot forget a fire.                  *)
FireIsStored ==
  refused = 0 =>
    \A s \in dpresent : \A i \in 1..Len(fires[s]) : fires[s][i] <= dlast[s]

(* A slot is fired once: every fire has a slot of its own, and a restart     *)
(* finds it recorded.                                                       *)
EachSlotOnce == FireIsEarned /\ FireIsStored

(* The inductive invariant behind it.  Whatever the ticker, the tools, the  *)
(* file or a restart may take for LastFiredAt lies at or after every fire.  *)
(* A refused submission alone puts it back, to the zero time, and then all  *)
(* fires lie before the current minute as long as the clock goes forward.   *)
Covers(f, l, t) ==
  /\ refused = 0 => f <= l
  /\ rewinds = 0 => f <= l \/ (l = 0 /\ f < t)

Covered ==
  \A s \in Schedules : \A i \in 1..Len(fires[s]) :
    /\ Covers(fires[s][i], last[s], now) /\ Covers(fires[s][i], dlast[s], now)
    /\ s \in todo => Covers(fires[s][i], copy[s], tnow)

(* The schedule about to fire has its marker in memory and in the file, and *)
(* a slot of its own.                                                       *)
MarkedIsDue ==
  \A s \in cur :
    /\ last[s] = tnow /\ dlast[s] = tnow
    /\ (rewinds = 0 \/ refused = 0) =>
         \A i \in 1..Len(fires[s]) : \E m \in Slots : fires[s][i] < m /\ m <= tnow

TickerShape ==
  /\ rewinds = 0 => tnow <= now
  /\ pc # "fire" => cur = {}
  /\ cur \cap todo = {}
  /\ \A s, r \in cur : s = r

(* Ids are used once: what was never created has no copy and no fire. *)
OnlyCreated ==
  /\ present \cup dpresent \cup todo \cup cur \subseteq created
  /\ \A s \in Schedules \ created : fires[s] = << >>

ScheduleInv ==
  TypeOK /\ TickerShape /\ OnlyCreated /\ Covered /\ MarkedIsDue /\ FireIsEarned

(* A catchup-once schedule that missed a slot while the server was down or  *)
(* blocked fires or is marked for it in the end, unless it is deleted, the  *)
(* clock is set back or a submission is refused.                            *)
Missed(s) ==
  /\ s \in present /\ last[s] # 0
  /\ \E m \in PreviousMatches(now) : last[s] < m

CaughtUp ==
  \A s \in Catchup :
    Missed(s) ~> (~Missed(s) \/ s \notin present \/ rewinds > 0 \/ refused > 0)

-----------------------------------------------------------------------------
(***************************************************************************)
(* What comments, messages and documents of the repository say and the     *)
(* code does not do: TLC finds a counterexample to each of these (README,  *)
(* section 6).                                                             *)
(***************************************************************************)

(* A schedule whose delete was reported as done does not come back. *)
DeletedStaysDeleted == deleted \cap present = {}

(* With the clock set back the scheduler runs no slot twice. *)
NoDoubleRun ==
  \A s \in Schedules : \A i, j \in 1..Len(fires[s]) : i # j => fires[s][i] # fires[s][j]

(* A refused submission of a catchup-once schedule is tried again by the    *)
(* next tick: a tick does not pass over it as if nothing were due.          *)
RefusedIsRetried ==
  [][\A s \in Catchup : s \in owed => ~NotDue(s)]_vars

=============================================================================
