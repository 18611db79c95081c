-------------------------------- MODULE Gate --------------------------------
(***************************************************************************)
(* The confirmation gate of fbmcp: how a mutating tool call becomes a      *)
(* pending action, how that action is confirmed, denied, cancelled or left *)
(* to expire, and how a confirmed one reaches the job runner.              *)
(*                                                                         *)
(* The module composes internal/gate with the part of internal/state that  *)
(* holds the pending actions (in memory and in state.json), the in-memory  *)
(* argument table and dispatcher of cmd/fbmcp, the watcher that consumes   *)
(* the operator's approval and denial markers, and a kill and restart of   *)
(* the whole process.  The store's mutex makes each TakePending and        *)
(* AddPending atomic; everything between two of them may interleave.       *)
(***************************************************************************)
EXTENDS Naturals, FiniteSets

CONSTANTS
  Requests,    \* ids the gate may hand out; each is handed out once (newID)
  Identities,  \* names of the callers
  Callers,     \* goroutines that serve fb_confirm calls concurrently
  Watcher,     \* the goroutine that polls the marker directories
  Owner,       \* Owner[r]: identity that asks for r
  Tier,        \* Tier[r]: risk tier of the tool behind r
  OobOnly,     \* OobOnly[r]: the owner may only be confirmed out-of-band
  NoAttempt,   \* what a goroutine outside Confirm holds
  MaxFaults,   \* bound: failing writes of state.json
  MaxCrashes   \* bound: kills of the process

ASSUME GateAssumption ==
  /\ Watcher \notin Callers
  /\ Owner \in [Requests -> Identities]
  /\ Tier \in [Requests -> Nat]
  /\ OobOnly \in [Requests -> BOOLEAN]
  /\ NoAttempt \notin [req : Requests, as : Identities, token : {"bad", "issued"}]
  /\ MaxFaults \in Nat
  /\ MaxCrashes \in Nat

VARIABLES
  pending,     \* ids of the pending actions in memory (state.snap.Pending)
  disk,        \* ids of the pending actions in state.json
  args,        \* ids whose arguments are in the in-memory table gt.args
  asked,       \* progress of the handler that requested each id
  expired,     \* ids whose time-to-live is over
  approvals,   \* marker files in <state.dir>/approvals
  denials,     \* marker files in <state.dir>/denials
  pc,          \* where each confirming goroutine is
  attempt,     \* the confirmation it is working on
  scan,        \* the watcher's pass: which directory, which entries are left
  faults,      \* writes of state.json that failed so far
  crashes,     \* kills so far
  approved,    \* history: how often Confirm let each id through
  ran,         \* history: how often each id was submitted as a job
  refused      \* history: ids reported denied, cancelled or expired

store    == <<pending, disk, faults>>
handlers == <<pc, attempt>>
markers  == <<approvals, denials>>
history  == <<approved, ran, refused>>
vars == <<store, args, asked, expired, markers, handlers, scan, crashes, history>>

Actors == Callers \cup {Watcher}

\* fb_confirm is the in-band channel, the watcher the out-of-band one.
Channel(a) == IF a = Watcher THEN "out-of-band" ELSE "in-band"

\* A missing and a wrong token have the same effect.
Tokens   == {"bad", "issued"}
Attempts == [req : Requests, as : Identities, token : Tokens]

\* "added": the pending action is stored, the handler has not replied yet;
\* "orphaned": replied to by a process that was killed since; "failed": the
\* handler returned an error or was killed before it replied.
AskStates == {"no", "added", "replied", "failed", "orphaned"}

PCs == {"idle", "looked", "taken", "confirmed", "unmarked"}

Scans  == [dir : {"none", "approvals", "denials"}, todo : SUBSET Requests]
NoScan == [dir |-> "none", todo |-> {}]

TypeOK ==
  /\ pending \in SUBSET Requests /\ disk \in SUBSET Requests
  /\ args \in SUBSET Requests /\ expired \in SUBSET Requests
  /\ asked \in [Requests -> AskStates]
  /\ approvals \in SUBSET Requests /\ denials \in SUBSET Requests
  /\ pc \in [Actors -> PCs]
  /\ attempt \in [Actors -> Attempts \cup {NoAttempt}]
  /\ \A a \in Actors : pc[a] = "idle" <=> attempt[a] = NoAttempt
  /\ scan \in Scans
  /\ faults \in 0..MaxFaults /\ crashes \in 0..MaxCrashes
  /\ approved \in [Requests -> Nat] /\ ran \in [Requests -> Nat]
  /\ refused \in SUBSET Requests

Init ==
  /\ pending = {} /\ disk = {} /\ args = {} /\ expired = {}
  /\ asked = [r \in Requests |-> "no"]
  /\ approvals = {} /\ denials = {}
  /\ pc = [a \in Actors |-> "idle"] /\ attempt = [a \in Actors |-> NoAttempt]
  /\ scan = NoScan
  /\ faults = 0 /\ crashes = 0
  /\ approved = [r \in Requests |-> 0] /\ ran = [r \in Requests |-> 0]
  /\ refused = {}

-----------------------------------------------------------------------------
(***************************************************************************)
(* The store.  Memory changes first and persist() follows under the same   *)
(* lock.  A write either succeeds, fails before the rename (the old file   *)
(* stays), or fails after it (the new file is there, an error is reported).*)
(***************************************************************************)
Outcomes == {"ok", "lost", "late"}

\* persist(): the memory image of this step becomes the file, or does not.
Persist(outcome) ==
  /\ outcome # "ok" => faults < MaxFaults
  /\ faults' = IF outcome = "ok" THEN faults ELSE faults + 1
  /\ disk' = IF outcome = "lost" THEN disk ELSE pending'

AddPending(r, outcome) ==
  /\ pending' = pending \cup {r}
  /\ Persist(outcome)

\* Mutant: the action is copied out of the store and stays there.
TakePendingCopies(r, outcome) ==
  /\ r \in pending
  /\ pending' = pending
  /\ Persist(outcome)

TakePending(r, outcome) ==
  /\ r \in pending
  /\ pending' = pending \ {r}
  /\ Persist(outcome)

-----------------------------------------------------------------------------
(***************************************************************************)
(* Requesting.  gate.Request stores the pending action and then audits and *)
(* notifies (a webhook call); only after it returns does finishGated store *)
(* the arguments and hand the token to the client.                         *)
(***************************************************************************)
Request(r) ==
  /\ asked[r] = "no"
  /\ \E outcome \in Outcomes :
       /\ AddPending(r, outcome)
       /\ asked' = [asked EXCEPT ![r] = IF outcome = "ok" THEN "added" ELSE "failed"]
  /\ UNCHANGED <<args, expired, markers, handlers, scan, crashes, history>>

StoreArgs(r) ==
  /\ asked[r] = "added"
  /\ args' = args \cup {r}
  /\ asked' = [asked EXCEPT ![r] = "replied"]
  /\ UNCHANGED <<store, expired, markers, handlers, scan, crashes, history>>

-----------------------------------------------------------------------------
(***************************************************************************)
(* Confirming.  gate.Confirm takes the action out of the store, judges the *)
(* attempt, and either puts the action back, drops it or lets it through.  *)
(***************************************************************************)

Become(a, where, what) ==
  /\ pc' = [pc EXCEPT ![a] = where]
  /\ attempt' = [attempt EXCEPT ![a] = what]

Return(a) == Become(a, "idle", NoAttempt)

\* The take at the head of Confirm: an unknown id and a failing write of
\* state.json both end the call with an error.
ConfirmTake(a, try) ==
  \/ /\ try.req \notin pending
     /\ Return(a)
     /\ UNCHANGED store
  \/ /\ TakePending(try.req, "ok")
     /\ Become(a, "taken", try)
  \/ \E outcome \in Outcomes \ {"ok"} :
       /\ TakePending(try.req, outcome)
       /\ Return(a)

\* fb_confirm: a client names an id; the call may come from any identity.
\* The token reaches the client with the reply to its request.
FbConfirm(a, try) ==
  /\ a \in Callers
  /\ pc[a] = "idle"
  /\ asked[try.req] # "no"
  /\ try.token = "issued" => asked[try.req] \in {"replied", "orphaned"}
  /\ ConfirmTake(a, try)
  /\ UNCHANGED <<args, asked, expired, markers, scan, crashes, history>>

\* Why Confirm turns an attempt down and puts the action back.
Rejected(a) ==
  LET try == attempt[a] IN
    \/ Owner[try.req] # try.as
    \/ Tier[try.req] >= 2 /\ Channel(a) # "out-of-band"
    \/ OobOnly[try.req] /\ Channel(a) # "out-of-band"
    \/ Channel(a) = "in-band" /\ try.token # "issued"

\* An action found expired inside Confirm is consumed and audited as denied.
ConfirmExpired(a) ==
  /\ pc[a] = "taken"
  /\ attempt[a].req \in expired
  /\ Return(a)
  /\ refused' = refused \cup {attempt[a].req}
  /\ UNCHANGED <<store, args, asked, expired, markers, scan, crashes,
                 approved, ran>>

\* requeue: the write error of AddPending is ignored.
ConfirmRequeue(a) ==
  /\ pc[a] = "taken"
  /\ attempt[a].req \notin expired
  /\ Rejected(a)
  /\ \E outcome \in Outcomes : AddPending(attempt[a].req, outcome)
  /\ Return(a)
  /\ UNCHANGED <<args, asked, expired, markers, scan, crashes, history>>

ConfirmApprove(a) ==
  /\ pc[a] = "taken"
  /\ attempt[a].req \notin expired
  /\ ~Rejected(a)
  /\ Become(a, "confirmed", attempt[a])
  /\ approved' = [approved EXCEPT ![attempt[a].req] = @ + 1]
  /\ UNCHANGED <<store, args, asked, expired, markers, scan, crashes,
                 ran, refused>>

\* dispatch: take the arguments out of the table, then submit the job.
\* Without arguments the dispatch fails (errArgsLost); the runner may also
\* refuse the job (closed, draining, queue full).
Dispatch(a) ==
  /\ pc[a] = IF a = Watcher THEN "unmarked" ELSE "confirmed"
  /\ LET r == attempt[a].req IN
       /\ args' = args \ {r}
       /\ \/ r \in args /\ ran' = [ran EXCEPT ![r] = @ + 1]
          \/ UNCHANGED ran
  /\ Return(a)
  /\ UNCHANGED <<store, asked, expired, markers, scan, crashes,
                 approved, refused>>

-----------------------------------------------------------------------------
(***************************************************************************)
(* The operator and the watcher.  fbmcp ctl approve and the tray list the  *)
(* pending actions of state.json and write one marker file per decision.   *)
(* Every two seconds the watcher lists the approvals, handles them one by  *)
(* one, then does the same for the denials.                                *)
(***************************************************************************)
OperatorApproves(r) ==
  /\ r \in disk
  /\ r \notin approvals
  /\ approvals' = approvals \cup {r}
  /\ UNCHANGED <<store, args, asked, expired, denials, handlers, scan, crashes, history>>

OperatorDenies(r) ==
  /\ r \in disk
  /\ r \notin denials
  /\ denials' = denials \cup {r}
  /\ UNCHANGED <<store, args, asked, expired, approvals, handlers, scan, crashes, history>>

\* The watcher moves to the next directory when it is done with one.
ScanNext ==
  /\ pc[Watcher] = "idle"
  /\ scan.todo = {}
  /\ scan' = CASE scan.dir = "none"      -> [dir |-> "approvals", todo |-> approvals]
               [] scan.dir = "approvals" -> [dir |-> "denials", todo |-> denials]
               [] scan.dir = "denials"   -> NoScan
  /\ UNCHANGED <<store, args, asked, expired, markers, handlers, crashes, history>>

\* Mutant: the marker of an unknown id is left in place.
ApprovalLookupSkips(r) ==
  /\ scan.dir = "approvals"
  /\ r \in scan.todo
  /\ pc[Watcher] = "idle"
  /\ scan' = [scan EXCEPT !.todo = @ \ {r}]
  /\ IF r \in pending
       THEN Become(Watcher, "looked", [req |-> r, as |-> Owner[r], token |-> "bad"])
       ELSE UNCHANGED handlers
  /\ UNCHANGED <<store, args, asked, expired, markers, crashes, history>>

\* The head of the loop of consumeApprovalMarkers: whom is the id from?
ApprovalLookup(r) ==
  /\ scan.dir = "approvals"
  /\ r \in scan.todo
  /\ pc[Watcher] = "idle"
  /\ scan' = [scan EXCEPT !.todo = @ \ {r}]
  /\ \/ /\ r \in pending
        /\ Become(Watcher, "looked", [req |-> r, as |-> Owner[r], token |-> "bad"])
        /\ UNCHANGED approvals
     \/ /\ r \notin pending
        /\ approvals' = approvals \ {r}
        /\ UNCHANGED handlers
  /\ UNCHANGED <<store, args, asked, expired, denials, crashes, history>>

\* ... then Confirm on the owner's behalf, through the out-of-band channel.
ApprovalConfirm ==
  /\ pc[Watcher] = "looked"
  /\ ConfirmTake(Watcher, attempt[Watcher])
  /\ UNCHANGED <<args, asked, expired, markers, scan, crashes, history>>

\* The marker of a confirmed action goes before its dispatch.
ApprovalUnmark ==
  /\ pc[Watcher] = "confirmed"
  /\ Become(Watcher, "unmarked", attempt[Watcher])
  /\ approvals' = approvals \ {attempt[Watcher].req}
  /\ UNCHANGED <<store, args, asked, expired, denials, scan, crashes, history>>

\* consumeDenialMarkers: the marker goes whether or not the id is pending, and
\* with it the arguments.  The take decides: between it and the rest nothing but
\* the watcher looks at the marker, and nobody at the arguments of a taken id.
Denial(r) ==
  /\ scan.dir = "denials"
  /\ r \in scan.todo
  /\ scan' = [scan EXCEPT !.todo = @ \ {r}]
  /\ denials' = denials \ {r}
  /\ \/ /\ \E outcome \in Outcomes : TakePending(r, outcome)
        /\ args' = args \ {r}
        /\ refused' = refused \cup {r}
     \/ /\ r \notin pending
        /\ UNCHANGED <<store, args, refused>>
  /\ UNCHANGED <<asked, expired, approvals, handlers, crashes, approved, ran>>

-----------------------------------------------------------------------------
(***************************************************************************)
(* The other ways out, and the environment.                                *)
(***************************************************************************)

\* Mutant: the cancellation is reported and the action left in the queue.
FbCancelReports(r) ==
  /\ r \in pending
  /\ refused' = refused \cup {r}
  /\ UNCHANGED <<store, args, asked, expired, markers, handlers, scan, crashes,
                 approved, ran>>

\* fb_cancel on a pending action: no check of the caller, and the write error
\* is ignored.
FbCancel(r) ==
  /\ \E outcome \in Outcomes : TakePending(r, outcome)
  /\ refused' = refused \cup {r}
  /\ UNCHANGED <<args, asked, expired, markers, handlers, scan, crashes,
                 approved, ran>>

\* Mutant: the sweep has the comparison of the times the wrong way round.
SweepFresh(r) ==
  /\ r \notin expired
  /\ \E outcome \in Outcomes : TakePending(r, outcome)
  /\ refused' = refused \cup {r}
  /\ UNCHANGED <<args, asked, expired, markers, handlers, scan, crashes,
                 approved, ran>>

SweepExpired(r) ==
  /\ r \in expired
  /\ \E outcome \in Outcomes : TakePending(r, outcome)
  /\ refused' = refused \cup {r}
  /\ UNCHANGED <<args, asked, expired, markers, handlers, scan, crashes,
                 approved, ran>>

\* The time-to-live of a request runs out.
TimePasses(r) ==
  /\ asked[r] # "no"
  /\ r \notin expired
  /\ expired' = expired \cup {r}
  /\ UNCHANGED <<store, args, asked, markers, handlers, scan, crashes, history>>

\* Mutant: the arguments survive the restart.
RestartWithArgs ==
  /\ crashes < MaxCrashes
  /\ crashes' = crashes + 1
  /\ pending' = disk
  /\ asked' = [r \in Requests |-> IF asked[r] = "replied" THEN "orphaned" ELSE asked[r]]
  /\ pc' = [a \in Actors |-> "idle"]
  /\ attempt' = [a \in Actors |-> NoAttempt]
  /\ scan' = NoScan
  /\ UNCHANGED <<args, disk, faults, expired, markers, history>>

\* The process is killed and started again: memory is what state.json holds,
\* the argument table is empty, every goroutine is gone.
Restart ==
  /\ crashes < MaxCrashes
  /\ crashes' = crashes + 1
  /\ pending' = disk
  /\ args' = {}
  /\ asked' = [r \in Requests |-> CASE asked[r] = "added"   -> "failed"
                                  [] asked[r] = "replied" -> "orphaned"
                                  [] OTHER                -> asked[r]]
  /\ pc' = [a \in Actors |-> "idle"]
  /\ attempt' = [a \in Actors |-> NoAttempt]
  /\ scan' = NoScan
  /\ UNCHANGED <<disk, faults, expired, markers, history>>

-----------------------------------------------------------------------------
Confirming(a) == ConfirmExpired(a) \/ ConfirmRequeue(a) \/ ConfirmApprove(a) \/ Dispatch(a)

Watching ==
  \/ ScanNext
  \/ \E r \in Requests : ApprovalLookup(r) \/ Denial(r)
  \/ ApprovalConfirm
  \/ ApprovalUnmark

Next ==
  \/ \E r \in Requests :
       \/ Request(r) \/ StoreArgs(r)
       \/ OperatorApproves(r) \/ OperatorDenies(r)
       \/ FbCancel(r) \/ SweepExpired(r) \/ TimePasses(r)
  \/ \E a \in Callers, try \in Attempts : FbConfirm(a, try)
  \/ \E a \in Actors : Confirming(a)
  \/ Watching
  \/ Restart

Spec == Init /\ [][Next]_vars

(***************************************************************************)
(* A started goroutine keeps running, the watcher and the sweeper poll in  *)
(* endless loops and time passes.  Nothing obliges clients or the operator *)
(* to act, and nothing obliges the process to be killed.                   *)
(***************************************************************************)
Fairness ==
  /\ \A a \in Actors : WF_vars(Confirming(a))
  /\ WF_vars(Watching)
  /\ \A r \in Requests :
       /\ WF_vars(StoreArgs(r))
       /\ WF_vars(TimePasses(r))
       /\ WF_vars(SweepExpired(r))

FairSpec == Spec /\ Fairness

-----------------------------------------------------------------------------
(***************************************************************************)
(* Properties.                                                             *)
(***************************************************************************)

\* The action that goroutine a holds between TakePending and its verdict.
Holds(a, r) == pc[a] = "taken" /\ attempt[a].req = r

\* The goroutine that must submit r: Confirm has let r through.
Carries(a, r) == pc[a] \in {"confirmed", "unmarked"} /\ attempt[a].req = r

\* A confirmation is single-use ("atomically removes and returns a pending
\* action (single-use)"): however many goroutines confirm, cancel, deny and
\* sweep an id at once, and whatever a kill or a failing write of state.json
\* leaves behind, Confirm lets it through at most once and no action is ever
\* both in the store and in a goroutine's hands, or in two goroutines' hands.
SingleUse ==
  \A r \in Requests :
    /\ approved[r] <= 1
    /\ ran[r] <= approved[r]
    /\ \A a \in Actors : Holds(a, r) => r \notin pending /\ approved[r] = 0
    /\ \A a, b \in Actors : Holds(a, r) /\ Holds(b, r) => a = b

\* A refusal is final: an action reported as denied, cancelled or expired is
\* never run afterwards, even when the write that removed it was lost and a
\* restart brings it back, and even when the operator then approves it.
RefusedNeverRuns == \A r \in refused : ran[r] = 0

\* An action only ever runs in the life of the process that took the request,
\* with the arguments that came with it ("running with empty args would apply
\* defaults the requester never asked for"): state.json brings the pending
\* action over a restart, and nothing brings its arguments.
RunsWithItsArgs ==
  [][\A r \in Requests : ran'[r] # ran[r] => asked[r] = "replied"]_vars

\* Safety fuse 7: an action of tier 2 or more, or of an identity restricted
\* to out-of-band confirmation, is carried to dispatch only by the watcher.
FuseSeven ==
  \A r \in Requests, a \in Callers :
    Carries(a, r) => Tier[r] < 2 /\ ~OobOnly[r] /\ attempt[a].token = "issued"

\* Every pending action leaves the queue: clients that keep confirming with
\* bad tokens put it back again and again, but once its time is over any
\* attempt or the sweep removes it.
PendingResolved == \A r \in Requests : r \in pending ~> r \notin pending

\* No marker file is retried for ever: a marker whose confirmation failed is
\* kept for the next pass, and some pass removes it.
ApprovalsDrain == \A r \in Requests : r \in approvals ~> r \notin approvals

\* The gate implements the abstract specification of consent.  A request that
\* a lost write brings back after its refusal counts as refused: it may be
\* approved again, and still never runs.
FateOf(r) ==
  IF asked[r] = "no" THEN "none"
  ELSE IF ran[r] > 0 THEN "run"
  ELSE IF r \in refused THEN "refused"
  ELSE IF approved[r] > 0 THEN "approved"
  ELSE "open"

Fate == [r \in Requests |-> FateOf(r)]

C == INSTANCE Consent WITH fate <- Fate

\* Every step of the gate, of the watcher and of a restart moves at most one
\* request, and only along the edges of Consent.
ImplementsConsent == C!Spec

-----------------------------------------------------------------------------
(***************************************************************************)
(* The inductive invariant behind these properties.                        *)
(***************************************************************************)

\* An id not handed out yet is nowhere.
Unasked(r) ==
  asked[r] = "no" =>
    /\ r \notin pending /\ r \notin disk /\ r \notin args /\ r \notin refused
    /\ approved[r] = 0
    /\ \A a \in Actors : pc[a] # "idle" => attempt[a].req # r

\* A taken action is out of the file too: only a successful write lets
\* Confirm go on.  So a kill in its hands cannot bring the action back.
HeldAlone(r) ==
  /\ \A a \in Actors : Holds(a, r) => r \notin pending \cup disk /\ approved[r] = 0
  /\ \A a, b \in Actors : Holds(a, r) /\ Holds(b, r) => a = b

\* An action that was let through never comes back, in memory or on disk.
ApprovedGone(r) ==
  /\ approved[r] <= 1
  /\ ran[r] <= approved[r]
  /\ approved[r] = 1 => r \notin pending \cup disk
  /\ \A a \in Actors : Carries(a, r) => approved[r] = 1 /\ ran[r] = 0
  /\ \A a, b \in Actors : Carries(a, r) /\ Carries(b, r) => a = b

\* A refused action is out of everyone's hands, or (after a restart) without
\* arguments for good.
RefusedDead(r) ==
  r \in refused =>
    /\ ran[r] = 0
    /\ \/ r \notin args /\ asked[r] # "added"
       \/ r \notin pending /\ \A a \in Actors : ~Holds(a, r) /\ ~Carries(a, r)

\* Which goroutine can be where; what Confirm found out still holds.
Places ==
  /\ \A a \in Callers : pc[a] \in {"idle", "taken", "confirmed"}
  /\ \A a \in Actors : pc[a] \in {"confirmed", "unmarked"} => ~Rejected(a)

GateInv ==
  /\ TypeOK
  /\ Places
  /\ \A r \in args : asked[r] = "replied"
  /\ \A r \in Requests : Unasked(r) /\ HeldAlone(r) /\ ApprovedGone(r) /\ RefusedDead(r)

-----------------------------------------------------------------------------
(***************************************************************************)
(* What comments, messages and documents of the repository say and the     *)
(* code does not do: TLC finds a counterexample to each of these (README,  *)
(* section 6).                                                             *)
(***************************************************************************)

\* "an operator's Deny takes effect immediately instead of waiting out the
\* 15-minute TTL": when the watcher consumes a denial marker, the action is
\* refused, unless it had been let through or refused before.
DenyTakesEffect ==
  [][\A r \in denials \ denials' : r \in refused' \/ approved[r] > 0]_vars

\* "action stays available (not consumed) - a wrong-channel or wrong-identity
\* attempt must not destroy the pending confirmation": an action asked for and
\* stored, and neither let through nor refused, is pending or in the hands of
\* a goroutine that is still judging it.
AttemptKeepsPending ==
  \A r \in Requests :
    asked[r] \in {"replied", "orphaned"} /\ approved[r] = 0 /\ r \notin refused =>
      r \in pending \/ \E a \in Actors : Holds(a, r)

\* "the arguments of this request were lost because the fbmcp server restarted
\* after the request": without a restart, a goroutine that has got the
\* confirmation of an action finds the arguments of that action.
ArgsLostOnlyByRestart ==
  \A r \in Requests, a \in Actors : Carries(a, r) /\ crashes = 0 => r \in args
=============================================================================
