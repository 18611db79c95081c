----------------------------- MODULE GateProofs -----------------------------
(***************************************************************************)
(* Machine-checked proofs about Gate, for every set of requests, callers   *)
(* and identities and every number of kills and failing writes; and, in    *)
(* the second part, about Reload, which drops the gate's actions and drains *)
(* their jobs when the configuration changes, for every set of databases,  *)
(* paths, servers, directories, actions and files.  The two specifications *)
(* share no variable and are not composed.                                 *)
(***************************************************************************)
EXTENDS Gate, Reload, FiniteSetTheorems, TLAPS

\* Every store operation leaves the file equal to the old file or to the new
\* memory image, whatever the outcome of the write.
LEMMA PersistFile ==
  ASSUME NEW outcome \in Outcomes, TypeOK, Persist(outcome), pending' \in SUBSET Requests
  PROVE  /\ faults' \in 0..MaxFaults
         /\ disk' \in {disk, pending'}
         /\ outcome = "ok" => disk' = pending'
BY GateAssumption DEF TypeOK, Persist, Outcomes

\* The take at the head of Confirm, in the terms the invariant speaks of.
LEMMA TakeEffect ==
  ASSUME TypeOK, NEW a \in Actors, NEW try \in Attempts, ConfirmTake(a, try)
  PROVE  /\ pending' \in SUBSET pending
         /\ disk' \in {disk, pending'}
         /\ faults' \in 0..MaxFaults
         /\ \/ /\ pc' = [pc EXCEPT ![a] = "idle"]
               /\ attempt' = [attempt EXCEPT ![a] = NoAttempt]
            \/ /\ pc' = [pc EXCEPT ![a] = "taken"]
               /\ attempt' = [attempt EXCEPT ![a] = try]
               /\ try.req \in pending
               /\ pending' = pending \ {try.req}
               /\ disk' = pending'
<1>1. CASE try.req \notin pending /\ Return(a) /\ UNCHANGED store
  BY <1>1 DEF Return, Become, store, TypeOK
<1>2. CASE TakePending(try.req, "ok") /\ Become(a, "taken", try)
  BY <1>2, PersistFile DEF TakePending, Become, TypeOK, Outcomes
<1>3. CASE \E outcome \in Outcomes \ {"ok"} : TakePending(try.req, outcome) /\ Return(a)
  BY <1>3, PersistFile DEF TakePending, Return, Become, TypeOK
<1> QED
  BY <1>1, <1>2, <1>3 DEF ConfirmTake

-----------------------------------------------------------------------------
LEMMA GateInvInit == Init => GateInv
<1> SUFFICES ASSUME Init PROVE GateInv
  OBVIOUS
<1>1. TypeOK
  BY GateAssumption DEF Init, TypeOK, AskStates, PCs, Attempts, Tokens, Scans, NoScan
<1> QED
  BY <1>1 DEF Init, GateInv, Places, Unasked, HeldAlone, ApprovedGone, RefusedDead,
              Holds, Carries, Actors

LEMMA GateInvStep == GateInv /\ [Next]_vars => GateInv'
<1> SUFFICES ASSUME GateInv, [Next]_vars PROVE GateInv'
  OBVIOUS
<1> USE GateAssumption DEF GateInv
<1>1. ASSUME NEW r \in Requests, Request(r) PROVE GateInv'
  <2>1. PICK outcome \in Outcomes :
          /\ AddPending(r, outcome)
          /\ asked' = [asked EXCEPT ![r] = IF outcome = "ok" THEN "added" ELSE "failed"]
    BY <1>1 DEF Request
  <2>2. pending' = pending \cup {r} /\ disk' \in {disk, pending'} /\ faults' \in 0..MaxFaults
    BY <2>1, PersistFile DEF AddPending, TypeOK
  <2>3. TypeOK'
    BY <1>1, <2>1, <2>2 DEF Request, TypeOK, AskStates, markers, handlers, history
  <2> QED
    BY <1>1, <2>1, <2>2, <2>3
    DEF Request, TypeOK, Places, Rejected, Unasked, HeldAlone, ApprovedGone, RefusedDead,
        Holds, Carries, markers, handlers, history
<1>2. ASSUME NEW r \in Requests, StoreArgs(r) PROVE GateInv'
  BY <1>2 DEF StoreArgs, TypeOK, AskStates, Places, Rejected, Unasked, HeldAlone,
     ApprovedGone, RefusedDead, Holds, Carries, store, markers, handlers, history
<1>3. ASSUME NEW r \in Requests, OperatorApproves(r) \/ OperatorDenies(r) \/ TimePasses(r)
      PROVE  GateInv'
  BY <1>3 DEF OperatorApproves, OperatorDenies, TimePasses, TypeOK, Places, Rejected, Unasked,
              HeldAlone, ApprovedGone, RefusedDead, Holds, Carries, store, markers,
              handlers, history
<1>4. ASSUME NEW a \in Actors, NEW try \in Attempts, ConfirmTake(a, try),
             pc[a] \in {"idle", "looked"}, asked[try.req] # "no", a = Watcher \/ a \in Callers,
             UNCHANGED <<args, asked, expired, markers, scan, crashes, history>>
      PROVE  GateInv'
  <2>1. /\ pending' \in SUBSET pending
        /\ disk' \in {disk, pending'}
        /\ faults' \in 0..MaxFaults
        /\ \/ /\ pc' = [pc EXCEPT ![a] = "idle"]
              /\ attempt' = [attempt EXCEPT ![a] = NoAttempt]
           \/ /\ pc' = [pc EXCEPT ![a] = "taken"]
              /\ attempt' = [attempt EXCEPT ![a] = try]
              /\ try.req \in pending
              /\ pending' = pending \ {try.req}
              /\ disk' = pending'
    BY <1>4, TakeEffect
  <2>2. TypeOK'
    BY <1>4, <2>1 DEF TypeOK, PCs, markers, history, Attempts, Tokens
  <2>3. Places'
    BY <1>4, <2>1 DEF TypeOK, Places, Rejected, Channel, Actors, PCs
  <2>4. UNCHANGED <<args, asked, approved, ran, refused>>
    BY <1>4 DEF history
  <2>5. ASSUME NEW q \in Requests
        PROVE  Unasked(q)' /\ HeldAlone(q)' /\ ApprovedGone(q)' /\ RefusedDead(q)'
    <3>1. CASE pc' = [pc EXCEPT ![a] = "idle"] /\ attempt' = [attempt EXCEPT ![a] = NoAttempt]
      BY <1>4, <2>1, <2>4, <3>1
      DEF TypeOK, Unasked, HeldAlone, ApprovedGone, RefusedDead, Holds, Carries
    <3>2. CASE /\ pc' = [pc EXCEPT ![a] = "taken"]
               /\ attempt' = [attempt EXCEPT ![a] = try]
               /\ try.req \in pending
               /\ pending' = pending \ {try.req}
               /\ disk' = pending'
      <4>1. Unasked(q)'
        BY <1>4, <2>4, <3>2 DEF TypeOK, Unasked
      <4>2. HeldAlone(q)'
        <5>1. ASSUME NEW b \in Actors, b # a PROVE Holds(b, q)' <=> Holds(b, q)
          BY <3>2, <5>1 DEF TypeOK, Holds
        <5>2. Holds(a, q)' <=> q = try.req
          BY <3>2 DEF TypeOK, Holds
        <5>3. CASE q = try.req
          <6>1. \A b \in Actors : ~Holds(b, q)
            BY <3>2, <5>3 DEF HeldAlone
          <6>2. approved[q] = 0
            <7>1. ApprovedGone(q) /\ approved[q] \in Nat
              BY DEF TypeOK
            <7> QED
              BY <3>2, <5>3, <7>1 DEF ApprovedGone
          <6> QED
            BY <2>4, <3>2, <5>1, <5>2, <5>3, <6>1, <6>2 DEF HeldAlone
        <5>4. CASE q # try.req
          BY <2>4, <3>2, <5>1, <5>2, <5>4 DEF HeldAlone
        <5> QED
          BY <5>3, <5>4
      <4>3. ApprovedGone(q)' /\ RefusedDead(q)'
        BY <1>4, <2>4, <3>2 DEF TypeOK, ApprovedGone, RefusedDead, Holds, Carries
      <4> QED
        BY <4>1, <4>2, <4>3
    <3> QED
      BY <2>1, <3>1, <3>2
  <2> QED
    BY <2>2, <2>3, <2>4, <2>5
<1>5. ASSUME NEW a \in Callers, NEW try \in Attempts, FbConfirm(a, try) PROVE GateInv'
  BY <1>4, <1>5 DEF FbConfirm, Actors
<1>6. CASE ApprovalConfirm
  <2>1. attempt[Watcher] \in Attempts /\ asked[attempt[Watcher].req] # "no"
    BY <1>6 DEF ApprovalConfirm, TypeOK, Actors, Attempts, Unasked
  <2> QED
    BY <1>4, <1>6, <2>1 DEF ApprovalConfirm, Actors
<1>7. ASSUME NEW a \in Actors, pc[a] # "idle"
      PROVE  attempt[a] \in Attempts /\ attempt[a].req \in Requests
  BY <1>7 DEF TypeOK, Attempts
<1>8. ASSUME NEW a \in Actors, ConfirmExpired(a) PROVE GateInv'
  BY <1>7, <1>8 DEF ConfirmExpired, Return, Become, TypeOK, PCs, Places, Rejected, Channel,
              Unasked, HeldAlone, ApprovedGone, RefusedDead, Holds, Carries,
              store, markers
<1>9. ASSUME NEW a \in Actors, ConfirmRequeue(a) PROVE GateInv'
  <2>1. PICK outcome \in Outcomes : AddPending(attempt[a].req, outcome)
    BY <1>9 DEF ConfirmRequeue
  <2>2. attempt[a].req \in Requests
    BY <1>7, <1>9 DEF ConfirmRequeue
  <2>3. /\ pending' = pending \cup {attempt[a].req}
        /\ disk' \in {disk, pending'}
        /\ faults' \in 0..MaxFaults
    BY <2>1, <2>2, PersistFile DEF AddPending, TypeOK
  <2> QED
    BY <1>9, <2>2, <2>3
    DEF ConfirmRequeue, Return, Become, TypeOK, PCs, Places, Rejected, Channel,
        Unasked, HeldAlone, ApprovedGone, RefusedDead, Holds, Carries, markers, history
<1>10. ASSUME NEW a \in Actors, ConfirmApprove(a) PROVE GateInv'
  <2>1. PICK r \in Requests : r = attempt[a].req
    BY <1>7, <1>10 DEF ConfirmApprove
  <2>2. /\ UNCHANGED <<pending, disk, faults, args, asked, expired, approvals, denials, scan,
                       crashes, ran, refused, attempt>>
        /\ pc[a] = "taken" /\ ~Rejected(a)
    BY <1>10 DEF ConfirmApprove, Become, store, markers, TypeOK
  <2>3. /\ pc' \in [Actors -> PCs] /\ pc'[a] = "confirmed"
        /\ \A b \in Actors : b # a => pc'[b] = pc[b]
    BY <1>10 DEF ConfirmApprove, Become, TypeOK, PCs
  <2>4. approved[r] = 0
    BY <2>1, <2>2 DEF HeldAlone, Holds
  <2>5. /\ approved' \in [Requests -> Nat] /\ approved'[r] = 1
        /\ \A q \in Requests : q # r => approved'[q] = approved[q]
    BY <1>10, <2>1, <2>4 DEF ConfirmApprove, TypeOK
  <2>6. TypeOK'
    BY <2>2, <2>3, <2>5 DEF TypeOK
  <2>7. Places'
    <3>1. \A b \in Actors : Rejected(b)' <=> Rejected(b)
      BY <2>2 DEF Rejected
    <3>2. \A b \in Callers : b \in Actors
      BY DEF Actors
    <3> QED
      BY <2>2, <2>3, <3>1, <3>2 DEF Places
  <2>8. /\ \A b \in Actors, q \in Requests : b # a => (Holds(b, q)' <=> Holds(b, q))
        /\ \A b \in Actors, q \in Requests : b # a => (Carries(b, q)' <=> Carries(b, q))
        /\ \A q \in Requests : ~Holds(a, q)' /\ (Carries(a, q)' <=> q = r)
        /\ Holds(a, r)
    BY <2>1, <2>2, <2>3 DEF Holds, Carries
  <2>9. ASSUME NEW q \in Requests PROVE Unasked(q)' /\ HeldAlone(q)' /\ RefusedDead(q)'
    <3>1. Unasked(q)'
      BY <2>1, <2>2, <2>3, <2>5 DEF Unasked
    <3>2. HeldAlone(q)'
      BY <2>2, <2>5, <2>8 DEF HeldAlone
    <3>3. RefusedDead(q)'
      BY <2>2, <2>8 DEF RefusedDead
    <3> QED
      BY <3>1, <3>2, <3>3
  <2>10. ASSUME NEW q \in Requests PROVE ApprovedGone(q)'
    <3>1. CASE q = r
      <4>1. r \notin pending \cup disk
        BY <2>8 DEF HeldAlone
      <4>2. ran[r] = 0 /\ \A b \in Actors : ~Carries(b, r)
        BY <2>1, <2>4 DEF ApprovedGone, TypeOK
      <4> QED
        BY <2>2, <2>5, <2>8, <3>1, <4>1, <4>2 DEF ApprovedGone
    <3>2. CASE q # r
      BY <2>2, <2>5, <2>8, <3>2 DEF ApprovedGone
    <3> QED
      BY <3>1, <3>2
  <2> QED
    BY <2>2, <2>6, <2>7, <2>9, <2>10
<1>11. ASSUME NEW a \in Actors, Dispatch(a) PROVE GateInv'
  BY <1>7, <1>11 DEF Dispatch, Return, Become, TypeOK, PCs, Places, Rejected, Channel,
              Unasked, HeldAlone, ApprovedGone, RefusedDead, Holds, Carries,
              store, markers
<1>12. CASE ScanNext
  BY <1>12 DEF ScanNext, TypeOK, Scans, NoScan, Places, Rejected, Unasked, HeldAlone,
               ApprovedGone, RefusedDead, Holds, Carries, store, markers, handlers, history
<1>13. ASSUME NEW r \in Requests, ApprovalLookup(r) PROVE GateInv'
  <2>1. scan' \in Scans
    <3>1. scan.todo \ {r} \in SUBSET Requests
      BY DEF TypeOK, Scans
    <3> QED
      BY <1>13, <3>1 DEF ApprovalLookup, TypeOK, Scans
  <2>2. CASE r \notin pending
    BY <1>13, <2>1, <2>2
    DEF ApprovalLookup, TypeOK, Places, Rejected, Unasked, HeldAlone, ApprovedGone,
        RefusedDead, Holds, Carries, store, handlers, history
  <2>3. CASE r \in pending
    <3>1. /\ pc' = [pc EXCEPT ![Watcher] = "looked"]
          /\ attempt' = [attempt EXCEPT ![Watcher] =
                           [req |-> r, as |-> Owner[r], token |-> "bad"]]
          /\ UNCHANGED <<store, args, asked, expired, markers, crashes, history>>
      BY <1>13, <2>3 DEF ApprovalLookup, Become, markers
    <3>2. TypeOK'
      BY <1>13, <2>1, <3>1 DEF TypeOK, PCs, Attempts, Tokens, Actors, store, markers, history
    <3> QED
      BY <1>13, <2>3, <3>1, <3>2
      DEF ApprovalLookup, TypeOK, Actors, Places, Rejected, Unasked, HeldAlone, ApprovedGone,
          RefusedDead, Holds, Carries, store, markers, history
  <2> QED
    BY <2>2, <2>3
<1>14. CASE ApprovalUnmark
  BY <1>7, <1>14 DEF ApprovalUnmark, Become, TypeOK, PCs, Actors, Places, Rejected, Channel,
               Unasked, HeldAlone, ApprovedGone, RefusedDead, Holds, Carries, store, history
<1>15. ASSUME NEW r \in Requests, NEW outcome \in Outcomes, TakePending(r, outcome)
       PROVE  /\ r \in pending
              /\ pending' = pending \ {r}
              /\ disk' \in {disk, pending'}
              /\ faults' \in 0..MaxFaults
  BY <1>15, PersistFile DEF TakePending, TypeOK
<1>16. ASSUME NEW r \in Requests, Denial(r) PROVE GateInv'
  <2>1. CASE r \notin pending /\ UNCHANGED <<store, args, refused>>
    BY <1>16, <2>1 DEF Denial, TypeOK, Scans, Places, Rejected, Unasked, HeldAlone,
       ApprovedGone, RefusedDead, Holds, Carries, store, handlers
  <2>2. CASE /\ \E outcome \in Outcomes : TakePending(r, outcome)
             /\ args' = args \ {r}
             /\ refused' = refused \cup {r}
    BY <1>15, <1>16, <2>2 DEF Denial, TypeOK, Scans, Places, Rejected, Unasked, HeldAlone,
               ApprovedGone, RefusedDead, Holds, Carries, handlers
  <2> QED
    BY <1>16, <2>1, <2>2 DEF Denial
<1>17. ASSUME NEW r \in Requests, FbCancel(r) \/ SweepExpired(r) PROVE GateInv'
  <2>1. /\ \E outcome \in Outcomes : TakePending(r, outcome)
        /\ refused' = refused \cup {r}
        /\ UNCHANGED <<args, asked, expired, approvals, denials, pc, attempt, scan, crashes,
                       approved, ran>>
    BY <1>17 DEF FbCancel, SweepExpired, markers, handlers
  <2>2. /\ r \in pending
        /\ pending' = pending \ {r}
        /\ disk' \in {disk, pending'}
        /\ faults' \in 0..MaxFaults
    BY <1>15, <2>1
  <2>3. TypeOK' /\ Places'
    BY <2>1, <2>2 DEF TypeOK, Places, Rejected
  <2>4. ASSUME NEW q \in Requests
        PROVE  Unasked(q)' /\ HeldAlone(q)' /\ ApprovedGone(q)' /\ RefusedDead(q)'
    BY <2>1, <2>2 DEF TypeOK, Unasked, HeldAlone, ApprovedGone, RefusedDead, Holds, Carries
  <2> QED
    BY <2>1, <2>3, <2>4
<1>18. CASE Restart
  BY <1>18 DEF Restart, TypeOK, AskStates, PCs, Scans, NoScan, Places, Rejected, Unasked,
               HeldAlone, ApprovedGone, RefusedDead, Holds, Carries, Actors, markers, history
<1>19. CASE UNCHANGED vars
  BY <1>19 DEF vars, TypeOK, Places, Rejected, Unasked, HeldAlone, ApprovedGone, RefusedDead,
               Holds, Carries, store, markers, handlers, history
<1> QED
  BY <1>1, <1>2, <1>3, <1>5, <1>6, <1>8, <1>9, <1>10, <1>11, <1>12, <1>13, <1>14, <1>16,
     <1>17, <1>18, <1>19
  DEF Next, Confirming, Watching
-----------------------------------------------------------------------------
(***************************************************************************)
(* The theorems.                                                           *)
(***************************************************************************)

\* The inductive invariant of the gate, the store, the watcher and restarts.
THEOREM GateInvariant == Spec => []GateInv
<1> QED
  BY GateInvInit, GateInvStep, PTL DEF Spec

\* Every variable keeps its type, and a goroutine outside Confirm holds nothing.
THEOREM GateTypes == Spec => []TypeOK
<1>1. GateInv => TypeOK
  BY DEF GateInv
<1> QED
  BY <1>1, GateInvariant, PTL

\* TakePending is single-use: Confirm lets a request through at most once and
\* a pending action is never in two hands, for any number of goroutines.
THEOREM GateSingleUse == Spec => []SingleUse
<1>1. GateInv => SingleUse
  BY DEF GateInv, SingleUse, HeldAlone, ApprovedGone
<1> QED
  BY <1>1, GateInvariant, PTL

\* What fb_cancel, a denial marker or the sweep reported as refused never runs,
\* whatever writes of state.json were lost and however often fbmcp restarts.
THEOREM GateRefusedNeverRuns == Spec => []RefusedNeverRuns
<1>1. GateInv => RefusedNeverRuns
  BY DEF GateInv, TypeOK, RefusedNeverRuns, RefusedDead
<1> QED
  BY <1>1, GateInvariant, PTL

\* Safety fuse 7 of gate.Confirm: no in-band call ever carries an action of
\* tier 2 or of an out-of-band-only identity to dispatch.
THEOREM GateFuseSeven == Spec => []FuseSeven
<1>1. GateInv => FuseSeven
  BY GateAssumption DEF GateInv, TypeOK, FuseSeven, Places, Carries, Rejected, Channel, Actors
<1> QED
  BY <1>1, GateInvariant, PTL

\* dispatch runs a request only in the life of the process that took it.
THEOREM GateRunsWithItsArgs == Spec => RunsWithItsArgs
<1>1. GateInv /\ [Next]_vars =>
        [\A r \in Requests : ran'[r] # ran[r] => asked[r] = "replied"]_vars
  <2> SUFFICES ASSUME GateInv, Next, NEW r \in Requests, ran'[r] # ran[r]
               PROVE  asked[r] = "replied"
    OBVIOUS
  <2>1. PICK a \in Actors : Dispatch(a)
    BY DEF Next, Request, StoreArgs, OperatorApproves, OperatorDenies, FbCancel, SweepExpired,
           TimePasses, FbConfirm, Confirming, ConfirmExpired, ConfirmRequeue, ConfirmApprove,
           Watching, ScanNext, ApprovalLookup, Denial, ApprovalConfirm, ApprovalUnmark,
           Restart, history
  <2>2. r \in args
    BY <2>1 DEF Dispatch, GateInv, TypeOK
  <2> QED
    BY <2>2 DEF GateInv
<1> QED
  BY <1>1, GateInvariant, PTL DEF RunsWithItsArgs, Spec
-----------------------------------------------------------------------------
(***************************************************************************)
(* The refinement.                                                         *)
(***************************************************************************)

\* A step that changes neither asked (but for its progress past the first
\* answer) nor the histories leaves every fate alone.
LEMMA FateStutters ==
  ASSUME TypeOK, UNCHANGED history,
         asked' \in [Requests -> AskStates],
         \A r \in Requests : asked[r] = "no" <=> asked'[r] = "no"
  PROVE  UNCHANGED Fate
BY DEF Fate, FateOf, history, TypeOK

\* A step that changes the fate of r alone is the move of r.
LEMMA FateMoves ==
  ASSUME NEW r \in Requests, NEW from, NEW to,
         FateOf(r) = from, FateOf(r)' = to,
         \A q \in Requests \ {r} : FateOf(q)' = FateOf(q)
  PROVE  C!Move(r, from, to)
<1>1. Fate[r] = from
  BY DEF Fate
<1>2. Fate' = [Fate EXCEPT ![r] = to]
  BY DEF Fate
<1> QED
  BY <1>1, <1>2 DEF C!Move

LEMMA FateStep == GateInv /\ GateInv' /\ [Next]_vars => [C!Next]_Fate
<1> SUFFICES ASSUME GateInv, GateInv', [Next]_vars PROVE [C!Next]_Fate
  OBVIOUS
<1> USE DEF GateInv
<1>1. ASSUME NEW r \in Requests, Request(r) PROVE C!Next
  <2>1. FateOf(r) = "none"
    BY <1>1 DEF Request, FateOf
  <2>2. FateOf(r)' = "open"
    BY <1>1 DEF Request, FateOf, TypeOK, Unasked, ApprovedGone, history
  <2>3. \A q \in Requests \ {r} : FateOf(q)' = FateOf(q)
    BY <1>1 DEF Request, FateOf, TypeOK, history
  <2> QED
    BY <2>1, <2>2, <2>3, FateMoves DEF C!Next
<1>2. ASSUME NEW r \in Requests, refused' = refused \cup {r}, UNCHANGED <<asked, approved, ran>>,
             asked[r] # "no", approved[r] = 0
      PROVE  [C!Next]_Fate
  <2>1. \A q \in Requests \ {r} : FateOf(q)' = FateOf(q)
    BY <1>2 DEF FateOf
  <2>2. CASE r \in refused
    BY <1>2, <2>2 DEF Fate, FateOf
  <2>3. CASE r \notin refused
    <3>1. FateOf(r) = "open" /\ FateOf(r)' = "refused"
      BY <1>2, <2>3 DEF FateOf, TypeOK, ApprovedGone
    <3> QED
      BY <2>1, <3>1, FateMoves DEF C!Next
  <2> QED
    BY <2>2, <2>3
<1>3. ASSUME NEW a \in Actors, ConfirmExpired(a) PROVE [C!Next]_Fate
  <2>1. attempt[a].req \in Requests
    BY <1>3 DEF ConfirmExpired, TypeOK, Attempts
  <2>2. asked[attempt[a].req] # "no" /\ approved[attempt[a].req] = 0
    BY <1>3, <2>1 DEF ConfirmExpired, Unasked, HeldAlone, Holds
  <2> QED
    BY <1>2, <1>3, <2>1, <2>2 DEF ConfirmExpired
<1>4. ASSUME NEW r \in Requests, r \in pending,
             refused' = refused \cup {r}, UNCHANGED <<asked, approved, ran>>
      PROVE  [C!Next]_Fate
  <2>1. asked[r] # "no" /\ approved[r] = 0
    <3>1. Unasked(r) /\ ApprovedGone(r) /\ approved[r] \in Nat
      BY DEF TypeOK
    <3> QED
      BY <1>4, <3>1 DEF Unasked, ApprovedGone
  <2> QED
    BY <1>2, <1>4, <2>1
<1>5. ASSUME NEW r \in Requests, FbCancel(r) \/ SweepExpired(r) PROVE [C!Next]_Fate
  BY <1>4, <1>5 DEF FbCancel, SweepExpired, TakePending
<1>6. ASSUME NEW r \in Requests, Denial(r) PROVE [C!Next]_Fate
  <2>1. CASE r \in pending
    BY <1>4, <1>6, <2>1 DEF Denial
  <2>2. CASE r \notin pending
    BY <1>6, <2>2, FateStutters DEF Denial, TakePending, history, TypeOK
  <2> QED
    BY <2>1, <2>2
<1>7. ASSUME NEW a \in Actors, ConfirmApprove(a) PROVE [C!Next]_Fate
  <2>1. PICK r \in Requests : r = attempt[a].req
    BY <1>7 DEF ConfirmApprove, TypeOK, Attempts
  <2>2. asked[r] # "no" /\ approved[r] = 0 /\ ran[r] = 0 /\ approved'[r] = 1
    BY <1>7, <2>1 DEF ConfirmApprove, Unasked, HeldAlone, ApprovedGone, Holds, TypeOK
  <2>3. UNCHANGED <<asked, ran, refused>> /\ \A q \in Requests \ {r} : approved'[q] = approved[q]
    BY <1>7, <2>1 DEF ConfirmApprove, TypeOK
  <2>4. \A q \in Requests \ {r} : FateOf(q)' = FateOf(q)
    BY <2>3 DEF FateOf
  <2>5. CASE r \in refused
    <3>1. FateOf(r)' = FateOf(r)
      BY <2>2, <2>3, <2>5 DEF FateOf
    <3> QED
      BY <2>4, <3>1 DEF Fate
  <2>6. CASE r \notin refused
    <3>1. FateOf(r) = "open" /\ FateOf(r)' = "approved"
      BY <2>2, <2>3, <2>6 DEF FateOf
    <3> QED
      BY <2>1, <2>4, <3>1, FateMoves DEF C!Next
  <2> QED
    BY <2>5, <2>6
<1>8. ASSUME NEW a \in Actors, Dispatch(a) PROVE [C!Next]_Fate
  <2>1. PICK r \in Requests : r = attempt[a].req
    BY <1>8 DEF Dispatch, TypeOK, Attempts
  <2>2. asked[r] # "no" /\ approved[r] = 1 /\ ran[r] = 0
    BY <1>8, <2>1 DEF Dispatch, Unasked, ApprovedGone, Carries, TypeOK
  <2>3. UNCHANGED <<asked, approved, refused>>
    BY <1>8 DEF Dispatch
  <2>4. CASE UNCHANGED ran
    BY <2>3, <2>4, FateStutters DEF history, TypeOK
  <2>5. CASE r \in args /\ ran' = [ran EXCEPT ![r] = @ + 1]
    <3>1. r \notin refused
      BY <1>8, <2>1, <2>5 DEF Dispatch, RefusedDead, Carries, TypeOK
    <3>2. \A q \in Requests \ {r} : FateOf(q)' = FateOf(q)
      BY <2>1, <2>3, <2>5 DEF FateOf, TypeOK
    <3>3. FateOf(r) = "approved" /\ FateOf(r)' = "run"
      BY <2>1, <2>2, <2>3, <2>5, <3>1 DEF FateOf, TypeOK
    <3> QED
      BY <2>1, <3>2, <3>3, FateMoves DEF C!Next
  <2> QED
    BY <1>8, <2>1, <2>4, <2>5 DEF Dispatch
<1>9. ASSUME NEW r \in Requests, StoreArgs(r) PROVE UNCHANGED Fate
  BY <1>9, FateStutters DEF StoreArgs, TypeOK, AskStates
<1>10. CASE Restart
  <2>1. \A r \in Requests : asked[r] = "no" <=> asked'[r] = "no"
    BY <1>10 DEF Restart
  <2> QED
    BY <1>10, <2>1, FateStutters DEF Restart, TypeOK
<1>11. ASSUME UNCHANGED <<asked, history>> PROVE UNCHANGED Fate
  BY <1>11, FateStutters DEF TypeOK
<1>12. ASSUME NEW r \in Requests,
              OperatorApproves(r) \/ OperatorDenies(r) \/ TimePasses(r) \/ ApprovalLookup(r)
       PROVE  UNCHANGED Fate
  BY <1>11, <1>12 DEF OperatorApproves, OperatorDenies, TimePasses, ApprovalLookup
<1>13. ASSUME NEW a \in Actors, ConfirmRequeue(a) PROVE UNCHANGED Fate
  BY <1>11, <1>13 DEF ConfirmRequeue
<1>14. ASSUME NEW a \in Callers, NEW try \in Attempts, FbConfirm(a, try) PROVE UNCHANGED Fate
  BY <1>11, <1>14 DEF FbConfirm
<1>15. CASE ScanNext \/ ApprovalConfirm \/ ApprovalUnmark \/ UNCHANGED vars
  BY <1>11, <1>15 DEF ScanNext, ApprovalConfirm, ApprovalUnmark, vars
<1> QED
  BY <1>1, <1>3, <1>5, <1>6, <1>7, <1>8, <1>9, <1>10, <1>12, <1>13, <1>14, <1>15
  DEF Next, Confirming, Watching

\* The gate, with its store, watcher, lost writes and restarts, implements the
\* abstract specification of consent: outcomes are final and a run follows
\* exactly one approval.
THEOREM GateImplementsConsent == Spec => ImplementsConsent
<1>1. Init => C!Init
  BY DEF Init, C!Init, Fate, FateOf
<1> QED
  BY <1>1, FateStep, GateInvariant, PTL DEF Spec, ImplementsConsent, C!Spec

-----------------------------------------------------------------------------
(***************************************************************************)
(* Reload.  The inductive invariant says what each hook of Apply leaves    *)
(* for the ones after it; a lemma per action shows that none of the others *)
(* takes it back.                                                          *)
(***************************************************************************)

LEMMA ReloadInvInit == ReloadInit => ReloadInv
<1> SUFFICES ASSUME ReloadInit PROVE ReloadInv
  OBVIOUS
<1> USE ReloadAssumption
<1>1. ReloadTypeOK
  <2>1. Ids(First) \subseteq Dbs
    BY DEF Ids
  <2>2. First.dir \in Dirs
    BY DEF Configs
  <2>3. getter \in [db : Dbs \cup {NoDb}, dsn : Dsns]
    BY DEF ReloadInit, NoGetter, Dsns
  <2>4. stage \in [Jobs -> Stages] /\ draft \in [Jobs -> Configs] /\ pool \in [Dbs -> Dsns]
        /\ meant \in [Jobs -> Dsns] /\ dir \in [Jobs -> Dirs]
    BY <2>2 DEF ReloadInit, Stages, Dsns
  <2>5. window \in Dbs \cup {NoDb} /\ edits \in 0..MaxEdits
    BY <2>1 DEF ReloadInit
  <2> QED
    BY <2>3, <2>4, <2>5 DEF ReloadInit, ReloadTypeOK
<1>2. Locals /\ Registering /\ Known /\ DrainCovers /\ DroppedAll /\ WaitedAll
  BY DEF ReloadInit, Locals, Registering, Known, DrainCovers, Changing, DroppedAll, WaitedAll,
         Drained, Live
<1>3. JobKeepsItsConfig
  BY DEF ReloadInit, JobKeepsItsConfig, JobKeepsDatabase, BackupKeepsDir, Live
<1>4. GetterIsLive /\ ClosedAll /\ PoolIsLive /\ WindowFits
  BY DEF ReloadInit, NoGetter, GetterIsLive, ClosedAll, PoolIsLive, WindowFits
<1> QED
  BY <1>1, <1>2, <1>3, <1>4 DEF ReloadInv

-----------------------------------------------------------------------------
(***************************************************************************)
(* What the snapshots and their comparison give.                           *)
(***************************************************************************)

LEMMA DsnIs ==
  ASSUME NEW c \in Configs
  PROVE  /\ \A d \in Dbs : d \in Ids(c) <=> Dsn(c, d) # NoDsn
         /\ \A d : Dsn(c, d) \in Dsns
         /\ Dsn(c, Instance) = NoDsn
BY ReloadAssumption DEF Dsn, Ids, Dsns, Configs

\* A database outside the drain that is configured stays what it is.
LEMMA UndrainedSame ==
  ASSUME NEW old \in Configs, NEW new \in Configs, NEW d \in Ids(old), d \notin DrainIDs(old, new)
  PROVE  d \in Ids(new) /\ Dsn(new, d) = Dsn(old, d)
<1>1. d \in Ids(new) /\ old.path[d] = new.path[d]
  BY DEF DrainIDs, Gone
<1>2. old.addr = new.addr
  BY <1>1 DEF DrainIDs
<1> QED
  BY <1>1, <1>2 DEF Dsn

LEMMA DrainFits ==
  ASSUME NEW old \in Configs, NEW new \in Configs
  PROVE  DrainIDs(old, new) \cup DirDrain(old, new) \subseteq Dbs \cup {Instance}
BY DEF DrainIDs, DirDrain, Gone, Ids

\* RemapDatabaseID takes a configured database to one of the next snapshot, or
\* to none.
LEMMA RemappedFits ==
  ASSUME ReloadTypeOK
  PROVE  /\ Remapped(window) \in Dbs \cup {NoDb}
         /\ window \in Ids(live) /\ Remapped(window) # NoDb => Remapped(window) \in Ids(next)
         /\ window = NoDb => Remapped(window) = NoDb
<1>0. /\ live \in Configs /\ next \in Configs /\ window \in Dbs \cup {NoDb} /\ NoDb \notin Dbs
      /\ Ids(live) \subseteq Dbs /\ Ids(next) \subseteq Dbs
  BY ReloadAssumption DEF ReloadTypeOK, Ids
<1>1. \A r \in Renames(live, next) :
        /\ r[1] \in Gone(live, next) /\ r[2] \in Added(live, next) /\ r = <<r[1], r[2]>>
        /\ Cardinality(Gone(live, next)) = 1
  BY DEF Renames
<1>2. Gone(live, next) \subseteq Dbs /\ Added(live, next) \subseteq Ids(next)
  BY <1>0 DEF Gone, Added
<1>3. CASE NewIds(window) # {}
  <2>1. Removed(live, next) = {}
    BY <1>3 DEF NewIds, Removed
  <2>2. Remapped(window) = CHOOSE d \in NewIds(window) : TRUE
    BY <1>3, <2>1 DEF Remapped
  <2>3. Remapped(window) \in NewIds(window)
    BY <1>3, <2>2
  <2>4. window \in Gone(live, next)
    BY <1>1, <1>3 DEF NewIds
  <2> QED
    BY <1>0, <1>2, <2>3, <2>4 DEF NewIds
<1>4. CASE NewIds(window) = {} /\ window \in Removed(live, next)
  <2>1. Remapped(window) = NoDb
    BY <1>4 DEF Remapped
  <2> QED
    BY <2>1
<1>5. CASE NewIds(window) = {} /\ window \notin Removed(live, next)
  <2>1. Remapped(window) = window
    BY <1>5 DEF Remapped
  <2>2. ASSUME window \in Ids(live) PROVE window \notin Gone(live, next)
    <3>1. CASE Renames(live, next) = {}
      BY <1>5, <3>1 DEF Removed
    <3>2. CASE Renames(live, next) # {}
      <4>1. PICK r \in Renames(live, next) : TRUE
        BY <3>2
      <4>2. /\ Cardinality(Gone(live, next)) = 1 /\ r[1] \in Gone(live, next)
            /\ r[2] \in Ids(next) /\ r = <<r[1], r[2]>>
        BY <1>1, <1>2, <4>1
      <4>3. IsFiniteSet(Gone(live, next))
        <5>1. IsFiniteSet(Dbs)
          BY ReloadAssumption
        <5> QED
          BY <1>2, <5>1, FS_Subset
      <4>4. PICK x : Gone(live, next) = {x}
        BY <4>2, <4>3, FS_Singleton
      <4>5. r[1] # window
        BY <1>5, <4>1, <4>2 DEF NewIds
      <4> QED
        BY <4>2, <4>4, <4>5
    <3> QED
      BY <3>1, <3>2
  <2>3. window \in Ids(live) => window \in Ids(next)
    BY <2>2 DEF Gone
  <2> QED
    BY <1>0, <2>1, <2>3
<1> QED
  BY <1>3, <1>4, <1>5

-----------------------------------------------------------------------------
(***************************************************************************)
(* Steps that leave a part of the state alone.                             *)
(***************************************************************************)

PoolParts == GetterIsLive /\ ClosedAll /\ PoolIsLive

\* The pools are left alone, and Apply does not come to close them.
LEMMA PoolsSame ==
  ASSUME PoolParts, UNCHANGED <<live, pool, getter, slipped>>,
         hook' = "close" => hook = "close" /\ drain' = drain /\ todo' = todo
  PROVE  PoolParts'
<1>1. GetterIsLive'
  BY DEF PoolParts, GetterIsLive
<1>2. ClosedAll'
  BY DEF PoolParts, ClosedAll
<1>3. PoolIsLive'
  BY DEF PoolParts, PoolIsLive
<1> QED
  BY <1>1, <1>2, <1>3 DEF PoolParts

ActionParts ==
  Registering /\ Known /\ DrainCovers /\ DroppedAll /\ WaitedAll /\ JobKeepsItsConfig

\* Neither the actions nor the snapshots change, nor what Apply knows of them.
LEMMA ActionsSame ==
  ASSUME ActionParts, UNCHANGED <<live, stage, meant, dir, raced, hook, next, drain, todo>>
  PROVE  ActionParts'
<1>1. Registering' /\ Known'
  BY DEF ActionParts, Registering, Known
<1>2. DrainCovers'
  BY DEF ActionParts, DrainCovers, Changing, Live, DrainIDs
<1>3. DroppedAll' /\ WaitedAll'
  BY DEF ActionParts, DroppedAll, WaitedAll, Drained, Live
<1>4. JobKeepsItsConfig'
  BY DEF ActionParts, JobKeepsItsConfig, JobKeepsDatabase, BackupKeepsDir, Live
<1> QED
  BY <1>1, <1>2, <1>3, <1>4 DEF ActionParts

\* Apply is not between its first hook and the swap, and no action moves but to
\* its end.
LEMMA ActionsIdle ==
  ASSUME ActionParts, UNCHANGED <<live, meant, dir, raced>>,
         hook' \in {"idle", "load", "finish"},
         \A j \in Jobs : stage'[j] = stage[j] \/ stage'[j] = "ended"
  PROVE  ActionParts'
<1>1. Registering' /\ Known'
  BY DEF ActionParts, Registering, Known
<1>2. DrainCovers' /\ DroppedAll' /\ WaitedAll'
  BY DEF DrainCovers, Changing, DroppedAll, WaitedAll
<1>3. JobKeepsItsConfig'
  BY ReloadAssumption DEF ActionParts, JobKeepsItsConfig, JobKeepsDatabase, BackupKeepsDir,
     Live
<1> QED
  BY <1>1, <1>2, <1>3 DEF ActionParts

LEMMA PartsAre ==
  /\ ReloadInv <=> ReloadTypeOK /\ Locals /\ ActionParts /\ PoolParts /\ WindowFits
  /\ ReloadInv' <=> ReloadTypeOK' /\ Locals' /\ ActionParts' /\ PoolParts' /\ WindowFits'
BY DEF ReloadInv, ActionParts, PoolParts

-----------------------------------------------------------------------------
(***************************************************************************)
(* Apply.                                                                  *)
(***************************************************************************)

LEMMA LockKeeps ==
  ASSUME ReloadInv, NEW caller \in {FileWatcher, Client} \cup Registers, Lock(caller),
         event' \in BOOLEAN, UNCHANGED <<file, live, actions, pools, window, edits, ghosts>>
  PROVE  ReloadInv'
<1>0. ReloadTypeOK /\ Locals /\ ActionParts /\ PoolParts /\ WindowFits /\ hook = "idle"
  BY PartsAre DEF Lock, ReloadTypeOK
<1>1. caller # Nobody
  BY ReloadAssumption DEF Registers
<1>2. ReloadTypeOK'
  BY <1>0, <1>1 DEF Lock, actions, pools, ghosts, ReloadTypeOK
<1>3. Locals' /\ WindowFits'
  BY <1>0 DEF Lock, ghosts, Locals, WindowFits
<1>4. ActionParts'
  BY <1>0, ActionsIdle DEF Lock, actions, ghosts
<1>5. PoolParts'
  BY <1>0, PoolsSame DEF Lock, pools, ghosts
<1> QED
  BY <1>2, <1>3, <1>4, <1>5, PartsAre

LEMMA UnlockKeeps ==
  ASSUME ReloadInv, Unlock, UNCHANGED <<file, event, live, pools, window, edits>>,
         UNCHANGED <<meant, dir, raced, slipped>>, rejected' \in BOOLEAN,
         strayed' \in BOOLEAN, ~strayed' => ~strayed /\ hook \notin {"wait", "close"}
  PROVE  ReloadInv'
<1>0. ReloadTypeOK /\ Locals /\ ActionParts /\ PoolParts /\ WindowFits
  BY PartsAre
<1>1. stage' \in [Jobs -> Stages] /\ \A j \in Jobs : stage'[j] = stage[j] \/ stage'[j] = "ended"
  BY <1>0 DEF Unlock, ReloadTypeOK, Stages
<1>2. ReloadTypeOK'
  BY <1>0, <1>1, ReloadAssumption DEF Unlock, pools, ReloadTypeOK
<1>3. Locals' /\ WindowFits'
  BY <1>0 DEF Unlock, Locals, WindowFits
<1>4. ActionParts'
  BY <1>0, <1>1, ActionsIdle DEF Unlock
<1>5. PoolParts'
  BY <1>0, PoolsSame DEF Unlock, pools
<1> QED
  BY <1>2, <1>3, <1>4, <1>5, PartsAre

\* The new drain covers what the file changes.
LEMMA LoadAcceptedKeeps == ASSUME ReloadInv, LoadAccepted PROVE ReloadInv'
<1>0. ReloadTypeOK /\ Locals /\ ActionParts /\ PoolParts /\ WindowFits
  BY PartsAre
<1>1. file \in Configs /\ live \in Configs
  BY <1>0 DEF LoadAccepted, ReloadTypeOK
<1>2. UNCHANGED <<live, stage, meant, dir, raced, slipped, pool, getter, window, strayed>>
      /\ hook = "load" /\ hook' = "mark" /\ next' = file
  BY DEF LoadAccepted, actions, pools, ghosts
<1>3. /\ drain' = DrainIDs(live, file) \cup DirDrain(live, file)
      /\ drain' \subseteq Dbs \cup {Instance}
  BY <1>1, DrainFits DEF LoadAccepted
<1>4. ReloadTypeOK'
  <2>1. todo' = {} /\ draining' = {} /\ who' # Nobody /\ who' = who
    BY <1>0 DEF LoadAccepted, Locals, ReloadTypeOK
  <2> QED
    BY <1>0, <1>1, <1>2, <1>3, <2>1 DEF LoadAccepted, actions, pools, ghosts, ReloadTypeOK
<1>5. Locals' /\ WindowFits'
  BY <1>0, <1>2 DEF LoadAccepted, Locals, WindowFits
<1>6. PoolParts'
  BY <1>0, <1>2, PoolsSame
<1>7. DrainCovers'
  <2>1. DrainIDs(live, next)' \subseteq drain'
    <3>1. DrainIDs(live, next)' = DrainIDs(live, file)
      BY <1>2 DEF DrainIDs, Gone, Ids
    <3> QED
      BY <1>3, <3>1
  <2>2. ASSUME NEW j \in Backups \ raced, live.dir # file.dir, Live(j)
        PROVE  Key[j] \in drain'
    <3>1. j \in Jobs /\ Key[j] \in Dbs /\ j \notin Registers
      BY ReloadAssumption DEF Registers
    <3>2. stage[j] \in {"queued", "running"}
      BY <1>0, <2>2, <3>1 DEF ActionParts, Registering, Live
    <3>3. Dsn(live, Key[j]) # NoDsn
      BY <1>0, <3>1, <3>2 DEF ActionParts, Known, JobKeepsItsConfig, JobKeepsDatabase
    <3>4. Key[j] \in Ids(live)
      BY <1>1, <3>1, <3>3, DsnIs
    <3>5. CASE Key[j] \in Ids(file)
      BY <1>3, <2>2, <3>4, <3>5 DEF DirDrain
    <3>6. CASE Key[j] \notin Ids(file)
      BY <1>3, <3>4, <3>6 DEF DrainIDs, Gone
    <3> QED
      BY <3>5, <3>6
  <2> QED
    BY <1>2, <2>1, <2>2 DEF DrainCovers, Live
<1>8. ActionParts'
  <2>1. Registering' /\ Known'
    BY <1>0, <1>2 DEF ActionParts, Registering, Known
  <2>2. DroppedAll' /\ WaitedAll'
    BY <1>2 DEF DroppedAll, WaitedAll
  <2>3. JobKeepsItsConfig'
    BY <1>0, <1>2 DEF ActionParts, JobKeepsItsConfig, JobKeepsDatabase, BackupKeepsDir, Live
  <2> QED
    BY <1>7, <2>1, <2>2, <2>3 DEF ActionParts
<1> QED
  BY <1>4, <1>5, <1>6, <1>8, PartsAre

LEMMA MarkDrainingKeeps == ASSUME ReloadInv, MarkDraining PROVE ReloadInv'
<1>0. ReloadTypeOK /\ Locals /\ ActionParts /\ PoolParts /\ WindowFits
  BY PartsAre
<1>1. UNCHANGED <<live, next, drain, stage, meant, dir, raced, slipped, pool, getter,
                  window, strayed>>
      /\ hook = "mark" /\ hook' = "drop"
  BY DEF MarkDraining, actions, pools, ghosts
<1>2. ReloadTypeOK'
  BY <1>0, <1>1 DEF MarkDraining, actions, pools, ghosts, ReloadTypeOK
<1>3. Locals' /\ WindowFits'
  BY <1>0, <1>1 DEF MarkDraining, Locals, WindowFits
<1>4. PoolParts'
  BY <1>0, <1>1, PoolsSame
<1>5. DrainCovers'
  <2>1. DrainIDs(live, next)' = DrainIDs(live, next)
    BY <1>1 DEF DrainIDs
  <2> QED
    BY <1>0, <1>1, <2>1 DEF ActionParts, DrainCovers, Changing, Live
<1>6. ActionParts'
  <2>1. Registering' /\ Known'
    BY <1>0, <1>1 DEF ActionParts, Registering, Known
  <2>2. DroppedAll' /\ WaitedAll'
    BY <1>1 DEF DroppedAll, WaitedAll
  <2>3. JobKeepsItsConfig'
    BY <1>0, <1>1 DEF ActionParts, JobKeepsItsConfig, JobKeepsDatabase, BackupKeepsDir, Live
  <2> QED
    BY <1>5, <2>1, <2>2, <2>3 DEF ActionParts
<1> QED
  BY <1>2, <1>3, <1>4, <1>6, PartsAre

\* What the drop finds pending it ends, and what it cannot reach has raced it.
LEMMA DropPendingKeeps == ASSUME ReloadInv, DropPending PROVE ReloadInv'
<1>0. ReloadTypeOK /\ Locals /\ ActionParts /\ PoolParts /\ WindowFits
  BY PartsAre
<1>1. UNCHANGED <<live, next, drain, todo, draining, meant, dir, slipped, pool, getter,
                  window, strayed>>
      /\ hook = "drop" /\ hook' = "remap"
  BY DEF DropPending, pools
<1>2. /\ stage' \in [Jobs -> Stages]
      /\ \A j \in Jobs : stage'[j] = stage[j] \/ stage'[j] = "ended"
      /\ \A j \in Jobs : Key[j] \in drain \ {Instance} => stage'[j] # "pending"
      /\ \A j \in Jobs : stage'[j] \in {"taken", "admitted"} => stage[j] = stage'[j]
  BY <1>0 DEF DropPending, ReloadTypeOK, Stages
<1>3. raced' = raced \cup {j \in Jobs : InFlight(j)} /\ raced' \subseteq Jobs
  BY <1>0 DEF DropPending, ReloadTypeOK
<1>4. ReloadTypeOK'
  BY <1>0, <1>1, <1>2, <1>3 DEF DropPending, pools, ReloadTypeOK
<1>5. Locals' /\ WindowFits'
  BY <1>0, <1>1 DEF Locals, WindowFits
<1>6. PoolParts'
  BY <1>0, <1>1, PoolsSame
<1>7. Registering' /\ Known'
  BY <1>0, <1>1, <1>2 DEF ActionParts, Registering, Known
<1>8. DrainCovers'
  <2>1. DrainIDs(live, next)' = DrainIDs(live, next)
    BY <1>1 DEF DrainIDs
  <2>2. \A j \in Jobs : Live(j)' => Live(j)
    BY <1>2 DEF Live
  <2> QED
    BY <1>0, <1>1, <1>3, <2>1, <2>2, ReloadAssumption DEF ActionParts, DrainCovers, Changing
<1>9. DroppedAll'
  BY <1>1, <1>2, <1>3 DEF DroppedAll, Drained, InFlight
<1>10. WaitedAll'
  BY <1>1 DEF WaitedAll
<1>11. JobKeepsItsConfig'
  BY <1>0, <1>1, <1>2, <1>3, ReloadAssumption
     DEF ActionParts, JobKeepsItsConfig, JobKeepsDatabase, BackupKeepsDir, Live
<1> QED
  BY <1>4, <1>5, <1>6, <1>7, <1>8, <1>9, <1>10, <1>11, PartsAre DEF ActionParts

LEMMA RemapStateKeeps == ASSUME ReloadInv, RemapState PROVE ReloadInv'
<1>0. ReloadTypeOK /\ Locals /\ ActionParts /\ PoolParts /\ WindowFits
  BY PartsAre
<1>1. UNCHANGED <<live, next, drain, draining, stage, meant, dir, raced, slipped, pool,
                  getter, strayed>>
      /\ hook = "remap" /\ hook' = "wait" /\ todo' = drain /\ window' = Remapped(window)
  BY DEF RemapState, actions, pools, ghosts
<1>2. ReloadTypeOK'
  <2>1. window' \in Dbs \cup {NoDb}
    BY <1>0, <1>1, RemappedFits
  <2> QED
    BY <1>0, <1>1, <2>1 DEF RemapState, actions, pools, ghosts, ReloadTypeOK
<1>3. Locals'
  BY <1>1 DEF Locals
<1>4. WindowFits'
  <2>1. window' # NoDb => window # NoDb
    BY <1>0, <1>1, RemappedFits
  <2>2. ~strayed' /\ window' # NoDb => window' \in Ids(next)
    BY <1>0, <1>1, <2>1, RemappedFits DEF WindowFits
  <2>3. Ids(next)' = Ids(next)
    BY <1>1 DEF Ids
  <2> QED
    BY <1>1, <2>2, <2>3 DEF WindowFits
<1>5. PoolParts'
  BY <1>0, <1>1, PoolsSame
<1>6. Registering' /\ Known'
  BY <1>0, <1>1 DEF ActionParts, Registering, Known
<1>7. DrainCovers'
  <2>1. DrainIDs(live, next)' = DrainIDs(live, next)
    BY <1>1 DEF DrainIDs
  <2> QED
    BY <1>0, <1>1, <2>1 DEF ActionParts, DrainCovers, Changing, Live
<1>8. DroppedAll' /\ WaitedAll'
  BY <1>0, <1>1 DEF ActionParts, DroppedAll, WaitedAll, Drained
<1>9. JobKeepsItsConfig'
  BY <1>0, <1>1 DEF ActionParts, JobKeepsItsConfig, JobKeepsDatabase, BackupKeepsDir, Live
<1> QED
  BY <1>2, <1>3, <1>4, <1>5, <1>6, <1>7, <1>8, <1>9, PartsAre DEF ActionParts

\* A database is waited for while none but the caller, whose key is the
\* instance, has a job of it.
LEMMA WaitIdleKeeps ==
  ASSUME ReloadInv, NEW i \in Dbs \cup {Instance}, WaitIdle(i) PROVE ReloadInv'
<1>0. ReloadTypeOK /\ Locals /\ ActionParts /\ PoolParts /\ WindowFits
  BY PartsAre
<1>1. UNCHANGED <<live, hook, who, next, drain, draining, stage, meant, dir, raced,
                  slipped, pool, getter,
                  window, strayed>>
      /\ hook = "wait" /\ todo' = todo \ {i} /\ Idle(i)
  BY DEF WaitIdle, actions, pools, ghosts
<1>2. ReloadTypeOK'
  BY <1>0, <1>1 DEF WaitIdle, actions, pools, ghosts, ReloadTypeOK
<1>3. Locals' /\ WindowFits'
  BY <1>0, <1>1 DEF Locals, WindowFits
<1>4. PoolParts'
  BY <1>0, <1>1, PoolsSame
<1>5. Registering' /\ Known' /\ DroppedAll'
  BY <1>0, <1>1 DEF ActionParts, Registering, Known, DroppedAll, Drained
<1>6. DrainCovers'
  <2>1. DrainIDs(live, next)' = DrainIDs(live, next)
    BY <1>1 DEF DrainIDs
  <2> QED
    BY <1>0, <1>1, <2>1 DEF ActionParts, DrainCovers, Changing, Live
<1>7. WaitedAll'
  <2> SUFFICES ASSUME NEW j \in Jobs, Drained(j)', Key[j] \notin todo' PROVE ~Live(j)'
    BY <1>1 DEF WaitedAll
  <2>1. Drained(j) /\ (Live(j)' <=> Live(j)) /\ Key[j] # Instance
    BY <1>1 DEF Drained, Live
  <2>2. CASE Key[j] \notin todo
    BY <1>0, <1>1, <2>1, <2>2 DEF ActionParts, WaitedAll
  <2>3. CASE Key[j] = i
    <3>1. j # who
      BY <1>0, <2>1, ReloadAssumption DEF ReloadTypeOK, Registers
    <3> QED
      BY <1>1, <2>1, <2>3, <3>1 DEF Idle
  <2> QED
    BY <1>1, <2>2, <2>3
<1>8. JobKeepsItsConfig'
  BY <1>0, <1>1 DEF ActionParts, JobKeepsItsConfig, JobKeepsDatabase, BackupKeepsDir, Live
<1> QED
  BY <1>2, <1>3, <1>4, <1>5, <1>6, <1>7, <1>8, PartsAre DEF ActionParts

LEMMA WaitDoneKeeps == ASSUME ReloadInv, WaitDone PROVE ReloadInv'
<1>0. ReloadTypeOK /\ Locals /\ ActionParts /\ PoolParts /\ WindowFits
  BY PartsAre
<1>1. UNCHANGED <<live, next, drain, draining, stage, meant, dir, raced, slipped, pool,
                  getter, window, strayed>>
      /\ hook = "wait" /\ hook' = "close" /\ todo = {} /\ todo' = drain \ {Instance}
  BY DEF WaitDone, actions, pools, ghosts
<1>2. ReloadTypeOK'
  BY <1>0, <1>1 DEF WaitDone, actions, pools, ghosts, ReloadTypeOK
<1>3. Locals' /\ WindowFits'
  BY <1>0, <1>1 DEF Locals, WindowFits
<1>4. PoolParts'
  <2>1. GetterIsLive' /\ PoolIsLive'
    BY <1>0, <1>1 DEF PoolParts, GetterIsLive, PoolIsLive
  <2>2. ClosedAll'
    BY <1>1, ReloadAssumption DEF ClosedAll
  <2> QED
    BY <2>1, <2>2 DEF PoolParts
<1>5. Registering' /\ Known' /\ DroppedAll' /\ WaitedAll'
  BY <1>0, <1>1 DEF ActionParts, Registering, Known, DroppedAll, WaitedAll, Drained, Live
<1>6. DrainCovers'
  <2>1. DrainIDs(live, next)' = DrainIDs(live, next)
    BY <1>1 DEF DrainIDs
  <2> QED
    BY <1>0, <1>1, <2>1 DEF ActionParts, DrainCovers, Changing, Live
<1>7. JobKeepsItsConfig'
  BY <1>0, <1>1 DEF ActionParts, JobKeepsItsConfig, JobKeepsDatabase, BackupKeepsDir, Live
<1> QED
  BY <1>2, <1>3, <1>4, <1>5, <1>6, <1>7, PartsAre DEF ActionParts

LEMMA CloseDBKeeps == ASSUME ReloadInv, NEW d \in Dbs, CloseDB(d) PROVE ReloadInv'
<1>0. ReloadTypeOK /\ Locals /\ ActionParts /\ PoolParts /\ WindowFits
  BY PartsAre
<1>1. UNCHANGED <<live, hook, next, drain, draining, stage, meant, dir, raced, getter,
                  window, strayed>>
      /\ hook = "close" /\ todo' = todo \ {d} /\ slipped' = slipped \ {d} /\ getter.db = NoDb
  BY DEF CloseDB, actions, NoGetter
<1>2. pool' \in [Dbs -> Dsns] /\ pool'[d] = NoDsn /\ \A e \in Dbs : e # d => pool'[e] = pool[e]
  BY <1>0 DEF CloseDB, ReloadTypeOK, Dsns
<1>3. ReloadTypeOK'
  BY <1>0, <1>1, <1>2 DEF CloseDB, actions, ReloadTypeOK
<1>4. Locals' /\ WindowFits'
  BY <1>0, <1>1 DEF Locals, WindowFits
<1>5. PoolParts'
  <2>1. GetterIsLive'
    BY <1>1 DEF GetterIsLive
  <2>2. PoolIsLive'
    BY <1>0, <1>1, <1>2 DEF PoolParts, PoolIsLive
  <2>3. ClosedAll'
    BY <1>0, <1>1, <1>2, ReloadAssumption DEF PoolParts, ClosedAll
  <2> QED
    BY <2>1, <2>2, <2>3 DEF PoolParts
<1>6. Registering' /\ Known' /\ DroppedAll' /\ WaitedAll'
  BY <1>0, <1>1 DEF ActionParts, Registering, Known, DroppedAll, WaitedAll, Drained, Live
<1>7. DrainCovers'
  <2>1. DrainIDs(live, next)' = DrainIDs(live, next)
    BY <1>1 DEF DrainIDs
  <2> QED
    BY <1>0, <1>1, <2>1 DEF ActionParts, DrainCovers, Changing, Live
<1>8. JobKeepsItsConfig'
  BY <1>0, <1>1 DEF ActionParts, JobKeepsItsConfig, JobKeepsDatabase, BackupKeepsDir, Live
<1> QED
  BY <1>3, <1>4, <1>5, <1>6, <1>7, <1>8, PartsAre DEF ActionParts

\* The swap moves nothing under an action or a pool that is left: what the
\* snapshots differ in was drained, and what was drained is gone.
LEMMA SwapKeeps == ASSUME ReloadInv, Swap PROVE ReloadInv'
<1>0. ReloadTypeOK /\ Locals /\ ActionParts /\ PoolParts /\ WindowFits
  BY PartsAre
<1>1. /\ UNCHANGED <<next, drain, todo, draining, stage, meant, dir, raced, slipped, pool,
                     getter, window, strayed>>
      /\ hook = "close" /\ hook' = "finish" /\ todo = {} /\ live' = next
  BY DEF Swap, actions, pools, ghosts
<1>2. live \in Configs /\ next \in Configs /\ DrainIDs(live, next) \subseteq drain
  BY <1>0, <1>1 DEF ReloadTypeOK, ActionParts, DrainCovers, Changing
<1>3. \A d \in Dbs : Dsn(live, d) # NoDsn /\ d \notin drain => Dsn(next, d) = Dsn(live, d)
  BY <1>2, DsnIs, UndrainedSame
<1>4. ReloadTypeOK'
  BY <1>0, <1>1 DEF Swap, actions, pools, ghosts, ReloadTypeOK
<1>5. Locals' /\ WindowFits'
  BY <1>0, <1>1 DEF Locals, WindowFits
<1>6. PoolParts'
  <2>1. GetterIsLive'
    <3> SUFFICES ASSUME getter.db # NoDb
                 PROVE  /\ getter.dsn # NoDsn
                        /\ getter.db \notin slipped => getter.dsn = Dsn(next, getter.db)
      BY <1>1 DEF GetterIsLive, Dsn, Ids
    <3>1. PICK d \in Dbs : d = getter.db
      BY <1>0 DEF ReloadTypeOK
    <3>2. getter.dsn # NoDsn /\ (d \notin slipped => getter.dsn = Dsn(live, d))
      BY <1>0, <3>1 DEF PoolParts, GetterIsLive
    <3>3. d \notin slipped => d \notin drain
      BY <1>0, <1>1, <3>1 DEF PoolParts, ClosedAll
    <3> QED
      BY <1>3, <3>1, <3>2, <3>3
  <2>2. PoolIsLive'
    <3> SUFFICES ASSUME NEW d \in Dbs \ slipped, pool[d] # NoDsn PROVE pool[d] = Dsn(next, d)
      BY <1>1 DEF PoolIsLive, Dsn, Ids
    <3>1. pool[d] = Dsn(live, d) /\ d \notin drain
      BY <1>0, <1>1 DEF PoolParts, PoolIsLive, ClosedAll
    <3> QED
      BY <1>3, <3>1
  <2>3. ClosedAll'
    BY <1>1 DEF ClosedAll
  <2> QED
    BY <2>1, <2>2, <2>3 DEF PoolParts
<1>7. Registering' /\ Known' /\ DroppedAll' /\ WaitedAll' /\ DrainCovers'
  BY <1>0, <1>1 DEF ActionParts, Registering, Known, DroppedAll, WaitedAll, DrainCovers,
     Changing
<1>8. \A j \in Jobs \ raced : Key[j] \in drain /\ Key[j] \in Dbs =>
         ~Live(j) /\ stage[j] \notin {"pending", "taken", "admitted"}
  BY <1>0, <1>1, ReloadAssumption DEF ActionParts, DroppedAll, WaitedAll, Drained
<1>9. JobKeepsDatabase'
  <2> SUFFICES ASSUME NEW j \in Jobs \ raced,
                      stage[j] \in {"pending", "taken", "admitted", "queued", "running"}
               PROVE  Dsn(next, Key[j]) = meant[j]
    BY <1>1 DEF JobKeepsDatabase, Dsn, Ids
  <2>1. Dsn(live, Key[j]) = meant[j]
    BY <1>0 DEF ActionParts, JobKeepsItsConfig, JobKeepsDatabase
  <2>2. CASE Key[j] = Instance
    BY <1>2, <2>1, <2>2, DsnIs
  <2>3. CASE Key[j] \in Dbs
    <3>1. meant[j] # NoDsn
      BY <1>0, <2>3 DEF ActionParts, Known
    <3>2. Key[j] \notin drain
      BY <1>8, <2>3 DEF Live
    <3> QED
      BY <1>3, <2>1, <2>3, <3>1, <3>2
  <2> QED
    BY <2>2, <2>3, ReloadAssumption
<1>10. BackupKeepsDir'
  <2> SUFFICES ASSUME NEW j \in Backups \ raced, Live(j) PROVE dir[j] = next.dir
    BY <1>1 DEF BackupKeepsDir, Live
  <2>1. j \in Jobs \ raced /\ Key[j] \in Dbs
    BY ReloadAssumption
  <2>2. live.dir = next.dir
    BY <1>0, <1>1, <1>8, <2>1 DEF ActionParts, DrainCovers, Changing
  <2> QED
    BY <1>0, <2>2 DEF ActionParts, JobKeepsItsConfig, BackupKeepsDir
<1> QED
  BY <1>4, <1>5, <1>6, <1>7, <1>9, <1>10, PartsAre DEF ActionParts, JobKeepsItsConfig

-----------------------------------------------------------------------------
(***************************************************************************)
(* What goes on meanwhile.                                                 *)
(***************************************************************************)

Before == {"pending", "taken", "admitted"}
After  == {"queued", "running", "loaded", "saved"}

\* An action that moves on within the gate, within its job, or to its end.
LEMMA MoveKeeps ==
  ASSUME ReloadInv, NEW j \in Jobs, NEW from \in Before \cup After, NEW to \in Stages,
         Move(j, from, to),
         from \in Before => to \in Before \cup {"ended"},
         from \in After  => to \in {"running", "loaded", "saved", "ended"},
         to = "running" => from = "queued",
         to \in {"loaded", "saved"} => j \in Registers,
         UNCHANGED <<live, controller, pools, window, edits, meant, dir, raced, slipped,
                     strayed>>,
         file' \in Configs \cup {Broken}, event' \in BOOLEAN, rejected' \in BOOLEAN,
         draft' \in [Jobs -> Configs]
  PROVE  ReloadInv'
<1>0. ReloadTypeOK /\ Locals /\ ActionParts /\ PoolParts /\ WindowFits
  BY PartsAre
<1>1. /\ stage' \in [Jobs -> Stages] /\ stage[j] = from /\ stage'[j] = to
      /\ \A k \in Jobs : k # j => stage'[k] = stage[k]
  BY <1>0 DEF Move, ReloadTypeOK
<1>2. UNCHANGED <<live, who, hook, next, drain, todo, draining, pool, getter, window,
                  edits, meant, dir, raced,
                  slipped, strayed>>
  BY DEF controller, pools
<1>3. ReloadTypeOK'
  BY <1>0, <1>1, <1>2 DEF ReloadTypeOK
<1>4. Locals' /\ WindowFits'
  BY <1>0, <1>2 DEF Locals, WindowFits
<1>5. PoolParts'
  BY <1>0, <1>2, PoolsSame
<1>6. \A k \in Jobs : /\ Live(k)' => Live(k)
                      /\ stage'[k] \in Before => stage[k] \in Before
                      /\ stage'[k] \notin {"no", "ended"} => stage[k] \notin {"no", "ended"}
                      /\ stage'[k] \in {"pending", "taken", "admitted", "queued", "running"}
                           => stage[k] \in {"pending", "taken", "admitted", "queued", "running"}
  BY <1>1 DEF Live, Before, After
<1>7. Registering'
  BY <1>0, <1>1 DEF ActionParts, Registering
<1>8. Known'
  BY <1>0, <1>2, <1>6 DEF ActionParts, Known
<1>9. DroppedAll' /\ WaitedAll'
  BY <1>0, <1>2, <1>6 DEF ActionParts, DroppedAll, WaitedAll, Drained, Before
<1>10. DrainCovers'
  <2>1. DrainIDs(live, next)' = DrainIDs(live, next)
    BY <1>2 DEF DrainIDs
  <2> QED
    BY <1>0, <1>2, <1>6, <2>1, ReloadAssumption DEF ActionParts, DrainCovers, Changing
<1>11. JobKeepsItsConfig'
  <2>1. JobKeepsDatabase'
    BY <1>0, <1>2, <1>6 DEF ActionParts, JobKeepsItsConfig, JobKeepsDatabase
  <2>2. BackupKeepsDir'
    BY <1>0, <1>2, <1>6, ReloadAssumption DEF ActionParts, JobKeepsItsConfig, BackupKeepsDir
  <2> QED
    BY <2>1, <2>2 DEF JobKeepsItsConfig
<1> QED
  BY <1>3, <1>4, <1>5, <1>7, <1>8, <1>9, <1>10, <1>11, PartsAre DEF ActionParts

\* An action asked for names what is live; one asked for behind the drop, of a
\* database that drains, has raced it.
LEMMA AskKeeps == ASSUME ReloadInv, NEW j \in Jobs, Ask(j) PROVE ReloadInv'
<1>0. ReloadTypeOK /\ Locals /\ ActionParts /\ PoolParts /\ WindowFits
  BY PartsAre
<1>1. /\ stage' \in [Jobs -> Stages] /\ stage[j] = "no" /\ stage'[j] = "pending"
      /\ \A k \in Jobs : k # j => stage'[k] = stage[k]
  BY <1>0 DEF Ask, Move, ReloadTypeOK, Stages
<1>2. UNCHANGED <<file, event, live, who, hook, next, drain, todo, draining, draft, pool,
                  getter, window,
                  edits, dir, slipped, strayed, rejected>>
  BY DEF Ask, OnlyStage, controller, pools
<1>3. live \in Configs
  BY <1>0 DEF ReloadTypeOK
<1>4. /\ meant' \in [Jobs -> Dsns] /\ meant'[j] = Dsn(live, Key[j])
      /\ \A k \in Jobs : k # j => meant'[k] = meant[k]
  <2>1. Dsn(live, Key[j]) \in Dsns
    BY <1>3, DsnIs
  <2> QED
    BY <1>0, <2>1 DEF Ask, ReloadTypeOK
<1>5. /\ raced' \subseteq Jobs /\ raced \subseteq raced'
      /\ hook \in {"remap", "wait", "close"} /\ Key[j] \in drain => j \in raced'
  BY <1>0 DEF Ask, ReloadTypeOK
<1>6. ReloadTypeOK'
  BY <1>0, <1>1, <1>2, <1>4, <1>5 DEF ReloadTypeOK
<1>7. Locals' /\ WindowFits'
  BY <1>0, <1>2 DEF Locals, WindowFits
<1>8. PoolParts'
  BY <1>0, <1>2, PoolsSame
<1>9. \A k \in Jobs : Live(k)' <=> Live(k)
  BY <1>1 DEF Live
<1>10. Registering'
  BY <1>0, <1>1 DEF ActionParts, Registering
<1>11. Known'
  <2>1. Key[j] \in Dbs => meant'[j] # NoDsn
    BY <1>3, <1>4, DsnIs, ReloadAssumption DEF Ask
  <2> QED
    BY <1>0, <1>1, <1>4, <2>1 DEF ActionParts, Known
<1>12. DroppedAll'
  BY <1>0, <1>1, <1>2, <1>5 DEF ActionParts, DroppedAll, Drained
<1>13. WaitedAll'
  BY <1>0, <1>2, <1>5, <1>9 DEF ActionParts, WaitedAll, Drained
<1>14. DrainCovers'
  <2>1. DrainIDs(live, next)' = DrainIDs(live, next)
    BY <1>2 DEF DrainIDs
  <2> QED
    BY <1>0, <1>2, <1>5, <1>9, <2>1, ReloadAssumption DEF ActionParts, DrainCovers, Changing
<1>15. JobKeepsDatabase'
  BY <1>0, <1>1, <1>2, <1>4, <1>5 DEF ActionParts, JobKeepsItsConfig, JobKeepsDatabase, Dsn,
     Ids
<1>16. BackupKeepsDir'
  BY <1>0, <1>2, <1>5, <1>9, ReloadAssumption DEF ActionParts, JobKeepsItsConfig,
     BackupKeepsDir
<1> QED
  BY <1>6, <1>7, <1>8, <1>10, <1>11, <1>12, <1>13, <1>14, <1>15, <1>16, PartsAre
  DEF ActionParts, JobKeepsItsConfig

\* A job recorded while Apply runs, of a database that does not drain, has
\* raced HasLiveBackup; of one that does, it has raced the drop.
LEMMA RecordKeeps == ASSUME ReloadInv, NEW j \in Jobs, Record(j) PROVE ReloadInv'
<1>0. ReloadTypeOK /\ Locals /\ ActionParts /\ PoolParts /\ WindowFits
  BY PartsAre
<1>1. /\ stage' \in [Jobs -> Stages] /\ stage[j] = "admitted" /\ stage'[j] = "queued"
      /\ \A k \in Jobs : k # j => stage'[k] = stage[k]
  BY <1>0 DEF Record, Move, ReloadTypeOK, Stages
<1>2. UNCHANGED <<file, event, live, who, hook, next, drain, todo, draining, draft, pool,
                  getter, window,
                  edits, meant, slipped, strayed, rejected>>
  BY DEF Record, OnlyStage, controller, pools
<1>3. /\ dir' \in [Jobs -> Dirs] /\ dir'[j] = live.dir
      /\ \A k \in Jobs : k # j => dir'[k] = dir[k]
  BY <1>0 DEF Record, ReloadTypeOK, Configs
<1>4. /\ raced' \subseteq Jobs /\ raced \subseteq raced'
      /\ Changing /\ Key[j] \notin drain => j \in raced'
  BY <1>0 DEF Record, ReloadTypeOK, Changing
<1>5. ReloadTypeOK'
  BY <1>0, <1>1, <1>2, <1>3, <1>4 DEF ReloadTypeOK
<1>6. Locals' /\ WindowFits'
  BY <1>0, <1>2 DEF Locals, WindowFits
<1>7. PoolParts'
  BY <1>0, <1>2, PoolsSame
<1>8. \A k \in Jobs : k # j => (Live(k)' <=> Live(k))
  BY <1>1 DEF Live
<1>9. Registering' /\ Known'
  BY <1>0, <1>1, <1>2 DEF ActionParts, Registering, Known
<1>10. DroppedAll'
  BY <1>0, <1>1, <1>2, <1>4 DEF ActionParts, DroppedAll, Drained
<1>11. WaitedAll'
  <2>1. hook \in {"wait", "close"} => ~Drained(j)'
    BY <1>0, <1>1, <1>2, <1>4 DEF ActionParts, DroppedAll, Drained
  <2> QED
    BY <1>0, <1>2, <1>4, <1>8, <2>1 DEF ActionParts, WaitedAll, Drained
<1>12. DrainCovers'
  <2>1. DrainIDs(live, next)' = DrainIDs(live, next) /\ (Changing' <=> Changing)
    BY <1>2 DEF DrainIDs, Changing
  <2>2. ASSUME Changing, NEW k \in Backups \ raced', live.dir # next.dir, Live(k)'
        PROVE  Key[k] \in drain
    <3>1. CASE k = j
      BY <1>4, <2>2, <3>1
    <3>2. CASE k # j
      BY <1>0, <1>4, <1>8, <2>2, <3>2, ReloadAssumption DEF ActionParts, DrainCovers
    <3> QED
      BY <3>1, <3>2
  <2> QED
    BY <1>0, <1>2, <2>1, <2>2 DEF ActionParts, DrainCovers
<1>13. JobKeepsDatabase'
  BY <1>0, <1>1, <1>2, <1>4 DEF ActionParts, JobKeepsItsConfig, JobKeepsDatabase
<1>14. BackupKeepsDir'
  BY <1>0, <1>2, <1>3, <1>4, <1>8, ReloadAssumption DEF ActionParts, JobKeepsItsConfig,
     BackupKeepsDir
<1> QED
  BY <1>5, <1>6, <1>7, <1>9, <1>10, <1>11, <1>12, <1>13, <1>14, PartsAre
  DEF ActionParts, JobKeepsItsConfig

\* A pool opened behind its CloseDB has slipped through.
LEMMA PoolOpensKeeps == ASSUME ReloadInv, NEW d \in Dbs, PoolOpens(d) PROVE ReloadInv'
<1>0. ReloadTypeOK /\ Locals /\ ActionParts /\ PoolParts /\ WindowFits
  BY PartsAre
<1>1. UNCHANGED <<live, who, hook, next, drain, todo, draining, stage, meant, dir, raced,
                  pool, window, strayed>>
      /\ pool[d] = NoDsn
  BY DEF PoolOpens, controller, actions
<1>2. Dsn(live, d) # NoDsn /\ Dsn(live, d) \in Dsns
  BY <1>0, DsnIs DEF PoolOpens, ReloadTypeOK
<1>3. /\ getter' \in [db : Dbs \cup {NoDb}, dsn : Dsns]
      /\ getter'.db = d /\ getter'.dsn = Dsn(live, d)
  BY <1>2 DEF PoolOpens
<1>4. /\ slipped' \subseteq Dbs /\ slipped \subseteq slipped'
      /\ hook = "close" /\ d \in drain \ todo => d \in slipped'
  BY <1>0 DEF PoolOpens, ReloadTypeOK
<1>5. ReloadTypeOK'
  BY <1>0, <1>1, <1>3, <1>4 DEF PoolOpens, controller, actions, ReloadTypeOK
<1>6. Locals' /\ WindowFits'
  BY <1>0, <1>1 DEF Locals, WindowFits
<1>7. ActionParts'
  BY <1>0, <1>1, ActionsSame
<1>8. PoolParts'
  <2>1. GetterIsLive'
    BY <1>1, <1>2, <1>3 DEF GetterIsLive, Dsn, Ids
  <2>2. PoolIsLive'
    BY <1>0, <1>1, <1>4 DEF PoolParts, PoolIsLive
  <2>3. ClosedAll'
    BY <1>0, <1>1, <1>3, <1>4 DEF PoolParts, ClosedAll
  <2> QED
    BY <2>1, <2>2, <2>3 DEF PoolParts
<1> QED
  BY <1>5, <1>6, <1>7, <1>8, PartsAre

LEMMA PoolPingedKeeps == ASSUME ReloadInv, PoolPinged PROVE ReloadInv'
<1>0. ReloadTypeOK /\ Locals /\ ActionParts /\ PoolParts /\ WindowFits
  BY PartsAre
<1>1. UNCHANGED <<live, who, hook, next, drain, todo, draining, stage, meant, dir, raced,
                  slipped, window, strayed>>
      /\ getter' = NoGetter
  BY DEF PoolPinged, controller, actions, ghosts
<1>2. PICK g : g = getter.db /\ g \in Dbs \cup {NoDb} /\ getter.dsn \in Dsns
  BY <1>0 DEF ReloadTypeOK
<1>3. /\ pool' \in [Dbs -> Dsns]
      /\ \A d \in Dbs : pool'[d] = pool[d] \/ (d = g /\ pool'[d] = getter.dsn)
  BY <1>0, <1>2 DEF PoolPinged, ReloadTypeOK
<1>4. ReloadTypeOK'
  <2>1. getter' \in [db : Dbs \cup {NoDb}, dsn : Dsns]
    BY <1>1 DEF NoGetter, Dsns
  <2> QED
    BY <1>0, <1>1, <1>3, <2>1 DEF PoolPinged, controller, actions, ghosts, ReloadTypeOK
<1>5. Locals' /\ WindowFits'
  BY <1>0, <1>1 DEF Locals, WindowFits
<1>6. ActionParts'
  BY <1>0, <1>1, ActionsSame
<1>7. PoolParts'
  <2>0. getter'.db = NoDb
    BY <1>1 DEF NoGetter
  <2>1. GetterIsLive'
    BY <2>0 DEF GetterIsLive
  <2>2. PoolIsLive'
    <3> SUFFICES ASSUME NEW d \in Dbs \ slipped, pool'[d] # NoDsn PROVE pool'[d] = Dsn(live, d)
      BY <1>1 DEF PoolIsLive, Dsn, Ids
    <3>1. CASE pool'[d] = pool[d]
      BY <1>0, <3>1 DEF PoolParts, PoolIsLive
    <3>2. CASE d = g /\ pool'[d] = getter.dsn
      <4>1. g # NoDb
        BY <3>2, ReloadAssumption
      <4> QED
        BY <1>0, <1>2, <3>2, <4>1 DEF PoolParts, GetterIsLive
    <3> QED
      BY <1>3, <3>1, <3>2
  <2>3. ClosedAll'
    BY <1>0, <1>1, <1>2, <1>3, <2>0, ReloadAssumption DEF PoolParts, ClosedAll
  <2> QED
    BY <2>1, <2>2, <2>3 DEF PoolParts
<1> QED
  BY <1>4, <1>5, <1>6, <1>7, PartsAre

\* The new database is added to what was read.
LEMMA AddedFits ==
  ASSUME NEW c \in Configs, NEW d \in Dbs, NEW p \in Paths
  PROVE  [c EXCEPT !.path[d] = p] \in Configs
BY DEF Configs

LEMMA JobStepKeeps ==
  ASSUME ReloadInv, NEW j \in Jobs, Take(j) \/ Requeue(j) \/ JobSteps(j)
  PROVE  ReloadInv'
<1>0. ReloadTypeOK /\ Registering /\ {"no", "ended"} \cup Before \cup After = Stages
  BY DEF ReloadInv, Before, After, Stages
<1>1. ASSUME NEW from \in Before \cup {"queued", "running"}, NEW to \in Stages, Move(j, from, to),
             from \in Before => to \in Before \cup {"ended"},
             from \notin Before => to = "ended" \/ (from = "queued" /\ to = "running"),
             OnlyStage, UNCHANGED <<meant, dir, raced>>
      PROVE  ReloadInv'
  BY <1>0, <1>1, MoveKeeps DEF OnlyStage, ReloadTypeOK, Before, After
<1>2. CASE Take(j) \/ Requeue(j) \/ Admit(j)
  <2>1. PICK from \in Before, to \in Before \cup {"ended"} : Move(j, from, to)
    BY <1>2 DEF Take, Requeue, Admit, Before
  <2>2. OnlyStage /\ UNCHANGED <<meant, dir, raced>>
    BY <1>2 DEF Take, Requeue, Admit
  <2> QED
    BY <1>0, <1>1, <2>1, <2>2
<1>3. CASE Record(j)
  BY <1>3, RecordKeeps
<1>4. CASE Run(j)
  <2>1. PICK to \in {"running", "ended"} : Move(j, "queued", to)
    BY <1>4 DEF Run
  <2>2. OnlyStage /\ UNCHANGED <<meant, dir, raced>>
    BY <1>4 DEF Run
  <2> QED
    BY <1>0, <1>1, <2>1, <2>2 DEF Before, After
<1>5. CASE End(j)
  BY <1>0, <1>1, <1>5 DEF End, Before, After
<1>6. CASE RegisterLoads(j)
  <2>1. PICK to \in {"loaded", "ended"} : Move(j, "running", to)
    BY <1>6 DEF RegisterLoads
  <2>2. draft' \in [Jobs -> Configs]
    BY <1>0, <1>6 DEF RegisterLoads, ReloadTypeOK
  <2>3. /\ UNCHANGED <<live, controller, pools, window, edits, meant, dir, raced, slipped,
                       strayed>>
        /\ file' \in Configs \cup {Broken} /\ event' \in BOOLEAN /\ rejected' \in BOOLEAN
    BY <1>0, <1>6 DEF RegisterLoads, ghosts, ReloadTypeOK
  <2>4. j \in Registers
    BY <1>6 DEF RegisterLoads
  <2> QED
    BY <1>0, <2>1, <2>2, <2>3, <2>4, MoveKeeps DEF Before, After
<1>7. ASSUME NEW d \in Dbs, NEW p \in Paths, RegisterSaves(j, d, p) PROVE ReloadInv'
  <2>1. Move(j, "loaded", "saved") /\ j \in Registers
    BY <1>0, <1>7 DEF RegisterSaves, Move, Registering
  <2>2. draft' \in [Jobs -> Configs]
    BY <1>0, <1>7, ReloadAssumption DEF RegisterSaves, ReloadTypeOK
  <2>3. file' \in Configs
    BY <1>0, <1>7, AddedFits DEF RegisterSaves, ReloadTypeOK
  <2>4. /\ UNCHANGED <<live, controller, pools, window, edits, meant, dir, raced, slipped,
                       strayed>>
        /\ event' \in BOOLEAN /\ rejected' \in BOOLEAN
    BY <1>7 DEF RegisterSaves
  <2> QED
    BY <1>0, <2>1, <2>2, <2>3, <2>4, MoveKeeps DEF Before, After
<1>8. CASE RegisterDenied(j)
  <2>1. Move(j, "loaded", "ended")
    BY <1>8 DEF RegisterDenied
  <2>2. draft' \in [Jobs -> Configs]
    BY <1>0, <1>8, ReloadAssumption DEF RegisterDenied, ReloadTypeOK
  <2>3. /\ UNCHANGED <<live, controller, pools, window, edits, meant, dir, raced, slipped,
                       strayed>>
        /\ file' \in Configs \cup {Broken} /\ event' \in BOOLEAN /\ rejected' \in BOOLEAN
    BY <1>0, <1>8 DEF RegisterDenied, ghosts, ReloadTypeOK
  <2> QED
    BY <1>0, <2>1, <2>2, <2>3, MoveKeeps DEF Before, After
<1>9. CASE RegisterReloads(j)
  <2>1. j \in Registers /\ event' \in BOOLEAN
    BY <1>0, <1>9 DEF RegisterReloads, Registering, ReloadTypeOK
  <2> QED
    BY <1>9, <2>1, LockKeeps DEF RegisterReloads
<1> QED
  BY <1>2, <1>3, <1>4, <1>5, <1>6, <1>7, <1>8, <1>9 DEF JobSteps

LEMMA ApplyKeeps == ASSUME ReloadInv, Apply PROVE ReloadInv'
<1>0. ReloadTypeOK
  BY DEF ReloadInv
<1>1. CASE LoadRefused
  <2>1. rejected' \in BOOLEAN /\ strayed' = strayed /\ strayed \in BOOLEAN /\ hook = "load"
    BY <1>0, <1>1 DEF LoadRefused, ReloadTypeOK
  <2>2. /\ Unlock /\ UNCHANGED <<file, event, live, pools, window, edits>>
        /\ UNCHANGED <<meant, dir, raced, slipped>>
    BY <1>1 DEF LoadRefused
  <2> QED
    BY <2>1, <2>2, UnlockKeeps
<1>2. CASE WaitTimeout
  BY <1>2, UnlockKeeps DEF WaitTimeout
<1>3. CASE Finish
  BY <1>0, <1>3, UnlockKeeps DEF Finish, ghosts, ReloadTypeOK
<1> QED
  BY <1>1, <1>2, <1>3, LoadAcceptedKeeps, MarkDrainingKeeps, DropPendingKeeps,
     RemapStateKeeps, WaitIdleKeeps, WaitDoneKeeps, CloseDBKeeps, SwapKeeps DEF Apply

LEMMA OperatorEditsKeeps == ASSUME ReloadInv, OperatorEdits PROVE ReloadInv'
<1>0. ReloadTypeOK /\ Locals /\ ActionParts /\ PoolParts /\ WindowFits
  BY PartsAre
<1>1. UNCHANGED <<live, who, hook, next, drain, todo, draining, stage, draft, pool, getter,
                  window,
                  meant, dir, raced, slipped, strayed>>
  BY DEF OperatorEdits, controller, actions, pools
<1>2. ReloadTypeOK'
  <2>1. edits' \in 0..MaxEdits
    BY <1>0, ReloadAssumption DEF OperatorEdits, ReloadTypeOK
  <2>2. file' \in Configs \cup {Broken} /\ event' \in BOOLEAN /\ rejected' \in BOOLEAN
    BY ReloadAssumption DEF OperatorEdits
  <2> QED
    BY <1>0, <1>1, <2>1, <2>2 DEF ReloadTypeOK
<1>3. Locals' /\ WindowFits'
  BY <1>0, <1>1 DEF Locals, WindowFits
<1>4. ActionParts' /\ PoolParts'
  BY <1>0, <1>1, ActionsSame, PoolsSame
<1> QED
  BY <1>2, <1>3, <1>4, PartsAre

LEMMA ReloadInvStep == ReloadInv /\ [ReloadNext]_reloadVars => ReloadInv'
<1> SUFFICES ASSUME ReloadInv, [ReloadNext]_reloadVars PROVE ReloadInv'
  OBVIOUS
<1>1. CASE WatchFires
  BY <1>1, LockKeeps DEF WatchFires
<1>2. CASE ClientReloads
  <2>1. event' \in BOOLEAN
    BY <1>2 DEF ClientReloads, ReloadInv, ReloadTypeOK
  <2> QED
    BY <1>2, <2>1, LockKeeps DEF ClientReloads
<1>3. CASE UNCHANGED reloadVars
  <2>0. ReloadTypeOK /\ Locals /\ ActionParts /\ PoolParts /\ WindowFits
    BY PartsAre
  <2>1. ReloadTypeOK'
    BY <1>3, <2>0 DEF reloadVars, controller, actions, pools, ghosts, ReloadTypeOK
  <2>2. Locals' /\ WindowFits'
    BY <1>3, <2>0 DEF reloadVars, controller, ghosts, Locals, WindowFits
  <2>3. ActionParts'
    BY <1>3, <2>0, ActionsSame DEF reloadVars, controller, actions, ghosts
  <2>4. PoolParts'
    BY <1>3, <2>0, PoolsSame DEF reloadVars, controller, pools, ghosts
  <2> QED
    BY <2>1, <2>2, <2>3, <2>4, PartsAre
<1> QED
  BY <1>1, <1>2, <1>3, ApplyKeeps, OperatorEditsKeeps, AskKeeps, JobStepKeeps, PoolOpensKeeps,
     PoolPingedKeeps DEF ReloadNext

\* The hooks of a reload keep their promises to each other whatever requests,
\* jobs, pools and edits of the file come between them.
THEOREM ReloadInvariant == ReloadSpec => []ReloadInv
BY ReloadInvInit, ReloadInvStep, PTL DEF ReloadSpec

\* No reload moves the path, the server or the backup directory under an action
\* or a job, but those that raced the drop.
THEOREM ReloadKeepsJobs == ReloadSpec => []JobKeepsItsConfig
<1>1. ReloadInv => JobKeepsItsConfig
  BY DEF ReloadInv
<1> QED
  BY <1>1, ReloadInvariant, PTL

\* No pool opened before its CloseDB survives a reload, and the maintenance
\* window belongs to a configured database between reloads.
THEOREM ReloadStateFollows == ReloadSpec => []StateFollowsConfig
<1>1. ReloadInv => StateFollowsConfig
  <2> SUFFICES ASSUME ReloadInv PROVE StateFollowsConfig
    OBVIOUS
  <2>1. ReloadTypeOK /\ WindowFits /\ PoolIsLive
    BY DEF ReloadInv
  <2>2. WindowKnown
    BY <2>1 DEF ReloadTypeOK, WindowFits, WindowKnown
  <2> QED
    BY <2>1, <2>2 DEF StateFollowsConfig
<1> QED
  BY <1>1, ReloadInvariant, PTL
=============================================================================
