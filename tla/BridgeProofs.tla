---------------------------- MODULE BridgeProofs ----------------------------
(***************************************************************************)
(* Machine-checked proofs about Bridge and the Transport under it, for any *)
(* client lines, other clients, identities, limit blocks, session ids and  *)
(* number of crashes, reloads, dropped sessions and throttled requests;    *)
(* and, at the end, about Setup, the command that writes the remote mode   *)
(* the transport serves.  The two specifications share no variable.        *)
(***************************************************************************)
EXTENDS Bridge, Setup, FiniteSetTheorems, TLAPS

-----------------------------------------------------------------------------
(* Limits and guards *)

\* Whatever block is laid over it, a limit stays a number and the session cap
\* is never zero.
LEMMA LaidOverFits ==
  ASSUME NEW l \in Limits, NEW o \in Limits, l.live > 0
  PROVE  LaidOver(l, o) \in Limits /\ LaidOver(l, o).live > 0
<1>1. DOMAIN l = {"sessions", "streams", "live"}
  BY DEF Limits
<1>2. LaidOver(l, o) = [f \in {"sessions", "streams", "live"} |-> IF o[f] > 0 THEN o[f] ELSE l[f]]
  BY <1>1 DEF LaidOver
<1> QED
  BY <1>2 DEF Limits

LEMMA LimitIsNat ==
  ASSUME NEW l \in Limits
  PROVE  l.sessions \in Nat /\ l.streams \in Nat /\ l.live \in Nat
BY DEF Limits

\* A counter below its limit has room for one more, and one above zero still
\* fits the limit when it falls.
LEMMA BelowIsRoom == \A a, b \in Nat : ~(a >= b) => a + 1 <= b
OBVIOUS

LEMMA FallsWithin == \A a, b \in Nat : a <= b => a - 1 <= b
OBVIOUS

LEMMA LimitsFit ==
  ASSUME NEW i \in Identities, NEW global \in LimitSets
  PROVE  EffectiveLimits(i, global) \in Limits /\ EffectiveLimits(i, global).live > 0
<1> DEFINE l == OrDefault(global)
           p == LaidOver(l, autonomousLimits)
<1>1. global \in Limits /\ Own[i] \in Limits
  BY TransportAssumption DEF Limits
<1>2. l \in Limits /\ l.live > 0
  BY <1>1 DEF Limits, OrDefault
<1>3. autonomousLimits \in Limits
  BY DEF autonomousLimits, Limits
<1>4. p \in Limits /\ p.live > 0
  BY <1>2, <1>3, LaidOverFits
<1>5. LaidOver(l, Own[i]) \in Limits /\ LaidOver(l, Own[i]).live > 0
  BY <1>1, <1>2, LaidOverFits
<1>6. LaidOver(p, Own[i]) \in Limits /\ LaidOver(p, Own[i]).live > 0
  BY <1>1, <1>4, LaidOverFits
<1> QED
  BY <1>5, <1>6 DEF EffectiveLimits

\* A finite set can be put in a row.
LEMMA InARow ==
  ASSUME NEW S, IsFiniteSet(S)
  PROVE  /\ Cardinality(S) \in Nat
         /\ \E s \in [1..Cardinality(S) -> S] : \A i \in S : \E k \in DOMAIN s : s[k] = i
<1>1. Cardinality(S) \in Nat /\ ExistsBijection(1..Cardinality(S), S)
  BY FS_CardinalityType
<1>2. PICK s : s \in Surjection(1..Cardinality(S), S)
  BY <1>1 DEF ExistsBijection, Bijection
<1> QED
  BY <1>1, <1>2 DEF Surjection

First(i) == newGuard(i, EffectiveLimits(i, FirstLimits))

LEMMA FirstFits ==
  ASSUME NEW i \in Identities
  PROVE  /\ First(i) \in GuardRec
         /\ First(i).id = i /\ First(i).limits = EffectiveLimits(i, FirstLimits)
         /\ First(i).inflight = 0 /\ First(i).streams = 0
<1>1. EffectiveLimits(i, FirstLimits) \in Limits
  BY LimitsFit, TransportAssumption
<1> QED
  BY <1>1 DEF First, newGuard, GuardRec

\* A fresh Authenticator has one idle guard with the right limits per identity.
LEMMA FreshGuardsFit ==
  /\ FreshGuards(Identities) \in Seq(GuardRec)
  /\ \A k \in DOMAIN FreshGuards(Identities) :
       LET g == FreshGuards(Identities)[k]
       IN  /\ g.limits = EffectiveLimits(g.id, FirstLimits)
           /\ g.inflight = 0 /\ g.streams = 0
  /\ \A i \in Identities : \E k \in DOMAIN FreshGuards(Identities) :
       FreshGuards(Identities)[k].id = i
<1> DEFINE n == Cardinality(Identities)
           G == {First(i) : i \in Identities}
           P(s) == \A i \in Identities : \E k \in DOMAIN s : s[k].id = i
           f == FreshGuards(Identities)
<1>1. n \in Nat
  BY InARow, TransportAssumption
<1>2. PICK o \in [1..n -> Identities] : \A i \in Identities : \E k \in DOMAIN o : o[k] = i
  BY InARow, TransportAssumption
<1>3. [k \in 1..n |-> First(o[k])] \in [1..n -> G]
  BY <1>2
<1>4. P([k \in 1..n |-> First(o[k])])
  <2> SUFFICES ASSUME NEW i \in Identities
               PROVE  \E k \in 1..n : [j \in 1..n |-> First(o[j])][k].id = i
    OBVIOUS
  <2>1. PICK k \in 1..n : o[k] = i
    BY <1>2
  <2> QED
    BY <2>1, FirstFits
<1>5. f = CHOOSE s \in [1..n -> G] : P(s)
  BY DEF FreshGuards, First
<1>6. f \in [1..n -> G] /\ P(f)
  <2> HIDE DEF P, G, f, n
  <2> QED
    BY <1>3, <1>4, <1>5
<1>7. \A k \in 1..n : f[k] \in GuardRec /\ f[k].limits = EffectiveLimits(f[k].id, FirstLimits)
                     /\ f[k].inflight = 0 /\ f[k].streams = 0
  <2> SUFFICES ASSUME NEW k \in 1..n
               PROVE  f[k] \in GuardRec /\ f[k].limits = EffectiveLimits(f[k].id, FirstLimits)
                      /\ f[k].inflight = 0 /\ f[k].streams = 0
    OBVIOUS
  <2>1. PICK i \in Identities : f[k] = First(i)
    BY <1>6
  <2> QED
    BY <2>1, FirstFits
<1> HIDE DEF f
<1>8. f \in Seq(GuardRec)
  <2>1. f \in [1..n -> GuardRec]
    BY <1>6, <1>7
  <2> QED
    BY <1>1, <2>1
<1>9. DOMAIN f = 1..n
  BY <1>6
<1> QED
  BY <1>6, <1>7, <1>8, <1>9 DEF f

Start(gs, of) ==
  /\ gs = FreshGuards(Identities)
  /\ of = [i \in Identities |-> CHOOSE k \in DOMAIN gs : gs[k].id = i]

LEMMA StartFits ==
  ASSUME NEW gs, NEW of, Start(gs, of)
  PROVE  /\ gs \in Seq(GuardRec)
         /\ of \in [Identities -> 0..Len(gs)]
         /\ \A i \in Identities : of[i] # 0 /\ gs[of[i]].limits = EffectiveLimits(i, FirstLimits)
         /\ \A k \in DOMAIN gs : gs[k].inflight = 0 /\ gs[k].streams = 0 /\ gs[k].limits \in Limits
<1>0. gs = FreshGuards(Identities)
  BY DEF Start
<1>1. gs \in Seq(GuardRec) /\ DOMAIN gs = 1..Len(gs) /\ Len(gs) \in Nat
  BY <1>0, FreshGuardsFit
<1>2. ASSUME NEW i \in Identities
      PROVE  of[i] \in 1..Len(gs) /\ gs[of[i]].limits = EffectiveLimits(i, FirstLimits)
  <2>1. \E k \in DOMAIN gs : gs[k].id = i
    BY <1>0, FreshGuardsFit
  <2>2. of[i] \in DOMAIN gs /\ gs[of[i]].id = i
    BY <2>1 DEF Start
  <2> QED
    BY <1>0, <1>1, <2>2, FreshGuardsFit
<1>3. \A k \in DOMAIN gs : gs[k].inflight = 0 /\ gs[k].streams = 0 /\ gs[k] \in GuardRec
  BY <1>0, <1>1, FreshGuardsFit
<1>4. \A k \in DOMAIN gs : gs[k].limits \in Limits
  BY <1>3 DEF GuardRec
<1>5. of \in [Identities -> 0..Len(gs)] /\ \A i \in Identities : of[i] # 0
  <2>1. \A i \in Identities : of[i] \in 0..Len(gs) /\ of[i] # 0
    BY <1>1, <1>2
  <2>2. of = [i \in Identities |-> of[i]]
    BY DEF Start
  <2> QED
    BY <2>1, <2>2
<1> QED
  BY <1>1, <1>2, <1>3, <1>4, <1>5

\* rebuildGuards appends idle guards and changes none that a request may hold.
LEMMA RebuildFits ==
  ASSUME TransportTypeOK, NEW ids \in SUBSET Identities, rebuildGuards(ids)
  PROVE  /\ guards' \in Seq(GuardRec)
         /\ guardOf' \in [Identities -> 0..Len(guards')]
         /\ Len(guards) \in Nat /\ Len(guards') \in Nat /\ Len(guards) <= Len(guards')
         /\ \A k \in 1..Len(guards) : guards'[k] = guards[k]
         /\ \A k \in 1..Len(guards') : k > Len(guards) =>
              guards'[k].inflight = 0 /\ guards'[k].streams = 0 /\ guards'[k].limits \in Limits
<1> DEFINE keeps == {i \in ids : /\ guardOf[i] # 0
                                 /\ guards[guardOf[i]].limits = EffectiveLimits(i, limits)}
           fresh == ids \ keeps
           n     == Cardinality(fresh)
           Q(s)  == \A i \in fresh : \E k \in DOMAIN s : s[k] = i
           order == CHOOSE s \in [1..n -> fresh] : Q(s)
           more  == [k \in DOMAIN order |-> newGuard(order[k], EffectiveLimits(order[k], limits))]
<1>1. /\ guards' = guards \o more
      /\ guardOf' = [i \in Identities |->
           CASE i \in keeps -> guardOf[i]
             [] i \in fresh -> Len(guards) + CHOOSE k \in DOMAIN order : order[k] = i
             [] OTHER -> 0]
  BY DEF rebuildGuards
<1>2. IsFiniteSet(fresh)
  BY FS_Subset, TransportAssumption
<1>3. n \in Nat /\ order \in [1..n -> fresh] /\ Q(order)
  <2>1. n \in Nat /\ \E s \in [1..n -> fresh] : Q(s)
    BY <1>2, InARow
  <2> HIDE DEF fresh, n, Q
  <2> QED
    BY <2>1
<1>4. fresh \subseteq Identities /\ limits \in LimitSets
  BY DEF TransportTypeOK
<1> HIDE DEF order, n
<1>5. ASSUME NEW k \in 1..n
      PROVE  more[k] \in GuardRec /\ more[k].inflight = 0 /\ more[k].streams = 0
             /\ more[k].limits \in Limits
  <2>1. order[k] \in Identities
    BY <1>3, <1>4
  <2>2. EffectiveLimits(order[k], limits) \in Limits
    BY <1>4, <2>1, LimitsFit
  <2>3. more[k] = newGuard(order[k], EffectiveLimits(order[k], limits))
    BY <1>3
  <2> QED
    BY <2>1, <2>2, <2>3 DEF newGuard, GuardRec
<1>6. DOMAIN more = 1..n
  BY <1>3
<1> HIDE DEF more
<1>7. more \in Seq(GuardRec) /\ Len(more) = n
  <2>1. more \in [1..n -> GuardRec]
    <3>1. more = [k \in DOMAIN more |-> more[k]]
      BY DEF more
    <3> QED
      BY <1>5, <1>6, <3>1
  <2> QED
    BY <1>3, <2>1
<1>8. guards \in Seq(GuardRec) /\ Len(guards) \in Nat
  BY DEF TransportTypeOK
<1>9. /\ guards' \in Seq(GuardRec) /\ Len(guards') = Len(guards) + n
      /\ \A k \in 1..Len(guards) : guards'[k] = guards[k]
      /\ \A k \in 1..Len(guards') : k > Len(guards) => guards'[k] = more[k - Len(guards)]
  BY <1>1, <1>3, <1>7, <1>8
<1>10. ASSUME NEW k \in 1..Len(guards'), k > Len(guards)
       PROVE  guards'[k].inflight = 0 /\ guards'[k].streams = 0 /\ guards'[k].limits \in Limits
  <2>1. k - Len(guards) \in 1..n /\ guards'[k] = more[k - Len(guards)]
    BY <1>3, <1>8, <1>9, <1>10
  <2> QED
    BY <2>1, <1>5
<1>11. ASSUME NEW i \in Identities PROVE guardOf'[i] \in 0..Len(guards')
  <2>1. guardOf[i] \in 0..Len(guards)
    BY DEF TransportTypeOK
  <2>2. CASE i \in keeps
    BY <1>1, <1>3, <1>8, <1>9, <2>1, <2>2
  <2>3. CASE i \in fresh
    <3>1. PICK k \in DOMAIN order : order[k] = i
      BY <1>3, <2>3
    <3>2. (CHOOSE j \in DOMAIN order : order[j] = i) \in 1..n
      BY <1>3, <3>1
    <3>3. guardOf'[i] = Len(guards) + CHOOSE j \in DOMAIN order : order[j] = i
      BY <1>1, <2>3
    <3> QED
      BY <1>3, <1>8, <1>9, <3>2, <3>3
  <2>4. CASE i \notin keeps /\ i \notin fresh
    BY <1>1, <1>3, <1>8, <1>9, <2>4
  <2> QED
    BY <2>2, <2>3, <2>4
<1>12. guardOf' \in [Identities -> 0..Len(guards')]
  <2> HIDE DEF keeps, fresh
  <2> QED
    BY <1>1, <1>11
<1> QED
  BY <1>3, <1>8, <1>9, <1>10, <1>12

-----------------------------------------------------------------------------
(* Counting *)

\* What the guards and the tracker count is known together.
Counted == TransportTypeOK /\ InsideFits /\ FirstGuards /\ LimitsHold

AllFinite ==
  /\ \A g, stream : IsFiniteSet(Holders(g, stream)) /\ Cardinality(Holders(g, stream)) \in Nat
  /\ \A id : IsFiniteSet(Opening(id)) /\ Cardinality(Opening(id)) \in Nat
  /\ \A id : IsFiniteSet(TrackedBy(id)) /\ Cardinality(TrackedBy(id)) \in Nat

LEMMA CountedFinite == AllFinite /\ AllFinite'
<1>1. AllFinite
  <2>1. IsFiniteSet(Requests) /\ IsFiniteSet(Sids)
    BY TransportAssumption, FS_Interval DEF Sids
  <2>2. \A g, stream : Holders(g, stream) \in SUBSET Requests
    BY DEF Holders
  <2>3. \A id : Opening(id) \in SUBSET Requests
    BY DEF Opening
  <2>4. \A id : TrackedBy(id) \in SUBSET Sids
    BY DEF TrackedBy
  <2> QED
    BY <2>1, <2>2, <2>3, <2>4, FS_Subset, FS_CardinalityType DEF AllFinite
<1> QED
  BY <1>1, PTL

\* Nobody entered or left: the same requests hold slots.
SameInside ==
  \A r \in Requests :
    /\ Inside(r)' <=> Inside(r)
    /\ Inside(r) => /\ req'[r].g = req[r].g /\ req'[r].kind = req[r].kind
                    /\ req'[r].id = req[r].id /\ req'[r].opening = req[r].opening

LEMMA SameHolders ==
  ASSUME SameInside
  PROVE  /\ \A g, stream : Holders(g, stream)' = Holders(g, stream)
         /\ \A id : Opening(id)' = Opening(id)
BY DEF SameInside, Inside, Holders, Opening, Stream

LEMMA CapKept ==
  ASSUME CapOvershoot, up' => up, ~reloaded' => ~reloaded,
         \A id \in Identities :
           Cardinality(TrackedBy(id))' + Cardinality(Opening(id))'
             <= Cardinality(TrackedBy(id)) + Cardinality(Opening(id))
  PROVE  CapOvershoot'
<1> SUFFICES ASSUME up', ~reloaded', NEW id \in Identities
             PROVE  Cardinality(TrackedBy(id))' + Cardinality(Opening(id))'
                      <= EffectiveLimits(id, FirstLimits).live - 1
                         + EffectiveLimits(id, FirstLimits).sessions
  BY DEF CapOvershoot
<1> DEFINE b == EffectiveLimits(id, FirstLimits).live - 1 + EffectiveLimits(id, FirstLimits).sessions
<1>1. Cardinality(TrackedBy(id)) + Cardinality(Opening(id)) <= b
  BY DEF CapOvershoot
<1>2. b \in Int
  BY LimitsFit, TransportAssumption DEF Limits
<1>3. Cardinality(TrackedBy(id))' \in Nat /\ Cardinality(Opening(id))' \in Nat
  BY CountedFinite DEF AllFinite
<1> QED
  BY <1>1, <1>2, <1>3, CountedFinite DEF AllFinite

\* A step that leaves guards, tracker and the requests inside alone.
LEMMA QuietKeeps ==
  ASSUME Counted, TransportTypeOK', SameInside, InsideFits',
         UNCHANGED <<up, guards, guardOf, reload, reloaded, tracked>>
  PROVE  Counted'
<1>1. /\ \A g, stream : Holders(g, stream)' = Holders(g, stream)
      /\ \A id : Opening(id)' = Opening(id) /\ TrackedBy(id)' = TrackedBy(id)
  BY SameHolders DEF TrackedBy
<1>2. FirstGuards'
  BY DEF Counted, FirstGuards, SameInside, Inside
<1>3. SlotsBalance'
  BY <1>1 DEF Counted, LimitsHold, SlotsBalance
<1>4. CapOvershoot'
  BY <1>1 DEF Counted, LimitsHold, CapOvershoot
<1> QED
  BY <1>2, <1>3, <1>4 DEF Counted, LimitsHold

\* The slot of one request is rewritten.
LEMMA OneSlot ==
  ASSUME TransportTypeOK, NEW r \in Requests, NEW q \in SlotRec, req' = [req EXCEPT ![r] = q]
  PROVE  /\ req' \in [Requests -> SlotRec]
         /\ req'[r] = q /\ \A s \in Requests : s # r => req'[s] = req[s]
BY DEF TransportTypeOK

LEMMA SentTyped ==
  ASSUME NEW kind \in {"initialize", "initialized", "call", "get", "delete"},
         NEW id \in Identities, NEW sid \in Sids \cup {NoSid}
  PROVE  /\ Sent(kind, id, sid) \in SlotRec
         /\ Sent(kind, id, sid).pc = "sent" /\ Sent(kind, id, sid).kind = kind
         /\ Sent(kind, id, sid).id = id /\ Sent(kind, id, sid).sid = sid
         /\ Sent(kind, id, sid).status = 0
BY DEF Sent, Idle, SlotRec, SlotPcs

LEMMA OverTyped ==
  ASSUME NEW status \in Nat, NEW new \in Sids \cup {NoSid}
  PROVE  /\ Over(status, new) \in SlotRec
         /\ Over(status, new).pc = "over" /\ Over(status, new).status = status
BY DEF Over, Idle, SlotRec, SlotPcs

Dead == [Idle EXCEPT !.pc = "dead"]

LEMMA DeadTyped == Dead \in SlotRec /\ Dead.pc = "dead" /\ Dead.status = 0
BY DEF Dead, Idle, SlotRec, SlotPcs

\* A request is replaced by one outside the guards, and was outside before.
LEMMA OutsideKeeps ==
  ASSUME Counted, NEW r \in Requests, NEW q \in SlotRec, req' = [req EXCEPT ![r] = q],
         ~Inside(r), q.pc \notin {"admitted", "served"},
         q.pc \in {"sent", "known"} => up /\ q.id \in Identities,
         UNCHANGED <<up, lookup, guards, guardOf, limits, reload, tracked, live, ran,
                     issued, reloaded, noteAs>>, faults' \in Nat
  PROVE  Counted'
<1>1. /\ req' \in [Requests -> SlotRec]
      /\ req'[r] = q /\ \A s \in Requests : s # r => req'[s] = req[s]
  BY OneSlot DEF Counted
<1>2. TransportTypeOK'
  BY <1>1 DEF Counted, TransportTypeOK
<1>3. SameInside
  BY <1>1 DEF SameInside, Inside
<1>4. InsideFits'
  BY <1>1 DEF Counted, InsideFits, Inside, SlotRec, SlotPcs
<1> QED
  BY <1>2, <1>3, <1>4, QuietKeeps

-----------------------------------------------------------------------------
(* The steps of the server keep the counts *)

LEMMA LookupCounts ==
  ASSUME Counted, NEW r \in Requests, Lookup(r)
  PROVE  Counted'
<1>0. TransportTypeOK /\ InsideFits /\ req[r] \in SlotRec
  BY DEF Counted, TransportTypeOK
<1>1. PICK q \in SlotRec : /\ req' = [req EXCEPT ![r] = q]
                           /\ (q.pc = "known" /\ q.id = req[r].id) \/ q.pc = "over"
  <2>1. CASE req[r].id \in lookup
    <3>1. [req[r] EXCEPT !.pc = "known"] \in SlotRec
      BY <1>0 DEF SlotRec, SlotPcs
    <3>2. req' = [req EXCEPT ![r] = [req[r] EXCEPT !.pc = "known"]]
      BY <1>0, <2>1 DEF Lookup, TransportTypeOK
    <3>3. /\ [req[r] EXCEPT !.pc = "known"].pc = "known"
          /\ [req[r] EXCEPT !.pc = "known"].id = req[r].id
      BY <1>0 DEF SlotRec
    <3> QED
      BY <3>1, <3>2, <3>3
  <2>2. CASE req[r].id \notin lookup
    <3>1. Over(401, NoSid) \in SlotRec /\ Over(401, NoSid).pc = "over"
      BY OverTyped
    <3> QED
      BY <2>2, <3>1 DEF Lookup, Reply
  <2> QED
    BY <2>1, <2>2
<1>2. ~Inside(r) /\ up /\ req[r].id \in Identities
  BY <1>0 DEF Lookup, Inside, InsideFits
<1> QED
  BY <1>0, <1>1, <1>2, OutsideKeeps DEF Lookup, TransportTypeOK

LEMMA ThrottleCounts ==
  ASSUME Counted, NEW r \in Requests, Throttle(r)
  PROVE  Counted'
<1>1. PICK q \in SlotRec : req' = [req EXCEPT ![r] = q] /\ q.pc = "over"
  <2>1. Over(429, NoSid) \in SlotRec /\ Over(429, NoSid).pc = "over"
    BY OverTyped
  <2> QED
    BY <2>1 DEF Throttle, Reply
<1>2. ~Inside(r) /\ faults' \in Nat
  BY DEF Throttle, Inside, Counted, TransportTypeOK
<1> QED
  BY <1>1, <1>2, OutsideKeeps DEF Throttle

\* hc.Do of the bridge, and a post of another client.
LEMMA SendCounts ==
  ASSUME Counted, NEW slot \in Requests,
         NEW kind \in {"initialize", "initialized", "call", "get", "delete"},
         NEW sid \in Sids \cup {NoSid}, Do(slot, kind, sid)
  PROVE  Counted'
<1>1. Me \in Identities /\ NoSid \in Sids \cup {NoSid}
  BY BridgeAssumption
<1>2. PICK q \in SlotRec : /\ req' = [req EXCEPT ![slot] = q]
                           /\ (q.pc = "sent" /\ q.id = Me /\ up) \/ q.pc = "dead"
  <2>1. Sent(kind, Me, sid) \in SlotRec /\ Sent(kind, Me, sid).pc = "sent"
        /\ Sent(kind, Me, sid).id = Me
    BY <1>1, SentTyped
  <2>2. req' = [req EXCEPT ![slot] = Dead]
        \/ (up /\ req' = [req EXCEPT ![slot] = Sent(kind, Me, sid)])
    <3>1. CASE up /\ (closed # "cancelled" \/ slot = DelSlot)
      BY <3>1 DEF Do
    <3>2. CASE ~(up /\ (closed # "cancelled" \/ slot = DelSlot))
      <4> DEFINE q == IF up /\ (closed # "cancelled" \/ slot = DelSlot) THEN Sent(kind, Me, sid) ELSE Dead
      <4>1. q = Dead
        BY <3>2
      <4>2. req' = [req EXCEPT ![slot] = q]
        BY DEF Do, Dead
      <4> QED
        BY <4>1, <4>2
    <3> QED
      BY <3>1, <3>2
  <2> QED
    BY <2>1, <2>2, DeadTyped
<1>3. ~Inside(slot) /\ faults' \in Nat
  BY DEF Do, Inside, Counted, TransportTypeOK
<1> QED
  BY <1>1, <1>2, <1>3, OutsideKeeps DEF Do

LEMMA DirectOpenCounts ==
  ASSUME Counted, NEW r \in Directs, DirectOpen(r)
  PROVE  Counted'
<1>1. Me \in Identities /\ NoSid \in Sids \cup {NoSid} /\ r \in Requests
  BY BridgeAssumption
<1>2. PICK q \in SlotRec : /\ req' = [req EXCEPT ![r] = q]
                           /\ q.pc = "sent" /\ q.id = Me /\ up
  <2>1. Sent("initialize", Me, NoSid) \in SlotRec /\ Sent("initialize", Me, NoSid).pc = "sent"
        /\ Sent("initialize", Me, NoSid).id = Me
    BY <1>1, SentTyped
  <2> QED
    BY <2>1 DEF DirectOpen
<1>3. ~Inside(r) /\ faults' \in Nat
  BY DEF DirectOpen, Inside, Counted, TransportTypeOK
<1> QED
  BY <1>1, <1>2, <1>3, OutsideKeeps DEF DirectOpen

LEMMA SdkStatusTyped ==
  ASSUME TransportTypeOK, NEW r \in Requests
  PROVE  SdkStatus(r) \in Nat
<1>1. SdkStatus(r) \in {404, 403, noteAs, 400, 204, 405, 200}
  BY DEF SdkStatus
<1>2. noteAs \in {200, 202}
  BY TransportAssumption DEF TransportTypeOK
<1> QED
  BY <1>1, <1>2

LEMMA ServeCounts ==
  ASSUME Counted, NEW r \in Requests, Serve(r)
  PROVE  Counted'
<1> DEFINE opens == req[r].kind = "initialize" /\ SdkStatus(r) = 200
           q == [req[r] EXCEPT !.pc = "served", !.status = SdkStatus(r),
                               !.new = IF opens THEN issued + 1 ELSE NoSid]
<1>0. TransportTypeOK /\ InsideFits /\ req[r] \in SlotRec /\ SdkStatus(r) \in Nat
  BY SdkStatusTyped DEF Counted, TransportTypeOK
<1>1. issued \in 0..MaxSids /\ MaxSids \in Nat /\ (opens => issued + 1 \in Sids /\ issued < MaxSids)
  <2>1. issued \in 0..MaxSids /\ MaxSids \in Nat
    BY <1>0, TransportAssumption DEF TransportTypeOK
  <2>2. opens => issued < MaxSids
    BY DEF Serve
  <2> HIDE DEF opens
  <2> QED
    BY <2>1, <2>2 DEF Sids
<1>2. issued' \in 0..MaxSids
  BY <1>1 DEF Serve
<1>3. (IF opens THEN issued + 1 ELSE NoSid) \in Sids \cup {NoSid}
  BY <1>1
<1>4. q \in SlotRec
  <2> HIDE DEF opens
  <2> QED
    BY <1>0, <1>3 DEF SlotRec, SlotPcs
<1>5. req' = [req EXCEPT ![r] = q]
  BY <1>0 DEF Serve, TransportTypeOK
<1>6. /\ q.pc = "served" /\ q.g = req[r].g /\ q.kind = req[r].kind
      /\ q.id = req[r].id /\ q.opening = req[r].opening
  BY <1>0 DEF SlotRec
<1> HIDE DEF q
<1>7. /\ req' \in [Requests -> SlotRec]
      /\ req'[r] = q /\ \A s \in Requests : s # r => req'[s] = req[s]
  BY <1>0, <1>4, <1>5, OneSlot
<1>8. Inside(r) /\ up /\ req[r].id \in Identities
  BY <1>0 DEF Serve, Inside, InsideFits
<1>9. SameInside
  BY <1>6, <1>7, <1>8 DEF SameInside, Inside
<1>10. live' \in [Sids -> Identities \cup {NoOne}]
  BY <1>0, <1>8 DEF Serve, TransportTypeOK
<1>11. ran' \in [Requests -> Nat]
  BY <1>0 DEF Serve, TransportTypeOK
<1>12. TransportTypeOK'
  BY <1>0, <1>2, <1>7, <1>10, <1>11 DEF Serve, TransportTypeOK
<1>13. InsideFits'
  BY <1>0, <1>6, <1>7, <1>8 DEF InsideFits, Inside, Serve
<1> QED
  BY <1>9, <1>12, <1>13, QuietKeeps DEF Serve

LEMMA SetLimitsCounts == ASSUME Counted, SetLimits PROVE Counted'
<1>0. TransportTypeOK /\ InsideFits /\ SlotsBalance
  BY DEF Counted, LimitsHold
<1>1. UNCHANGED <<up, tracked, live, req, ran, issued, noteAs, lookup, guards, guardOf>>
  BY DEF SetLimits, ReloadVars
<1>2. TransportTypeOK'
  BY <1>0, <1>1 DEF SetLimits, TransportTypeOK, secretsPartial
<1>3. InsideFits'
  BY <1>0, <1>1 DEF InsideFits, Inside
<1>4. SlotsBalance'
  BY <1>0, <1>1 DEF SlotsBalance, Holders, Stream
<1>5. FirstGuards' /\ CapOvershoot'
  BY DEF SetLimits, FirstGuards, CapOvershoot
<1> QED
  BY <1>2, <1>3, <1>4, <1>5 DEF Counted, LimitsHold

LEMMA ReplaceCounts == ASSUME Counted, Replace PROVE Counted'
<1>0. TransportTypeOK /\ InsideFits /\ SlotsBalance /\ FirstGuards
  BY DEF Counted, LimitsHold
<1>1. /\ UNCHANGED <<up, tracked, live, req, ran, issued, noteAs, limits, guards, guardOf>>
      /\ UNCHANGED <<reloaded, faults>>
  BY DEF Replace, ReloadVars
<1>2. TransportTypeOK'
  BY <1>0, <1>1 DEF Replace, TransportTypeOK
<1>3. InsideFits'
  BY <1>0, <1>1 DEF InsideFits, Inside
<1>4. SlotsBalance'
  BY <1>0, <1>1 DEF SlotsBalance, Holders, Stream
<1>5. reloaded'
  BY <1>0, <1>1 DEF Replace, FirstGuards
<1> QED
  BY <1>2, <1>3, <1>4, <1>5 DEF Counted, LimitsHold, FirstGuards, CapOvershoot

LEMMA RebuildCounts == ASSUME Counted, Rebuild PROVE Counted'
<1>0. TransportTypeOK /\ InsideFits /\ SlotsBalance /\ FirstGuards
  BY DEF Counted, LimitsHold
<1>1. /\ UNCHANGED <<up, tracked, live, req, ran, issued, noteAs, lookup, limits>>
      /\ UNCHANGED <<reloaded, faults>>
  BY DEF Rebuild, ReloadVars
<1>2. /\ guards' \in Seq(GuardRec)
      /\ guardOf' \in [Identities -> 0..Len(guards')]
      /\ Len(guards) \in Nat /\ Len(guards') \in Nat /\ Len(guards) <= Len(guards')
      /\ \A k \in 1..Len(guards) : guards'[k] = guards[k]
      /\ \A k \in 1..Len(guards') : k > Len(guards) =>
           guards'[k].inflight = 0 /\ guards'[k].streams = 0 /\ guards'[k].limits \in Limits
  <2>1. reload.named \in SUBSET Identities
    BY <1>0 DEF TransportTypeOK
  <2> QED
    BY <1>0, <2>1, RebuildFits DEF Rebuild
<1>3. TransportTypeOK'
  BY <1>0, <1>1, <1>2 DEF Rebuild, TransportTypeOK
<1>4. req \in [Requests -> SlotRec]
  BY <1>0 DEF TransportTypeOK
<1>5. InsideFits'
  BY <1>0, <1>1, <1>2, <1>4 DEF InsideFits, Inside, SlotRec
<1>6. \A g, stream : Holders(g, stream)' = Holders(g, stream)
  BY <1>1 DEF Holders, Stream
<1>7. SlotsBalance'
  <2> SUFFICES ASSUME up', NEW k \in DOMAIN guards'
               PROVE  /\ guards'[k].inflight = Cardinality(Holders(k, FALSE)')
                      /\ guards'[k].streams = Cardinality(Holders(k, TRUE)')
                      /\ guards'[k].inflight <= guards'[k].limits.sessions
                      /\ guards'[k].streams <= guards'[k].limits.streams
    BY DEF SlotsBalance
  <2>1. k \in 1..Len(guards')
    BY <1>2
  <2>2. CASE k <= Len(guards)
    <3>1. k \in DOMAIN guards /\ guards'[k] = guards[k]
      BY <1>0, <1>2, <2>1, <2>2 DEF TransportTypeOK
    <3> QED
      BY <1>0, <1>1, <1>6, <3>1 DEF SlotsBalance
  <2>3. CASE k > Len(guards)
    <3>1. \A stream : Holders(k, stream) = {}
      BY <1>0, <1>2, <1>4, <2>1, <2>3 DEF InsideFits, Inside, Holders, SlotRec
    <3>2. guards'[k].inflight = 0 /\ guards'[k].streams = 0 /\ guards'[k].limits \in Limits
      BY <1>2, <2>1, <2>3
    <3>3. Cardinality(Holders(k, FALSE)') = 0 /\ Cardinality(Holders(k, TRUE)') = 0
      BY <1>6, <3>1, FS_EmptySet
    <3>4. guards'[k].inflight <= guards'[k].limits.sessions
      BY <3>2, LimitIsNat
    <3>5. guards'[k].streams <= guards'[k].limits.streams
      BY <3>2, LimitIsNat
    <3> QED
      BY <3>2, <3>3, <3>4, <3>5
  <2>4. k <= Len(guards) \/ k > Len(guards)
    BY <1>2, <2>1
  <2> QED
    BY <2>2, <2>3, <2>4
<1>8. reloaded'
  BY <1>0, <1>1 DEF Rebuild, FirstGuards
<1> QED
  BY <1>3, <1>5, <1>7, <1>8 DEF Counted, LimitsHold, FirstGuards, CapOvershoot

\* A session that leaves the tracker leaves room under the cap.
LEMMA ForgetCounts ==
  ASSUME Counted, NEW s \in Sids, tracked' = [tracked EXCEPT ![s] = NoOne],
         UNCHANGED <<up, lookup, guards, guardOf, limits, reload, live, req, ran, issued,
                     reloaded, noteAs>>, faults' \in Nat
  PROVE  Counted'
<1>0. TransportTypeOK /\ InsideFits /\ FirstGuards /\ SlotsBalance /\ CapOvershoot
  BY DEF Counted, LimitsHold
<1>1. TransportTypeOK'
  BY <1>0 DEF TransportTypeOK
<1>2. InsideFits' /\ FirstGuards'
  BY <1>0 DEF InsideFits, FirstGuards, Inside
<1>3. SlotsBalance'
  BY <1>0 DEF SlotsBalance, Holders, Stream
<1>4. ASSUME NEW id \in Identities
      PROVE  Cardinality(TrackedBy(id))' + Cardinality(Opening(id))'
               <= Cardinality(TrackedBy(id)) + Cardinality(Opening(id))
  <2>1. Opening(id)' = Opening(id)
    BY DEF Opening
  <2>2. TrackedBy(id)' \in SUBSET TrackedBy(id)
    BY <1>0, TransportAssumption DEF TrackedBy, TransportTypeOK
  <2>3. Cardinality(TrackedBy(id)') <= Cardinality(TrackedBy(id))
    BY <2>2, CountedFinite, FS_Subset DEF AllFinite
  <2> QED
    BY <2>1, <2>3, CountedFinite DEF AllFinite
<1>5. CapOvershoot'
  BY <1>0, <1>4, CapKept
<1> QED
  BY <1>1, <1>2, <1>3, <1>5 DEF Counted, LimitsHold

LEMMA ExpireCounts == ASSUME Counted, Expire PROVE Counted'
<1>1. PICK s \in Sids : tracked' = [tracked EXCEPT ![s] = NoOne]
  BY DEF Expire
<1>2. faults' \in Nat
  BY DEF Expire, Counted, TransportTypeOK
<1> QED
  BY <1>1, <1>2, ForgetCounts DEF Expire

LEMMA SdkTimeoutCounts == ASSUME Counted, SdkTimeout PROVE Counted'
<1>0. TransportTypeOK
  BY DEF Counted
<1>1. PICK s \in Sids : live' = [live EXCEPT ![s] = NoOne]
  BY DEF SdkTimeout
<1>2. TransportTypeOK'
  BY <1>0, <1>1 DEF SdkTimeout, TransportTypeOK
<1>3. SameInside /\ InsideFits'
  BY DEF Counted, SameInside, InsideFits, Inside, SdkTimeout
<1> QED
  BY <1>2, <1>3, QuietKeeps DEF SdkTimeout

LEMMA BrokenTyped ==
  ASSUME NEW q \in SlotRec, NEW p \in {"cut", "dead"}
  PROVE  [q EXCEPT !.pc = p, !.g = 0] \in SlotRec
<1>1. p \in SlotPcs
  BY DEF SlotPcs
<1> QED
  BY <1>1 DEF SlotRec

LEMMA CrashCounts == ASSUME Counted, Crash PROVE Counted'
<1>0. TransportTypeOK /\ FirstGuards /\ req \in [Requests -> SlotRec]
  BY DEF Counted, TransportTypeOK
<1>1. ASSUME NEW r \in Requests
      PROVE  req'[r] \in SlotRec /\ req'[r].pc \in {"none", "over", "cut", "dead"}
  <2>1. CASE req[r].pc \in {"none", "over", "dead", "cut"}
    BY <1>0, <2>1 DEF Crash
  <2>2. CASE req[r].pc \notin {"none", "over", "dead", "cut"}
    <3>1. PICK p \in {"cut", "dead"} : req'[r] = [req[r] EXCEPT !.pc = p, !.g = 0]
      BY <2>2 DEF Crash
    <3>2. req[r] \in SlotRec
      BY <1>0
    <3>3. req'[r] \in SlotRec
      BY <3>1, <3>2, BrokenTyped
    <3>4. req'[r].pc = p
      BY <3>1, <3>2 DEF SlotRec
    <3> QED
      BY <3>3, <3>4
  <2> QED
    BY <2>1, <2>2
<1>2. req' \in [Requests -> SlotRec]
  <2>1. req' = [r \in Requests |-> req'[r]]
    BY DEF Crash
  <2> QED
    BY <1>1, <2>1
<1>3. TransportTypeOK'
  <2>1. /\ up' = FALSE /\ faults' = faults + 1
        /\ UNCHANGED <<lookup, guards, guardOf, limits, reload, tracked, live, ran, issued,
                       reloaded, noteAs>>
    BY DEF Crash
  <2>2. up' \in BOOLEAN
    BY <2>1
  <2>3. faults' \in Nat
    BY <1>0, <2>1 DEF TransportTypeOK
  <2> QED
    BY <1>0, <1>2, <2>1, <2>2, <2>3 DEF TransportTypeOK
<1>4. InsideFits'
  BY <1>1 DEF InsideFits, Inside
<1>5. FirstGuards'
  BY <1>0, <1>1 DEF FirstGuards, Inside, Crash
<1>6. LimitsHold'
  BY DEF LimitsHold, SlotsBalance, CapOvershoot, Crash
<1> QED
  BY <1>3, <1>4, <1>5, <1>6 DEF Counted

LEMMA RestartCounts == ASSUME Counted, Restart PROVE Counted'
<1>0. TransportTypeOK /\ InsideFits /\ FirstGuards /\ req \in [Requests -> SlotRec]
  BY DEF Counted, TransportTypeOK
<1>1. /\ guards' \in Seq(GuardRec)
      /\ guardOf' \in [Identities -> 0..Len(guards')]
      /\ \A i \in Identities :
           guardOf'[i] # 0 /\ guards'[guardOf'[i]].limits = EffectiveLimits(i, FirstLimits)
      /\ \A k \in DOMAIN guards' :
           guards'[k].inflight = 0 /\ guards'[k].streams = 0 /\ guards'[k].limits \in Limits
  <2>1. Start(guards', guardOf')
    BY DEF Restart, Start
  <2> QED
    BY <2>1, StartFits
<1>2. TransportTypeOK'
  BY <1>0, <1>1, TransportAssumption DEF Restart, TransportTypeOK
<1>3. \A r \in Requests : req[r].pc \notin {"sent", "known", "admitted", "served"}
  BY <1>0 DEF Restart, InsideFits
<1>4. InsideFits'
  BY <1>3 DEF Restart, InsideFits, Inside
<1>5. FirstGuards'
  BY <1>1, <1>3 DEF Restart, FirstGuards, Inside
<1>6. /\ \A g, stream : Holders(g, stream)' = {}
      /\ \A id \in Identities : Opening(id)' = {} /\ TrackedBy(id)' = {}
  <2>1. \A g, stream : Holders(g, stream)' = {}
    BY <1>3 DEF Restart, Holders
  <2>2. \A id \in Identities : Opening(id)' = {}
    BY <1>3 DEF Restart, Opening
  <2>3. \A id \in Identities : TrackedBy(id)' = {}
    BY TransportAssumption DEF Restart, TrackedBy
  <2> QED
    BY <2>1, <2>2, <2>3
<1>7. SlotsBalance'
  <2> SUFFICES ASSUME NEW k \in DOMAIN guards'
               PROVE  /\ guards'[k].inflight = Cardinality(Holders(k, FALSE)')
                      /\ guards'[k].streams = Cardinality(Holders(k, TRUE)')
                      /\ guards'[k].inflight <= guards'[k].limits.sessions
                      /\ guards'[k].streams <= guards'[k].limits.streams
    BY DEF SlotsBalance
  <2>1. Cardinality(Holders(k, FALSE)') = 0 /\ Cardinality(Holders(k, TRUE)') = 0
    BY <1>6, FS_EmptySet
  <2>2. guards'[k].inflight = 0 /\ guards'[k].streams = 0 /\ guards'[k].limits \in Limits
    BY <1>1
  <2>3. guards'[k].inflight <= guards'[k].limits.sessions
    BY <2>2, LimitIsNat
  <2>4. guards'[k].streams <= guards'[k].limits.streams
    BY <2>2, LimitIsNat
  <2> QED
    BY <2>1, <2>2, <2>3, <2>4
<1>8. CapOvershoot'
  <2> SUFFICES ASSUME NEW id \in Identities
               PROVE  Cardinality(TrackedBy(id)') + Cardinality(Opening(id)')
                        <= EffectiveLimits(id, FirstLimits).live - 1
                           + EffectiveLimits(id, FirstLimits).sessions
    BY DEF CapOvershoot
  <2>1. /\ EffectiveLimits(id, FirstLimits) \in Limits
        /\ EffectiveLimits(id, FirstLimits).live > 0
    BY LimitsFit, TransportAssumption
  <2>2. Cardinality(TrackedBy(id)') = 0 /\ Cardinality(Opening(id)') = 0
    BY <1>6, FS_EmptySet
  <2> QED
    BY <2>1, <2>2, LimitIsNat
<1> QED
  BY <1>2, <1>4, <1>5, <1>7, <1>8 DEF Counted, LimitsHold

-----------------------------------------------------------------------------
(* Admit and Finish: a request enters or leaves a guard *)

LEMMA OneOfSeq ==
  ASSUME NEW S, NEW s \in Seq(S), NEW k \in 1..Len(s), NEW e \in S
  PROVE  /\ [s EXCEPT ![k] = e] \in Seq(S) /\ Len([s EXCEPT ![k] = e]) = Len(s)
         /\ [s EXCEPT ![k] = e][k] = e
         /\ \A j \in 1..Len(s) : j # k => [s EXCEPT ![k] = e][j] = s[j]
OBVIOUS

\* guard.enter and guard.leave change one counter of one guard.
LEMMA CountFits ==
  ASSUME NEW k \in 1..Len(guards), guards \in Seq(GuardRec), NEW n \in Nat,
         NEW stream \in BOOLEAN, guards' = Count(k, stream, n)
  PROVE  /\ guards' \in Seq(GuardRec) /\ Len(guards') = Len(guards)
         /\ \A j \in 1..Len(guards) : guards'[j].limits = guards[j].limits
         /\ \A j \in 1..Len(guards) : j # k => guards'[j] = guards[j]
         /\ guards'[k].inflight = IF stream THEN guards[k].inflight ELSE n
         /\ guards'[k].streams = IF stream THEN n ELSE guards[k].streams
<1>1. PICK x : x = guards[k]
  OBVIOUS
<1>2. x \in GuardRec
  BY <1>1
<1>3. CASE stream
  <2>1. guards' = [guards EXCEPT ![k] = [x EXCEPT !.streams = n]]
    BY <1>1, <1>3 DEF Count
  <2>2. /\ [x EXCEPT !.streams = n] \in GuardRec
        /\ [x EXCEPT !.streams = n].streams = n
        /\ [x EXCEPT !.streams = n].inflight = x.inflight
        /\ [x EXCEPT !.streams = n].limits = x.limits
    BY <1>2 DEF GuardRec
  <2> QED
    <3>1. /\ guards' \in Seq(GuardRec) /\ Len(guards') = Len(guards)
          /\ guards'[k] = [x EXCEPT !.streams = n]
          /\ \A j \in 1..Len(guards) : j # k => guards'[j] = guards[j]
      BY <2>1, <2>2, OneOfSeq
    <3> QED
      BY <1>1, <1>3, <2>2, <3>1
<1>4. CASE ~stream
  <2>1. guards' = [guards EXCEPT ![k] = [x EXCEPT !.inflight = n]]
    BY <1>1, <1>4 DEF Count
  <2>2. /\ [x EXCEPT !.inflight = n] \in GuardRec
        /\ [x EXCEPT !.inflight = n].inflight = n
        /\ [x EXCEPT !.inflight = n].streams = x.streams
        /\ [x EXCEPT !.inflight = n].limits = x.limits
    BY <1>2 DEF GuardRec
  <2> QED
    BY <1>1, <1>4, <2>1, <2>2, OneOfSeq
<1> QED
  BY <1>3, <1>4

Gets(k)  == {r \in Requests : Inside(r) /\ req[r].g = k /\ req[r].kind = "get"}
Posts(k) == {r \in Requests : Inside(r) /\ req[r].g = k /\ req[r].kind # "get"}

LEMMA HoldersAre ==
  ASSUME NEW k
  PROVE  /\ Holders(k, TRUE) = Gets(k) /\ Holders(k, FALSE) = Posts(k)
         /\ Holders(k, TRUE)' = Gets(k)' /\ Holders(k, FALSE)' = Posts(k)'
<1>1. Holders(k, TRUE) = Gets(k) /\ Holders(k, TRUE)' = Gets(k)'
  BY DEF Holders, Gets, Inside, Stream
<1>2. Holders(k, FALSE) = Posts(k) /\ Holders(k, FALSE)' = Posts(k)'
  BY DEF Holders, Posts, Inside, Stream
<1> QED
  BY <1>1, <1>2

\* The request of slot r is the one more that its guard counts.
LEMMA EnterHolders ==
  ASSUME NEW r \in Requests, ~Inside(r), Inside(r)', NEW g, g = req'[r].g,
         req'[r].kind = req[r].kind, \A s \in Requests : s # r => req'[s] = req[s]
  PROVE  /\ \A k : r \notin Gets(k) /\ r \notin Posts(k)
         /\ \A k : k # g => Gets(k)' = Gets(k) /\ Posts(k)' = Posts(k)
         /\ req[r].kind = "get" => Gets(g)' = Gets(g) \cup {r} /\ Posts(g)' = Posts(g)
         /\ req[r].kind # "get" => Gets(g)' = Gets(g) /\ Posts(g)' = Posts(g) \cup {r}
<1>1. \A s \in Requests : s # r => (Inside(s)' <=> Inside(s))
  BY DEF Inside
<1> QED
  BY <1>1 DEF Gets, Posts

LEMMA LeaveHolders ==
  ASSUME NEW r \in Requests, Inside(r), ~Inside(r)', NEW g, g = req[r].g,
         \A s \in Requests : s # r => req'[s] = req[s]
  PROVE  /\ \A k : k # g => Gets(k)' = Gets(k) /\ Posts(k)' = Posts(k)
         /\ req[r].kind = "get" =>
              r \in Gets(g) /\ Gets(g)' = Gets(g) \ {r} /\ Posts(g)' = Posts(g)
         /\ req[r].kind # "get" =>
              r \in Posts(g) /\ Gets(g)' = Gets(g) /\ Posts(g)' = Posts(g) \ {r}
<1>1. \A s \in Requests : s # r => (Inside(s)' <=> Inside(s))
  BY DEF Inside
<1> QED
  BY <1>1 DEF Gets, Posts

\* SlotsBalance, with the two kinds of holders named.
LEMMA BalanceIs ==
  /\ SlotsBalance <=>
       (up => \A k \in DOMAIN guards :
                /\ guards[k].inflight = Cardinality(Posts(k))
                /\ guards[k].streams = Cardinality(Gets(k))
                /\ guards[k].inflight <= guards[k].limits.sessions
                /\ guards[k].streams <= guards[k].limits.streams)
  /\ SlotsBalance' <=>
       (up' => \A k \in DOMAIN guards' :
                /\ guards'[k].inflight = Cardinality(Posts(k)')
                /\ guards'[k].streams = Cardinality(Gets(k)')
                /\ guards'[k].inflight <= guards'[k].limits.sessions
                /\ guards'[k].streams <= guards'[k].limits.streams)
BY HoldersAre DEF SlotsBalance

LEMMA HoldersFinite ==
  ASSUME NEW k
  PROVE  /\ IsFiniteSet(Gets(k)) /\ IsFiniteSet(Posts(k))
         /\ Cardinality(Gets(k)) \in Nat /\ Cardinality(Posts(k)) \in Nat
         /\ IsFiniteSet(Posts(k)') /\ IsFiniteSet(Gets(k)')
BY HoldersAre, CountedFinite DEF AllFinite

\* A request enters guard g (0: it passes uncounted).
LEMMA EnterBalances ==
  ASSUME Counted, up, up', NEW r \in Requests, ~Inside(r), Inside(r)', NEW g, g = req'[r].g,
         g \in 0..Len(guards), ~Full(g, Stream(r)),
         req'[r].kind = req[r].kind, \A s \in Requests : s # r => req'[s] = req[s],
         guards' = IF g = 0 THEN guards ELSE enter(g, Stream(r))
  PROVE  /\ guards' \in Seq(GuardRec) /\ Len(guards') = Len(guards)
         /\ \A j \in 1..Len(guards) : guards'[j].limits = guards[j].limits
         /\ SlotsBalance'
<1>0. guards \in Seq(GuardRec) /\ Len(guards) \in Nat /\ DOMAIN guards = 1..Len(guards)
  BY DEF Counted, TransportTypeOK
<1>1. \A k \in 1..Len(guards) :
        /\ guards[k].inflight = Cardinality(Posts(k)) /\ guards[k].streams = Cardinality(Gets(k))
        /\ guards[k].inflight <= guards[k].limits.sessions
        /\ guards[k].streams <= guards[k].limits.streams
  BY <1>0, BalanceIs DEF Counted, LimitsHold
<1>2. /\ \A k : r \notin Gets(k) /\ r \notin Posts(k)
      /\ \A k : k # g => Gets(k)' = Gets(k) /\ Posts(k)' = Posts(k)
      /\ req[r].kind = "get" => Gets(g)' = Gets(g) \cup {r} /\ Posts(g)' = Posts(g)
      /\ req[r].kind # "get" => Gets(g)' = Gets(g) /\ Posts(g)' = Posts(g) \cup {r}
  BY EnterHolders
<1>3. CASE g = 0
  <2>1. guards' = guards
    BY <1>3
  <2>2. \A k \in 1..Len(guards) : k # g
    BY <1>3
  <2>3. SlotsBalance'
    BY <1>0, <1>1, <1>2, <2>1, <2>2, BalanceIs
  <2> QED
    BY <1>0, <2>1, <2>3
<1>4. CASE g # 0
  <2>1. g \in 1..Len(guards) /\ guards' = Count(g, Stream(r), Held(g, Stream(r)) + 1)
    BY <1>4 DEF enter
  <2>2. guards[g] \in GuardRec /\ guards[g].limits \in Limits
        /\ guards[g].inflight \in Nat /\ guards[g].streams \in Nat
    <3>1. guards[g] \in GuardRec
      BY <1>0, <2>1
    <3> QED
      BY <3>1 DEF GuardRec
  <2>3. guards[g].limits.sessions \in Nat /\ guards[g].limits.streams \in Nat
    BY <2>2, LimitIsNat
  <2>4. Stream(r) \in BOOLEAN /\ Held(g, Stream(r)) + 1 \in Nat
    <3>1. Stream(r) \in BOOLEAN
      BY DEF Stream
    <3>2. CASE Stream(r)
      BY <2>2, <3>1, <3>2 DEF Held
    <3>3. CASE ~Stream(r)
      BY <2>2, <3>1, <3>3 DEF Held
    <3> QED
      BY <3>2, <3>3
  <2>5. /\ guards' \in Seq(GuardRec) /\ Len(guards') = Len(guards)
        /\ \A j \in 1..Len(guards) : guards'[j].limits = guards[j].limits
        /\ \A j \in 1..Len(guards) : j # g => guards'[j] = guards[j]
        /\ guards'[g].inflight = IF Stream(r) THEN guards[g].inflight ELSE Held(g, Stream(r)) + 1
        /\ guards'[g].streams = IF Stream(r) THEN Held(g, Stream(r)) + 1 ELSE guards[g].streams
    BY <1>0, <2>1, <2>4, CountFits
  <2>6. /\ guards'[g].inflight = Cardinality(Posts(g)')
        /\ guards'[g].streams = Cardinality(Gets(g)')
        /\ guards'[g].inflight <= guards'[g].limits.sessions
        /\ guards'[g].streams <= guards'[g].limits.streams
    <3>1. CASE req[r].kind = "get"
      <4>1. /\ guards'[g].inflight = guards[g].inflight
            /\ guards'[g].streams = guards[g].streams + 1
        BY <2>5, <3>1 DEF Stream, Held
      <4>2. Cardinality(Gets(g)') = Cardinality(Gets(g)) + 1 /\ Posts(g)' = Posts(g)
        BY <1>2, <3>1, HoldersFinite, FS_AddElement
      <4>3. ~(guards[g].streams >= guards[g].limits.streams)
        BY <1>4, <3>1 DEF Full, Held, Stream
      <4>4. /\ guards[g].inflight = Cardinality(Posts(g)) /\ guards[g].streams = Cardinality(Gets(g))
            /\ guards[g].inflight <= guards[g].limits.sessions
            /\ guards'[g].limits = guards[g].limits
        BY <1>1, <2>1, <2>5
      <4>5. guards[g].streams + 1 <= guards[g].limits.streams
        BY <2>2, <2>3, <4>3, BelowIsRoom
      <4> QED
        BY <4>1, <4>2, <4>4, <4>5
    <3>2. CASE req[r].kind # "get"
      <4>1. /\ guards'[g].streams = guards[g].streams
            /\ guards'[g].inflight = guards[g].inflight + 1
        BY <2>5, <3>2 DEF Stream, Held
      <4>2. Cardinality(Posts(g)') = Cardinality(Posts(g)) + 1 /\ Gets(g)' = Gets(g)
        BY <1>2, <3>2, HoldersFinite, FS_AddElement
      <4>3. ~(guards[g].inflight >= guards[g].limits.sessions)
        BY <1>4, <3>2 DEF Full, Held, Stream
      <4>4. /\ guards[g].inflight = Cardinality(Posts(g)) /\ guards[g].streams = Cardinality(Gets(g))
            /\ guards[g].streams <= guards[g].limits.streams
            /\ guards'[g].limits = guards[g].limits
        BY <1>1, <2>1, <2>5
      <4>5. guards[g].inflight + 1 <= guards[g].limits.sessions
        BY <2>2, <2>3, <4>3, BelowIsRoom
      <4> QED
        BY <4>1, <4>2, <4>4, <4>5
    <3> QED
      BY <3>1, <3>2
  <2>7. \A k \in 1..Len(guards) : k # g =>
          /\ guards'[k].inflight = Cardinality(Posts(k)')
          /\ guards'[k].streams = Cardinality(Gets(k)')
          /\ guards'[k].inflight <= guards'[k].limits.sessions
          /\ guards'[k].streams <= guards'[k].limits.streams
    BY <1>1, <1>2, <2>5
  <2>8. DOMAIN guards' = 1..Len(guards)
    BY <2>5
  <2>9. SlotsBalance'
    BY <2>6, <2>7, <2>8, BalanceIs
  <2> QED
    BY <2>5, <2>9
<1> QED
  BY <1>3, <1>4

\* The request is let in.
LEMMA EnterCounts ==
  ASSUME Counted, NEW r \in Requests, Admit(r), NEW g, g = guardOf[req[r].id],
         ~Full(g, Stream(r)), ~CapReached(r),
         req' = [req EXCEPT ![r].pc = "admitted", ![r].g = g, ![r].opening = Opens(r)],
         guards' = IF g = 0 THEN guards ELSE enter(g, Stream(r))
  PROVE  Counted'
<1>0. /\ TransportTypeOK /\ InsideFits /\ FirstGuards /\ CapOvershoot
      /\ req[r] \in SlotRec /\ Len(guards) \in Nat
  BY DEF Counted, TransportTypeOK, LimitsHold
<1>1. /\ up /\ up' /\ req[r].pc = "known" /\ req[r].id \in Identities
      /\ UNCHANGED <<up, lookup, guardOf, limits, reload, tracked, live, ran,
                     issued, reloaded, noteAs, faults>>
  BY <1>0 DEF Admit, InsideFits
<1>2. g \in 0..Len(guards) /\ g \in Nat
  BY <1>0, <1>1 DEF TransportTypeOK
<1>3. PICK q \in SlotRec : /\ req' = [req EXCEPT ![r] = q] /\ q.pc = "admitted" /\ q.g = g
                           /\ q.opening = Opens(r) /\ q.kind = req[r].kind /\ q.id = req[r].id
  <2>1. req' = [req EXCEPT ![r] = [req[r] EXCEPT !.pc = "admitted", !.g = g, !.opening = Opens(r)]]
    BY <1>0 DEF TransportTypeOK
  <2>2. PICK o \in BOOLEAN : o = Opens(r)
    BY DEF Opens
  <2>3. PICK q : q = [req[r] EXCEPT !.pc = "admitted", !.g = g, !.opening = o]
    OBVIOUS
  <2>4. /\ q \in SlotRec /\ q.pc = "admitted" /\ q.g = g
        /\ q.opening = o /\ q.kind = req[r].kind /\ q.id = req[r].id
    <3>1. o \in BOOLEAN /\ g \in Nat /\ req[r] \in SlotRec
      BY <1>0, <1>2, <2>2
    <3> QED
      BY <2>3, <3>1 DEF SlotRec, SlotPcs
  <2>5. req' = [req EXCEPT ![r] = q]
    BY <2>1, <2>2, <2>3
  <2> QED
    BY <2>2, <2>4, <2>5
<1>4. /\ req' \in [Requests -> SlotRec]
      /\ req'[r] = q /\ \A s \in Requests : s # r => req'[s] = req[s]
  BY <1>0, <1>3, OneSlot
<1>5. ~Inside(r) /\ Inside(r)' /\ \A s \in Requests : s # r => (Inside(s)' <=> Inside(s))
  BY <1>1, <1>3, <1>4 DEF Inside
<1>6. /\ guards' \in Seq(GuardRec) /\ Len(guards') = Len(guards)
      /\ \A j \in 1..Len(guards) : guards'[j].limits = guards[j].limits
      /\ SlotsBalance'
  BY <1>1, <1>2, <1>3, <1>4, <1>5, EnterBalances
<1>7. TransportTypeOK'
  BY <1>0, <1>1, <1>4, <1>6 DEF TransportTypeOK
<1>8. InsideFits'
  <2> SUFFICES ASSUME NEW s \in Requests
               PROVE  /\ req'[s].pc \in {"sent", "known", "admitted", "served"}
                           => up' /\ req'[s].id \in Identities
                      /\ Inside(s)' => req'[s].g <= Len(guards')
                      /\ Inside(s)' /\ req'[s].opening => req'[s].kind = "initialize"
    BY DEF InsideFits
  <2>1. CASE s = r
    <3>1. req'[s].id \in Identities
      BY <1>1, <1>3, <1>4, <2>1
    <3>2. req'[s].g <= Len(guards')
      BY <1>0, <1>2, <1>3, <1>4, <1>6, <2>1
    <3>3. req'[s].opening => req'[s].kind = "initialize"
      BY <1>3, <1>4, <2>1 DEF Opens
    <3> QED
      BY <1>1, <3>1, <3>2, <3>3
  <2>2. CASE s # r
    BY <1>0, <1>1, <1>4, <1>5, <1>6, <2>2 DEF InsideFits
  <2> QED
    BY <2>1, <2>2
<1>9. FirstGuards'
  <2> SUFFICES ASSUME ~reloaded'
               PROVE  /\ reload'.pc = "idle"
                      /\ \A i \in Identities :
                           /\ guardOf'[i] # 0
                           /\ guards'[guardOf'[i]].limits = EffectiveLimits(i, FirstLimits)
                      /\ \A s \in Requests : Inside(s)' => req'[s].g = guardOf'[req'[s].id]
    BY DEF FirstGuards
  <2>1. ASSUME NEW i \in Identities
        PROVE  /\ guardOf'[i] # 0
               /\ guards'[guardOf'[i]].limits = EffectiveLimits(i, FirstLimits)
    <3>1. guardOf[i] \in 1..Len(guards)
      BY <1>0, <1>1 DEF FirstGuards, TransportTypeOK
    <3> QED
      BY <1>0, <1>1, <1>6, <3>1 DEF FirstGuards
  <2>2. ASSUME NEW s \in Requests, Inside(s)' PROVE req'[s].g = guardOf'[req'[s].id]
    BY <1>0, <1>1, <1>3, <1>4, <1>5, <2>2 DEF FirstGuards
  <2> QED
    BY <1>0, <1>1, <2>1, <2>2 DEF FirstGuards
<1>10. ASSUME NEW id \in Identities, ~reloaded
       PROVE  Cardinality(TrackedBy(id)') + Cardinality(Opening(id)')
                <= EffectiveLimits(id, FirstLimits).live - 1
                   + EffectiveLimits(id, FirstLimits).sessions
  <2> DEFINE lim == EffectiveLimits(id, FirstLimits)
  <2>1. TrackedBy(id)' = TrackedBy(id)
    BY <1>1 DEF TrackedBy
  <2>2. lim.live \in Nat /\ lim.sessions \in Nat /\ Cardinality(TrackedBy(id)) \in Nat
    BY LimitsFit, LimitIsNat, TransportAssumption, CountedFinite DEF AllFinite
  <2>3. CASE Opens(r) /\ id = req[r].id
    <3>1. g # 0 /\ g \in 1..Len(guards) /\ guards[g].limits = lim /\ guardOf'[id] = g
      BY <1>0, <1>1, <1>2, <1>10, <2>3 DEF FirstGuards
    <3>2. ~(Cardinality(TrackedBy(id)) >= lim.live)
      <4>1. lim.live > 0
        BY LimitsFit, TransportAssumption
      <4>2. Opens(r) /\ guardOf[id] # 0 /\ guardOf[id] = g /\ guards[guardOf[id]].limits = lim
        BY <1>1, <2>3, <3>1
      <4> HIDE DEF lim
      <4> QED
        BY <2>3, <4>1, <4>2 DEF CapReached
    <3>3. Opening(id)' \in SUBSET (Posts(g)')
      <4> SUFFICES ASSUME NEW s \in Opening(id)' PROVE s \in Posts(g)'
        OBVIOUS
      <4>1. s \in Requests /\ Inside(s)' /\ req'[s].id = id /\ req'[s].kind # "get"
        BY <1>8 DEF Opening, InsideFits, Inside
      <4>2. req'[s].g = g
        BY <1>1, <1>9, <1>10, <3>1, <4>1 DEF FirstGuards
      <4> QED
        BY <4>1, <4>2 DEF Posts
    <3>4. Cardinality(Opening(id)') <= Cardinality(Posts(g)')
          /\ Cardinality(Opening(id)') \in Nat /\ Cardinality(Posts(g)') \in Nat
      <4>1. IsFiniteSet(Posts(g)')
        BY HoldersFinite
      <4>2. IsFiniteSet(Opening(id)') /\ Cardinality(Opening(id)') <= Cardinality(Posts(g)')
        BY <3>3, <4>1, FS_Subset
      <4> QED
        BY <4>1, <4>2, FS_CardinalityType
    <3>5. Cardinality(Posts(g)') <= lim.sessions
      <4>1. g \in DOMAIN guards' /\ guards'[g].limits = lim
        <5>1. g \in DOMAIN guards'
          BY <1>6, <3>1
        <5>2. guards'[g].limits = guards[g].limits
          BY <1>6, <3>1
        <5> QED
          BY <3>1, <5>1, <5>2
      <4>2. guards'[g].inflight = Cardinality(Posts(g)')
            /\ guards'[g].inflight <= guards'[g].limits.sessions
        BY <1>1, <1>6, <4>1, BalanceIs
      <4> QED
        BY <4>1, <4>2
    <3> QED
      BY <2>1, <2>2, <3>2, <3>4, <3>5
  <2>4. CASE ~(Opens(r) /\ id = req[r].id)
    <3>1. Opening(id)' = Opening(id)
      BY <1>3, <1>4, <1>5, <2>4 DEF Opening, Inside
    <3> QED
      BY <1>0, <1>1, <1>10, <2>1, <3>1 DEF CapOvershoot
  <2> QED
    BY <2>3, <2>4
<1>11. CapOvershoot'
  BY <1>1, <1>10 DEF CapOvershoot
<1> QED
  BY <1>6, <1>7, <1>8, <1>9, <1>11 DEF Counted, LimitsHold

LEMMA AdmitCounts ==
  ASSUME Counted, NEW r \in Requests, Admit(r)
  PROVE  Counted'
<1>1. PICK g : g = guardOf[req[r].id]
  OBVIOUS
<1>2. CASE Full(g, Stream(r)) \/ CapReached(r)
  <2>1. Over(429, NoSid) \in SlotRec /\ Over(429, NoSid).pc = "over"
    BY OverTyped
  <2>2. req' = [req EXCEPT ![r] = Over(429, NoSid)] /\ guards' = guards
    BY <1>1, <1>2 DEF Admit, Reply
  <2>3. ~Inside(r) /\ faults' \in Nat
    <3>1. req[r].pc = "known" /\ faults' = faults
      BY DEF Admit
    <3>2. faults \in Nat
      BY DEF Counted, TransportTypeOK
    <3> QED
      BY <3>1, <3>2 DEF Inside
  <2>4. UNCHANGED <<up, lookup, guards, guardOf, limits, reload, tracked, live, ran,
                    issued, reloaded, noteAs>>
    BY <2>2 DEF Admit
  <2> QED
    BY <2>1, <2>2, <2>3, <2>4, OutsideKeeps
<1>3. CASE ~(Full(g, Stream(r)) \/ CapReached(r))
  <2>1. /\ req' = [req EXCEPT ![r].pc = "admitted", ![r].g = g, ![r].opening = Opens(r)]
        /\ guards' = IF g = 0 THEN guards ELSE enter(g, Stream(r))
    BY <1>1, <1>3 DEF Admit
  <2> QED
    BY <1>1, <1>3, <2>1, EnterCounts
<1> QED
  BY <1>2, <1>3

\* A request leaves the guard it entered.
LEMMA LeaveBalances ==
  ASSUME Counted, up, up', NEW r \in Requests, Inside(r), ~Inside(r)', NEW g, g = req[r].g,
         g \in 0..Len(guards), \A s \in Requests : s # r => req'[s] = req[s],
         guards' = IF g = 0 THEN guards ELSE leave(g, Stream(r))
  PROVE  /\ guards' \in Seq(GuardRec) /\ Len(guards') = Len(guards)
         /\ \A j \in 1..Len(guards) : guards'[j].limits = guards[j].limits
         /\ SlotsBalance'
<1>0. guards \in Seq(GuardRec) /\ Len(guards) \in Nat /\ DOMAIN guards = 1..Len(guards)
  BY DEF Counted, TransportTypeOK
<1>1. \A k \in 1..Len(guards) :
        /\ guards[k].inflight = Cardinality(Posts(k)) /\ guards[k].streams = Cardinality(Gets(k))
        /\ guards[k].inflight <= guards[k].limits.sessions
        /\ guards[k].streams <= guards[k].limits.streams
  BY <1>0, BalanceIs DEF Counted, LimitsHold
<1>2. /\ \A k : k # g => Gets(k)' = Gets(k) /\ Posts(k)' = Posts(k)
      /\ req[r].kind = "get" =>
           r \in Gets(g) /\ Gets(g)' = Gets(g) \ {r} /\ Posts(g)' = Posts(g)
      /\ req[r].kind # "get" =>
           r \in Posts(g) /\ Gets(g)' = Gets(g) /\ Posts(g)' = Posts(g) \ {r}
  BY LeaveHolders
<1>3. CASE g = 0
  <2>1. guards' = guards
    BY <1>3
  <2>2. \A k \in 1..Len(guards) : k # g
    BY <1>3
  <2>3. SlotsBalance'
    BY <1>0, <1>1, <1>2, <2>1, <2>2, BalanceIs
  <2> QED
    BY <1>0, <2>1, <2>3
<1>4. CASE g # 0
  <2>1. g \in 1..Len(guards) /\ guards' = Count(g, Stream(r), Held(g, Stream(r)) - 1)
    BY <1>4 DEF leave
  <2>2. guards[g].limits \in Limits /\ guards[g].inflight \in Nat /\ guards[g].streams \in Nat
    <3>1. guards[g] \in GuardRec
      BY <1>0, <2>1
    <3> QED
      BY <3>1 DEF GuardRec
  <2>3. guards[g].limits.sessions \in Nat /\ guards[g].limits.streams \in Nat
    BY <2>2, LimitIsNat
  <2>4. /\ guards[g].inflight = Cardinality(Posts(g)) /\ guards[g].streams = Cardinality(Gets(g))
        /\ guards[g].inflight <= guards[g].limits.sessions
        /\ guards[g].streams <= guards[g].limits.streams
    BY <1>1, <2>1
  <2>5. /\ req[r].kind = "get" =>
             /\ Cardinality(Gets(g)') = Cardinality(Gets(g)) - 1 /\ Posts(g)' = Posts(g)
             /\ guards[g].streams > 0
        /\ req[r].kind # "get" =>
             /\ Cardinality(Posts(g)') = Cardinality(Posts(g)) - 1 /\ Gets(g)' = Gets(g)
             /\ guards[g].inflight > 0
    <3>1. CASE req[r].kind = "get"
      <4>1. Cardinality(Gets(g)') = Cardinality(Gets(g)) - 1
        BY <1>2, <3>1, HoldersFinite, FS_RemoveElement
      <4>2. Cardinality(Gets(g)) # 0
        BY <1>2, <3>1, HoldersFinite, FS_EmptySet
      <4> QED
        BY <1>2, <2>2, <2>4, <3>1, <4>1, <4>2
    <3>2. CASE req[r].kind # "get"
      <4>1. Cardinality(Posts(g)') = Cardinality(Posts(g)) - 1
        BY <1>2, <3>2, HoldersFinite, FS_RemoveElement
      <4>2. Cardinality(Posts(g)) # 0
        BY <1>2, <3>2, HoldersFinite, FS_EmptySet
      <4> QED
        BY <1>2, <2>2, <2>4, <3>2, <4>1, <4>2
    <3> QED
      BY <3>1, <3>2
  <2>6. Stream(r) \in BOOLEAN /\ Held(g, Stream(r)) - 1 \in Nat
    <3>1. Stream(r) \in BOOLEAN
      BY DEF Stream
    <3>2. CASE Stream(r)
      BY <2>2, <2>5, <3>1, <3>2 DEF Held, Stream
    <3>3. CASE ~Stream(r)
      BY <2>2, <2>5, <3>1, <3>3 DEF Held, Stream
    <3> QED
      BY <3>2, <3>3
  <2>7. /\ guards' \in Seq(GuardRec) /\ Len(guards') = Len(guards)
        /\ \A j \in 1..Len(guards) : guards'[j].limits = guards[j].limits
        /\ \A j \in 1..Len(guards) : j # g => guards'[j] = guards[j]
        /\ guards'[g].inflight = IF Stream(r) THEN guards[g].inflight ELSE Held(g, Stream(r)) - 1
        /\ guards'[g].streams = IF Stream(r) THEN Held(g, Stream(r)) - 1 ELSE guards[g].streams
    BY <1>0, <2>1, <2>6, CountFits
  <2>8. /\ guards'[g].inflight = Cardinality(Posts(g)')
        /\ guards'[g].streams = Cardinality(Gets(g)')
        /\ guards'[g].inflight <= guards'[g].limits.sessions
        /\ guards'[g].streams <= guards'[g].limits.streams
    <3>0. guards'[g].limits = guards[g].limits
      BY <2>1, <2>7
    <3>1. CASE req[r].kind = "get"
      <4>1. /\ guards'[g].inflight = guards[g].inflight
            /\ guards'[g].streams = guards[g].streams - 1
        BY <2>7, <3>1 DEF Stream, Held
      <4>2. guards[g].streams - 1 <= guards[g].limits.streams
        BY <2>2, <2>3, <2>4, FallsWithin
      <4> QED
        BY <2>4, <2>5, <3>0, <3>1, <4>1, <4>2
    <3>2. CASE req[r].kind # "get"
      <4>1. /\ guards'[g].streams = guards[g].streams
            /\ guards'[g].inflight = guards[g].inflight - 1
        BY <2>7, <3>2 DEF Stream, Held
      <4>2. guards[g].inflight - 1 <= guards[g].limits.sessions
        BY <2>2, <2>3, <2>4, FallsWithin
      <4> QED
        BY <2>4, <2>5, <3>0, <3>2, <4>1, <4>2
    <3> QED
      BY <3>1, <3>2
  <2>9. \A k \in 1..Len(guards) : k # g =>
          /\ guards'[k].inflight = Cardinality(Posts(k)')
          /\ guards'[k].streams = Cardinality(Gets(k)')
          /\ guards'[k].inflight <= guards'[k].limits.sessions
          /\ guards'[k].streams <= guards'[k].limits.streams
    BY <1>1, <1>2, <2>7
  <2>10. DOMAIN guards' = 1..Len(guards)
    BY <2>7
  <2>11. SlotsBalance'
    BY <2>8, <2>9, <2>10, BalanceIs
  <2> QED
    BY <2>7, <2>11
<1> QED
  BY <1>3, <1>4

LEMMA FinishCounts ==
  ASSUME Counted, NEW r \in Requests, Finish(r)
  PROVE  Counted'
<1>0. /\ TransportTypeOK /\ InsideFits /\ FirstGuards /\ CapOvershoot
      /\ req[r] \in SlotRec /\ Len(guards) \in Nat
  BY DEF Counted, TransportTypeOK, LimitsHold
<1>1. /\ up /\ up' /\ req[r].pc = "served" /\ req[r].id \in Identities
      /\ UNCHANGED <<up, lookup, guardOf, limits, reload, live, ran,
                     issued, reloaded, noteAs, faults>>
  BY <1>0 DEF Finish, InsideFits
<1>2. PICK g : g = req[r].g
  OBVIOUS
<1>3. g \in 0..Len(guards)
  <2>1. g \in Nat
    BY <1>0, <1>2 DEF SlotRec
  <2>2. g <= Len(guards)
    BY <1>0, <1>1, <1>2 DEF InsideFits, Inside
  <2> QED
    BY <1>0, <2>1, <2>2
<1>4. PICK q \in SlotRec : req' = [req EXCEPT ![r] = q] /\ q.pc = "over"
  <2>1. req[r].status \in Nat /\ req[r].new \in Sids \cup {NoSid}
    BY <1>0 DEF SlotRec
  <2>2. /\ Over(req[r].status, req[r].new) \in SlotRec
        /\ Over(req[r].status, req[r].new).pc = "over"
    BY <2>1, OverTyped
  <2> QED
    BY <2>2 DEF Finish
<1>5. /\ req' \in [Requests -> SlotRec]
      /\ req'[r] = q /\ \A s \in Requests : s # r => req'[s] = req[s]
  BY <1>0, <1>4, OneSlot
<1>6. Inside(r) /\ ~Inside(r)' /\ \A s \in Requests : s # r => (Inside(s)' <=> Inside(s))
  BY <1>1, <1>4, <1>5 DEF Inside
<1>7. /\ guards' \in Seq(GuardRec) /\ Len(guards') = Len(guards)
      /\ \A j \in 1..Len(guards) : guards'[j].limits = guards[j].limits
      /\ SlotsBalance'
  <2>1. guards' = IF g = 0 THEN guards ELSE leave(g, Stream(r))
    BY <1>2 DEF Finish
  <2> QED
    BY <1>1, <1>2, <1>3, <1>5, <1>6, <2>1, LeaveBalances
<1>8. tracked' \in [Sids -> Identities \cup {NoOne}]
  BY <1>0, <1>1 DEF Finish, TransportTypeOK
<1>9. TransportTypeOK'
  BY <1>0, <1>1, <1>5, <1>7, <1>8 DEF TransportTypeOK
<1>10. InsideFits'
  <2> SUFFICES ASSUME NEW s \in Requests
               PROVE  /\ req'[s].pc \in {"sent", "known", "admitted", "served"}
                           => up' /\ req'[s].id \in Identities
                      /\ Inside(s)' => req'[s].g <= Len(guards')
                      /\ Inside(s)' /\ req'[s].opening => req'[s].kind = "initialize"
    BY DEF InsideFits
  <2>1. CASE s = r
    BY <1>4, <1>5, <1>6, <2>1
  <2>2. CASE s # r
    BY <1>0, <1>1, <1>5, <1>6, <1>7, <2>2 DEF InsideFits
  <2> QED
    BY <2>1, <2>2
<1>11. FirstGuards'
  <2> SUFFICES ASSUME ~reloaded'
               PROVE  /\ reload'.pc = "idle"
                      /\ \A i \in Identities :
                           /\ guardOf'[i] # 0
                           /\ guards'[guardOf'[i]].limits = EffectiveLimits(i, FirstLimits)
                      /\ \A s \in Requests : Inside(s)' => req'[s].g = guardOf'[req'[s].id]
    BY DEF FirstGuards
  <2>1. ASSUME NEW i \in Identities
        PROVE  /\ guardOf'[i] # 0
               /\ guards'[guardOf'[i]].limits = EffectiveLimits(i, FirstLimits)
    <3>1. guardOf[i] \in 1..Len(guards)
      BY <1>0, <1>1 DEF FirstGuards, TransportTypeOK
    <3> QED
      BY <1>0, <1>1, <1>7, <3>1 DEF FirstGuards
  <2>2. ASSUME NEW s \in Requests, Inside(s)' PROVE req'[s].g = guardOf'[req'[s].id]
    BY <1>0, <1>1, <1>5, <1>6, <2>2 DEF FirstGuards
  <2> QED
    BY <1>0, <1>1, <2>1, <2>2 DEF FirstGuards
<1>12. ASSUME NEW id \in Identities
       PROVE  Cardinality(TrackedBy(id))' + Cardinality(Opening(id))'
                <= Cardinality(TrackedBy(id)) + Cardinality(Opening(id))
  <2>0. IsFiniteSet(TrackedBy(id)) /\ IsFiniteSet(Opening(id))
        /\ Cardinality(TrackedBy(id)) \in Nat /\ Cardinality(Opening(id)) \in Nat
        /\ Cardinality(TrackedBy(id)') \in Nat /\ Cardinality(Opening(id)') \in Nat
    BY CountedFinite DEF AllFinite
  <2>1. CASE req[r].opening /\ id = req[r].id
    <3>1. r \in Opening(id) /\ Opening(id)' = Opening(id) \ {r}
      BY <1>1, <1>5, <1>6, <2>1 DEF Opening, Inside
    <3>2. Cardinality(Opening(id)') = Cardinality(Opening(id)) - 1
      BY <2>0, <3>1, FS_RemoveElement
    <3>3. PICK n : n = req[r].new
      OBVIOUS
    <3>4. TrackedBy(id)' \in SUBSET (TrackedBy(id) \cup {n})
      BY <1>0, <3>3, TransportAssumption DEF Finish, TrackedBy, TransportTypeOK
    <3>5. /\ IsFiniteSet(TrackedBy(id) \cup {n})
          /\ Cardinality(TrackedBy(id) \cup {n}) =
               IF n \in TrackedBy(id) THEN Cardinality(TrackedBy(id)) ELSE Cardinality(TrackedBy(id)) + 1
      BY <2>0, FS_AddElement
    <3>6. Cardinality(TrackedBy(id)') <= Cardinality(TrackedBy(id) \cup {n})
      BY <3>4, <3>5, FS_Subset
    <3> QED
      BY <2>0, <3>2, <3>5, <3>6
  <2>2. CASE ~(req[r].opening /\ id = req[r].id)
    <3>1. Opening(id)' = Opening(id)
      BY <1>5, <1>6, <2>2 DEF Opening, Inside
    <3>2. TrackedBy(id)' \in SUBSET TrackedBy(id)
      BY <1>0, <2>2, TransportAssumption DEF Finish, TrackedBy, TransportTypeOK
    <3>3. Cardinality(TrackedBy(id)') <= Cardinality(TrackedBy(id))
      BY <2>0, <3>2, FS_Subset
    <3> QED
      BY <2>0, <3>1, <3>3
  <2> QED
    BY <2>1, <2>2
<1>13. CapOvershoot'
  BY <1>0, <1>1, <1>12, CapKept
<1> QED
  BY <1>7, <1>9, <1>10, <1>11, <1>13 DEF Counted, LimitsHold

\* A step of the server keeps what the guards and the tracker count.
LEMMA ServerCounts == ASSUME Counted, ServerStep PROVE Counted'
<1>1. CASE \E r \in Requests : Lookup(r) \/ Admit(r) \/ Throttle(r) \/ Serve(r) \/ Finish(r)
  BY <1>1, LookupCounts, AdmitCounts, ThrottleCounts, ServeCounts, FinishCounts
<1>2. CASE SetLimits \/ Rebuild \/ Replace
  BY <1>2, SetLimitsCounts, RebuildCounts, ReplaceCounts
<1>3. CASE Expire \/ SdkTimeout \/ Crash \/ Restart
  BY <1>3, ExpireCounts, SdkTimeoutCounts, CrashCounts, RestartCounts
<1> QED
  BY <1>1, <1>2, <1>3 DEF ServerStep

LEMMA StillCounts == ASSUME Counted, UNCHANGED tvars PROVE Counted'
<1>1. UNCHANGED <<up, lookup, guards, guardOf, limits, reload, tracked, live, req, ran,
                  issued, reloaded, noteAs, faults>>
  BY DEF tvars
<1>2. TransportTypeOK'
  BY <1>1 DEF Counted, TransportTypeOK
<1>3. SameInside /\ InsideFits'
  BY <1>1 DEF Counted, SameInside, InsideFits, Inside
<1> QED
  BY <1>1, <1>2, <1>3, QuietKeeps

-----------------------------------------------------------------------------
(* One line of the client *)

LineTrue(m) ==
  /\ ran[m] <= 1
  /\ Len(out[m]) <= 1
  /\ Kind[m] = "call" /\ out[m] = <<"ok">> => ran[m] = 1
  /\ out[m] \in {<<w>> : w \in {"lost", "again", "http", "refused"}} => ran[m] = 0

Line(m) == FlyingFits(m) /\ LandedFits(m) /\ LineFits(m) /\ LineTrue(m)

LEMMA LinesAre ==
  /\ LinesFit /\ AnswerIsTrue <=> \A m \in Lines : Line(m)
  /\ LinesFit' /\ AnswerIsTrue' <=> \A m \in Lines : Line(m)'
BY DEF LinesFit, AnswerIsTrue, Line, LineTrue

\* What can be read off a list of at most one answer.
LEMMA NoAnswer ==
  /\ Len(<<>>) <= 1 /\ <<>> # <<"ok">>
  /\ \A v : <<>> # <<v>>
  /\ <<>> \notin {<<v>> : v \in {"lost", "again", "http", "refused"}}
  /\ \A v : Append(<<>>, v) = <<v>>
OBVIOUS

LEMMA OneAnswer ==
  ASSUME NEW w
  PROVE  /\ Len(<<w>>) <= 1
         /\ <<w>> = <<"ok">> => w = "ok"
         /\ <<w>> \in {<<v>> : v \in {"lost", "again", "http", "refused"}}
              => w \in {"lost", "again", "http", "refused"}
<1>1. Len(<<w>>) <= 1
  OBVIOUS
<1>2. <<w>>[1] = w
  OBVIOUS
<1>3. <<w>> = <<"ok">> => w = "ok"
  BY <1>2
<1>4. ASSUME NEW v \in {"lost", "again", "http", "refused"}, <<w>> = <<v>> PROVE w = v
  <2>1. <<v>>[1] = v
    OBVIOUS
  <2> QED
    BY <1>2, <1>4, <2>1
<1> QED
  BY <1>1, <1>3, <1>4

SameLine(m) == th'[m] = th[m] /\ out'[m] = out[m]

LEMMA LineStays ==
  ASSUME NEW m \in Lines, Line(m), SameLine(m), req'[m] = req[m], ran'[m] = ran[m]
  PROVE  Line(m)'
BY DEF SameLine, Line, FlyingFits, LandedFits, LineFits, LineTrue, Flying, Landed

\* Lookup and Admit: the post gets further.
LEMMA LineFlies ==
  ASSUME NEW m \in Lines, Line(m), SameLine(m), ran'[m] = ran[m], Flying(m), Flying(m)',
         req'[m].kind = req[m].kind, req'[m].sid = req[m].sid, req'[m].status = req[m].status
  PROVE  Line(m)'
BY DEF SameLine, Line, FlyingFits, LandedFits, LineFits, LineTrue, Flying, Landed

\* 401 and 429: the post is refused before the SDK sees it.
LEMMA LineRefused ==
  ASSUME NEW m \in Lines, Line(m), SameLine(m), ran'[m] = ran[m], Flying(m),
         req'[m].pc = "over", req'[m].status \in {401, 429}
  PROVE  Line(m)'
BY DEF SameLine, Line, FlyingFits, LandedFits, LineFits, LineTrue, Flying, Landed, CallStatus

\* Finish, or a crash after the answer was written.
LEMMA LineLanded ==
  ASSUME NEW m \in Lines, Line(m), SameLine(m), ran'[m] = ran[m], Landed(m), Landed(m)',
         req'[m].status = req[m].status
  PROVE  Line(m)'
BY DEF SameLine, Line, FlyingFits, LandedFits, LineFits, LineTrue, Flying, Landed

\* A crash before the call ran.
LEMMA LineDead ==
  ASSUME NEW m \in Lines, Line(m), SameLine(m), ran'[m] = ran[m], Flying(m),
         req'[m].pc = "dead", req'[m].status = req[m].status
  PROVE  Line(m)'
BY DEF SameLine, Line, FlyingFits, LandedFits, LineFits, LineTrue, Flying, Landed

\* Serve: the SDK runs the call, or answers that it did not.
LEMMA LineServed ==
  ASSUME NEW m \in Lines, Line(m), SameLine(m), Flying(m), req'[m].pc = "served",
         req[m].kind = "call" => req'[m].status \in {200, 403, 404},
         ran'[m] = IF req[m].kind = "call" /\ req'[m].status = 200 /\ req[m].sid # NoSid
                     THEN ran[m] + 1 ELSE ran[m]
  PROVE  Line(m)'
<1>1. ran[m] = 0 /\ req[m].kind = Kind[m] /\ req[m].sid = th[m].sid
      /\ th[m].pc \in {"wait", "done"} /\ out[m] \in {<<>>, <<"unreachable">>}
  BY DEF Line, FlyingFits
<1>2. ran'[m] = IF Kind[m] = "call" /\ req'[m].status = 200 /\ th[m].sid # NoSid THEN 1 ELSE 0
  BY <1>1
<1>3. FlyingFits(m)' /\ LandedFits(m)'
  BY <1>2 DEF FlyingFits, LandedFits, Flying, SameLine
<1>4. LineFits(m)'
  BY <1>1, <1>2 DEF Line, LineFits, SameLine, CallStatus, Landed
<1>5. LineTrue(m)'
  <2>1. out'[m] \in {<<>>, <<"unreachable">>}
    BY <1>1 DEF SameLine
  <2>2. /\ Len(out'[m]) <= 1 /\ out'[m] # <<"ok">>
        /\ out'[m] \notin {<<w>> : w \in {"lost", "again", "http", "refused"}}
    <3>1. CASE out'[m] = <<>>
      BY <3>1, NoAnswer
    <3>2. CASE out'[m] = <<"unreachable">>
      BY <3>2, OneAnswer
    <3> QED
      BY <2>1, <3>1, <3>2
  <2>3. ran'[m] <= 1
    BY <1>2
  <2> QED
    BY <2>2, <2>3 DEF LineTrue
<1> QED
  BY <1>3, <1>4, <1>5 DEF Line

-----------------------------------------------------------------------------
(* The steps of the server keep what is known of a line *)

LEMMA LookupLines ==
  ASSUME TransportTypeOK, NEW r \in Requests, Lookup(r), NEW m \in Lines, Line(m), SameLine(m)
  PROVE  Line(m)'
<1>0. m \in Requests /\ req[m] \in SlotRec /\ ran' = ran
  BY BridgeAssumption DEF TransportTypeOK, Lookup
<1>1. CASE m # r
  <2>1. req'[m] = req[m]
    BY <1>0, <1>1 DEF Lookup, Reply, TransportTypeOK
  <2> QED
    BY <1>0, <2>1, LineStays
<1>2. CASE m = r /\ req[r].id \in lookup
  <2>1. req'[m] = [req[m] EXCEPT !.pc = "known"]
    BY <1>0, <1>2 DEF Lookup, TransportTypeOK
  <2>2. /\ req'[m].pc = "known" /\ req'[m].kind = req[m].kind
        /\ req'[m].sid = req[m].sid /\ req'[m].status = req[m].status
    BY <1>0, <2>1 DEF SlotRec
  <2> QED
    BY <1>0, <1>2, <2>2, LineFlies DEF Lookup, Flying
<1>3. CASE m = r /\ req[r].id \notin lookup
  <2>1. req'[m] = Over(401, NoSid)
    BY <1>0, <1>3 DEF Lookup, Reply, TransportTypeOK
  <2>2. req'[m].pc = "over" /\ req'[m].status = 401
    BY <2>1, OverTyped
  <2> QED
    BY <1>0, <1>3, <2>2, LineRefused DEF Lookup, Flying
<1> QED
  BY <1>1, <1>2, <1>3

LEMMA ThrottleLines ==
  ASSUME TransportTypeOK, NEW r \in Requests, Throttle(r), NEW m \in Lines, Line(m), SameLine(m)
  PROVE  Line(m)'
<1>0. m \in Requests /\ ran' = ran /\ req' = [req EXCEPT ![r] = Over(429, NoSid)]
  BY BridgeAssumption DEF Throttle, Reply
<1>1. CASE m # r
  <2>1. req'[m] = req[m]
    BY <1>0, <1>1 DEF TransportTypeOK
  <2> QED
    BY <1>0, <2>1, LineStays
<1>2. CASE m = r
  <2>1. req'[m] = Over(429, NoSid)
    BY <1>0, <1>2 DEF TransportTypeOK
  <2>2. req'[m].pc = "over" /\ req'[m].status = 429
    BY <2>1, OverTyped
  <2> QED
    BY <1>0, <1>2, <2>2, LineRefused DEF Throttle, Flying
<1> QED
  BY <1>1, <1>2

LEMMA AdmitLines ==
  ASSUME TransportTypeOK, NEW r \in Requests, Admit(r), NEW m \in Lines, Line(m), SameLine(m)
  PROVE  Line(m)'
<1>0. m \in Requests /\ req[m] \in SlotRec /\ ran' = ran
  BY BridgeAssumption DEF TransportTypeOK, Admit
<1> DEFINE g == guardOf[req[r].id]
<1>1. \/ req' = [req EXCEPT ![r] = Over(429, NoSid)]
      \/ req' = [req EXCEPT ![r].pc = "admitted", ![r].g = g, ![r].opening = Opens(r)]
  BY DEF Admit, Reply
<1> HIDE DEF g
<1>2. CASE m # r
  <2>1. req'[m] = req[m]
    BY <1>0, <1>1, <1>2 DEF TransportTypeOK
  <2> QED
    BY <1>0, <2>1, LineStays
<1>3. CASE m = r /\ req' = [req EXCEPT ![r] = Over(429, NoSid)]
  <2>1. req'[m] = Over(429, NoSid)
    BY <1>0, <1>3 DEF TransportTypeOK
  <2>2. req'[m].pc = "over" /\ req'[m].status = 429
    BY <2>1, OverTyped
  <2> QED
    BY <1>0, <1>3, <2>2, LineRefused DEF Admit, Flying
<1>4. CASE m = r /\ req' = [req EXCEPT ![r].pc = "admitted", ![r].g = g, ![r].opening = Opens(r)]
  <2>1. req'[m] = [req[m] EXCEPT !.pc = "admitted", !.g = g, !.opening = Opens(r)]
    BY <1>0, <1>4 DEF TransportTypeOK
  <2>2. /\ req'[m].pc = "admitted" /\ req'[m].kind = req[m].kind
        /\ req'[m].sid = req[m].sid /\ req'[m].status = req[m].status
    BY <1>0, <2>1 DEF SlotRec
  <2> QED
    BY <1>0, <1>4, <2>2, LineFlies DEF Admit, Flying
<1> QED
  BY <1>1, <1>2, <1>3, <1>4

LEMMA ServeLines ==
  ASSUME TransportTypeOK, NEW r \in Requests, Serve(r), NEW m \in Lines, Line(m), SameLine(m)
  PROVE  Line(m)'
<1>0. m \in Requests /\ req[m] \in SlotRec
  BY BridgeAssumption DEF TransportTypeOK
<1> DEFINE n == IF req[r].kind = "initialize" /\ SdkStatus(r) = 200 THEN issued + 1 ELSE NoSid
<1>1. /\ req' = [req EXCEPT ![r].pc = "served", ![r].status = SdkStatus(r), ![r].new = n]
      /\ ran' = IF req[r].kind = "call" /\ SdkStatus(r) = 200 /\ req[r].sid # NoSid
                  THEN [ran EXCEPT ![r] = @ + 1] ELSE ran
  BY DEF Serve
<1> HIDE DEF n
<1>2. CASE m # r
  <2>1. req'[m] = req[m] /\ ran'[m] = ran[m]
    BY <1>0, <1>1, <1>2 DEF TransportTypeOK
  <2> QED
    BY <2>1, LineStays
<1>3. CASE m = r
  <2>1. req'[m] = [req[m] EXCEPT !.pc = "served", !.status = SdkStatus(r), !.new = n]
    BY <1>0, <1>1, <1>3 DEF TransportTypeOK
  <2>2. req'[m].pc = "served" /\ req'[m].status = SdkStatus(r)
    BY <1>0, <2>1 DEF SlotRec
  <2>3. ran'[m] = IF req[m].kind = "call" /\ req'[m].status = 200 /\ req[m].sid # NoSid
                    THEN ran[m] + 1 ELSE ran[m]
    BY <1>0, <1>1, <1>3, <2>2 DEF TransportTypeOK
  <2>4. req[m].kind = "call" => SdkStatus(r) \in {200, 403, 404}
    BY <1>3 DEF SdkStatus
  <2>5. Flying(m)
    BY <1>3 DEF Serve, Flying
  <2> QED
    BY <2>2, <2>3, <2>4, <2>5, LineServed
<1> QED
  BY <1>2, <1>3

LEMMA FinishLines ==
  ASSUME TransportTypeOK, NEW r \in Requests, Finish(r), NEW m \in Lines, Line(m), SameLine(m)
  PROVE  Line(m)'
<1>0. m \in Requests /\ req[m] \in SlotRec /\ ran' = ran
      /\ req' = [req EXCEPT ![r] = Over(req[r].status, req[r].new)]
  BY BridgeAssumption DEF TransportTypeOK, Finish
<1>1. CASE m # r
  <2>1. req'[m] = req[m]
    BY <1>0, <1>1 DEF TransportTypeOK
  <2> QED
    BY <1>0, <2>1, LineStays
<1>2. CASE m = r
  <2>1. req'[m] = Over(req[m].status, req[m].new)
    BY <1>0, <1>2 DEF TransportTypeOK
  <2>2. req[m].status \in Nat /\ req[m].new \in Sids \cup {NoSid}
    BY <1>0 DEF SlotRec
  <2>3. req'[m].pc = "over" /\ req'[m].status = req[m].status
    BY <2>1, <2>2, OverTyped
  <2> QED
    BY <1>0, <1>2, <2>3, LineLanded DEF Finish, Landed
<1> QED
  BY <1>1, <1>2

LEMMA CrashLines ==
  ASSUME TransportTypeOK, Crash, NEW m \in Lines, Line(m), SameLine(m)
  PROVE  Line(m)'
<1>0. m \in Requests /\ req[m] \in SlotRec /\ ran' = ran
  BY BridgeAssumption DEF TransportTypeOK, Crash
<1>1. CASE req[m].pc \in {"none", "over", "dead", "cut"}
  <2>1. req'[m] = req[m]
    BY <1>0, <1>1 DEF Crash
  <2> QED
    BY <1>0, <2>1, LineStays
<1>2. CASE req[m].pc = "served"
  <2>1. req'[m] = [req[m] EXCEPT !.pc = "cut", !.g = 0]
    BY <1>0, <1>2 DEF Crash
  <2>2. req'[m].pc = "cut" /\ req'[m].status = req[m].status
    BY <1>0, <2>1 DEF SlotRec
  <2> QED
    BY <1>0, <1>2, <2>2, LineLanded DEF Landed
<1>3. CASE Flying(m)
  <2>1. req'[m] = [req[m] EXCEPT !.pc = "dead", !.g = 0]
    BY <1>0, <1>3 DEF Crash, Flying
  <2>2. req'[m].pc = "dead" /\ req'[m].status = req[m].status
    BY <1>0, <2>1 DEF SlotRec
  <2> QED
    BY <1>0, <1>3, <2>2, LineDead
<1> QED
  BY <1>0, <1>1, <1>2, <1>3 DEF SlotRec, SlotPcs, Flying

LEMMA ServerLines ==
  ASSUME TransportTypeOK, ServerStep, NEW m \in Lines, Line(m), SameLine(m)
  PROVE  Line(m)'
<1>1. CASE \E r \in Requests : Lookup(r) \/ Admit(r) \/ Throttle(r) \/ Serve(r) \/ Finish(r)
  BY <1>1, LookupLines, AdmitLines, ThrottleLines, ServeLines, FinishLines
<1>2. CASE Crash
  BY <1>2, CrashLines
<1>3. CASE SetLimits \/ Rebuild \/ Replace \/ Expire \/ SdkTimeout \/ Restart
  <2>1. req' = req /\ ran' = ran
    BY <1>3 DEF SetLimits, Rebuild, Replace, Expire, SdkTimeout, Restart, ReloadVars
  <2> QED
    BY <2>1, LineStays
<1> QED
  BY <1>1, <1>2, <1>3 DEF ServerStep

-----------------------------------------------------------------------------
(* The steps of the bridge *)

LEMMA OneThread ==
  ASSUME BridgeTypeOK, NEW m \in Lines, NEW x \in ThRec, th' = [th EXCEPT ![m] = x]
  PROVE  /\ th' \in [Lines -> ThRec]
         /\ th'[m] = x /\ \A n \in Lines : n # m => th'[n] = th[n]
BY DEF BridgeTypeOK

\* A handler goes to another place.
LEMMA ThreadTo ==
  ASSUME BridgeTypeOK, NEW m \in Lines, NEW p \in Handling \cup {"unread", "done"},
         th' = [th EXCEPT ![m].pc = p]
  PROVE  /\ th' \in [Lines -> ThRec]
         /\ th'[m].pc = p /\ th'[m].sid = th[m].sid
         /\ \A n \in Lines : n # m => th'[n] = th[n]
<1>1. th[m] \in ThRec
  BY DEF BridgeTypeOK
<1>2. PICK x : x = [th[m] EXCEPT !.pc = p]
  OBVIOUS
<1>3. x \in ThRec /\ x.pc = p /\ x.sid = th[m].sid
  BY <1>1, <1>2 DEF ThRec
<1>4. th' = [th EXCEPT ![m] = x]
  BY <1>2 DEF BridgeTypeOK
<1> QED
  BY <1>3, <1>4, OneThread

LEMMA ThreadEnds ==
  ASSUME BridgeTypeOK, NEW m \in Lines, th' = Quit(m)
  PROVE  /\ th' \in [Lines -> ThRec]
         /\ th'[m].pc = "done" /\ th'[m].sid = th[m].sid
         /\ \A n \in Lines : n # m => th'[n] = th[n]
BY ThreadTo DEF Quit

\* emit: the first answer of a line.
LEMMA SaysEffect ==
  ASSUME BridgeTypeOK, NEW m \in Lines, NEW w \in Answers, out[m] = <<>>, out' = Says(m, w)
  PROVE  /\ out' \in [Lines -> Outs]
         /\ out'[m] \in {<<>>, <<w>>}
         /\ \A n \in Lines : n # m => out'[n] = out[n]
<1>1. out \in [Lines -> Outs] /\ <<w>> \in Outs
  BY DEF BridgeTypeOK, Outs
<1>2. CASE Kind[m] = "initialized"
  BY <1>1, <1>2 DEF Says
<1>3. CASE Kind[m] # "initialized"
  <2>1. out' = [out EXCEPT ![m] = Append(out[m], w)]
    BY <1>3 DEF Says
  <2>2. Append(out[m], w) = <<w>>
    BY NoAnswer
  <2>3. out' = [out EXCEPT ![m] = <<w>>]
    BY <2>1, <2>2
  <2> QED
    BY <1>1, <2>3
<1> QED
  BY <1>2, <1>3

Resting == {"post", "lost", "replay", "replayed", "replayBody", "note", "noted"}

\* Before a post the call has not run.
LEMMA LineRests ==
  ASSUME NEW m \in Lines, Line(m), req'[m] = req[m], ran'[m] = ran[m],
         out'[m] = <<>>, ran[m] = 0, th'[m].pc \in Resting,
         req[m].pc \notin {"sent", "known", "admitted", "dead"}
  PROVE  Line(m)'
<1>1. FlyingFits(m)' /\ LandedFits(m)'
  BY DEF FlyingFits, LandedFits, Flying, Resting
<1>2. LineFits(m)'
  BY DEF Line, LineFits, Resting
<1>3. LineTrue(m)'
  BY NoAnswer DEF LineTrue
<1> QED
  BY <1>1, <1>2, <1>3 DEF Line

LEMMA LineEnds ==
  ASSUME NEW m \in Lines, Line(m), req'[m] = req[m], ran'[m] = ran[m],
         th[m].pc # "done", th'[m].pc = "done", th'[m].sid = th[m].sid,
         NEW w \in Answers, out'[m] \in {<<>>, <<w>>},
         Flying(m) => w = "unreachable",
         w = "ok" /\ Kind[m] = "call" => ran[m] = 1,
         w \in {"lost", "again", "http", "refused"} => ran[m] = 0
  PROVE  Line(m)'
<1>1. FlyingFits(m)' /\ LandedFits(m)'
  BY DEF Line, FlyingFits, LandedFits, Flying
<1>2. LineFits(m)'
  BY DEF Line, LineFits
<1>3. ran[m] <= 1
  BY DEF Line, LineFits
<1>4. LineTrue(m)'
  <2>1. CASE out'[m] = <<>>
    BY <1>3, <2>1, NoAnswer DEF LineTrue
  <2>2. CASE out'[m] = <<w>>
    BY <1>3, <2>2, OneAnswer DEF LineTrue
  <2> QED
    BY <2>1, <2>2
<1> QED
  BY <1>1, <1>2, <1>4 DEF Line

Known == BridgeTypeOK /\ \A n \in Lines : Line(n)

\* A handler's step is a step of its own line only.
LEMMA OthersKnown ==
  ASSUME Known, NEW m \in Lines, BridgeTypeOK', Line(m)',
         \A n \in Lines : n # m => /\ th'[n] = th[n] /\ out'[n] = out[n]
                                   /\ req'[n] = req[n] /\ ran'[n] = ran[n]
  PROVE  Known'
<1>1. ASSUME NEW n \in Lines, n # m PROVE Line(n)'
  BY <1>1, LineStays DEF Known, SameLine
<1> QED
  BY <1>1 DEF Known

LEMMA ReadLineKnown == ASSUME Known, NEW m \in Lines, ReadLine(m) PROVE Known'
<1>0. BridgeTypeOK /\ Line(m) /\ th[m] \in ThRec /\ req' = req /\ ran' = ran /\ out' = out
  BY DEF Known, BridgeTypeOK, ReadLine, tvars
<1>1. PICK x : x = [th[m] EXCEPT !.pc = "post", !.gen = initGen, !.tries = 1]
  OBVIOUS
<1>2. x \in ThRec /\ x.pc = "post"
  BY <1>0, <1>1 DEF ThRec, Handling, BridgeTypeOK
<1>3. th' = [th EXCEPT ![m] = x]
  BY <1>1 DEF ReadLine
<1>4. /\ th' \in [Lines -> ThRec]
      /\ th'[m] = x /\ \A n \in Lines : n # m => th'[n] = th[n]
  BY <1>0, <1>2, <1>3, OneThread
<1>5. BridgeTypeOK'
  BY <1>0, <1>4 DEF ReadLine, BridgeTypeOK
<1>6. ran[m] = 0 /\ out[m] = <<>> /\ req[m].pc = "none"
  BY <1>0 DEF ReadLine, Line, LineFits
<1>7. Line(m)'
  BY <1>0, <1>2, <1>4, <1>6, LineRests DEF Resting
<1> QED
  BY <1>0, <1>4, <1>5, <1>7, OthersKnown

LEMMA DoElsewhere ==
  ASSUME TransportTypeOK, NEW slot \in Requests, NEW kind, NEW sid, Do(slot, kind, sid)
  PROVE  ran' = ran /\ \A n \in Lines : n # slot => req'[n] = req[n]
BY BridgeAssumption DEF Do, TransportTypeOK

\* post: the call is on its way, for the first time or again, and has not run.
LEMMA PostKnown == ASSUME TransportTypeOK, Known, NEW m \in Lines, Post(m) PROVE Known'
<1>0. /\ BridgeTypeOK /\ Line(m) /\ th[m] \in ThRec /\ out' = out /\ th[m].pc = "post"
      /\ m \in Requests /\ Do(m, Kind[m], session) /\ session \in Sids \cup {NoSid}
      /\ Kind[m] \in {"initialize", "initialized", "call", "get", "delete"}
  BY BridgeAssumption DEF Known, BridgeTypeOK, Post
<1>1. PICK x : x = [th[m] EXCEPT !.pc = "wait", !.sid = session]
  OBVIOUS
<1>2. x \in ThRec /\ x.pc = "wait" /\ x.sid = session
  BY <1>0, <1>1 DEF ThRec, Handling
<1>3. th' = [th EXCEPT ![m] = x]
  BY <1>0, <1>1 DEF Post, BridgeTypeOK
<1>4. /\ th' \in [Lines -> ThRec]
      /\ th'[m] = x /\ \A n \in Lines : n # m => th'[n] = th[n]
  BY <1>0, <1>2, <1>3, OneThread
<1>5. BridgeTypeOK'
  BY <1>0, <1>4 DEF Post, BridgeTypeOK
<1>6. ran' = ran /\ \A n \in Lines : n # m => req'[n] = req[n]
  BY <1>0, DoElsewhere
<1>7. ran[m] = 0 /\ out[m] = <<>>
  BY <1>0 DEF Line, LineFits
<1>8. \/ req'[m] = Dead
      \/ req'[m] = Sent(Kind[m], Me, session)
  BY <1>0 DEF Do, Dead, TransportTypeOK
<1>9. \/ req'[m].pc = "dead" /\ req'[m].status = 0
      \/ /\ req'[m].pc = "sent" /\ req'[m].kind = Kind[m]
         /\ req'[m].sid = session /\ req'[m].status = 0
  <2>1. Me \in Identities
    BY BridgeAssumption
  <2> QED
    BY <1>0, <1>8, <2>1, DeadTyped, SentTyped
<1>10. Line(m)'
  <2>1. FlyingFits(m)' /\ LandedFits(m)'
    BY <1>0, <1>2, <1>4, <1>6, <1>7, <1>9 DEF FlyingFits, LandedFits, Flying, Landed
  <2>2. LineFits(m)'
    BY <1>0, <1>2, <1>4, <1>6, <1>7, <1>9 DEF LineFits, CallStatus, Landed
  <2>3. LineTrue(m)'
    BY <1>0, <1>6, <1>7, NoAnswer DEF LineTrue
  <2> QED
    BY <2>1, <2>2, <2>3 DEF Line
<1> QED
  BY <1>0, <1>4, <1>5, <1>6, <1>10, OthersKnown

\* Answer: a 404 of the session leads to a second post only for a call that did
\* not run; an error is passed on for a call that did not run.
LEMMA AnswerKnown == ASSUME TransportTypeOK, Known, NEW m \in Lines, Answer(m) PROVE Known'
<1>0. /\ BridgeTypeOK /\ Line(m) /\ req' = req /\ ran' = ran /\ th[m].pc = "wait"
      /\ UNCHANGED <<script, initLine, initGen, reinitMu, closed>> /\ Landed(m)
      /\ m \in Requests /\ req[m] \in SlotRec
  BY BridgeAssumption DEF Known, Answer, tvars, Came, Landed, TransportTypeOK
<1>1. /\ out[m] = <<>>
      /\ ran[m] = IF Kind[m] = "call" /\ req[m].status = 200 /\ th[m].sid # NoSid THEN 1 ELSE 0
      /\ Kind[m] = "call" => req[m].status \in CallStatus
      /\ ~Flying(m) /\ req[m].pc # "dead" /\ req[m].status # 0 /\ req[m].status \in Nat
  BY <1>0 DEF Line, LandedFits, LineFits, Landed, Flying, SlotRec, Answer, Came
<1>2. CASE th' = [th EXCEPT ![m].pc = "lost"] /\ req[m].status = 404 /\ UNCHANGED <<session, get, out>>
  <2>1. /\ th' \in [Lines -> ThRec] /\ th'[m].pc = "lost"
        /\ \A n \in Lines : n # m => th'[n] = th[n]
    <3>1. "lost" \in Handling \cup {"unread", "done"} /\ th' = [th EXCEPT ![m].pc = "lost"]
      BY <1>2 DEF Handling
    <3> QED
      BY <1>0, <3>1, ThreadTo
  <2>2. Line(m)'
    BY <1>0, <1>1, <1>2, <2>1, LineRests DEF Resting, Flying
  <2>3. BridgeTypeOK'
    BY <1>0, <1>2, <2>1 DEF BridgeTypeOK
  <2> QED
    BY <1>0, <1>2, <2>1, <2>2, <2>3, OthersKnown
<1>3. ASSUME NEW w \in {"again", "http"}, th' = Quit(m), out' = Says(m, w), req[m].status # 200,
             UNCHANGED <<session, get>>
      PROVE  Known'
  <2>1. /\ th' \in [Lines -> ThRec] /\ th'[m].pc = "done" /\ th'[m].sid = th[m].sid
        /\ \A n \in Lines : n # m => th'[n] = th[n]
    BY <1>0, <1>3, ThreadEnds
  <2>2. /\ out' \in [Lines -> Outs] /\ out'[m] \in {<<>>, <<w>>}
        /\ \A n \in Lines : n # m => out'[n] = out[n]
    BY <1>0, <1>1, <1>3, SaysEffect DEF Answers
  <2>3. Line(m)'
    <3>1. ran[m] = 0 /\ w # "ok" /\ w \in Answers /\ ~Flying(m) /\ th[m].pc # "done"
      BY <1>0, <1>1, <1>3 DEF Answers
    <3> QED
      BY <1>0, <2>1, <2>2, <3>1, LineEnds
  <2>4. BridgeTypeOK'
    BY <1>0, <1>3, <2>1, <2>2 DEF BridgeTypeOK
  <2> QED
    BY <1>0, <2>1, <2>2, <2>3, <2>4, OthersKnown
<1>4. CASE th' = Quit(m) /\ UNCHANGED <<session, get, out>>
  <2>1. /\ th' \in [Lines -> ThRec] /\ th'[m].pc = "done" /\ th'[m].sid = th[m].sid
        /\ \A n \in Lines : n # m => th'[n] = th[n]
    BY <1>0, <1>4, ThreadEnds
  <2>2. Line(m)'
    <3>1. out'[m] \in {<<>>, <<"unreachable">>}
      BY <1>1, <1>4
    <3> QED
      BY <1>0, <1>1, <2>1, <3>1, LineEnds DEF Answers
  <2>3. BridgeTypeOK'
    BY <1>0, <1>4, <2>1 DEF BridgeTypeOK
  <2> QED
    BY <1>0, <1>4, <2>1, <2>2, <2>3, OthersKnown
<1>5. CASE /\ th' = [th EXCEPT ![m].pc = "body"] /\ req[m].status < 300
           /\ session' \in {session, req[m].new} /\ UNCHANGED <<get, out>>
  <2>1. /\ th' \in [Lines -> ThRec] /\ th'[m].pc = "body" /\ th'[m].sid = th[m].sid
        /\ \A n \in Lines : n # m => th'[n] = th[n]
    BY <1>0, <1>5, ThreadTo DEF Handling
  <2>2. Kind[m] = "call" => req[m].status = 200
    BY <1>1, <1>5 DEF CallStatus
  <2>3. Line(m)'
    <3>1. FlyingFits(m)' /\ LandedFits(m)'
      BY <1>0, <1>1, <2>1 DEF FlyingFits, LandedFits, Flying, Landed
    <3>2. LineFits(m)'
      BY <1>0, <1>1, <1>5, <2>1, <2>2 DEF LineFits, Landed, CallStatus
    <3>3. LineTrue(m)'
      BY <1>0, <1>1, <1>5, NoAnswer DEF LineTrue, Line, LineFits
    <3> QED
      BY <3>1, <3>2, <3>3 DEF Line
  <2>4. session' \in Sids \cup {NoSid}
    BY <1>0, <1>5 DEF SlotRec, BridgeTypeOK
  <2>5. BridgeTypeOK'
    BY <1>0, <1>5, <2>1, <2>4 DEF BridgeTypeOK
  <2> QED
    BY <1>0, <1>5, <2>1, <2>3, <2>5, OthersKnown
<1> QED
  <2>1. CASE req[m].status = 404 /\ th[m].sid # NoSid
    <3>1. \/ th' = [th EXCEPT ![m].pc = "lost"] /\ UNCHANGED <<session, get, out>>
          \/ th' = Quit(m) /\ out' = Says(m, "again") /\ UNCHANGED <<session, get>>
      BY <2>1 DEF Answer
    <3> QED
      BY <1>2, <1>3, <2>1, <3>1
  <2>2. CASE req[m].status >= 300 /\ ~(req[m].status = 404 /\ th[m].sid # NoSid)
    <3>1. th' = Quit(m) /\ out' = Says(m, "http") /\ UNCHANGED <<session, get>>
      BY <2>2 DEF Answer
    <3>2. req[m].status # 200
      BY <2>2
    <3> QED
      BY <1>3, <3>1, <3>2
  <2>3. CASE req[m].status = 202
    <3>1. th' = Quit(m) /\ UNCHANGED <<session, get, out>>
      BY <2>3 DEF Answer
    <3> QED
      BY <1>4, <3>1
  <2>4. CASE req[m].status < 300 /\ req[m].status # 202
    <3>1. /\ th' = [th EXCEPT ![m].pc = "body"]
          /\ session' \in {session, req[m].new} /\ UNCHANGED <<get, out>>
      BY <1>1, <2>4 DEF Answer
    <3> QED
      BY <1>5, <2>4, <3>1
  <2> QED
    BY <1>1, <2>1, <2>2, <2>3, <2>4

LEMMA StartGetTyped ==
  ASSUME BridgeTypeOK
  PROVE  startGET \in [pc : {"off", "open", "wait"}, retries : Nat]
BY DEF startGET, BridgeTypeOK

\* Body: the result is passed on only of a call that ran.
LEMMA BodyKnown == ASSUME Known, NEW m \in Lines, Body(m) PROVE Known'
<1>0. /\ BridgeTypeOK /\ Line(m) /\ req' = req /\ ran' = ran /\ th[m].pc = "body"
      /\ th' = Quit(m) /\ UNCHANGED <<script, session, initLine, reinitMu, closed>>
  BY DEF Known, Body, tvars
<1>1. /\ out[m] = <<>> /\ ~Flying(m)
      /\ Kind[m] = "call" => ran[m] = IF th[m].sid # NoSid THEN 1 ELSE 0
      /\ Kind[m] # "call" => ran[m] = 0
  BY <1>0 DEF Line, LandedFits, LineFits, Landed, Flying
<1>2. /\ th' \in [Lines -> ThRec] /\ th'[m].pc = "done" /\ th'[m].sid = th[m].sid
      /\ \A n \in Lines : n # m => th'[n] = th[n]
  BY <1>0, ThreadEnds
<1>3. get' \in [pc : {"off", "open", "wait"}, retries : Nat] /\ initGen' \in Nat
  BY <1>0, StartGetTyped DEF Body, BridgeTypeOK
<1>4. PICK w \in {"ok", "refused"} :
        /\ w = IF Kind[m] = "call" /\ th[m].sid = NoSid THEN "refused" ELSE "ok"
        /\ out' = Says(m, w) \/ out' = out
  BY DEF Body
<1>5. /\ out' \in [Lines -> Outs] /\ out'[m] \in {<<>>, <<w>>}
      /\ \A n \in Lines : n # m => out'[n] = out[n]
  <2>1. w \in Answers
    BY <1>4 DEF Answers
  <2>2. CASE out' = Says(m, w)
    BY <1>0, <1>1, <2>1, <2>2, SaysEffect
  <2>3. CASE out' = out
    BY <1>0, <1>1, <2>3 DEF BridgeTypeOK
  <2> QED
    BY <1>4, <2>2, <2>3
<1>6. Line(m)'
  <2>1. /\ w = "ok" /\ Kind[m] = "call" => ran[m] = 1
        /\ w \in {"lost", "again", "http", "refused"} => ran[m] = 0
        /\ w \in Answers
    BY <1>1, <1>4 DEF Answers
  <2> QED
    BY <1>0, <1>1, <1>2, <1>5, <2>1, LineEnds
<1>7. BridgeTypeOK'
  BY <1>0, <1>2, <1>3, <1>5 DEF BridgeTypeOK
<1> QED
  BY <1>0, <1>2, <1>5, <1>6, <1>7, OthersKnown

LEMMA UnreachableKnown == ASSUME Known, NEW m \in Lines, Unreachable(m) PROVE Known'
<1>0. /\ BridgeTypeOK /\ Line(m) /\ req' = req /\ ran' = ran /\ th[m].pc = "wait"
      /\ th' = Quit(m) /\ out' = Says(m, "unreachable")
      /\ UNCHANGED <<script, session, initLine, initGen, reinitMu, get, closed>>
  BY DEF Known, Unreachable, tvars
<1>1. out[m] = <<>>
  BY <1>0 DEF Line, LineFits
<1>2. /\ th' \in [Lines -> ThRec] /\ th'[m].pc = "done" /\ th'[m].sid = th[m].sid
      /\ \A n \in Lines : n # m => th'[n] = th[n]
  BY <1>0, ThreadEnds
<1>3. /\ out' \in [Lines -> Outs] /\ out'[m] \in {<<>>, <<"unreachable">>}
      /\ \A n \in Lines : n # m => out'[n] = out[n]
  BY <1>0, <1>1, SaysEffect DEF Answers
<1>4. Line(m)'
  BY <1>0, <1>2, <1>3, LineEnds DEF Answers
<1>5. BridgeTypeOK'
  BY <1>0, <1>2, <1>3 DEF BridgeTypeOK
<1> QED
  BY <1>0, <1>2, <1>3, <1>4, <1>5, OthersKnown

\* The steps of reinitialize: the call has not run, and goes on so ...
LEMMA RestKnown ==
  ASSUME Known, NEW m \in Lines, th[m].pc \in Resting, req'[m] = req[m], ran' = ran,
         \A n \in Lines : req'[n] = req[n], out' = out,
         th' \in [Lines -> ThRec], th'[m].pc \in Resting,
         \A n \in Lines : n # m => th'[n] = th[n], BridgeTypeOK'
  PROVE  Known'
<1>1. Line(m)
  BY DEF Known
<1>2. ran[m] = 0 /\ out[m] = <<>> /\ req[m].pc \notin {"sent", "known", "admitted", "dead"}
  BY <1>1 DEF Line, LineFits, Resting
<1>3. Line(m)'
  BY <1>1, <1>2, LineRests
<1> QED
  BY <1>3, OthersKnown

\* ... or the line is answered with the lost session.
LEMMA LostKnown ==
  ASSUME Known, NEW m \in Lines, th[m].pc \in Resting, req' = req, ran' = ran,
         th' = Quit(m), out' = Says(m, "lost"), session' \in Sids \cup {NoSid},
         UNCHANGED <<initLine, initGen, get, closed>>
  PROVE  Known'
<1>0. BridgeTypeOK /\ Line(m)
  BY DEF Known
<1>1. ran[m] = 0 /\ out[m] = <<>> /\ ~Flying(m) /\ th[m].pc # "done"
  BY <1>0 DEF Line, LineFits, Resting, Flying
<1>2. /\ th' \in [Lines -> ThRec] /\ th'[m].pc = "done" /\ th'[m].sid = th[m].sid
      /\ \A n \in Lines : n # m => th'[n] = th[n]
  BY <1>0, ThreadEnds
<1>3. /\ out' \in [Lines -> Outs] /\ out'[m] \in {<<>>, <<"lost">>}
      /\ \A n \in Lines : n # m => out'[n] = out[n]
  BY <1>0, <1>1, SaysEffect DEF Answers
<1>4. Line(m)'
  BY <1>0, <1>1, <1>2, <1>3, LineEnds DEF Answers
<1>5. BridgeTypeOK'
  BY <1>0, <1>2, <1>3 DEF BridgeTypeOK
<1> QED
  BY <1>2, <1>3, <1>4, <1>5, OthersKnown

LEMMA ThreadRetries ==
  ASSUME BridgeTypeOK, NEW m \in Lines, th' = [th EXCEPT ![m].pc = "post", ![m].tries = 2]
  PROVE  /\ th' \in [Lines -> ThRec] /\ th'[m].pc = "post"
         /\ \A n \in Lines : n # m => th'[n] = th[n]
<1>1. th[m] \in ThRec
  BY DEF BridgeTypeOK
<1>2. PICK x : x = [th[m] EXCEPT !.pc = "post", !.tries = 2]
  OBVIOUS
<1>3. x \in ThRec /\ x.pc = "post"
  BY <1>1, <1>2 DEF ThRec, Handling
<1>4. th' = [th EXCEPT ![m] = x]
  BY <1>2 DEF BridgeTypeOK
<1> QED
  BY <1>3, <1>4, OneThread

LEMMA ReinitializeKnown == ASSUME Known, NEW m \in Lines, Reinitialize(m) PROVE Known'
<1>0. /\ BridgeTypeOK /\ req' = req /\ ran' = ran /\ th[m].pc \in Resting
      /\ UNCHANGED <<initLine, initGen, get, closed>> /\ session' \in Sids \cup {NoSid}
  BY DEF Known, Reinitialize, tvars, Resting, BridgeTypeOK
<1>1. CASE th' = [th EXCEPT ![m].pc = "post", ![m].tries = 2] /\ out' = out
  <2>1. /\ th' \in [Lines -> ThRec] /\ th'[m].pc = "post"
        /\ \A n \in Lines : n # m => th'[n] = th[n]
    BY <1>0, <1>1, ThreadRetries
  <2>2. BridgeTypeOK'
    BY <1>0, <1>1, <2>1 DEF BridgeTypeOK
  <2> QED
    BY <1>0, <1>1, <2>1, <2>2, RestKnown DEF Resting
<1>2. CASE th' = [th EXCEPT ![m].pc = "replay"] /\ out' = out
  <2>1. /\ th' \in [Lines -> ThRec] /\ th'[m].pc = "replay"
        /\ \A n \in Lines : n # m => th'[n] = th[n]
    BY <1>0, <1>2, ThreadTo DEF Handling
  <2>2. BridgeTypeOK'
    BY <1>0, <1>2, <2>1 DEF BridgeTypeOK
  <2> QED
    BY <1>0, <1>2, <2>1, <2>2, RestKnown DEF Resting
<1>3. CASE th' = Quit(m) /\ out' = Says(m, "lost")
  BY <1>0, <1>3, LostKnown
<1> QED
  BY <1>1, <1>2, <1>3 DEF Reinitialize

LEMMA ReplayPostKnown ==
  ASSUME TransportTypeOK, Known, NEW m \in Lines, ReplayPost(m)
  PROVE  Known'
<1>0. /\ BridgeTypeOK /\ th[m] \in ThRec /\ th[m].pc \in Resting /\ out' = out
      /\ UNCHANGED <<session, initLine, initGen, get, closed>> /\ session \in Sids \cup {NoSid}
  BY DEF Known, ReplayPost, Resting, BridgeTypeOK
<1>1. ran' = ran /\ \A n \in Lines : req'[n] = req[n]
  <2>1. Replay \in Requests /\ Replay \notin Lines
    BY BridgeAssumption
  <2>2. \E kind : Do(Replay, kind, session)
    BY DEF ReplayPost
  <2> QED
    BY <2>1, <2>2, DoElsewhere
<1>2. PICK p \in {"replayed", "noted"} : th' = [th EXCEPT ![m].pc = p, ![m].sid = session]
  BY <1>0 DEF ReplayPost, BridgeTypeOK
<1>3. PICK x : x = [th[m] EXCEPT !.pc = p, !.sid = session]
  OBVIOUS
<1>4. x \in ThRec /\ x.pc = p
  <2>1. p \in Handling \cup {"unread", "done"}
    BY <1>2 DEF Handling
  <2> QED
    BY <1>0, <1>3, <2>1 DEF ThRec
<1>5. th' = [th EXCEPT ![m] = x]
  BY <1>2, <1>3 DEF Known, BridgeTypeOK
<1>6. /\ th' \in [Lines -> ThRec]
      /\ th'[m] = x /\ \A n \in Lines : n # m => th'[n] = th[n]
  BY <1>0, <1>4, <1>5, OneThread
<1>7. BridgeTypeOK'
  BY <1>0, <1>6 DEF BridgeTypeOK
<1>8. th'[m].pc \in Resting
  BY <1>2, <1>4, <1>6 DEF Resting
<1> QED
  BY <1>0, <1>1, <1>6, <1>7, <1>8, RestKnown

LEMMA ReplayAnswerKnown ==
  ASSUME TransportTypeOK, Known, NEW m \in Lines, ReplayAnswer(m)
  PROVE  Known'
<1>0. /\ BridgeTypeOK /\ req' = req /\ ran' = ran /\ th[m].pc \in Resting
      /\ UNCHANGED <<initLine, initGen, get, closed>>
  BY DEF Known, ReplayAnswer, tvars, Resting
<1>1. CASE GiveUp(m) /\ session' = session
  BY <1>0, <1>1, LostKnown DEF GiveUp, BridgeTypeOK
<1>2. CASE th' = [th EXCEPT ![m].pc = "replayBody"] /\ session' = req[Replay].new /\ out' = out
  <2>1. /\ th' \in [Lines -> ThRec] /\ th'[m].pc = "replayBody"
        /\ \A n \in Lines : n # m => th'[n] = th[n]
    BY <1>0, <1>2, ThreadTo DEF Handling
  <2>2. session' \in Sids \cup {NoSid}
    <3>1. req[Replay] \in SlotRec
      BY BridgeAssumption DEF TransportTypeOK
    <3> QED
      BY <1>2, <3>1 DEF SlotRec
  <2>3. BridgeTypeOK'
    BY <1>0, <1>2, <2>1, <2>2 DEF BridgeTypeOK
  <2> QED
    BY <1>0, <1>2, <2>1, <2>3, RestKnown DEF Resting
<1> QED
  BY <1>1, <1>2 DEF ReplayAnswer

LEMMA ReplayBodyKnown == ASSUME Known, NEW m \in Lines, ReplayBody(m) PROVE Known'
<1>0. /\ BridgeTypeOK /\ req' = req /\ ran' = ran /\ out' = out /\ th[m].pc \in Resting
      /\ UNCHANGED <<session, initLine, get, closed>> /\ th' = [th EXCEPT ![m].pc = "note"]
  BY DEF Known, ReplayBody, tvars, Resting
<1>1. /\ th' \in [Lines -> ThRec] /\ th'[m].pc = "note"
      /\ \A n \in Lines : n # m => th'[n] = th[n]
  BY <1>0, ThreadTo DEF Handling
<1>2. initGen' \in Nat
  BY <1>0 DEF ReplayBody, BridgeTypeOK
<1>3. BridgeTypeOK'
  BY <1>0, <1>1, <1>2 DEF BridgeTypeOK
<1> QED
  BY <1>0, <1>1, <1>3, RestKnown DEF Resting

LEMMA NoteAnswerKnown == ASSUME Known, NEW m \in Lines, NoteAnswer(m) PROVE Known'
<1>0. /\ BridgeTypeOK /\ req' = req /\ ran' = ran /\ th[m].pc \in Resting
      /\ UNCHANGED <<session, initLine, initGen, closed>>
  BY DEF Known, NoteAnswer, tvars, Resting
<1>1. CASE GiveUp(m) /\ get' = get
  BY <1>0, <1>1, LostKnown DEF GiveUp, BridgeTypeOK
<1>2. CASE /\ th' = [th EXCEPT ![m].pc = "post", ![m].tries = 2] /\ out' = out
           /\ get' \in {startGET, get}
  <2>1. /\ th' \in [Lines -> ThRec] /\ th'[m].pc = "post"
        /\ \A n \in Lines : n # m => th'[n] = th[n]
    BY <1>0, <1>2, ThreadRetries
  <2>2. get' \in [pc : {"off", "open", "wait"}, retries : Nat]
    BY <1>0, <1>2, StartGetTyped DEF BridgeTypeOK
  <2>3. BridgeTypeOK'
    BY <1>0, <1>2, <2>1, <2>2 DEF BridgeTypeOK
  <2> QED
    BY <1>0, <1>2, <2>1, <2>3, RestKnown DEF Resting
<1> QED
  BY <1>1, <1>2 DEF NoteAnswer

\* The steps that leave every line alone.
LEMMA NoLineKnown ==
  ASSUME Known, UNCHANGED <<th, out>>, BridgeTypeOK', ran' = ran,
         \A n \in Lines : req'[n] = req[n]
  PROVE  Known'
<1>1. ASSUME NEW n \in Lines PROVE Line(n)'
  BY LineStays DEF Known, SameLine
<1> QED
  BY <1>1 DEF Known

LEMMA HandlerKeeps ==
  ASSUME Counted, Known, NEW m \in Lines, BridgeStep(m)
  PROVE  Counted' /\ Known'
<1>0. TransportTypeOK /\ BridgeTypeOK
  BY DEF Counted, Known
<1>1. CASE Post(m)
  <2>1. /\ m \in Requests /\ session \in Sids \cup {NoSid} /\ Do(m, Kind[m], session)
        /\ Kind[m] \in {"initialize", "initialized", "call", "get", "delete"}
    BY <1>0, <1>1, BridgeAssumption DEF Post, BridgeTypeOK
  <2> QED
    BY <1>0, <1>1, <2>1, PostKnown, SendCounts
<1>2. CASE ReplayPost(m)
  <2>1. Replay \in Requests /\ session \in Sids \cup {NoSid}
    BY <1>0, BridgeAssumption DEF BridgeTypeOK
  <2>2. Do(Replay, "initialize", session) \/ Do(Replay, "initialized", session)
    BY <1>2 DEF ReplayPost
  <2>3. Counted'
    BY <2>1, <2>2, SendCounts
  <2> QED
    BY <1>0, <1>2, <2>3, ReplayPostKnown
<1>3. CASE \/ ReadLine(m) \/ Answer(m) \/ Body(m) \/ Unreachable(m) \/ Reinitialize(m)
           \/ ReplayAnswer(m) \/ ReplayBody(m) \/ NoteAnswer(m)
  <2>1. UNCHANGED tvars
    BY <1>3 DEF ReadLine, Answer, Body, Unreachable, Reinitialize, ReplayAnswer, ReplayBody,
                NoteAnswer
  <2>2. Known'
    BY <1>0, <1>3, ReadLineKnown, AnswerKnown, BodyKnown, UnreachableKnown, ReinitializeKnown,
       ReplayAnswerKnown, ReplayBodyKnown, NoteAnswerKnown
  <2> QED
    BY <2>1, <2>2, StillCounts
<1> QED
  BY <1>1, <1>2, <1>3 DEF BridgeStep

LEMMA GetOpenKeeps == ASSUME Counted, Known, GetOpen PROVE Counted' /\ Known'
<1>0. /\ TransportTypeOK /\ BridgeTypeOK /\ GetSlot \in Requests /\ GetSlot \notin Lines
      /\ session \in Sids \cup {NoSid}
  BY BridgeAssumption DEF Counted, Known, BridgeTypeOK
<1>1. Counted' /\ ran' = ran /\ \A n \in Lines : req'[n] = req[n]
  <2>1. CASE UNCHANGED tvars
    BY <2>1, StillCounts DEF tvars
  <2>2. CASE Do(GetSlot, "get", session)
    BY <1>0, <2>2, SendCounts, DoElsewhere
  <2> QED
    BY <2>1, <2>2 DEF GetOpen
<1>2. get' \in [pc : {"off", "open", "wait"}, retries : Nat]
  BY <1>0 DEF GetOpen, BridgeTypeOK
<1>3. BridgeTypeOK'
  BY <1>0, <1>2 DEF GetOpen, BridgeTypeOK
<1> QED
  BY <1>1, <1>3, NoLineKnown DEF GetOpen

LEMMA GetEndKeeps == ASSUME Counted, Known, GetEnd PROVE Counted' /\ Known'
<1>0. BridgeTypeOK /\ UNCHANGED tvars /\ req' = req /\ ran' = ran
  BY DEF Known, GetEnd, tvars
<1>1. get' \in [pc : {"off", "open", "wait"}, retries : Nat]
  BY <1>0 DEF GetEnd, BridgeTypeOK
<1>2. BridgeTypeOK'
  BY <1>0, <1>1 DEF GetEnd, BridgeTypeOK
<1> QED
  BY <1>0, <1>2, StillCounts, NoLineKnown DEF GetEnd

LEMMA EndKeeps == ASSUME Counted, Known, Eof \/ Cancel \/ Close PROVE Counted' /\ Known'
<1>0. /\ TransportTypeOK /\ BridgeTypeOK /\ DelSlot \in Requests /\ DelSlot \notin Lines
      /\ session \in Sids \cup {NoSid}
  BY BridgeAssumption DEF Counted, Known, BridgeTypeOK
<1>1. /\ closed' \in {"reading", "draining", "cancelled", "closed"}
      /\ UNCHANGED <<session, initLine, initGen, get, th, out>>
      /\ UNCHANGED tvars \/ Do(DelSlot, "delete", session)
  BY DEF Eof, Cancel, Close
<1>2. Counted' /\ ran' = ran /\ \A n \in Lines : req'[n] = req[n]
  <2>1. CASE UNCHANGED tvars
    BY <2>1, StillCounts DEF tvars
  <2>2. CASE Do(DelSlot, "delete", session)
    BY <1>0, <2>2, SendCounts, DoElsewhere
  <2> QED
    BY <1>1, <2>1, <2>2
<1>3. BridgeTypeOK'
  BY <1>0, <1>1 DEF BridgeTypeOK
<1> QED
  BY <1>1, <1>2, <1>3, NoLineKnown

LEMMA StillTyped == ASSUME BridgeTypeOK, UNCHANGED bvars PROVE BridgeTypeOK'
BY DEF BridgeTypeOK, bvars

LEMMA ServerKeeps ==
  ASSUME Counted, Known, ServerStep, UNCHANGED bvars
  PROVE  Counted' /\ Known'
<1>1. BridgeTypeOK' /\ \A n \in Lines : SameLine(n)
  BY StillTyped DEF Known, bvars, SameLine
<1>2. \A n \in Lines : Line(n)'
  BY <1>1, ServerLines DEF Counted, Known
<1> QED
  BY <1>1, <1>2, ServerCounts DEF Known

LEMMA DirectKeeps ==
  ASSUME Counted, Known, NEW r \in Directs, DirectOpen(r)
  PROVE  Counted' /\ Known'
<1>1. UNCHANGED bvars /\ ran' = ran /\ \A n \in Lines : req'[n] = req[n]
  BY BridgeAssumption DEF DirectOpen, bvars, Counted, TransportTypeOK
<1>2. BridgeTypeOK' /\ UNCHANGED <<th, out>>
  BY <1>1, StillTyped DEF Known, bvars
<1> QED
  BY <1>1, <1>2, DirectOpenCounts, NoLineKnown

LEMMA InvIs ==
  /\ BridgeInv <=> Counted /\ Known
  /\ BridgeInv' <=> Counted' /\ Known'
BY LinesAre DEF BridgeInv, Counted, Known

LEMMA NextKeeps == ASSUME Counted, Known, [Next]_vars PROVE Counted' /\ Known'
<1>1. CASE ServerStep /\ UNCHANGED bvars
  BY <1>1, ServerKeeps
<1>2. CASE \E m \in Lines : BridgeStep(m)
  BY <1>2, HandlerKeeps
<1>3. CASE \E r \in Directs : DirectOpen(r)
  BY <1>3, DirectKeeps
<1>4. CASE GetOpen \/ GetEnd \/ Eof \/ Cancel \/ Close
  BY <1>4, GetOpenKeeps, GetEndKeeps, EndKeeps
<1>5. CASE UNCHANGED vars
  <2>1. UNCHANGED bvars /\ UNCHANGED tvars /\ UNCHANGED <<th, out, req, ran>>
    BY <1>5 DEF vars, bvars, tvars
  <2> QED
    BY <2>1, StillTyped, StillCounts, NoLineKnown DEF Known
<1> QED
  BY <1>1, <1>2, <1>3, <1>4, <1>5 DEF Next

LEMMA InitKnown == Init => Counted /\ Known
<1> SUFFICES ASSUME Init PROVE Counted /\ Known
  OBVIOUS
<1>0. TInit
  BY DEF Init
<1>1. /\ guards \in Seq(GuardRec)
      /\ guardOf \in [Identities -> 0..Len(guards)]
      /\ \A i \in Identities :
           guardOf[i] # 0 /\ guards[guardOf[i]].limits = EffectiveLimits(i, FirstLimits)
      /\ \A k \in DOMAIN guards :
           guards[k].inflight = 0 /\ guards[k].streams = 0 /\ guards[k].limits \in Limits
  <2>1. Start(guards, guardOf)
    BY <1>0 DEF TInit, NewAuthenticator, Start
  <2> QED
    BY <2>1, StartFits
<1>2. Idle \in SlotRec /\ Idle.pc = "none" /\ Idle.status = 0
  BY DEF Idle, SlotRec, SlotPcs
<1>3. \A r \in Requests : req[r] = Idle /\ ran[r] = 0
  BY <1>0 DEF TInit
<1>4. TransportTypeOK
  <2>1. req \in [Requests -> SlotRec] /\ ran \in [Requests -> Nat]
    BY <1>0, <1>2 DEF TInit
  <2>2. /\ tracked \in [Sids -> Identities \cup {NoOne}] /\ live \in [Sids -> Identities \cup {NoOne}]
        /\ lookup \subseteq Identities /\ limits \in LimitSets
        /\ reload \in [pc : {"idle", "limits", "swap", "lookup"},
                       named : SUBSET Identities, ids : SUBSET Identities, limits : LimitSets]
    BY <1>0, TransportAssumption DEF TInit, NewAuthenticator
  <2>3. up \in BOOLEAN /\ reloaded \in BOOLEAN
    BY <1>0 DEF TInit
  <2>4. issued \in 0..MaxSids /\ faults \in Nat
    BY <1>0, TransportAssumption DEF TInit
  <2>5. noteAs \in NoteStatus
    BY <1>0 DEF TInit
  <2> QED
    BY <1>1, <2>1, <2>2, <2>3, <2>4, <2>5 DEF TransportTypeOK
<1>5. InsideFits
  BY <1>2, <1>3 DEF InsideFits, Inside
<1>6. FirstGuards
  BY <1>0, <1>1, <1>2, <1>3 DEF FirstGuards, Inside, TInit, NewAuthenticator
<1>7. /\ \A k : Posts(k) = {} /\ Gets(k) = {}
      /\ \A id \in Identities : Opening(id) = {} /\ TrackedBy(id) = {}
  <2>1. \A k : Posts(k) = {} /\ Gets(k) = {}
    BY <1>2, <1>3 DEF Posts, Gets, Inside
  <2>2. \A id \in Identities : Opening(id) = {}
    BY <1>2, <1>3 DEF Opening
  <2>3. \A id \in Identities : TrackedBy(id) = {}
    BY <1>0, TransportAssumption DEF TInit, NewAuthenticator, TrackedBy
  <2> QED
    BY <2>1, <2>2, <2>3
<1>8. SlotsBalance
  <2> SUFFICES ASSUME NEW k \in DOMAIN guards
               PROVE  /\ guards[k].inflight = Cardinality(Posts(k))
                      /\ guards[k].streams = Cardinality(Gets(k))
                      /\ guards[k].inflight <= guards[k].limits.sessions
                      /\ guards[k].streams <= guards[k].limits.streams
    BY BalanceIs
  <2>1. Cardinality(Posts(k)) = 0 /\ Cardinality(Gets(k)) = 0
    BY <1>7, FS_EmptySet
  <2>2. guards[k].inflight = 0 /\ guards[k].streams = 0 /\ guards[k].limits \in Limits
    BY <1>1
  <2>3. guards[k].inflight <= guards[k].limits.sessions
    BY <2>2, LimitIsNat
  <2>4. guards[k].streams <= guards[k].limits.streams
    BY <2>2, LimitIsNat
  <2> QED
    BY <2>1, <2>2, <2>3, <2>4
<1>9. CapOvershoot
  <2> SUFFICES ASSUME NEW id \in Identities
               PROVE  Cardinality(TrackedBy(id)) + Cardinality(Opening(id))
                        <= EffectiveLimits(id, FirstLimits).live - 1
                           + EffectiveLimits(id, FirstLimits).sessions
    BY DEF CapOvershoot
  <2>1. /\ EffectiveLimits(id, FirstLimits) \in Limits
        /\ EffectiveLimits(id, FirstLimits).live > 0
    BY LimitsFit, TransportAssumption
  <2>2. Cardinality(TrackedBy(id)) = 0 /\ Cardinality(Opening(id)) = 0
    BY <1>7, FS_EmptySet
  <2> QED
    BY <2>1, <2>2, LimitIsNat
<1>10. BridgeTypeOK
  <2>1. Fresh \in ThRec /\ <<>> \in Outs
    BY DEF Fresh, ThRec, Outs
  <2>2. th \in [Lines -> ThRec] /\ out \in [Lines -> Outs]
    BY <2>1 DEF Init
  <2> QED
    BY <2>2 DEF Init, BridgeTypeOK
<1>11. ASSUME NEW m \in Lines PROVE Line(m)
  <2>1. /\ req[m].pc = "none" /\ req[m].status = 0 /\ ran[m] = 0
        /\ th[m].pc = "unread" /\ out[m] = <<>>
    BY <1>2, <1>3, BridgeAssumption DEF Init, Fresh
  <2>2. FlyingFits(m) /\ LandedFits(m)
    BY <2>1 DEF FlyingFits, LandedFits, Flying, Landed
  <2>3. LineFits(m)
    BY <2>1 DEF LineFits, CallStatus
  <2>4. LineTrue(m)
    BY <2>1, NoAnswer DEF LineTrue
  <2> QED
    BY <2>2, <2>3, <2>4 DEF Line
<1> QED
  BY <1>4, <1>5, <1>6, <1>8, <1>9, <1>10, <1>11 DEF Counted, LimitsHold, Known

-----------------------------------------------------------------------------
(* Theorems *)

\* The inductive invariant of the bridge and the endpoint: where a post is, which
\* session it carries and whether its call ran; who holds which guard.
THEOREM BridgeInvariant == Spec => []BridgeInv
<1>1. Init => BridgeInv
  BY InitKnown, InvIs
<1>2. BridgeInv /\ [Next]_vars => BridgeInv'
  BY NextKeeps, InvIs
<1> QED
  BY <1>1, <1>2, PTL DEF Spec

\* bridge.handle: although a call is posted again after a lost session, it runs at
\* most once on the server; it is answered at most once, a relayed result means that
\* it ran, and an error other than "unreachable" that it did not.
THEOREM BridgeAnswersTruth == Spec => []AnswerIsTrue
<1>1. BridgeInv => AnswerIsTrue
  BY DEF BridgeInv
<1> QED
  BY <1>1, BridgeInvariant, PTL

\* guard.enter, guard.leave and the session tracker: whatever reloads and crashes
\* happen under running requests, every guard counts exactly the requests inside it
\* and stays within its caps, and the session cap is exceeded by no more than the
\* requests one identity may have in flight.
THEOREM TransportLimitsHold == Spec => []LimitsHold
<1>1. BridgeInv => LimitsHold
  BY DEF BridgeInv
<1> QED
  BY <1>1, BridgeInvariant, PTL

-----------------------------------------------------------------------------
(* HQbird setup *)

\* No secret of an entry is one of an API key.
LEMMA EnvsAreNoKeys ==
  /\ ~IsKey(NoSecret)
  /\ \A p : ~IsKey(SysdbaEnv(p)) /\ ~IsKey(TokenEnv(p))
  /\ \A n : IsKey(KeyEnv(n))
BY DEF IsKey, NoSecret, SysdbaEnv, TokenEnv, KeyEnv

\* The entries and secrets the lines need name no API key.
LEMMA WantedAreNoKeys ==
  ASSUME NEW c, NEW m, NEW lines, NEW have, NEW w, w = WantLines(c, m, lines, have)
  PROVE  /\ \A e \in w.inst : ~IsKey(e.svc)
         /\ \A a \in w.agents : ~IsKey(a.tok)
         /\ \A s \in w.write : ~IsKey(s)
<1>1. \A l : ~IsKey(WantInstance(l, have).svc)
  BY EnvsAreNoKeys DEF WantInstance
<1>2. \A l : \A a \in WantAgent(c, m, l, have) : ~IsKey(a.tok)
  BY EnvsAreNoKeys DEF WantAgent
<1>3. \A e \in w.inst : ~IsKey(e.svc)
  BY <1>1 DEF WantLines
<1>4. \A a \in w.agents : ~IsKey(a.tok)
  BY <1>2 DEF WantLines
<1>5. \A s \in w.write : ~IsKey(s)
  BY <1>2, EnvsAreNoKeys DEF WantLines
<1> QED
  BY <1>3, <1>4, <1>5

\* Entries that are kept or updated name no API key.
LEMMA KeptAreNoKeys ==
  ASSUME NEW c, NEW m, NEW w, NEW dbs,
         \A e \in c.inst : ~IsKey(e.svc), \A e \in w.inst : ~IsKey(e.svc),
         \A a \in c.agents : ~IsKey(a.tok), \A a \in w.agents : ~IsKey(a.tok)
  PROVE  /\ \A e \in KeepInstances(c, m, w, dbs) : ~IsKey(e.svc)
         /\ \A a \in KeepAgents(c, m, w) : ~IsKey(a.tok)
<1>1. \A e \in c.inst, x \in w.inst : ~IsKey(MergeInstance(e, x).svc)
  BY DEF MergeInstance
<1>2. \A e \in KeepInstances(c, m, w, dbs) : ~IsKey(e.svc)
  BY <1>1 DEF KeepInstances
<1>3. \A a \in KeepAgents(c, m, w) : ~IsKey(a.tok)
  BY DEF KeepAgents
<1> QED
  BY <1>2, <1>3

\* The entries of c the list m does not own are in d.
OperatorsStay(c, m, d) ==
  /\ {e \in c.inst : e.id \notin m.inst} \subseteq d.inst
  /\ {x \in c.dbs : x.id \notin m.dbs} \subseteq d.dbs
  /\ {a \in c.agents : a.id \notin m.agents} \subseteq d.agents

\* The plan changes entries only: remote mode and the recorded rules are the
\* ones that were read, the operator's entries stay, and no API key is among
\* the secrets the list will hold.
LEMMA PlanFits ==
  ASSUME NEW c, Sound(c), NEW m, SoundList(m), NEW lines, NEW have,
         NEW p, p = PlanFor(c, m, WantLines(c, m, lines, have))
  PROVE  /\ Sound(p.cfg) /\ p.cfg.exists
         /\ p.cfg.idents = c.idents /\ p.cfg.listen = c.listen
         /\ SoundList(p.managed) /\ p.managed.allow = m.allow /\ p.managed.fw = m.fw
         /\ OperatorsStay(c, m, p.cfg)
<1>1. PICK w : w = WantLines(c, m, lines, have)
  OBVIOUS
<1>2. /\ \A e \in w.inst : ~IsKey(e.svc)
      /\ \A a \in w.agents : ~IsKey(a.tok)
      /\ \A s \in w.write : ~IsKey(s)
  BY <1>1, WantedAreNoKeys
<1>3. PICK kept : kept = KeepDatabases(c, m, w)
  OBVIOUS
<1>4. PICK insts : insts = KeepInstances(c, m, w, kept)
  OBVIOUS
<1>5. PICK added : added = {x \in w.inst : x.id \notin Ids(insts)}
  OBVIOUS
<1>6. PICK dbs : dbs = AddDatabases(w.lines, insts \cup added, kept)
  OBVIOUS
<1>7. PICK agents : agents = KeepAgents(c, m, w)
  OBVIOUS
<1>8. /\ \A e \in insts \cup added : ~IsKey(e.svc)
      /\ \A a \in agents : ~IsKey(a.tok)
  <2>1. /\ \A e \in insts : ~IsKey(e.svc)
        /\ \A a \in agents : ~IsKey(a.tok)
    BY <1>2, <1>4, <1>7, KeptAreNoKeys DEF Sound
  <2> QED
    BY <1>2, <1>5, <2>1
<1>9. p.cfg = [c EXCEPT !.exists = TRUE, !.inst = insts \cup added, !.dbs = dbs, !.agents = agents]
  BY <1>1, <1>3, <1>4, <1>5, <1>6, <1>7 DEF PlanFor
<1>10. Sound(p.cfg) /\ p.cfg.exists /\ p.cfg.idents = c.idents /\ p.cfg.listen = c.listen
       /\ p.cfg.inst = insts \cup added /\ p.cfg.dbs = dbs /\ p.cfg.agents = agents
  BY <1>8, <1>9 DEF Sound
<1>A. PICK ids : ids = (m.inst \cap Ids(insts)) \cup Ids(added)
  OBVIOUS
<1>B. PICK aids : aids = Ids(w.agents)
  OBVIOUS
<1>C. PICK dids : dids = (m.dbs \cap Ids(kept)) \cup (Ids(dbs) \ Ids(kept))
  OBVIOUS
<1>D. PICK secs : secs = (w.write \cup {e.svc : e \in {x \in insts \cup added : x.id \in ids /\ x.svc # NoSecret}})
                      \cup {a.tok : a \in {x \in agents : x.id \in aids}}
  OBVIOUS
<1>11. p.managed = [m EXCEPT !.inst = ids, !.agents = aids, !.dbs = dids, !.secrets = secs]
  BY <1>1, <1>3, <1>4, <1>5, <1>6, <1>7, <1>A, <1>B, <1>C, <1>D DEF PlanFor
<1>12. \A s \in secs : ~IsKey(s)
  BY <1>2, <1>8, <1>D
<1>13. SoundList(p.managed) /\ p.managed.allow = m.allow /\ p.managed.fw = m.fw
  BY <1>11, <1>12 DEF SoundList
<1>14. {e \in c.inst : e.id \notin m.inst} \subseteq p.cfg.inst
  BY <1>4, <1>10 DEF KeepInstances
<1>15. {d \in c.dbs : d.id \notin m.dbs} \subseteq p.cfg.dbs
  <2>1. {d \in c.dbs : d.id \notin m.dbs} \subseteq kept
    BY <1>3 DEF KeepDatabases
  <2>2. kept \subseteq dbs
    BY <1>6 DEF AddDatabases
  <2> QED
    BY <1>10, <2>1, <2>2
<1>16. {a \in c.agents : a.id \notin m.agents} \subseteq p.cfg.agents
  BY <1>7, <1>10 DEF KeepAgents
<1> QED
  BY <1>10, <1>13, <1>14, <1>15, <1>16 DEF OperatorsStay

\* Remote mode is turned on with an identity and tls, or not at all.
SameEntries(c, d) == d.inst = c.inst /\ d.dbs = c.dbs /\ d.agents = c.agents

RemoteOf(c, m, r) ==
  /\ Sound(r.cfg) /\ r.cfg.listen = r.listen /\ r.cfg.idents = c.idents
  /\ (c.exists => r.cfg.exists) /\ SameEntries(c, r.cfg)
  /\ m.allow = {} => r.cfg = c

LEMMA RemoteFits ==
  ASSUME NEW c, Sound(c), NEW m, NEW r, r = ApplyRemote(c, m)
  PROVE  RemoteOf(c, m, r)
<1>1. CASE m.allow = {}
  BY <1>1 DEF ApplyRemote, Sound, SameEntries, RemoteOf
<1>2. CASE m.allow # {} /\ c.idents = {}
  BY <1>2 DEF ApplyRemote, Sound, SameEntries, RemoteOf
<1>3. CASE m.allow # {} /\ c.idents # {}
  <2>1. PICK port : r = [cfg |-> [c EXCEPT !.tls = TRUE, !.listen = port], listen |-> port]
    BY <1>3 DEF ApplyRemote
  <2>2. PICK d : d = [c EXCEPT !.tls = TRUE, !.listen = port]
    OBVIOUS
  <2>3. /\ DOMAIN d = DOMAIN c /\ d.tls = TRUE /\ d.listen = port
        /\ d.exists = c.exists /\ d.inst = c.inst /\ d.dbs = c.dbs
        /\ d.agents = c.agents /\ d.idents = c.idents
    BY <2>2 DEF Sound
  <2>4. Sound(d)
    BY <1>3, <2>3 DEF Sound
  <2>5. r.cfg = d /\ r.listen = port
    BY <2>1, <2>2
  <2> QED
    BY <1>3, <2>3, <2>4, <2>5 DEF SameEntries, RemoteOf
<1> QED
  BY <1>1, <1>2, <1>3

-----------------------------------------------------------------------------
\* Stored keys and the files of the key pair are there for good.
KeysLast  == \A n : KeyEnv(n) \in secrets => KeyEnv(n) \in secrets'
PairLasts == (pair.key # 0 => pair'.key # 0) /\ (pair.cert # 0 => pair'.cert # 0)

\* Configurations with their keys and their pair keep both.
LEMMA StillStored ==
  ASSUME KeysLast, NEW c, KeysStored(c)
  PROVE  \A n \in c.idents : KeyEnv(n) \in secrets'
BY DEF KeysLast, KeysStored

\* What is on disk, in the command and in another writer stays sound while
\* keys and the pair last.
LEMMA DiskStays ==
  ASSUME DiskSound, UNCHANGED <<cfg, managed>>, KeysLast, PairLasts
  PROVE  DiskSound'
BY DEF DiskSound, KeysLast, PairLasts, KeysStored, Paired, Sound, SoundList

LEMMA RunStays ==
  ASSUME RunSound, UNCHANGED run, KeysLast, PairLasts
  PROVE  RunSound'
BY DEF RunSound, KeysLast, PairLasts, KeysStored, Paired, Active

LEMMA EditStays ==
  ASSUME EditSound, UNCHANGED edit, KeysLast, PairLasts
  PROVE  EditSound'
BY DEF EditSound, KeysLast, PairLasts, KeysStored, Paired

\* A configuration without listen is sound when the one with it is.
LEMMA SilencedIsSound ==
  ASSUME NEW c, Sound(c), NEW d, d = [c EXCEPT !.listen = 0]
  PROVE  /\ Sound(d) /\ d.listen = 0
         /\ d.exists = c.exists /\ d.idents = c.idents
         /\ d.inst = c.inst /\ d.dbs = c.dbs /\ d.agents = c.agents
BY DEF Sound

\* A step of the command that goes on with the plan, or with the plan
\* without listen, and with the same list but for the recorded rules.
GoesOn ==
  /\ Active /\ Active'
  /\ DOMAIN run' = DOMAIN run
  /\ run'.old = run.old /\ run'.m = run.m
  /\ \/ run'.cfg = run.cfg /\ run'.listen = run.listen
     \/ run'.cfg = [run.cfg EXCEPT !.listen = 0] /\ run'.listen = 0
  /\ \/ run'.managed = run.managed
     \/ \E fw : run'.managed = [run.managed EXCEPT !.fw = fw]
  /\ run'.pc \in {"key", "cert", "open", "write", "drop", "config"}
       => run.pc \in {"key", "cert", "open", "write", "drop", "config"}

\* A step that goes on leaves a plan that is as sound and as complete.
LEMMA PlanGoesOn ==
  ASSUME SetupInv, GoesOn, KeysLast, PairLasts,
         \/ run.pc \in Serving \ {"key", "cert"}
         \/ run'.pc \in Retiring \cup {"key", "cert"}
         \/ run'.cfg.listen # 0 => pair'.key # 0 /\ pair'.cert # 0,
         run'.pc = "cert" => pair'.key # 0
  PROVE  RunSound' /\ EntriesKept'
<1>1. /\ SoundList(run.m) /\ SoundList(run.managed)
      /\ Sound(run.cfg) /\ run.cfg.exists /\ KeysStored(run.cfg)
      /\ run.cfg.listen = run.listen
      /\ run.managed.allow = {} => Paired(run.cfg)
  BY DEF SetupInv, RunSound, GoesOn
<1>2. PICK c : c = run'.cfg
  OBVIOUS
<1>3. /\ Sound(c) /\ c.listen = run'.listen /\ c.exists
      /\ c.idents = run.cfg.idents /\ c.inst = run.cfg.inst /\ c.dbs = run.cfg.dbs
      /\ c.agents = run.cfg.agents /\ c.listen \in {0, run.cfg.listen}
  BY <1>1, <1>2, SilencedIsSound DEF GoesOn
<1>4. PICK l : l = run'.managed
  OBVIOUS
<1>5. SoundList(l) /\ l.allow = run.managed.allow
  BY <1>1, <1>4 DEF GoesOn, SoundList
<1>6. \A n \in c.idents : KeyEnv(n) \in secrets'
  BY <1>1, <1>3, StillStored
<1>7. run.pc \in Serving \ {"key", "cert"} \/ l.allow = {} => (c.listen # 0 => pair'.key # 0 /\ pair'.cert # 0)
  BY <1>1, <1>3, <1>5 DEF SetupInv, RunSound, Paired, PairLasts
<1>8. RunSound'
  <2>1. /\ SoundList(run'.m) /\ SoundList(l) /\ Sound(c) /\ c.exists
    BY <1>1, <1>3, <1>5 DEF GoesOn
  <2> QED
    BY <1>2, <1>3, <1>4, <1>6, <1>7, <2>1 DEF RunSound, KeysStored, Paired, Retiring, Serving
<1>9. EntriesKept'
  BY <1>2, <1>3 DEF GoesOn, SetupInv, EntriesKept
<1> QED
  BY <1>8, <1>9


\* The steps of the command.
LEMMA InstallStopsServiceKeeps == ASSUME SetupInv, InstallStopsService PROVE SetupInv'
<1>1. Active /\ DOMAIN run = {"pc", "old", "m", "found", "cfg", "listen", "managed", "write"}
  BY DEF SetupInv, SetupShape, Active, Retiring, Serving, InstallStopsService
<1>2. GoesOn /\ run.pc = "stop" /\ run'.pc = "close"
  BY <1>1 DEF GoesOn, Active, Retiring, Serving, InstallStopsService
<1>3. KeysLast /\ PairLasts
  BY DEF KeysLast, PairLasts, InstallStopsService
<1>4. DiskSound'
  BY <1>3, DiskStays DEF SetupInv, InstallStopsService
<1>5. EditSound'
  BY <1>3, EditStays DEF SetupInv, InstallStopsService
<1>6. RunSound' /\ EntriesKept'
  BY <1>2, <1>3, PlanGoesOn DEF Serving, Retiring, InstallStopsService
<1>7. SetupShape'
  BY <1>1, <1>2 DEF SetupInv, SetupShape, GoesOn, Active, InstallStopsService
<1>8. RulesFollow' /\ FirstFile' /\ RulesWait'
  BY <1>2 DEF SetupInv, RulesFollow, FirstFile, RulesWait, GoesOn, Retiring, Serving,
     InstallStopsService
<1> QED
  BY <1>4, <1>5, <1>6, <1>7, <1>8 DEF SetupInv

\* A removal that may keep some rules: when the rules were the recorded and the
\* stuck ones, what is left of them is stuck.
LEMMA RemovalFits ==
  ASSUME NEW fw, NEW kept \in SUBSET fw, NEW w,
         SetWall(RemoveFirewall(w, fw, kept))
  PROVE  w.rules = fw \cup w.stuck => rules' = stuck'
<1>1. rules' = w.rules \ (fw \ kept) /\ stuck' = (w.stuck \ fw) \cup kept
  BY DEF SetWall, RemoveFirewall
<1> QED
  BY <1>1

LEMMA InstallClosesKeeps == ASSUME SetupInv, InstallCloses PROVE SetupInv'
<1>1. Active /\ DOMAIN run = {"pc", "old", "m", "found", "cfg", "listen", "managed", "write"}
  BY DEF SetupInv, SetupShape, Active, Retiring, Serving, InstallCloses
<1>2. GoesOn /\ run.pc = "close" /\ run'.pc = "forget"
  BY <1>1 DEF GoesOn, Active, Retiring, Serving, InstallCloses
<1>3. KeysLast /\ PairLasts
  BY DEF KeysLast, PairLasts, InstallCloses
<1>4. DiskSound'
  BY <1>3, DiskStays DEF SetupInv, InstallCloses
<1>5. EditSound'
  BY <1>3, EditStays DEF SetupInv, InstallCloses
<1>6. RunSound' /\ EntriesKept'
  BY <1>2, <1>3, PlanGoesOn DEF Serving, Retiring, InstallCloses
<1>7. SetupShape'
  BY <1>1, <1>2 DEF SetupInv, SetupShape, GoesOn, Active, InstallCloses
<1>8. whole => rules' = stuck'
  <2>1. PICK fw : fw = run.m.fw
    OBVIOUS
  <2>2. PICK w : w = Wall
    OBVIOUS
  <2>3. PICK kept \in SUBSET fw : SetWall(RemoveFirewall(w, fw, kept))
    BY <2>1, <2>2 DEF InstallCloses
  <2>4. whole => w.rules = fw \cup w.stuck
    BY <1>2, <2>1, <2>2 DEF SetupInv, RulesFollow, Wall
  <2> QED
    BY <2>3, <2>4, RemovalFits
<1>9. RulesFollow' /\ FirstFile' /\ RulesWait'
  BY <1>2, <1>8 DEF SetupInv, RulesFollow, FirstFile, RulesWait, GoesOn, Retiring, Serving,
     InstallCloses
<1> QED
  BY <1>4, <1>5, <1>6, <1>7, <1>9 DEF SetupInv

\* Without a pair to make, the one in place is whole or nothing listens.
LEMMA InstallHasPairKeeps == ASSUME SetupInv, InstallHasPair PROVE SetupInv'
<1>1. Active /\ DOMAIN run = {"pc", "old", "m", "found", "cfg", "listen", "managed", "write"}
  BY DEF SetupInv, SetupShape, Active, Retiring, Serving, InstallHasPair
<1>2. GoesOn /\ run.pc = "key" /\ run'.pc = "open"
  BY <1>1 DEF GoesOn, Active, Retiring, Serving, InstallHasPair
<1>3. KeysLast /\ PairLasts
  BY DEF KeysLast, PairLasts, InstallHasPair
<1>4. DiskSound'
  BY <1>3, DiskStays DEF SetupInv, InstallHasPair
<1>5. EditSound'
  BY <1>3, EditStays DEF SetupInv, InstallHasPair
<1>6. RunSound' /\ EntriesKept'
  <2>1. run'.cfg.listen # 0 => pair'.key # 0 /\ pair'.cert # 0
    <3>1. run'.cfg = run.cfg
      BY <1>1 DEF InstallHasPair
    <3>2. /\ run.managed.allow = {} => Paired(run.cfg)
          /\ run.cfg.listen # 0 => run.cfg.tls
      BY <1>1 DEF SetupInv, RunSound, Sound
    <3> QED
      BY <3>1, <3>2 DEF Paired, NeedsPair, InstallHasPair
  <2> QED
    BY <1>2, <1>3, <2>1, PlanGoesOn
<1>7. SetupShape'
  BY <1>1, <1>2 DEF SetupInv, SetupShape, GoesOn, Active, InstallHasPair
<1>8. RulesFollow' /\ FirstFile' /\ RulesWait'
  BY <1>2 DEF SetupInv, RulesFollow, FirstFile, RulesWait, GoesOn, Retiring, Serving,
     InstallHasPair
<1> QED
  BY <1>4, <1>5, <1>6, <1>7, <1>8 DEF SetupInv

LEMMA InstallOpensNothingKeeps == ASSUME SetupInv, InstallOpensNothing PROVE SetupInv'
<1>1. Active /\ DOMAIN run = {"pc", "old", "m", "found", "cfg", "listen", "managed", "write"}
  BY DEF SetupInv, SetupShape, Active, Retiring, Serving, InstallOpensNothing
<1>2. GoesOn /\ run.pc = "open" /\ run'.pc = "write" /\ run'.listen = run.listen /\ run'.managed = run.managed
  BY <1>1 DEF GoesOn, Active, Retiring, Serving, InstallOpensNothing
<1>3. KeysLast /\ PairLasts
  BY DEF KeysLast, PairLasts, InstallOpensNothing
<1>4. DiskSound'
  BY <1>3, DiskStays DEF SetupInv, InstallOpensNothing
<1>5. EditSound'
  BY <1>3, EditStays DEF SetupInv, InstallOpensNothing
<1>6. RunSound' /\ EntriesKept'
  BY <1>2, <1>3, PlanGoesOn DEF Serving, Retiring, InstallOpensNothing
<1>7. SetupShape'
  BY <1>1, <1>2 DEF SetupInv, SetupShape, GoesOn, Active, InstallOpensNothing
<1>8. RulesFollow' /\ FirstFile' /\ RulesWait'
  BY <1>2 DEF SetupInv, RulesFollow, FirstFile, RulesWait, GoesOn, Retiring, Serving,
     InstallOpensNothing
<1> QED
  BY <1>4, <1>5, <1>6, <1>7, <1>8 DEF SetupInv

LEMMA InstallStartsKeeps == ASSUME SetupInv, InstallStarts PROVE SetupInv'
<1>1. Active /\ DOMAIN run = {"pc", "old", "m", "found", "cfg", "listen", "managed", "write"}
  BY DEF SetupInv, SetupShape, Active, Retiring, Serving, InstallStarts
<1>2. GoesOn /\ run.pc = "service" /\ run'.pc \in {"record", "doctor"}
  BY <1>1 DEF GoesOn, Active, Retiring, Serving, InstallStarts
<1>3. KeysLast /\ PairLasts
  BY DEF KeysLast, PairLasts, InstallStarts
<1>4. DiskSound'
  BY <1>3, DiskStays DEF SetupInv, InstallStarts
<1>5. EditSound'
  BY <1>3, EditStays DEF SetupInv, InstallStarts
<1>6. RunSound' /\ EntriesKept'
  BY <1>2, <1>3, PlanGoesOn DEF Serving, Retiring, InstallStarts
<1>7. SetupShape'
  BY <1>1, <1>2 DEF SetupInv, SetupShape, GoesOn, Active, InstallStarts
<1>8. RulesFollow' /\ FirstFile' /\ RulesWait'
  BY <1>2 DEF SetupInv, RulesFollow, FirstFile, RulesWait, GoesOn, Retiring, Serving,
     InstallStarts
<1> QED
  BY <1>4, <1>5, <1>6, <1>7, <1>8 DEF SetupInv

LEMMA InstallIsSoundKeeps == ASSUME SetupInv, InstallIsSound PROVE SetupInv'
<1>1. Active /\ DOMAIN run = {"pc", "old", "m", "found", "cfg", "listen", "managed", "write"}
  BY DEF SetupInv, SetupShape, Active, Retiring, Serving, InstallIsSound
<1>2. GoesOn /\ run.pc = "doctor" /\ run'.pc = "record"
  BY <1>1 DEF GoesOn, Active, Retiring, Serving, InstallIsSound
<1>3. KeysLast /\ PairLasts
  BY DEF KeysLast, PairLasts, InstallIsSound
<1>4. DiskSound'
  BY <1>3, DiskStays DEF SetupInv, InstallIsSound
<1>5. EditSound'
  BY <1>3, EditStays DEF SetupInv, InstallIsSound
<1>6. RunSound' /\ EntriesKept'
  BY <1>2, <1>3, PlanGoesOn DEF Serving, Retiring, InstallIsSound
<1>7. SetupShape'
  BY <1>1, <1>2 DEF SetupInv, SetupShape, GoesOn, Active, InstallIsSound
<1>8. RulesFollow' /\ FirstFile' /\ RulesWait'
  BY <1>2 DEF SetupInv, RulesFollow, FirstFile, RulesWait, GoesOn, Retiring, Serving,
     InstallIsSound
<1> QED
  BY <1>4, <1>5, <1>6, <1>7, <1>8 DEF SetupInv

\* The rules that are taken back are all the rules there are but the stuck ones.
LEMMA InstallUndoesKeeps == ASSUME SetupInv, InstallUndoes PROVE SetupInv'
<1>1. Active /\ DOMAIN run = {"pc", "old", "m", "found", "cfg", "listen", "managed", "write"}
  BY DEF SetupInv, SetupShape, Active, Retiring, Serving, InstallUndoes
<1>2. GoesOn /\ run.pc = "undo" /\ run'.pc = "record" /\ run'.managed = [run.managed EXCEPT !.fw = {}]
  BY <1>1 DEF GoesOn, Active, Retiring, Serving, InstallUndoes
<1>3. KeysLast /\ PairLasts
  BY DEF KeysLast, PairLasts, InstallUndoes
<1>4. DiskSound'
  BY <1>3, DiskStays DEF SetupInv, InstallUndoes
<1>5. EditSound'
  BY <1>3, EditStays DEF SetupInv, InstallUndoes
<1>6. RunSound' /\ EntriesKept'
  BY <1>2, <1>3, PlanGoesOn DEF Serving, Retiring, InstallUndoes
<1>7. SetupShape'
  BY <1>1, <1>2 DEF SetupInv, SetupShape, GoesOn, Active, InstallUndoes
<1>8. run'.managed.fw = {}
  BY <1>1, <1>2 DEF SetupInv, RunSound, SoundList
<1>9. whole => rules' = stuck'
  <2>1. PICK fw : fw = run.managed.fw
    OBVIOUS
  <2>2. PICK w : w = Wall
    OBVIOUS
  <2>3. PICK kept \in SUBSET fw : SetWall(RemoveFirewall(w, fw, kept))
    BY <2>1, <2>2 DEF InstallUndoes
  <2>4. whole => w.rules = fw \cup w.stuck
    BY <1>2, <2>1, <2>2 DEF SetupInv, RulesFollow, Serving, Wall
  <2> QED
    BY <2>3, <2>4, RemovalFits
<1>10. RulesFollow' /\ FirstFile' /\ RulesWait'
  BY <1>2, <1>8, <1>9 DEF SetupInv, RulesFollow, FirstFile, RulesWait, GoesOn, Retiring, Serving,
     InstallUndoes
<1> QED
  BY <1>4, <1>5, <1>6, <1>7, <1>10 DEF SetupInv

\* The command's record after it turned remote mode off.
LEMMA SilencedRun ==
  ASSUME NEW r, DOMAIN r = {"pc", "old", "m", "found", "cfg", "listen", "managed", "write"},
         "listen" \in DOMAIN r.cfg,
         NEW to, NEW s, s = [NoListen(r) EXCEPT !.pc = to]
  PROVE  /\ DOMAIN s = DOMAIN r /\ s.pc = to /\ s.old = r.old /\ s.m = r.m
         /\ s.cfg = [r.cfg EXCEPT !.listen = 0] /\ s.cfg.listen = 0
         /\ s.listen = 0 /\ s.managed = r.managed
<1>1. PICK t : t = NoListen(r)
  OBVIOUS
<1>2. /\ DOMAIN t = DOMAIN r /\ t.old = r.old /\ t.m = r.m /\ t.managed = r.managed
      /\ t.cfg = [r.cfg EXCEPT !.listen = 0] /\ t.listen = 0
  BY <1>1 DEF NoListen
<1>3. s = [t EXCEPT !.pc = to]
  BY <1>1
<1>4. /\ DOMAIN s = DOMAIN t /\ s.pc = to /\ s.old = t.old /\ s.m = t.m
      /\ s.cfg = t.cfg /\ s.listen = t.listen /\ s.managed = t.managed
  BY <1>2, <1>3
<1> QED
  BY <1>2, <1>4

LEMMA InstallMakesKeyKeeps == ASSUME SetupInv, InstallMakesKey PROVE SetupInv'
<1>1. Active /\ DOMAIN run = {"pc", "old", "m", "found", "cfg", "listen", "managed", "write"}
  BY DEF SetupInv, SetupShape, Active, Retiring, Serving, InstallMakesKey
<1>2. /\ pair' \in [key : Nat, cert : Nat]
      /\ pair.key # 0 => pair'.key # 0
      /\ pair'.cert = pair.cert
      /\ run'.pc = "cert" => pair'.key # 0
  <2>1. pair \in [key : Nat, cert : Nat]
    BY DEF SetupInv, SetupShape
  <2>2. CASE pair' = [pair EXCEPT !.key = @ + 1]
    BY <2>1, <2>2
  <2>3. CASE UNCHANGED pair /\ run' = [NoListen(run) EXCEPT !.pc = "open"]
    <3>1. run'.pc = "open"
      BY <1>1, <2>3 DEF NoListen
    <3> QED
      BY <2>1, <2>3, <3>1
  <2> QED
    BY <2>2, <2>3 DEF InstallMakesKey
<1>3. KeysLast /\ PairLasts
  BY <1>2 DEF KeysLast, PairLasts, InstallMakesKey
<1>4. /\ GoesOn /\ run.pc = "key" /\ run'.pc \in {"cert", "open"}
      /\ run'.pc = "open" => run'.cfg.listen = 0
      /\ run'.managed = run.managed
  <2>1. DOMAIN run.cfg = {"exists", "inst", "dbs", "agents", "idents", "listen", "tls"}
    BY <1>1 DEF SetupInv, RunSound, Sound
  <2> QED
    <3>1. CASE run' = [run EXCEPT !.pc = "cert"]
      BY <1>1, <3>1 DEF GoesOn, Active, Retiring, Serving, InstallMakesKey
    <3>2. CASE run' = [NoListen(run) EXCEPT !.pc = "open"]
      <4>1. /\ DOMAIN run' = DOMAIN run /\ run'.pc = "open" /\ run'.old = run.old /\ run'.m = run.m
            /\ run'.cfg = [run.cfg EXCEPT !.listen = 0] /\ run'.cfg.listen = 0
            /\ run'.listen = 0 /\ run'.managed = run.managed
        BY <1>1, <2>1, <3>2, SilencedRun
      <4> QED
        BY <1>1, <4>1 DEF GoesOn, Active, Serving, InstallMakesKey
    <3> QED
      BY <3>1, <3>2 DEF InstallMakesKey
<1>5. DiskSound' /\ EditSound'
  BY <1>3, DiskStays, EditStays DEF SetupInv, InstallMakesKey
<1>6. RunSound' /\ EntriesKept'
  BY <1>2, <1>3, <1>4, PlanGoesOn
<1>7. SetupShape'
  BY <1>1, <1>2, <1>4 DEF SetupInv, SetupShape, GoesOn, Active, InstallMakesKey
<1>8. RulesFollow' /\ FirstFile' /\ RulesWait'
  BY <1>4 DEF SetupInv, RulesFollow, FirstFile, RulesWait, Retiring, Serving, InstallMakesKey
<1> QED
  BY <1>5, <1>6, <1>7, <1>8 DEF SetupInv

LEMMA InstallMakesCertKeeps == ASSUME SetupInv, InstallMakesCert PROVE SetupInv'
<1>1. Active /\ DOMAIN run = {"pc", "old", "m", "found", "cfg", "listen", "managed", "write"}
  BY DEF SetupInv, SetupShape, Active, Retiring, Serving, InstallMakesCert
<1>2. /\ pair' \in [key : Nat, cert : Nat] /\ pair.key # 0
      /\ pair'.key = pair.key
      /\ pair'.cert \in {pair.cert, pair.key}
  BY <1>1 DEF SetupInv, SetupShape, RunSound, InstallMakesCert
<1>3. KeysLast /\ PairLasts
  BY <1>2 DEF KeysLast, PairLasts, InstallMakesCert
<1>4. /\ GoesOn /\ run.pc = "cert" /\ run'.pc = "open"
      /\ run'.cfg.listen = 0 \/ pair'.cert = pair.key
      /\ run'.managed = run.managed
  <2>1. DOMAIN run.cfg = {"exists", "inst", "dbs", "agents", "idents", "listen", "tls"}
    BY <1>1 DEF SetupInv, RunSound, Sound
  <2> QED
    <3>1. CASE run' = [run EXCEPT !.pc = "open"] /\ pair' = [pair EXCEPT !.cert = pair.key]
      <4>1. pair'.cert = pair.key
        BY <3>1 DEF SetupInv, SetupShape
      <4> QED
        BY <1>1, <3>1, <4>1 DEF GoesOn, Active, Retiring, Serving, InstallMakesCert
    <3>2. CASE run' = [NoListen(run) EXCEPT !.pc = "open"]
      <4>1. /\ DOMAIN run' = DOMAIN run /\ run'.pc = "open" /\ run'.old = run.old /\ run'.m = run.m
            /\ run'.cfg = [run.cfg EXCEPT !.listen = 0] /\ run'.cfg.listen = 0
            /\ run'.listen = 0 /\ run'.managed = run.managed
        BY <1>1, <2>1, <3>2, SilencedRun
      <4> QED
        BY <1>1, <4>1 DEF GoesOn, Active, Serving, InstallMakesCert
    <3> QED
      BY <3>1, <3>2 DEF InstallMakesCert
<1>5. DiskSound' /\ EditSound'
  BY <1>3, DiskStays, EditStays DEF SetupInv, InstallMakesCert
<1>6. RunSound' /\ EntriesKept'
  BY <1>2, <1>3, <1>4, PlanGoesOn
<1>7. SetupShape'
  BY <1>1, <1>2, <1>4 DEF SetupInv, SetupShape, GoesOn, Active, InstallMakesCert
<1>8. RulesFollow' /\ FirstFile' /\ RulesWait'
  BY <1>4 DEF SetupInv, RulesFollow, FirstFile, RulesWait, Retiring, Serving, InstallMakesCert
<1> QED
  BY <1>5, <1>6, <1>7, <1>8 DEF SetupInv

\* What a firewall call leaves: the added rules are there, the others are the
\* stuck ones, and a call that worked added every rule.
LEMMA FirewallCallFits ==
  ASSUME NEW fw, NEW allow, NEW port, NEW f \in FirewallCalls(fw, allow, port)
  PROVE  /\ f.added \subseteq f.wall.rules
         /\ rules = fw \cup stuck => f.wall.rules = f.added \cup f.wall.stuck
         /\ f.ok => f.added = {<<a, port>> : a \in allow}
<1>1. PICK wanted : wanted = {<<a, port>> : a \in allow}
  OBVIOUS
<1>2. PICK on \in BOOLEAN, added \in SUBSET wanted, kept \in SUBSET fw :
        f = [wall |-> [RemoveFirewall(Wall, fw, kept) EXCEPT !.rules = @ \cup added],
             added |-> added, ok |-> on /\ added = wanted]
  BY <1>1 DEF FirewallCalls
<1>3. PICK w : w = RemoveFirewall(Wall, fw, kept)
  OBVIOUS
<1>4. w = [rules |-> rules \ (fw \ kept), stuck |-> (stuck \ fw) \cup kept]
  BY <1>3 DEF RemoveFirewall, Wall
<1>5. /\ f.wall = [w EXCEPT !.rules = @ \cup added]
      /\ f.added = added /\ (f.ok <=> on /\ added = wanted)
  BY <1>2, <1>3, Zenon
<1>6. /\ f.wall.rules = (rules \ (fw \ kept)) \cup added
      /\ f.wall.stuck = (stuck \ fw) \cup kept
  BY <1>4, <1>5
<1>7. rules = fw \cup stuck => f.wall.rules = f.added \cup f.wall.stuck
  BY <1>5, <1>6
<1> QED
  BY <1>1, <1>5, <1>6, <1>7

\* Behind the firewall step the rules of the port are in, or nothing listens.
LEMMA InstallOpensKeeps == ASSUME SetupInv, InstallOpens PROVE SetupInv'
<1>1. Active /\ DOMAIN run = {"pc", "old", "m", "found", "cfg", "listen", "managed", "write"}
  BY DEF SetupInv, SetupShape, Active, Retiring, Serving, InstallOpens
<1>2. /\ DOMAIN run.cfg = {"exists", "inst", "dbs", "agents", "idents", "listen", "tls"}
      /\ DOMAIN run.managed = {"inst", "agents", "dbs", "secrets", "allow", "port", "fw"}
  BY <1>1 DEF SetupInv, RunSound, Sound, SoundList
<1>3. PICK f \in FirewallCalls(run.managed.fw, run.managed.allow, run.listen) :
          IF f.ok \/ run.managed.allow = {}
          THEN /\ SetWall(f.wall)
               /\ run' = [run EXCEPT !.pc = "write", !.managed.fw = f.added]
          ELSE /\ \E kept \in SUBSET f.added : SetWall(RemoveFirewall(f.wall, f.added, kept))
               /\ run' = [NoListen(run) EXCEPT !.pc = "write", !.managed.fw = {}]
  BY DEF InstallOpens
<1>4. /\ f.added \subseteq f.wall.rules
      /\ rules = run.managed.fw \cup stuck => f.wall.rules = f.added \cup f.wall.stuck
      /\ f.ok => f.added = {<<a, run.listen>> : a \in run.managed.allow}
  BY FirewallCallFits
<1>5. /\ DOMAIN run' = DOMAIN run /\ run'.pc = "write" /\ run'.old = run.old /\ run'.m = run.m
      /\ \/ /\ f.ok \/ run.managed.allow = {}
            /\ rules' = f.wall.rules /\ stuck' = f.wall.stuck
            /\ run'.cfg = run.cfg /\ run'.listen = run.listen
            /\ run'.managed = [run.managed EXCEPT !.fw = f.added]
         \/ /\ f.wall.rules = f.added \cup f.wall.stuck => rules' = stuck'
            /\ run'.cfg = [run.cfg EXCEPT !.listen = 0] /\ run'.listen = 0
            /\ run'.managed = [run.managed EXCEPT !.fw = {}]
  <2>1. CASE f.ok \/ run.managed.allow = {}
    <3>1. /\ rules' = f.wall.rules /\ stuck' = f.wall.stuck
          /\ run' = [run EXCEPT !.pc = "write", !.managed.fw = f.added]
      BY <1>3, <2>1 DEF SetWall
    <3>2. /\ DOMAIN run' = DOMAIN run /\ run'.pc = "write" /\ run'.old = run.old /\ run'.m = run.m
          /\ run'.cfg = run.cfg /\ run'.listen = run.listen
          /\ run'.managed = [run.managed EXCEPT !.fw = f.added]
      BY <1>1, <3>1
    <3> QED
      BY <2>1, <3>1, <3>2
  <2>2. CASE ~(f.ok \/ run.managed.allow = {})
    <3>1. /\ f.wall.rules = f.added \cup f.wall.stuck => rules' = stuck'
          /\ run' = [NoListen(run) EXCEPT !.pc = "write", !.managed.fw = {}]
      BY <1>3, <2>2, RemovalFits
    <3>2. PICK s : s = [NoListen(run) EXCEPT !.pc = "write"]
      OBVIOUS
    <3>3. /\ DOMAIN s = DOMAIN run /\ s.pc = "write" /\ s.old = run.old /\ s.m = run.m
          /\ s.cfg = [run.cfg EXCEPT !.listen = 0] /\ s.listen = 0 /\ s.managed = run.managed
      BY <1>1, <1>2, <3>2, SilencedRun
    <3>4. run' = [s EXCEPT !.managed.fw = {}]
      BY <3>1, <3>2
    <3>5. /\ DOMAIN run' = DOMAIN s /\ run'.pc = s.pc /\ run'.old = s.old /\ run'.m = s.m
          /\ run'.cfg = s.cfg /\ run'.listen = s.listen
          /\ run'.managed = [s.managed EXCEPT !.fw = {}]
      BY <1>1, <3>3, <3>4
    <3> QED
      BY <3>1, <3>3, <3>5
  <2> QED
    BY <2>1, <2>2
<1>6. GoesOn /\ run.pc = "open"
  BY <1>1, <1>5 DEF GoesOn, Active, Serving, InstallOpens
<1>7. /\ run'.managed.allow = run.managed.allow
      /\ \/ /\ f.ok \/ run.managed.allow = {}
            /\ rules' = f.wall.rules /\ stuck' = f.wall.stuck
            /\ run'.managed.fw = f.added /\ run'.listen = run.listen
         \/ /\ f.wall.rules = f.added \cup f.wall.stuck => rules' = stuck'
            /\ run'.managed.fw = {} /\ run'.listen = 0
  BY <1>2, <1>5
<1>8. KeysLast /\ PairLasts
  BY DEF KeysLast, PairLasts, InstallOpens
<1>9. DiskSound' /\ EditSound'
  BY <1>8, DiskStays, EditStays DEF SetupInv, InstallOpens
<1>10. RunSound' /\ EntriesKept'
  BY <1>5, <1>6, <1>8, PlanGoesOn DEF Serving
<1>11. SetupShape'
  BY <1>1, <1>5 DEF SetupInv, SetupShape, Serving, InstallOpens
<1>12. RulesFollow'
  <2>1. whole => rules = run.managed.fw \cup stuck
    BY <1>6 DEF SetupInv, RulesFollow, Serving
  <2>2. whole => rules' = run'.managed.fw \cup stuck'
    BY <1>4, <1>7, <2>1
  <2> QED
    BY <1>5, <2>2 DEF RulesFollow, InstallOpens
<1>13. RulesWait'
  BY <1>4, <1>5, <1>7 DEF RulesWait
<1>14. FirstFile'
  BY <1>5 DEF SetupInv, FirstFile, Retiring, InstallOpens
<1> QED
  BY <1>9, <1>10, <1>11, <1>12, <1>13, <1>14 DEF SetupInv

\* A choice from a set that is not empty is in it.
LEMMA PickIsIn == ASSUME NEW S, S # {} PROVE Pick(S) \in S
BY DEF Pick

LEMMA InstallWritesSecretKeeps == ASSUME SetupInv, InstallWritesSecret PROVE SetupInv'
<1>1. Active /\ DOMAIN run = {"pc", "old", "m", "found", "cfg", "listen", "managed", "write"}
  BY DEF SetupInv, SetupShape, Active, Retiring, Serving, InstallWritesSecret
<1>2. /\ GoesOn /\ run.pc = "write" /\ run'.pc \in {"write", "drop"}
      /\ run'.listen = run.listen /\ run'.managed = run.managed
  BY <1>1 DEF GoesOn, Active, Retiring, Serving, InstallWritesSecret
<1>3. KeysLast /\ PairLasts
  BY DEF KeysLast, PairLasts, InstallWritesSecret, WriteFile
<1>4. DiskSound' /\ EditSound'
  BY <1>3, DiskStays, EditStays DEF SetupInv, InstallWritesSecret
<1>5. RunSound' /\ EntriesKept'
  BY <1>2, <1>3, PlanGoesOn DEF Serving
<1>6. SetupShape'
  BY <1>1, <1>2 DEF SetupInv, SetupShape, GoesOn, Active, InstallWritesSecret
<1>7. RulesFollow' /\ FirstFile' /\ RulesWait'
  BY <1>2 DEF SetupInv, RulesFollow, FirstFile, RulesWait, Retiring, Serving,
     InstallWritesSecret
<1> QED
  BY <1>4, <1>5, <1>6, <1>7 DEF SetupInv

\* A secret that is dropped is one the list recorded, so no API key goes.
LEMMA InstallDropsSecretKeeps == ASSUME SetupInv, InstallDropsSecret PROVE SetupInv'
<1>1. Active /\ DOMAIN run = {"pc", "old", "m", "found", "cfg", "listen", "managed", "write"}
  BY DEF SetupInv, SetupShape, Active, Retiring, Serving, InstallDropsSecret
<1>2. /\ GoesOn /\ run.pc = "drop" /\ run'.pc \in {"drop", "config"}
      /\ run'.listen = run.listen /\ run'.managed = run.managed
  BY <1>1 DEF GoesOn, Active, Retiring, Serving, InstallDropsSecret
<1>3. KeysLast
  <2>1. PICK stale : stale = StaleSecrets(run.m, run.managed) \cap secrets
    OBVIOUS
  <2>2. \A x \in stale : ~IsKey(x)
    BY <1>1, <2>1 DEF StaleSecrets, SetupInv, RunSound, SoundList
  <2>3. CASE stale = {}
    BY <2>1, <2>3 DEF KeysLast, InstallDropsSecret
  <2>4. CASE stale # {}
    <3>1. secrets' = secrets \ {Pick(stale)}
      BY <2>1, <2>4 DEF InstallDropsSecret, DropFile
    <3>2. ~IsKey(Pick(stale))
      BY <2>2, <2>4, PickIsIn
    <3> QED
      BY <3>1, <3>2, EnvsAreNoKeys DEF KeysLast
  <2> QED
    BY <2>3, <2>4
<1>4. PairLasts
  BY DEF PairLasts, InstallDropsSecret
<1>5. DiskSound' /\ EditSound'
  BY <1>3, <1>4, DiskStays, EditStays DEF SetupInv, InstallDropsSecret
<1>6. RunSound' /\ EntriesKept'
  BY <1>2, <1>3, <1>4, PlanGoesOn DEF Serving
<1>7. SetupShape'
  BY <1>1, <1>2 DEF SetupInv, SetupShape, GoesOn, Active, InstallDropsSecret
<1>8. RulesFollow' /\ FirstFile' /\ RulesWait'
  BY <1>2 DEF SetupInv, RulesFollow, FirstFile, RulesWait, Retiring, Serving,
     InstallDropsSecret
<1> QED
  BY <1>5, <1>6, <1>7, <1>8 DEF SetupInv

\* fbmcp.yaml with the configuration the command has checked can be served.
LEMMA WrittenIsSound ==
  ASSUME NEW c, c = cfg', Sound(c), \A n \in c.idents : KeyEnv(n) \in secrets',
         c.listen # 0 => pair'.key # 0 /\ pair'.cert # 0, SoundList(managed), UNCHANGED managed
  PROVE  DiskSound'
BY DEF DiskSound, KeysStored, Paired, Sound, SoundList

LEMMA InstallWritesConfigKeeps == ASSUME SetupInv, InstallWritesConfig PROVE SetupInv'
<1>1. Active /\ DOMAIN run = {"pc", "old", "m", "found", "cfg", "listen", "managed", "write"}
  BY DEF SetupInv, SetupShape, Active, Retiring, Serving, InstallWritesConfig
<1>2. /\ GoesOn /\ run.pc = "config" /\ run'.pc = "service" /\ run'.managed = run.managed
  BY <1>1 DEF GoesOn, Active, Retiring, Serving, InstallWritesConfig
<1>3. KeysLast /\ PairLasts
  BY DEF KeysLast, PairLasts, InstallWritesConfig
<1>4. /\ cfg' = run.cfg /\ Sound(run.cfg) /\ run.cfg.exists
      /\ KeysStored(run.cfg) /\ Paired(run.cfg)
  BY <1>1 DEF SetupInv, RunSound, Serving, InstallWritesConfig, AtomicWrite
<1>5. DiskSound'
  BY <1>4, WrittenIsSound DEF SetupInv, DiskSound, KeysStored, Paired, InstallWritesConfig
<1>6. EditSound'
  BY <1>3, EditStays DEF SetupInv, InstallWritesConfig
<1>7. RunSound' /\ EntriesKept'
  BY <1>2, <1>3, PlanGoesOn DEF Serving
<1>8. SetupShape'
  BY <1>1, <1>2 DEF SetupInv, SetupShape, GoesOn, Active, InstallWritesConfig
<1>9. RulesFollow' /\ FirstFile' /\ RulesWait'
  BY <1>2, <1>4 DEF SetupInv, RulesFollow, FirstFile, RulesWait, Retiring, Serving,
     InstallWritesConfig
<1> QED
  BY <1>5, <1>6, <1>7, <1>8, <1>9 DEF SetupInv

\* The file without listen is as sound, whether its write worked or not.
LEMMA InstallTurnsOffKeeps == ASSUME SetupInv, InstallTurnsOff PROVE SetupInv'
<1>1. Active /\ DOMAIN run = {"pc", "old", "m", "found", "cfg", "listen", "managed", "write"}
  BY DEF SetupInv, SetupShape, Active, Retiring, Serving, InstallTurnsOff
<1>2. Sound(run.cfg) /\ run.cfg.exists /\ KeysStored(run.cfg)
  BY <1>1 DEF SetupInv, RunSound
<1>3. /\ GoesOn /\ run.pc = "doctor" /\ run'.pc = "undo" /\ run'.managed = run.managed
  <2>1. DOMAIN run.cfg = {"exists", "inst", "dbs", "agents", "idents", "listen", "tls"}
    BY <1>2 DEF Sound
  <2> QED
    <3>1. /\ DOMAIN run' = DOMAIN run /\ run'.pc = "undo" /\ run'.old = run.old /\ run'.m = run.m
          /\ run'.cfg = [run.cfg EXCEPT !.listen = 0] /\ run'.cfg.listen = 0
          /\ run'.listen = 0 /\ run'.managed = run.managed
      BY <1>1, <2>1, SilencedRun DEF InstallTurnsOff
    <3> QED
      BY <1>1, <3>1 DEF GoesOn, Active, Serving, InstallTurnsOff
<1>4. KeysLast /\ PairLasts
  BY DEF KeysLast, PairLasts, InstallTurnsOff
<1>5. DiskSound' /\ cfg'.exists
  <2>1. CASE UNCHANGED cfg
    BY <1>4, <2>1, DiskStays DEF SetupInv, FirstFile, InstallTurnsOff
  <2>2. CASE cfg' = [run.cfg EXCEPT !.listen = 0]
    <3>1. PICK c : c = [run.cfg EXCEPT !.listen = 0]
      OBVIOUS
    <3>2. Sound(c) /\ c.listen = 0 /\ c.exists = run.cfg.exists /\ c.idents = run.cfg.idents
      BY <1>2, <3>1, SilencedIsSound
    <3>3. \A n \in c.idents : KeyEnv(n) \in secrets'
      BY <1>2, <3>2 DEF KeysStored, InstallTurnsOff
    <3>4. SoundList(managed) /\ UNCHANGED managed
      BY DEF SetupInv, DiskSound, InstallTurnsOff
    <3> QED
      BY <1>2, <2>2, <3>1, <3>2, <3>3, <3>4, WrittenIsSound
  <2> QED
    BY <2>1, <2>2 DEF InstallTurnsOff, AtomicWrite
<1>6. EditSound'
  BY <1>4, EditStays DEF SetupInv, InstallTurnsOff
<1>7. RunSound' /\ EntriesKept'
  BY <1>3, <1>4, PlanGoesOn DEF Serving
<1>8. SetupShape'
  BY <1>1, <1>3 DEF SetupInv, SetupShape, GoesOn, Active, InstallTurnsOff
<1>9. RulesFollow' /\ FirstFile' /\ RulesWait'
  BY <1>3, <1>5 DEF SetupInv, RulesFollow, FirstFile, RulesWait, Retiring, Serving,
     InstallTurnsOff
<1> QED
  BY <1>5, <1>6, <1>7, <1>8, <1>9 DEF SetupInv

-----------------------------------------------------------------------------
\* The command is over: nothing is left of its plan.
LEMMA RunRests ==
  ASSUME run'.pc \in {"idle", "done"}
  PROVE  RunSound' /\ EntriesKept' /\ RulesWait' /\ ~Active'
BY DEF RunSound, EntriesKept, RulesWait, Active, Retiring, Serving

\* With no line left the list records no rule, and the firewall has only stuck ones.
LEMMA InstallForgetsKeeps == ASSUME SetupInv, InstallForgets PROVE SetupInv'
<1>1. Active /\ run.pc = "forget" /\ run'.pc = "idle"
  BY DEF Active, Retiring, Serving, InstallForgets, NoRun
<1>2. RunSound' /\ EntriesKept' /\ RulesWait' /\ ~Active'
  BY <1>1, RunRests
<1>3. PICK m : m = managed'
  OBVIOUS
<1>4. SoundList(m) /\ (run.old.exists => m.fw = {}) /\ (~run.old.exists => m = managed)
  BY <1>1, <1>3 DEF SetupInv, RunSound, DiskSound, SoundList, InstallForgets, WriteManaged
<1>5. m.fw = {}
  BY <1>1, <1>4 DEF SetupInv, FirstFile, Retiring
<1>6. Sound(cfg) /\ KeysStored(cfg) /\ Paired(cfg)
  BY DEF SetupInv, DiskSound
<1>7. DiskSound'
  BY <1>3, <1>4, <1>6 DEF DiskSound, KeysStored, Paired, InstallForgets
<1>8. EditSound'
  BY EditStays DEF SetupInv, KeysLast, PairLasts, InstallForgets
<1>9. SetupShape'
  BY <1>1, <1>2 DEF SetupInv, SetupShape, InstallForgets
<1>10. RulesFollow' /\ FirstFile'
  BY <1>1, <1>3, <1>5 DEF SetupInv, RulesFollow, FirstFile, Retiring, Serving, InstallForgets
<1> QED
  BY <1>2, <1>7, <1>8, <1>9, <1>10 DEF SetupInv

\* The list that is written records the rules in the firewall that are not stuck.
LEMMA InstallRecordsKeeps == ASSUME SetupInv, InstallRecords PROVE SetupInv'
<1>1. Active /\ run.pc = "record" /\ run'.pc = "done"
  BY DEF Active, Retiring, Serving, InstallRecords
<1>2. RunSound' /\ EntriesKept' /\ RulesWait' /\ ~Active'
  BY <1>1, RunRests
<1>3. managed' = run.managed /\ SoundList(run.managed) /\ cfg.exists
  BY <1>1 DEF SetupInv, RunSound, FirstFile, InstallRecords, WriteManaged
<1>4. Sound(cfg) /\ KeysStored(cfg) /\ Paired(cfg)
  BY DEF SetupInv, DiskSound
<1>5. DiskSound'
  BY <1>3, <1>4 DEF DiskSound, KeysStored, Paired, InstallRecords
<1>6. EditSound'
  BY EditStays DEF SetupInv, KeysLast, PairLasts, InstallRecords
<1>7. SetupShape'
  BY <1>1, <1>2 DEF SetupInv, SetupShape, InstallRecords
<1>8. RulesFollow' /\ FirstFile'
  BY <1>1, <1>3 DEF SetupInv, RulesFollow, FirstFile, Retiring, Serving, InstallRecords
<1> QED
  BY <1>2, <1>5, <1>6, <1>7, <1>8 DEF SetupInv

LEMMA InstallEndsKeeps == ASSUME SetupInv, InstallEnds PROVE SetupInv'
<1>1. run'.pc = "idle" /\ whole' = FALSE
  BY DEF InstallEnds, NoRun
<1>2. RunSound' /\ EntriesKept' /\ RulesWait' /\ ~Active'
  BY <1>1, RunRests
<1>3. KeysLast /\ PairLasts
  BY DEF KeysLast, PairLasts, InstallEnds
<1>4. DiskSound' /\ EditSound'
  BY <1>3, DiskStays, EditStays DEF SetupInv, InstallEnds
<1>5. SetupShape'
  BY <1>1, <1>2 DEF SetupInv, SetupShape, InstallEnds
<1>6. RulesFollow' /\ FirstFile'
  BY <1>1 DEF SetupInv, RulesFollow, FirstFile, Retiring, InstallEnds
<1> QED
  BY <1>2, <1>4, <1>5, <1>6 DEF SetupInv

\* The plan with remote mode asked for, on a server with an address or not.
LEMMA PlanWithRemoteFits ==
  ASSUME NEW c, Sound(c), NEW m, SoundList(m), NEW lines, NEW have,
         NEW p, p = PlanFor(c, m, WantLines(c, m, lines, have)), NEW q, q = p.cfg,
         NEW rs, rs \in {[cfg |-> q, listen |-> q.listen], ApplyRemote(q, m)}
  PROVE  /\ Sound(rs.cfg) /\ rs.cfg.exists /\ rs.cfg.idents = c.idents
         /\ rs.cfg.listen = rs.listen
         /\ SoundList(p.managed) /\ p.managed.allow = m.allow /\ p.managed.fw = m.fw
         /\ m.allow = {} => rs.cfg.listen = c.listen
         /\ OperatorsStay(c, m, rs.cfg)
<1>1. /\ Sound(q) /\ q.exists /\ q.idents = c.idents /\ q.listen = c.listen
      /\ SoundList(p.managed) /\ p.managed.allow = m.allow /\ p.managed.fw = m.fw
      /\ OperatorsStay(c, m, q)
  BY PlanFits
<1>2. /\ Sound(rs.cfg) /\ rs.cfg.listen = rs.listen /\ rs.cfg.idents = q.idents
      /\ rs.cfg.exists /\ SameEntries(q, rs.cfg)
      /\ m.allow = {} => rs.cfg = q
  <2>1. CASE rs = [cfg |-> q, listen |-> q.listen]
    <3>1. rs.cfg = q /\ rs.listen = q.listen
      BY <2>1
    <3> QED
      BY <1>1, <3>1 DEF SameEntries
  <2>2. CASE rs = ApplyRemote(q, m)
    <3>1. RemoteOf(q, m, rs)
      BY <1>1, <2>2, RemoteFits
    <3> QED
      BY <1>1, <3>1 DEF RemoteOf
  <2> QED
    BY <2>1, <2>2
<1>3. OperatorsStay(c, m, rs.cfg)
  BY <1>1, <1>2 DEF OperatorsStay, SameEntries
<1> QED
  BY <1>1, <1>2, <1>3

\* What a plan hands to the steps that follow it.
LEMMA PlannedFits ==
  ASSUME NEW m, SoundList(m), NEW lines, NEW have, NEW found, NEW ip,
         NEW c, c = cfg, Sound(c), NEW r,
         r = Planned(m, found, PlanFor(c, m, WantLines(c, m, lines, have)), ip)
  PROVE  /\ r.pc \in {"stop", "key"} /\ r.old = c /\ r.m = m
         /\ DOMAIN r = {"pc", "old", "m", "found", "cfg", "listen", "managed", "write"}
         /\ Sound(r.cfg) /\ r.cfg.exists /\ r.cfg.idents = c.idents
         /\ r.cfg.listen = r.listen
         /\ SoundList(r.managed) /\ r.managed.allow = m.allow /\ r.managed.fw = m.fw
         /\ m.allow = {} => r.cfg.listen = c.listen
         /\ OperatorsStay(c, m, r.cfg)
<1>1. PICK p : p = PlanFor(c, m, WantLines(c, m, lines, have))
  OBVIOUS
<1>2. PICK q : q = p.cfg
  OBVIOUS
<1>3. PICK rs : rs = IF m.allow # {} /\ ~ip THEN [cfg |-> q, listen |-> q.listen]
                     ELSE ApplyRemote(q, m)
  OBVIOUS
<1>4. rs \in {[cfg |-> q, listen |-> q.listen], ApplyRemote(q, m)}
  BY <1>3
<1>5. /\ Sound(rs.cfg) /\ rs.cfg.exists /\ rs.cfg.idents = c.idents
      /\ rs.cfg.listen = rs.listen
      /\ SoundList(p.managed) /\ p.managed.allow = m.allow /\ p.managed.fw = m.fw
      /\ m.allow = {} => rs.cfg.listen = c.listen
      /\ OperatorsStay(c, m, rs.cfg)
  BY <1>1, <1>2, <1>4, PlanWithRemoteFits
<1>6. r = [pc |-> IF q.inst = {} THEN "stop" ELSE "key",
           old |-> c, m |-> m, found |-> found, cfg |-> rs.cfg, listen |-> rs.listen,
           managed |-> p.managed, write |-> p.write]
  BY <1>1, <1>2, <1>3 DEF Planned
<1>7. /\ r.pc \in {"stop", "key"} /\ r.old = c /\ r.m = m
      /\ DOMAIN r = {"pc", "old", "m", "found", "cfg", "listen", "managed", "write"}
      /\ r.cfg = rs.cfg /\ r.listen = rs.listen /\ r.managed = p.managed
  BY <1>6
<1> QED
  BY <1>5, <1>7

\* The plan starts from the rules the list records.
LEMMA InstallPlansKeeps ==
  ASSUME SetupInv, NEW found, NEW allow, NEW port, NEW ip \in BOOLEAN,
         InstallPlans(found, allow, port, ip)
  PROVE  SetupInv'
<1>1. PICK m : m = WithOptions(managed, allow, port)
  OBVIOUS
<1>2. SoundList(m) /\ m.fw = managed.fw
  BY <1>1 DEF WithOptions, SetupInv, DiskSound, SoundList
<1>C. PICK c : c = cfg
  OBVIOUS
<1>4. PICK lines : lines = ManagedLines(c, m, InOrder(found))
  OBVIOUS
<1>5. PICK r : r = Planned(m, found, PlanFor(c, m, WantLines(c, m, lines, secrets)), ip)
  OBVIOUS
<1>6. run' = r
  BY <1>1, <1>C, <1>4, <1>5 DEF InstallPlans, Reconcile
<1>7. Sound(c) /\ KeysStored(c) /\ Paired(c)
  BY <1>C DEF SetupInv, DiskSound
<1>8. /\ r.pc \in {"stop", "key"} /\ r.old = c /\ r.m = m
      /\ DOMAIN r = {"pc", "old", "m", "found", "cfg", "listen", "managed", "write"}
      /\ Sound(r.cfg) /\ r.cfg.exists /\ r.cfg.idents = c.idents
      /\ r.cfg.listen = r.listen
      /\ SoundList(r.managed) /\ r.managed.allow = m.allow /\ r.managed.fw = m.fw
      /\ m.allow = {} => r.cfg.listen = c.listen
      /\ OperatorsStay(c, m, r.cfg)
  BY <1>2, <1>C, <1>5, <1>7, PlannedFits
<1>9. KeysLast /\ PairLasts
  BY DEF KeysLast, PairLasts, InstallPlans
<1>10. DiskSound' /\ EditSound'
  BY <1>9, DiskStays, EditStays DEF SetupInv, InstallPlans
<1>11. RunSound'
  <2>1. /\ \A n \in r.cfg.idents : KeyEnv(n) \in secrets'
        /\ r.managed.allow = {} => (r.cfg.listen # 0 => pair'.key # 0 /\ pair'.cert # 0)
    BY <1>7, <1>8 DEF KeysStored, Paired, InstallPlans
  <2> QED
    BY <1>2, <1>6, <1>8, <2>1 DEF RunSound, KeysStored, Paired, Serving
<1>12. EntriesKept'
  BY <1>6, <1>8 DEF EntriesKept, OperatorsStay
<1>13. SetupShape'
  BY <1>6, <1>8 DEF SetupInv, SetupShape, Active, Retiring, Serving, InstallPlans
<1>14. RulesFollow' /\ RulesWait'
  BY <1>2, <1>6, <1>8 DEF SetupInv, RulesFollow, RulesWait, Serving, InstallPlans
<1>15. FirstFile'
  BY <1>C, <1>6, <1>8 DEF SetupInv, FirstFile, Retiring, InstallPlans
<1> QED
  BY <1>10, <1>11, <1>12, <1>13, <1>14, <1>15 DEF SetupInv

-----------------------------------------------------------------------------
\* Another writer leaves the command, the rules and the list alone.
LEMMA RunUntouched ==
  ASSUME SetupInv, UNCHANGED <<rules, stuck, managed, run, whole>>, KeysLast, PairLasts,
         UNCHANGED cfg \/ cfg'.exists
  PROVE  RunSound' /\ RulesFollow' /\ FirstFile' /\ RulesWait' /\ EntriesKept'
<1>1. RunSound'
  BY RunStays DEF SetupInv
<1>2. RulesFollow' /\ RulesWait' /\ EntriesKept'
  BY DEF SetupInv, RulesFollow, RulesWait, EntriesKept
<1>3. FirstFile'
  BY DEF SetupInv, FirstFile
<1> QED
  BY <1>1, <1>2, <1>3

LEMMA ApikeyStoresKeeps == ASSUME SetupInv, NEW n, ApikeyStores(n) PROVE SetupInv'
<1>1. KeysLast /\ PairLasts
  BY DEF KeysLast, PairLasts, ApikeyStores, WriteFile
<1>2. RunSound' /\ RulesFollow' /\ FirstFile' /\ RulesWait' /\ EntriesKept'
  BY <1>1, RunUntouched DEF ApikeyStores
<1>3. DiskSound'
  BY <1>1, DiskStays DEF SetupInv, ApikeyStores
<1>4. /\ edit'.pc = "load" /\ edit'.kind = "identity" /\ edit'.entry = n
      /\ KeyEnv(n) \in secrets'
  BY DEF ApikeyStores, WriteFile
<1>5. EditSound'
  BY <1>4 DEF EditSound
<1>6. SetupShape'
  BY <1>4 DEF SetupInv, SetupShape, Active, ApikeyStores
<1> QED
  BY <1>2, <1>3, <1>5, <1>6 DEF SetupInv

LEMMA ApikeyRotatesKeeps == ASSUME SetupInv, NEW n, ApikeyRotates(n) PROVE SetupInv'
<1>1. KeysLast /\ PairLasts
  BY DEF KeysLast, PairLasts, ApikeyRotates, WriteFile
<1>2. RunSound' /\ RulesFollow' /\ FirstFile' /\ RulesWait' /\ EntriesKept'
  BY <1>1, RunUntouched DEF ApikeyRotates
<1>3. DiskSound' /\ EditSound'
  BY <1>1, DiskStays, EditStays DEF SetupInv, ApikeyRotates
<1>4. SetupShape'
  BY DEF SetupInv, SetupShape, Active, ApikeyRotates
<1> QED
  BY <1>2, <1>3, <1>4 DEF SetupInv

LEMMA TlsSelfsignsKeeps ==
  ASSUME SetupInv, NEW force \in BOOLEAN, NEW renew \in BOOLEAN, TlsSelfsigns(force, renew)
  PROVE  SetupInv'
<1>1. /\ pair' \in [key : Nat, cert : Nat] /\ pair'.key # 0 /\ pair'.cert = pair.cert
  <2>1. pair \in [key : Nat, cert : Nat]
    BY DEF SetupInv, SetupShape
  <2>2. CASE renew
    BY <2>1, <2>2 DEF TlsSelfsigns
  <2>3. CASE ~renew
    <3>1. pair' = [pair EXCEPT !.key = @ + 1]
      BY <2>3 DEF TlsSelfsigns
    <3> QED
      BY <2>1, <3>1
  <2> QED
    BY <2>2, <2>3
<1>2. KeysLast /\ PairLasts
  BY <1>1 DEF KeysLast, PairLasts, TlsSelfsigns
<1>3. RunSound' /\ RulesFollow' /\ FirstFile' /\ RulesWait' /\ EntriesKept'
  BY <1>2, RunUntouched DEF TlsSelfsigns
<1>4. DiskSound'
  BY <1>2, DiskStays DEF SetupInv, TlsSelfsigns
<1>5. edit'.pc = "cert" /\ edit'.key = pair'.key
  BY DEF TlsSelfsigns
<1>6. EditSound'
  BY <1>1, <1>5 DEF EditSound
<1>7. SetupShape'
  BY <1>1, <1>5 DEF SetupInv, SetupShape, Active, TlsSelfsigns
<1> QED
  BY <1>3, <1>4, <1>6, <1>7 DEF SetupInv

LEMMA TlsWritesCertKeeps == ASSUME SetupInv, TlsWritesCert PROVE SetupInv'
<1>1. /\ pair' \in [key : Nat, cert : Nat] /\ pair'.key = pair.key /\ pair'.cert # 0
  BY DEF SetupInv, SetupShape, EditSound, TlsWritesCert
<1>2. KeysLast /\ PairLasts
  BY <1>1 DEF KeysLast, PairLasts, TlsWritesCert
<1>3. RunSound' /\ RulesFollow' /\ FirstFile' /\ RulesWait' /\ EntriesKept'
  BY <1>2, RunUntouched DEF TlsWritesCert
<1>4. DiskSound'
  BY <1>2, DiskStays DEF SetupInv, TlsWritesCert
<1>5. edit'.pc = "idle"
  BY DEF TlsWritesCert, NoEdit
<1>6. EditSound'
  BY <1>5 DEF EditSound
<1>7. SetupShape'
  BY <1>1, <1>5 DEF SetupInv, SetupShape, Active, TlsWritesCert
<1> QED
  BY <1>3, <1>4, <1>6, <1>7 DEF SetupInv

LEMMA ToolRegistersKeeps ==
  ASSUME SetupInv, NEW kind \in {"agent", "database"}, NEW entry,
         kind = "agent" => ~IsKey(entry.tok), ToolRegisters(kind, entry)
  PROVE  SetupInv'
<1>1. KeysLast /\ PairLasts
  BY DEF KeysLast, PairLasts, ToolRegisters
<1>2. RunSound' /\ RulesFollow' /\ FirstFile' /\ RulesWait' /\ EntriesKept'
  BY <1>1, RunUntouched DEF ToolRegisters
<1>3. DiskSound'
  BY <1>1, DiskStays DEF SetupInv, ToolRegisters
<1>4. edit'.pc = "load" /\ edit'.kind = kind /\ edit'.entry = entry
  BY DEF ToolRegisters
<1>5. EditSound'
  BY <1>4 DEF EditSound
<1>6. SetupShape'
  BY <1>4 DEF SetupInv, SetupShape, Active, ToolRegisters
<1> QED
  BY <1>2, <1>3, <1>5, <1>6 DEF SetupInv

\* What an append makes of a sound file: the listen it had, and no identity
\* whose key is not stored.
AppendOf(c, d) ==
  /\ Sound(d) /\ d.exists /\ d.listen = c.listen
  /\ \A n \in d.idents : KeyEnv(n) \in secrets

\* Each of the three appends is of that kind.
LEMMA AppendedFits ==
  ASSUME EditSound, edit.pc = "load", NEW c, Sound(c), KeysStored(c), c.inst # {},
         NEW d, d \in Appended(c)
  PROVE  AppendOf(c, d)
<1>1. /\ DOMAIN c = {"exists", "inst", "dbs", "agents", "idents", "listen", "tls"}
      /\ c.exists /\ edit.kind \in {"identity", "agent", "database"}
  BY DEF Sound, EditSound
<1>2. CASE edit.kind = "identity"
  <2>1. d = [c EXCEPT !.idents = @ \cup {edit.entry}]
    BY <1>2 DEF Appended, RegisterIdentity
  <2>2. /\ DOMAIN d = DOMAIN c /\ d.exists = c.exists /\ d.inst = c.inst /\ d.dbs = c.dbs
        /\ d.agents = c.agents /\ d.listen = c.listen /\ d.tls = c.tls
        /\ d.idents = c.idents \cup {edit.entry}
    BY <1>1, <2>1
  <2>3. KeyEnv(edit.entry) \in secrets
    BY <1>2 DEF EditSound
  <2>4. Sound(d) /\ d.exists
    BY <1>1, <2>2 DEF Sound
  <2>5. \A n \in d.idents : KeyEnv(n) \in secrets
    BY <2>2, <2>3 DEF KeysStored
  <2> QED
    BY <2>2, <2>4, <2>5 DEF AppendOf
<1>3. CASE edit.kind = "agent"
  <2>1. d = [c EXCEPT !.agents = @ \cup {edit.entry}]
    BY <1>3 DEF Appended, RegisterAgent
  <2>2. /\ DOMAIN d = DOMAIN c /\ d.exists = c.exists /\ d.inst = c.inst /\ d.dbs = c.dbs
        /\ d.agents = c.agents \cup {edit.entry} /\ d.listen = c.listen /\ d.tls = c.tls
        /\ d.idents = c.idents
    BY <1>1, <2>1
  <2>3. ~IsKey(edit.entry.tok)
    BY <1>3 DEF EditSound
  <2>4. Sound(d) /\ d.exists
    BY <1>1, <2>2, <2>3 DEF Sound
  <2>5. \A n \in d.idents : KeyEnv(n) \in secrets
    BY <2>2 DEF KeysStored
  <2> QED
    BY <2>2, <2>4, <2>5 DEF AppendOf
<1>4. CASE edit.kind = "database"
  <2>1. d = [c EXCEPT !.dbs = @ \cup {MaterializeDatabase(c, edit.entry)}]
    BY <1>4 DEF Appended, RegisterDatabase
  <2>2. /\ DOMAIN d = DOMAIN c /\ d.exists = c.exists /\ d.inst = c.inst
        /\ d.agents = c.agents /\ d.listen = c.listen /\ d.tls = c.tls
        /\ d.idents = c.idents
    BY <1>1, <2>1
  <2>3. Sound(d) /\ d.exists
    BY <1>1, <2>2 DEF Sound
  <2>4. \A n \in d.idents : KeyEnv(n) \in secrets
    BY <2>2 DEF KeysStored
  <2> QED
    BY <2>2, <2>3, <2>4 DEF AppendOf
<1> QED
  BY <1>1, <1>2, <1>3, <1>4

\* The file another writer will write back lets no listen in.
LEMMA EditLoadsKeeps == ASSUME SetupInv, EditLoads PROVE SetupInv'
<1>1. KeysLast /\ PairLasts
  BY DEF KeysLast, PairLasts, EditLoads
<1>2. RunSound' /\ RulesFollow' /\ FirstFile' /\ RulesWait' /\ EntriesKept'
  BY <1>1, RunUntouched DEF EditLoads
<1>3. DiskSound'
  BY <1>1, DiskStays DEF SetupInv, EditLoads
<1>4. PICK c : c = cfg
  OBVIOUS
<1>5. PICK new : new = IF Valid(c) THEN Appended(c) ELSE {}
  OBVIOUS
<1>6. edit' = IF new = {} THEN NoEdit ELSE [pc |-> "write", new |-> Pick(new)]
  BY <1>4, <1>5 DEF EditLoads
<1>7. CASE new = {}
  <2>1. edit'.pc = "idle"
    BY <1>6, <1>7 DEF NoEdit
  <2>2. EditSound' /\ SetupShape'
    BY <2>1 DEF EditSound, SetupInv, SetupShape, Active, EditLoads
  <2> QED
    BY <1>2, <1>3, <2>2 DEF SetupInv
<1>8. CASE new # {}
  <2>1. PICK d : d = Pick(new)
    OBVIOUS
  <2>2. c.inst # {} /\ d \in Appended(c)
    BY <1>5, <1>8, <2>1, PickIsIn DEF Valid
  <2>3. EditSound /\ edit.pc = "load" /\ Sound(c) /\ KeysStored(c) /\ Paired(c)
    BY <1>4 DEF SetupInv, DiskSound, EditLoads
  <2>4. AppendOf(c, d)
    BY <2>2, <2>3, AppendedFits
  <2>5. edit'.pc = "write" /\ edit'.new = d
    BY <1>6, <1>8, <2>1
  <2>6. d.listen # 0 => pair'.key # 0 /\ pair'.cert # 0
    BY <2>3, <2>4 DEF Paired, AppendOf, EditLoads
  <2>7. \A n \in d.idents : KeyEnv(n) \in secrets'
    BY <2>4 DEF AppendOf, EditLoads
  <2>8. Sound(d) /\ d.exists
    BY <2>4 DEF AppendOf
  <2>9. EditSound'
    BY <2>5, <2>6, <2>7, <2>8 DEF EditSound, KeysStored, Paired
  <2>10. SetupShape'
    BY <2>5 DEF SetupInv, SetupShape, Active, EditLoads
  <2> QED
    BY <1>2, <1>3, <2>9, <2>10 DEF SetupInv
<1> QED
  BY <1>7, <1>8

\* An older file that is written back is one the kernel can serve.
LEMMA EditWritesKeeps == ASSUME SetupInv, EditWrites PROVE SetupInv'
<1>1. KeysLast /\ PairLasts
  BY DEF KeysLast, PairLasts, EditWrites
<1>2. PICK c : c = edit.new
  OBVIOUS
<1>3. Sound(c) /\ c.exists /\ KeysStored(c) /\ Paired(c) /\ cfg' = c
  BY <1>2 DEF SetupInv, EditSound, EditWrites, AtomicWrite
<1>4. RunSound' /\ RulesFollow' /\ FirstFile' /\ RulesWait' /\ EntriesKept'
  BY <1>1, <1>3, RunUntouched DEF EditWrites
<1>5. DiskSound'
  BY <1>3, WrittenIsSound DEF SetupInv, DiskSound, KeysStored, Paired, EditWrites
<1>6. edit'.pc = "idle"
  BY DEF EditWrites, NoEdit
<1>7. EditSound' /\ SetupShape'
  BY <1>6 DEF EditSound, SetupInv, SetupShape, Active, EditWrites
<1> QED
  BY <1>4, <1>5, <1>7 DEF SetupInv

-----------------------------------------------------------------------------
\* A server before its first run.
LEMMA SetupStarts == ASSUME SetupInit PROVE SetupInv
<1>1. run.pc = "idle" /\ edit.pc = "idle" /\ ~Active
  BY DEF SetupInit, NoRun, NoEdit, Active, Retiring, Serving
<1>2. pair \in [key : Nat, cert : Nat] /\ (cfg.tls => pair.key # 0 /\ pair.cert # 0)
  BY DEF SetupInit
<1>3. SetupShape
  BY <1>1, <1>2 DEF SetupShape, SetupInit
<1>4. Sound(cfg)
  BY SetupAssumption DEF SetupInit
<1>5. Paired(cfg)
  BY <1>2, <1>4 DEF Paired, Sound
<1>6. KeysStored(cfg)
  BY DEF SetupInit, KeysStored
<1>7. SoundList(managed) /\ managed.fw = {}
  BY DEF SetupInit, NoManaged, SoundList
<1>8. DiskSound
  BY <1>4, <1>5, <1>6, <1>7 DEF DiskSound
<1>9. RunSound /\ EditSound /\ RulesWait /\ EntriesKept
  BY <1>1 DEF RunSound, EditSound, RulesWait, EntriesKept, Serving
<1>10. RulesFollow /\ FirstFile
  BY <1>1, <1>7 DEF RulesFollow, FirstFile, Retiring, Serving, SetupInit
<1> QED
  BY <1>3, <1>8, <1>9, <1>10 DEF SetupInv

LEMMA SetupStutters == ASSUME SetupInv, UNCHANGED setupVars PROVE SetupInv'
<1>1. KeysLast /\ PairLasts
  BY DEF KeysLast, PairLasts, setupVars
<1>2. RunSound' /\ RulesFollow' /\ FirstFile' /\ RulesWait' /\ EntriesKept'
  BY <1>1, RunUntouched DEF setupVars
<1>3. DiskSound' /\ EditSound'
  BY <1>1, DiskStays, EditStays DEF SetupInv, setupVars
<1>4. SetupShape'
  BY DEF SetupInv, SetupShape, Active, setupVars
<1> QED
  BY <1>2, <1>3, <1>4 DEF SetupInv

\* Every step of the command and of the other writers keeps the invariant.
LEMMA SetupSteps == ASSUME SetupInv, [SetupNext]_setupVars PROVE SetupInv'
<1>1. CASE Install
  <2>1. CASE \E found \in FoundOnServers, o \in Options, ip \in BOOLEAN :
               InstallPlans(found, o.allow, o.port, ip)
    BY <2>1, InstallPlansKeeps
  <2>2. CASE InstallStopsService \/ InstallCloses \/ InstallForgets
    BY <2>2, InstallStopsServiceKeeps, InstallClosesKeeps, InstallForgetsKeeps
  <2>3. CASE InstallMakesKey \/ InstallHasPair \/ InstallMakesCert
    BY <2>3, InstallMakesKeyKeeps, InstallHasPairKeeps, InstallMakesCertKeeps
  <2>4. CASE InstallOpens \/ InstallOpensNothing
    BY <2>4, InstallOpensKeeps, InstallOpensNothingKeeps
  <2>5. CASE InstallWritesSecret \/ InstallDropsSecret
    BY <2>5, InstallWritesSecretKeeps, InstallDropsSecretKeeps
  <2>6. CASE InstallWritesConfig \/ InstallStarts
    BY <2>6, InstallWritesConfigKeeps, InstallStartsKeeps
  <2>7. CASE InstallIsSound \/ InstallTurnsOff \/ InstallUndoes
    BY <2>7, InstallIsSoundKeeps, InstallTurnsOffKeeps, InstallUndoesKeeps
  <2>8. CASE InstallRecords \/ InstallEnds
    BY <2>8, InstallRecordsKeeps, InstallEndsKeeps
  <2> QED
    BY <1>1, <2>1, <2>2, <2>3, <2>4, <2>5, <2>6, <2>7, <2>8 DEF Install
<1>2. CASE Edit
  <2>1. CASE \E n \in Names : ApikeyStores(n)
    BY <2>1, ApikeyStoresKeeps
  <2>2. CASE \E n \in cfg.idents : ApikeyRotates(n)
    BY <2>2, ApikeyRotatesKeeps
  <2>3. CASE \E force, renew \in BOOLEAN : TlsSelfsigns(force, renew)
    BY <2>3, TlsSelfsignsKeeps
  <2>4. CASE \E d \in NewDatabases : ToolRegisters("database", d)
    BY <2>4, ToolRegistersKeeps
  <2>5. CASE \E a \in NewAgents : ToolRegisters("agent", a)
    <3>1. PICK a \in NewAgents : ToolRegisters("agent", a)
      BY <2>5
    <3>2. ~IsKey(a.tok)
      BY SetupAssumption
    <3> QED
      BY <3>1, <3>2, ToolRegistersKeeps
  <2>6. CASE TlsWritesCert \/ EditLoads \/ EditWrites
    BY <2>6, TlsWritesCertKeeps, EditLoadsKeeps, EditWritesKeeps
  <2> QED
    BY <1>2, <2>1, <2>2, <2>3, <2>4, <2>5, <2>6 DEF Edit
<1>3. CASE UNCHANGED setupVars
  BY <1>3, SetupStutters
<1> QED
  BY <1>1, <1>2, <1>3 DEF SetupNext

\* The inductive invariant of hqbird-install beside the other writers of
\* fbmcp.yaml (internal/ctl/hqbird_install.go), for any lines, addresses,
\* configurations and number of runs and edits.
THEOREM SetupInvariant == SetupSpec => []SetupInv
<1>1. SetupInit => SetupInv
  BY SetupStarts
<1>2. SetupInv /\ [SetupNext]_setupVars => SetupInv'
  BY SetupSteps
<1> QED
  BY <1>1, <1>2, PTL DEF SetupSpec

\* Remote mode in fbmcp.yaml is one the kernel can serve, whoever wrote the
\* file last and wherever a run ended (internal/hqbirdsetup/remote.go
\* ApplyRemote, internal/ctl/apikey.go).
THEOREM SetupListenIsServable == SetupSpec => []ListenIsServable
<1>1. SetupInv => ListenIsServable
  BY DEF SetupInv, DiskSound, Sound, KeysStored, Paired, ListenIsServable
<1> QED
  BY <1>1, SetupInvariant, PTL

\* Until a run ends part-way, the firewall between runs holds exactly the rules
\* hqbird-managed.json records and the ones it refused to remove
\* (internal/ctl/hqbird_install.go, hqbird_host_linux.go).
THEOREM SetupRulesAreRecorded == SetupSpec => []RulesAreRecorded
<1>1. SetupInv => RulesAreRecorded
  BY DEF SetupInv, RulesFollow, RulesAreRecorded
<1> QED
  BY <1>1, SetupInvariant, PTL

\* A new listen port is written only behind its firewall rules ("the rule goes
\* first", internal/ctl/hqbird_install.go).
THEOREM SetupOpensFirst == SetupSpec => RuleBeforeListen
<1>1. SetupInv /\ [SetupNext]_setupVars =>
        [(run.pc = "config" /\ cfg' = run.cfg /\ cfg'.listen # cfg.listen /\ cfg'.listen # 0)
           => {<<a, cfg'.listen>> : a \in run.managed.allow} \subseteq rules]_setupVars
  <2> SUFFICES ASSUME SetupInv, run.pc = "config", cfg' = run.cfg, cfg'.listen # 0
               PROVE  {<<a, cfg'.listen>> : a \in run.managed.allow} \subseteq rules
    OBVIOUS
  <2>1. run.cfg.listen = run.listen
    BY DEF SetupInv, RunSound, Active, Serving
  <2> QED
    BY <2>1 DEF SetupInv, RulesWait
<1> QED
  BY <1>1, SetupInvariant, PTL DEF SetupSpec, RuleBeforeListen

\* The entries the managed list does not own are in every plan, field for
\* field, until it is written (internal/hqbirdsetup/hqbirdsetup.go Reconcile).
THEOREM SetupEntriesKept == SetupSpec => []EntriesKept
<1>1. SetupInv => EntriesKept
  BY DEF SetupInv
<1> QED
  BY <1>1, SetupInvariant, PTL
=============================================================================
