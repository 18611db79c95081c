------------------------------ MODULE Transport ------------------------------
(***************************************************************************)
(* The authenticated HTTP endpoint (internal/transport): the key lookup,   *)
(* the per-identity guard with its in-flight and stream counters, the live *)
(* session tracker, and a reload that swaps keys and guards under running  *)
(* requests.  The MCP SDK behind it (sessions, dispatch) is external and   *)
(* modelled by what the handler and the bridge rely on.                    *)
(*                                                                         *)
(* A request is a slot whose record remembers what the handler's locals    *)
(* hold; a client puts one in a slot (Send) and reads the status there.    *)
(***************************************************************************)
EXTENDS Naturals, Sequences, FiniteSets

CONSTANTS
  Requests,      \* request slots
  Identities,    \* configured identities, each with one key
  MaxSids,       \* bound: session ids the SDK can hand out
  NoteStatus,    \* statuses the SDK may answer a notification with
  NoSid,         \* the empty session header
  NoOne,         \* no owner
  LimitSets,     \* global limit blocks a reload may install: [sessions, streams, live]
  FirstLimits,   \* the block in force at start
  Own,           \* Own[i]: the limit block of an identity; 0 is a field left out
  Autonomous,    \* the identities with that profile
  MaxFaults      \* bound: crashes, dropped sessions, throttled requests, reloads

ASSUME TransportAssumption ==
  /\ IsFiniteSet(Requests) /\ IsFiniteSet(Identities)
  /\ MaxSids \in Nat /\ NoSid \notin 1..MaxSids
  /\ NoteStatus \subseteq {200, 202}
  /\ NoOne \notin Identities
  /\ FirstLimits \in LimitSets /\ Autonomous \subseteq Identities
  /\ LimitSets \cup {Own[i] : i \in Identities} \subseteq
       [{"sessions", "streams", "live"} -> Nat]
  /\ MaxFaults \in Nat

VARIABLES
  up,       \* the server process accepts connections
  lookup,   \* identities whose key is accepted (Authenticator.lookup)
  guards,   \* every guard object made since start: [id, limits, inflight, streams]
  guardOf,  \* identity -> its guard's index, 0 for none (Authenticator.guards)
  limits,   \* Authenticator.limits
  reload,   \* the reload in progress: [pc, ids, limits]
  tracked,  \* session tracker: sid -> owner
  live,     \* SDK: sid -> owner
  req,      \* slot -> handler locals
  ran,      \* slot -> how often the SDK ran the call sent in this slot
  issued,   \* session ids handed out so far
  reloaded, \* a reload has taken place
  noteAs,   \* the status this server answers a notification with
  faults

tvars == <<up, lookup, guards, guardOf, limits, reload, tracked, live, req, ran,
           issued, reloaded, noteAs, faults>>

Sids == 1..MaxSids

Idle == [pc |-> "none", kind |-> "call", sid |-> NoSid, id |-> NoOne, g |-> 0,
         opening |-> FALSE, status |-> 0, new |-> NoSid]

\* OrDefault and Over: a block with its gaps filled, a block laid over another.
OrDefault(l) == [sessions |-> IF l.sessions = 0 THEN 8 ELSE l.sessions,
                 streams  |-> IF l.streams = 0 THEN 2 ELSE l.streams,
                 live     |-> IF l.live = 0 THEN 16 ELSE l.live]

LaidOver(l, o) == [f \in DOMAIN l |-> IF o[f] > 0 THEN o[f] ELSE l[f]]

autonomousLimits == [sessions |-> 2, streams |-> 2, live |-> 4]

\* The global block, then the profile, then the identity's own block.
EffectiveLimits(id, global) ==
  LET l == OrDefault(global)
  IN  LaidOver(IF id \in Autonomous THEN LaidOver(l, autonomousLimits) ELSE l, Own[id])

newGuard(id, l) == [id |-> id, limits |-> l, inflight |-> 0, streams |-> 0]

\* The guards of a fresh Authenticator for the identities ids.
FreshGuards(ids) ==
  CHOOSE s \in [1..Cardinality(ids) -> {newGuard(i, EffectiveLimits(i, FirstLimits)) : i \in ids}] :
    \A i \in ids : \E k \in DOMAIN s : s[k].id = i

NewAuthenticator ==
  /\ lookup = Identities
  /\ guards = FreshGuards(Identities)
  /\ guardOf = [i \in Identities |-> CHOOSE k \in DOMAIN guards : guards[k].id = i]
  /\ limits = FirstLimits
  /\ reload = [pc |-> "idle", named |-> {}, ids |-> {}, limits |-> FirstLimits]
  /\ tracked = [s \in Sids |-> NoOne]
  /\ live = [s \in Sids |-> NoOne]

TInit ==
  /\ up = TRUE
  /\ NewAuthenticator
  /\ req = [r \in Requests |-> Idle]
  /\ ran = [r \in Requests |-> 0]
  /\ issued = 0
  /\ reloaded = FALSE
  /\ noteAs \in NoteStatus
  /\ faults = 0

-----------------------------------------------------------------------------
(* The handler, one step per critical section *)

\* The request as it leaves the client.
Sent(kind, id, sid) ==
  [Idle EXCEPT !.pc = "sent", !.kind = kind, !.id = id, !.sid = sid]

Over(status, new) == [Idle EXCEPT !.pc = "over", !.status = status, !.new = new]
Reply(r, status) == [req EXCEPT ![r] = Over(status, NoSid)]

\* Bearer lookup in the table read under the lock: an unknown key is 401.
Lookup(r) ==
  /\ req[r].pc = "sent" /\ up
  /\ req' = IF req[r].id \in lookup
              THEN [req EXCEPT ![r].pc = "known"]
              ELSE Reply(r, 401)
  /\ UNCHANGED <<up, lookup, guards, guardOf, limits, reload, tracked, live, ran,
                 issued, reloaded, noteAs, faults>>

Stream(r) == req[r].kind = "get"

Held(g, stream) ==
  IF stream THEN guards[g].streams ELSE guards[g].inflight

Full(g, stream) ==
  g # 0 /\ Held(g, stream) >= IF stream THEN guards[g].limits.streams
                                        ELSE guards[g].limits.sessions

\* guard.enter / guard.leave on the object the handler looked up.
Count(g, stream, n) ==
  IF stream THEN [guards EXCEPT ![g].streams = n]
            ELSE [guards EXCEPT ![g].inflight = n]

enter(g, stream) == Count(g, stream, Held(g, stream) + 1)
leave(g, stream) == Count(g, stream, Held(g, stream) - 1)

\* Sessions the tracker counts for the owner.
TrackedBy(id) == {s \in Sids : tracked[s] = id}

\* An initialize without a session opens one; it is refused at the live cap.
Opens(r) == req[r].kind = "initialize" /\ req[r].sid = NoSid

CapReached(r) ==
  /\ Opens(r)
  /\ guardOf[req[r].id] # 0
  /\ guards[guardOf[req[r].id]].limits.live > 0
  /\ Cardinality(TrackedBy(req[r].id)) >= guards[guardOf[req[r].id]].limits.live

\* Guard and session bookkeeping.  A request whose identity has no guard (its
\* key was read before the reload, or the reload has not built the guard yet)
\* passes uncounted.  429 leaves the guard again, so it costs no slot.  The guard
\* is looked up, entered and the sessions counted under three locks; as a guard
\* that was looked up stays the same object for the request, a reload in between
\* might as well come after.
Admit(r) ==
  LET g == guardOf[req[r].id]
  IN /\ req[r].pc = "known" /\ up
     /\ IF Full(g, Stream(r)) \/ CapReached(r)
          THEN req' = Reply(r, 429) /\ UNCHANGED guards
          ELSE /\ req' = [req EXCEPT ![r].pc = "admitted", ![r].g = g,
                                     ![r].opening = Opens(r)]
               /\ guards' = IF g = 0 THEN guards ELSE enter(g, Stream(r))
     /\ UNCHANGED <<up, lookup, guardOf, limits, reload, tracked, live, ran,
                    issued, reloaded, noteAs, faults>>

\* The token bucket is empty: 429 before any counter is touched.
Throttle(r) ==
  /\ req[r].pc = "known" /\ up
  /\ guardOf[req[r].id] # 0
  /\ faults < MaxFaults
  /\ req' = Reply(r, 429)
  /\ faults' = faults + 1
  /\ UNCHANGED <<up, lookup, guards, guardOf, limits, reload, tracked, live, ran,
                 issued, reloaded, noteAs>>

\* External: the SDK handler.  An unknown session is 404, a session of another
\* identity 403; a call outside a session is answered with an error and not run.
SdkStatus(r) ==
  CASE req[r].sid # NoSid /\ live[req[r].sid] = NoOne -> 404
    [] req[r].sid # NoSid /\ live[req[r].sid] \notin {NoOne, req[r].id} -> 403
    [] req[r].kind = "initialized" -> noteAs
    [] req[r].kind = "delete" -> IF req[r].sid = NoSid THEN 400 ELSE 204
    [] req[r].kind = "get" -> IF req[r].sid = NoSid THEN 405 ELSE 200
    [] OTHER -> 200

Serve(r) ==
  LET status == SdkStatus(r)
      opens  == req[r].kind = "initialize" /\ status = 200
  IN /\ req[r].pc = "admitted" /\ up
     /\ opens => issued < MaxSids
     /\ issued' = IF opens THEN issued + 1 ELSE issued
     /\ req' = [req EXCEPT ![r].pc = "served", ![r].status = status,
                           ![r].new = IF opens THEN issued + 1 ELSE NoSid]
     /\ live' = CASE opens -> [live EXCEPT ![issued + 1] = req[r].id]
                  [] status = 204 -> [live EXCEPT ![req[r].sid] = NoOne]
                  [] OTHER -> live
     /\ ran' = IF req[r].kind = "call" /\ status = 200 /\ req[r].sid # NoSid
                 THEN [ran EXCEPT ![r] = @ + 1] ELSE ran
     /\ UNCHANGED <<up, lookup, guards, guardOf, limits, reload, tracked, reloaded, noteAs, faults>>

\* Mutant: the guard is looked up again by name when the request ends.
FinishByName(r) ==
  LET q == req[r]
      g == guardOf[q.id]
  IN /\ q.pc = "served" /\ up
     /\ tracked' = IF q.opening THEN [tracked EXCEPT ![q.new] = q.id] ELSE tracked
     /\ guards' = IF g = 0 THEN guards
                  ELSE [guards EXCEPT ![g].inflight = IF @ = 0 THEN 0 ELSE @ - 1]
     /\ req' = [req EXCEPT ![r] = Over(q.status, q.new)]
     /\ UNCHANGED <<up, lookup, guardOf, limits, reload, live, ran, issued, reloaded, noteAs, faults>>

\* What is left after ServeHTTP: the tracker, then the deferred leave.
Finish(r) ==
  LET q == req[r]
  IN /\ q.pc = "served" /\ up
     /\ tracked' = CASE q.opening /\ q.status < 400 -> [tracked EXCEPT ![q.new] = q.id]
                     [] q.sid # NoSid /\ (q.status = 404 \/ (q.kind = "delete" /\ q.status < 300))
                          -> [tracked EXCEPT ![q.sid] = NoOne]
                     [] OTHER -> tracked
     /\ guards' = IF q.g = 0 THEN guards ELSE leave(q.g, Stream(r))
     /\ req' = [req EXCEPT ![r] = Over(q.status, q.new)]
     /\ UNCHANGED <<up, lookup, guardOf, limits, reload, live, ran, issued, reloaded, noteAs, faults>>

-----------------------------------------------------------------------------
(* Reload: SetLimits then Replace, each followed by rebuildGuards *)

\* Keep the guard of an identity whose limits did not change, else a new one.
rebuildGuards(ids) ==
  LET keeps == {i \in ids : guardOf[i] # 0 /\ guards[guardOf[i]].limits = EffectiveLimits(i, limits)}
      fresh == ids \ keeps
      order == CHOOSE s \in [1..Cardinality(fresh) -> fresh] :
                 \A i \in fresh : \E k \in DOMAIN s : s[k] = i
  IN /\ guards' = guards \o [k \in DOMAIN order |-> newGuard(order[k], EffectiveLimits(order[k], limits))]
     /\ guardOf' = [i \in Identities |->
          CASE i \in keeps -> guardOf[i]
            [] i \in fresh -> Len(guards) + CHOOSE k \in DOMAIN order : order[k] = i
            [] OTHER -> 0]

ReloadVars == <<up, tracked, live, req, ran, issued, noteAs>>

\* The identities of a file whose key resolves: the others get a guard too, and
\* no key lets them in.
secretsPartial(named) == SUBSET named

\* What a reload compares with the one in force, whose identities have the guards.
authFingerprint(named, ids, l) == <<named, ids, l>>
Guarded == {i \in Identities : guardOf[i] # 0}

\* RefreshAuth found other keys or limits.
SetLimits ==
  /\ reload.pc = "idle" /\ up /\ faults < MaxFaults
  /\ \E named \in SUBSET Identities, l \in LimitSets :
       \E ids \in secretsPartial(named) :
         /\ authFingerprint(named, ids, l) # authFingerprint(Guarded, lookup, limits)
         /\ reload' = [pc |-> "limits", named |-> named, ids |-> ids, limits |-> l]
         /\ limits' = l
  /\ reloaded' = TRUE
  /\ faults' = faults + 1
  /\ UNCHANGED <<lookup, guards, guardOf, ReloadVars>>

Rebuild ==
  /\ reload.pc \in {"limits", "lookup"} /\ up
  /\ rebuildGuards(reload.named)
  /\ reload' = [reload EXCEPT !.pc = IF @ = "limits" THEN "swap" ELSE "idle"]
  /\ UNCHANGED <<lookup, limits, reloaded, faults, ReloadVars>>

Replace ==
  /\ reload.pc = "swap" /\ up
  /\ lookup' = reload.ids
  /\ reload' = [reload EXCEPT !.pc = "lookup"]
  /\ UNCHANGED <<guards, guardOf, limits, reloaded, faults, ReloadVars>>

-----------------------------------------------------------------------------
(* The world around the handler *)

\* sessionTracker.expire, run by count(): an idle session leaves the tracker; the
\* SDK drops it on its own timer, sooner or later (SdkTimeout).
Expire ==
  /\ up /\ faults < MaxFaults
  /\ \E s \in Sids : /\ tracked[s] # NoOne
                     /\ tracked' = [tracked EXCEPT ![s] = NoOne]
  /\ faults' = faults + 1
  /\ UNCHANGED <<up, lookup, guards, guardOf, limits, reload, live, req, ran, issued, reloaded, noteAs>>

SdkTimeout ==
  /\ up /\ faults < MaxFaults
  /\ \E s \in Sids : /\ live[s] # NoOne
                     /\ live' = [live EXCEPT ![s] = NoOne]
  /\ faults' = faults + 1
  /\ UNCHANGED <<up, lookup, guards, guardOf, limits, reload, tracked, req, ran, issued, reloaded, noteAs>>

\* The process dies: requests under way break, sessions are gone.
Crash ==
  /\ up /\ faults < MaxFaults
  /\ up' = FALSE
  /\ faults' = faults + 1
  /\ req' = [r \in Requests |->
       IF req[r].pc \in {"none", "over", "dead", "cut"} THEN req[r]
       ELSE [req[r] EXCEPT !.pc = IF @ = "served" THEN "cut" ELSE "dead", !.g = 0]]
  /\ UNCHANGED <<lookup, guards, guardOf, limits, reload, tracked, live, ran, issued, reloaded, noteAs>>

\* ... and comes back with a new Authenticator and a new SDK handler.
Restart ==
  /\ ~up
  /\ up' = TRUE
  /\ lookup' = Identities
  /\ guards' = FreshGuards(Identities)
  /\ guardOf' = [i \in Identities |-> CHOOSE k \in DOMAIN guards' : guards'[k].id = i]
  /\ limits' = FirstLimits
  /\ reload' = [pc |-> "idle", named |-> {}, ids |-> {}, limits |-> FirstLimits]
  /\ tracked' = [s \in Sids |-> NoOne]
  /\ live' = [s \in Sids |-> NoOne]
  /\ UNCHANGED <<req, ran, issued, reloaded, noteAs, faults>>

ServerStep ==
  \/ \E r \in Requests : Lookup(r) \/ Admit(r) \/ Throttle(r) \/ Serve(r) \/ Finish(r)
  \/ SetLimits \/ Rebuild \/ Replace
  \/ Expire \/ SdkTimeout \/ Crash \/ Restart

-----------------------------------------------------------------------------
(* Types *)

Limits   == [{"sessions", "streams", "live"} -> Nat]
GuardRec == [id : Identities, limits : Limits, inflight : Nat, streams : Nat]

SlotPcs == {"none", "sent", "known", "admitted", "served", "over", "dead", "cut"}
SlotRec ==
  [pc : SlotPcs, kind : {"initialize", "initialized", "call", "get", "delete"},
   sid : Sids \cup {NoSid}, id : Identities \cup {NoOne}, g : Nat, opening : BOOLEAN,
   status : Nat, new : Sids \cup {NoSid}]

TransportTypeOK ==
  /\ up \in BOOLEAN /\ reloaded \in BOOLEAN
  /\ lookup \subseteq Identities
  /\ guards \in Seq(GuardRec)
  /\ guardOf \in [Identities -> 0..Len(guards)]
  /\ limits \in LimitSets
  /\ reload \in [pc : {"idle", "limits", "swap", "lookup"},
                 named : SUBSET Identities, ids : SUBSET Identities, limits : LimitSets]
  /\ tracked \in [Sids -> Identities \cup {NoOne}]
  /\ live \in [Sids -> Identities \cup {NoOne}]
  /\ req \in [Requests -> SlotRec]
  /\ ran \in [Requests -> Nat]
  /\ issued \in 0..MaxSids
  /\ noteAs \in NoteStatus
  /\ faults \in Nat
=============================================================================
