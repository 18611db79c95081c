-------------------------------- MODULE Bridge --------------------------------
(***************************************************************************)
(* fbmcp bridge (cmd/fbmcp/bridge.go): a stdio server that relays every    *)
(* client line to the remote endpoint, keeps the session id, replays the   *)
(* client's initialize once after a lost session, holds the server's GET   *)
(* stream and deletes the session at end of input.  Composed with          *)
(* Transport: a post is a request in the thread's slot.                    *)
(*                                                                         *)
(* Threads are the client lines; the line of kind "initialize" is handled  *)
(* by the reading loop itself, the others each by a goroutine.             *)
(***************************************************************************)
EXTENDS Transport

CONSTANTS
  Lines,        \* client lines, each also the slot of its posts
  Kind,         \* line -> "initialize", "initialized" or "call"
  Scripts,      \* what the client sends, and how the server answers a notification
  Replay,       \* slot of the posts made under reinitMu
  GetSlot,      \* slot of the GET stream
  DelSlot,      \* slot of the final DELETE
  Directs,      \* slots of another client with the same key that opens sessions
  Me,           \* the identity of the bridge's key
  maxGetRetries

ASSUME BridgeAssumption ==
  /\ Requests = Lines \cup Directs \cup {Replay, GetSlot, DelSlot}
  /\ Lines \cap Directs = {}
  /\ {Replay, GetSlot, DelSlot} \cap (Lines \cup Directs) = {}
  /\ Kind \in [Lines -> {"initialize", "initialized", "call"}]
  /\ Scripts \subseteq (SUBSET Lines) \X NoteStatus
  /\ Me \in Identities
  /\ maxGetRetries \in Nat

VARIABLES
  session,   \* bridge.session
  initLine,  \* an initialize line is cached
  initGen,   \* bridge.initGen
  reinitMu,  \* line whose goroutine holds the mutex, or NoOne
  get,       \* getLoop: [pc, retries]; pc "off" is getRunning = FALSE
  closed,    \* "reading", "draining" (end of input), "cancelled", "closed"
  th,        \* line -> [pc, gen, sid, tries]
  script,    \* the lines this client sends, its initialize first
  out        \* line -> answers written for it, in order

bvars == <<session, initLine, initGen, reinitMu, get, closed, th, script, out>>
vars  == <<tvars, bvars>>

Fresh == [pc |-> "unread", gen |-> 0, sid |-> NoSid, tries |-> 0]

Init ==
  /\ TInit
  /\ script \in {s[1] : s \in Scripts}
  /\ session = NoSid
  /\ initLine = FALSE
  /\ initGen = 0
  /\ reinitMu = NoOne
  /\ get = [pc |-> "off", retries |-> 0]
  /\ closed = "reading"
  /\ th = [m \in Lines |-> Fresh]
  /\ <<script, noteAs>> \in Scripts
  /\ out = [m \in Lines |-> <<>>]

-----------------------------------------------------------------------------
(* emit and emitError: a notification gets no answer *)

Says(m, what) == IF Kind[m] = "initialized" THEN out ELSE [out EXCEPT ![m] = Append(@, what)]

Quit(m) == [th EXCEPT ![m].pc = "done"]

\* hc.Do: refused when the server is down or the context cancelled, else the
\* request is on its way.
Do(slot, kind, sid) ==
  /\ req[slot].pc \in {"none", "over", "dead", "cut"}
  /\ req' = [req EXCEPT ![slot] =
       IF up /\ (closed # "cancelled" \/ slot = DelSlot)
         THEN Sent(kind, Me, sid) ELSE [Idle EXCEPT !.pc = "dead"]]
  /\ UNCHANGED <<up, lookup, guards, guardOf, limits, reload, tracked, live, ran,
                 issued, reloaded, noteAs, faults>>

\* The response headers are in, or the connection broke (a request cut after it
\* was served may show either).
Came(slot)   == req[slot].pc \in {"served", "over", "cut"} /\ req[slot].status # 0
Failed(slot) == req[slot].pc \in {"dead", "cut"} \/ closed = "cancelled"

-----------------------------------------------------------------------------
(* run and handle *)

\* The loop reads a line; initialize is served before the next line is read.
ReadLine(m) ==
  /\ closed = "reading"
  /\ th[m].pc = "unread"
  /\ \A i \in Lines : Kind[i] = "initialize" => th[i].pc \in {"unread", "done"}
  /\ m \in script
  /\ Kind[m] # "initialize" => \A i \in script : Kind[i] = "initialize" => th[i].pc = "done"
  /\ IF Kind[m] = "initialize"
       THEN initLine' = TRUE /\ session' = NoSid
       ELSE UNCHANGED <<initLine, session>>
  /\ th' = [th EXCEPT ![m] = [@ EXCEPT !.pc = "post", !.gen = initGen, !.tries = 1]]
  /\ UNCHANGED <<script, tvars, initGen, reinitMu, get, closed, out>>

\* post: the session is read under the lock, then the request goes out.
Post(m) ==
  /\ th[m].pc = "post"
  /\ Do(m, Kind[m], session)
  /\ th' = [th EXCEPT ![m].pc = "wait", ![m].sid = session]
  /\ UNCHANGED <<script, session, initLine, initGen, reinitMu, get, closed, out>>

\* startGET, reached only when the answer has a body to read.
startGET == IF get.pc = "off" /\ closed # "closed" /\ session # NoSid
              THEN [pc |-> "open", retries |-> 0] ELSE get

\* The answer of the first or of the repeated post.  The server says 404 only to a
\* named session, so post and handle, which asks for no session, agree on it.
Answer(m) ==
  LET q == req[m]
  IN /\ th[m].pc = "wait" /\ Came(m)
     /\ CASE q.status = 404 /\ th[m].sid # NoSid ->
               IF th[m].tries = 1 /\ Kind[m] # "initialize"
                 THEN th' = [th EXCEPT ![m].pc = "lost"] /\ UNCHANGED <<session, get, out>>
                 ELSE th' = Quit(m) /\ out' = Says(m, "again") /\ UNCHANGED <<session, get>>
          [] q.status >= 300 /\ ~(q.status = 404 /\ th[m].sid # NoSid) ->
               th' = Quit(m) /\ out' = Says(m, "http") /\ UNCHANGED <<session, get>>
          [] q.status = 202 -> th' = Quit(m) /\ UNCHANGED <<session, get, out>>
          [] OTHER ->
               /\ session' = IF Kind[m] = "initialize" THEN q.new ELSE session
               /\ th' = [th EXCEPT ![m].pc = "body"]
               /\ UNCHANGED <<get, out>>
     /\ UNCHANGED <<script, tvars, initLine, initGen, reinitMu, closed>>

\* The body: an answer is relayed (and a completed initialize counted); a stream
\* that breaks before the answer ends the post without one.  The server is set up
\* to answer with event streams only, so no body is read in one piece.
Body(m) ==
  /\ th[m].pc = "body"
  /\ \/ /\ out' = Says(m, IF Kind[m] = "call" /\ th[m].sid = NoSid THEN "refused" ELSE "ok")
        /\ initGen' = IF Kind[m] = "initialize" THEN initGen + 1 ELSE initGen
     \/ /\ req[m].pc = "cut" \/ closed = "cancelled"
        /\ UNCHANGED <<out, initGen>>
  /\ get' = IF Kind[m] = "initialized" THEN startGET ELSE get
  /\ th' = Quit(m)
  /\ UNCHANGED <<script, tvars, session, initLine, reinitMu, closed>>

\* Mutant: a post whose connection failed is sent again.
RetryUnreachable(m) ==
  /\ th[m].pc = "wait" /\ Failed(m)
  /\ th' = [th EXCEPT ![m].pc = "post", ![m].tries = 1]
  /\ UNCHANGED <<script, tvars, session, initLine, initGen, reinitMu, get, closed, out>>

\* The connection failed: an error answer, and no second try.
Unreachable(m) ==
  /\ th[m].pc = "wait" /\ Failed(m)
  /\ th' = Quit(m)
  /\ out' = Says(m, "unreachable")
  /\ UNCHANGED <<script, tvars, session, initLine, initGen, reinitMu, get, closed>>

-----------------------------------------------------------------------------
(* reinitialize *)

\* The mutex is taken; if another request re-initialized meanwhile, just retry.
Reinitialize(m) ==
  /\ th[m].pc = "lost" /\ reinitMu = NoOne
  /\ IF initGen # th[m].gen
       THEN /\ th' = [th EXCEPT ![m].pc = "post", ![m].tries = 2]
            /\ UNCHANGED <<session, reinitMu, out>>
       ELSE /\ session' = NoSid
            /\ IF initLine
                 THEN th' = [th EXCEPT ![m].pc = "replay"] /\ reinitMu' = m /\ UNCHANGED out
                 ELSE th' = Quit(m) /\ out' = Says(m, "lost") /\ UNCHANGED reinitMu
  /\ UNCHANGED <<script, tvars, initLine, initGen, get, closed>>

ReplayPost(m) ==
  /\ th[m].pc \in {"replay", "note"}
  /\ IF th[m].pc = "replay" THEN Do(Replay, "initialize", session)
                            ELSE Do(Replay, "initialized", session)
  /\ th' = [th EXCEPT ![m].pc = IF @ = "replay" THEN "replayed" ELSE "noted", ![m].sid = session]
  /\ UNCHANGED <<script, session, initLine, initGen, reinitMu, get, closed, out>>

\* Mutant: the mutex is kept.
GiveUpLocked(m) == /\ th' = Quit(m) /\ out' = Says(m, "lost") /\ UNCHANGED reinitMu

\* A failed replay releases the mutex and answers the request with the error;
\* the session stays empty.
GiveUp(m) == /\ th' = Quit(m) /\ out' = Says(m, "lost") /\ reinitMu' = NoOne

ReplayAnswer(m) ==
  /\ th[m].pc = "replayed"
  /\ \/ /\ Failed(Replay) \/ (Came(Replay) /\ req[Replay].status >= 300)
        /\ GiveUp(m)
        /\ UNCHANGED session
     \/ /\ Came(Replay) /\ req[Replay].status < 300
        /\ session' = req[Replay].new
        /\ th' = [th EXCEPT ![m].pc = "replayBody"]
        /\ UNCHANGED <<reinitMu, out>>
  /\ UNCHANGED <<script, tvars, initLine, initGen, get, closed>>

ReplayBody(m) ==
  /\ th[m].pc = "replayBody"
  /\ \/ initGen' = initGen + 1
     \/ (req[Replay].pc = "cut" \/ closed = "cancelled") /\ UNCHANGED initGen
  /\ th' = [th EXCEPT ![m].pc = "note"]
  /\ UNCHANGED <<script, tvars, session, initLine, reinitMu, get, closed, out>>

\* The initialized notification: 404 is not an error here (post returns the
\* status without one), so the request is repeated after it as well.
NoteAnswer(m) ==
  LET lost == req[Replay].status = 404 /\ th[m].sid # NoSid
  IN /\ th[m].pc = "noted"
     /\ \/ /\ Failed(Replay) \/ (Came(Replay) /\ req[Replay].status >= 300 /\ ~lost)
           /\ GiveUp(m)
           /\ UNCHANGED get
        \/ /\ Came(Replay) /\ (req[Replay].status < 300 \/ lost)
           /\ get' = IF req[Replay].status = 200 THEN startGET ELSE get
           /\ th' = [th EXCEPT ![m].pc = "post", ![m].tries = 2]
           /\ reinitMu' = NoOne
           /\ UNCHANGED out
     /\ UNCHANGED <<script, tvars, session, initLine, initGen, closed>>

-----------------------------------------------------------------------------
(* getLoop *)

GetOpen ==
  /\ get.pc = "open"
  /\ IF closed \in {"closed", "cancelled"} \/ session = NoSid
       THEN get' = [get EXCEPT !.pc = "off"] /\ UNCHANGED tvars
       ELSE get' = [get EXCEPT !.pc = "wait"] /\ Do(GetSlot, "get", session)
  /\ UNCHANGED <<script, session, initLine, initGen, reinitMu, closed, th, out>>

\* 404 and 405 end the loop; anything else is retried up to maxGetRetries.
GetEnd ==
  /\ get.pc = "wait"
  /\ Failed(GetSlot) \/ (Came(GetSlot) /\ req[GetSlot].pc # "served")
  /\ get' = IF \/ Came(GetSlot) /\ req[GetSlot].status \in {404, 405}
               \/ get.retries + 1 > maxGetRetries
              THEN [pc |-> "off", retries |-> 0]
              ELSE [pc |-> "open", retries |-> get.retries + 1]
  /\ UNCHANGED <<script, tvars, session, initLine, initGen, reinitMu, closed, th, out>>

-----------------------------------------------------------------------------
(* End of input *)

Eof ==
  /\ closed = "reading" /\ script # {}
  /\ \A m \in script : th[m].pc # "unread"
  /\ \A m \in script : Kind[m] = "initialize" => th[m].pc = "done"
  /\ closed' = "draining"
  /\ UNCHANGED <<script, tvars, session, initLine, initGen, reinitMu, get, th, out>>

\* Two seconds later the calls still under way are aborted.
Cancel ==
  /\ closed = "draining"
  /\ \E m \in Lines : th[m].pc \notin {"unread", "done"}
  /\ closed' = "cancelled"
  /\ UNCHANGED <<script, tvars, session, initLine, initGen, reinitMu, get, th, out>>

\* The handlers ended: DELETE the session.
Close ==
  /\ closed \in {"draining", "cancelled"}
  /\ \A m \in Lines : th[m].pc \in {"unread", "done"}
  /\ closed' = "closed"
  /\ IF session # NoSid THEN Do(DelSlot, "delete", session) ELSE UNCHANGED tvars
  /\ UNCHANGED <<script, session, initLine, initGen, reinitMu, get, th, out>>

\* External: another client of the same identity, alone at the server.
DirectOpen(r) ==
  /\ script = {} /\ up
  /\ req[r].pc = "none"
  /\ req' = [req EXCEPT ![r] = Sent("initialize", Me, NoSid)]
  /\ UNCHANGED <<up, lookup, guards, guardOf, limits, reload, tracked, live, ran,
                 issued, reloaded, noteAs, faults, bvars>>

BridgeStep(m) ==
  \/ ReadLine(m) \/ Post(m) \/ Answer(m) \/ Body(m) \/ Unreachable(m)
  \/ Reinitialize(m) \/ ReplayPost(m) \/ ReplayAnswer(m) \/ ReplayBody(m) \/ NoteAnswer(m)

Next ==
  \/ ServerStep /\ UNCHANGED bvars
  \/ \E m \in Lines : BridgeStep(m)
  \/ \E r \in Directs : DirectOpen(r)
  \/ GetOpen \/ GetEnd \/ Eof \/ Cancel \/ Close

Spec == Init /\ [][Next]_vars

\* Goroutines run and a request that reached the server is handled; nothing makes
\* the client send more, the operator reload, or a stream end.
FairSpec ==
  /\ Spec
  /\ \A m \in Lines : WF_vars(BridgeStep(m) /\ th[m].pc # "unread")
  /\ \A r \in Requests \ {GetSlot} :
       WF_vars((Lookup(r) \/ Admit(r) \/ Serve(r) \/ Finish(r)) /\ UNCHANGED bvars)

-----------------------------------------------------------------------------
(* Properties *)

\* A client call runs at most once on the server, although handle posts it again
\* after a lost session.  A line is answered at most once, and the answer tells the
\* truth: a relayed result means the call ran, a lost session (-32001), a session
\* lost again or an HTTP refusal means that it did not.
AnswerIsTrue ==
  \A m \in Lines :
    /\ ran[m] <= 1
    /\ Len(out[m]) <= 1
    /\ Kind[m] = "call" /\ out[m] = <<"ok">> => ran[m] = 1
    /\ out[m] \in {<<w>> : w \in {"lost", "again", "http", "refused"}} => ran[m] = 0

Holders(g, stream) ==
  {r \in Requests : req[r].g = g /\ req[r].pc \in {"admitted", "served"} /\ Stream(r) = stream}

\* A guard's counters are exactly the requests inside it and never above its caps,
\* also for the guards a reload replaced under running requests.
SlotsBalance ==
  up => \A g \in DOMAIN guards :
          /\ guards[g].inflight = Cardinality(Holders(g, FALSE))
          /\ guards[g].streams = Cardinality(Holders(g, TRUE))
          /\ guards[g].inflight <= guards[g].limits.sessions
          /\ guards[g].streams <= guards[g].limits.streams

Opening(id) == {r \in Requests : req[r].id = id /\ req[r].opening
                                 /\ req[r].pc \in {"admitted", "served"}}

\* The session cap is compared before and the session added after the request is
\* served, so max_live_sessions can be exceeded; until a reload changes the guard
\* the excess is at most the other requests the identity may have in flight.
CapOvershoot ==
  up /\ ~reloaded =>
    \A id \in Identities :
      Cardinality(TrackedBy(id)) + Cardinality(Opening(id))
        <= EffectiveLimits(id, FirstLimits).live - 1 + EffectiveLimits(id, FirstLimits).sessions

\* What the guards and the session table count, under any interleaving of requests.
LimitsHold == SlotsBalance /\ CapOvershoot

\* Every line that was read is finished with: no handler waits for ever on the
\* server, on the re-initialize mutex or on another handler.
HandlersEnd == []<>(\A m \in Lines : th[m].pc \in {"unread", "done"})

\* A bridge that has had a session and lost it is re-initializing it.  False of the
\* code: a re-initialize that fails leaves the session empty, a post without a
\* session is never answered 404, and so no later request re-initializes.
SessionComesBack ==
  initGen > 0 /\ session = NoSid =>
    \/ reinitMu # NoOne
    \/ \E m \in Lines : Kind[m] = "initialize" /\ th[m].pc \in {"post", "wait", "body"}

-----------------------------------------------------------------------------
(* The inductive invariant *)

Handling == {"post", "wait", "body", "lost", "replay", "replayed", "replayBody", "note", "noted"}

Answers == {"ok", "refused", "again", "http", "unreachable", "lost"}

Outs == {<<>>} \cup {<<w>> : w \in Answers}
ThRec == [pc : Handling \cup {"unread", "done"}, gen : Nat, sid : Sids \cup {NoSid}, tries : Nat]

BridgeTypeOK ==
  /\ session \in Sids \cup {NoSid}
  /\ initLine \in BOOLEAN
  /\ initGen \in Nat
  /\ get \in [pc : {"off", "open", "wait"}, retries : Nat]
  /\ closed \in {"reading", "draining", "cancelled", "closed"}
  /\ th \in [Lines -> ThRec]
  /\ out \in [Lines -> Outs]

Flying(m) == req[m].pc \in {"sent", "known", "admitted"}
Landed(m) == req[m].pc \in {"served", "over", "cut"}

\* A post on its way carries the line and the session it was sent with, and the
\* call has not run before.
FlyingFits(m) ==
  Flying(m) => /\ th[m].pc \in {"wait", "done"}
               /\ req[m].kind = Kind[m] /\ req[m].sid = th[m].sid
               /\ ran[m] = 0
               /\ out[m] \in {<<>>, <<"unreachable">>}

\* A call is answered 200 exactly if it ran in its session.
LandedFits(m) ==
  Landed(m) /\ th[m].pc \in {"wait", "body"} =>
    ran[m] = IF Kind[m] = "call" /\ req[m].status = 200 /\ th[m].sid # NoSid THEN 1 ELSE 0

CallStatus == {0, 200, 401, 403, 404, 429}

\* What is known of a line at each place of handle and reinitialize; before the
\* first and before the repeated post the call has not run.
LineFits(m) ==
  /\ Kind[m] = "call" => req[m].status \in CallStatus
  /\ Kind[m] # "call" => ran[m] = 0
  /\ ran[m] <= 1
  /\ th[m].pc # "done" => out[m] = <<>>
  /\ th[m].pc = "unread" => req[m].pc = "none"
  /\ th[m].pc \notin {"wait", "body", "done"} =>
       ran[m] = 0 /\ req[m].pc \notin {"sent", "known", "admitted", "dead"}
  /\ th[m].pc = "wait" => req[m].pc # "none" /\ (req[m].pc = "dead" => ran[m] = 0)
  /\ th[m].pc = "body" => Landed(m) /\ (Kind[m] = "call" => req[m].status = 200)

LinesFit == \A m \in Lines : FlyingFits(m) /\ LandedFits(m) /\ LineFits(m)

Inside(r) == req[r].pc \in {"admitted", "served"}

\* A request inside the handler holds a guard that exists; a dead server has none.
InsideFits ==
  \A r \in Requests :
    /\ req[r].pc \in {"sent", "known", "admitted", "served"} => up /\ req[r].id \in Identities
    /\ Inside(r) => req[r].g <= Len(guards)
    /\ Inside(r) /\ req[r].opening => req[r].kind = "initialize"

\* Until the first reload the guards are those of the start.
FirstGuards ==
  ~reloaded =>
    /\ reload.pc = "idle"
    /\ \A i \in Identities : /\ guardOf[i] # 0
                             /\ guards[guardOf[i]].limits = EffectiveLimits(i, FirstLimits)
    /\ \A r \in Requests : Inside(r) => req[r].g = guardOf[req[r].id]

BridgeInv ==
  /\ TransportTypeOK
  /\ BridgeTypeOK
  /\ LinesFit
  /\ AnswerIsTrue
  /\ InsideFits
  /\ FirstGuards
  /\ LimitsHold

=============================================================================
