----------------------------- MODULE Reconcile -----------------------------
(***************************************************************************)
(* The pure part of "fbmcp ctl hqbird-install" (internal/hqbirdsetup): from *)
(* the facts of the Firebird lines of a server, fbmcp.yaml and the list of  *)
(* the entries the command owns (hqbird-managed.json), the new fbmcp.yaml,  *)
(* the new list and the secrets to write.                                   *)
(*                                                                          *)
(* A line is a record of facts, where 0, "" , FALSE and << >> are the empty *)
(* fields:                                                                  *)
(*   key   the agent_config.json that identifies the line                   *)
(*   rank  its place in the order the lines were found                      *)
(*   name  the line's name as an instance id, << >> when it is none         *)
(*   port  the Firebird port                                                *)
(*   bin   an install folder is known                                       *)
(*   off   local_api.enabled is false                                       *)
(*   url   where the Local API listens: "loopback", "any" (all addresses),  *)
(*         "remote" or ""                                                   *)
(*   tok   the Local API token is known                                     *)
(*   pw    the SYSDBA password is known                                     *)
(*   dbs   the database files of the line, in order                         *)
(* A configuration is a record of sets of entries: inst, dbs, agents and    *)
(* the names of the identities, with the listen port (0: remote mode off)   *)
(* and whether tls names a key pair.  Secrets go by name.                   *)
(***************************************************************************)
EXTENDS Naturals, Sequences, FiniteSets, SequencesExt

CONSTANTS BaseOf,        \* path |-> the database id its file name suggests
          DefaultPort    \* the remote port when none is asked for

ASSUME DefaultPortAssumption == DefaultPort \in Nat \ {0}

NoSecret == <<"none", 0>>
SysdbaEnv(port) == <<"sysdba", port>>
TokenEnv(port)  == <<"token", port>>
KeyEnv(name)    == <<"key", name>>
AgentID(port)   == <<"agent", port>>

-----------------------------------------------------------------------------
(***************************************************************************)
(* The facts of a line.                                                     *)
(***************************************************************************)

(* Merge fills the empty fields of l from o. *)
Merge(l, o) ==
    [l EXCEPT !.name = IF @ = << >> THEN o.name ELSE @,
              !.port = IF @ = 0 THEN o.port ELSE @,
              !.bin  = @ \/ o.bin,
              !.url  = IF @ = "" THEN o.url ELSE @,
              !.tok  = @ \/ o.tok,
              !.pw   = @ \/ o.pw,
              !.dbs  = IF @ = << >> THEN o.dbs ELSE @,
              !.off  = @ \/ o.off]

(* A database file in a list: its path, the form of the path, whether it    *)
(* is the security database and whether the file is on disk.  Paths that    *)
(* are remote, relative, with a macro, or of a security database are left   *)
(* out.                                                                     *)
LocalDBPath(f) == f.form = "local" /\ ~f.security

(* The aliases of databases.conf; lines inside a { } block set options. *)
DatabasesConfPaths(conf) == SelectSeq(conf, LAMBDA f : ~f.inBlock /\ LocalDBPath(f))

(* The databases of the newest file of the agent's list, each once. *)
RecentDatabases(seen) ==
    LET Once(out, f) == IF LocalDBPath(f) /\ \A g \in ToSet(out) : g.path # f.path
                        THEN Append(out, f) ELSE out
    IN  FoldLeft(Once, << >>, seen)

(* The database files of a line that exist, each once. *)
LineDatabases(conf, seen) ==
    LET Keep(out, f) == IF f.there /\ f.path \notin ToSet(out) THEN Append(out, f.path) ELSE out
    IN  FoldLeft(Keep, << >>, DatabasesConfPaths(conf) \o RecentDatabases(seen))

(* The address rule of fbagent: its listen, else a port of 127.0.0.1. *)
EffectiveListen(listen) == IF listen # "" THEN listen ELSE "loopback"

(* A Local API on all addresses is reached on 127.0.0.1; one on another     *)
(* address is not used.                                                     *)
LoopbackURL(url) == url \in {"loopback", "any"}

(* FillFromFiles reads the agent folder: agent_config.json fills what no   *)
(* one said, then hqbird2027-firebird.json.  A sealed token is unreadable   *)
(* and the databases need the install folder.                               *)
FillFromFiles(l, f) ==
    LET bin == l.bin \/ f.agentBin \/ f.recordBin
    IN  [l EXCEPT !.name = IF @ # << >> THEN @ ELSE f.name,
                  !.port = IF @ # 0 THEN @
                           ELSE IF f.agentPort # 0 THEN f.agentPort ELSE f.recordPort,
                  !.bin  = bin,
                  !.off  = @ \/ f.off,
                  !.url  = IF @ # "" THEN @ ELSE EffectiveListen(f.listen),
                  !.tok  = @ \/ (f.token = "plain"),
                  !.dbs  = IF @ # << >> \/ ~bin THEN @ ELSE LineDatabases(f.conf, f.seen)]

(* The instance id of a line: its name, else p<port>. *)
InstanceID(l) == IF l.name # << >> THEN l.name ELSE <<"p", l.port>>

Problem(l) == l.port = 0 \/ ~l.bin

(* The lines in the order Reconcile takes them: by port, and by the order  *)
(* they were found for one port.                                            *)
InOrder(found) ==
    SetToSortSeq(found, LAMBDA k, l : k.port < l.port \/ (k.port = l.port /\ k.rank < l.rank))

-----------------------------------------------------------------------------
(***************************************************************************)
(* What Reconcile wants for the lines.                                      *)
(***************************************************************************)

(* An entry that is not in the managed list and holds the id or the        *)
(* address is the operator's, and covers the line.                          *)
OperatorInstance(c, m, l) ==
    \E e \in c.inst : e.id \notin m.inst /\ (e.id = InstanceID(l) \/ e.port = l.port)

OperatorAgent(c, m, l) ==
    \E a \in c.agents : a.id \notin m.agents /\ (a.id = AgentID(l.port) \/ a.url = l.port)

(* The instance entry of a line.  svc is the secret of the Services API     *)
(* user, def the one of the default read and admin users.                   *)
WantInstance(l, have) ==
    LET env == IF l.pw \/ SysdbaEnv(l.port) \in have THEN SysdbaEnv(l.port) ELSE NoSecret
    IN  [id |-> InstanceID(l), port |-> l.port, svc |-> env, def |-> env]

(* The agent entry of a line: a Local API that is on, on loopback, with a  *)
(* token that is known or stored, and that no operator entry covers.        *)
WantAgent(c, m, l, have) ==
    IF /\ ~l.off
       /\ LoopbackURL(l.url)
       /\ l.tok \/ TokenEnv(l.port) \in have
       /\ ~OperatorAgent(c, m, l)
    THEN {[id |-> AgentID(l.port), url |-> l.port, tok |-> TokenEnv(l.port)]}
    ELSE {}

(* The lines the command manages: a line is left out when facts are         *)
(* missing, when another line has its port or its id, or when the           *)
(* operator's entry covers it.                                              *)
ManagedLines(c, m, lines) ==
    LET Step(w, l) ==
          IF Problem(l) \/ l.port \in w.ports THEN w
          ELSE IF \/ \E k \in ToSet(w.lines) : InstanceID(k) = InstanceID(l)
                  \/ OperatorInstance(c, m, l)
               THEN [w EXCEPT !.ports = @ \cup {l.port}]
               ELSE [ports |-> w.ports \cup {l.port}, lines |-> Append(w.lines, l)]
    IN  FoldLeft(Step, [ports |-> {}, lines |-> << >>], lines).lines

(* The entries and secrets those lines need. *)
WantLines(c, m, lines, have) ==
    LET Agents(S) == UNION {WantAgent(c, m, l, have) : l \in S}
        all == ToSet(lines)
    IN  [lines  |-> lines,
         inst   |-> {WantInstance(l, have) : l \in all},
         agents |-> Agents(all),
         write  |-> {SysdbaEnv(l.port) : l \in {k \in all : k.pw}}
                      \cup {a.tok : a \in Agents({k \in all : k.tok})}]

-----------------------------------------------------------------------------
(***************************************************************************)
(* The reconcile of each list of entries.                                   *)
(***************************************************************************)
Ids(entries) == {e.id : e \in entries}

(* Databases of a line that is gone go with it: owned by the command, on an *)
(* instance it owns, and no line wants the instance.                        *)
KeepDatabases(c, m, want) ==
    {d \in c.dbs : ~(d.id \in m.dbs /\ d.inst \in m.inst /\ d.inst \notin Ids(want.inst))}

(* The fields the command owns are updated and the rest stays: the default  *)
(* users only while they are unset or already this secret.                  *)
MergeInstance(have, want) ==
    [id   |-> have.id,
     port |-> want.port,
     svc  |-> IF want.svc = NoSecret THEN have.svc ELSE want.svc,
     def  |-> IF want.svc # NoSecret /\ have.def \in {NoSecret, want.svc} THEN want.def ELSE have.def]

(* Mutant: an instance whose line is gone goes although databases use it. *)
KeepInstancesUnused(c, m, want, dbs) ==
    {e \in c.inst : e.id \notin m.inst}
      \cup {MergeInstance(p[1], p[2]) : p \in
              {q \in c.inst \X want.inst : q[1].id \in m.inst /\ q[1].id = q[2].id}}

(* Instances: the operator's stay, the command's are updated, or kept when  *)
(* their line is gone and databases use them.                               *)
KeepInstances(c, m, want, dbs) ==
    {e \in c.inst : e.id \notin m.inst}
      \cup {MergeInstance(p[1], p[2]) : p \in
              {q \in c.inst \X want.inst : q[1].id \in m.inst /\ q[1].id = q[2].id}}
      \cup {e \in c.inst : /\ e.id \in m.inst
                           /\ e.id \notin Ids(want.inst)
                           /\ \E d \in dbs : d.inst = e.id}

(* A free id for a database file: its name, else with the instance, else    *)
(* numbered.                                                                *)
UniqueDBID(base, inst, taken) ==
    LET Candidate(n) == IF n = 0 THEN <<base>> ELSE <<base, inst, n>>
        Free(n) == Candidate(n) \notin taken /\ \A k \in 0..(n - 1) : Candidate(k) \in taken
    IN  Candidate(CHOOSE n \in 0..Cardinality(taken) : Free(n))

(* Mutant: a file that has an entry is registered again. *)
AddDatabasesAgain(lines, insts, dbs) ==
    LET AddPath(inst, new, path) ==
          new \cup {[id |-> UniqueDBID(BaseOf[path], inst.id, Ids(dbs \cup new)), inst |-> inst.id,
                     path |-> path, sec |-> inst.def]}
        AddOfLine(new, l) ==
          LET inst == CHOOSE e \in insts : e.id = InstanceID(l)
          IN  IF inst.def = NoSecret THEN new
              ELSE FoldLeft(LAMBDA n, p : AddPath(inst, n, p), new, l.dbs)
    IN  dbs \cup FoldLeft(AddOfLine, {}, lines)

(* The databases of the managed lines that no entry holds yet.  An instance *)
(* without default users gets none.                                         *)
AddDatabases(lines, insts, dbs) ==
    LET AddPath(inst, new, path) ==
          IF \E d \in dbs \cup new : d.path = path THEN new
          ELSE new \cup {[id |-> UniqueDBID(BaseOf[path], inst.id, Ids(dbs \cup new)), inst |-> inst.id,
                          path |-> path, sec |-> inst.def]}
        AddOfLine(new, l) ==
          LET inst == CHOOSE e \in insts : e.id = InstanceID(l)
          IN  IF inst.def = NoSecret THEN new
              ELSE FoldLeft(LAMBDA n, p : AddPath(inst, n, p), new, l.dbs)
    IN  dbs \cup FoldLeft(AddOfLine, {}, lines)

(* Agents: the operator's stay, the command's follow what the lines want. *)
KeepAgents(c, m, want) == {a \in c.agents : a.id \notin m.agents} \cup want.agents

(* Reconcile: the new configuration, the new managed list and the secrets   *)
(* to write.  The remote mode asked for and the recorded firewall rules are *)
(* carried over.                                                            *)
PlanFor(c, m, want) ==
    LET kept   == KeepDatabases(c, m, want)
        insts  == KeepInstances(c, m, want, kept)
        added  == {w \in want.inst : w.id \notin Ids(insts)}
        dbs    == AddDatabases(want.lines, insts \cup added, kept)
        agents == KeepAgents(c, m, want)
        mInst  == (m.inst \cap Ids(insts)) \cup Ids(added)
        mAgent == Ids(want.agents)
    IN  [cfg     |-> [c EXCEPT !.exists = TRUE, !.inst = insts \cup added,
                               !.dbs = dbs, !.agents = agents],
         managed |-> [m EXCEPT !.inst = mInst, !.agents = mAgent,
                               !.dbs = (m.dbs \cap Ids(kept)) \cup (Ids(dbs) \ Ids(kept)),
                               !.secrets = (want.write
                                   \cup {e.svc : e \in {x \in insts \cup added : x.id \in mInst /\ x.svc # NoSecret}})
                                   \cup {a.tok : a \in {x \in agents : x.id \in mAgent}}],
         write   |-> want.write]

Reconcile(c, m, found, have) ==
    PlanFor(c, m, WantLines(c, m, ManagedLines(c, m, InOrder(found)), have))

(* Secret files the command wrote that no entry uses now. *)
StaleSecrets(old, now) == old.secrets \ now.secrets

-----------------------------------------------------------------------------
(***************************************************************************)
(* Remote mode.                                                             *)
(***************************************************************************)

(* Mutant: remote mode is turned on before an API key exists. *)
ApplyRemoteNoKey(c, m) ==
    IF m.allow = {} THEN [cfg |-> c, listen |-> c.listen]
    ELSE LET port == IF m.port # 0 THEN m.port ELSE IF c.listen # 0 THEN c.listen ELSE DefaultPort
         IN  [cfg |-> [c EXCEPT !.tls = TRUE, !.listen = port], listen |-> port]

(* ApplyRemote sets tls and, once an identity exists, listen.  With no      *)
(* remote mode asked for, a listen the operator set stays; with one asked   *)
(* for and no identity the mode is pending.                                 *)
ApplyRemote(c, m) ==
    IF m.allow = {} THEN [cfg |-> c, listen |-> c.listen]
    ELSE LET port == IF m.port # 0 THEN m.port ELSE IF c.listen # 0 THEN c.listen ELSE DefaultPort
         IN  IF c.idents = {}
             THEN [cfg |-> [c EXCEPT !.tls = TRUE], listen |-> 0]
             ELSE [cfg |-> [c EXCEPT !.tls = TRUE, !.listen = port], listen |-> port]

(* Config.Validate: unique ids, and every database on a known instance with *)
(* its users' secret.                                                       *)
Valid(c) ==
    /\ c.inst # {}
    /\ \A S \in {c.inst, c.dbs, c.agents} : \A x, y \in S : x.id = y.id => x = y
    /\ \A d \in c.dbs : d.inst \in Ids(c.inst) /\ d.sec # NoSecret
    /\ \A a \in c.agents : a.tok # NoSecret
=============================================================================
