------------------------------- MODULE Setup -------------------------------
(***************************************************************************)
(* "fbmcp ctl hqbird-install" as it runs on a server: the command works     *)
(* through several files, the firewall and the service one after the other, *)
(* and a kill, a full disk or a failing tool may end it between any two of  *)
(* them.  Lines come, go and move between runs, and the firewall is turned  *)
(* on and off: a run reads the agent folders once and the firewall once, so *)
(* what it finds there is a choice of that step.  Meanwhile the other       *)
(* writers of fbmcp.yaml (apikey new, fb_db_register, fb_agent_register)    *)
(* load, append and write the whole file.                                   *)
(***************************************************************************)
EXTENDS Reconcile

CONSTANTS Folders,      \* line |-> the contents its agent folder may have
          StdinDocs,    \* the sets of lines a setup may pass with --lines-stdin
          InitialConfigs, \* the fbmcp.yaml the operator may start from
          Names,        \* identities apikey new may make
          NewDatabases, \* databases fb_db_register may add: [id, path]
          NewAgents,    \* agents fb_agent_register may add
          Options,      \* the --allow-from addresses and --port a run may be given
          MaxRuns, MaxEdits  \* bounds of the instance

AllLines == DOMAIN Folders

(* What holds of every fbmcp.yaml here.  Remote mode the operator has set   *)
(* up is one CheckRemote takes; without a file there is no instance; the    *)
(* secret of an instance or an agent is not the one of an API key.          *)
IsKey(s) == s[1] = "key"

Sound(c) ==
    /\ DOMAIN c = {"exists", "inst", "dbs", "agents", "idents", "listen", "tls"}
    /\ c.exists \in BOOLEAN /\ c.tls \in BOOLEAN
    /\ c.listen # 0 => c.idents # {} /\ c.tls
    /\ c.inst # {} => c.exists
    /\ \A e \in c.inst : ~IsKey(e.svc)
    /\ \A a \in c.agents : ~IsKey(a.tok)

ASSUME SetupAssumption ==
    /\ \A c \in InitialConfigs : Sound(c)
    /\ \A a \in NewAgents : ~IsKey(a.tok)

(* The servers a run may find: the lines that are there, and what each      *)
(* agent folder holds.                                                      *)
Servers == {f \in UNION {[S -> UNION {Folders[l] : l \in AllLines}] : S \in SUBSET AllLines} :
              \A l \in DOMAIN f : f[l] \in Folders[l]}

VARIABLES
    rules,    \* the allow rules stored in the firewall: <<address, port>>
    stuck,    \* those of them whose removal failed and that no list has taken up again
    cfg,      \* fbmcp.yaml
    managed,  \* hqbird-managed.json
    secrets,  \* names with a file in secrets.dir
    pair,     \* the key and certificate files: which pair each belongs to, 0 = missing
    service,  \* the fbmcp service: "absent", "stopped" or "running"
    run,      \* the command
    edit,     \* another writer of fbmcp.yaml
    whole,    \* no run has ended part-way
    budget    \* runs and edits left

setupVars == <<rules, stuck, cfg, managed, secrets, pair, service, run, edit, whole, budget>>

Pick(S) == CHOOSE x \in S : TRUE

NoManaged == [inst |-> {}, agents |-> {}, dbs |-> {}, secrets |-> {}, allow |-> {}, port |-> 0, fw |-> {}]
NoRun  == [pc |-> "idle"]
NoEdit == [pc |-> "idle"]

SetupInit ==
    /\ rules = {} /\ stuck = {}
    /\ cfg \in InitialConfigs
    /\ managed = NoManaged
    /\ secrets = {KeyEnv(n) : n \in cfg.idents} \cup ({d.sec : d \in cfg.dbs} \cup {a.tok : a \in cfg.agents})
    /\ pair = IF cfg.tls THEN [key |-> 1, cert |-> 1] ELSE [key |-> 0, cert |-> 0]
    /\ service = "absent"
    /\ run = NoRun /\ edit = NoEdit /\ whole = TRUE
    /\ budget = [runs |-> MaxRuns, edits |-> MaxEdits]

-----------------------------------------------------------------------------
(***************************************************************************)
(* What the command does to the host.  Files are replaced by a rename, so a *)
(* reader sees the old or the new one.                                      *)
(***************************************************************************)
WriteFile(name)   == secrets' = secrets \cup {name}
DropFile(name)    == secrets' = secrets \ {name}
WriteManaged(m)   == managed' = m
AtomicWrite(body) == cfg' = body

(* The rules a list records are taken out of the firewall one by one.  The  *)
(* error of a removal is dropped and the caller clears the list whatever    *)
(* came of it: any of the rules may be kept, and from then on is stuck.     *)
RemoveFirewall(w, fw, kept) ==
    [rules |-> w.rules \ (fw \ kept), stuck |-> (w.stuck \ fw) \cup kept]

Wall == [rules |-> rules, stuck |-> stuck]
SetWall(w) == rules' = w.rules /\ stuck' = w.stuck

(* The firewall is on, or off (ufw inactive: it takes the rules and does    *)
(* not apply them), or there is none, which takes no rule.  The recorded    *)
(* rules are removed, one per address is added until one fails, and the     *)
(* call is an error unless all were added to a firewall that is on.         *)
FirewallCalls(fw, allow, port) ==
    LET wanted == {<<a, port>> : a \in allow}
        Call(on, added, kept) ==
          LET w == RemoveFirewall(Wall, fw, kept)
          IN  [wall |-> [w EXCEPT !.rules = @ \cup added], added |-> added,
               ok |-> on /\ added = wanted]
    IN  {Call(on, added, kept) : on \in BOOLEAN, added \in SUBSET wanted, kept \in SUBSET fw}

(* The unit is written and enabled; the start may fail. *)
StartService == service' \in {"running"} \cup (IF service = "running" THEN {} ELSE {"stopped"})
StopDisable  == service' = IF service = "absent" THEN "absent" ELSE "stopped"

-----------------------------------------------------------------------------
(***************************************************************************)
(* The command.                                                             *)
(***************************************************************************)

(* The lines of this server: stdin and --agent-config first (they win),     *)
(* then the discovered services, then the files of each folder, if it can   *)
(* be read.  A line that was passed counts whether it was discovered or not. *)
Discovered(l, f) ==
    [key |-> l, rank |-> f.rank, name |-> << >>, port |-> f.agentPort, bin |-> FALSE, off |-> FALSE,
     url |-> EffectiveListen(f.listen), tok |-> FALSE, pw |-> FALSE, dbs |-> << >>]

NoFolder ==
    [name |-> << >>, agentPort |-> 0, recordPort |-> 0, agentBin |-> FALSE, recordBin |-> FALSE,
     off |-> FALSE, listen |-> "", token |-> "", conf |-> << >>, seen |-> << >>]

FoundLines(folders, services, stdin) ==
    LET Line(l) == LET said == {d \in stdin : d.key = l}
                       disc == {Discovered(l, folders[x]) : x \in services \cap {l}}
                   IN  CASE disc = {} -> Pick(said)
                         [] said = {} -> Pick(disc)
                         [] OTHER     -> Merge(Pick(said), Pick(disc))
        Files(l) == IF l \in DOMAIN folders THEN folders[l] ELSE NoFolder
    IN  {FillFromFiles(Line(l), Files(l)) : l \in services \cup {d.key : d \in stdin}}

(* What a run may find: any folders, any of them with a service. *)
FoundOnServers ==
    UNION {{FoundLines(f, services, stdin) : services \in SUBSET DOMAIN f, stdin \in StdinDocs} :
             f \in Servers}

(* --allow-from adds addresses, --port replaces the port. *)
WithOptions(m, allow, port) ==
    [m EXCEPT !.allow = @ \cup allow, !.port = IF port # 0 THEN port ELSE @]

(* What a run works from: what it read, and the plan with remote mode.      *)
Planned(m, found, plan, ip) ==
    LET rs == IF m.allow # {} /\ ~ip THEN [cfg |-> plan.cfg, listen |-> plan.cfg.listen]
              ELSE ApplyRemote(plan.cfg, m)
    IN  [pc |-> IF plan.cfg.inst = {} THEN "stop" ELSE "key",
         old |-> cfg, m |-> m, found |-> found,
         cfg |-> rs.cfg, listen |-> rs.listen,
         managed |-> plan.managed, write |-> plan.write]

(* Steps 1 to 3: the lines, fbmcp.yaml and the managed list are read, and   *)
(* the plan is made.  Remote mode asked for needs an IP address of this     *)
(* server; with no instance left there is nothing to serve.                 *)
InstallPlans(found, allow, port, ip) ==
    /\ run.pc \in {"idle", "done"} /\ budget.runs > 0
    /\ cfg.exists => Valid(cfg)
    /\ ~ip => managed.allow \cup allow # {}
    /\ LET m == WithOptions(managed, allow, port)
       IN  run' = Planned(m, found, Reconcile(cfg, m, found, secrets), ip)
    /\ budget' = [budget EXCEPT !.runs = @ - 1]
    /\ UNCHANGED <<rules, stuck, cfg, managed, secrets, pair, service, edit, whole>>

(* No Firebird line: the service is stopped and disabled, the firewall      *)
(* rules go, and the list remembers the entries the file keeps.             *)
InstallStopsService ==
    /\ run.pc = "stop"
    /\ StopDisable
    /\ run' = [run EXCEPT !.pc = "close"]
    /\ UNCHANGED <<rules, stuck, cfg, managed, secrets, pair, edit, whole, budget>>

InstallCloses ==
    /\ run.pc = "close"
    /\ \E kept \in SUBSET run.m.fw : SetWall(RemoveFirewall(Wall, run.m.fw, kept))
    /\ run' = [run EXCEPT !.pc = "forget"]
    /\ UNCHANGED <<cfg, managed, secrets, pair, service, edit, whole, budget>>

InstallForgets ==
    /\ run.pc = "forget"
    /\ IF run.old.exists THEN WriteManaged([run.m EXCEPT !.fw = {}]) ELSE UNCHANGED managed
    /\ run' = NoRun
    /\ UNCHANGED <<rules, stuck, cfg, secrets, pair, service, edit, whole, budget>>

(* ensureTLS: a readable certificate beside a key is taken as it is;        *)
(* otherwise selfsign writes a new key and then its certificate.  A failure *)
(* turns remote mode off.                                                   *)
NeedsPair == run.managed.allow # {} /\ run.cfg.tls /\ (pair.key = 0 \/ pair.cert = 0)
NoListen(r) == [r EXCEPT !.cfg.listen = 0, !.listen = 0]

InstallMakesKey ==
    /\ run.pc = "key" /\ NeedsPair
    /\ \/ /\ pair' = [pair EXCEPT !.key = @ + 1]
          /\ run' = [run EXCEPT !.pc = "cert"]
       \/ /\ run' = [NoListen(run) EXCEPT !.pc = "open"]
          /\ UNCHANGED pair
    /\ UNCHANGED <<rules, stuck, cfg, managed, secrets, service, edit, whole, budget>>

InstallHasPair ==
    /\ run.pc = "key" /\ ~NeedsPair
    /\ run' = [run EXCEPT !.pc = "open"]
    /\ UNCHANGED <<rules, stuck, cfg, managed, secrets, pair, service, edit, whole, budget>>

InstallMakesCert ==
    /\ run.pc = "cert"
    /\ \/ /\ pair' = [pair EXCEPT !.cert = pair.key]
          /\ run' = [run EXCEPT !.pc = "open"]
       \/ /\ run' = [NoListen(run) EXCEPT !.pc = "open"]
          /\ UNCHANGED pair
    /\ UNCHANGED <<rules, stuck, cfg, managed, secrets, service, edit, whole, budget>>

(* Mutant: remote mode goes on although the firewall does not work. *)
InstallOpensAnyway ==
    /\ run.pc = "open" /\ run.listen # 0
    /\ \E f \in FirewallCalls(run.managed.fw, run.managed.allow, run.listen) :
          /\ SetWall(f.wall)
          /\ run' = [run EXCEPT !.pc = "write", !.managed.fw = f.added]
    /\ UNCHANGED <<cfg, managed, secrets, pair, service, edit, whole, budget>>

(* The rule goes first.  When the firewall does not work, remote mode asked *)
(* for with --allow-from stays off and the rules just added go; a listen    *)
(* the operator set is left alone.                                          *)
InstallOpens ==
    /\ run.pc = "open" /\ run.listen # 0
    /\ \E f \in FirewallCalls(run.managed.fw, run.managed.allow, run.listen) :
          IF f.ok \/ run.managed.allow = {}
          THEN /\ SetWall(f.wall)
               /\ run' = [run EXCEPT !.pc = "write", !.managed.fw = f.added]
          ELSE /\ \E kept \in SUBSET f.added : SetWall(RemoveFirewall(f.wall, f.added, kept))
               /\ run' = [NoListen(run) EXCEPT !.pc = "write", !.managed.fw = {}]
    /\ UNCHANGED <<cfg, managed, secrets, pair, service, edit, whole, budget>>

InstallOpensNothing ==
    /\ run.pc = "open" /\ run.listen = 0
    /\ run' = [run EXCEPT !.pc = "write"]
    /\ UNCHANGED <<rules, stuck, cfg, managed, secrets, pair, service, edit, whole, budget>>

(* Step 4.  The new configuration is validated, the secrets are written one *)
(* file at a time, and those no entry uses are removed.                     *)
InstallWritesSecret ==
    /\ run.pc = "write" /\ Valid(run.cfg)
    /\ IF run.write # {}
       THEN LET s == Pick(run.write)
            IN  /\ WriteFile(s)
                /\ run' = [run EXCEPT !.write = @ \ {s}]
       ELSE run' = [run EXCEPT !.pc = "drop"] /\ UNCHANGED secrets
    /\ UNCHANGED <<rules, stuck, cfg, managed, pair, service, edit, whole, budget>>

InstallDropsSecret ==
    /\ run.pc = "drop"
    /\ LET stale == StaleSecrets(run.m, run.managed) \cap secrets
       IN  IF stale # {}
           THEN DropFile(Pick(stale)) /\ UNCHANGED run
           ELSE run' = [run EXCEPT !.pc = "config"] /\ UNCHANGED secrets
    /\ UNCHANGED <<rules, stuck, cfg, managed, pair, service, edit, whole, budget>>

(* fbmcp.yaml is replaced in one rename. *)
InstallWritesConfig ==
    /\ run.pc = "config"
    /\ AtomicWrite(run.cfg)
    /\ run' = [run EXCEPT !.pc = "service"]
    /\ UNCHANGED <<rules, stuck, managed, secrets, pair, service, edit, whole, budget>>

(* Step 5: the service is made or updated and started; a start that fails   *)
(* is a warning.                                                            *)
InstallStarts ==
    /\ run.pc = "service"
    /\ StartService
    /\ run' = [run EXCEPT !.pc = IF run.listen = 0 THEN "record" ELSE "doctor"]
    /\ UNCHANGED <<rules, stuck, cfg, managed, secrets, pair, edit, whole, budget>>

(* doctor --remote: the file says remote mode, the pair loads, every key is *)
(* stored and the listener answers.  It may also find another fault.        *)
CheckRemote(c)     == c.listen # 0 /\ c.tls /\ c.idents # {}
CheckTLS           == pair.key # 0 /\ pair.key = pair.cert
CheckIdentities(c) == \A n \in c.idents : KeyEnv(n) \in secrets
CheckListener      == service = "running"

DoctorOk == Valid(cfg) /\ CheckRemote(cfg) /\ CheckTLS /\ CheckIdentities(cfg) /\ CheckListener

InstallIsSound ==
    /\ run.pc = "doctor" /\ DoctorOk
    /\ run' = [run EXCEPT !.pc = "record"]
    /\ UNCHANGED <<rules, stuck, cfg, managed, secrets, pair, service, edit, whole, budget>>

(* A FAIL: the configuration without listen is written, then the rules go.  *)
(* The error of that write is dropped.                                      *)
InstallTurnsOff ==
    /\ run.pc = "doctor"
    /\ AtomicWrite([run.cfg EXCEPT !.listen = 0]) \/ UNCHANGED cfg
    /\ run' = [NoListen(run) EXCEPT !.pc = "undo"]
    /\ UNCHANGED <<rules, stuck, managed, secrets, pair, service, edit, whole, budget>>

(* Mutant: the rules are forgotten and not removed. *)
InstallUndoesList ==
    /\ run.pc = "undo"
    /\ run' = [run EXCEPT !.pc = "record", !.managed.fw = {}]
    /\ UNCHANGED <<rules, stuck, cfg, managed, secrets, pair, service, edit, whole, budget>>

InstallUndoes ==
    /\ run.pc = "undo"
    /\ \E kept \in SUBSET run.managed.fw : SetWall(RemoveFirewall(Wall, run.managed.fw, kept))
    /\ run' = [run EXCEPT !.pc = "record", !.managed.fw = {}]
    /\ UNCHANGED <<cfg, managed, secrets, pair, service, edit, whole, budget>>

(* Step 6: the managed list is written last. *)
InstallRecords ==
    /\ run.pc = "record"
    /\ WriteManaged(run.managed)
    /\ run' = [pc |-> "done", cfg |-> run.cfg, found |-> run.found]
    /\ UNCHANGED <<rules, stuck, cfg, secrets, pair, service, edit, whole, budget>>

(* The command ends part-way: it is killed, the new configuration is        *)
(* refused, or a folder, a file or the service cannot be written.           *)
InstallEnds ==
    /\ run.pc \notin {"idle", "done"}
    /\ run' = NoRun /\ whole' = FALSE
    /\ UNCHANGED <<rules, stuck, cfg, managed, secrets, pair, service, edit, budget>>

Install ==
    \/ \E found \in FoundOnServers, o \in Options, ip \in BOOLEAN :
          InstallPlans(found, o.allow, o.port, ip)
    \/ InstallStopsService \/ InstallCloses \/ InstallForgets
    \/ InstallMakesKey \/ InstallHasPair \/ InstallMakesCert
    \/ InstallOpens \/ InstallOpensNothing
    \/ InstallWritesSecret \/ InstallDropsSecret
    \/ InstallWritesConfig \/ InstallStarts
    \/ InstallIsSound \/ InstallTurnsOff \/ InstallUndoes \/ InstallRecords \/ InstallEnds

-----------------------------------------------------------------------------
(***************************************************************************)
(* The other writers of fbmcp.yaml.                                         *)
(***************************************************************************)

(* apikey new: the key is stored first, then the identity is registered. *)
ApikeyStores(n) ==
    /\ edit.pc = "idle" /\ budget.edits > 0
    /\ Valid(cfg) /\ n \notin cfg.idents /\ KeyEnv(n) \notin secrets
    /\ WriteFile(KeyEnv(n))
    /\ edit' = [pc |-> "load", kind |-> "identity", entry |-> n]
    /\ budget' = [budget EXCEPT !.edits = @ - 1]
    /\ UNCHANGED <<rules, stuck, cfg, managed, pair, service, run, whole>>

(* apikey rotate: the key of a known identity is stored again. *)
ApikeyRotates(n) ==
    /\ edit.pc = "idle" /\ budget.edits > 0
    /\ Valid(cfg) /\ n \in cfg.idents
    /\ WriteFile(KeyEnv(n))
    /\ budget' = [budget EXCEPT !.edits = @ - 1]
    /\ UNCHANGED <<rules, stuck, cfg, managed, pair, service, run, edit, whole>>

(* tls selfsign: --force makes a new key, --renew keeps the one in place,   *)
(* with neither nothing may be there.  The certificate is written second.   *)
TlsSelfsigns(force, renew) ==
    /\ edit.pc = "idle" /\ budget.edits > 0 /\ ~(force /\ renew)
    /\ renew => pair.key # 0
    /\ ~force /\ ~renew => pair.key = 0 /\ pair.cert = 0
    /\ pair' = IF renew THEN pair ELSE [pair EXCEPT !.key = @ + 1]
    /\ edit' = [pc |-> "cert", key |-> pair'.key]
    /\ budget' = [budget EXCEPT !.edits = @ - 1]
    /\ UNCHANGED <<rules, stuck, cfg, managed, secrets, service, run, whole>>

TlsWritesCert ==
    /\ edit.pc = "cert"
    /\ pair' = [pair EXCEPT !.cert = edit.key]
    /\ edit' = NoEdit
    /\ UNCHANGED <<rules, stuck, cfg, managed, secrets, service, run, whole, budget>>

(* A tool call that will append a database or an agent. *)
ToolRegisters(kind, entry) ==
    /\ edit.pc = "idle" /\ budget.edits > 0 /\ service = "running"
    /\ edit' = [pc |-> "load", kind |-> kind, entry |-> entry]
    /\ budget' = [budget EXCEPT !.edits = @ - 1]
    /\ UNCHANGED <<rules, stuck, cfg, managed, secrets, pair, service, run, whole>>

(* MaterializeDatabase: the entry takes the users of its instance. *)
MaterializeDatabase(c, d) ==
    LET in == CHOOSE e \in c.inst : e.id = d.inst
    IN  [id |-> d.id, inst |-> d.inst, path |-> d.path, sec |-> in.def]

(* What each append makes of the loaded file, {} when it is refused. *)
RegisterIdentity(c, n) == {[c EXCEPT !.idents = @ \cup {n}] : x \in {n} \ c.idents}

RegisterAgent(c, a) ==
    IF \E b \in c.agents : b.id = a.id \/ b.url = a.url THEN {}
    ELSE {[c EXCEPT !.agents = @ \cup {a}]}

RegisterDatabase(c, d) ==
    IF \/ \A e \in c.inst : e.id # d.inst \/ e.def = NoSecret
       \/ \E b \in c.dbs : b.id = d.id \/ b.path = d.path THEN {}
    ELSE {[c EXCEPT !.dbs = @ \cup {MaterializeDatabase(c, d)}]}

Appended(c) == CASE edit.kind = "identity" -> RegisterIdentity(c, edit.entry)
                 [] edit.kind = "agent"    -> RegisterAgent(c, edit.entry)
                 [] edit.kind = "database" -> RegisterDatabase(c, edit.entry)

(* The file is loaded and checked, and then written back whole. *)
EditLoads ==
    /\ edit.pc = "load"
    /\ LET new == IF Valid(cfg) THEN Appended(cfg) ELSE {}
       IN  edit' = IF new = {} THEN NoEdit ELSE [pc |-> "write", new |-> Pick(new)]
    /\ UNCHANGED <<rules, stuck, cfg, managed, secrets, pair, service, run, whole, budget>>

EditWrites ==
    /\ edit.pc = "write"
    /\ AtomicWrite(edit.new)
    /\ edit' = NoEdit
    /\ UNCHANGED <<rules, stuck, managed, secrets, pair, service, run, whole, budget>>

Edit ==
    \/ \E n \in Names : ApikeyStores(n)
    \/ \E n \in cfg.idents : ApikeyRotates(n)
    \/ \E force, renew \in BOOLEAN : TlsSelfsigns(force, renew)
    \/ TlsWritesCert
    \/ \E d \in NewDatabases : ToolRegisters("database", d)
    \/ \E a \in NewAgents : ToolRegisters("agent", a)
    \/ EditLoads \/ EditWrites

SetupNext == Install \/ Edit

SetupSpec == SetupInit /\ [][SetupNext]_setupVars

-----------------------------------------------------------------------------
(* Remote mode in fbmcp.yaml is one the kernel can serve: at least one      *)
(* identity, the key of every identity stored, and the key and certificate  *)
(* files in place.  Neither apikey new, a registration that writes back an  *)
(* older file, nor a run that ends part-way may leave a listen without them *)
(* (internal/hqbirdsetup/remote.go ApplyRemote, internal/ctl/apikey.go      *)
(* "the key is stored first").                                              *)
ListenIsServable ==
    cfg.listen # 0 =>
      /\ cfg.idents # {}
      /\ \A n \in cfg.idents : KeyEnv(n) \in secrets
      /\ cfg.tls /\ pair.key # 0 /\ pair.cert # 0

(* The rule goes first (internal/ctl/hqbird_install.go): when the command   *)
(* puts a new listen port into fbmcp.yaml for remote mode asked for with    *)
(* --allow-from, the rules of that port for every allowed address are in    *)
(* the firewall, whatever port, addresses or firewall came before.          *)
RuleBeforeListen ==
    [][ (run.pc = "config" /\ cfg' = run.cfg /\ cfg'.listen # cfg.listen /\ cfg'.listen # 0)
          => {<<a, cfg'.listen>> : a \in run.managed.allow} \subseteq rules ]_setupVars

(* While every run so far went to its end, the firewall holds between runs  *)
(* exactly the rules the managed list records, so that the next run, or the *)
(* one that finds no line, can take them away, and the ones the firewall    *)
(* tool refused to remove (internal/ctl/hqbird_install.go): no path through *)
(* a failing firewall, doctor or a retired server forgets another rule.     *)
RulesAreRecorded ==
    (whole /\ run.pc \in {"idle", "done"}) => rules = managed.fw \cup stuck

(* What the code does not give: "the rules added are recorded in m so they  *)
(* can be removed later" (internal/ctl/hqbird_host_linux.go).  The error of *)
(* a removal is dropped and the record cleared, so that a rule may outlive  *)
(* its record although every run went to its end.                           *)
RulesStayRecorded ==
    (whole /\ run.pc \in {"idle", "done"}) => rules \subseteq managed.fw

(* The command is idempotent (docs/hqbird.md): right after a run, a second  *)
(* one with the same facts would change no entry, own the same entries and  *)
(* drop no secret.                                                          *)
SecondRunIsQuiet ==
    (run.pc = "done" /\ cfg = run.cfg) =>
      LET again == Reconcile(cfg, managed, run.found, secrets)
      IN  /\ again.cfg = cfg
          /\ again.managed = managed

(* Entries not in the managed list are the operator's: they are in the      *)
(* plan as they were read until the file is written ...                     *)
EntriesKept ==
    run.pc \in {"key", "cert", "open", "write", "drop", "config"} =>
      /\ {e \in run.old.inst : e.id \notin run.m.inst} \subseteq run.cfg.inst
      /\ {d \in run.old.dbs : d.id \notin run.m.dbs} \subseteq run.cfg.dbs
      /\ {a \in run.old.agents : a.id \notin run.m.agents} \subseteq run.cfg.agents

(* ... and the plan is a configuration the kernel takes                     *)
(* (internal/hqbirdsetup/hqbirdsetup.go Reconcile).                         *)
OperatorKept ==
    /\ EntriesKept
    /\ run.pc \in {"key", "cert", "open", "write", "drop", "config"} => Valid(run.cfg)

(* Secrets the command removes are ones no entry of the new configuration   *)
(* names ("Secrets this command wrote and still needs",                     *)
(* internal/hqbirdsetup/hqbirdsetup.go Reconcile).                          *)
DroppedIsUnused ==
    run.pc = "drop" =>
      StaleSecrets(run.m, run.managed)
        \cap ({e.def : e \in run.cfg.inst} \cup {d.sec : d \in run.cfg.dbs}) = {}

-----------------------------------------------------------------------------
(***************************************************************************)
(* The inductive invariant behind RulesAreRecorded, RuleBeforeListen,       *)
(* ListenIsServable and EntriesKept (BridgeProofs): what the command holds  *)
(* in its hands between two of its steps, and what another writer holds.    *)
(***************************************************************************)

Retiring == {"stop", "close", "forget"}
Serving  == {"key", "cert", "open", "write", "drop", "config", "service", "doctor", "undo", "record"}
Active   == run.pc \in Retiring \cup Serving

(* The secrets the list records are ones the command made, not API keys. *)
SoundList(m) ==
    /\ DOMAIN m = {"inst", "agents", "dbs", "secrets", "allow", "port", "fw"}
    /\ \A s \in m.secrets : ~IsKey(s)

KeysStored(c) == \A n \in c.idents : KeyEnv(n) \in secrets
Paired(c)     == c.listen # 0 => pair.key # 0 /\ pair.cert # 0

SetupShape ==
    /\ pair \in [key : Nat, cert : Nat] /\ whole \in BOOLEAN
    /\ run.pc \in {"idle", "done"} \cup Retiring \cup Serving
    /\ Active => DOMAIN run = {"pc", "old", "m", "found", "cfg", "listen", "managed", "write"}
    /\ edit.pc \in {"idle", "load", "write", "cert"}

(* What is on disk can be served and can be read again. *)
DiskSound == Sound(cfg) /\ KeysStored(cfg) /\ Paired(cfg) /\ SoundList(managed)

(* What the command will write: its key pair is there from "open" on. *)
RunSound ==
    /\ Active => /\ SoundList(run.m) /\ SoundList(run.managed)
                 /\ Sound(run.cfg) /\ run.cfg.exists /\ KeysStored(run.cfg)
                 /\ run.cfg.listen = run.listen
                 /\ run.managed.allow = {} => Paired(run.cfg)
    /\ run.pc \in Serving \ {"key", "cert"} => Paired(run.cfg)
    /\ run.pc = "cert" => pair.key # 0

(* What another writer will write. *)
EditSound ==
    /\ edit.pc = "load" =>
         /\ edit.kind \in {"identity", "agent", "database"}
         /\ edit.kind = "identity" => KeyEnv(edit.entry) \in secrets
         /\ edit.kind = "agent" => ~IsKey(edit.entry.tok)
    /\ edit.pc = "write" =>
         Sound(edit.new) /\ edit.new.exists /\ KeysStored(edit.new) /\ Paired(edit.new)
    /\ edit.pc = "cert" => edit.key \in Nat \ {0}

(* Until a run ends part-way the rules are the ones some list records and   *)
(* the stuck ones.                                                          *)
RulesFollow ==
    whole =>
      /\ run.pc \in {"idle", "done", "stop", "close"} => rules = managed.fw \cup stuck
      /\ run.pc \in {"stop", "close"} => run.m.fw = managed.fw
      /\ run.pc = "forget" => rules = stuck
      /\ run.pc \in Serving => rules = run.managed.fw \cup stuck

(* A list is written only beside an fbmcp.yaml. *)
FirstFile ==
    /\ ~cfg.exists => managed.fw = {}
    /\ run.pc \in Retiring /\ ~run.old.exists => managed.fw = {}
    /\ run.pc \in {"service", "doctor", "undo", "record"} => cfg.exists

(* Behind the firewall step the rules of the port are in place. *)
RulesWait ==
    run.pc \in {"write", "drop", "config"} /\ run.listen # 0
      => {<<a, run.listen>> : a \in run.managed.allow} \subseteq rules

SetupInv ==
    /\ SetupShape /\ DiskSound /\ RunSound /\ EditSound
    /\ RulesFollow /\ FirstFile /\ RulesWait /\ EntriesKept
=============================================================================
