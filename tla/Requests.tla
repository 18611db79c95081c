------------------------------- MODULE Requests -------------------------------
(***************************************************************************)
(* fb_write, fb_query, fb_query_check and the tools that build their SQL   *)
(* themselves: from the text a client writes to what reaches the database. *)
(* A client writes statements one after the other and sends the text.  The *)
(* server sees the text only; `written' keeps what the client meant, and   *)
(* the properties compare the two.  Maintenance window, backup facts and   *)
(* engine version are read when the request is evaluated: a request is     *)
(* made by one of Callers.                                                 *)
(***************************************************************************)
EXTENDS Statements, Tiers

CONSTANTS
  Templates,  \* statements a client writes: toks, what, floor, since, drops, strips
  Followers,  \* those of them it writes after another one
  Spoilers,   \* <<token, TRUE when it also fits in front>>
  OnTexts,    \* arguments "on" of the grant tools: [toks, takes]
  Callers,    \* records of id (name, dbs, maxTier) and env (window, facts, engine)
  Db,         \* the database
  MaxWritten  \* statements in one text

ASSUME MaxWrittenAssumption == MaxWritten \in Nat \ {0}

VARIABLES
  script,   \* the text, a sequence of tokens
  written,  \* the statements the client meant
  spoiled,  \* TRUE once the text holds something no statement may hold
  parsed,   \* what Parse makes of the text (a function of script)
  reply,    \* the last answer
  lost,     \* accounts the server works with that were dropped
  stripped  \* those of them the last request revoked a privilege from

access == <<lost, stripped>>
vars == <<script, written, spoiled, parsed, reply, access>>

NoReply == [tool |-> "", outcome |-> "none", tier |-> 0, extra |-> FALSE]
Answer(tool, outcome, tier, c) ==
  [tool |-> tool, outcome |-> outcome, tier |-> tier, extra |-> FALSE, id |-> c.id, env |-> c.env]

Own == {"SYSDBA", "ADMIN", "READER"}

Init ==
  /\ script = <<>> /\ written = <<>> /\ spoiled = FALSE /\ parsed = <<>>
  /\ reply = NoReply /\ lost = {} /\ stripped = {}

(* The client. *)

Write(t) ==
  /\ reply = NoReply /\ ~spoiled
  /\ Len(written) < MaxWritten
  /\ (written # <<>> \/ lost # {}) => t \in Followers
  /\ script' = script \o t.toks \o <<";">>
  /\ written' = Append(written, t)
  /\ UNCHANGED <<spoiled, reply, access>>

Spoil(x, front) ==
  /\ reply = NoReply /\ ~spoiled /\ written # <<>>
  /\ front => x[2]
  /\ script' = IF front THEN <<x[1]>> \o script ELSE Append(script, x[1])
  /\ spoiled' = TRUE
  /\ UNCHANGED <<written, reply, access>>

NextRequest ==
  /\ reply # NoReply
  /\ script' = <<>> /\ written' = <<>> /\ spoiled' = FALSE
  /\ reply' = NoReply /\ stripped' = {}
  /\ UNCHANGED lost

\* What the server makes of a text goes with the text.
Client ==
  /\ \/ \E t \in Templates : Write(t)
     \/ \E x \in Spoilers, front \in BOOLEAN : Spoil(x, front)
     \/ NextRequest
  /\ parsed' = Parse(script')

Quiet == UNCHANGED <<script, written, spoiled, parsed, access>>

(* fb_write. *)

WritePreconditions(tier) ==
  IF tier >= 2 THEN {[name |-> "verified_backup_exists", op |-> "true"],
                     [name |-> "backup_freshness", op |-> "lt"]}
  ELSE {}

\* requestWrite: the outcome of a text that is not only previewed.
WriteOutcome(p, c) ==
  LET meta == [tier |-> p.tier, minFB |-> p.minFB, preconditions |-> WritePreconditions(p.tier)]
      d == EvaluateMeta(c.id, Db, meta, c.env)
  IN  IF ~p.ok \/ d.outcome = "deny" \/ d.blockers # {} THEN "denied" ELSE "pending"

WriteReply(p, c, preview) ==
  Answer("fb_write", IF preview /\ p.ok THEN "preview" ELSE WriteOutcome(p, c), p.tier, c)

RequestWrite(c, preview) ==
  /\ reply = NoReply /\ written # <<>>
  /\ reply' = WriteReply(Prepare(parsed), c, preview)
  /\ Quiet

Dropped == UNION {t.drops : t \in Range(written)}
Revoked == UNION {t.strips : t \in Range(written)}

\* The confirmed action parses the stored text again; it needs the admin
\* account, and a REFRESH that is not concurrent closes the pools first.  No
\* statement of the script is compared with the accounts of the server.
Execute ==
  /\ reply.outcome = "pending"
  /\ LET p == Prepare(parsed)
         ok == p.ok /\ lost \cap {"SYSDBA", "ADMIN"} = {}
     IN  /\ reply' = [reply EXCEPT !.outcome = IF ok THEN "ran" ELSE "failed"]
         /\ lost' = IF ok THEN lost \cup (Dropped \cap Own) ELSE lost
         /\ stripped' = IF ok THEN Revoked \cap Own ELSE {}
  /\ UNCHANGED <<script, written, spoiled, parsed>>

(* fb_query and fb_query_check. *)

ReadProc(st) ==
  /\ Len(st) = 1
  /\ st[1].verb = "EXECUTE PROCEDURE" /\ st[1].issues = {} /\ ~st[1].lock

ClassifyRead(st) ==
  IF IsReadOnly(st) THEN "select" ELSE IF ReadProc(st) THEN "procedure" ELSE "none"

\* One read-only transaction, rolled back at the end whatever happened: the
\* statement has no effect, and it fails when the reader cannot connect or the
\* engine refuses it there, as it does a procedure that writes.
RunReadQuery(refused) == ~refused /\ "READER" \notin lost

FbQuery(c, refused) ==
  /\ reply = NoReply /\ written # <<>>
  /\ LET kind == ClassifyRead(parsed)
         failed == ~RunReadQuery(refused)
     IN  reply' = CASE kind = "none" -> Answer("fb_query", "denied", 0, c)
                    [] kind # "none" /\ ~failed -> Answer("fb_query", "rows", 0, c)
                    [] kind = "select" /\ failed -> Answer("fb_query", "failed", 0, c)
                    [] kind = "procedure" /\ failed ->
                         WriteReply(Prepare(parsed), c, FALSE)
  /\ Quiet

FbQueryCheck(c) ==
  /\ reply = NoReply /\ written # <<>>
  /\ LET d == EvaluateMeta(c.id, Db, [tier |-> 0, minFB |-> 0, preconditions |-> {}], c.env)
         ok == ClassifyRead(parsed) # "none" /\ d.outcome # "deny"
     IN  reply' = Answer("fb_query_check",
                         IF ~ok THEN "denied" ELSE IF "READER" \in lost THEN "failed" ELSE "checked",
                         0, c)
  /\ Quiet

(* The tools that build the statement: Tier 1, a name checked and quoted. *)

\* registerComment: a table or, by name, one of its columns.
CommentSQL(on) ==
  <<"COMMENT", "ON">>
    \o (IF on = <<"COLUMN">> THEN <<"COLUMN", "qid", ".", "qid">> ELSE <<"TABLE", "qid">>)
    \o <<"IS", "str">>

\* grantSQL: the argument "on" goes into the text as it came, in upper case;
\* object and grantee are names and are quoted, and the privilege is one of
\* seven words, which the tier does not depend on.
GrantSQL(verb, on) ==
  <<verb, "SELECT", "ON">> \o on \o <<"qid", IF verb = "GRANT" THEN "TO" ELSE "FROM", "qid">>

\* The text the structured tools build.
BuiltSQL(tool, on) ==
  CASE tool = "fb_index_rebuild" -> <<"ALTER", "INDEX", "qid", "INACTIVE", ";",
                                      "ALTER", "INDEX", "qid", "ACTIVE">>
    [] tool = "fb_index_statistics" -> <<"SET", "STATISTICS", "INDEX", "qid">>
    [] tool = "fb_index_drop" -> <<"DROP", "INDEX", "qid">>
    [] tool = "fb_user_create" -> <<"CREATE", "USER", "qid", "PASSWORD", "str">>
    [] tool = "fb_user_drop" -> <<"DROP", "USER", "qid">>
    [] tool = "fb_role_create" -> <<"CREATE", "ROLE", "qid">>
    [] tool = "fb_grant" -> GrantSQL("GRANT", on)
    [] tool = "fb_revoke" -> GrantSQL("REVOKE", on)
    [] tool = "fb_comment_set" -> CommentSQL(on)

PlainTools == {"fb_index_rebuild", "fb_index_statistics", "fb_index_drop", "fb_user_create",
               "fb_user_drop", "fb_role_create"}

\* fb_comment_set takes one of two words; the grant tools take any text, so
\* that a text may hold statements of its own.  `takes' are the accounts of
\* the server such statements take.
NoOn == [toks |-> <<>>, takes |-> {}]
CommentOn == {[NoOn EXCEPT !.toks = <<w>>] : w \in {"TABLE", "COLUMN"}}
Extra(on) == ";" \in Range(on.toks)

Built == (PlainTools \X {NoOn}) \cup ({"fb_comment_set"} \X CommentOn)
         \cup ({"fb_grant", "fb_revoke"} \X OnTexts)

BuiltPrepared == [b \in Built |-> Prepare(Parse(BuiltSQL(b[1], b[2].toks)))]

\* Mutant: only a DROP USER is compared with the accounts of the server.
LockoutDropOnly(tool, user) == tool = "fb_user_drop" /\ user \in Own

\* lockout.DropUser and lockout.Revoke.
Lockout(tool, user) == tool \in {"fb_user_drop", "fb_revoke"} /\ user \in Own

\* requestGated: the policy decides, and a preview ends there.
RequestGated(c, preview) ==
  LET d == EvaluateMeta(c.id, Db, [tier |-> 1, minFB |-> 0, preconditions |-> {}], c.env)
  IN  IF d.outcome = "deny" THEN "denied" ELSE IF preview THEN "preview" ELSE "pending"

\* What the builder or the executor refuses once the request is confirmed.
BuiltRefused(tool, on, user, constraint) ==
  \/ Lockout(tool, user)
  \/ tool = "fb_index_drop" /\ (constraint \/ "READER" \in lost)
  \/ ~BuiltPrepared[<<tool, on>>].ok
  \/ lost \cap {"SYSDBA", "ADMIN"} # {}

BuiltEnds(tool, on, user, c, o) ==
  LET hit(t) == IF o = "ran" /\ tool = t THEN {user} \cap Own ELSE {}
  IN  /\ reply' = [Answer(tool, o, 1, c) EXCEPT !.extra = Extra(on)]
      /\ lost' = lost \cup hit("fb_user_drop") \cup (IF o = "ran" THEN on.takes ELSE {})
      /\ stripped' = hit("fb_revoke")

\* Requested, confirmed and run.
RunBuilt(tool, on, user, constraint, c, preview) ==
  /\ reply = NoReply /\ written = <<>>
  /\ LET r == RequestGated(c, preview)
     IN  BuiltEnds(tool, on, user, c,
                   IF r # "pending" THEN r
                   ELSE IF BuiltRefused(tool, on, user, constraint) THEN "failed" ELSE "ran")
  /\ UNCHANGED <<script, written, spoiled, parsed>>

Next ==
  \/ Client
  \/ \E c \in Callers, preview \in BOOLEAN : RequestWrite(c, preview)
  \/ Execute
  \/ \E c \in Callers, refused \in BOOLEAN : FbQuery(c, refused)
  \/ \E c \in Callers : FbQueryCheck(c)
  \/ \E b \in Built, user \in Own \cup {"OTHER"}, constraint \in BOOLEAN,
        c \in Callers, preview \in BOOLEAN : RunBuilt(b[1], b[2], user, constraint, c, preview)

Spec == Init /\ [][Next]_vars

-----------------------------------------------------------------------------
(* Properties. *)

\* What Parse makes of each statement standing alone.
Alone == [t \in Templates |-> Parse(t.toks)]

\* A statement means the same in a script as on its own: the splitter finds
\* as many statements as were written, and a body, a CASE or a declaration
\* section in one of them changes nothing in its neighbours.
SplitAgrees ==
  ~spoiled => /\ Len(parsed) = Len(written)
              /\ \A n \in DOMAIN written : <<parsed[n]>> = Alone[written[n]]

\* fb_query returns rows, and never asks anybody, only for one statement that
\* reads or one call, which the read-only transaction holds back.
ReadsAreReads ==
  reply.tool = "fb_query" /\ reply.outcome = "rows"
    => ~spoiled /\ Len(written) = 1 /\ written[1].what \in {"read", "call"}

\* The one shape the search for dynamic SQL misses: EXECUTE and STATEMENT in
\* a block with anything but one blank between them.
SpacedDynamic(t) == \E k \in DOMAIN t.toks : Starts(t.toks, k, <<"EXECUTE", "wide", "STATEMENT">>)

\* A script reaches the database only if every literal, comment and word of it
\* ends and the drift gate knows the key of each statement, on an engine that
\* has them all, from Tier 2 on in an open window with a fresh verified
\* backup, and at a tier no lower than the escalations of the decision record
\* (item 2 and the addendum: DROP, a change of all rows or of a column's type,
\* calls, blocks not provably read-only) give to each statement in it, a
\* SpacedDynamic one excepted.  The record's sentence on RestorePoint content
\* is IrreversibleIsTierTwo below.
EffectPaidFor ==
  reply.tool = "fb_write" /\ reply.outcome \in {"pending", "ran"}
    => /\ ~spoiled
       /\ \A n \in DOMAIN parsed : OpKey(parsed[n]) \in KnownOpKeys
       /\ \A n \in DOMAIN written : /\ written[n].floor <= reply.tier \/ SpacedDynamic(written[n])
                                    /\ written[n].since <= reply.env.engine
       /\ reply.tier <= reply.id.maxTier
       /\ reply.tier >= 2 => /\ reply.env.window
                             /\ reply.env.facts["verified_backup_exists"] = "true"
                             /\ reply.env.facts["backup_freshness"] = "fresh"

\* The accounts the server itself works with, over any sequence of requests:
\* one is dropped, if at all, by a script that passed the Tier 2 conditions,
\* and loses a privilege, if at all, by a script; the Tier 1 tools do neither.
\* A request whose argument "on" brings statements of its own is excepted:
\* the lockout looks at the grantee only.
AccessIsKept ==
  [][~reply'.extra =>
       /\ lost' # lost => reply'.tool = "fb_write" /\ reply'.tier >= 2
       /\ stripped' # {} => reply'.tool = "fb_write"]_vars

-----------------------------------------------------------------------------
(* What the code does not give. *)

\* The sentence of the decision record on acceptance: "irreversible content
\* is at least Tier 2".  The preview says of such a statement that a verified
\* backup is required.
IrreversibleIsTierTwo ==
  reply.tool = "fb_write" /\ reply.outcome \in {"pending", "ran"}
    => \A n \in DOMAIN parsed :
         Compensation(parsed[n]) = "verified backup" => reply.tier >= 2

\* The addendum of the decision record: a block that holds dynamic SQL is
\* Tier 2.  False where the two words are not one blank apart: bodyOpaque
\* looks for them in the raw text.
DynamicIsTierTwo ==
  reply.tool = "fb_write" /\ reply.outcome \in {"pending", "ran"}
    => \A n \in DOMAIN written :
         "STATEMENT" \in Range(written[n].toks) => reply.tier >= 2

\* What fb_grant and fb_revoke send is one statement.  False where the
\* argument "on" is more than an object type.
GrantIsOneStatement ==
  reply.tool \in {"fb_grant", "fb_revoke"} /\ reply.outcome = "ran" => ~reply.extra

\* The sentence of package lockout: the server's accounts keep what they have.
\* False of a script, which is not compared with them.
ScriptKeepsAccess == [][lost' = lost /\ stripped' = {}]_vars
=============================================================================
