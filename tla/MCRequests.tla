------------------------------ MODULE MCRequests ------------------------------
(* The statements a client writes, one of every kind the classifier tells    *)
(* apart, with the tier floor that item 2 and the addendum of ADR-019 give   *)
(* it: 1 for a change that no escalation names.                              *)
EXTENDS Requests

\* floor 0: reads, fb_write refuses them; floor 9: nothing may run it.
T(toks, what, floor, since) ==
  [toks |-> toks, what |-> what, floor |-> floor, since |-> since, drops |-> {}, strips |-> {}]

Tn(set, what, floor, since) == {T(toks, what, floor, since) : toks \in set}

Reads == Tn({
  <<"SELECT", "num", "FROM", "T">>,
  <<"SELECT", "CASE", "A", "WHEN", "num", "THEN", "str", "END", "FROM", "T", "WHERE", "A", "=", "str">>,
  <<"WITH", "C", "AS", "(", "SELECT", "A", "FROM", "T", ")", "SELECT", "A", "FROM", "C">>},
  "read", 0, 0)

Locks == Tn({<<"SELECT", "A", "FROM", "T", "FOR", "UPDATE", "WITH", "LOCK">>}, "lock", 0, 0)

Calls == Tn({<<"EXECUTE", "PROCEDURE", "P">>, <<"EXECUTE", "PROCEDURE", "K", ".", "P", "(", "num", ")">>},
            "call", 2, 0)

Changes == Tn({
  <<"INSERT", "INTO", "T", "VALUES", "(", "num", ")">>,
  <<"INSERT", "INTO", "T", "SELECT", "A", "FROM", "U">>,
  <<"UPDATE", "T", "SET", "A", "=", "num", "WHERE", "B", "=", "str">>,
  <<"UPDATE", "T", "SET", "A", "=", "CASE", "B", "WHEN", "num", "THEN", "num", "END", "WHERE", "B", "=", "num">>,
  <<"UPDATE", "OR", "INSERT", "INTO", "T", "VALUES", "(", "num", ")">>,
  <<"DELETE", "FROM", "T", "WHERE", "A", "=", "num">>,
  <<"MERGE", "INTO", "T", "USING", "U", "ON", "(", "A", "=", "B", ")">>}, "write", 1, 0)
  \cup Tn({
  <<"UPDATE", "T", "SET", "A", "=", "(", "SELECT", "B", "FROM", "U", "WHERE", "C", "=", "num", ")">>,
  <<"DELETE", "FROM", "T">>}, "write", 2, 0)

Blocks == Tn({
  <<"EXECUTE", "BLOCK", "AS", "BEGIN", "SELECT", "A", "FROM", "T", "INTO", "V", ";", "END">>,
  <<"EXECUTE", "BLOCK", "AS", "DECLARE", "V", "INTEGER", ";", "BEGIN", "IF", "(", "CASE", "A", "WHEN",
    "num", "THEN", "num", "END", "=", "num", ")", "THEN", "SUSPEND", ";", "END">>}, "write", 1, 0)
  \cup Tn({
  <<"EXECUTE", "BLOCK", "AS", "BEGIN", "DELETE", "FROM", "T", "WHERE", "A", "=", "num", ";", "END">>,
  <<"EXECUTE", "BLOCK", "AS", "BEGIN", "V", "=", "CASE", "A", "WHEN", "num", "THEN", "num", "END", ";",
    "UPDATE", "T", "SET", "A", "=", "V", ";", "END">>,
  <<"EXECUTE", "BLOCK", "AS", "BEGIN", "EXECUTE", "PROCEDURE", "P", ";", "END">>,
  <<"EXECUTE", "BLOCK", "AS", "BEGIN", "EXECUTE", "STATEMENT", "str", ";", "END">>,
  <<"EXECUTE", "BLOCK", "AS", "BEGIN", "EXECUTE", "wide", "STATEMENT", "str", ";", "END">>}, "write", 2, 0)

Objects == {"TABLE", "VIEW", "PROCEDURE", "FUNCTION", "TRIGGER", "SEQUENCE", "DOMAIN", "EXCEPTION",
            "ROLE", "USER", "PACKAGE", "MAPPING"}

Creates == Tn({<<"CREATE", "TABLE", "T", "(", "A", "INTEGER", ")">>,
               <<"CREATE", "VIEW", "W", "AS", "SELECT", "A", "FROM", "T">>,
               <<"CREATE", "SEQUENCE", "G">>, <<"CREATE", "GENERATOR", "G">>,
               <<"CREATE", "ROLE", "R">>, <<"CREATE", "USER", "N", "PASSWORD", "str">>,
               <<"CREATE", "INDEX", "I", "ON", "T", "(", "A", ")">>,
               <<"CREATE", "UNIQUE", "DESC", "INDEX", "I", "ON", "T", "(", "A", ",", "B", ")">>,
               <<"CREATE", "INDEX", "I", "ON", "T", "COMPUTED", "BY", "(", "A", ")">>,
               <<"CREATE", "GLOBAL", "TEMPORARY", "TABLE", "T", "(", "A", "INTEGER", ")">>,
               <<"RECREATE", "TABLE", "T", "(", "A", "INTEGER", ")">>,
               <<"CREATE", "PROCEDURE", "P", "AS", "BEGIN", "SUSPEND", ";", "END">>,
               <<"CREATE", "OR", "ALTER", "PROCEDURE", "P", "AS", "DECLARE", "V", "INTEGER", ";",
                 "BEGIN", "BEGIN", "DELETE", "FROM", "T", ";", "END", "END">>,
               <<"CREATE", "TRIGGER", "X", "FOR", "T", "BEFORE", "INSERT", "AS", "BEGIN", "A", "=",
                 "CASE", "B", "WHEN", "num", "THEN", "num", "END", ";", "END">>}, "write", 1, 0)
  \cup Tn({<<"CREATE", "PACKAGE", "K", "AS", "BEGIN", "PROCEDURE", "P", ";", "END">>,
           <<"CREATE", "TABLE", "T", "(", "A", "BOOLEAN", ")">>}, "write", 1, 30)
  \cup Tn({<<"CREATE", "TABLE", "T", "(", "A", "INT128", ")">>}, "write", 1, 40)
  \cup Tn({<<"CREATE", "INDEX", "I", "ON", "T", "(", "A", ")", "WHERE", "A", "=", "num">>,
           <<"CREATE", "MATERIALIZED", "VIEW", "W", "AS", "SELECT", "A", "FROM", "T">>}, "write", 1, 50)

Alters == Tn({<<"ALTER", "TABLE", "T", "ADD", "B", "INTEGER">>,
              <<"ALTER", "TABLE", "T", "ADD", "CONSTRAINT", "Q", "PRIMARY", "KEY", "(", "A", ")">>,
              <<"ALTER", "TABLE", "T", "ADD", "FOREIGN", "KEY", "(", "A", ")", "REFERENCES", "U">>,
              <<"ALTER", "TABLE", "T", "DROP", "CONSTRAINT", "Q">>,
              <<"ALTER", "TABLE", "T", "ALTER", "A", "TO", "B">>,
              <<"ALTER", "TABLE", "T", "ALTER", "A", "SET", "NOT", "NULL">>,
              <<"ALTER", "INDEX", "I", "INACTIVE">>, <<"ALTER", "INDEX", "I", "ACTIVE">>,
              <<"ALTER", "SEQUENCE", "G", "RESTART", "WITH", "num">>,
              <<"ALTER", "VIEW", "W", "AS", "SELECT", "B", "FROM", "T">>,
              <<"ALTER", "DOMAIN", "D", "SET", "DEFAULT", "num">>,
              <<"ALTER", "USER", "N", "PASSWORD", "str">>, <<"ALTER", "ROLE", "R">>,
              <<"ALTER", "CURRENT", "USER", "PASSWORD", "str">>,
              <<"ALTER", "TRIGGER", "X", "INACTIVE">>,
              <<"ALTER", "PROCEDURE", "P", "AS", "BEGIN", "SUSPEND", ";", "END">>}, "write", 1, 0)
  \cup Tn({<<"ALTER", "TABLE", "T", "ALTER", "A", "TYPE", "BIGINT">>,
           <<"ALTER", "DATABASE", "BEGIN", "BACKUP">>}, "write", 2, 0)
  \cup Tn({<<"ALTER", "MATERIALIZED", "VIEW", "W", "TO", "NOT", "MATERIALIZED">>,
           <<"ALTER", "INDEX", "I", "ACTIVE", "CONCURRENTLY">>}, "write", 1, 50)

Drops == Tn({<<"DROP", o, "N">> : o \in (Objects \ {"USER", "PACKAGE"}) \cup {"INDEX", "SHADOW", "FILTER"}},
            "write", 2, 0)
  \cup Tn({<<"DROP", "PACKAGE", "BODY", "K">>}, "write", 2, 30)
  \cup Tn({<<"DROP", "DATABASE">>}, "write", 9, 0)
  \cup {[T(<<"DROP", "USER", u>>, "write", 2, 0) EXCEPT !.drops = {u}] : u \in {"ADMIN", "READER", "N"}}

Grants == Tn({<<"GRANT", "SELECT", "ON", "T", "TO", "N">>,
              <<"GRANT", "R", "TO", "N", "WITH", "ADMIN", "OPTION">>,
              <<"GRANT", "UPDATE", "(", "A", ")", "ON", "T", "TO", "N", "WITH", "GRANT", "OPTION">>,
              <<"REVOKE", "ALL", "ON", "PROCEDURE", "P", "FROM", "N">>,
              <<"REVOKE", "GRANT", "OPTION", "FOR", "SELECT", "ON", "T", "FROM", "N">>}, "write", 1, 0)
  \cup Tn({<<"GRANT", "CREATE", "TABLE", "TO", "N">>}, "write", 1, 0)
  \cup {[T(<<"REVOKE", "SELECT", "ON", "T", "FROM", u>>, "write", 1, 0) EXCEPT !.strips = {u}] :
          u \in {"ADMIN", "READER"}}
  \cup Tn({<<"GRANT", "USAGE", "ON", "SEQUENCE", "G", "TO", "N">>,
           <<"GRANT", "CREATE", "ON", "DATABASE", "TO", "N">>}, "write", 1, 30)

Others == Tn({<<"COMMENT", "ON", "TABLE", "T", "IS", "str">>,
              <<"COMMENT", "ON", "COLUMN", "T", ".", "A", "IS", "str">>,
              <<"SET", "STATISTICS", "INDEX", "I">>, <<"SET", "GENERATOR", "G", "TO", "num">>},
             "write", 1, 0)
  \cup Tn({<<"DECLARE", "EXTERNAL", "FUNCTION", "F">>, <<"DECLARE", "FILTER", "F">>}, "write", 1, 0)
  \cup Tn({<<"REFRESH", "MATERIALIZED", "VIEW", "W">>,
           <<"REFRESH", "MATERIALIZED", "VIEW", "W", "CONCURRENTLY">>}, "write", 1, 50)
  \cup Tn({<<"REFRESH", "MATERIALIZED", "VIEW", "W", "CASCADE">>}, "write", 2, 50)
  \cup Tn({<<"SET", "TRANSACTION">>}, "session", 1, 0)
  \cup Tn({<<"SET", "ROLE", "R">>}, "session", 0, 0)

\* Nothing may run these.
Refused == Tn({
  <<"WITH", "C", "AS", "(", "SELECT", "A", "FROM", "T", ")", "DELETE", "FROM", "T">>,
  <<"VACUUM", "T">>, <<"CREATE", "N">>, <<"ALTER", "N">>, <<"EXECUTE", "STATEMENT", "str">>,
  <<"INSERT", "INTO", "T", "VALUES", "(", "num", ",", "qid", ")">>,
  <<"UPDATE", "T", "SET", "A", "=", "qempty", "WHERE", "B", "=", "num">>,
  <<"SET", "NAMES", "UTF8">>}, "refused", 9, 0)

MCTemplates == Reads \cup Locks \cup Calls \cup Changes \cup Blocks \cup Creates \cup Alters
               \cup Drops \cup Grants \cup Others \cup Refused

\* A second statement: one of each kind, those with a body before all.
MCFollowers == Calls \cup Blocks \cup {t \in Changes : t.floor = 2} \cup {t \in Creates : "BEGIN" \in Range(t.toks)}
  \cup {t \in MCTemplates : t.toks \in {
         <<"SELECT", "num", "FROM", "T">>, <<"INSERT", "INTO", "T", "VALUES", "(", "num", ")">>,
         <<"DROP", "TABLE", "N">>, <<"DROP", "USER", "READER">>, <<"VACUUM", "T">>,
         <<"ALTER", "INDEX", "I", "ACTIVE">>, <<"DROP", "DATABASE">>}}

\* An object type, none, a word that is no type, and a text with a second grant.
MCOnTexts == {[NoOn EXCEPT !.toks = toks] : toks \in {
  <<>>, <<"TABLE">>, <<"PROCEDURE">>, <<"N">>,
  <<"TABLE", "T", "TO", "N", ";", "GRANT", "SELECT", "ON", "TABLE">>}}

MCSpoilers == {<<"open", FALSE>>, <<"openc", FALSE>>, <<"bad8", TRUE>>}

Local == [name |-> "local", dbs |-> {}, maxTier |-> 2]

Good == [window |-> TRUE, engine |-> 50,
         facts |-> [engine_version |-> "ok", verified_backup_exists |-> "true",
                    backup_freshness |-> "fresh"]]

\* One thing wrong at a time: the caller, or what the facts say.
MCCallers ==
  {[id |-> i, env |-> Good] : i \in {Local, [Local EXCEPT !.maxTier = 1], [Local EXCEPT !.dbs = {"elsewhere"}]}}
  \cup {[id |-> Local, env |-> e] : e \in {
    [Good EXCEPT !.window = FALSE], [Good EXCEPT !.engine = 30],
    [Good EXCEPT !.facts.engine_version = "err"],
    [Good EXCEPT !.facts.verified_backup_exists = "false", !.facts.backup_freshness = "absent"],
    [Good EXCEPT !.facts.verified_backup_exists = "err"],
    [Good EXCEPT !.facts.backup_freshness = "stale"]}}
=============================================================================
