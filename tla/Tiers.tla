-------------------------------- MODULE Tiers --------------------------------
(***************************************************************************)
(* internal/classify and internal/policy: the tier of a classified         *)
(* statement, what becomes of a script, and the decision on a request.  A  *)
(* statement is a record of Statements; a fact is a value, or "err" when   *)
(* its provider fails.  Versions are numbers (5.0 is 50, none is 0).       *)
(***************************************************************************)
EXTENDS Naturals, Sequences

CONSTANT MaxStatements
ASSUME MaxStatementsAssumption == MaxStatements \in Nat \ {0}

Confidence(s) ==
  IF s.verb = "UNKNOWN" THEN "low"
  ELSE IF s.issues = {} THEN "high"
  ELSE IF s.issues = {"version"} THEN "medium" ELSE "low"

\* The row of the operations table for a DDL statement on an object.
V3OpDDL(verb, obj, variant) ==
  CASE obj = "DATABASE" -> 8
    [] obj = "USER" -> 31
    [] obj = "ROLE" -> 34
    [] obj = "MAPPING" -> 33
    [] obj = "INDEX" -> IF verb = "ALTER" /\ variant \in {"INDEX_ACTIVE", "INDEX_INACTIVE",
                                                          "INDEX_VALIDATE_UNIQUE"} THEN 20 ELSE 19
    [] obj = "VIEW" -> 22
    [] obj = "MATERIALIZED VIEW" -> IF variant = "TO_NOT_MATERIALIZED" THEN 22 ELSE 23
    [] obj = "SEQUENCE" -> 24
    [] obj \in {"PROCEDURE", "FUNCTION"} -> 25
    [] obj = "PACKAGE" -> 26
    [] obj = "TRIGGER" -> IF verb = "ALTER" /\ variant = "" THEN 28 ELSE 27
    [] obj = "DOMAIN" -> 29
    [] obj = "FILTER" -> 30
    [] obj = "SHADOW" -> 10
    [] obj \in {"TABLE", "GLOBAL TEMPORARY TABLE", "EXTERNAL TABLE"} ->
         CASE variant \in {"COLUMN_ADD", "COLUMN_DROP"} -> 12
           [] variant = "COLUMN_TYPE" -> 13
           [] variant \in {"COLUMN_RENAME", "COLUMN_DEFAULT"} -> 14
           [] variant = "COLUMN_NOT_NULL" -> 15
           [] variant \in {"CONSTRAINT_PK", "CONSTRAINT_UNIQUE", "CONSTRAINT_DROP"} -> 16
           [] variant = "CONSTRAINT_FK" -> 17
           [] variant = "CONSTRAINT_CHECK" -> 18
           [] OTHER -> 11
    [] OTHER -> 0

V3OpFor(s) ==
  CASE s.verb = "SELECT" -> 0
    [] s.verb \in {"INSERT", "UPDATE", "DELETE", "MERGE"} -> 102
    [] s.verb \in {"EXECUTE BLOCK", "EXECUTE PROCEDURE"} -> 25
    [] s.verb = "COMMENT ON" -> 109
    [] s.verb = "SET" -> CASE s.variant = "STATISTICS" -> 21
                           [] s.variant = "GENERATOR" -> 24
                           [] s.variant = "TRANSACTION" -> 43
                           [] OTHER -> 0
    [] s.verb = "DECLARE" -> 30
    [] s.verb \in {"GRANT", "REVOKE"} ->
         CASE s.obj = "ROLE" /\ s.variant \in {"GRANT_ADMIN_OPTION", "REVOKE_ADMIN_OPTION", ""} -> 35
           [] s.obj = "DATABASE" -> 36
           [] OTHER -> 37
    [] OTHER -> V3OpDDL(s.verb, s.obj, s.variant)

\* TierForRisk of the rows V3OpFor names: 8 is critical, 13 and 30 are high,
\* the others are writes of medium or low risk.
TierForRisk(op) == IF op = 8 THEN 3 ELSE IF op \in {13, 30} THEN 2 ELSE 1

AtLeast(t, floor) == IF t < floor THEN floor ELSE t

\* bodyOpaque: the search for dynamic SQL is in the raw text.
BodyOpaque(s) == s.body \in {"none", "dml", "calls"} \/ s.dynamic

SetsTransaction(s) == s.verb = "SET" /\ s.variant = "TRANSACTION"

\* Mutant: a DELETE or UPDATE without a WHERE is a change like any other.
ContextualNoWhere(s, t) ==
  IF s.verb = "DROP" /\ s.obj = "DATABASE" THEN 3
  ELSE IF s.verb = "CREATE" /\ s.obj = "DATABASE" THEN 1
  ELSE IF \/ s.verb = "EXECUTE BLOCK" /\ BodyOpaque(s)
          \/ s.verb \in {"EXECUTE PROCEDURE", "DROP"}
          \/ s.variant = "COLUMN_TYPE"
          \/ s.verb = "REFRESH" /\ s.cascade
  THEN AtLeast(t, 2) ELSE t

\* The contextual escalations, in their order: the first that applies.
Contextual(s, t) ==
  IF s.verb = "DROP" /\ s.obj = "DATABASE" THEN 3
  ELSE IF s.verb = "CREATE" /\ s.obj = "DATABASE" THEN 1
  ELSE IF \/ s.verb = "EXECUTE BLOCK" /\ BodyOpaque(s)
          \/ s.verb \in {"EXECUTE PROCEDURE", "DROP"}
          \/ s.verb \in {"DELETE", "UPDATE"} /\ ~s.where
          \/ s.variant = "COLUMN_TYPE"
          \/ s.verb = "REFRESH" /\ s.cascade
  THEN AtLeast(t, 2) ELSE t

TierFinal(s) ==
  s.verb = "EXECUTE PROCEDURE" \/ (s.verb = "EXECUTE BLOCK" /\ BodyOpaque(s))

Unclassifiable == [known |-> FALSE, tier |-> 0, final |-> FALSE]

MapStatement(s) ==
  LET mutating == s.mut \/ SetsTransaction(s)
      t == Contextual(s, TierForRisk(V3OpFor(s)))
      d == IF s.obj = "DATABASE" /\ s.verb \notin {"CREATE", "DROP", "COMMENT ON"}
           THEN AtLeast(t, 2) ELSE t
  IN  IF s.verb = "UNKNOWN" THEN Unclassifiable
      ELSE IF ~mutating THEN [known |-> TRUE, tier |-> 0, final |-> FALSE]
      ELSE IF V3OpFor(s) = 0 THEN Unclassifiable
      ELSE [known |-> TRUE, tier |-> d, final |-> TierFinal(s)]

\* Low confidence raises the tier by one, unless a rule has fixed it.
Escalate(s, r) ==
  IF Confidence(s) = "low" /\ r.known /\ ~r.final /\ r.tier < 3
  THEN [r EXCEPT !.tier = @ + 1] ELSE r

TierOf(s) == Escalate(s, MapStatement(s))

\* Script: one unknown statement, two tiers, or nothing at all refuse it.
Verdict(rs) ==
  LET ok == /\ rs # <<>> /\ Len(rs) <= MaxStatements
            /\ \A n \in DOMAIN rs : rs[n].known
            /\ \A m, n \in DOMAIN rs : rs[m].tier = rs[n].tier
  IN  [ok |-> ok, tier |-> IF ok THEN rs[1].tier ELSE 0]

Script(stmts) == Verdict([n \in DOMAIN stmts |-> TierOf(stmts[n])])

IsDDL(s) == s.verb \in {"CREATE", "ALTER", "DROP", "RECREATE", "CREATE OR ALTER",
                        "COMMENT ON", "GRANT", "REVOKE", "SET", "DECLARE"}

\* Compensation: the undo the preview promises.
Compensation(s) ==
  IF s.verb = "REFRESH" THEN "none"
  ELSE IF s.rev = "none" THEN "read"
  ELSE IF s.rev = "reverse" THEN "reverse DDL" ELSE "verified backup"

\* executor.Prepare: fb_write takes tiers 1 and 2 only.
Prepared(stmts, sc) ==
  LET vs == {stmts[n].minv : n \in DOMAIN stmts}
  IN  [ok |-> sc.ok /\ sc.tier \in {1, 2}, tier |-> sc.tier,
       minFB |-> CHOOSE v \in vs \cup {0} : \A w \in vs : w <= v,
       ddl |-> \E n \in DOMAIN stmts : IsDDL(stmts[n]),
       exclusive |-> \E n \in DOMAIN stmts : stmts[n].verb = "REFRESH"
                                             /\ stmts[n].mode # "concurrently"]

Prepare(stmts) == Prepared(stmts, Script(stmts))

(* The policy engine. *)

AllowsDB(id, db) == id.dbs = {} \/ db \in id.dbs

\* check: a precondition on a fact is met, not met, or cannot be evaluated.
Check(p, facts) ==
  LET v == facts[p.name]
  IN  IF v = "err" THEN "err"
      ELSE IF p.op = "true" THEN (IF v = "true" THEN "met" ELSE "failed")
      ELSE IF v = "absent" THEN "err"
      ELSE IF v = "fresh" THEN "met" ELSE "failed"

Deny(blockers) == [outcome |-> "deny", blockers |-> blockers]

EvaluateMeta(id, db, meta, env) ==
  LET noWindow == meta.tier >= 2 /\ ~env.window
      of(o) == {p \in meta.preconditions : Check(p, env.facts) = o}
      failed == {p.name : p \in of("failed")}
      errs == {p.name : p \in of("err")}
  IN  IF ~AllowsDB(id, db) \/ meta.tier = 3 \/ meta.tier > id.maxTier THEN Deny({})
      ELSE IF meta.minFB > 0 /\ (env.facts["engine_version"] = "err" \/ env.engine < meta.minFB)
      THEN Deny({})
      ELSE IF noWindow THEN Deny({"maintenance_window"} \cup failed \cup errs)
      ELSE IF errs # {} THEN Deny({})
      ELSE IF failed # {} THEN [outcome |-> "pending", blockers |-> failed]
      ELSE [outcome |-> IF meta.tier >= 1 THEN "pending" ELSE "allow", blockers |-> {}]
=============================================================================
