------------------------------ MODULE Statements ------------------------------
(***************************************************************************)
(* internal/fbparse: how a script is cut into statements and what each of  *)
(* them is taken for.  A script is a sequence of tokens.  A token is the   *)
(* string of its keyword, name or symbol; the other kinds the lexer yields *)
(* are the lower-case tokens of Literals, and "wide" in front of a word    *)
(* stands for white space other than one blank, which no token records but *)
(* a search in the raw text does.                                          *)
(***************************************************************************)
EXTENDS Naturals, Sequences, FiniteSets, FiniteSetsExt, SequencesExt

Symbols == {"(", ")", ",", ".", "=", "^", ";"}

\* str: '...', hex: x'..', badhex: a malformed one, num: a number, qid: "...",
\* qempty: "", open: a literal that no quote closes, openc: a comment that
\* nothing closes (no token), bad8: a word holding an invalid UTF-8 byte.
Literals == {"str", "hex", "badhex", "num", "qid", "qempty", "open", "openc"}

IsWord(t) == t \notin Symbols \cup Literals \cup {"wide"}

At(s, i, w) == i \in DOMAIN s /\ s[i] = w

Starts(s, i, ws) ==
  /\ i + Len(ws) - 1 <= Len(s)
  /\ \A k \in DOMAIN ws : s[i + k - 1] = ws[k]

(* The splitter. *)

MatchPSQLHead(w) ==
  LET at(i, W) == i \in DOMAIN w /\ w[i] \in W
      after(i) == at(i, {"PROCEDURE", "FUNCTION", "TRIGGER", "PACKAGE"})
  IN  \/ at(1, {"EXECUTE"}) /\ at(2, {"BLOCK"})
      \/ IF at(1, {"CREATE"}) /\ at(2, {"OR"}) /\ at(3, {"ALTER"})
         THEN after(4)
         ELSE at(1, {"CREATE", "ALTER", "RECREATE"}) /\ after(2)

\* Literals and quoted names never end a statement.
IsTerminator(t, term) == t = term /\ t \notin Literals

NoStmt == [toks |-> <<>>, last |-> 0, words |-> <<>>, head |-> FALSE,
           markers |-> <<>>, complete |-> FALSE, declares |-> FALSE,
           setTerm |-> FALSE, ops |-> <<>>]

\* emit: nothing for a stray terminator; the statement ends before the
\* trailing terminators; SET TERM changes the terminator.
Emit(p) ==
  LET c == p.cur
      req == IF c.setTerm /\ c.ops # <<>> THEN c.ops[1] ELSE p.term
  IN  IF c.last = 0 THEN [p EXCEPT !.cur = NoStmt]
      ELSE [p EXCEPT !.cur = NoStmt, !.term = req,
                     !.out = Append(@, [toks |-> SubSeq(c.toks, 1, c.last),
                                        issues |-> p.issues]),
                     !.issues = {}]

LexIssues(t) == CASE t \in {"open", "openc"} -> {"unclosed"}
                  [] t = "badhex" -> {"ambiguous"}
                  [] OTHER -> {}

\* Mutant: BEGIN and CASE share one counter that only BEGIN raises.
MarkersBeginOnly(c, t) ==
  CASE t = "BEGIN" -> Append(c.markers, "b")
    [] t = "END" /\ c.markers # <<>> -> Front(c.markers)
    [] OTHER -> c.markers

MarkersAfter(c, t) ==
  CASE t = "BEGIN" -> Append(c.markers, "b")
    [] t = "CASE" -> Append(c.markers, "c")
    [] t = "END" /\ c.markers # <<>> -> Front(c.markers)
    [] OTHER -> c.markers

\* One turn of the loop of split.
Scan(p, t) ==
  LET isTerm == IsTerminator(t, p.term)
      words  == IF IsWord(t) /\ Len(p.cur.words) < 6
                THEN Append(p.cur.words, t) ELSE p.cur.words
      head   == p.cur.head \/ MatchPSQLHead(words)
      isSet  == p.cur.setTerm \/ (IsWord(t) /\ words = <<"SET", "TERM">>)
      ended  == head /\ t = "END" /\ p.cur.markers = <<"b">>
      cur == [toks |-> Append(p.cur.toks, t),
              last |-> IF isTerm THEN p.cur.last ELSE Len(p.cur.toks) + 1,
              words |-> words, head |-> head,
              markers |-> IF head THEN MarkersAfter(p.cur, t) ELSE <<>>,
              complete |-> p.cur.complete \/ ended,
              declares |-> \/ p.cur.declares
                           \/ /\ head /\ t = "DECLARE"
                              /\ p.cur.markers = <<>> /\ ~p.cur.complete,
              setTerm |-> isSet,
              ops |-> IF isSet /\ ~isTerm /\ Len(p.cur.ops) < 2
                      THEN Append(p.cur.ops, t) ELSE p.cur.ops]
      q == [p EXCEPT !.cur = cur, !.issues = @ \cup LexIssues(t)]
  IN  IF t = "openc" THEN [p EXCEPT !.issues = @ \cup LexIssues(t)]
      ELSE IF ~isTerm THEN q
      ELSE IF head /\ cur.markers # <<>> THEN q
      ELSE IF head /\ cur.declares THEN [q EXCEPT !.cur.declares = FALSE]
      ELSE Emit(q)

\* Lexical issues nobody took go to the last statement, or to one of their own.
WithIssues(out, issues) ==
  IF issues = {} THEN out
  ELSE IF out # <<>> THEN [out EXCEPT ![Len(out)].issues = @ \cup issues]
  ELSE <<[toks |-> <<>>, issues |-> issues]>>

Pieces(p) == WithIssues(p.out, p.issues)

\* At the end of the input the pending statement is emitted.
Split(script) ==
  Pieces(Emit(FoldLeft(Scan, [term |-> ";", cur |-> NoStmt, out |-> <<>>,
                              issues |-> {}], script)))

(* The classifier: cursors and helpers. *)

\* The statement before anything is known of it: mutating, low confidence.
Blank == [verb |-> "UNKNOWN", obj |-> "", variant |-> "", mut |-> TRUE,
          rev |-> "none", where |-> FALSE, body |-> "none", issues |-> {},
          minv |-> 0, lock |-> FALSE, upsert |-> FALSE, cascade |-> FALSE,
          mode |-> "", named |-> FALSE, dynamic |-> FALSE]

\* parenDepths: the depth of each token, a parenthesis counted outside.
Depth(s) ==
  LET cur[k \in 0..Len(s)] ==
        IF k = 0 THEN 0
        ELSE IF s[k] = "(" THEN cur[k - 1] + 1
        ELSE IF s[k] = ")" /\ cur[k - 1] > 0 THEN cur[k - 1] - 1
        ELSE cur[k - 1]
  IN  [k \in DOMAIN s |-> IF s[k] = "(" THEN cur[k - 1] ELSE cur[k]]

\* The positions from i on, outside parentheses, where the words ws stand.
Top(s, i, ws) ==
  LET d == Depth(s) IN {k \in i..Len(s) : d[k] = 0 /\ Starts(s, k, ws)}

\* readName: the position after the (dotted) name at i, i when there is none.
NameEnd(s, i) ==
  LET isPart(k) == k \in DOMAIN s /\ (IsWord(s[k]) \/ s[k] \in {"qid", "qempty"})
  IN  IF ~(isPart(i) \/ At(s, i, "num")) THEN i
      ELSE Min({j \in {i + 1 + 2 * k : k \in 0..Len(s)} :
                  ~(At(s, j, ".") /\ isPart(j + 1))})

Issue(r, k) == [r EXCEPT !.issues = @ \cup {k}]

\* The verb already written by the handler stays.
Unknown(r) == Issue(r, "unsupported")

SetTarget(r, s, i, ot) ==
  IF NameEnd(s, i) = i THEN Issue(r, "unsupported")
  ELSE [r EXCEPT !.obj = ot, !.named = TRUE]

RaiseVersion(r, v) ==
  IF r.minv >= v THEN r ELSE Issue([r EXCEPT !.minv = v], "version")

DetectTypeVersions(r, s) ==
  LET r3 == IF "BOOLEAN" \in Range(s) THEN RaiseVersion(r, 30) ELSE r
  IN  IF {"DECFLOAT", "INT128"} \cap Range(s) # {} THEN RaiseVersion(r3, 40) ELSE r3

DetectWithLock(s) == Top(s, 1, <<"WITH", "LOCK">>) # {}

(* Reads and DML. *)

SelectStmt(r, s) ==
  [r EXCEPT !.verb = "SELECT", !.mut = FALSE, !.lock = DetectWithLock(s),
            !.variant = IF DetectWithLock(s) THEN "WITH_LOCK" ELSE @]

\* Mutant: a SELECT anywhere in the statement makes it a read.
WithStmtAnywhere(r, s) ==
  IF "SELECT" \in Range(s) THEN SelectStmt(r, s) ELSE Unknown(r)

WithStmt(r, s) ==
  IF Top(s, 2, <<"SELECT">>) # {} THEN SelectStmt(r, s) ELSE Unknown(r)

Dml(r, s, verb, i) ==
  SetTarget([r EXCEPT !.verb = verb, !.rev = "restore"], s, i, "TABLE")

Skip(s, i, w) == IF At(s, i, w) THEN i + 1 ELSE i

InsertStmt(r, s) == Dml(r, s, "INSERT", Skip(s, 2, "INTO"))

ExtractWhere(s, i) == Top(s, i, <<"WHERE">>) # {}

UpdateStmt(r, s) ==
  LET upsert == Starts(s, 2, <<"OR", "INSERT">>)
      i == IF upsert THEN Skip(s, 4, "INTO") ELSE 2
      lock == DetectWithLock(s)
  IN  [Dml(r, s, "UPDATE", i) EXCEPT
         !.upsert = upsert, !.lock = lock,
         !.variant = IF lock THEN "WITH_LOCK" ELSE IF upsert THEN "OR_INSERT" ELSE "",
         !.where = ~upsert /\ ExtractWhere(s, NameEnd(s, i))]

DeleteStmt(r, s) ==
  LET i == Skip(s, 2, "FROM")
  IN  [Dml(r, s, "DELETE", i) EXCEPT !.where = ExtractWhere(s, NameEnd(s, i))]

MergeStmt(r, s) ==
  LET i == Skip(s, 2, "INTO")
      m == Dml(r, s, "MERGE", i)
      u == NameEnd(s, i)
  IN  IF ~At(s, u, "USING") THEN Issue(m, "ambiguous")
      ELSE IF At(s, u + 1, "(") THEN Issue([m EXCEPT !.variant = "USING_SUBQUERY"], "ambiguous")
      ELSE m

(* EXECUTE and PSQL bodies. *)

\* bodyDMLOrigin: the verb at k names the object it writes.
BodyTarget(s, k) ==
  \/ s[k] \in {"INSERT", "MERGE"} /\ At(s, k + 1, "INTO") /\ NameEnd(s, k + 2) > k + 2
  \/ s[k] = "DELETE" /\ At(s, k + 1, "FROM") /\ NameEnd(s, k + 2) > k + 2
  \/ s[k] = "UPDATE" /\ ~At(s, k + 1, "OR") /\ NameEnd(s, k + 1) > k + 1

\* scanBody: what the words after AS (or BEGIN) do.  `also' tells whether the
\* head already named another object.
ScanBody(r, s, also) ==
  LET as == Top(s, 2, <<"AS">>)
      begin == Top(s, 2, <<"BEGIN">>)
      from == IF as # {} THEN Min(as) ELSE Min(begin)
      dml == {k \in from..Len(s) : s[k] \in {"INSERT", "UPDATE", "DELETE", "MERGE"}}
      calls == {k \in from..Len(s) : \/ Starts(s, k, <<"EXECUTE", "PROCEDURE">>)
                                     \/ Starts(s, k, <<"EXECUTE", "BLOCK">>)}
      b == [r EXCEPT !.body = IF dml # {} THEN "dml"
                              ELSE IF calls # {} THEN "calls" ELSE "reads"]
  IN  IF as \cup begin = {} THEN r
      ELSE IF dml # {} /\ (also \/ \E k \in dml : BodyTarget(s, k))
      THEN Issue(b, "ambiguous") ELSE b

ExecuteStmt(r, s) ==
  CASE At(s, 2, "BLOCK") ->
         ScanBody([r EXCEPT !.verb = "EXECUTE BLOCK", !.rev = "restore"], s, FALSE)
    [] At(s, 2, "PROCEDURE") ->
         SetTarget([r EXCEPT !.verb = "EXECUTE PROCEDURE", !.rev = "restore"], s, 3, "PROCEDURE")
    [] OTHER -> Unknown(r)

(* CREATE, RECREATE, CREATE OR ALTER. *)

\* indexVariant, and what the text after the table says of the index.
IndexVariant(expr, partial, uniq, desc) ==
  CASE expr -> "INDEX_EXPRESSION"
    [] ~expr /\ partial -> "INDEX_PARTIAL"
    [] ~expr /\ ~partial /\ uniq /\ desc -> "INDEX_UNIQUE_DESC"
    [] ~expr /\ ~partial /\ uniq /\ ~desc -> "INDEX_UNIQUE"
    [] ~expr /\ ~partial /\ ~uniq /\ desc -> "INDEX_DESC"
    [] OTHER -> ""

Indexed(t, s, o, uniq, desc) ==
  LET close == Min({m \in o..Len(s) : Depth(s)[m] = 0 /\ s[m] = ")"} \cup {Len(s)})
      inner == IF At(s, o, "(") THEN {s[m] : m \in (o + 1)..(close - 1)} ELSE {}
      expr == At(s, o, "COMPUTED") \/ inner \cap ((Symbols \ {","}) \cup {"COMPUTED"}) # {}
      partial == Top(s, o, <<"WHERE">>) # {}
      v == IndexVariant(expr, partial, uniq, desc \/ inner \cap {"DESC", "DESCENDING"} # {})
      u == [t EXCEPT !.variant = v]
  IN  IF partial \/ Top(s, o, <<"CONCURRENTLY">>) # {} THEN RaiseVersion(u, 50) ELSE u

\* The name at n, an optional state, and the table.
IndexTable(s, n) ==
  LET a == IF n \in DOMAIN s /\ s[n] \in {"ACTIVE", "INACTIVE"} THEN n + 1 ELSE n
  IN  IF At(s, a, "ON") THEN NameEnd(s, a + 1) ELSE a

\* indexStmt: UNIQUE, order, name, table, columns, WHERE, CONCURRENTLY.
IndexStmt(r, s, i) ==
  LET uniq == At(s, i, "UNIQUE")
      j == IF uniq THEN i + 1 ELSE i
      ordered == j \in DOMAIN s /\ s[j] \in {"ASC", "ASCENDING", "DESC", "DESCENDING"}
      k == IF ordered THEN j + 1 ELSE j
  IN  IF ~At(s, k, "INDEX") THEN Unknown(r)
      ELSE Indexed(SetTarget(r, s, k + 1, "INDEX"), s, IndexTable(s, NameEnd(s, k + 1)),
                   uniq, ordered /\ s[j] \in {"DESC", "DESCENDING"})

\* triggerRest: the table of a DML trigger is one more object.
TriggerRest(r, s, i) ==
  LET n == NameEnd(s, i)
      at == Min({k \in n..(Len(s) + 1) : ~(k \in DOMAIN s /\ s[k] \in {"ACTIVE", "INACTIVE"})})
      on == Top(s, at, <<"ON">>)
      table == \/ At(s, at, "FOR") /\ NameEnd(s, at + 1) > at + 1
               \/ /\ at \in DOMAIN s /\ s[at] \in {"BEFORE", "AFTER"}
                  /\ on # {} /\ NameEnd(s, Min(on) + 1) > Min(on) + 1
  IN  ScanBody(SetTarget(r, s, i, "TRIGGER"), s, table)

\* The keywords that name the object, and the object.
Keyword(s, i, table) == {p \in table : Starts(s, i, p[1])}

Named == {<<<<o>>, o>> : o \in {"EXCEPTION", "PROCEDURE", "FUNCTION", "TABLE", "TRIGGER",
                                "VIEW", "SEQUENCE", "DOMAIN", "SHADOW", "ROLE", "USER",
                                "PACKAGE", "MAPPING"}}
         \cup {<<<<"GENERATOR">>, "SEQUENCE">>, <<<<"GLOBAL", "MAPPING">>, "MAPPING">>}

CreateTable == Named \cup
  {<<<<"AGGREGATE", "FUNCTION">>, "FUNCTION">>, <<<<"EXTERNAL", "TABLE">>, "EXTERNAL TABLE">>,
   <<<<"GLOBAL", "TEMPORARY", "TABLE">>, "GLOBAL TEMPORARY TABLE">>,
   <<<<"MATERIALIZED", "VIEW">>, "MATERIALIZED VIEW">>}

CreateObject(r, s, i, p) ==
  LET isBody == p[2] = "PACKAGE" /\ At(s, i + 1, "BODY")
      j == i + Len(p[1]) + (IF isBody THEN 1 ELSE 0)
      t == [SetTarget(r, s, j, p[2]) EXCEPT
              !.variant = IF isBody THEN "BODY"
                          ELSE IF At(s, i, "AGGREGATE") THEN "AGGREGATE" ELSE @]
  IN  CASE p[2] \in {"PROCEDURE", "FUNCTION"} -> ScanBody(t, s, FALSE)
        [] p[2] \in {"TABLE", "GLOBAL TEMPORARY TABLE", "DOMAIN"} -> DetectTypeVersions(t, s)
        [] p[2] = "TRIGGER" -> TriggerRest(r, s, j)
        [] p[2] = "MATERIALIZED VIEW" -> RaiseVersion(t, 50)
        [] p[2] = "PACKAGE" -> IF isBody THEN ScanBody(RaiseVersion(t, 30), s, FALSE)
                               ELSE RaiseVersion(t, 30)
        [] OTHER -> t

CreateStmt(r, s, verb0) ==
  LET orAlter == verb0 = "CREATE" /\ Starts(s, 2, <<"OR", "ALTER">>)
      j == IF orAlter THEN 4 ELSE 2
      i == IF Starts(s, j, <<"IF", "NOT", "EXISTS">>) THEN j + 3 ELSE j
      c == [r EXCEPT !.verb = IF orAlter THEN "CREATE OR ALTER" ELSE verb0, !.rev = "reverse"]
  IN  CASE i \in DOMAIN s /\ s[i] \in {"UNIQUE", "ASC", "ASCENDING", "DESC", "DESCENDING", "INDEX"} ->
             IndexStmt(c, s, i)
        [] At(s, i, "DATABASE") ->
             LET d == [c EXCEPT !.obj = "DATABASE"]
             IN  IF i + 1 \notin DOMAIN s \/ At(s, i + 1, "str") THEN d
                 ELSE SetTarget(d, s, i + 1, "DATABASE")
        [] Keyword(s, i, CreateTable) # {} ->
             CreateObject(c, s, i, CHOOSE q \in Keyword(s, i, CreateTable) : TRUE)
        [] OTHER -> Unknown(c)

(* REFRESH and DROP. *)

RefreshStmt(r, s) ==
  LET n == NameEnd(s, 4)
      mode == CASE At(s, n, "CONCURRENTLY") -> "concurrently"
                [] Starts(s, n, <<"DROP", "DATA">>) -> "drop_data"
                [] OTHER -> "exclusive"
      j == n + (CASE mode = "concurrently" -> 1 [] mode = "drop_data" -> 2 [] OTHER -> 0)
  IN  IF ~Starts(s, 2, <<"MATERIALIZED", "VIEW">>) THEN Unknown(r)
      ELSE [SetTarget(RaiseVersion([r EXCEPT !.verb = "REFRESH"], 50), s, 4, "MATERIALIZED VIEW")
              EXCEPT !.mode = mode, !.cascade = At(s, j, "CASCADE")]

DropTable == Named \cup
  {<<<<"INDEX">>, "INDEX">>, <<<<"FILTER">>, "FILTER">>,
   <<<<"EXTERNAL", "FUNCTION">>, "FUNCTION">>}

DropStmt(r, s) ==
  LET d == [r EXCEPT !.verb = "DROP", !.rev = "reverse"]
      p == CHOOSE q \in Keyword(s, 2, DropTable) : TRUE
      isBody == p[2] = "PACKAGE" /\ At(s, 3, "BODY")
      j == 2 + Len(p[1]) + (IF isBody THEN 1 ELSE 0)
      t == [SetTarget(d, s, IF Starts(s, j, <<"IF", "EXISTS">>) THEN j + 2 ELSE j, p[2]) EXCEPT
              !.variant = IF isBody THEN "BODY"
                          ELSE IF At(s, 2, "EXTERNAL") THEN "EXTERNAL" ELSE @]
  IN  CASE At(s, 2, "DATABASE") -> [d EXCEPT !.obj = "DATABASE", !.rev = "restore"]
        [] Keyword(s, 2, DropTable) # {} ->
             IF p[2] = "PACKAGE" THEN RaiseVersion(t, 30) ELSE t
        [] OTHER -> Unknown(d)

(* ALTER. *)

\* The first column operation and the first constraint operation each write
\* the variant once; a column operation needs a restore point.
SetOp(a, v) ==
  [a EXCEPT !.col = TRUE, !.rev = "restore", !.variant = IF a.col THEN @ ELSE v]

SetConstraint(a, v) ==
  [a EXCEPT !.con = TRUE, !.variant = IF a.con THEN @ ELSE v]

\* markColumn: the name is read for the first column only.
MarkColumn(a, s, i) ==
  [a EXCEPT !.at = IF a.marked THEN i ELSE NameEnd(s, i),
            !.marked = @ \/ NameEnd(s, i) > i]

AddOp(a, s, i) ==
  LET named == At(s, i, "CONSTRAINT")
      j == IF named THEN NameEnd(s, i + 1) ELSE i
      b == [a EXCEPT !.at = j]
  IN  CASE Starts(s, j, <<"PRIMARY", "KEY">>) -> [SetConstraint(b, "CONSTRAINT_PK") EXCEPT !.at = j + 2]
        [] At(s, j, "UNIQUE") -> [SetConstraint(b, "CONSTRAINT_UNIQUE") EXCEPT !.at = j + 1]
        [] Starts(s, j, <<"FOREIGN", "KEY">>) -> [SetConstraint(b, "CONSTRAINT_FK") EXCEPT !.at = j + 2]
        [] At(s, j, "CHECK") -> [SetConstraint(b, "CONSTRAINT_CHECK") EXCEPT !.at = j + 1]
        [] OTHER -> IF named THEN [b EXCEPT !.at = Skip(s, j, "COLUMN")]
                    ELSE SetOp(MarkColumn(b, s, Skip(s, j, "COLUMN")), "COLUMN_ADD")

DropOp(a, s, i) ==
  LET j == Skip(s, i, "COLUMN")
      k == IF Starts(s, j, <<"IF", "EXISTS">>) THEN j + 2 ELSE j
  IN  IF At(s, i, "CONSTRAINT")
      THEN [SetConstraint(a, "CONSTRAINT_DROP") EXCEPT !.at = NameEnd(s, i + 1)]
      ELSE SetOp(MarkColumn(a, s, k), "COLUMN_DROP")

AlterOp(a, m, s, i) ==
  LET j == m.at
      op(v, n) == [SetOp(m, v) EXCEPT !.at = j + n]
  IN  CASE Starts(s, i, <<"SQL", "SECURITY">>) -> [a EXCEPT !.at = i + 3]
        [] At(s, j, "TYPE") -> [op("COLUMN_TYPE", 1) EXCEPT !.type = TRUE]
        [] Starts(s, j, <<"SET", "NOT", "NULL">>) \/ Starts(s, j, <<"DROP", "NOT", "NULL">>) ->
             op("COLUMN_NOT_NULL", 3)
        [] Starts(s, j, <<"SET", "DEFAULT">>) \/ Starts(s, j, <<"DROP", "DEFAULT">>) ->
             op("COLUMN_DEFAULT", 2)
        [] At(s, j, "TO") -> op("COLUMN_RENAME", 2)
        [] At(s, j, "POSITION") -> op("", 2)
        [] OTHER -> op("", 0)

\* alterTableOps: the words outside parentheses, an operation at a time.
RECURSIVE AlterOps(_, _)
AlterOps(a, s) ==
  IF a.at > Len(s) THEN a
  ELSE LET w == IF Depth(s)[a.at] = 0 THEN s[a.at] ELSE "("
       IN  AlterOps(CASE w = "ADD" -> AddOp(a, s, a.at + 1)
                      [] w = "DROP" -> DropOp(a, s, a.at + 1)
                      [] w = "ALTER" ->
                             AlterOp(a, MarkColumn(a, s, Skip(s, a.at + 1, "COLUMN")), s, a.at + 1)
                      [] OTHER -> [a EXCEPT !.at = @ + 1], s)

AlteredTable(t, s, a) ==
  LET u == [t EXCEPT !.variant = a.variant, !.rev = a.rev]
  IN  IF a.type THEN DetectTypeVersions(u, s) ELSE u

AlterTable(r, s) ==
  AlteredTable(SetTarget(r, s, 3, "TABLE"), s,
               AlterOps([at |-> NameEnd(s, 3), col |-> FALSE, con |-> FALSE, marked |-> FALSE,
                         variant |-> "", rev |-> r.rev, type |-> FALSE], s))

AlterView(r, s) ==
  LET t == SetTarget(r, s, 3, "VIEW")
  IN  IF Top(s, 3, <<"TO", "MATERIALIZED">>) # {}
      THEN RaiseVersion([t EXCEPT !.variant = "TO_MATERIALIZED"], 50) ELSE t

AlterMaterialized(r, s) ==
  LET t == RaiseVersion(SetTarget(r, s, 4, "MATERIALIZED VIEW"), 50)
  IN  IF Top(s, 4, <<"TO", "NOT", "MATERIALIZED">>) # {}
      THEN [t EXCEPT !.variant = "TO_NOT_MATERIALIZED"] ELSE t

AlterIndex(r, s) ==
  LET t == SetTarget(r, s, 3, "INDEX")
      n == NameEnd(s, 3)
      a == [t EXCEPT !.variant = "INDEX_ACTIVE"]
  IN  CASE At(s, n, "ACTIVE") ->
             IF At(s, n + 1, "CONCURRENTLY") THEN RaiseVersion(a, 50) ELSE a
        [] At(s, n, "INACTIVE") -> [t EXCEPT !.variant = "INDEX_INACTIVE"]
        [] Starts(s, n, <<"VALIDATE", "UNIQUE">>) ->
             RaiseVersion([t EXCEPT !.variant = "INDEX_VALIDATE_UNIQUE"], 50)
        [] OTHER -> Issue(t, "unsupported")

AlterDomain(r, s) ==
  LET t == SetTarget(r, s, 3, "DOMAIN")
  IN  IF Top(s, NameEnd(s, 3), <<"TYPE">>) # {}
      THEN DetectTypeVersions([t EXCEPT !.rev = "restore"], s) ELSE t

AlterDatabase(r, s) ==
  LET t == [r EXCEPT !.obj = "DATABASE", !.rev = "restore"]
  IN  IF "LINGER" \in Range(s) THEN RaiseVersion(t, 40) ELSE t

AlterPackage(r, s) ==
  LET isBody == At(s, 3, "BODY")
      t == SetTarget([r EXCEPT !.variant = IF isBody THEN "BODY" ELSE @], s,
                     IF isBody THEN 4 ELSE 3, "PACKAGE")
  IN  ScanBody(RaiseVersion(t, 30), s, FALSE)

AlterStmt(r, s) ==
  LET a == [r EXCEPT !.verb = "ALTER", !.rev = "reverse"]
      fun == [SetTarget(a, s, 4, "FUNCTION") EXCEPT
                !.variant = IF At(s, 2, "EXTERNAL") THEN "EXTERNAL" ELSE "AGGREGATE"]
  IN  CASE At(s, 2, "TABLE") -> AlterTable(a, s)
        [] Starts(s, 2, <<"MATERIALIZED", "VIEW">>) -> AlterMaterialized(a, s)
        [] At(s, 2, "VIEW") -> AlterView(a, s)
        [] At(s, 2, "INDEX") -> AlterIndex(a, s)
        [] At(s, 2, "DATABASE") -> AlterDatabase(a, s)
        [] At(s, 2, "PROCEDURE") \/ At(s, 2, "FUNCTION") ->
             ScanBody(SetTarget(a, s, 3, s[2]), s, FALSE)
        [] Starts(s, 2, <<"AGGREGATE", "FUNCTION">>) \/ Starts(s, 2, <<"EXTERNAL", "FUNCTION">>) -> fun
        [] At(s, 2, "TRIGGER") -> TriggerRest(a, s, 3)
        [] At(s, 2, "PACKAGE") -> AlterPackage(a, s)
        [] At(s, 2, "DOMAIN") -> AlterDomain(a, s)
        [] At(s, 2, "GENERATOR") \/ At(s, 2, "SEQUENCE") ->
             [SetTarget(a, s, 3, "SEQUENCE") EXCEPT !.rev = "restore"]
        [] Starts(s, 2, <<"CURRENT", "USER">>) -> [a EXCEPT !.obj = "USER", !.variant = "CURRENT_USER"]
        [] 2 \in DOMAIN s /\ s[2] \in {"USER", "ROLE", "EXCEPTION", "MAPPING"} ->
             SetTarget(a, s, 3, s[2])
        [] Starts(s, 2, <<"GLOBAL", "MAPPING">>) -> SetTarget(a, s, 4, "MAPPING")
        [] OTHER -> Unknown(a)

(* GRANT and REVOKE. *)

DclKinds == [k \in {"TABLE", "PROCEDURE", "FUNCTION", "PACKAGE", "EXCEPTION", "DOMAIN",
                    "SEQUENCE", "GENERATOR"} |-> IF k = "GENERATOR" THEN "SEQUENCE" ELSE k]

\* parseDCLObject: a class of objects, a named object of a kind, or a table.
DclObject(r, s, i) ==
  LET class(o) == [r EXCEPT !.obj = o, !.variant = "DDL"]
      w == IF i \in DOMAIN s THEN s[i] ELSE ""
      n == IF i + 1 \in DOMAIN s THEN s[i + 1] ELSE ","
  IN  CASE Starts(s, i, <<"CHARACTER", "SET">>) \/ w \in {"COLLATION", "SCHEMA"} ->
             Unknown([r EXCEPT !.obj = "UNKNOWN"])
        [] w \in {"DATABASE", "ROLE", "FILTER", "VIEW"} -> class(w)
        [] w \in DOMAIN DclKinds ->
             IF n \in {"qid", "qempty"} \/ (IsWord(n) /\ n \notin {"TO", "FROM", "WITH", "GRANTED", "AS"})
             THEN SetTarget(r, s, i + 1, DclKinds[w]) ELSE class(DclKinds[w])
        [] OTHER -> SetTarget(r, s, i, "TABLE")

\* parseGrantees and parseDCLOptions, as far as they set the variant.
DclOptions(r, s, i) ==
  LET grant == {k \in i..Len(s) : Starts(s, k, <<"WITH", "GRANT", "OPTION">>)}
      admin == {k \in i..Len(s) : Starts(s, k, <<"WITH", "ADMIN", "OPTION">>)}
      first == IF grant \cup admin = {} THEN 0 ELSE Min(grant \cup admin)
  IN  [r EXCEPT !.variant = IF @ # "" \/ first = 0 THEN @
                            ELSE IF first \in grant THEN "GRANT_WITH_OPTION"
                            ELSE "GRANT_ADMIN_OPTION"]

DclStmt(r, s, verb) ==
  LET opt == CASE verb = "REVOKE" /\ Starts(s, 2, <<"GRANT", "OPTION", "FOR">>) -> "REVOKE_GRANT_OPTION"
               [] verb = "REVOKE" /\ Starts(s, 2, <<"ADMIN", "OPTION", "FOR">>) -> "REVOKE_ADMIN_OPTION"
               [] OTHER -> ""
      i == IF opt = "" THEN 2 ELSE 5
      d == [r EXCEPT !.verb = verb, !.rev = "reverse", !.variant = opt]
      to == Top(s, i, IF verb = "GRANT" THEN <<"TO">> ELSE <<"FROM">>)
      on == {k \in Top(s, i, <<"ON">>) : k < Min(to)}
      role == IF NameEnd(s, i) = i THEN Unknown([d EXCEPT !.obj = "ROLE"])
              ELSE DclOptions([d EXCEPT !.obj = "ROLE", !.named = TRUE], s, Min(to) + 1)
      sys == \E k \in i..(Min(on) - 1) :
               s[k] = "USAGE" \/ (s[k] \in {"ALTER", "DROP"} /\ At(s, k + 1, "ANY"))
      o == DclOptions(DclObject(d, s, Min(on) + 1), s, Min(to) + 1)
  IN  IF to = {} THEN Unknown(d)
      ELSE IF on = {} THEN role
      ELSE IF sys \/ o.variant = "DDL" THEN RaiseVersion(o, 30) ELSE o

(* COMMENT ON, DECLARE, SET. *)

CommentSimple == DropTable \ {<<<<"FUNCTION">>, "FUNCTION">>, <<<<"SHADOW">>, "SHADOW">>,
                              <<<<"GLOBAL", "MAPPING">>, "MAPPING">>}

CommentSub == {<<<<"COLUMN">>, "TABLE">>, <<<<"PARAMETER">>, "PROCEDURE">>,
               <<<<"PROCEDURE", "PARAMETER">>, "PROCEDURE">>,
               <<<<"FUNCTION", "PARAMETER">>, "FUNCTION">>, <<<<"CONSTANT">>, "PACKAGE">>}

\* containerAndColumn: the name needs a dot.
CommentStmt(r, s) ==
  LET c == [r EXCEPT !.verb = "COMMENT ON", !.rev = "reverse"]
      sub == CHOOSE q \in Keyword(s, 3, CommentSub) : TRUE
      j == 3 + Len(sub[1])
      simple == CHOOSE q \in Keyword(s, 3, CommentSimple) : TRUE
      u == [c EXCEPT !.obj = sub[2], !.variant = Last(sub[1])]
  IN  CASE ~At(s, 2, "ON") -> Unknown(c)
        [] At(s, 2, "ON") /\ At(s, 3, "DATABASE") -> [c EXCEPT !.obj = "DATABASE"]
        [] At(s, 2, "ON") /\ Keyword(s, 3, CommentSub) # {} ->
             IF NameEnd(s, j) = j THEN Issue(u, "unsupported")
             ELSE IF NameEnd(s, j) = j + 1 THEN Issue([u EXCEPT !.named = TRUE], "ambiguous")
             ELSE [u EXCEPT !.named = TRUE]
        [] At(s, 2, "ON") /\ Keyword(s, 3, CommentSub) = {} /\ Keyword(s, 3, CommentSimple) # {} ->
             SetTarget(c, s, 3 + Len(simple[1]), simple[2])
        [] OTHER -> Unknown(c)

DeclareStmt(r, s) ==
  LET d == [r EXCEPT !.verb = "DECLARE", !.rev = "reverse"]
  IN  CASE At(s, 2, "FILTER") -> SetTarget(d, s, 3, "FILTER")
        [] Starts(s, 2, <<"EXTERNAL", "FUNCTION">>) ->
             [SetTarget(d, s, 4, "FUNCTION") EXCEPT !.variant = "EXTERNAL"]
        [] OTHER -> Unknown(d)

SetStmt(r, s) ==
  LET t == [r EXCEPT !.verb = "SET"]
      quiet(v) == [t EXCEPT !.variant = v, !.mut = FALSE]
  IN  CASE At(s, 2, "GENERATOR") ->
             [SetTarget(t, s, 3, "SEQUENCE") EXCEPT !.variant = "GENERATOR", !.rev = "restore"]
        [] At(s, 2, "STATISTICS") ->
             [SetTarget(t, s, Skip(s, 3, "INDEX"), "INDEX") EXCEPT
                !.variant = "STATISTICS", !.rev = "reverse"]
        [] At(s, 2, "TRANSACTION") -> quiet("TRANSACTION")
        [] At(s, 2, "TERM") -> quiet("TERM")
        [] 2 \in DOMAIN s /\ s[2] \in {"SESSION", "ROLE", "TRUSTED", "DECFLOAT", "BIND",
                                       "OPTIMIZE", "SEARCH", "TIME", "DEBUG"} -> quiet("SESSION")
        [] OTHER -> Unknown(t)

(* Double quotes that look like strings of dialect 1. *)

\* The walk back over an argument list to its head.
RECURSIVE InValues(_, _, _)
InValues(s, j, bal) ==
  IF j < 1 THEN FALSE
  ELSE CASE s[j] = ")" -> InValues(s, j - 1, bal + 1)
         [] s[j] = "(" /\ bal > 0 -> InValues(s, j - 1, bal - 1)
         [] s[j] = "(" /\ bal = 0 -> At(s, j - 1, "VALUES")
         [] s[j] = "," /\ bal = 0 -> InValues(s, j - 1, bal)
         [] s[j] \in Symbols \ {"(", ")"} /\ ~(s[j] = "," /\ bal = 0) -> FALSE
         [] OTHER -> InValues(s, j - 1, bal)

StrongSignal(s, i) ==
  \/ s[i] = "qempty"
  \/ s[i] = "qid" /\ (\/ At(s, i - 1, "VALUES")
                      \/ (At(s, i - 1, ",") \/ At(s, i - 1, "(")) /\ InValues(s, i - 1, 0))

WeakSignal(s, i) ==
  s[i] = "qid" /\ i > 1 /\ s[i - 1] \in {"=", "LIKE", "CONTAINING", "STARTING", "SIMILAR"}

\* The first double-quoted token that gives a signal decides.
Dialect1Signal(s) ==
  LET hits == {i \in DOMAIN s : StrongSignal(s, i) \/ WeakSignal(s, i)}
  IN  IF hits = {} THEN "none"
      ELSE IF StrongSignal(s, Min(hits)) THEN "strong" ELSE "weak"

(* The whole. *)

\* run: the leading keyword picks the handler.
Run(r, s) ==
  CASE s[1] = "SELECT" -> SelectStmt(r, s)
    [] s[1] = "WITH" -> WithStmt(r, s)
    [] s[1] = "INSERT" -> InsertStmt(r, s)
    [] s[1] = "UPDATE" -> UpdateStmt(r, s)
    [] s[1] = "DELETE" -> DeleteStmt(r, s)
    [] s[1] = "MERGE" -> MergeStmt(r, s)
    [] s[1] = "EXECUTE" -> ExecuteStmt(r, s)
    [] s[1] \in {"CREATE", "RECREATE"} -> CreateStmt(r, s, s[1])
    [] s[1] = "DROP" -> DropStmt(r, s)
    [] s[1] = "ALTER" -> AlterStmt(r, s)
    [] s[1] \in {"GRANT", "REVOKE"} -> DclStmt(r, s, s[1])
    [] s[1] = "COMMENT" -> CommentStmt(r, s)
    [] s[1] = "DECLARE" -> DeclareStmt(r, s)
    [] s[1] = "SET" -> SetStmt(r, s)
    [] s[1] = "REFRESH" -> RefreshStmt(r, s)
    [] OTHER -> Unknown(r)

\* White space leaves no token; it is kept for the search in the raw text.
Classify(raw) ==
  LET s == SelectSeq(raw.toks, LAMBDA t : t # "wide")
      found == raw.issues \cup UNION {LexIssues(t) : t \in Range(s)}
      r == [Blank EXCEPT !.issues = found,
              !.dynamic = \E k \in 2..Len(raw.toks) :
                            raw.toks[k - 1] = "EXECUTE" /\ raw.toks[k] = "STATEMENT"]
      signal == Dialect1Signal(s)
  IN  IF "unclosed" \in found \/ s = <<>> THEN r
      ELSE IF signal = "strong" THEN Issue(r, "dialect1")
      ELSE Run(IF signal = "weak" THEN Issue(r, "dialect1") ELSE r, s)

\* Parse: a statement that holds the first invalid byte is unknown.
Valid8(r, ok) ==
  IF ok THEN r ELSE [r EXCEPT !.verb = "UNKNOWN", !.mut = TRUE, !.issues = @ \cup {"utf8"}]

\* Only the statement that holds the first invalid byte is degraded.
ParsePieces(raw) ==
  LET bad == {n \in DOMAIN raw : "bad8" \in Range(raw[n].toks)}
  IN  [n \in DOMAIN raw |-> Valid8(Classify(raw[n]), bad = {} \/ n # Min(bad))]

Parse(script) == ParsePieces(Split(script))

\* Read-only: one SELECT without issue, lock or mutation.
IsReadOnly(st) ==
  /\ Len(st) = 1
  /\ st[1].verb = "SELECT" /\ ~st[1].mut /\ st[1].issues = {} /\ ~st[1].lock

(* The keys of the drift gate between the library and the operations table. *)

\* The objects of the CREATE family; the classifier does not police which verb
\* takes which.
FamilyObjects ==
  {"TABLE", "GLOBAL TEMPORARY TABLE", "EXTERNAL TABLE", "VIEW", "PROCEDURE", "FUNCTION",
   "PACKAGE", "TRIGGER", "SEQUENCE", "DOMAIN", "EXCEPTION", "INDEX", "USER", "ROLE",
   "MAPPING", "DATABASE", "FILTER", "SHADOW"}

CreateVerbs == {"CREATE", "RECREATE", "CREATE OR ALTER"}

OpKey(r) == <<r.verb, r.obj, r.variant>>

ReadAndDmlKeys ==
  ({"SELECT"} \X {""} \X {"", "WITH_LOCK"})
  \cup ({"INSERT", "UPDATE", "DELETE", "MERGE"} \X {"TABLE"} \X {""})
  \cup {<<"UPDATE", "TABLE", "OR_INSERT">>, <<"UPDATE", "TABLE", "WITH_LOCK">>,
        <<"MERGE", "TABLE", "USING_SUBQUERY">>,
        <<"EXECUTE PROCEDURE", "PROCEDURE", "">>, <<"EXECUTE BLOCK", "", "">>}

FamilyKeys == (CreateVerbs \cup {"DROP", "ALTER"}) \X FamilyObjects \X {""}

ShapeKeys ==
  ({"CREATE"} \X {"INDEX"} \X {"INDEX_UNIQUE", "INDEX_DESC", "INDEX_UNIQUE_DESC",
                               "INDEX_EXPRESSION", "INDEX_PARTIAL"})
  \cup ({"ALTER"} \X {"INDEX"} \X {"INDEX_ACTIVE", "INDEX_INACTIVE", "INDEX_VALIDATE_UNIQUE"})
  \cup ({"CREATE", "RECREATE", "ALTER", "REFRESH"} \X {"MATERIALIZED VIEW"} \X {""})
  \cup {<<"ALTER", "MATERIALIZED VIEW", "TO_NOT_MATERIALIZED">>, <<"ALTER", "VIEW", "TO_MATERIALIZED">>}
  \cup ((CreateVerbs \cup {"DROP", "ALTER"}) \X {"PACKAGE"} \X {"BODY"})
  \cup (CreateVerbs \X {"FUNCTION"} \X {"AGGREGATE"})
  \cup ({"ALTER", "DROP"} \X {"FUNCTION"} \X {"EXTERNAL"})
  \cup ({"ALTER"} \X {"TABLE"} \X {"COLUMN_ADD", "COLUMN_DROP", "COLUMN_RENAME", "COLUMN_TYPE",
                                  "COLUMN_NOT_NULL", "COLUMN_DEFAULT", "CONSTRAINT_PK",
                                  "CONSTRAINT_UNIQUE", "CONSTRAINT_FK", "CONSTRAINT_CHECK",
                                  "CONSTRAINT_DROP"})

GrantObjects == {"TABLE", "PROCEDURE", "FUNCTION", "PACKAGE", "SEQUENCE", "EXCEPTION", "DOMAIN",
                 "DATABASE"}

DclKeys ==
  ({"GRANT", "REVOKE"} \X (GrantObjects \cup {"ROLE", "FILTER"}) \X {"", "DDL"})
  \cup ({"GRANT"} \X GrantObjects \X {"GRANT_WITH_OPTION"})
  \cup ({"REVOKE"} \X GrantObjects \X {"REVOKE_GRANT_OPTION"})
  \cup {<<"GRANT", "ROLE", "GRANT_ADMIN_OPTION">>, <<"REVOKE", "ROLE", "REVOKE_ADMIN_OPTION">>}

OtherKeys ==
  ({"COMMENT ON"} \X (FamilyObjects \ {"GLOBAL TEMPORARY TABLE", "EXTERNAL TABLE", "SHADOW"}) \X {""})
  \cup {<<"COMMENT ON", "TABLE", "COLUMN">>, <<"COMMENT ON", "PROCEDURE", "PARAMETER">>,
        <<"COMMENT ON", "FUNCTION", "PARAMETER">>, <<"COMMENT ON", "PACKAGE", "CONSTANT">>,
        <<"DECLARE", "FILTER", "">>, <<"DECLARE", "FUNCTION", "EXTERNAL">>,
        <<"SET", "SEQUENCE", "GENERATOR">>, <<"SET", "INDEX", "STATISTICS">>,
        <<"ALTER", "USER", "CURRENT_USER">>}
  \cup ({"SET"} \X {""} \X {"TRANSACTION", "SESSION", "TERM"})

KnownOpKeys == ReadAndDmlKeys \cup FamilyKeys \cup ShapeKeys \cup DclKeys \cup OtherKeys
=============================================================================
