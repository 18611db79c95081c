------------------------------ MODULE MCSetup ------------------------------
(***************************************************************************)
(* Two lines: one may move to the port of the other and turn its Local API  *)
(* off, the other has a sealed token.  Their files have the same name in    *)
(* two folders, so the second id needs a suffix.  A setup passes all it     *)
(* knows of the second line, which is then a line without its folder too.   *)
(* The operator starts from                                                 *)
(* no file, from an instance of his own, or from one that covers the second *)
(* line with remote mode already on.                                        *)
(***************************************************************************)
EXTENDS Setup

File(p) == [path |-> p, form |-> "local", security |-> FALSE, inBlock |-> FALSE, there |-> TRUE]

FolderA(port, off) ==
  [rank |-> 3, name |-> <<"fb50">>, agentPort |-> port, recordPort |-> 1, agentBin |-> TRUE,
   recordBin |-> FALSE, off |-> off, listen |-> "", token |-> "plain",
   conf |-> <<[File("security") EXCEPT !.security = TRUE], File("/a/db"), [File("/a/db") EXCEPT !.inBlock = TRUE],
              [File("/a/old") EXCEPT !.there = FALSE], [File("host:/x") EXCEPT !.form = "remote"]>>,
   seen |-> <<File("/a/db"), File("/a/db")>>]
FolderB ==
  [rank |-> 4, name |-> << >>, agentPort |-> 0, recordPort |-> 2, agentBin |-> FALSE,
   recordBin |-> TRUE, off |-> FALSE, listen |-> "any", token |-> "sealed",
   conf |-> << >>, seen |-> <<File("/b/db")>>]

MCFolders == [l \in {"a", "b"} |-> IF l = "a" THEN {FolderA(1, FALSE), FolderA(2, TRUE)} ELSE {FolderB}]

Said(key, rank, port) ==
  [key |-> key, rank |-> rank, name |-> << >>, port |-> port, bin |-> port # 0, off |-> FALSE,
   url |-> "", tok |-> TRUE, pw |-> TRUE, dbs |-> << >>]
MCStdin == {{}, {Said("a", 1, 0), Said("b", 2, 2)}}

MCBaseOf == [p \in {"/a/db", "/b/db", "/op/x"} |-> IF p = "/op/x" THEN "x" ELSE "db"]

MCOptions == {[allow |-> {}, port |-> 0], [allow |-> {"net1"}, port |-> 0], [allow |-> {"net1"}, port |-> 7]}

NoFile == [exists |-> FALSE, inst |-> {}, dbs |-> {}, agents |-> {}, idents |-> {}, listen |-> 0, tls |-> FALSE]
OwnInstance == [id |-> <<"op">>, port |-> 9, svc |-> <<"op", 0>>, def |-> <<"op", 0>>]
Covers == [id |-> <<"own_b">>, port |-> 2, svc |-> NoSecret, def |-> NoSecret]
MCConfigs == { NoFile,
               [NoFile EXCEPT !.exists = TRUE, !.inst = {OwnInstance},
                  !.dbs = {[id |-> <<"db">>, inst |-> <<"op">>, path |-> "/op/x", sec |-> <<"op", 0>>]}],
               [NoFile EXCEPT !.exists = TRUE, !.inst = {Covers}, !.idents = {"owner"}, !.listen = 8, !.tls = TRUE] }

MCNewDatabases == {[id |-> <<"mine">>, inst |-> <<"fb50">>, path |-> "/op/x"], [id |-> <<"mine">>, inst |-> <<"p", 2>>, path |-> "/a/db"]}
MCNewAgents == {[id |-> <<"own", 0>>, url |-> 1, tok |-> <<"op", 1>>]}
=============================================================================
