------------------------------ MODULE MCWrites ------------------------------
(***************************************************************************)
(* Two migration files, one of which is edited, held back or not for       *)
(* fb_migration_apply, and scripts with and without DDL at both tiers.     *)
(***************************************************************************)
EXTENDS Writes

F1  == [sum |-> "a", stmts |-> <<"dml", "ddl">>, tier |-> 1]
F1b == [sum |-> "b", stmts |-> <<"ddl">>, tier |-> 1]
F3  == [sum |-> "d", stmts |-> <<"ddl">>, tier |-> 3]
F2  == [sum |-> "c", stmts |-> <<"ddl">>, tier |-> 2]
MCDirs == { [v \in {1, 2} |-> IF v = 1 THEN F1 ELSE F2],
            [v \in {1, 2} |-> IF v = 1 THEN F1b ELSE F2],
            [v \in {2} |-> F2],
            [v \in {1, 2} |-> IF v = 1 THEN F1 ELSE F3] }
MCScripts == { [stmts |-> <<"dml", "dml">>, tier |-> 1],
               [stmts |-> <<"ddl", "dml">>, tier |-> 2] }
=============================================================================
