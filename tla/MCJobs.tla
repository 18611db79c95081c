------------------------------- MODULE MCJobs -------------------------------
(***************************************************************************)
(* Instances of Jobs for TLC: two or three jobs on one database with a     *)
(* channel of capacity one, so that it fills up.                           *)
(***************************************************************************)
EXTENDS Jobs, TLC

CONSTANTS j1, j2, j3, d1

OneDb == [j \in Jobs |-> d1]

JobSymmetry == Permutations(Jobs)
=============================================================================
