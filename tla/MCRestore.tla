----------------------------- MODULE MCRestore -----------------------------
(***************************************************************************)
(* Instances of RestoreReplace for TLC: the five steps of                  *)
(* restoreReplaceSteps.                                                    *)
(***************************************************************************)
EXTENDS RestoreReplace
=============================================================================
