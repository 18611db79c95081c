------------------------------ MODULE MCAudit ------------------------------
(***************************************************************************)
(* Instances of Audit for TLC.                                             *)
(***************************************************************************)
EXTENDS Audit, TLC

EntrySymmetry == Permutations(Entries)
=============================================================================
