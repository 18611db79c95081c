------------------------------- MODULE MCGate -------------------------------
(***************************************************************************)
(* The instance of Gate for TLC: one tier-1 request, which its owner may    *)
(* confirm in-band and the operator out-of-band, and two handlers, which    *)
(* act for its owner or for somebody else.                                  *)
(***************************************************************************)
EXTENDS Gate, TLC

CONSTANTS r1, alice, bob

MCOwner == r1 :> alice
MCTier  == r1 :> 1
MCOob   == r1 :> FALSE
=============================================================================
