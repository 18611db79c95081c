----------------------------- MODULE MCShutdown -----------------------------
(***************************************************************************)
(* Instances of ShutdownWindow for TLC: the five steps of shutdownSteps.   *)
(***************************************************************************)
EXTENDS ShutdownWindow
=============================================================================
