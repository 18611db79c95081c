------------------------------ MODULE MCBridge ------------------------------
(***************************************************************************)
(* One bridge with an initialize line, its notification and two calls,     *)
(* against a server with small caps.                                       *)
(***************************************************************************)
EXTENDS Bridge, TLC

CONSTANTS i0, n0, c1, c2, rp, gs, ds, d1, d2, d3, alice, none

MCKind   == i0 :> "initialize" @@ n0 :> "initialized" @@ c1 :> "call" @@ c2 :> "call"
MCScripts == {<<{}, 202>>, <<{i0, n0}, 200>>, <<{i0, c1, c2}, 202>>}
Small    == [sessions |-> 2, streams |-> 0, live |-> 1]
Wide     == [sessions |-> 3, streams |-> 0, live |-> 2]
MCOwn    == alice :> [sessions |-> 0, streams |-> 1, live |-> 0]
Blocks   == {Small, Wide}
CallSymmetry == Permutations({c1, c2})
=============================================================================
