------------------------------ MODULE Consent -------------------------------
(***************************************************************************)
(* What the confirmation gate promises about each request, without saying  *)
(* how: a request is opened once, then either refused for good, or let     *)
(* through once and after that run at most once.  Every fate but "open"    *)
(* and "approved" is final.                                                *)
(***************************************************************************)
CONSTANT Requests
VARIABLE fate

Fates == {"none", "open", "approved", "run", "refused"}

Move(r, from, to) ==
  /\ fate[r] = from
  /\ fate' = [fate EXCEPT ![r] = to]

Init == fate = [r \in Requests |-> "none"]

Next ==
  \E r \in Requests :
    \/ Move(r, "none", "open")
    \/ Move(r, "open", "approved")
    \/ Move(r, "open", "refused")
    \/ Move(r, "approved", "run")

Spec == Init /\ [][Next]_fate
=============================================================================
