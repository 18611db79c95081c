------------------------------ MODULE MCReload ------------------------------
(* Two database ids, of which one is configured at first; one backup of it    *)
(* and one fb_db_register.  The operator may rename it, move it to another    *)
(* path or server, change its directory, remove it, or save a broken file.    *)
EXTENDS Reload, TLC

CONSTANTS a, b, p, q, x, y, backup, register

MCKey == backup :> a @@ register :> Instance
Cfg(pa, pb, addr, d) == [path |-> a :> pa @@ b :> pb, addr |-> addr, dir |-> d]

MCFirst == Cfg(p, NoPath, x, 1)
MCFiles ==
  {Broken, MCFirst, Cfg(NoPath, p, x, 1), Cfg(q, NoPath, x, 1), Cfg(p, NoPath, y, 1),
   Cfg(p, NoPath, x, 2), Cfg(NoPath, NoPath, x, 1), Cfg(p, p, x, 1)}
=============================================================================
