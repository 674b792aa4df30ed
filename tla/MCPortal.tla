------------------------------- MODULE MCPortal -------------------------------
(* An instance of Portal for TLC. *)
EXTENDS Portal, TLC

CONSTANTS e1, e2, p1, p2

PortalSymmetry == Permutations({e1, e2}) \cup Permutations({p1, p2})
===============================================================================
