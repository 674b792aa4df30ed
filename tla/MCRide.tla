-------------------------------- MODULE MCRide --------------------------------
(* An instance of Ride for TLC: two drivers in a tab each. *)
EXTENDS Ride

CONSTANTS t1, t2, ann, bob

MCTab == {t1, t2}
MCSessions == {[t \in MCTab |-> IF t = t1 THEN ann ELSE bob]}
===============================================================================
