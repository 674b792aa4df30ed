----------------------------- MODULE MCDispatch -----------------------------
(* Instances of Dispatch for TLC. *)
EXTENDS Dispatch, TLC

\* Every driver has the requested vehicle.
AllSuitable == Trip \X Driver

\* The loops do not tell trips apart.
TripSymmetry == Permutations(Trip)
=============================================================================
