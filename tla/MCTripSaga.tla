----------------------------- MODULE MCTripSaga -----------------------------
(* Instances of TripSaga for TLC. *)
EXTENDS TripSaga, TLC

\* Trips do not differ, nor do cancellations, nor drivers.
SagaSymmetry == Permutations(Trip) \cup Permutations(Cancel)
=============================================================================
