------------------------------ MODULE MCBooking ------------------------------
(* An instance of Booking for TLC. *)
EXTENDS Booking

CONSTANTS near, far, there   \* two pickups and a destination

MCPoint == {near, far, there}
MCPlaces == [e \in End |-> IF e = "PICKUP" THEN {near, far} ELSE {there}]

\* From far the trip is longer than a trip may be.
MCKm == [e \in MCPoint \X MCPoint |->
           CASE e = <<near, there>> -> 120 [] e = <<far, there>> -> 1200 [] OTHER -> 0]
MCTripFare == [e \in MCPoint \X MCPoint |-> IF e = <<near, there>> THEN 4100 ELSE 4200]
MCTier == {"PREMIUM", "BIKE"}
==============================================================================
