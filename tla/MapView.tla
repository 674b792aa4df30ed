-------------------------------- MODULE MapView --------------------------------
(***************************************************************************)
(* What the map component decides from the properties a page gives it:     *)
(* which two points the drawn road joins, which marker can be dragged and  *)
(* which is shown.  The pages own the state; the road itself is an         *)
(* asynchronous lookup, which Booking keeps with its other lookups.        *)
(***************************************************************************)

CONSTANTS
  Point,     \* places on the map
  NoPoint,   \* a pin that is not set
  Car,       \* where the driver's car is
  NoLine     \* no road is drawn

Pins == Point \cup {NoPoint}
Legs == {"NONE", "TO_PICKUP", "TO_DESTINATION"}

\* The ends of the road the map asks for.  A leg with no car or no pin to drive to
\* falls through to the road between the two pins.
LineEnds(leg, car, pickup, dropoff) ==
  IF leg = "TO_PICKUP" /\ car # NoPoint /\ pickup # NoPoint THEN <<car, pickup>>
  ELSE IF leg = "TO_DESTINATION" /\ car # NoPoint /\ dropoff # NoPoint
    THEN <<car, dropoff>>
  ELSE IF pickup # NoPoint /\ dropoff # NoPoint THEN <<pickup, dropoff>>
  ELSE NoLine

\* The pickup marker is hidden once the ride is under way; both markers can be
\* dragged while no leg is driven, a request being matched included.
PickupDraggable(leg, pin) == pin # NoPoint /\ leg = "NONE"
DropoffDraggable(leg, pin) == pin # NoPoint /\ leg = "NONE"
================================================================================
