--------------------------------- MODULE Fare ---------------------------------
(***************************************************************************)
(* The money of the browser applications, in cents: the price of a tier    *)
(* for a driving distance and the share of it the platform keeps.          *)
(*                                                                         *)
(* A distance is in tenths of a kilometre, which is what the directions    *)
(* lookup rounds it to, so every price is a whole number of cents.  The    *)
(* platform's share is rounded to cents from a binary fraction: a share    *)
(* that falls on half a cent may go either way.                            *)
(***************************************************************************)
EXTENDS Integers

\* The vehicle tiers: base price, and price of a tenth of a kilometre.
VEHICLE_TIERS == [
  PREMIUM |-> [basePrice |-> 2500, perTenth |-> 45],
  SEDAN   |-> [basePrice |-> 1500, perTenth |-> 32],
  SUV     |-> [basePrice |-> 3500, perTenth |-> 58],
  BIKE    |-> [basePrice |-> 800,  perTenth |-> 20]]

Tiers == DOMAIN VEHICLE_TIERS

\* The price asked for a tier: an unknown distance, 0, costs the base price.
TierPrice(tier, km) ==
  VEHICLE_TIERS[tier].basePrice
    + (IF km > 0 THEN VEHICLE_TIERS[tier].perTenth * km ELSE 0)

\* The platform's share of a fare, in percent.
FeeRate(fare) ==
  CASE fare <= 2000  -> 15
    [] fare > 2000 /\ fare <= 4000  -> 20
    [] fare > 4000 /\ fare <= 7000  -> 25
    [] fare > 7000 /\ fare <= 10000 -> 30
    [] OTHER -> 35

\* The platform's share in cents, and what is left to the driver.
IsFee(fare, fee) ==
  /\ fee \in Int
  /\ 2 * (100 * fee - fare * FeeRate(fare)) \in -100 .. 100
DriverNet(fare, fee) == fare - fee
===============================================================================
