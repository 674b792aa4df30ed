---------------------------- MODULE BookingProofs ----------------------------
(***************************************************************************)
(* Proofs about Booking, for any places, roads, prices and bounds, and     *)
(* about the money of Fare for every distance and fare.                    *)
(*                                                                         *)
(* The inductive invariant gives what is under way its types, and says     *)
(* what each lookup, call and offer still has to do with the page: a       *)
(* lookup is for the road wanted now (LookupsAgree), a request was made of *)
(* what it says (CallsAgree), and no two requests share a number           *)
(* (Numbered).                                                             *)
(***************************************************************************)
EXTENDS Booking, FiniteSetTheorems, TLAPS

CallType == [n : Nat, step : {"card", "create", "answer"}, live : BOOLEAN,
             from : Point, to : Point, tier : Tier, fare : Nat, shown : Nat, sure : BOOLEAN]
OfferType == [n : Nat \ {0}, known : BOOLEAN, from : Point, to : Point, tier : Tier,
              fare : Nat, shown : Nat, sure : BOOLEAN, pin : Nat]
TripType == [n : Nat, from : Point, to : Point, tier : Tier, fare : Nat]
Road == (Point \cup {Car}) \X Point

\* The types, with those of calls, offers and trips; a trip the page holds was offered.
Typed ==
  /\ TypeOK
  /\ calls \subseteq CallType /\ offers \subseteq OfferType /\ trips \subseteq TripType
  /\ current # NoRequest => \E o \in offers : o.n = current

-----------------------------------------------------------------------------
(* Money *)

\* A price is never less than the base price, and grows with the distance.
THEOREM PriceGrows ==
  ASSUME NEW t \in Tiers, NEW k \in Nat, NEW m \in Nat, k <= m
  PROVE  /\ TierPrice(t, k) \in Nat
         /\ VEHICLE_TIERS[t].basePrice <= TierPrice(t, k)
         /\ TierPrice(t, k) <= TierPrice(t, m)
<1>1. t \in {"PREMIUM", "SEDAN", "SUV", "BIKE"}
  BY DEF Tiers, VEHICLE_TIERS
<1>. QED BY <1>1 DEF TierPrice, VEHICLE_TIERS

\* The platform's share of a fare is a part of it: a driver is never paid less than
\* nothing, nor more than the fare.
THEOREM FeeIsAShare ==
  ASSUME NEW fare \in Nat, NEW fee, IsFee(fare, fee)
  PROVE  0 <= fee /\ fee <= fare /\ DriverNet(fare, fee) \in 0 .. fare
<1>1. fee \in Int /\ 2 * (100 * fee - fare * FeeRate(fare)) \in -100 .. 100
  BY DEF IsFee
<1>2. CASE fare <= 2000
  <2>1. FeeRate(fare) = 15
    BY <1>2 DEF FeeRate
  <2>. QED BY <1>1, <2>1 DEF DriverNet
<1>3. CASE fare > 2000 /\ fare <= 4000
  <2>1. FeeRate(fare) = 20
    BY <1>3 DEF FeeRate
  <2>. QED BY <1>1, <2>1 DEF DriverNet
<1>4. CASE fare > 4000 /\ fare <= 7000
  <2>1. FeeRate(fare) = 25
    BY <1>4 DEF FeeRate
  <2>. QED BY <1>1, <2>1 DEF DriverNet
<1>5. CASE fare > 7000 /\ fare <= 10000
  <2>1. FeeRate(fare) = 30
    BY <1>5 DEF FeeRate
  <2>. QED BY <1>1, <2>1 DEF DriverNet
<1>6. CASE fare > 10000
  <2>1. FeeRate(fare) = 35
    BY <1>6 DEF FeeRate
  <2>. QED BY <1>1, <2>1 DEF DriverNet
<1>. QED BY <1>2, <1>3, <1>4, <1>5, <1>6

-----------------------------------------------------------------------------
(* The steps *)

\* The disjuncts of a step.
LEMMA StepCases ==
  ASSUME [Next]_vars
  PROVE  \/ \E e \in End : \E p \in Places[e] : handleMapClick(e, p)
         \/ \E p \in Places["PICKUP"] : handlePickupDrag(p)
         \/ \E p \in Places["DROPOFF"] : handleDropoffDrag(p)
         \/ \E g \in geo : GeoReply(g)
         \/ \E l \in lookups : RouteReply(l)
         \/ CarMoves
         \/ \E e \in End : TypeText(e) \/ ClearEnd(e) \/ TogglePin(e)
         \/ \E t \in Tier : SelectTier(t) \/ Rebook(t)
         \/ \E s \in BOOLEAN : PressSignedOut(s) \/ LeavePage(s) \/ ReloadPage(s)
         \/ PressRequest
         \/ \E c \in calls : CardReady(c) \/ CardFails(c) \/ CreateTrip(c)
                            \/ CreateReply(c) \/ CreateFails(c)
         \/ \E s \in Events : TripStatus(s)
         \/ SubmitRating
         \/ handleCancelTrip
         \/ UNCHANGED vars
BY DEF Next, Edit, PressX, CancelMatching, BookAnother

\* The tiers are priced, and the ends of a map's road are a road.
LEMMA TierPriced ==
  ASSUME NEW t \in Tier, NEW k \in Nat
  PROVE  TierPrice(t, k) \in Nat
<1>1. t \in Tiers
  BY BookingAssumption
<1>2. k <= k
  OBVIOUS
<1>. QED BY <1>1, <1>2, PriceGrows

LEMMA LineIsRoad ==
  ASSUME NEW p \in [End -> Pins], NEW s
  PROVE  ShownLine(p, s) \in Road \cup {NoLine}
BY DEF ShownLine, LineEnds, Road, End, Pins

\* What the page shows keeps its types.
LEMMA ShowsTyped ==
  ASSUME TypeOK, NEW p \in [End -> Pins], NEW s \in Stages, Shows(p, s)
  PROVE  /\ pins' \in [End -> Pins] /\ stage' \in Stages /\ quote' \in Nat
         /\ line' \in {NoLine} \cup Road
         /\ failed' \in [Asker -> BOOLEAN]
         /\ \A l \in lookups' : /\ l.who \in Asker
                                /\ l.who = "form" => l.ends \in Point \X Point
                                /\ l.ends \in Road
<1>1. \A w \in Asker : Wants(w, p, s) # NoLine =>
         /\ w = "form" => Wants(w, p, s) \in Point \X Point
         /\ Wants(w, p, s) \in Road
  <2>1. Placed(p) => <<p["PICKUP"], p["DROPOFF"]>> \in Point \X Point
    BY DEF Placed, End, Pins
  <2>. QED BY <2>1, LineIsRoad DEF Wants, Asker, Road
<1>2. \A l \in Asking(p, s) : l.who \in Asker /\ l.ends = Wants(l.who, p, s)
                              /\ Wants(l.who, p, s) # NoLine
  BY DEF Asking
<1>3. \A l \in lookups' : l \in lookups \/ l \in Asking(p, s)
  BY DEF Shows, AfterAsking
<1>4. \A l \in lookups' : /\ l.who \in Asker
                          /\ l.who = "form" => l.ends \in Point \X Point
                          /\ l.ends \in Road
  BY <1>1, <1>2, <1>3 DEF TypeOK, Road
<1>5. failed' \in [Asker -> BOOLEAN]
  BY DEF Shows, TypeOK
<1>. QED BY <1>4, <1>5 DEF Shows, TypeOK, Road

\* The pins, the stage and the roads change only as these steps say.
LEMMA RoadSteps ==
  ASSUME TypeOK, [Next]_vars
  PROVE  \/ \E p \in [End -> Pins], s \in Stages : Shows(p, s)
         \/ \E l \in lookups : RouteReply(l)
         \/ CarMoves
         \/ \E s \in BOOLEAN : Mounts(s)
         \/ UNCHANGED <<pins, stage, lookups, quote, line, failed>>
<1> USE DEF form, ride, async, outside, ghosts, bounds
<1>1. pins \in [End -> Pins] /\ stage \in Stages
  BY DEF TypeOK
<1>2. ASSUME NEW e \in End, NEW p \in Places[e], PinLands(e, p)
      PROVE  \E q \in [End -> Pins], s \in Stages : Shows(q, s)
  <2>1. [pins EXCEPT ![e] = p] \in [End -> Pins]
    BY <1>1, <1>2, BookingAssumption DEF End, Pins
  <2>. QED BY <1>1, <1>2, <2>1 DEF PinLands
<1>3. ASSUME NEW e \in End, ClearEnd(e)
      PROVE  \E q \in [End -> Pins], s \in Stages : Shows(q, s)
  <2>1. [pins EXCEPT ![e] = NoPoint] \in [End -> Pins]
    BY <1>1 DEF Pins
  <2>. QED BY <1>1, <1>3, <2>1 DEF ClearEnd
<1>4. ASSUME handleResetToBooking
      PROVE  \E q \in [End -> Pins], s \in Stages : Shows(q, s)
  <2>1. [e \in End |-> NoPoint] \in [End -> Pins] /\ "idle" \in Stages
    BY DEF Pins, Stages
  <2>. QED BY <1>4, <2>1 DEF handleResetToBooking
<1>5. ASSUME NEW s \in Events, TripStatus(s)
      PROVE  \E q \in [End -> Pins], r \in Stages : Shows(q, r)
  BY <1>1, <1>5 DEF TripStatus, Events, Stages
<1>6. ASSUME SubmitRating
      PROVE  \E q \in [End -> Pins], r \in Stages : Shows(q, r)
  BY <1>1, <1>6 DEF SubmitRating, Stages
<1>7. ASSUME NEW c \in calls, CardReady(c)
      PROVE  \/ \E q \in [End -> Pins], r \in Stages : Shows(q, r)
             \/ UNCHANGED <<pins, stage, lookups, quote, line, failed>>
  BY <1>1, <1>7 DEF CardReady, Stages
<1>8. ASSUME \/ \E g \in geo : GeoReply(g)
             \/ \E e \in End : TypeText(e) \/ TogglePin(e)
             \/ \E t \in Tier : SelectTier(t)
             \/ PressRequest
             \/ \E c \in calls : CardFails(c) \/ CreateTrip(c) \/ CreateReply(c) \/ CreateFails(c)
             \/ UNCHANGED vars
      PROVE  UNCHANGED <<pins, stage, lookups, quote, line, failed>>
  BY <1>8 DEF GeoReply, TypeText, TogglePin, SelectTier, PressRequest, CardFails,
              CreateTrip, CreateReply, CreateFails, Broadcasts, vars
<1>. QED
  BY <1>2, <1>3, <1>4, <1>5, <1>6, <1>7, <1>8, StepCases
     DEF handleMapClick, handlePickupDrag, handleDropoffDrag, Rebook, handleCancelTrip,
         PressSignedOut, LeavePage, ReloadPage, End

-----------------------------------------------------------------------------
(* Roads *)

\* A lookup under way is for the road its asker wants now.
LookupsAgree ==
  \A l \in lookups : l.ends = Wants(l.who, pins, stage) /\ l.ends # NoLine

\* The roads of the form and of the map are those shown, or are waited for.
Roads == LookupsAgree /\ QuoteAgrees /\ LineAgrees

\* A road that is wanted joins the two pins shown.
LEMMA FormWants ==
  ASSUME NEW p, NEW s
  PROVE  /\ Wants("form", p, s) =
              IF Placed(p) THEN <<p["PICKUP"], p["DROPOFF"]>> ELSE NoLine
         /\ Wants("map", p, s) = ShownLine(p, s)
BY DEF Wants

\* A page that shows other pins drops the lookups of the old ones and asks again.
LEMMA ShowsRoads ==
  ASSUME TypeOK, Roads, NEW p \in [End -> Pins], NEW s \in Stages, Shows(p, s)
  PROVE  Roads'
<1>1. LookupsAgree'
  <2> SUFFICES ASSUME NEW l \in lookups'
               PROVE  l.ends = Wants(l.who, p, s) /\ l.ends # NoLine
    BY DEF LookupsAgree, Shows
  <2>1. CASE l \in Asking(p, s)
    BY <2>1 DEF Asking
  <2>2. CASE l \in lookups /\ ~ Asks(l.who, p, s)
    <3>1. p = pins /\ (l.who = "map" => ShownLine(p, s) = ShownLine(pins, stage))
          /\ l.who \in Asker
      BY <2>2 DEF Asks, TypeOK
    <3>2. Wants(l.who, p, s) = Wants(l.who, pins, stage)
      BY <3>1, FormWants DEF Asker
    <3>. QED BY <2>2, <3>2 DEF Roads, LookupsAgree
  <2>. QED BY <2>1, <2>2 DEF Shows, AfterAsking
<1>2. ASSUME NEW w \in Asker, Asks(w, p, s), Wants(w, p, s) # NoLine
      PROVE  Waiting(w)'
  <2>1. [who |-> w, ends |-> Wants(w, p, s)] \in Asking(p, s)
    BY <1>2 DEF Asking
  <2>. QED BY <2>1 DEF Waiting, Shows, AfterAsking
<1>3. ASSUME NEW w \in Asker, ~ Asks(w, p, s)
      PROVE  /\ Waiting(w) => Waiting(w)'
             /\ failed'[w] = failed[w]
  BY <1>3 DEF Waiting, Shows, AfterAsking, TypeOK
<1>4. QuoteAgrees'
  <2>1. CASE Asks("form", p, s)
    <3>1. Placed(p) => Waiting("form")'
      <4>1. Placed(p) => Wants("form", p, s) # NoLine
        <5>1. Placed(p) => p["PICKUP"] \in Point /\ p["DROPOFF"] \in Point
          BY DEF Placed, End, Pins
        <5>2. \A x, y \in Point : <<x, y>> # NoLine
          <6>1. NoLine \notin Road
            BY BookingAssumption DEF Road
          <6>. QED BY <6>1 DEF Road
        <5>. QED BY <5>1, <5>2, FormWants
      <4>. QED BY <1>2, <2>1, <4>1 DEF Asker
    <3>2. ~ Placed(p) => quote' = 0
      BY <2>1 DEF Shows
    <3>3. pins' = p
      BY DEF Shows
    <3>. QED BY <3>1, <3>2, <3>3 DEF QuoteAgrees, Placed
  <2>2. CASE ~ Asks("form", p, s)
    <3>1. pins' = pins /\ quote' = quote
      BY <2>2 DEF Asks, Shows
    <3>. QED BY <1>3, <2>2, <3>1 DEF QuoteAgrees, Roads, Asker, Placed, RoadOf
  <2>. QED BY <2>1, <2>2
<1>5. LineAgrees'
  <2>1. CASE Asks("map", p, s)
    <3>1. ShownLine(p, s) # NoLine => Waiting("map")'
      BY <1>2, <2>1, FormWants DEF Asker
    <3>2. ShownLine(p, s) = NoLine => line' = NoLine
      BY <2>1 DEF Shows
    <3>3. pins' = p /\ stage' = s
      BY DEF Shows
    <3>. QED BY <3>1, <3>2, <3>3 DEF LineAgrees
  <2>2. CASE ~ Asks("map", p, s)
    <3>1. pins' = p /\ stage' = s /\ line' = line
          /\ ShownLine(p, s) = ShownLine(pins, stage)
      BY <2>2 DEF Asks, Shows
    <3>. QED BY <1>3, <2>2, <3>1 DEF LineAgrees, Roads, Asker
  <2>. QED BY <2>1, <2>2
<1>. QED BY <1>1, <1>4, <1>5 DEF Roads

LEMMA RoadsStep == TypeOK /\ Roads /\ [Next]_vars => Roads'
<1> SUFFICES ASSUME TypeOK, Roads, [Next]_vars PROVE Roads'
  OBVIOUS
<1>1. ASSUME NEW l \in lookups, RouteReply(l)
      PROVE  Roads'
  <2>1. UNCHANGED <<pins, stage>> /\ lookups' = lookups \ {l}
    BY <1>1 DEF RouteReply, ride
  <2>2. l.who \in Asker /\ l.ends = Wants(l.who, pins, stage) /\ l.ends # NoLine
    BY DEF Roads, LookupsAgree, TypeOK
  <2>3. LookupsAgree'
    BY <2>1 DEF Roads, LookupsAgree, Wants, Placed, ShownLine
  <2>4. \A m \in lookups : m.who # l.who => m \in lookups'
    BY <2>1
  <2>5. ASSUME failed' = [failed EXCEPT ![l.who] = TRUE], UNCHANGED <<quote, line>>
        PROVE  QuoteAgrees' /\ LineAgrees'
    BY <2>1, <2>2, <2>4, <2>5
       DEF Roads, QuoteAgrees, LineAgrees, Waiting, TypeOK, Asker, Placed, RoadOf, ShownLine
  <2>6. ASSUME quote' = IF l.who = "form" THEN Km[l.ends] ELSE quote,
               line' = IF l.who = "map" THEN l.ends ELSE line, failed' = failed
        PROVE  QuoteAgrees' /\ LineAgrees'
    <3>1. CASE l.who = "form"
      <4>1. Placed(pins) /\ quote' = RoadOf(pins)
        BY <2>2, <2>6, <3>1, FormWants DEF RoadOf
      <4>2. LineAgrees'
        BY <2>1, <2>4, <2>6, <3>1 DEF Roads, LineAgrees, Waiting, ShownLine
      <4>. QED BY <2>1, <4>1, <4>2 DEF QuoteAgrees, RoadOf, Placed
    <3>2. CASE l.who = "map"
      <4>1. line' = ShownLine(pins, stage)
        BY <2>2, <2>6, <3>2, FormWants
      <4>2. QuoteAgrees'
        BY <2>1, <2>4, <2>6, <3>2 DEF Roads, QuoteAgrees, Waiting, Placed, RoadOf
      <4>. QED BY <2>1, <4>1, <4>2 DEF LineAgrees, ShownLine
    <3>. QED BY <2>2, <3>1, <3>2 DEF Asker
  <2>7. QuoteAgrees' /\ LineAgrees'
    BY <1>1, <2>5, <2>6 DEF RouteReply
  <2>. QED BY <2>3, <2>7 DEF Roads
<1>2. CASE CarMoves
  <2>1. UNCHANGED <<pins, stage, quote, line>> /\ ShownLine(pins, stage) # NoLine
        /\ lookups' = lookups \cup {[who |-> "map", ends |-> ShownLine(pins, stage)]}
        /\ failed'["form"] = failed["form"]
    BY <1>2 DEF CarMoves, form, ride, TypeOK, Asker
  <2>2. LookupsAgree'
    <3>1. pins' = pins /\ stage' = stage
      BY <2>1
    <3>2. \A l \in lookups' : l.ends = Wants(l.who, pins, stage) /\ l.ends # NoLine
      BY <2>1, FormWants DEF Roads, LookupsAgree
    <3>. QED BY <3>1, <3>2 DEF LookupsAgree
  <2>3. Waiting("map")'
    <3> DEFINE l == [who |-> "map", ends |-> ShownLine(pins, stage)]
    <3>1. l \in lookups'
      BY <2>1
    <3>2. l.who = "map"
      OBVIOUS
    <3> HIDE DEF l
    <3>. QED BY <3>1, <3>2 DEF Waiting
  <2>4. Waiting("form") => Waiting("form")'
    BY <2>1 DEF Waiting
  <2>. QED BY <2>1, <2>2, <2>3, <2>4 DEF Roads, QuoteAgrees, LineAgrees, Placed, RoadOf
<1>3. ASSUME NEW s \in BOOLEAN, Mounts(s)
      PROVE  Roads'
  <2>1. lookups' = {} /\ quote' = 0 /\ line' = NoLine /\ stage' = "idle"
        /\ pins' = [e \in End |-> NoPoint]
    BY <1>3 DEF Mounts
  <2>2. ~ Placed(pins')
    BY <2>1 DEF Placed, End
  <2>3. ShownLine(pins', stage') = NoLine
    BY <2>1 DEF ShownLine, LineEnds, ActiveLeg, End
  <2>. QED BY <2>1, <2>2, <2>3 DEF Roads, LookupsAgree, QuoteAgrees, LineAgrees, Placed
<1>4. CASE UNCHANGED <<pins, stage, lookups, quote, line, failed>>
  BY <1>4 DEF Roads, LookupsAgree, QuoteAgrees, LineAgrees, Waiting, Wants, Placed,
              RoadOf, ShownLine
<1>. QED BY <1>1, <1>2, <1>3, <1>4, RoadSteps, ShowsRoads

-----------------------------------------------------------------------------
(* Types *)

\* The types in three parts: the roads, the fields of the form, and the requests.
RoadTypes ==
  /\ pins \in [End -> Pins] /\ quote \in Nat /\ stage \in Stages
  /\ line \in {NoLine} \cup Road /\ failed \in [Asker -> BOOLEAN]
  /\ \A l \in lookups : /\ l.who \in Asker
                        /\ l.who = "form" => l.ends \in Point \X Point
                        /\ l.ends \in Road

FormTypes ==
  /\ text \in [End -> Texts \cup Point]
  /\ pinMode \in End \cup {"none"} /\ tier \in Tier
  /\ geo \subseteq [end : End, point : Point, old : BOOLEAN]
  /\ late \in [End -> BOOLEAN]
  /\ session \in BOOLEAN /\ pending \in BOOLEAN

RequestTypes ==
  /\ pin \in Nat /\ modal \in BOOLEAN /\ crossed \in BOOLEAN
  /\ spent \in Nat /\ asked \in Nat /\ faults \in Nat
  /\ calls \subseteq CallType /\ \A c \in calls : c.n \in 1 .. asked
  /\ cut \subseteq 1 .. asked

OfferTypes ==
  /\ current \in Nat /\ receipt \in [n : Nat, fare : Nat]
  /\ offers \subseteq OfferType /\ trips \subseteq TripType
  /\ current # NoRequest => \E o \in offers : o.n = current

LEMMA TypedParts == Typed <=> RoadTypes /\ FormTypes /\ RequestTypes /\ OfferTypes
BY DEF Typed, TypeOK, RoadTypes, FormTypes, RequestTypes, OfferTypes, Road, CallType

LEMMA RoadTypesStep == Typed /\ [Next]_vars => RoadTypes'
<1> SUFFICES ASSUME Typed, [Next]_vars PROVE RoadTypes'
  OBVIOUS
<1>a. TypeOK /\ RoadTypes
  BY TypedParts DEF Typed
<1>1. ASSUME NEW p \in [End -> Pins], NEW s \in Stages, Shows(p, s)
      PROVE  RoadTypes'
  BY <1>a, <1>1, ShowsTyped DEF RoadTypes
<1>2. ASSUME NEW l \in lookups, RouteReply(l)
      PROVE  RoadTypes'
  <2>1. UNCHANGED <<pins, stage>> /\ lookups' \subseteq lookups
    BY <1>2 DEF RouteReply, ride
  <2>2. l.who = "form" => Km[l.ends] \in Nat
    BY <1>a, BookingAssumption DEF RoadTypes
  <2>3. quote' \in Nat /\ line' \in {NoLine} \cup Road /\ failed' \in [Asker -> BOOLEAN]
    BY <1>a, <1>2, <2>2 DEF RoadTypes, RouteReply
  <2>. QED BY <1>a, <2>1, <2>3 DEF RoadTypes
<1>3. CASE CarMoves
  <2>1. UNCHANGED <<pins, stage, quote, line>> /\ failed' \in [Asker -> BOOLEAN]
    BY <1>a, <1>3 DEF CarMoves, form, ride, RoadTypes
  <2>2. ShownLine(pins, stage) \in Road
    BY <1>a, <1>3, LineIsRoad DEF CarMoves, RoadTypes
  <2>3. \A l \in lookups' : l \in lookups \/ l = [who |-> "map", ends |-> ShownLine(pins, stage)]
    BY <1>3 DEF CarMoves
  <2>. QED BY <1>a, <2>1, <2>2, <2>3 DEF RoadTypes, Asker
<1>4. ASSUME NEW s \in BOOLEAN, Mounts(s)
      PROVE  RoadTypes'
  BY <1>4 DEF Mounts, RoadTypes, Pins, Stages
<1>5. CASE UNCHANGED <<pins, stage, lookups, quote, line, failed>>
  BY <1>a, <1>5 DEF RoadTypes
<1>. QED BY <1>a, <1>1, <1>2, <1>3, <1>4, <1>5, RoadSteps

LEMMA OlderTyped ==
  ASSUME geo \subseteq [end : End, point : Point, old : BOOLEAN], NEW E
  PROVE  Older(E) \subseteq [end : End, point : Point, old : BOOLEAN]
BY DEF Older

LEMMA FormTypesStep == Typed /\ [Next]_vars => FormTypes'
<1> SUFFICES ASSUME Typed, [Next]_vars PROVE FormTypes'
  OBVIOUS
<1> USE DEF form, ride, async, outside, ghosts, bounds
<1>a. FormTypes
  BY TypedParts
<1>b. \A E : Older(E) \subseteq [end : End, point : Point, old : BOOLEAN]
  BY <1>a, OlderTyped DEF FormTypes
<1>1. ASSUME NEW e \in End, NEW p \in Places[e], PinLands(e, p),
             pinMode' = pinMode \/ pinMode' = "none"
      PROVE  FormTypes'
  <2>1. p \in Point
    BY BookingAssumption DEF End
  <2>2. geo' \subseteq [end : End, point : Point, old : BOOLEAN]
    <3>1. [end |-> e, point |-> p, old |-> FALSE]
            \in [end : End, point : Point, old : BOOLEAN]
      BY <2>1
    <3>2. geo' = Older({e}) \cup {[end |-> e, point |-> p, old |-> FALSE]}
      BY <1>1 DEF PinLands
    <3>. QED BY <1>b, <3>1, <3>2
  <2>3. text' \in [End -> Texts \cup Point] /\ late' \in [End -> BOOLEAN]
    BY <1>a, <1>1 DEF PinLands, FormTypes, Texts
  <2>4. UNCHANGED <<tier, session, pending>>
    BY <1>1 DEF PinLands
  <2>. QED BY <1>a, <1>1, <2>2, <2>3, <2>4 DEF FormTypes
<1>2. ASSUME NEW g \in geo, GeoReply(g)
      PROVE  FormTypes'
  <2>1. g \in [end : End, point : Point, old : BOOLEAN]
    BY <1>a DEF FormTypes
  <2>2. text' \in [End -> Texts \cup Point] /\ late' \in [End -> BOOLEAN]
    BY <1>a, <1>2, <2>1 DEF GeoReply, FormTypes, AddressOf
  <2>. QED BY <1>a, <1>2, <2>2 DEF GeoReply, FormTypes
<1>3. ASSUME NEW e \in End, TypeText(e) \/ TogglePin(e)
      PROVE  FormTypes'
  BY <1>a, <1>3 DEF TypeText, TogglePin, FormTypes, Texts
<1>4. ASSUME NEW e \in End, ClearEnd(e)
      PROVE  FormTypes'
  <2>1. text' \in [End -> Texts \cup Point] /\ late' \in [End -> BOOLEAN]
    BY <1>a, <1>4 DEF ClearEnd, FormTypes, Texts
  <2>2. geo' \subseteq [end : End, point : Point, old : BOOLEAN]
    BY <1>4, <1>b DEF ClearEnd
  <2>. QED BY <1>a, <1>4, <2>1, <2>2 DEF ClearEnd, FormTypes
<1>5. ASSUME handleResetToBooking, tier' \in Tier
      PROVE  FormTypes'
  <2>1. geo' \subseteq [end : End, point : Point, old : BOOLEAN]
    BY <1>5, <1>b DEF handleResetToBooking
  <2>. QED BY <1>a, <1>5, <2>1 DEF handleResetToBooking, FormTypes, Texts
<1>6. ASSUME NEW s \in BOOLEAN, Mounts(s), pending' \in BOOLEAN
      PROVE  FormTypes'
  BY <1>6, BookingAssumption DEF Mounts, FormTypes, Texts
<1>7. ASSUME NEW c \in calls, CardReady(c)
      PROVE  FormTypes'
  BY <1>a, <1>7 DEF CardReady, FormTypes
<1>8. ASSUME PressRequest \/ \E t \in Tier : SelectTier(t)
      PROVE  FormTypes'
  BY <1>a, <1>8 DEF PressRequest, SelectTier, FormTypes
<1>9. ASSUME \/ \E l \in lookups : RouteReply(l)
             \/ CarMoves
             \/ \E c \in calls : CardFails(c) \/ CreateTrip(c) \/ CreateReply(c) \/ CreateFails(c)
             \/ \E s \in Events : TripStatus(s)
             \/ SubmitRating
             \/ UNCHANGED vars
      PROVE  FormTypes'
  BY <1>a, <1>9
     DEF RouteReply, CarMoves, CardFails, CreateTrip, CreateReply, CreateFails, Broadcasts,
         TripStatus, SubmitRating, vars, FormTypes
<1>10. FormTypes => tier \in Tier /\ pending \in BOOLEAN
  BY DEF FormTypes
<1>. QED
  BY <1>a, <1>1, <1>2, <1>3, <1>4, <1>5, <1>6, <1>7, <1>8, <1>9, <1>10, StepCases
     DEF handleMapClick, handlePickupDrag, handleDropoffDrag, Rebook, handleCancelTrip,
         PressSignedOut, LeavePage, ReloadPage, End

\* What a request the rider presses is made of.
LEMMA PressedTyped ==
  ASSUME Typed, PressRequest
  PROVE  \E c \in CallType :
           /\ calls' = calls \cup {c} /\ c.n = asked + 1 /\ c.step = "card" /\ c.live
           /\ c.from = pins["PICKUP"] /\ c.to = pins["DROPOFF"] /\ c.tier = tier
           /\ c.fare = TierPrice(tier, quote) /\ c.shown = ShownFare
           /\ c.sure <=> ~ failed["form"] /\ ~ Waiting("form")
<1> DEFINE c == [n |-> asked + 1, step |-> "card", live |-> TRUE,
                 from |-> pins["PICKUP"], to |-> pins["DROPOFF"], tier |-> tier,
                 fare |-> TierPrice(tier, quote), shown |-> ShownFare,
                 sure |-> ~ failed["form"] /\ ~ \E l \in lookups : l.who = "form"]
<1>1. Placed(pins) /\ asked \in Nat /\ tier \in Tier /\ quote \in Nat
      /\ pins \in [End -> Pins]
  BY DEF PressRequest, MayBook, MayRequest, Typed, TypeOK
<1>2. pins["PICKUP"] \in Point /\ pins["DROPOFF"] \in Point
  BY <1>1 DEF Placed, End, Pins
<1>3. TierPrice(tier, quote) \in Nat /\ ShownFare \in Nat
  BY <1>1, TierPriced DEF ShownFare
<1>4. c \in CallType
  BY <1>1, <1>2, <1>3 DEF CallType
<1>5. calls' = calls \cup {c}
  BY DEF PressRequest
<1>6. c.n = asked + 1 /\ c.step = "card" /\ c.live
      /\ c.from = pins["PICKUP"] /\ c.to = pins["DROPOFF"] /\ c.tier = tier
      /\ c.fare = TierPrice(tier, quote) /\ c.shown = ShownFare
      /\ (c.sure <=> ~ failed["form"] /\ ~ Waiting("form"))
  BY DEF Waiting
<1> HIDE DEF c
<1>. QED BY <1>4, <1>5, <1>6

\* The request that goes on, from the card to the trip service or there to its answer.
LEMMA ReadyTyped ==
  ASSUME Typed, NEW c \in calls, CardReady(c) \/ CreateTrip(c)
  PROVE  \E d \in CallType :
           /\ calls' = (calls \ {c}) \cup {d}
           /\ d.step = IF c.step = "card" THEN "create" ELSE "answer"
           /\ d.n = c.n /\ d.live = c.live /\ d.from = c.from /\ d.to = c.to
           /\ d.tier = c.tier /\ d.fare = c.fare /\ d.shown = c.shown /\ d.sure = c.sure
<1> DEFINE d == [c EXCEPT !.step = IF c.step = "card" THEN "create" ELSE "answer"]
<1>1. c \in CallType
  BY DEF Typed
<1>2. d \in CallType /\ d.step = (IF c.step = "card" THEN "create" ELSE "answer")
      /\ d.n = c.n /\ d.live = c.live /\ d.from = c.from /\ d.to = c.to
      /\ d.tier = c.tier /\ d.fare = c.fare /\ d.shown = c.shown /\ d.sure = c.sure
  BY <1>1 DEF CallType
<1>3. calls' = (calls \ {c}) \cup {d}
  BY DEF CardReady, CreateTrip
<1> HIDE DEF d
<1>. QED BY <1>2, <1>3

\* The requests of a page that has been left.
LEMMA LeftTyped ==
  ASSUME Typed, RequestsRunOn
  PROVE  /\ \A d \in calls' : /\ d \in CallType /\ ~ d.live
              /\ \E c \in calls :
                   /\ d.step = c.step /\ d.n = c.n /\ d.from = c.from /\ d.to = c.to
                   /\ d.tier = c.tier /\ d.fare = c.fare /\ d.shown = c.shown
                   /\ d.sure = c.sure
         /\ \A c \in calls : \E d \in calls' :
              /\ d.step = c.step /\ d.n = c.n /\ Trip(d) = Trip(c)
<1>1. calls' = {[c EXCEPT !.live = FALSE] : c \in calls}
  BY DEF RequestsRunOn
<1>2. ASSUME NEW c \in calls, NEW d, d = [c EXCEPT !.live = FALSE]
      PROVE  /\ d \in CallType /\ ~ d.live
             /\ d.step = c.step /\ d.n = c.n /\ d.from = c.from /\ d.to = c.to
             /\ d.tier = c.tier /\ d.fare = c.fare /\ d.shown = c.shown
             /\ d.sure = c.sure /\ Trip(d) = Trip(c)
  BY <1>2 DEF Typed, CallType, Trip
<1>3. ASSUME NEW d \in calls'
      PROVE  /\ d \in CallType /\ ~ d.live
             /\ \E c \in calls :
                  /\ d.step = c.step /\ d.n = c.n /\ d.from = c.from /\ d.to = c.to
                  /\ d.tier = c.tier /\ d.fare = c.fare /\ d.shown = c.shown
                  /\ d.sure = c.sure
  <2>1. PICK c \in calls : d = [c EXCEPT !.live = FALSE]
    BY <1>1
  <2>. QED BY <1>2, <2>1
<1>4. ASSUME NEW c \in calls
      PROVE  \E d \in calls' : d.step = c.step /\ d.n = c.n /\ Trip(d) = Trip(c)
  <2> DEFINE d == [c EXCEPT !.live = FALSE]
  <2>1. d \in calls'
    BY <1>1
  <2>2. d.step = c.step /\ d.n = c.n /\ Trip(d) = Trip(c)
    BY <1>2
  <2>. QED BY <2>1, <2>2
<1>. QED BY <1>3, <1>4

\* A step leaves the requests alone, or is one of these.
LEMMA RequestSteps ==
  ASSUME [Next]_vars
  PROVE  \/ UNCHANGED <<calls, asked, offers, trips, cut>>
         \/ \E s \in BOOLEAN : Mounts(s) /\ RequestsRunOn
         \/ \E s \in BOOLEAN : ReloadPage(s)
         \/ PressRequest
         \/ \E c \in calls : CardReady(c) \/ CardFails(c) \/ CreateTrip(c)
                            \/ CreateReply(c) \/ CreateFails(c)
BY StepCases
   DEF handleMapClick, handlePickupDrag, handleDropoffDrag, PinLands, GeoReply, RouteReply,
       CarMoves, TypeText, ClearEnd, TogglePin, SelectTier, Rebook, handleCancelTrip,
       handleResetToBooking, PressSignedOut, LeavePage, TripStatus, SubmitRating,
       form, ride, async, outside, ghosts, bounds, vars

LEMMA RequestTypesStep == Typed /\ [Next]_vars => RequestTypes'
<1> SUFFICES ASSUME Typed, [Next]_vars PROVE RequestTypes'
  OBVIOUS
<1>a. RequestTypes
  BY TypedParts
<1> DEFINE Goal == /\ calls' \subseteq CallType /\ asked' \in Nat
                   /\ \A c \in calls' : c.n \in 1 .. asked'
                   /\ cut' \subseteq 1 .. asked'
<1>1. Goal
  <2>1. CASE UNCHANGED <<calls, asked, offers, trips, cut>>
    BY <1>a, <2>1 DEF RequestTypes
  <2>2. ASSUME NEW s \in BOOLEAN, Mounts(s), RequestsRunOn
        PROVE  Goal
    <3>1. asked' = asked /\ cut' = cut
      BY <2>2 DEF Mounts, RequestsRunOn
    <3>. QED BY <1>a, <2>2, <3>1, LeftTyped DEF RequestTypes
  <2>3. ASSUME NEW s \in BOOLEAN, ReloadPage(s)
        PROVE  Goal
    BY <1>a, <2>3 DEF ReloadPage, Mounts, RequestTypes
  <2>4. CASE PressRequest
    <3>1. asked' = asked + 1 /\ cut' = cut
      BY <2>4 DEF PressRequest
    <3>. QED BY <1>a, <2>4, <3>1, PressedTyped DEF RequestTypes
  <2>5. ASSUME NEW c \in calls, CardReady(c) \/ CreateTrip(c)
        PROVE  Goal
    <3>1. asked' = asked /\ cut' = cut
      BY <2>5 DEF CardReady, CreateTrip, bounds, outside
    <3>. QED BY <1>a, <2>5, <3>1, ReadyTyped DEF RequestTypes
  <2>6. ASSUME NEW c \in calls, CardFails(c) \/ CreateReply(c) \/ CreateFails(c)
        PROVE  Goal
    BY <1>a, <2>6
       DEF CardFails, CreateReply, CreateFails, Broadcasts, RequestTypes, bounds, outside
  <2>. QED BY <2>1, <2>2, <2>3, <2>4, <2>5, <2>6, RequestSteps
<1>2. pin' \in Nat
  <2>1. \A c \in calls : c.n \in Nat
    BY <1>a DEF RequestTypes, CallType
  <2>2. \/ pin' = pin \/ pin' = DefaultPin \/ \E c \in calls : pin' = c.n
    BY StepCases
       DEF handleMapClick, handlePickupDrag, handleDropoffDrag, PinLands, GeoReply,
           RouteReply, CarMoves, TypeText, ClearEnd, TogglePin, SelectTier, Rebook,
           handleCancelTrip, handleResetToBooking, PressSignedOut, LeavePage, ReloadPage,
           Mounts, PressRequest, CardReady, CardFails, CreateTrip, CreateReply,
           CreateFails, Broadcasts, TripStatus, SubmitRating,
           form, ride, async, outside, ghosts, bounds, vars
  <2>. QED BY <1>a, <2>1, <2>2 DEF RequestTypes, DefaultPin, NoRequest
<1>3. modal' \in BOOLEAN /\ crossed' \in BOOLEAN
  BY <1>a, StepCases
     DEF RequestTypes, handleMapClick, handlePickupDrag, handleDropoffDrag, PinLands,
         GeoReply, RouteReply, CarMoves, TypeText, ClearEnd, TogglePin, SelectTier, Rebook,
         handleCancelTrip, handleResetToBooking, PressSignedOut, LeavePage, ReloadPage,
         Mounts, PressRequest, CardReady, CardFails, CreateTrip, CreateReply, CreateFails,
         Broadcasts, TripStatus, SubmitRating,
         form, ride, async, outside, ghosts, bounds, vars
<1>4. spent' \in {spent, spent + 1} /\ faults' \in {faults, faults + 1}
  BY StepCases
     DEF Spends, handleMapClick, handlePickupDrag, handleDropoffDrag, PinLands,
         GeoReply, RouteReply, CarMoves, TypeText, ClearEnd, TogglePin, SelectTier, Rebook,
         handleCancelTrip, handleResetToBooking, PressSignedOut, LeavePage, ReloadPage,
         Mounts, PressRequest, CardReady, CardFails, CreateTrip, CreateReply, CreateFails,
         Broadcasts, TripStatus, SubmitRating,
         form, ride, async, outside, ghosts, bounds, vars
<1>. QED BY <1>a, <1>1, <1>2, <1>3, <1>4 DEF RequestTypes

\* The fare of the trip the page holds is that of an offer of it.
LEMMA HeldFareIs ==
  ASSUME OfferTypes, current # NoRequest
  PROVE  \E o \in offers :
           /\ o.n = current
           /\ HeldFare = IF o.known THEN 100 * TripFare[<<o.from, o.to>>] ELSE o.fare
           /\ HeldFare \in Nat
<1> DEFINE o == CHOOSE x \in offers : x.n = current
<1>1. o \in offers /\ o.n = current
  BY DEF OfferTypes
<1>2. HeldFare = IF o.known THEN 100 * TripFare[<<o.from, o.to>>] ELSE o.fare
  BY DEF HeldFare
<1> HIDE DEF o
<1>3. o.fare \in Nat /\ <<o.from, o.to>> \in Point \X Point
  BY <1>1 DEF OfferTypes, OfferType
<1>4. TripFare[<<o.from, o.to>>] \in Nat
  BY <1>3, BookingAssumption
<1>. QED BY <1>1, <1>2, <1>3, <1>4

\* What a call becomes at the trip service.
LEMMA RepliedTyped ==
  ASSUME RequestTypes, NEW c \in calls
  PROVE  /\ \A k \in BOOLEAN : Offer(c, k) \in OfferType
         /\ Trip(c) \in TripType
<1>1. c \in CallType /\ c.n \in Nat \ {0}
  BY DEF RequestTypes
<1>2. <<c.from, c.to>> \in Point \X Point
  BY <1>1 DEF CallType
<1>3. TripFare[<<c.from, c.to>>] \in Nat
  BY <1>2, BookingAssumption
<1>. QED BY <1>1, <1>3 DEF CallType, Offer, OfferType, Trip, TripType

\* A step leaves the trip the page holds, the receipt and the offers alone, forgets the
\* first two, or is one of these.
LEMMA RideSteps ==
  ASSUME [Next]_vars
  PROVE  \/ UNCHANGED <<current, receipt, offers, trips>>
         \/ (\E s \in BOOLEAN : Mounts(s) /\ (RequestsRunOn \/ ReloadPage(s)))
         \/ handleResetToBooking
         \/ \E c \in calls : CardReady(c) \/ CreateTrip(c) \/ CreateReply(c) \/ CreateFails(c)
         \/ SubmitRating
BY StepCases
   DEF handleMapClick, handlePickupDrag, handleDropoffDrag, PinLands, GeoReply, RouteReply,
       CarMoves, TypeText, ClearEnd, TogglePin, SelectTier, Rebook, handleCancelTrip,
       PressSignedOut, LeavePage, ReloadPage, TripStatus, PressRequest, CardFails, form, ride,
       async, outside, ghosts, bounds, vars

LEMMA OfferTypesStep == Typed /\ [Next]_vars => OfferTypes'
<1> SUFFICES ASSUME Typed, [Next]_vars PROVE OfferTypes'
  OBVIOUS
<1>a. OfferTypes /\ RequestTypes /\ RoadTypes /\ FormTypes
  BY TypedParts
<1>b. NoReceipt \in [n : Nat, fare : Nat]
  BY DEF NoReceipt, NoRequest
<1>1. CASE UNCHANGED <<current, receipt, offers, trips>>
  BY <1>a, <1>1 DEF OfferTypes
<1>2. ASSUME NEW s \in BOOLEAN, Mounts(s), RequestsRunOn \/ ReloadPage(s)
      PROVE  OfferTypes'
  <2>1. trips' \subseteq trips \cup {Trip(c) : c \in calls}
    BY <1>2 DEF RequestsRunOn, ReloadPage
  <2>2. trips' \subseteq TripType
    BY <1>a, <2>1, RepliedTyped DEF OfferTypes
  <2>. QED BY <1>a, <1>b, <1>2, <2>2 DEF Mounts, OfferTypes, NoRequest
<1>3. CASE handleResetToBooking
  BY <1>a, <1>b, <1>3 DEF handleResetToBooking, outside, OfferTypes, NoRequest
<1>4. ASSUME NEW c \in calls, CardReady(c) \/ CreateTrip(c)
      PROVE  OfferTypes'
  <2>1. trips' \subseteq trips \cup {Trip(c)} /\ current' = current /\ offers' = offers
    BY <1>4 DEF CardReady, CreateTrip, outside, ride
  <2>2. receipt' \in [n : Nat, fare : Nat]
    BY <1>a, <1>b, <1>4 DEF CardReady, CreateTrip, ride, OfferTypes
  <2>. QED BY <1>a, <2>1, <2>2, RepliedTyped DEF OfferTypes
<1>5. ASSUME NEW c \in calls, CreateReply(c) \/ CreateFails(c)
      PROVE  OfferTypes'
  <2>1. PICK k \in BOOLEAN : Broadcasts(c, k)
    BY <1>5 DEF CreateReply, CreateFails
  <2>2. trips' \subseteq trips \cup {Trip(c)} /\ offers' = offers \cup {Offer(c, k)}
    BY <1>5, <2>1 DEF CreateReply, CreateFails, Broadcasts
  <2>3. offers' \subseteq OfferType /\ trips' \subseteq TripType
    BY <1>a, <2>2, RepliedTyped DEF OfferTypes
  <2>4. c.n \in Nat /\ Offer(c, k).n = c.n
    BY <1>a DEF RequestTypes, CallType, Offer
  <2>5. current' \in {current, c.n} /\ receipt' = receipt
    BY <2>1 DEF Broadcasts
  <2>6. current' # NoRequest => \E o \in offers' : o.n = current'
    BY <1>a, <2>2, <2>4, <2>5 DEF OfferTypes
  <2>. QED BY <1>a, <2>3, <2>4, <2>5, <2>6 DEF OfferTypes
<1>6. CASE SubmitRating
  <2>1. ShownFare \in Nat
    BY <1>a, TierPriced DEF ShownFare, RoadTypes, FormTypes
  <2>2. current # NoRequest => HeldFare \in Nat
    BY <1>a, HeldFareIs
  <2>3. receipt' \in [n : Nat, fare : Nat]
    BY <1>a, <1>6, <2>1, <2>2 DEF SubmitRating, OfferTypes
  <2>. QED BY <1>a, <1>6, <2>3 DEF SubmitRating, outside, OfferTypes
<1>. QED BY <1>1, <1>2, <1>3, <1>4, <1>5, <1>6, RideSteps

LEMMA InitTyped == Init => Typed
<1> SUFFICES ASSUME Init PROVE Typed
  OBVIOUS
<1>1. RoadTypes
  BY DEF Init, RoadTypes, Pins, Stages
<1>2. FormTypes
  BY BookingAssumption DEF Init, FormTypes, Texts
<1>3. RequestTypes
  BY DEF Init, RequestTypes, DefaultPin, NoRequest
<1>4. OfferTypes
  BY DEF Init, OfferTypes, NoReceipt, NoRequest
<1>. QED BY <1>1, <1>2, <1>3, <1>4, TypedParts

LEMMA TypedStep == Typed /\ [Next]_vars => Typed'
<1>1. RoadTypes' /\ FormTypes' /\ RequestTypes' /\ OfferTypes' => Typed'
  BY DEF Typed, TypeOK, RoadTypes, FormTypes, RequestTypes, OfferTypes, Road, CallType
<1>. QED BY <1>1, RoadTypesStep, FormTypesStep, RequestTypesStep, OfferTypesStep

\* The page, what is under way, and what was offered keep their types: see TypeOK.
THEOREM TypeCorrect == Spec => []TypeOK
<1>1. Typed => TypeOK
  BY DEF Typed
<1>. QED BY <1>1, InitTyped, TypedStep, PTL DEF Spec

-----------------------------------------------------------------------------
(* Fares *)

\* What a request made on a distance that had arrived says of its price.
Priced(c) ==
  c.sure => /\ Km[<<c.from, c.to>>] <= MaxKm
            /\ c.fare = TierPrice(c.tier, Km[<<c.from, c.to>>])
            /\ Km[<<c.from, c.to>>] > 0 => c.shown = c.fare

Fares == (\A c \in calls : Priced(c)) /\ FareIsOfTheRide

LEMMA FaresStep == Typed /\ Roads /\ Fares /\ [Next]_vars => Fares'
<1> SUFFICES ASSUME Typed, Roads, Fares, [Next]_vars PROVE Fares'
  OBVIOUS
<1>a. RequestTypes
  BY TypedParts
<1>1. CASE UNCHANGED <<calls, asked, offers, trips, cut>>
  BY <1>1 DEF Fares, Priced, FareIsOfTheRide
<1>2. ASSUME NEW s \in BOOLEAN, Mounts(s), RequestsRunOn
      PROVE  Fares'
  <2>1. offers' = offers
    BY <1>2 DEF Mounts
  <2>2. \A d \in calls' : Priced(d)
    BY <1>2, LeftTyped DEF Fares, Priced
  <2>. QED BY <2>1, <2>2 DEF Fares, Priced, FareIsOfTheRide
<1>3. CASE PressRequest
  <2>1. offers' = offers
    BY <1>3 DEF PressRequest, outside
  <2>2. PICK c \in CallType :
           /\ calls' = calls \cup {c} /\ c.n = asked + 1 /\ c.step = "card" /\ c.live
           /\ c.from = pins["PICKUP"] /\ c.to = pins["DROPOFF"] /\ c.tier = tier
           /\ c.fare = TierPrice(tier, quote) /\ c.shown = ShownFare
           /\ c.sure <=> ~ failed["form"] /\ ~ Waiting("form")
    BY <1>3, PressedTyped
  <2>3. Placed(pins) /\ quote <= MaxKm
    <3>1. Placed(pins) /\ ~ (quote > MaxKm)
      BY <1>3 DEF PressRequest, MayBook, MayRequest, OutOfRange
    <3>2. quote \in Nat /\ MaxKm \in Nat
      BY BookingAssumption DEF Typed, TypeOK
    <3>. QED BY <3>1, <3>2
  <2>4. c.sure => quote = Km[<<c.from, c.to>>]
    BY <2>2, <2>3 DEF Roads, QuoteAgrees, RoadOf
  <2>5. quote > 0 => c.shown = c.fare
    BY <2>2, <2>3 DEF ShownFare
  <2>6. Priced(c)
    BY <2>2, <2>3, <2>4, <2>5 DEF Priced
  <2>. QED BY <2>1, <2>2, <2>6 DEF Fares, Priced, FareIsOfTheRide
<1>4. ASSUME NEW c \in calls, CardReady(c) \/ CreateTrip(c)
      PROVE  Fares'
  <2>1. offers' = offers
    BY <1>4 DEF CardReady, CreateTrip, outside
  <2>2. \A d \in calls' : Priced(d)
    BY <1>4, ReadyTyped DEF Fares, Priced
  <2>. QED BY <2>1, <2>2 DEF Fares, Priced, FareIsOfTheRide
<1>5. ASSUME NEW c \in calls, CardFails(c)
      PROVE  Fares'
  BY <1>5 DEF CardFails, outside, Fares, Priced, FareIsOfTheRide
<1>6. ASSUME NEW c \in calls, CreateReply(c) \/ CreateFails(c)
      PROVE  Fares'
  <2>1. PICK k \in BOOLEAN : offers' = offers \cup {Offer(c, k)} /\ calls' = calls \ {c}
    BY <1>6 DEF CreateReply, CreateFails, Broadcasts
  <2>2. Priced(Offer(c, k))
    BY DEF Fares, Priced, Offer
  <2>. QED BY <2>1, <2>2 DEF Fares, Priced, FareIsOfTheRide
<1>7. ASSUME NEW s \in BOOLEAN, ReloadPage(s)
      PROVE  Fares'
  BY <1>7 DEF ReloadPage, Mounts, Fares, Priced, FareIsOfTheRide
<1>. QED BY <1>1, <1>2, <1>3, <1>4, <1>5, <1>6, <1>7, RequestSteps

LEMMA RoadsAlways == Spec => [](Typed /\ Roads /\ Fares)
<1>1. Init => Roads
  <2> SUFFICES ASSUME Init PROVE Roads
    OBVIOUS
  <2>1. ~ Placed(pins) /\ ShownLine(pins, stage) = NoLine
    BY DEF Init, Placed, ShownLine, LineEnds, ActiveLeg, End
  <2>. QED BY <2>1 DEF Init, Roads, LookupsAgree, QuoteAgrees, LineAgrees
<1>2. Init => Fares
  BY DEF Init, Fares, FareIsOfTheRide
<1>3. Typed /\ Roads /\ [Next]_vars => Roads'
  BY RoadsStep DEF Typed
<1>. QED BY <1>1, <1>2, <1>3, InitTyped, TypedStep, FaresStep, PTL DEF Spec

\* The distance shown is that of the pins shown: see QuoteAgrees.
THEOREM QuoteCorrect == Spec => []QuoteAgrees
<1>1. Roads => QuoteAgrees
  BY DEF Roads
<1>. QED BY <1>1, RoadsAlways, PTL

\* The road drawn is that of the pins and the leg shown: see LineAgrees.
THEOREM LineCorrect == Spec => []LineAgrees
<1>1. Roads => LineAgrees
  BY DEF Roads
<1>. QED BY <1>1, RoadsAlways, PTL

\* An offer carries the price of its own two points: see FareIsOfTheRide.
THEOREM FareCorrect == Spec => []FareIsOfTheRide
<1>1. Fares => FareIsOfTheRide
  BY DEF Fares
<1>. QED BY <1>1, RoadsAlways, PTL

-----------------------------------------------------------------------------
(* Trips and offers *)

\* A request has a number of its own, until its offer takes it over; nobody has the
\* number of a request that a reload cut off.
Numbered ==
  /\ \A c, d \in calls : c.n = d.n => c = d
  /\ \A c \in calls, o \in offers : c.n # o.n
  /\ \A o, x \in offers : o.n = x.n => o = x
  /\ \A o \in offers : o.n <= asked
  /\ \A c \in calls : c.n \notin cut
  /\ \A o \in offers : o.n \notin cut

\* A trip is that of its request, whose page waits for the answer; then of the offer, at
\* the service's own price; or its request was cut off.
TripsAgree ==
  /\ \A t \in trips, o \in offers : t.n = o.n =>
       /\ t.from = o.from /\ t.to = o.to /\ t.tier = o.tier
       /\ t.fare = TripFare[<<o.from, o.to>>]
  /\ \A t \in trips, c \in calls : t.n = c.n => c.step = "answer" /\ t = Trip(c)
  /\ \A c \in calls : c.step = "answer" => Trip(c) \in trips
  /\ \A t \in trips : \/ t.n \in cut
                      \/ \E o \in offers : o.n = t.n
                      \/ \E c \in calls : c.n = t.n

\* Only a failed call makes an offer under an invented id.
Known ==
  /\ IsFiniteSet(offers)
  /\ \A o \in offers : o.known => \E t \in trips : t.n = o.n
  /\ Cardinality({o \in offers : ~ o.known}) <= faults

Offered == Numbered /\ TripsAgree /\ Known

\* The request c is answered by an offer.
LEMMA Answered ==
  ASSUME NEW c, NEW k, Broadcasts(c, k)
  PROVE  /\ calls' = calls \ {c} /\ offers' = offers \cup {Offer(c, k)}
         /\ asked' = asked /\ cut' = cut
         /\ Offer(c, k).n = c.n /\ Trip(c).n = c.n /\ Offer(c, k).known = k
         /\ Trip(c).from = Offer(c, k).from /\ Trip(c).to = Offer(c, k).to
         /\ Trip(c).tier = Offer(c, k).tier
         /\ Trip(c).fare = TripFare[<<Offer(c, k).from, Offer(c, k).to>>]
BY DEF Broadcasts, Offer, Trip

\* It is so by the service's answer, or by a failed call.
LEMMA Replied ==
  ASSUME NEW c, CreateReply(c) \/ CreateFails(c)
  PROVE  \E k \in BOOLEAN :
           /\ Broadcasts(c, k)
           /\ IF k THEN trips' = trips /\ c.step = "answer" /\ faults' = faults
              ELSE trips' \in {trips, trips \cup {Trip(c)}} /\ faults' = faults + 1
<1>1. CASE CreateReply(c)
  <2>1. Broadcasts(c, TRUE) /\ trips' = trips /\ c.step = "answer" /\ faults' = faults
    BY <1>1 DEF CreateReply
  <2>. QED BY <2>1
<1>2. CASE CreateFails(c)
  <2>1. Broadcasts(c, FALSE) /\ trips' \in {trips, trips \cup {Trip(c)}}
        /\ faults' = faults + 1
    BY <1>2 DEF CreateFails
  <2>. QED BY <2>1
<1>. QED BY <1>1, <1>2

LEMMA NumberedStep == Typed /\ Numbered /\ [Next]_vars => Numbered'
<1> SUFFICES ASSUME Typed, Numbered, [Next]_vars PROVE Numbered'
  OBVIOUS
<1>a. RequestTypes /\ OfferTypes
  BY TypedParts
<1>b. \A c \in calls : c.n \in Nat /\ c.n <= asked
  BY <1>a DEF RequestTypes
<1>c. \A o \in offers : o.n \in Nat
  BY <1>a DEF OfferTypes, OfferType
<1>1. CASE UNCHANGED <<calls, asked, offers, trips, cut>>
  BY <1>1 DEF Numbered
<1>2. ASSUME NEW s \in BOOLEAN, Mounts(s), RequestsRunOn
      PROVE  Numbered'
  <2>1. UNCHANGED <<offers, asked, cut>>
        /\ calls' = {[c EXCEPT !.live = FALSE] : c \in calls}
    BY <1>2 DEF Mounts, RequestsRunOn
  <2>2. \A c \in calls : [c EXCEPT !.live = FALSE].n = c.n
    BY DEF Typed, CallType
  <2>3. \A d \in calls' : \E c \in calls : d = [c EXCEPT !.live = FALSE] /\ d.n = c.n
    BY <2>1, <2>2
  <2>4. ASSUME NEW d1 \in calls', NEW d2 \in calls', d1.n = d2.n
        PROVE  d1 = d2
    <3>1. PICK c1 \in calls : d1 = [c1 EXCEPT !.live = FALSE] /\ d1.n = c1.n
      BY <2>3
    <3>2. PICK c2 \in calls : d2 = [c2 EXCEPT !.live = FALSE] /\ d2.n = c2.n
      BY <2>3
    <3>3. c1.n = c2.n
      BY <2>4, <3>1, <3>2
    <3>4. c1 = c2
      BY <3>3 DEF Numbered
    <3>. QED BY <3>1, <3>2, <3>4
  <2>5. ASSUME NEW d \in calls'
        PROVE  d.n \notin cut /\ \A o \in offers : d.n # o.n
    <3>1. PICK c \in calls : d = [c EXCEPT !.live = FALSE] /\ d.n = c.n
      BY <2>3
    <3>. QED BY <3>1 DEF Numbered
  <2>. QED BY <2>1, <2>4, <2>5 DEF Numbered
<1>3. ASSUME NEW s \in BOOLEAN, ReloadPage(s)
      PROVE  Numbered'
  <2>1. /\ calls' = {} /\ UNCHANGED <<offers, asked>>
        /\ \A n \in cut' : n \in cut \/ \E c \in calls : n = c.n
    BY <1>3 DEF ReloadPage, Mounts
  <2>. QED BY <2>1 DEF Numbered
<1>4. CASE PressRequest
  <2>1. UNCHANGED <<offers, cut>> /\ asked' = asked + 1
    BY <1>4 DEF PressRequest
  <2>2. PICK c : calls' = calls \cup {c} /\ c.n = asked + 1
    BY <1>4, PressedTyped
  <2>3. \A d \in calls : d.n # c.n
    BY <1>a, <1>b, <2>2 DEF RequestTypes
  <2>4. \A o \in offers : o.n # c.n /\ o.n <= asked'
    BY <1>a, <1>c, <2>1, <2>2 DEF Numbered, RequestTypes
  <2>5. c.n \notin cut
    BY <1>a, <2>2 DEF RequestTypes
  <2>. QED BY <2>1, <2>2, <2>3, <2>4, <2>5 DEF Numbered
<1>5. ASSUME NEW c \in calls, CardReady(c) \/ CreateTrip(c)
      PROVE  Numbered'
  <2>1. UNCHANGED <<offers, asked, cut>>
    BY <1>5 DEF CardReady, CreateTrip, outside, bounds
  <2>2. PICK d : calls' = (calls \ {c}) \cup {d} /\ d.n = c.n
    BY <1>5, ReadyTyped
  <2>. QED BY <2>1, <2>2 DEF Numbered
<1>6. ASSUME NEW c \in calls, CardFails(c)
      PROVE  Numbered'
  BY <1>6 DEF CardFails, outside, bounds, Numbered
<1>7. ASSUME NEW c \in calls, CreateReply(c) \/ CreateFails(c)
      PROVE  Numbered'
  <2>1. PICK k \in BOOLEAN : Broadcasts(c, k)
    BY <1>7, Replied
  <2>2. /\ calls' = calls \ {c} /\ offers' = offers \cup {Offer(c, k)}
        /\ asked' = asked /\ cut' = cut /\ Offer(c, k).n = c.n
    BY <2>1, Answered
  <2>. QED BY <1>b, <2>2 DEF Numbered
<1>. QED BY <1>1, <1>2, <1>3, <1>4, <1>5, <1>6, <1>7, RequestSteps

LEMMA TripsStep == Typed /\ Numbered /\ TripsAgree /\ [Next]_vars => TripsAgree'
<1> SUFFICES ASSUME Typed, Numbered, TripsAgree, [Next]_vars
             PROVE  TripsAgree'
  OBVIOUS
<1>a. RequestTypes /\ OfferTypes
  BY TypedParts
<1>b. \A t \in trips : t.n \in Nat /\ t.n <= asked
  BY <1>a DEF RequestTypes, OfferTypes, OfferType, TripType, TripsAgree, Numbered
<1>1. CASE UNCHANGED <<calls, asked, offers, trips, cut>>
  BY <1>1 DEF TripsAgree, Trip
<1>2. ASSUME NEW s \in BOOLEAN, Mounts(s), RequestsRunOn
      PROVE  TripsAgree'
  <2>1. UNCHANGED <<offers, trips, cut>>
    BY <1>2 DEF Mounts, RequestsRunOn
  <2>2. \A d \in calls' : \E c \in calls : d.step = c.step /\ d.n = c.n /\ Trip(d) = Trip(c)
    BY <1>2, LeftTyped DEF Trip
  <2>3. \A c \in calls : \E d \in calls' : d.n = c.n
    BY <1>2, LeftTyped
  <2>4. \A t \in trips, d \in calls' : t.n = d.n => d.step = "answer" /\ t = Trip(d)
    BY <2>2 DEF TripsAgree
  <2>5. \A d \in calls' : d.step = "answer" => Trip(d) \in trips
    BY <2>2 DEF TripsAgree
  <2>6. \A t \in trips : t.n \in cut \/ (\E o \in offers : o.n = t.n)
                         \/ \E d \in calls' : d.n = t.n
    BY <2>3 DEF TripsAgree
  <2>. QED BY <2>1, <2>4, <2>5, <2>6 DEF TripsAgree, Trip
<1>3. ASSUME NEW s \in BOOLEAN, ReloadPage(s)
      PROVE  TripsAgree'
  <2>1. /\ calls' = {} /\ UNCHANGED offers /\ trips \subseteq trips'
        /\ \A t \in trips' \ trips : \E c \in calls : c.step = "create" /\ t = Trip(c)
        /\ cut' = cut \cup {c.n : c \in {d \in calls : d.step # "card"}}
    BY <1>3 DEF ReloadPage, Mounts
  <2>2. ASSUME NEW t \in trips' \ trips
        PROVE  t.n \in cut' /\ \A o \in offers : o.n # t.n
    <3>1. PICK c \in calls : c.step = "create" /\ t = Trip(c)
      BY <2>1
    <3>. QED BY <2>1, <3>1 DEF Numbered, Trip
  <2>3. ASSUME NEW t \in trips
        PROVE  t.n \in cut' \/ \E o \in offers : o.n = t.n
    BY <2>1 DEF TripsAgree
  <2>. QED BY <2>1, <2>2, <2>3 DEF TripsAgree
<1>4. CASE PressRequest
  <2>1. UNCHANGED <<offers, trips, cut>>
    BY <1>4 DEF PressRequest
  <2>2. PICK c : calls' = calls \cup {c} /\ c.n = asked + 1 /\ c.step = "card"
    BY <1>4, PressedTyped
  <2>3. \A t \in trips : t.n # c.n
    BY <1>a, <1>b, <2>2 DEF RequestTypes
  <2>. QED BY <2>1, <2>2, <2>3 DEF TripsAgree, Trip
<1>5. ASSUME NEW c \in calls, CardReady(c)
      PROVE  TripsAgree'
  <2>1. UNCHANGED <<offers, trips, cut>> /\ c.step = "card"
    BY <1>5 DEF CardReady, outside
  <2>2. PICK d : calls' = (calls \ {c}) \cup {d} /\ d.n = c.n /\ d.step = "create"
    BY <1>5, <2>1, ReadyTyped
  <2>3. \A t \in trips : t.n # c.n
    BY <2>1 DEF TripsAgree
  <2>. QED BY <2>1, <2>2, <2>3 DEF TripsAgree, Trip
<1>6. ASSUME NEW c \in calls, CreateTrip(c)
      PROVE  TripsAgree'
  <2>1. UNCHANGED <<offers, cut>> /\ trips' = trips \cup {Trip(c)} /\ c.step = "create"
    BY <1>6 DEF CreateTrip
  <2>2. PICK d : /\ calls' = (calls \ {c}) \cup {d} /\ d.n = c.n /\ d.step = "answer"
                 /\ d.from = c.from /\ d.to = c.to /\ d.tier = c.tier
    BY <1>6, <2>1, ReadyTyped
  <2>3. Trip(d) = Trip(c) /\ Trip(c).n = c.n
    BY <2>2 DEF Trip
  <2>4. (\A t \in trips : t.n # c.n) /\ \A o \in offers : o.n # c.n
    BY <2>1 DEF TripsAgree, Numbered
  <2>5. \A x \in calls \ {c} : x.n # c.n
    BY DEF Numbered
  <2>6. \A t \in trips', x \in calls' : t.n = x.n => x.step = "answer" /\ t = Trip(x)
    BY <2>1, <2>2, <2>3, <2>4, <2>5 DEF TripsAgree
  <2>7. \A x \in calls' : x.step = "answer" => Trip(x) \in trips'
    BY <2>1, <2>2, <2>3 DEF TripsAgree
  <2>8. \A t \in trips' : t.n \in cut \/ (\E o \in offers : o.n = t.n)
                          \/ \E x \in calls' : x.n = t.n
    BY <2>1, <2>2, <2>3, <2>4 DEF TripsAgree
  <2>9. \A t \in trips', o \in offers : t.n = o.n =>
          /\ t.from = o.from /\ t.to = o.to /\ t.tier = o.tier
          /\ t.fare = TripFare[<<o.from, o.to>>]
    BY <2>1, <2>3, <2>4 DEF TripsAgree
  <2>. QED BY <2>1, <2>6, <2>7, <2>8, <2>9 DEF TripsAgree, Trip
<1>7. ASSUME NEW c \in calls, CardFails(c)
      PROVE  TripsAgree'
  <2>1. UNCHANGED <<offers, trips, cut>> /\ calls' = calls \ {c} /\ c.step = "card"
    BY <1>7 DEF CardFails, outside
  <2>2. \A t \in trips : t.n # c.n
    BY <2>1 DEF TripsAgree
  <2>. QED BY <2>1, <2>2 DEF TripsAgree, Trip
<1>8. ASSUME NEW c \in calls, CreateReply(c) \/ CreateFails(c)
      PROVE  TripsAgree'
  <2>1. PICK k \in BOOLEAN :
          Broadcasts(c, k) /\ trips \subseteq trips' /\ trips' \subseteq trips \cup {Trip(c)}
    BY <1>8, Replied
  <2>2. /\ calls' = calls \ {c} /\ offers' = offers \cup {Offer(c, k)} /\ cut' = cut
        /\ Offer(c, k).n = c.n /\ Trip(c).n = c.n
        /\ Trip(c).from = Offer(c, k).from /\ Trip(c).to = Offer(c, k).to
        /\ Trip(c).tier = Offer(c, k).tier
        /\ Trip(c).fare = TripFare[<<Offer(c, k).from, Offer(c, k).to>>]
    BY <2>1, Answered
  <2>3. \A o \in offers : o.n # c.n
    BY DEF Numbered
  <2>4. \A x \in calls' : x.n # c.n
    BY <2>2 DEF Numbered
  <2>5. \A t \in trips' : t.n = c.n => t = Trip(c)
    BY <2>1 DEF TripsAgree
  <2>6. \A t \in trips', o \in offers' : t.n = o.n =>
          /\ t.from = o.from /\ t.to = o.to /\ t.tier = o.tier
          /\ t.fare = TripFare[<<o.from, o.to>>]
    BY <2>1, <2>2, <2>3, <2>5 DEF TripsAgree
  <2>7. \A t \in trips', x \in calls' : t.n = x.n => x.step = "answer" /\ t = Trip(x)
    BY <2>1, <2>2, <2>4 DEF TripsAgree
  <2>8. \A x \in calls' : x.step = "answer" => Trip(x) \in trips'
    BY <2>1, <2>2 DEF TripsAgree
  <2>9. \A t \in trips' : t.n \in cut \/ (\E o \in offers' : o.n = t.n)
                          \/ \E x \in calls' : x.n = t.n
    BY <2>1, <2>2 DEF TripsAgree
  <2>. QED BY <2>2, <2>6, <2>7, <2>8, <2>9 DEF TripsAgree, Trip
<1>. QED BY <1>1, <1>2, <1>3, <1>4, <1>5, <1>6, <1>7, <1>8, RequestSteps

LEMMA AddOne ==
  ASSUME NEW S, NEW x, IsFiniteSet(S)
  PROVE  Cardinality(S \cup {x}) <= Cardinality(S) + 1
<1>1. Cardinality(S) \in Nat
  BY FS_CardinalityType
<1>2. Cardinality(S \cup {x}) = Cardinality(S) \/ Cardinality(S \cup {x}) = Cardinality(S) + 1
  BY FS_AddElement
<1>. QED BY <1>1, <1>2

LEMMA KnownStep == Typed /\ TripsAgree /\ Known /\ [Next]_vars => Known'
<1> SUFFICES ASSUME Typed, TripsAgree, Known, [Next]_vars PROVE Known'
  OBVIOUS
<1>a. faults \in Nat /\ faults' \in {faults, faults + 1}
  BY StepCases, TypedParts
     DEF RequestTypes, handleMapClick, handlePickupDrag, handleDropoffDrag, PinLands,
         GeoReply, RouteReply, CarMoves, TypeText, ClearEnd, TogglePin, SelectTier, Rebook,
         handleCancelTrip, handleResetToBooking, PressSignedOut, LeavePage, ReloadPage,
         Mounts, PressRequest, CardReady, CardFails, CreateTrip, CreateReply, CreateFails,
         Broadcasts, TripStatus, SubmitRating,
         form, ride, async, outside, ghosts, bounds, vars
<1>b. IsFiniteSet({o \in offers : ~ o.known}) /\ Cardinality({o \in offers : ~ o.known}) \in Nat
  BY FS_Subset, FS_CardinalityType DEF Known
<1>1. CASE offers' = offers /\ trips \subseteq trips'
  <2>1. {o \in offers' : ~ o.known} = {o \in offers : ~ o.known}
    BY <1>1
  <2>. QED BY <1>1, <1>a, <1>b, <2>1 DEF Known
<1>2. ASSUME NEW c \in calls, CreateReply(c) \/ CreateFails(c)
      PROVE  Known'
  <2> DEFINE Unknown == {o \in offers : ~ o.known}
  <2>1. PICK k \in BOOLEAN :
          /\ Broadcasts(c, k)
          /\ IF k THEN trips' = trips /\ c.step = "answer" /\ faults' = faults
             ELSE trips' \in {trips, trips \cup {Trip(c)}} /\ faults' = faults + 1
    BY <1>2, Replied
  <2>2. /\ offers' = offers \cup {Offer(c, k)}
        /\ Offer(c, k).n = c.n /\ Offer(c, k).known = k /\ Trip(c).n = c.n
    BY <2>1, Answered
  <2>3. IsFiniteSet(offers')
    BY <2>2, FS_AddElement DEF Known
  <2>4. \A o \in offers' : o.known => \E t \in trips' : t.n = o.n
    BY <2>1, <2>2 DEF Known, TripsAgree
  <2>5. CASE k
    <3>1. {o \in offers' : ~ o.known} = Unknown
      BY <2>2, <2>5
    <3>. QED BY <2>1, <2>3, <2>4, <2>5, <3>1 DEF Known
  <2>6. CASE ~ k
    <3>1. {o \in offers' : ~ o.known} = Unknown \cup {Offer(c, k)}
      BY <2>2, <2>6
    <3>2. Cardinality(Unknown \cup {Offer(c, k)}) <= Cardinality(Unknown) + 1
      BY <1>b, AddOne
    <3>3. Cardinality({o \in offers' : ~ o.known}) <= faults'
      <4>1. Cardinality(Unknown) <= faults
        BY DEF Known
      <4> DEFINE a == Cardinality(Unknown)
                 b == Cardinality(Unknown \cup {Offer(c, k)})
      <4>2. a \in Nat /\ b \in Nat
        BY <1>b, FS_AddElement, FS_CardinalityType
      <4>3. b <= a + 1 /\ a <= faults
        BY <3>2, <4>1
      <4>4. Cardinality({o \in offers' : ~ o.known}) = b
        BY <3>1
      <4>5. faults' = faults + 1
        BY <2>1, <2>6
      <4> HIDE DEF a, b
      <4>. QED BY <1>a, <4>2, <4>3, <4>4, <4>5
    <3>. QED BY <2>3, <2>4, <3>3 DEF Known
  <2>. QED BY <2>5, <2>6
<1>3. ASSUME NEW s \in BOOLEAN, Mounts(s), RequestsRunOn \/ ReloadPage(s)
      PROVE  offers' = offers /\ trips \subseteq trips'
  BY <1>3 DEF Mounts, RequestsRunOn, ReloadPage
<1>4. ASSUME NEW s \in BOOLEAN, ReloadPage(s)
      PROVE  offers' = offers /\ trips \subseteq trips'
  BY <1>3, <1>4 DEF ReloadPage
<1>5. ASSUME NEW c \in calls, CardReady(c) \/ CardFails(c) \/ CreateTrip(c)
      PROVE  offers' = offers /\ trips \subseteq trips'
  BY <1>5 DEF CardReady, CardFails, CreateTrip, outside
<1>6. ASSUME PressRequest
      PROVE  offers' = offers /\ trips \subseteq trips'
  BY <1>6 DEF PressRequest
<1>. QED BY <1>1, <1>2, <1>3, <1>4, <1>5, <1>6, RequestSteps

LEMMA OfferedAlways == Spec => [](Typed /\ Offered)
<1>1. Init => Offered
  <2> SUFFICES ASSUME Init PROVE Offered
    OBVIOUS
  <2>1. calls = {} /\ offers = {} /\ trips = {} /\ faults = 0
    BY DEF Init
  <2>2. {o \in offers : ~ o.known} = {} /\ Cardinality({}) = 0 /\ IsFiniteSet({})
    BY <2>1, FS_EmptySet
  <2>. QED BY <2>1, <2>2 DEF Offered, Numbered, TripsAgree, Known
<1>2. Typed /\ Offered /\ [Next]_vars => Offered'
  BY NumberedStep, TripsStep, KnownStep DEF Offered
<1>. QED BY <1>1, <1>2, InitTyped, TypedStep, PTL DEF Spec

\* Offers and trips agree, and a trip that no driver hears of is one whose page was
\* reloaded while it was asked for: see OffersAgree.
THEOREM OffersCorrect == Spec => []OffersAgree
<1>1. Offered => OffersAgree
  <2> SUFFICES ASSUME Offered PROVE OffersAgree
    OBVIOUS
  <2>1. ASSUME NEW o \in offers, o.known
        PROVE  \E t \in trips : /\ t.n = o.n /\ t.from = o.from /\ t.to = o.to
                               /\ t.tier = o.tier
    <3>1. PICK t \in trips : t.n = o.n
      BY <2>1 DEF Offered, Known
    <3>. QED BY <3>1 DEF Offered, TripsAgree
  <2>2. ASSUME NEW t \in trips
        PROVE  LET offered == \E o \in offers : o.n = t.n
                   awaited == \E c \in calls : c.n = t.n /\ c.step = "answer"
               IN  IF t.n \in cut THEN ~ offered /\ ~ awaited ELSE offered # awaited
    <3> DEFINE offered == \E o \in offers : o.n = t.n
               awaited == \E c \in calls : c.n = t.n /\ c.step = "answer"
    <3>1. ~ (offered /\ awaited)
      BY DEF Offered, Numbered
    <3>2. t.n \in cut \/ offered \/ awaited
      BY DEF Offered, TripsAgree
    <3>3. t.n \in cut => ~ offered /\ ~ awaited
      BY DEF Offered, Numbered
    <3>. QED BY <3>1, <3>2, <3>3
  <2>. QED BY <2>1, <2>2 DEF Offered, Known, OffersAgree
<1>. QED BY <1>1, OfferedAlways, PTL

-----------------------------------------------------------------------------
(* The trip the page holds, and its receipt *)

\* As long as no request has met another one or a reset, at most one request is under
\* way on the page, which then holds no trip.
Single ==
  ~ crossed =>
    /\ stage = "idle" => current = NoRequest
    /\ \A c \in calls : c.live => /\ current = NoRequest
                                  /\ c.step # "card" => pin = c.n
    /\ \A c, d \in calls : c.live /\ d.live => c = d
    /\ current # NoRequest => current = pin
    /\ receipt.n # NoRequest => receipt.n = current

\* A receipt for a trip shows the fare of an offer of that trip.
Charged ==
  receipt.n # NoRequest =>
    \E o \in offers :
      /\ o.n = receipt.n
      /\ receipt.fare = IF o.known THEN 100 * TripFare[<<o.from, o.to>>] ELSE o.fare

\* The steps that the page's trip, its PIN and its requests take part in.
LEMMA PageSteps ==
  ASSUME [Next]_vars
  PROVE  \/ UNCHANGED <<calls, current, pin, receipt, crossed>>
            /\ (stage' = "idle" => stage = "idle")
         \/ (\E s \in BOOLEAN : Mounts(s) /\ (RequestsRunOn \/ ReloadPage(s)))
         \/ handleResetToBooking
         \/ PressRequest
         \/ \E c \in calls : CardReady(c) \/ CardFails(c) \/ CreateTrip(c)
                            \/ CreateReply(c) \/ CreateFails(c)
         \/ SubmitRating
BY StepCases
   DEF handleMapClick, handlePickupDrag, handleDropoffDrag, PinLands, GeoReply, RouteReply,
       CarMoves, TypeText, ClearEnd, TogglePin, SelectTier, Rebook, handleCancelTrip,
       PressSignedOut, LeavePage, ReloadPage, TripStatus, Shows, Events, form, ride, async,
       outside, ghosts, bounds, vars

LEMMA SingleStep == Typed /\ Single /\ [Next]_vars => Single'
<1> SUFFICES ASSUME Typed, Single, [Next]_vars, ~ crossed' PROVE Single'
  BY DEF Single
<1>a. RequestTypes /\ NoReceipt.n = NoRequest
  BY TypedParts DEF NoReceipt
<1>1. CASE UNCHANGED <<calls, current, pin, receipt, crossed>>
           /\ (stage' = "idle" => stage = "idle")
  BY <1>1 DEF Single
<1>2. ASSUME NEW s \in BOOLEAN, Mounts(s), RequestsRunOn \/ ReloadPage(s)
      PROVE  Single'
  <2>1. \A d \in calls' : ~ d.live
    BY <1>2, LeftTyped DEF ReloadPage
  <2>. QED BY <1>2, <1>a, <2>1 DEF Mounts, Single
<1>3. CASE handleResetToBooking
  <2>1. current' = NoRequest /\ receipt' = NoReceipt
        /\ UNCHANGED <<calls, pin, crossed>>
    BY <1>3 DEF handleResetToBooking
  <2>. QED BY <1>a, <2>1 DEF Single
<1>4. CASE PressRequest
  <2>1. ~ crossed /\ \A c \in calls : ~ c.live
    BY <1>4 DEF PressRequest
  <2>2. stage = "idle" /\ UNCHANGED <<stage, current, pin, receipt>>
    BY <1>4 DEF PressRequest, MayBook, ride
  <2>3. PICK c \in CallType : calls' = calls \cup {c} /\ c.step = "card"
    BY <1>4, PressedTyped
  <2>. QED BY <2>1, <2>2, <2>3 DEF Single
<1>5. ASSUME NEW c \in calls, CardReady(c)
      PROVE  Single'
  <2>1. UNCHANGED <<current, crossed>>
    BY <1>5 DEF CardReady, ghosts
  <2>2. PICK d : calls' = (calls \ {c}) \cup {d} /\ d.n = c.n /\ d.live = c.live
    BY <1>5, ReadyTyped
  <2>3. CASE c.live
    <3>1. stage' = "MATCHING" /\ pin' = c.n /\ receipt' = NoReceipt
      BY <1>5, <2>3 DEF CardReady, Shows
    <3>2. current = NoRequest /\ \A x \in calls : x.live => x = c
      BY <2>1, <2>3 DEF Single
    <3>. QED BY <1>a, <2>1, <2>2, <3>1, <3>2 DEF Single
  <2>4. CASE ~ c.live
    <3>1. UNCHANGED <<stage, pin, receipt>>
      BY <1>5, <2>4 DEF CardReady
    <3>. QED BY <2>1, <2>2, <2>4, <3>1 DEF Single
  <2>. QED BY <2>3, <2>4
<1>6. ASSUME NEW c \in calls, CardFails(c)
      PROVE  Single'
  BY <1>6 DEF CardFails, ride, ghosts, Single
<1>7. ASSUME NEW c \in calls, CreateReply(c) \/ CreateFails(c)
      PROVE  Single'
  <2>1. /\ UNCHANGED <<stage, pin, receipt>> /\ calls' = calls \ {c} /\ c.step # "card"
        /\ current' = (IF c.live THEN c.n ELSE current)
        /\ ~ crossed /\ ~ (c.live /\ stage = "idle")
    BY <1>7 DEF CreateReply, CreateFails, Broadcasts
  <2>2. CASE c.live
    <3>1. \A x \in calls' : ~ x.live
      BY <2>1, <2>2 DEF Single
    <3>2. pin = c.n /\ receipt.n = NoRequest
      BY <2>1, <2>2 DEF Single
    <3>. QED BY <2>1, <2>2, <3>1, <3>2 DEF Single
  <2>3. CASE ~ c.live
    BY <2>1, <2>3 DEF Single
  <2>. QED BY <2>2, <2>3
<1>8. CASE SubmitRating
  <2>1. UNCHANGED <<calls, current, pin, crossed>> /\ stage' = "RECEIPT"
        /\ receipt'.n = current
    BY <1>8 DEF SubmitRating, Shows
  <2>. QED BY <2>1 DEF Single
<1>9. ASSUME NEW c \in calls, CreateTrip(c)
      PROVE  Single'
  <2>1. UNCHANGED <<stage, current, pin, receipt, crossed>> /\ c.step = "create"
    BY <1>9 DEF CreateTrip, ride, ghosts
  <2>2. PICK d : calls' = (calls \ {c}) \cup {d} /\ d.n = c.n /\ d.live = c.live
    BY <1>9, ReadyTyped
  <2>. QED BY <2>1, <2>2 DEF Single
<1>. QED BY <1>1, <1>2, <1>3, <1>4, <1>5, <1>6, <1>7, <1>8, <1>9, PageSteps

LEMMA ChargedStep == Typed /\ Charged /\ [Next]_vars => Charged'
<1> SUFFICES ASSUME Typed, Charged, [Next]_vars PROVE Charged'
  OBVIOUS
<1>a. NoReceipt.n = NoRequest
  BY DEF NoReceipt
<1>1. CASE UNCHANGED <<current, receipt, offers, trips>>
  BY <1>1 DEF Charged
<1>2. CASE (\E s \in BOOLEAN : Mounts(s)) \/ handleResetToBooking
  BY <1>a, <1>2 DEF Mounts, handleResetToBooking, Charged
<1>3. ASSUME NEW c \in calls, CardReady(c)
      PROVE  Charged'
  <2>1. offers' = offers /\ receipt' \in {receipt, NoReceipt}
    BY <1>3 DEF CardReady, outside
  <2>. QED BY <1>a, <2>1 DEF Charged
<1>4. ASSUME NEW c \in calls, CreateTrip(c) \/ CreateReply(c) \/ CreateFails(c)
      PROVE  Charged'
  <2>1. offers \subseteq offers' /\ receipt' = receipt
    BY <1>4 DEF CreateTrip, CreateReply, CreateFails, Broadcasts, ride
  <2>. QED BY <2>1 DEF Charged
<1>5. CASE SubmitRating
  <2>1. offers' = offers /\ receipt'.n = current
        /\ (current # NoRequest => receipt'.fare = HeldFare)
    BY <1>5 DEF SubmitRating, outside
  <2>2. OfferTypes
    BY TypedParts
  <2>. QED BY <2>1, <2>2, HeldFareIs DEF Charged
<1>. QED BY <1>1, <1>2, <1>3, <1>4, <1>5, RideSteps

LEMMA SingleAlways == Spec => [](Typed /\ Offered /\ Single /\ Charged)
<1>1. Init => Single /\ Charged
  <2> SUFFICES ASSUME Init PROVE Single /\ Charged
    OBVIOUS
  <2>1. calls = {} /\ current = NoRequest /\ receipt = NoReceipt /\ NoReceipt.n = NoRequest
    BY DEF Init, NoReceipt
  <2>. QED BY <2>1 DEF Single, Charged
<1>. QED BY <1>1, OfferedAlways, InitTyped, TypedStep, SingleStep, ChargedStep, PTL DEF Spec

\* The trip the page holds is the one whose PIN it shows: see TripHasItsPin.
THEOREM PinCorrect == Spec => []TripHasItsPin
<1>1. Single => TripHasItsPin
  BY DEF Single, TripHasItsPin
<1>. QED BY <1>1, SingleAlways, PTL

\* A receipt charges the trip it is for: see ReceiptIsOfTheTrip.
THEOREM ReceiptCorrect == Spec => []ReceiptIsOfTheTrip
<1>1. Offered /\ Single /\ Charged => ReceiptIsOfTheTrip
  <2> SUFFICES ASSUME Offered, Single, Charged, receipt.n # NoRequest
               PROVE  /\ ~ crossed => receipt.n = current
                      /\ \A o \in offers : o.n = receipt.n /\ ~ o.known
                                             => receipt.fare = o.fare
                      /\ \A t \in trips :
                           (\E o \in offers : o.n = t.n /\ o.known) /\ t.n = receipt.n
                             => receipt.fare = 100 * t.fare
    BY DEF ReceiptIsOfTheTrip
  <2>1. PICK o \in offers :
          /\ o.n = receipt.n
          /\ receipt.fare = IF o.known THEN 100 * TripFare[<<o.from, o.to>>] ELSE o.fare
    BY DEF Charged
  <2>2. \A x \in offers : x.n = receipt.n => x = o
    BY <2>1 DEF Offered, Numbered
  <2>3. \A t \in trips : t.n = receipt.n => t.fare = TripFare[<<o.from, o.to>>]
    BY <2>1 DEF Offered, TripsAgree
  <2>. QED BY <2>1, <2>2, <2>3 DEF Single
<1>. QED BY <1>1, SingleAlways, PTL

-----------------------------------------------------------------------------
(* Addresses *)

\* A lookup that nothing has overtaken is for the pin its end shows.
Addresses ==
  /\ \A g \in geo : ~ g.old => pins[g.end] = g.point
  /\ AddressAgrees

\* The pins and the addresses change only as these steps say.
LEMMA AddressSteps ==
  ASSUME [Next]_vars
  PROVE  \/ UNCHANGED <<pins, text, geo, late>>
         \/ \E e \in End : \E p \in Places[e] : PinLands(e, p)
         \/ \E g \in geo : GeoReply(g)
         \/ \E e \in End : TypeText(e) \/ ClearEnd(e)
         \/ handleResetToBooking
         \/ \E s \in BOOLEAN : Mounts(s)
<1>1. "PICKUP" \in End /\ "DROPOFF" \in End
  BY DEF End
<1>. QED
  BY <1>1, StepCases
     DEF handleMapClick, handlePickupDrag, handleDropoffDrag, RouteReply, CarMoves,
         TogglePin, SelectTier, Rebook, handleCancelTrip, PressSignedOut, LeavePage,
         ReloadPage, PressRequest, CardReady, CardFails, CreateTrip, CreateReply, CreateFails,
         Broadcasts, TripStatus, SubmitRating, Shows, form, ride, async, outside, ghosts, bounds, vars

LEMMA AddressesStep == Typed /\ Addresses /\ [Next]_vars => Addresses'
<1> SUFFICES ASSUME Typed, Addresses, [Next]_vars PROVE Addresses'
  OBVIOUS
<1>a. FormTypes /\ pins \in [End -> Pins]
  BY TypedParts DEF RoadTypes
<1>b. \A t \in Texts : t \notin Point
  BY BookingAssumption DEF Texts, Pins
<1>c. \A g \in geo : g.end \in End /\ g.point \in Point /\ g.old \in BOOLEAN
  BY <1>a DEF FormTypes
<1>d. /\ \A g \in geo : ~ g.old => pins[g.end] = g.point
      /\ \A e \in End : text[e] \in Point /\ ~ late[e] => text[e] = pins[e]
  BY DEF Addresses, AddressAgrees
<1>e. ASSUME NEW E, NEW h \in Older(E), ~ h.old
      PROVE  \E g \in geo : ~ g.old /\ g.end \notin E /\ h.end = g.end /\ h.point = g.point
  <2>1. PICK g \in geo : h = [g EXCEPT !.old = @ \/ g.end \in E]
    BY DEF Older
  <2>2. g \in [end : End, point : Point, old : BOOLEAN]
    BY <1>a DEF FormTypes
  <2>3. h.end = g.end /\ h.point = g.point /\ h.old = (g.old \/ g.end \in E)
    BY <2>1, <2>2
  <2>. QED BY <1>e, <2>3
<1>1. CASE UNCHANGED <<pins, text, geo, late>>
  BY <1>1 DEF Addresses, AddressAgrees
<1>2. ASSUME NEW e \in End, NEW p \in Places[e], PinLands(e, p)
      PROVE  Addresses'
  <2> DEFINE new == [end |-> e, point |-> p, old |-> FALSE]
  <2>1. /\ pins' = [pins EXCEPT ![e] = p]
        /\ text' = [text EXCEPT ![e] = "Locating address..."]
        /\ geo' = Older({e}) \cup {new}
        /\ late' = [late EXCEPT ![e] = FALSE]
    BY <1>2 DEF PinLands, Shows
  <2>2. new.end = e /\ new.point = p
    OBVIOUS
  <2> HIDE DEF new
  <2>3. \A g \in geo' : ~ g.old => pins'[g.end] = g.point
    <3> SUFFICES ASSUME NEW h \in geo', ~ h.old PROVE pins'[h.end] = h.point
      OBVIOUS
    <3>1. CASE h = new
      BY <1>a, <2>1, <2>2, <3>1
    <3>2. CASE h \in Older({e})
      <4>1. PICK g \in geo : ~ g.old /\ g.end \notin {e} /\ h.end = g.end /\ h.point = g.point
        BY <1>e, <3>2
      <4>2. pins[g.end] = g.point /\ g.end \in End /\ g.end # e
        BY <1>c, <1>d, <4>1
      <4>. QED BY <1>a, <2>1, <4>1, <4>2
    <3>. QED BY <2>1, <3>1, <3>2
  <2>4. "Locating address..." \notin Point
    BY <1>b DEF Texts
  <2>5. AddressAgrees'
    BY <1>a, <1>d, <2>1, <2>4 DEF AddressAgrees, FormTypes
  <2>. QED BY <2>3, <2>5 DEF Addresses
<1>3. ASSUME NEW g \in geo, GeoReply(g)
      PROVE  Addresses'
  <2>1. /\ pins' = pins /\ geo' \subseteq geo
        /\ text' = [text EXCEPT ![g.end] = g.point]
        /\ late' = [late EXCEPT ![g.end] = g.old]
    BY <1>3 DEF GeoReply, form, AddressOf
  <2>2. g.end \in End /\ g.old \in BOOLEAN /\ (~ g.old => pins[g.end] = g.point)
    BY <1>c, <1>d
  <2>3. AddressAgrees'
    BY <1>a, <1>d, <2>1, <2>2 DEF AddressAgrees, FormTypes
  <2>. QED BY <1>d, <2>1, <2>3 DEF Addresses
<1>4. ASSUME NEW e \in End, TypeText(e)
      PROVE  Addresses'
  <2>1. UNCHANGED <<pins, geo, late>> /\ text' = [text EXCEPT ![e] = "typed"]
    BY <1>4 DEF TypeText, async, ghosts
  <2>2. "typed" \notin Point
    BY <1>b DEF Texts
  <2>. QED BY <1>a, <1>d, <2>1, <2>2 DEF Addresses, AddressAgrees, FormTypes
<1>5. ASSUME NEW e \in End, ClearEnd(e)
      PROVE  Addresses'
  <2>1. /\ pins' = [pins EXCEPT ![e] = NoPoint] /\ geo' = Older({e})
        /\ text' = [text EXCEPT ![e] = ""] /\ late' = [late EXCEPT ![e] = FALSE]
    BY <1>5 DEF ClearEnd, Shows
  <2>2. "" \notin Point
    BY <1>b DEF Texts
  <2>3. ASSUME NEW h \in geo', ~ h.old PROVE pins'[h.end] = h.point
    <3>1. PICK g \in geo : ~ g.old /\ g.end \notin {e} /\ h.end = g.end /\ h.point = g.point
      BY <1>e, <2>1, <2>3
    <3>2. pins[g.end] = g.point /\ g.end \in End /\ g.end # e
      BY <1>c, <1>d, <3>1
    <3>. QED BY <1>a, <2>1, <3>1, <3>2
  <2>4. AddressAgrees'
    BY <1>a, <1>d, <2>1, <2>2 DEF AddressAgrees, FormTypes
  <2>. QED BY <2>3, <2>4 DEF Addresses
<1>6. CASE handleResetToBooking
  <2>1. geo' = Older(End) /\ \A e \in End : text'[e] = ""
    BY <1>6 DEF handleResetToBooking
  <2>2. \A h \in geo' : h.old
    BY <1>c, <1>e, <2>1
  <2>3. "" \notin Point
    BY <1>b DEF Texts
  <2>. QED BY <2>1, <2>2, <2>3 DEF Addresses, AddressAgrees
<1>7. ASSUME NEW s \in BOOLEAN, Mounts(s)
      PROVE  Addresses'
  <2>1. geo' = {} /\ \A e \in End : text'[e] = ""
    BY <1>7 DEF Mounts
  <2>2. "" \notin Point
    BY <1>b DEF Texts
  <2>. QED BY <2>1, <2>2 DEF Addresses, AddressAgrees
<1>. QED BY <1>1, <1>2, <1>3, <1>4, <1>5, <1>6, <1>7, AddressSteps

\* The address shown is the pin's, unless an older answer overtook it: see AddressAgrees.
THEOREM AddressCorrect == Spec => []AddressAgrees
<1>1. Init => Addresses
  <2>1. "" \notin Point
    BY BookingAssumption DEF Pins
  <2>. QED BY <2>1 DEF Init, Addresses, AddressAgrees
<1>2. Addresses => AddressAgrees
  BY DEF Addresses
<1>. QED BY <1>1, <1>2, InitTyped, TypedStep, AddressesStep, PTL DEF Spec
=============================================================================
