------------------------------- MODULE Booking --------------------------------
(***************************************************************************)
(* The rider's booking page: two pins on the map, their addresses, the     *)
(* driving distance the price is computed from, and the request that       *)
(* tokenises a card, creates a trip and broadcasts it to drivers.          *)
(*                                                                         *)
(* Every lookup and call is asynchronous, and the page stays usable while  *)
(* one is under way.  A handler that resumes after an await works on the   *)
(* values it was started with (its closure) and writes state whatever the  *)
(* page shows by then.  There are two ways to leave it.  By a link or a    *)
(* router.push the page unmounts and its handlers run on: their state      *)
(* updates are lost, their calls and broadcasts are not.  By a reload or a *)
(* closed tab its handlers die where they stand, while the trip service    *)
(* may go on with what it was asked.                                       *)
(*                                                                         *)
(* The pages of drivers are the environment: TripStatus is one of their    *)
(* broadcasts.  The ride itself is the module Ride.                        *)
(***************************************************************************)
EXTENDS Fare, FiniteSets, MapView

CONSTANTS
  Km,            \* the answer of the directions lookup, for each pair of points
  MaxKm,         \* MAX_TRIP_DISTANCE_KM, in tenths of a kilometre
  TripFare,      \* what the trip service charges for each pair of points, in cents
  Places,        \* the points the rider may set each end to
  Tier,          \* the tiers the rider may select
  MaxSteps,      \* bound: changes to the form, requests, resets and faults together
  MaxRequests,   \* bound: presses of the request button that start a booking
  MaxFaults      \* bound: directions lookups and trip creations that fail

ASSUME BookingAssumption ==
  /\ Km \in [Point \X Point -> Nat]
  /\ MaxKm \in Nat
  /\ TripFare \in [Point \X Point -> Nat \ {0}]
  /\ Places \in [{"PICKUP", "DROPOFF"} -> SUBSET Point]
  /\ NoPoint \notin Point /\ Car \notin Point /\ Car # NoPoint
  /\ {"", "Locating address...", "typed"} \cap Pins = {}
  /\ Tier \subseteq Tiers /\ "PREMIUM" \in Tier
  /\ {NoLine} \cap ((Point \cup {Car}) \X Point) = {}
  /\ MaxSteps \in Nat /\ MaxRequests \in Nat /\ MaxFaults \in Nat

VARIABLES
  pins,      \* pickupCoords and dropoffCoords
  text,      \* pickupAddress and dropoffAddress
  pinMode,   \* activePinMode
  tier,      \* selectedTier
  quote,     \* drivingDistanceKm
  line,      \* the ends of the road the map draws
  stage,     \* isIdle and tripState
  current,   \* currentTrip, by the request that created it
  pin,       \* generatedOtp, by the request that drew it
  receipt,   \* submittedFeedback: the ride it is for, and the base fare it shows
  modal,     \* showRatingModal
  session,   \* the page has a rider's session
  pending,   \* urban_pending_ride is in the browser's storage
  lookups,   \* directions lookups under way
  geo,       \* address lookups under way
  calls,     \* requests under way, at the card or at the trip service
  trips,     \* trips the trip service created
  offers,    \* offers broadcast to drivers
  cut,       \* ghost: requests at the trip service when their page was reloaded
  failed,    \* ghost: the last lookup of the form, or of the map, failed
  late,      \* ghost: an address was overwritten by an older lookup's
  crossed,   \* ghost: a second request, or a reset, met one under way
  spent, asked, faults

form == <<pins, text, pinMode, tier, quote, line>>
ride == <<stage, current, pin, receipt, modal>>
async == <<lookups, geo, calls>>
outside == <<trips, offers, cut, pending>>
ghosts == <<failed, late, crossed>>
bounds == <<spent, asked, faults>>
vars == <<form, ride, session, async, outside, ghosts, bounds>>

End == {"PICKUP", "DROPOFF"}
Stages == {"idle", "MATCHING", "TO_PICKUP", "TO_DESTINATION", "COMPLETED",
           "RECEIPT"}
Events == {"TO_PICKUP", "TO_DESTINATION", "COMPLETED"}
Texts == {"", "Locating address...", "typed"}
NoRequest == 0
NoReceipt == [n |-> NoRequest, fare |-> 0]
Asker == {"form", "map"}

\* The PIN every page shows or expects before one has been drawn.
DefaultPin == NoRequest

-----------------------------------------------------------------------------
(* Derived values of a render *)

ActiveLeg(s) == IF s \in {"TO_PICKUP", "TO_DESTINATION"} THEN s ELSE "NONE"

Placed(p) == \A e \in End : p[e] # NoPoint
RoadOf(p) == Km[<<p["PICKUP"], p["DROPOFF"]>>]

\* What the request button and the tier list show: nothing without a distance.
ShownFare == IF Placed(pins) /\ quote > 0 THEN TierPrice(tier, quote) ELSE 0

\* The distance shown is beyond what a trip may be, and the page warns of it.
OutOfRange == quote > MaxKm

\* The request button is usable.
MayRequest == Placed(pins) /\ ~ OutOfRange

\* The road the map should draw.  The receipt takes the pins off the map.
ShownLine(p, s) ==
  IF s = "RECEIPT" THEN NoLine
  ELSE LineEnds(ActiveLeg(s), Car, p["PICKUP"], p["DROPOFF"])

\* The end a click on the map sets: the one being pinned, or the first one missing.
ClickSets(e) ==
  \/ pinMode = e
  \/ pinMode = "none" /\ pins[e] = NoPoint
       /\ (e = "DROPOFF" => pins["PICKUP"] # NoPoint)

\* The end's marker is on the map and can be dragged.
Draggable(e) ==
  /\ stage # "RECEIPT"
  /\ IF e = "PICKUP" THEN PickupDraggable(ActiveLeg(stage), pins[e])
     ELSE DropoffDraggable(ActiveLeg(stage), pins[e])

\* The name of a place: its street address, or its coordinates when there is none.
AddressOf(p) == p

-----------------------------------------------------------------------------
(* The effects that ask for roads *)

\* Mutant: a form that asks for a distance with one pin.
WantsEarly(who, p, s) ==
  IF who = "map" THEN ShownLine(p, s) ELSE <<p["PICKUP"], p["DROPOFF"]>>

\* The road each asker wants for the pins p in the stage s.
Wants(who, p, s) ==
  CASE who = "map" -> ShownLine(p, s)
    [] who = "form" /\ Placed(p) -> <<p["PICKUP"], p["DROPOFF"]>>
    [] OTHER -> NoLine

\* The form asks when a pin has changed, the map when a pin or the leg has.
Asks(who, p, s) ==
  p # pins \/ (who = "map" /\ ShownLine(p, s) # ShownLine(pins, stage))

Asking(p, s) ==
  {[who |-> w, ends |-> Wants(w, p, s)] :
     w \in {v \in Asker : Asks(v, p, s) /\ Wants(v, p, s) # NoLine}}

\* Mutant: an effect that does not cancel the lookup it replaces.
AfterAskingUncancelled(p, s) == lookups \cup Asking(p, s)

\* A lookup that is replaced is cancelled: its answer, when it arrives, is dropped.
AfterAsking(p, s) == {l \in lookups : ~ Asks(l.who, p, s)} \cup Asking(p, s)

\* The page shows the pins p in the stage s: no road means no distance and no line.
Shows(p, s) ==
  /\ pins' = p
  /\ stage' = s
  /\ lookups' = AfterAsking(p, s)
  /\ quote' = IF Asks("form", p, s) /\ ~ Placed(p) THEN 0 ELSE quote
  /\ line' = IF Asks("map", p, s) /\ ShownLine(p, s) = NoLine THEN NoLine ELSE line
  /\ failed' = [w \in Asker |-> failed[w] /\ ~ Asks(w, p, s)]

-----------------------------------------------------------------------------
(* Pins, addresses and roads *)

Init ==
  /\ pins = [e \in End |-> NoPoint] /\ text = [e \in End |-> ""]
  /\ pinMode = "none" /\ tier = "PREMIUM" /\ quote = 0 /\ line = NoLine
  /\ stage = "idle" /\ current = NoRequest /\ pin = DefaultPin
  /\ receipt = NoReceipt /\ modal = FALSE
  /\ session \in BOOLEAN /\ pending = FALSE
  /\ lookups = {} /\ geo = {} /\ calls = {} /\ trips = {} /\ offers = {}
  /\ cut = {}
  /\ failed = [w \in Asker |-> FALSE] /\ late = [e \in End |-> FALSE]
  /\ crossed = FALSE
  /\ spent = 0 /\ asked = 0 /\ faults = 0

\* The address lookups of the ends E become older than what their page shows.
Older(E) == {[g EXCEPT !.old = @ \/ g.end \in E] : g \in geo}

Spends == spent < MaxSteps /\ spent' = spent + 1

\* A pin of the end e lands on the point p, dropped or dragged.
PinLands(e, p) ==
  /\ Spends
  /\ Shows([pins EXCEPT ![e] = p], stage)
  /\ text' = [text EXCEPT ![e] = "Locating address..."]
  /\ geo' = Older({e}) \cup {[end |-> e, point |-> p, old |-> FALSE]}
  /\ late' = [late EXCEPT ![e] = FALSE]
  /\ UNCHANGED <<tier, current, pin, receipt, modal, session, calls, outside, crossed,
                 asked, faults>>

handleMapClick(e, p) ==
  /\ ClickSets(e)
  /\ PinLands(e, p)
  /\ pinMode' = "none"

handlePickupDrag(p) ==
  /\ Draggable("PICKUP")
  /\ PinLands("PICKUP", p)
  /\ UNCHANGED pinMode

handleDropoffDrag(p) ==
  /\ Draggable("DROPOFF")
  /\ PinLands("DROPOFF", p)
  /\ UNCHANGED pinMode

\* Mutant: an address that cannot be found leaves the placeholder.
GeoReplyOrNothing(g) ==
  /\ g \in geo
  /\ geo' = geo \ {g}
  /\ \/ text' = [text EXCEPT ![g.end] = AddressOf(g.point)]
     \/ UNCHANGED text
  /\ late' = [late EXCEPT ![g.end] = g.old]
  /\ UNCHANGED <<pins, pinMode, tier, quote, line, ride, session, lookups, calls,
                 outside, failed, crossed, bounds>>

\* Mutant: every address is written to the pickup.
GeoReplyToPickup(g) ==
  /\ g \in geo
  /\ geo' = geo \ {g}
  /\ text' = [text EXCEPT !["PICKUP"] = AddressOf(g.point)]
  /\ late' = [late EXCEPT ![g.end] = g.old]
  /\ UNCHANGED <<pins, pinMode, tier, quote, line, ride, session, lookups, calls,
                 outside, failed, crossed, bounds>>

\* An address arrives and is written, whatever the page shows by then.
GeoReply(g) ==
  /\ g \in geo
  /\ geo' = geo \ {g}
  /\ text' = [text EXCEPT ![g.end] = AddressOf(g.point)]
  /\ late' = [late EXCEPT ![g.end] = g.old]
  /\ UNCHANGED <<pins, pinMode, tier, quote, line, ride, session, lookups, calls,
                 outside, failed, crossed, bounds>>

\* A road arrives, or the lookup fails and the page keeps the road it has.
RouteReply(l) ==
  /\ l \in lookups
  /\ lookups' = lookups \ {l}
  /\ \/ /\ quote' = IF l.who = "form" THEN Km[l.ends] ELSE quote
        /\ line' = IF l.who = "map" THEN l.ends ELSE line
        /\ UNCHANGED <<failed, spent, faults>>
     \/ /\ faults < MaxFaults /\ Spends
        /\ faults' = faults + 1
        /\ failed' = [failed EXCEPT ![l.who] = TRUE]
        /\ UNCHANGED <<quote, line>>
  /\ UNCHANGED <<pins, text, pinMode, tier, ride, session, geo, calls, outside,
                 late, crossed, asked>>

\* The first car of the fleet moves: the map asks for the same road again.
CarMoves ==
  /\ ShownLine(pins, stage) # NoLine
  /\ lookups' = lookups \cup {[who |-> "map", ends |-> ShownLine(pins, stage)]}
  /\ failed' = [failed EXCEPT !["map"] = FALSE]
  /\ UNCHANGED <<form, ride, session, geo, calls, outside, late, crossed, bounds>>

-----------------------------------------------------------------------------
(* The idle panel *)

\* Typing an address changes neither the pin nor the lookups under way.
TypeText(e) ==
  /\ stage = "idle" /\ Spends
  /\ text' = [text EXCEPT ![e] = "typed"]
  /\ UNCHANGED <<pins, pinMode, tier, quote, line, ride, session, async, outside,
                 ghosts, asked, faults>>

\* The X of an address: the address and the pin go, what was looked up for it stays
\* under way.
ClearEnd(e) ==
  /\ stage = "idle" /\ Spends
  /\ text[e] # ""
  /\ text' = [text EXCEPT ![e] = ""]
  /\ Shows([pins EXCEPT ![e] = NoPoint], stage)
  /\ pinMode' = IF pinMode = e THEN "none" ELSE pinMode
  /\ geo' = Older({e})
  /\ late' = [late EXCEPT ![e] = FALSE]
  /\ UNCHANGED <<tier, current, pin, receipt, modal, session, calls, outside, crossed,
                 asked, faults>>

TogglePin(e) ==
  /\ stage = "idle" /\ Spends
  /\ pinMode' = IF pinMode = e THEN "none" ELSE e
  /\ UNCHANGED <<pins, text, tier, quote, line, ride, session, async, outside, ghosts,
                 asked, faults>>

\* The two address fields of the panel.
Edit(e) == TypeText(e) \/ ClearEnd(e) \/ TogglePin(e)

SelectTier(t) ==
  /\ stage = "idle" /\ Spends
  /\ tier' = t
  /\ UNCHANGED <<pins, text, pinMode, quote, line, ride, session, async, outside,
                 ghosts, asked, faults>>

-----------------------------------------------------------------------------
(* Requests *)

\* The page is mounted again, with the session s.
Mounts(s) ==
  /\ Spends
  /\ session' = s
  /\ pins' = [e \in End |-> NoPoint] /\ text' = [e \in End |-> ""]
  /\ pinMode' = "none" /\ tier' = "PREMIUM" /\ quote' = 0 /\ line' = NoLine
  /\ stage' = "idle" /\ current' = NoRequest /\ pin' = DefaultPin
  /\ receipt' = NoReceipt /\ modal' = FALSE
  /\ lookups' = {} /\ geo' = {}
  /\ failed' = [w \in Asker |-> FALSE] /\ late' = [e \in End |-> FALSE]
  /\ UNCHANGED <<offers, crossed, asked, faults>>

\* The requests of a page left by a link go on without it.
RequestsRunOn ==
  /\ calls' = {[c EXCEPT !.live = FALSE] : c \in calls}
  /\ UNCHANGED <<trips, cut>>

\* A link to another page, signing out included, and the way back.
LeavePage(s) == Mounts(s) /\ RequestsRunOn /\ UNCHANGED pending

\* The trip the service makes of the request c: it ignores the fare, and sets its own.
Trip(c) == [n |-> c.n, from |-> c.from, to |-> c.to, tier |-> c.tier,
            fare |-> TripFare[<<c.from, c.to>>]]

\* A reload, or a closed tab and a new one: the requests die with their page, and a trip
\* that was asked for may be created all the same.
ReloadPage(s) ==
  /\ Mounts(s)
  /\ calls' = {}
  /\ trips' \in {trips \cup {Trip(c) : c \in C} :
                  C \in SUBSET {c \in calls : c.step = "create"}}
  /\ cut' = cut \cup {c.n : c \in {d \in calls : d.step # "card"}}
  /\ UNCHANGED pending

MayBook == stage = "idle" /\ MayRequest /\ \A e \in End : text[e] # ""

\* Without a session the selection is saved for after the login.
PressSignedOut(s) ==
  /\ MayBook
  /\ ~ session
  /\ pending' = TRUE
  /\ Mounts(s) /\ RequestsRunOn

\* A request works on what the form shows now: where from, where to and at what fare.
PressRequest ==
  /\ MayBook
  /\ session
  /\ asked < MaxRequests /\ Spends
  /\ asked' = asked + 1
  /\ pending' = FALSE
  /\ calls' = calls \cup
       {[n |-> asked + 1, step |-> "card", live |-> TRUE,
         from |-> pins["PICKUP"], to |-> pins["DROPOFF"], tier |-> tier,
         fare |-> TierPrice(tier, quote), shown |-> ShownFare,
         sure |-> ~ failed["form"]
                  /\ ~ \E l \in lookups : l.who = "form"]}
  /\ crossed' = (crossed \/ \E c \in calls : c.live)
  /\ UNCHANGED <<form, ride, session, lookups, geo, trips, offers, cut, failed, late,
                 faults>>

\* Mutant: the fare is computed again once the card is tokenised.
CardReadyRepriced(c) ==
  /\ c \in calls /\ c.step = "card"
  /\ calls' = (calls \ {c}) \cup
       {[c EXCEPT !.step = "create", !.fare = TierPrice(tier, quote)]}
  /\ IF c.live
     THEN /\ Shows(pins, "MATCHING")
          /\ pin' = c.n
          /\ pinMode' = "none"
          /\ receipt' = NoReceipt
     ELSE UNCHANGED <<pins, stage, lookups, quote, line, failed, pin, pinMode, receipt>>
  /\ UNCHANGED <<text, tier, current, modal, session, geo, outside, late, crossed,
                 bounds>>

\* Mutant: the page goes on showing the PIN it had.
CardReadyOldPin(c) ==
  /\ c \in calls /\ c.step = "card"
  /\ calls' = (calls \ {c}) \cup {[c EXCEPT !.step = "create"]}
  /\ IF c.live
     THEN Shows(pins, "MATCHING") /\ pinMode' = "none" /\ receipt' = NoReceipt
     ELSE UNCHANGED <<pins, stage, lookups, quote, line, failed, pinMode, receipt>>
  /\ UNCHANGED <<text, tier, current, pin, modal, session, geo, outside, late, crossed,
                 bounds>>

\* The card is tokenised: the ride's PIN is drawn and the page starts matching.
CardReady(c) ==
  /\ c \in calls /\ c.step = "card"
  /\ calls' = (calls \ {c}) \cup {[c EXCEPT !.step = "create"]}
  /\ IF c.live
     THEN /\ Shows(pins, "MATCHING")
          /\ pin' = c.n
          /\ pinMode' = "none"
          /\ receipt' = NoReceipt
     ELSE UNCHANGED <<pins, stage, lookups, quote, line, failed, pin, pinMode, receipt>>
  /\ UNCHANGED <<text, tier, current, modal, session, geo, outside, late, crossed,
                 bounds>>

CardFails(c) ==
  /\ c \in calls /\ c.step = "card"
  /\ calls' = calls \ {c}
  /\ UNCHANGED <<form, ride, session, lookups, geo, outside, ghosts, bounds>>

\* The trip service answers: the trip is created, and the page does not know it yet.
CreateTrip(c) ==
  /\ c \in calls /\ c.step = "create"
  /\ trips' = trips \cup {Trip(c)}
  /\ calls' = (calls \ {c}) \cup {[c EXCEPT !.step = "answer"]}
  /\ UNCHANGED <<form, ride, session, lookups, geo, offers, cut, pending, ghosts, bounds>>

\* Mutant: the offer is read from the form, which may have changed.
OfferOfForm(c, known) ==
  [n |-> c.n, known |-> known, from |-> pins["PICKUP"], to |-> pins["DROPOFF"],
   tier |-> c.tier, fare |-> c.fare, shown |-> c.shown, sure |-> c.sure, pin |-> c.n]

\* The offer drivers get: known by the id of its trip, or by an invented one.
Offer(c, known) ==
  [n |-> c.n, known |-> known, from |-> c.from, to |-> c.to, tier |-> c.tier,
   fare |-> c.fare, shown |-> c.shown, sure |-> c.sure, pin |-> c.n]

\* The request c goes on with a trip, the service's or its own: the page holds it, if it
\* is still there, and offers it to drivers.
Broadcasts(c, known) ==
  /\ calls' = calls \ {c}
  /\ current' = IF c.live THEN c.n ELSE current
  /\ crossed' = (crossed \/ (c.live /\ stage = "idle"))
  /\ offers' = offers \cup {Offer(c, known)}
  /\ UNCHANGED <<form, stage, pin, receipt, modal, session, lookups, geo, cut, pending,
                 failed, late, asked>>

\* The answer reaches the page.
CreateReply(c) ==
  /\ c \in calls /\ c.step = "answer"
  /\ Broadcasts(c, TRUE)
  /\ UNCHANGED <<trips, spent, faults>>

\* createTrip never fails for its caller: without an answer, whether or not the service
\* has created a trip, it invents one.
CreateFails(c) ==
  /\ c \in calls /\ c.step # "card"
  /\ faults < MaxFaults /\ faults' = faults + 1 /\ Spends
  /\ trips' \in {trips, trips \cup {Trip(c)}}
  /\ Broadcasts(c, FALSE)

-----------------------------------------------------------------------------
(* The ride, as the booking page sees it *)

\* A driver's page broadcasts a stage of a trip, of this rider's or of another's: it
\* is believed, but a receipt stays in front of it.  COMPLETED opens the rating.
TripStatus(s) ==
  /\ offers # {}
  /\ Shows(pins, IF stage = "RECEIPT" THEN stage ELSE s)
  /\ modal' = (modal \/ s = "COMPLETED")
  /\ UNCHANGED <<text, pinMode, tier, current, pin, receipt, session, geo, calls,
                 outside, late, crossed, bounds>>

\* The fareAmount of the trip the page holds, as dollars: the service answers with its
\* price in cents under that name, an invented trip has the page's own fare.
HeldFare ==
  LET o == CHOOSE x \in offers : x.n = current
  IN  IF o.known THEN 100 * TripFare[<<o.from, o.to>>] ELSE o.fare

\* Mutant: the receipt charges what the form shows now.
SubmitRatingOfForm ==
  /\ modal
  /\ modal' = FALSE
  /\ Shows(pins, "RECEIPT")
  /\ receipt' = [n |-> current, fare |-> ShownFare]
  /\ UNCHANGED <<text, pinMode, tier, current, pin, session, geo, calls, outside,
                 late, crossed, bounds>>

\* The rating is sent: the receipt charges the trip the page holds, or what the form
\* shows without one.
SubmitRating ==
  /\ modal
  /\ modal' = FALSE
  /\ Shows(pins, "RECEIPT")
  /\ receipt' = [n |-> current,
                 fare |-> IF current = NoRequest THEN ShownFare ELSE HeldFare]
  /\ UNCHANGED <<text, pinMode, tier, current, pin, session, geo, calls, outside,
                 late, crossed, bounds>>

\* Back to the form.  The trip service is not told, and what is under way stays so.
handleResetToBooking ==
  /\ Spends
  /\ Shows([e \in End |-> NoPoint], "idle")
  /\ text' = [e \in End |-> ""]
  /\ pinMode' = "none"
  /\ current' = NoRequest
  /\ receipt' = NoReceipt
  /\ modal' = FALSE
  /\ geo' = Older(End)
  /\ late' = [e \in End |-> FALSE]
  /\ UNCHANGED <<pin, session, calls, outside, crossed, asked, faults>>

handleCancelTrip == handleResetToBooking /\ UNCHANGED tier

\* The X of the panel, its Cancel Ride Request and the receipt's Book Another Ride.
PressX == stage \notin {"idle", "RECEIPT"} /\ handleCancelTrip
CancelMatching == stage = "MATCHING" /\ handleCancelTrip
BookAnother == stage = "RECEIPT" /\ handleCancelTrip

\* Rebook of a past trip writes its addresses and its tier, and the reset that
\* follows clears the addresses.
Rebook(t) == handleResetToBooking /\ tier' = t

Next ==
  \/ \E e \in End : \E p \in Places[e] : handleMapClick(e, p)
  \/ \E p \in Places["PICKUP"] : handlePickupDrag(p)
  \/ \E p \in Places["DROPOFF"] : handleDropoffDrag(p)
  \/ \E g \in geo : GeoReply(g)
  \/ \E l \in lookups : RouteReply(l)
  \/ CarMoves
  \/ \E e \in End : Edit(e)
  \/ \E t \in Tier : SelectTier(t) \/ Rebook(t)
  \/ \E s \in BOOLEAN : PressSignedOut(s) \/ LeavePage(s) \/ ReloadPage(s)
  \/ PressRequest
  \/ \E c \in calls :
       CardReady(c) \/ CardFails(c) \/ CreateTrip(c) \/ CreateReply(c) \/ CreateFails(c)
  \/ \E s \in Events : TripStatus(s)
  \/ SubmitRating \/ PressX \/ CancelMatching \/ BookAnother

\* The browser ends every address lookup, with an answer or an error.
Spec == Init /\ [][Next]_vars /\ WF_vars(\E g \in geo : GeoReply(g))

-----------------------------------------------------------------------------
(* Properties *)

\* The page's state is made of its fields' values, a lookup of a form or a map and
\* the ends it was asked for, a request of what the form showed.
TypeOK ==
  /\ pins \in [End -> Pins]
  /\ text \in [End -> Texts \cup Point]
  /\ pinMode \in End \cup {"none"} /\ tier \in Tier /\ quote \in Nat
  /\ line \in {NoLine} \cup ((Point \cup {Car}) \X Point)
  /\ stage \in Stages /\ current \in Nat /\ pin \in Nat
  /\ receipt \in [n : Nat, fare : Nat] /\ modal \in BOOLEAN
  /\ session \in BOOLEAN /\ pending \in BOOLEAN
  /\ \A l \in lookups : /\ l.who \in Asker
                        /\ l.who = "form" => l.ends \in Point \X Point
                        /\ l.ends \in (Point \cup {Car}) \X Point
  /\ geo \subseteq [end : End, point : Point, old : BOOLEAN]
  /\ \A c \in calls : /\ c.n \in 1 .. asked /\ c.step \in {"card", "create", "answer"}
                      /\ c.live \in BOOLEAN /\ c.from \in Point /\ c.to \in Point
                      /\ c.tier \in Tier
  /\ failed \in [Asker -> BOOLEAN] /\ late \in [End -> BOOLEAN]
  /\ crossed \in BOOLEAN /\ cut \subseteq 1 .. asked
  /\ spent \in Nat /\ asked \in Nat /\ faults \in Nat

\* No form or map waits for a road it wants.
Waiting(who) == \E l \in lookups : l.who = who

\* The distance the price is computed from is that of the two pins shown, unless it
\* is being looked up or could not be: answers that arrive in another order than they
\* were asked in never leave the distance of other pins.
QuoteAgrees ==
  ~ Waiting("form") /\ ~ failed["form"]
    => quote = IF Placed(pins) THEN RoadOf(pins) ELSE 0

\* Likewise the road the map draws is the one of the pins and the leg shown.
LineAgrees ==
  ~ Waiting("map") /\ ~ failed["map"] => line = ShownLine(pins, stage)

\* The address shown for a pin is the pin's, unless the answer of an older lookup was
\* written over it.
AddressAgrees ==
  \A e \in End : text[e] \in Point /\ ~ late[e] => text[e] = pins[e]

\* A request made on a distance that had arrived broadcasts the price of its own two
\* points, within the range of the service, whatever the form has come to show
\* between the press, the card and the trip service's answer.  It is the price the
\* button showed, but for a distance of 0: that shows nothing and costs the base price.
FareIsOfTheRide ==
  \A o \in offers : o.sure =>
    LET km == Km[<<o.from, o.to>>] IN
    /\ km <= MaxKm
    /\ o.fare = TierPrice(o.tier, km)
    /\ km > 0 => o.shown = o.fare

\* An offer known by a trip's id carries that trip's points and tier.  A created trip is
\* offered, or its answer is on its way to a page that will offer it, or its page was
\* reloaded while it was asked for: just one of the three, and then no page ever offers
\* it.  Offers under an invented id are paid for by failed calls.
OffersAgree ==
  /\ \A o \in offers : o.known =>
       \E t \in trips : /\ t.n = o.n /\ t.from = o.from /\ t.to = o.to
                        /\ t.tier = o.tier
  /\ \A t \in trips :
       LET offered == \E o \in offers : o.n = t.n
           awaited == \E c \in calls : c.n = t.n /\ c.step = "answer"
       IN  IF t.n \in cut THEN ~ offered /\ ~ awaited ELSE offered # awaited
  /\ Cardinality({o \in offers : ~ o.known}) <= faults

\* The trip the page holds is the one whose PIN it shows, unless a second request, or
\* a reset, met one under way.
TripHasItsPin == current # NoRequest /\ ~ crossed => current = pin

\* A receipt for a trip charges that trip, the one the page holds unless a second request
\* crossed it, whatever has become of the form since: the fare that was offered to
\* drivers when the trip was invented, and a hundred times its price when the trip
\* service made it.
ReceiptIsOfTheTrip ==
  receipt.n # NoRequest =>
    /\ ~ crossed => receipt.n = current
    /\ \A o \in offers : o.n = receipt.n /\ ~ o.known => receipt.fare = o.fare
    /\ \A t \in trips : (\E o \in offers : o.n = t.n /\ o.known) /\ t.n = receipt.n
         => receipt.fare = 100 * t.fare

\* The placeholder of an address goes away.
PlaceholderGoes ==
  \A e \in End : text[e] = "Locating address..." ~> text[e] # "Locating address..."
===============================================================================
