--------------------------------- MODULE Ride ---------------------------------
(***************************************************************************)
(* A ride, as the browser plays it: the rider's page, the cockpit tabs of  *)
(* drivers, the BroadcastChannel between them and the wallets the cockpits *)
(* keep in the browser's storage.                                          *)
(*                                                                         *)
(* Nobody arbitrates.  An offer goes to every tab, any tab may accept it,  *)
(* the rider's page believes every stage it hears, of whatever trip, and   *)
(* every tab credits every tip it hears.  Messages of one page to another  *)
(* arrive in order; those of two pages do not wait for each other.         *)
(*                                                                         *)
(* A tab changes its earnings by updates that wait for the next render,    *)
(* which computes them in their order.  A tip adds to the earnings, and    *)
(* its update writes the sum to the storage, at the render; a storage      *)
(* event replaces the earnings by what is stored when it is handled; a     *)
(* completed trip adds its net fare to the earnings last rendered, writes  *)
(* that to the storage at once and is rendered before anything else.       *)
(*                                                                         *)
(* The backend is the environment: it may offer the trip to a driver too.  *)
(***************************************************************************)
EXTENDS Integers, FiniteSets, Sequences, SequencesExt

CONSTANTS
  Tab,         \* cockpit tabs of the browser
  Driver,
  Sessions,    \* the drivers the tabs may be signed in as: functions from Tab
  Net,         \* what a completed trip earns its driver
  Tip,         \* what the rider's tip adds
  MaxSteps     \* bound: requests and acceptances after the first, and all that need not
               \* happen in a ride, see Spends

ASSUME RideAssumption ==
  /\ IsFiniteSet(Tab) /\ Sessions \subseteq [Tab -> Driver]
  /\ Net \in Nat \ {0} /\ Tip \in Nat \ {0}
  /\ MaxSteps \in Nat

VARIABLES
  rider,     \* the rider's page
  carding,   \* requests of the rider's page whose card is being tokenised
  creating,  \* requests whose trip is being created
  session,   \* the driver of each tab
  tab,       \* the state of each cockpit tab
  store,     \* urban_driver_stats_<driver>.earnings
  toRider,   \* messages of each tab to the rider's page
  toTab,     \* messages of the rider's page to each tab
  events,    \* tabs with a storage event to handle
  due,       \* ghost: what each driver's completed trips and heard tips amount to
  raced,     \* ghost: drivers one of whose tips met something else before its render
  accepts,   \* ghost: offers accepted so far
  reloads,   \* ghost: tabs reloaded or signed out of
  drawn,     \* ghost: the last request the rider's page drew a PIN for, 0 if none
  covered,   \* ghost: the PIN was taken off that page since it was last put on it
  asked, spent

wallets == <<store, events, due, raced>>
mail == <<toRider, toTab>>
ghosts == <<accepts, reloads, drawn, covered>>
bounds == <<asked, spent>>
vars == <<rider, carding, creating, session, tab, wallets, mail, ghosts, bounds>>

NoTrip == [n |-> 0, pin |-> 0, direct |-> TRUE]

\* The PIN a page shows, or a driver expects, when none was drawn.
DefaultPin == 0

Driving == <<"ACCEPTED_EN_ROUTE_PICKUP", "ARRIVED_AT_PICKUP", "IN_TRANSIT",
             "ARRIVED_AT_DESTINATION">>
DrivingStages == ToSet(Driving)
PickupStages == {"ACCEPTED_EN_ROUTE_PICKUP", "ARRIVED_AT_PICKUP"}
RiderStages == DrivingStages \cup {"idle", "MATCHING", "COMPLETED"}

Spends == spent < MaxSteps /\ spent' = spent + 1

\* The first time is free.
SpendsAfter(count) == IF count = 0 THEN UNCHANGED spent ELSE Spends

-----------------------------------------------------------------------------
(* The channel *)

\* Each tab gets a copy of what the rider's page posts.
PostToTabs(m) == toTab' = [t \in Tab |-> Append(toTab[t], m)]

\* A tab's stage of trip n, for the rider's page.
PostStage(t, s) == toRider' = [toRider EXCEPT ![t] = Append(@, s)]

NewPage == [stage |-> "idle", modal |-> FALSE, pin |-> DefaultPin]

\* An update that waits for a render: tipped is what the tips among the updates will
\* write to the storage then, and 0 when there is none.
NewTab(d) == [online |-> TRUE, offer |-> NoTrip, declining |-> FALSE, trip |-> NoTrip,
              stage |-> "MATCHING", money |-> store[d], next |-> store[d],
              tipped |-> 0]

Init ==
  /\ rider = NewPage
  /\ carding = {} /\ creating = {}
  /\ session \in Sessions
  /\ store = [d \in Driver |-> 0]
  /\ tab = [t \in Tab |-> NewTab(session[t])]
  /\ toRider = [t \in Tab |-> <<>>] /\ toTab = [t \in Tab |-> <<>>]
  /\ events = {} /\ due = [d \in Driver |-> 0] /\ raced = {}
  /\ accepts = 0 /\ reloads = 0 /\ drawn = 0 /\ covered = FALSE
  /\ asked = 0 /\ spent = 0

-----------------------------------------------------------------------------
(* The rider's page *)

\* The page goes to the stage s; the PIN is on it in the stages up to the pickup.
Turns(s) == covered' = (s \notin PickupStages /\ (covered \/ rider.stage \in PickupStages))

\* The request leaves the booking form, for the card: see Booking.
handleRequestRide ==
  /\ rider.stage = "idle"
  /\ SpendsAfter(asked)
  /\ asked' = asked + 1
  /\ carding' = carding \cup {asked + 1}
  /\ UNCHANGED <<rider, creating, session, tab, wallets, mail, ghosts>>

\* The card is tokenised: a PIN is drawn and the page matches, whatever it showed.
CardReady(n) ==
  /\ n \in carding
  /\ carding' = carding \ {n} /\ creating' = creating \cup {n}
  /\ rider' = [rider EXCEPT !.stage = "MATCHING", !.pin = n]
  /\ drawn' = n /\ Turns("MATCHING")
  /\ UNCHANGED <<session, tab, wallets, mail, accepts, reloads, bounds>>

CardFails(n) ==
  /\ n \in carding
  /\ carding' = carding \ {n}
  /\ UNCHANGED <<rider, creating, session, tab, wallets, mail, ghosts, bounds>>

\* Mutant: the offer is broadcast without the PIN.
OfferOfDefault(n) ==
  [type |-> "offer", trip |-> [n |-> n, pin |-> DefaultPin, direct |-> TRUE]]

\* The offer of the trip n.
OfferOf(n) == [type |-> "offer", trip |-> [n |-> n, pin |-> n, direct |-> TRUE]]

\* The trip is created, or believed to be: every tab is offered it.
CreateReply(n) ==
  /\ n \in creating
  /\ creating' = creating \ {n}
  /\ PostToTabs(OfferOf(n))
  /\ UNCHANGED <<rider, carding, session, tab, wallets, toRider, ghosts, bounds>>

\* Mutant: the newest message of a tab is handled first.
RiderHearsNewest(t) ==
  /\ toRider[t] # <<>>
  /\ rider' = [rider EXCEPT !.stage = Last(toRider[t]),
                            !.modal = @ \/ Last(toRider[t]) = "COMPLETED"]
  /\ toRider' = [toRider EXCEPT ![t] = Front(@)]
  /\ Turns(Last(toRider[t]))
  /\ UNCHANGED <<carding, creating, session, tab, wallets, toTab, accepts, reloads, drawn,
                 bounds>>

\* A stage of a trip is shown, whosever trip it is; COMPLETED opens the rating.
RiderHears(t) ==
  /\ toRider[t] # <<>>
  /\ rider' = [rider EXCEPT !.stage = Head(toRider[t]),
                            !.modal = @ \/ Head(toRider[t]) = "COMPLETED"]
  /\ toRider' = [toRider EXCEPT ![t] = Tail(@)]
  /\ Turns(Head(toRider[t]))
  /\ UNCHANGED <<carding, creating, session, tab, wallets, toTab, accepts, reloads, drawn,
                 bounds>>

\* What the rating modal can send, while it is open: a tip, or a rating without one.
Ratings == IF rider.modal THEN {0, Tip} ELSE {}

\* The rating is saved to the rider's history, which every tab hears of as a storage
\* event, and is broadcast.
handleSubmitRating(tip) ==
  /\ tip \in Ratings
  /\ rider' = [rider EXCEPT !.modal = FALSE, !.stage = "COMPLETED"]
  /\ Turns("COMPLETED")
  /\ events' = Tab
  /\ PostToTabs([type |-> IF tip > 0 THEN "tip" ELSE "rating", trip |-> NoTrip])
  /\ UNCHANGED <<carding, creating, session, tab, store, due, raced, toRider, accepts,
                 reloads, drawn, bounds>>

\* The page goes back to the form, and tells nobody; the PIN is kept.
handleCancelTrip ==
  /\ rider.stage # "idle"
  /\ IF rider.stage = "COMPLETED" THEN UNCHANGED spent ELSE Spends
  /\ rider' = [rider EXCEPT !.stage = "idle", !.modal = FALSE]
  /\ Turns("idle")
  /\ UNCHANGED <<carding, creating, session, tab, wallets, mail, accepts, reloads, drawn,
                 asked>>

\* The page is opened anew, by a reload or after a link to another page: it forgets the
\* ride and its PIN, and hears nothing that was sent before.
OpensAnew ==
  /\ Spends
  /\ rider' = NewPage
  /\ toRider' = [t \in Tab |-> <<>>]
  /\ drawn' = 0 /\ covered' = TRUE
  /\ carding' = {}
  /\ UNCHANGED <<session, tab, wallets, toTab, accepts, reloads, asked>>

\* A reload ends the requests under way; those whose page was left by a link go on
\* without it, unless their card fails.
ReloadRider == OpensAnew /\ creating' = {}
LeaveRider == OpensAnew /\ creating' \in {creating \cup S : S \in SUBSET carding}

-----------------------------------------------------------------------------
(* Offers at a cockpit *)

\* The tab shows an offer: the newest one replaces the one shown.
Shows(t, o) ==
  tab' = IF tab[t].online /\ tab[t].trip = NoTrip THEN [tab EXCEPT ![t].offer = o]
         ELSE tab

HearOffer(t) ==
  /\ toTab[t] # <<>> /\ Head(toTab[t]).type = "offer"
  /\ Shows(t, Head(toTab[t]).trip)
  /\ toTab' = [toTab EXCEPT ![t] = Tail(@)]
  /\ UNCHANGED <<rider, carding, creating, session, wallets, toRider, ghosts, bounds>>

\* The dispatch loop's offer, over Centrifugo: it carries no PIN.
HearBackendOffer(t, n) ==
  /\ Spends
  /\ Shows(t, [n |-> n, pin |-> DefaultPin, direct |-> FALSE])
  /\ UNCHANGED <<rider, carding, creating, session, wallets, mail, ghosts, asked>>

\* The tab asks for an answer to an offer.
OfferModal(t) == tab[t].offer # NoTrip

\* The 15 seconds of an offer are over.
Countdown(t) ==
  /\ OfferModal(t)
  /\ tab' = [tab EXCEPT ![t].offer = NoTrip]
  /\ UNCHANGED <<rider, carding, creating, session, wallets, mail, ghosts, bounds>>

handleAcceptOffer(t) ==
  /\ OfferModal(t) /\ SpendsAfter(accepts)
  /\ tab' = [tab EXCEPT ![t].offer = NoTrip, ![t].trip = tab[t].offer,
                        ![t].stage = "ACCEPTED_EN_ROUTE_PICKUP"]
  /\ PostStage(t, "ACCEPTED_EN_ROUTE_PICKUP")
  /\ accepts' = accepts + 1
  /\ UNCHANGED <<rider, carding, creating, session, wallets, toTab, reloads,
                 drawn, covered, asked>>

\* Declining waits for the driver service's answer, and then clears the offer shown.
handleDeclineOffer(t) ==
  /\ OfferModal(t) /\ ~ tab[t].declining /\ Spends
  /\ tab' = [tab EXCEPT ![t].declining = TRUE]
  /\ UNCHANGED <<rider, carding, creating, session, wallets, mail, ghosts, asked>>

DeclineReply(t) ==
  /\ tab[t].declining
  /\ tab' = [tab EXCEPT ![t].declining = FALSE, ![t].offer = NoTrip]
  /\ UNCHANGED <<rider, carding, creating, session, wallets, mail, ghosts, bounds>>

\* The toggle is disabled while a trip is driven, not while an offer is shown.
ToggleOnline(t) ==
  /\ tab[t].trip = NoTrip /\ Spends
  /\ tab' = [tab EXCEPT ![t].online = ~ @]
  /\ UNCHANGED <<rider, carding, creating, session, wallets, mail, ghosts, asked>>

-----------------------------------------------------------------------------
(* The stages of a trip at a cockpit *)

\* The panel of an active trip shows the one control of its stage.
Hud(t, s) == tab[t].trip # NoTrip /\ tab[t].stage = s

\* The tab moves from one stage to the next and says so.
Advances(t, from, to) ==
  /\ Hud(t, from)
  /\ tab' = [tab EXCEPT ![t].stage = to]
  /\ PostStage(t, to)
  /\ UNCHANGED <<rider, carding, creating, session, wallets, toTab, ghosts, bounds>>

\* Within 20 m of the pickup, by driving or by the shortcut button of the panel.
ArriveAtPickup(t) == Advances(t, "ACCEPTED_EN_ROUTE_PICKUP", "ARRIVED_AT_PICKUP")
handleSimulateArrivePickup(t) ==
  Advances(t, "ACCEPTED_EN_ROUTE_PICKUP", "ARRIVED_AT_PICKUP")

\* The driver types the PIN the tab expects, whoever gave it: the rider's, or a guess.
handleVerifyOtpAndStart(t) == Advances(t, "ARRIVED_AT_PICKUP", "IN_TRANSIT")

\* Mutant: the shortcut to the destination tells nobody.
SimulateDropoffSilently(t) ==
  /\ Hud(t, "IN_TRANSIT")
  /\ tab' = [tab EXCEPT ![t].stage = "ARRIVED_AT_DESTINATION"]
  /\ UNCHANGED <<rider, carding, creating, session, wallets, mail, ghosts, bounds>>

\* Mutant: the arrival already counts as the end of the trip.
ArriveAtDropoffCompletes(t) == Advances(t, "IN_TRANSIT", "COMPLETED")

\* Within 20 m of the destination, by driving or by the shortcut button of the panel.
ArriveAtDropoff(t) == Advances(t, "IN_TRANSIT", "ARRIVED_AT_DESTINATION")
handleSimulateArriveDropoff(t) == Advances(t, "IN_TRANSIT", "ARRIVED_AT_DESTINATION")

\* A change of a driver's entry of the storage: the other tabs hear of it.
Stores(t, v) ==
  /\ store' = [store EXCEPT ![session[t]] = v]
  /\ events' = events \cup (Tab \ {t})

\* Mutant: the completed trip is not written to the storage.
CompleteUnstored(t) ==
  /\ Hud(t, "ARRIVED_AT_DESTINATION")
  /\ LET sum == tab[t].money + Net IN
     tab' = [tab EXCEPT ![t].trip = NoTrip, ![t].stage = "MATCHING",
                        ![t].money = sum, ![t].next = sum, ![t].tipped = 0]
  /\ due' = [due EXCEPT ![session[t]] = @ + Net]
  /\ PostStage(t, "COMPLETED")
  /\ UNCHANGED <<rider, carding, creating, session, store, events, raced, toTab, ghosts,
                 bounds>>

\* A tip is waiting for its render: what now changes the earnings races it.
Races(t) == raced' = IF tab[t].tipped = 0 THEN raced ELSE raced \cup {session[t]}

\* The trip's net fare is added to the earnings last rendered, and stored.  The render
\* of the click follows: a tip that was waiting is written over what was just stored,
\* and is not in what the tab shows.
handleCompleteTrip(t) ==
  /\ Hud(t, "ARRIVED_AT_DESTINATION")
  /\ LET sum == tab[t].money + Net IN
     /\ tab' = [tab EXCEPT ![t].trip = NoTrip, ![t].stage = "MATCHING",
                           ![t].money = sum, ![t].next = sum, ![t].tipped = 0]
     /\ Stores(t, IF tab[t].tipped = 0 THEN sum ELSE tab[t].tipped)
  /\ due' = [due EXCEPT ![session[t]] = @ + Net]
  /\ Races(t)
  /\ PostStage(t, "COMPLETED")
  /\ UNCHANGED <<rider, carding, creating, session, toTab, ghosts, bounds>>

-----------------------------------------------------------------------------
(* The wallet of a cockpit *)

\* A rating and its tip, whoever they are for.  The rating goes to the shift log, which
\* is stored beside the earnings: if that changes it, the other tabs hear of it.  The
\* tip waits for the render.
HearRating(t) ==
  /\ toTab[t] # <<>> /\ Head(toTab[t]).type # "offer"
  /\ events' \in {events, events \cup (Tab \ {t})}
  /\ IF Head(toTab[t]).type = "tip"
     THEN /\ tab' = [tab EXCEPT ![t].next = @ + Tip, ![t].tipped = tab[t].next + Tip]
          /\ due' = [due EXCEPT ![session[t]] = @ + Tip]
     ELSE UNCHANGED <<tab, due>>
  /\ toTab' = [toTab EXCEPT ![t] = Tail(@)]
  /\ UNCHANGED <<rider, carding, creating, session, store, raced, toRider, ghosts, bounds>>

\* Another page wrote a history or a wallet: the tab takes over what is stored now, in
\* place of a tip that has not been written yet.
StorageEvent(t) ==
  /\ t \in events
  /\ events' = events \ {t}
  /\ tab' = [tab EXCEPT ![t].next = IF store[session[t]] > 0 THEN store[session[t]] ELSE @]
  /\ Races(t)
  /\ UNCHANGED <<rider, carding, creating, session, store, due, mail, ghosts, bounds>>

\* The updates are computed, in the order they came in: the tab shows the last one, and
\* the storage has the last of the tips.
Render(t) ==
  /\ tab[t].next # tab[t].money \/ tab[t].tipped # 0
  /\ tab' = [tab EXCEPT ![t].money = tab[t].next, ![t].tipped = 0]
  /\ IF tab[t].tipped = 0 THEN UNCHANGED <<store, events>> ELSE Stores(t, tab[t].tipped)
  /\ UNCHANGED <<rider, carding, creating, session, due, raced, mail, ghosts, bounds>>

\* The tab is reloaded, or signed out of and in again: it starts from the storage, and
\* the trip it was driving is forgotten.  The ratings it takes over from the riders'
\* histories may change what is stored beside the earnings: the other tabs hear of it.
ReloadTab(t) ==
  /\ Spends
  /\ tab' = [tab EXCEPT ![t] = NewTab(session[t])]
  /\ toTab' = [toTab EXCEPT ![t] = <<>>]
  /\ events' \in {events \ {t}, Tab \ {t}}
  /\ Races(t)
  /\ reloads' = reloads + 1
  /\ UNCHANGED <<rider, carding, creating, session, store, due, toRider, accepts, drawn,
                 covered, asked>>

Next ==
  \/ handleRequestRide \/ handleCancelTrip \/ ReloadRider \/ LeaveRider
  \/ \E tip \in Ratings : handleSubmitRating(tip)
  \/ \E n \in carding : CardReady(n) \/ CardFails(n)
  \/ \E n \in creating : CreateReply(n)
  \/ \E t \in Tab :
       \/ RiderHears(t) \/ HearOffer(t) \/ \E n \in 1 .. asked : HearBackendOffer(t, n)
       \/ Countdown(t) \/ handleAcceptOffer(t)
       \/ handleDeclineOffer(t) \/ DeclineReply(t) \/ ToggleOnline(t)
       \/ ArriveAtPickup(t) \/ handleSimulateArrivePickup(t)
       \/ handleVerifyOtpAndStart(t)
       \/ ArriveAtDropoff(t) \/ handleSimulateArriveDropoff(t)
       \/ handleCompleteTrip(t)
       \/ HearRating(t) \/ StorageEvent(t) \/ Render(t) \/ ReloadTab(t)

\* Nobody has to act, and nothing is promised in the end.
Spec == Init /\ [][Next]_vars

-----------------------------------------------------------------------------
(* Properties *)

Carried == [n : 0 .. asked, pin : 0 .. asked, direct : BOOLEAN]

\* The pages, the messages between them and the wallets have their types; a trip is one
\* the rider asked for.
TypeOK ==
  /\ rider \in [stage : RiderStages, modal : BOOLEAN, pin : 0 .. asked]
  /\ carding \subseteq 1 .. asked /\ creating \subseteq 1 .. asked
  /\ session \in Sessions
  /\ tab \in [Tab -> [online : BOOLEAN, offer : Carried, declining : BOOLEAN,
                      trip : Carried, stage : DrivingStages \cup {"MATCHING"},
                      money : Nat, next : Nat, tipped : Nat]]
  /\ store \in [Driver -> Nat] /\ due \in [Driver -> Nat]
  /\ toRider \in [Tab -> Seq(DrivingStages \cup {"COMPLETED"})]
  /\ toTab \in [Tab -> Seq([type : {"offer", "rating", "tip"}, trip : Carried])]
  /\ events \subseteq Tab /\ raced \subseteq Driver
  /\ accepts \in Nat /\ reloads \in Nat /\ drawn \in 0 .. asked /\ covered \in BOOLEAN
  /\ asked \in Nat /\ spent \in Nat

\* The tab's driver has no other tab.
Alone(t) == \A u \in Tab \ {t} : session[u] # session[t]

\* A driver with one tab is never paid twice for a trip or a tip, in what the tab shows,
\* will show, has stored or will store, in whatever order trips, tips, renders and the
\* storage events of other pages come.  And nothing is lost, unless a tip met a
\* completion, a storage event or a reload before its render: then the tab shows what is
\* stored, and what is stored or waits for the render is what the driver is due.
WalletAccounted ==
  \A t \in Tab : Alone(t) =>
    LET d == session[t]
        written == IF tab[t].tipped = 0 THEN store[d] ELSE tab[t].tipped
    IN  /\ {tab[t].money, tab[t].next, tab[t].tipped, store[d]} \subseteq 0 .. due[d]
        /\ d \notin raced =>
             tab[t].money = store[d] /\ tab[t].next = due[d] /\ written = due[d]

\* The PIN the rider's page shows, while a driver is on the way to it or there.
PinCard == IF rider.stage \in PickupStages THEN {rider.pin} ELSE {}

\* The tab's driver is on the way to a rider, or there.
Waits(t) == tab[t].trip # NoTrip /\ tab[t].stage \in PickupStages

\* A driver who waits, all of whose messages have been heard, can read on the rider's page
\* the PIN it expects in just these cases: the PIN that page last drew since it was
\* opened is that of its trip (for an offer of the backend the default, so that page has
\* drawn none), and no cancellation, rating, request or stage of another driver has
\* taken the PIN off the page since a driver last put it there.
DriverCanStart ==
  \A t \in Tab :
    Waits(t) /\ toRider[t] = <<>> =>
      LET expects == IF tab[t].trip.direct THEN tab[t].trip.n ELSE 0
      IN  tab[t].trip.pin \in PinCard <=> drawn = expects /\ ~ covered

\* Once the messages are delivered, a rider who is told that a driver is on the way, here
\* or driving has a tab at just that stage, unless a tab was reloaded.
RiderSeesADriver ==
  /\ rider.stage \in DrivingStages
  /\ \A t \in Tab : toRider[t] = <<>>
  /\ reloads = 0
  => \E t \in Tab : tab[t].trip # NoTrip /\ tab[t].stage = rider.stage

\* As long as a single offer was ever accepted, the stages shown to the rider only
\* advance.
Rank(s) == CHOOSE i \in DOMAIN Driving : Driving[i] = s

RiderNeverGoesBack ==
  [][ /\ rider.stage \in DrivingStages /\ rider'.stage \in DrivingStages
      /\ accepts <= 1
      => Rank(rider.stage) <= Rank(rider'.stage) ]_rider
===============================================================================
