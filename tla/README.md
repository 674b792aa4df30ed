# Urban Prime: verification of the ride-booking platform

Urban Prime books rides: six Go services around PostgreSQL and Redis, and a Next.js front end
for riders and drivers. This directory holds TLA+ models of the services in which several actors
write shared state and of the pages, whose handlers meet over asynchronous calls, broadcasts and
the browser's storage, the TLC runs that check them on small instances, and proofs of what holds for
every instance. `PROJECT.json` maps each definition to the lines it models, lists the hazards
of the code with the properties that watch them, and names a mutation of the code that breaks
each property.

## The system

| Component | State it keeps | Operations | Talks to |
| --- | --- | --- | --- |
| Trip service (`Services/trip-service`) | table `trips` (status, driver_id, saga_log) | create saga, CancelTrip, GetTrip, consumer of `driver.match.v1` | payment service (gRPC), OSRM, stream `trip.events.v1` |
| Driver service (`Services/driver-service`) | table `drivers`, geo set `drivers:available`, lock keys `lock:driver:dispatch:<d>`, channel `dispatch:response:<d>` | dispatch loop per trip, UpdateDriverStatus, RespondToDispatch, RegisterDriver, consumer of `trip.events.v1` | streams, Redis, PostgreSQL |
| Payment service (`Services/payment-service`) | table `transactions`; PaymentIntents at Stripe | AuthorizeHold, ReleaseHold, CapturePayment | Stripe |
| Location service (`Services/location-service`) | geo sets `drivers:available`, `drivers:on_trip` | GPS ping, read position | Redis, stream `driver.location.v1` |
| Notification service (`Services/notification-service`) | none | forwards three streams to Centrifugo channels | Redis, Centrifugo |
| Auth service (`Services/auth-service`) | users and refresh tokens, in memory and in PostgreSQL | register, login, refresh, validate | PostgreSQL |
| Rider app (`frontend/src/app/rider/page.tsx`) | pins, addresses, distance, stage, trip, PIN, receipt | drop, drag and clear pins, request, reset, rebook, rate | directions and address lookups, Stripe, HTTP, BroadcastChannel |
| Driver app (`frontend/src/app/driver/page.tsx`) | online, offer shown, active trip, stage, earnings | switch, ping, accept, decline, ride stages, credit tips | HTTP, Centrifugo, BroadcastChannel, browser storage |
| Map (`frontend/src/components/map/MapboxView.tsx`) | the road it draws | clicks and drags for its page, road lookup | directions lookup |
| Sign-up and login pages (`frontend/src/app/{rider,driver}/{login,signup}`, `lib/api.ts`) | form, session of each role | sign up, log in, sign out | auth and driver service |

A ride: the rider's CreateTrip runs the *create saga* (route, payment hold, INSERT `REQUESTED`,
event, UPDATE `MATCHING`, event). The `MATCHING` event makes the driver service spawn a *dispatch
loop*: search the geo set, filter by the status row and the vehicle, take the driver's lock with
SET NX, publish `OFFERED`, wait 15 s for an answer on the driver's channel, and either commit
(`ON_TRIP`, delist, unlock, `ACCEPTED`) or unlock and try the next driver, until the window of 20 s
or the five attempts are used up (`EXHAUSTED`). The trip service's consumer turns `ACCEPTED` into
`ASSIGNED` and `EXHAUSTED` into the compensation (`CANCELLED_NO_DRIVER`, release the hold, event).

The pages run the same ride among themselves: the rider's page draws a PIN, creates the trip and posts
an offer to every cockpit tab of the browser (`BroadcastChannel`); the tab that accepts posts the
stages of the ride back; the rider's tip goes to every tab, and a cockpit keeps its driver's wallet
in the browser's storage. No service takes part in the stages, the PIN or the wallet.

What is hard:

* **Concurrency.** Loops of different trips meet at the driver's lock, at the answer channel and at
  the driver's row; pings re-add drivers the loop removed; the saga, cancellations and the consumer
  write one row of `trips` with unconditional UPDATEs.
* **Time.** Two 15 s clocks that do not start together (lock and wait), a third one in the app.
* **Failure.** Most errors are logged and ignored; events are lost when XADD fails; messages
  that were read and not handled are never claimed; requests carry a context that a disconnect
  cancels, compensation included; Stripe and PostgreSQL share no transaction.
* **Staleness in the pages.** A handler that resumes after an `await` writes what it was started
  with over whatever the page shows by then; a page that was left goes on calling and broadcasting.
* **No arbiter in the browser.** Any number of tabs accept, post stages, credit tips and write wallets.
* **Two stores per identity.** The auth service's memory and table, and the driver service's profile.
* **Crash.** Loops and requests die with their process, locks and rows stay.

## Modules

| Module | Models |
| --- | --- |
| `MatchOutcome` | abstract: one final answer per trip, never taken back (what the trip service relies on) |
| `Dispatch` | the driver service with its loops, locks, channel, status calls, pings, and the drivers' apps |
| `DispatchProofs` | theorems about `Dispatch`: types, offer budget |
| `DispatchLockProofs` | theorems about its locks and what an acceptance assigns |
| `DispatchOutcomeProofs` | theorem: `Dispatch` implements `MatchOutcome` |
| `TripSaga` | the trip service: create sagas, cancellations, consumer; uses `MatchOutcome` as its environment |
| `TripSagaProofs` | theorems about `TripSaga`: types, transitions, holds, failed creations, leaks, silent statuses |
| `Payment` | the payment service with PostgreSQL and Stripe |
| `PaymentProofs` | theorems about `Payment`: types, rows, releases, orphans |
| `Fare`, `MapView` | operators: prices, platform fee, the road and the markers of the map |
| `Booking` | the rider's booking page with its lookups, requests, offers and receipt; uses `Fare` and `MapView` |
| `Ride` | the ride as the rider's page and the cockpit tabs play it: channel, PIN, stages, wallets |
| `Portal` | sign-up and login pages, browser sessions, the auth service's memory and table, driver profiles |
| `BookingProofs`, `RideProofs`, `PortalProofs` | theorems about these three and the money of `Fare` |
| `MCDispatch`, `MCTripSaga`, `MCPayment`, `MCBooking`, `MCRide`, `MCPortal` | instances for TLC |

The trip service is checked against the *contract* of the driver service (`TripSaga` instantiates
`MatchOutcome` as the way answers appear) and the driver service is shown to implement that
contract (`MatchContract` of `Dispatch`), so neither module needs the other's state. The pages meet
in the same way: `Booking` ends with the offer it broadcasts and believes any stage, `Ride` starts
with that offer and lets the backend offer the trip as well.

### Dispatch

`pc[t]` says where the loop of trip `t` stands in `FindAndDispatchDriver` (`dispatch/loop.go:73-255`).
Each read or write of PostgreSQL or Redis is one action; what only touches locals is merged into
the neighbouring access. `seen`, `attempts` and `cands` are the loop's locals `seenDrivers`,
`attempts` and `candidates`; `polls` counts searches, of which ten fit the window. `lock`,
`available`, `status` and `events` are the Redis keys, the geo set, the rows and the stream.
`screen`, `riding`, `online` and `answers` are `activeOffer`, `activeTrip`, `isOnline` of the
driver page and its requests in flight. `call` is an UpdateDriverStatus request: read and validate,
write, index. Distances are dropped: candidates are examined in any order. A wait may time out and a
lock may expire at any moment, except that a lock outlives the steps before the wait (one XADD,
limited to 3 s); a real timing therefore is among the modelled ones, and the counterexamples below
were read against the real clocks: both lock and wait last 15 s and the wait starts later.

`LocationPing` is the location service's GEOADD, `ReceiveOffer` the notification service's
forwarding together with the page's handler. The stream keeps every event; how messages are batched
and lost between stream and consumer is modelled on the trip service's side.

Left out: the in-memory mode without Redis; MatchDriver over gRPC, which nothing calls;
RegisterDriver (the drivers are a constant here, see `Portal`); the rider page's offer broadcast
inside one browser and a reload of the driver's page (see `Ride`); more than one status request
of a driver at a time, and more than one Accept or Decline request of a driver in flight; a GPS
ping overtaken by the switch to offline.

### TripSaga

A process is a create request (named by its trip), a cancel request or the consumer; `at` is its
place in `ExecuteCreateTripSaga`, `CompensateTripCreation`, `CompensateNoDriverAvailable` or
`AssignDriverToTrip`. A call works, fails without effect, or takes effect and loses its reply; calls
on the context of a client that is gone fail. The three compensations share their
actions because the code's two functions differ in the status they write and nothing else.
`hold` is what `ReleaseHold`, which looks a hold up by trip, would find. `saga_log`, fares and
routes are dropped. Nothing in the repository writes `IN_PROGRESS`, `COMPLETED` or
`PAYMENT_FAILED`, or consumes the `CANCELLED` event, so an answer of the dispatch loop can reach a
cancelled trip; the model has that too.

### Payment

Each request is one RPC; its authorization's row (`tx`) and PaymentIntent (`stripe`) bear its name.
Calls to PostgreSQL use the request's context, which the trip service lets expire after 5 s
(`payment/client.go:37`); calls to Stripe do not. `GetByTripID` is the row with the latest
`created_at`. The mock mode without a Stripe key is left out.

### Booking

`pins`, `text`, `pinMode`, `tier`, `quote` are the page's `useState` fields of the form, `stage` its
`isIdle` and `tripState`, `current` its `currentTrip`, `pin` its `generatedOtp`, `receipt` its
`submittedFeedback`. A request is known by its number, and so are the trip, the PIN and the offer made of
it. `lookups`, `geo` and `calls` hold what has been asked and not answered, with the values the
handler was started with. `Shows(p, s)` is a render with the pins `p` in the stage `s`: the effects of
the form (rider/page.tsx:154-178) and of the map (MapboxView.tsx:72-120) drop the answers they
no longer want (`isMounted = false`) and ask again. Address lookups are not dropped: `GeoReply` writes
whatever comes. A `call` is at the card (`CardReady`,
`CardFails`), then at the trip service, which creates the trip in a step of its own (`CreateTrip`), then
its answer is on the way (`CreateReply`); `CreateFails` is a call that ends without an answer, before or
after the trip was created, and goes on with an invented trip. There are two ways to leave the page.
By a link or a `router.push` (`LeavePage`, `PressSignedOut`) its handlers run on: the `live` bit of a call
is cleared, after which it calls and broadcasts but shows nothing. By a reload or a closed tab
(`ReloadPage`) its handlers die where they stand: the calls are gone, the trip service may still create
the trips it was asked for, and no page offers them to drivers. The ghost `cut` has these requests.
Distances are tenths of a kilometre, money is cents.

What the model shows about the code besides the properties:

* The trip service ignores the `fareAmount` the page sends. The hold is for the service's price,
  the driver is paid from the page's; and the service's answer carries cents where the page reads
  dollars (see the findings in `PROJECT.json`).
* A distance of 0 shows no price on the button and charges the base price.
* `urban_pending_ride` is saved for after a login (rider/page.tsx:318) and no code restores it.
* Rebook writes the addresses of the old trip and the reset it then calls clears them.
* Neither a reset nor a cancellation is told to the trip service or to drivers.
* A trip whose page was reloaded during `POST /trips` is never broadcast, and no page takes it up again; only
  the dispatch loop may still offer it.
  `OffersAgree` names this as the one way in which a created trip goes without an offer.

Positions of cars, the activity list, the search timer and the choice of compliments are left out.

### Ride

`tab[t]` is a cockpit tab: its `isOnline`, `activeOffer`, `activeTrip`, `tripStage`, and its
`earnings`. Those change by updates that React computes at the next render, in their order: `money` is
the sum last rendered (what `handleCompleteTrip` reads from its closure), `next` the sum the waiting
updates will give, `tipped` what the tips among them will write to the storage then. The write stands
inside the updater of a tip (driver/page.tsx:363-376), which is queued behind the one of the shift log
(330) and so never runs when it is queued; `Render` is where both happen. `StorageEvent` queues what is
stored when it is handled; a click on Complete Trip adds to `money`, stores the sum at once, and its
render follows, in which a waiting tip writes its own sum over it. So a tip that meets a completion, a
storage event or a reload before its render costs the driver the tip or the fare of the trip; the
ghost `raced` has the drivers this happened to. A rating goes to the shift log, stored beside the
earnings, and so reaches the other tabs as a storage event even without a tip (`HearRating`).

`toTab` and `toRider` are the BroadcastChannel: in order between two pages, unordered otherwise.
`store` is `urban_driver_stats_<driver>`, `events` the tabs with a `storage` event to handle. A
driver may have several tabs. Each button and each arrival within 20 m is an action. The wallet property
is about drivers with one tab: two tabs of one driver credit every tip twice. Every tab credits every
tip, whoever drove.

A request of the rider's page is at the card (`carding`), then at the trip service (`creating`): a card
that gets ready late draws its PIN and sets `MATCHING` whatever the page shows by then. A reload ends
the requests, a link to another page does not. The PIN is known by its request number; an offer of the
backend brings the default PIN (`8421`). `handleVerifyOtpAndStart` takes whatever the driver types, by
asking the rider or not, so it only needs the tab's stage; whether the rider's page shows what the
tab expects is `DriverCanStart`, which says exactly when it does. Two ghosts say what the page was
through: `drawn` is the request it drew its PIN for since it was opened, `covered` tells that a
cancellation, a rating, a new request, a reload or the stage of another cockpit has taken the PIN
off the page since a driver's stage last put it there.

### Portal

A `call` is a registration or a login on its way: `register` (Reserve), `insert` (after the lock is
released), `undo` (rollback after a duplicate), `answer`, then for drivers `profile` (Onboarded asks
the driver service) and `profiled`, and `welcome`. `byEmail` and `byPhone` are the auth service's maps,
`users` its table, `profiles` the driver service's. A session has an `id`: the auth service's, or
four digits of the browser's clock after a driver's sign-up; a profile has a third. `unsaved` and
`early` are the accounts that were answered for without a row, and those a login found
in memory before their row: the two ways in which a session can outlive its account.

## Runs

| Run | Instance | Shows |
| --- | --- | --- |
| `dispatch_contention` | 2 trips, 1 driver, 1 offer, 1 search, 1 expiry, 1 failure, 1 restart, 1 switch (1.4 M states) | `ConcurrentOffersBounded`: open offers of a driver never exceed its lock plus the expiries under an offer, despite the unconditional DEL. `AssignmentsPerClick`: a press of Accept assigns one trip, plus one per expired lock. `MatchContract`: one answer per trip. |
| `dispatch_pool` | 1 trip, 3 drivers, 2 offers, 2 candidates per search, 2 searches, 1 restart, 1 failure: a failed or lost `SET NX`, `DEL` or `XADD` among others (561 k states) | `OfferBudget`, `NeverReoffered`, and under fairness `DispatchTerminates` and `LockRecovers`. |
| `saga_one_trip` | 1 trip, 2 cancellations, 2 failures, 1 lost reply, 1 hang-up, 1 restart (221 k states) | `LiveTripKeepsHold`, `FailedCreateLeavesNothing`, `StrictUnlessCancelled`; `LeavesRequested` and `AnswerApplied` under fairness. |
| `saga_pair` | 2 trips, 1 cancellation, one of each failure (1.2 M states) | `LeaksAccounted`, `SilenceAccounted`: money left held and statuses nobody was told of are each paid for by a failure. |
| `payment` | 3 requests, 2 trips, 2 failures, 1 lost reply, 1 expired context, 1 restart (246 k states) | `RowsAgreeWithStripe`, `OrphansAccounted`, `ReleaseSuccessFrees`. |
| `booking` | 2 pickups (one out of range), 1 destination, 2 tiers, 5 changes, 2 requests, 1 failure, links away and reloads (790 k states) | `QuoteAgrees`, `LineAgrees`, `AddressAgrees`: distance, road and address are those of the pins shown. `FareIsOfTheRide`, `OffersAgree`, `TripHasItsPin`, `ReceiptIsOfTheTrip`: price, offer, PIN and receipt are of the request they were made for. `PlaceholderGoes` under fairness. |
| `ride` | 2 tabs of 2 drivers, a first request and acceptance, and 2 more of any of these: request, acceptance, cancellation, reload of either side, backend offer, decline, switch (3.6 M states) | `WalletAccounted`: a lone driver is never paid twice and loses nothing but to a raced tip. `DriverCanStart`: when the PIN can be read. `RiderSeesADriver`, `RiderNeverGoesBack`. |
| `portal` | 2 emails, 2 phones, 2 sign-ups, 2 logins, 2 database errors, lost answers or restarts (2.8 M states) | `SessionsAccounted`, `MemoryAgrees`: nothing is left of a registration that failed but what its failure explains. `HalfStaysHalf`: a driver without a profile never gets one. `ProfilesStayOffline`: the application never makes a driver available. |
| `dispatch_double_offer` | 2 trips, 1 driver, 1 expiry | violation of `OneOfferPerDriver` (README.md:106, `geo/redis_geo.go:110`) |
| `dispatch_consent` | 2 trips, 1 driver | violation of `OnlyConsentedTrips` (`docs/SAGA_PATTERN.md:30`): answers carry no trip |
| `saga_cancel_race` | 1 trip, 1 cancellation | violation of `StrictTransitions` (`domain/trip.go:62`): `CANCELLED` back to `MATCHING` |
| `saga_hangup` | 1 trip, 1 hang-up | violation of `CompensatedOnFailure` (`docs/SAGA_PATTERN.md:3`) |

**Bounds.** Two loops and one driver are the least with a conflict, and every conflict of the code
is about one driver; with one expiry a third loop adds nothing a pair does not show, and the proofs
remove the bound where it matters. Three drivers against two offers and two candidates make
the budget, the cut of the search and the memory across searches all bite. The vehicle filter
lets everybody pass in the runs: a driver it stops behaves as one who is not `AVAILABLE`. In the
sagas two cancellations and a consumer are all the concurrent writers a trip has besides its saga;
a second trip is needed only where failures are shared (`saga_pair`). Three payment requests are an
authorization and two concurrent settlements of it. Failures are bounded by `MaxFaults`, `MaxLost`,
`MaxHangups`, `MaxExpired`, `MaxExpiries`, `MaxCrashes` and switches by `MaxToggles`; the counters
are part of the properties that account for them. On the booking page two requests and five changes
are enough to place both pins, press, move or reset meanwhile, and press again; `MaxSteps` bounds
changes and `MaxFaults` failed lookups and creations. In `Ride` two tabs are the least that can both
accept; the first request and the first acceptance are free, `MaxSteps` bounds further ones and everything
that need not happen (`Spends`, `SpendsAfter`): two such steps give every pair of disturbances of a ride; several tabs of one driver are left to the proofs, since what they break is known.
In `Portal` two emails and two phones give every overlap of two accounts; they are
interchangeable, hence the symmetry. Deadlock is not checked: once its requests are
served and its bounds used up, the system rightly stops.

**Fairness.** Only goroutines that are already running get weak fairness: a dispatch loop, an
UpdateDriverStatus call, a saga, a compensation, the consumer; and Redis expires keys. Every wait
of these has a timer or a timeout in the code (15 s wait, 3 s XADD, 5 s payment calls, 2 s blocking
read). In the pages only one thing is certain: the
browser ends each address lookup, with an answer or an error that is answered with coordinates
(`PlaceholderGoes`). Drivers, riders, arrivals, answers of the driver service, renders, failures and
restarts get none, and `Ride` and `Portal` promise nothing in the end.

## Proofs

The proofs about `Dispatch` are checked by TLAPS from `DispatchAssumption` alone (finitely many trips, the two
null values outside their sets, natural bounds, a window with time for one search), for any number of drivers, trips and failures:

* `TypeCorrect`: `Spec => []TypeOK`. `TypeOK` is not inductive: that an event names a driver needs
  `LoopShape`, which says at which stages a loop has a candidate. `TypeInv` is both; `NextType`
  goes through the 31 kinds of step of `StepCases`.
* `BudgetKept` (`Spec => []OfferBudget`) and `NoReoffer` (`Spec => NeverReoffered`) rest on
  `OfferInv`: the drivers a loop has offered its trip to are among those it has seen, it has counted
  as many attempts as it has seen drivers, and the candidate it is about to lock or announce has
  been seen and not been offered the trip. `OfferSteps` shows that all but three kinds of step leave
  this alone, so that `NextOffer` treats those three and everything else at once.
* `OffersBounded` (`Spec => []ConcurrentOffersBounded`, in `DispatchLockProofs`): the bound is
  inductive together with `TypeInv`. Only SET NX opens an offer, and it needs the key free, so the
  term for the lock pays for the new offer; the DEL closes the offer it belongs to, even when it
  deletes the key of another loop; an expiry under an offer is counted. `LockSteps` is the split.
* `AssignmentsBounded` (`Spec => []AssignmentsPerClick`, in `DispatchLockProofs`): the property is
  not inductive, since an acceptance may be under way. `ConsentInv` reserves for it the `1 + expiries`
  trips it can assign at most, by `OffersBounded`, and says that the offer on the screen is a trip not
  accepted before, so that an acceptance really adds a trip to `consented`.
* `LoopsImplementOutcome` (`Spec => MatchContract`, in `DispatchOutcomeProofs`): the mapping takes the
  events of a trip to the set of answers they give. By `AnswerInv` an answered trip has a loop that
  returned, and a loop that returned posts nothing more; so `Confirm` and `Exhaust` map to `PostAnswer`
  or, when the event is lost, to a stutter, as every other step does.

The pages' proofs rest on `BookingAssumption` (natural distances, positive prices, null values apart
from points, priced tiers), `RideAssumption` (finitely many tabs, positive amounts) and `PortalAssumption`
(natural bounds, the null value apart), for any places, roads, tabs, drivers, accounts and bounds.

* `BookingProofs`: `Typed` adds the types of requests, offers and trips to `TypeOK`. `QuoteCorrect` and
  `LineCorrect` need `LookupsAgree`: a lookup that is not dropped is for the road its asker wants now;
  `ShowsRoads` is the step of a render, `RoadSteps` the split. `FareCorrect` carries the price from the
  press to the offer (`Fares`), and takes it from `QuoteAgrees` at the press. `OffersCorrect` needs that
  no request has two calls, or a call and an offer, or outlives its page's reload (`Numbered`), and says
  what a trip agrees with, the answer on its way or the offer made of it (`TripsAgree`); `Known` counts the
  offers under invented ids.
  `PinCorrect` and `ReceiptCorrect` rest on `Single`: until requests cross, at most one is live and the page
  holds no trip meanwhile; `Charged` relates a receipt to an offer. `AddressCorrect` needs that a
  lookup nothing has overtaken is for the pin its end shows. `PriceGrows` and `FeeIsAShare` are about
  the operators of `Fare`, for all distances and fares.
* `RideProofs`: `WalletCorrect` is inductive with the types: only the tab of a lone driver writes its
  entry, and each of the five kinds of step that touch money (`MoneySteps`) keeps the account (`Sound`).
  `StartCorrect` rests on two invariants: `PinsAgree`, that every offer, posted, shown or accepted,
  carries its request's PIN and the page has the PIN it drew last; and `CardIsTold`, that while a driver
  waits either its stage is on the way to the rider's page, or that page shows a pickup stage, or
  something has covered it. `ToldCorrect` relates a tab's stage to the last message it has posted.
  `OrderCorrect` (`Spec => RiderNeverGoesBack`) needs an account of all messages under way (`OneRide`):
  while one offer was ever accepted, only one tab has posted, its messages are in the order of the
  stages, none ahead of the tab, none behind what the rider is shown. A reload of the tab keeps this;
  its messages arrive later and it posts no more.
* `PortalProofs`: `CallsAccounted` says what each step of a registration has left behind, `Keyed` that
  memory keeps an account under its own email and phone, `OneRowPerEmail` what the table guarantees. The
  three kinds of ids are apart, so that `NobodyAvailable` follows. `HalfForGood` is an action property.

The proofs about `Payment` rest on `PaymentAssumption`: finitely many requests, the null values apart,
natural bounds. `RowsCorrect` needs `RowInv`: a request about to write a status has Stripe's answer for
it, and a settled intent stays so. `ReleaseCorrect` follows a release from its lookup to its Success
(`Shaped`, `Unheld`). `OrphansCorrect` is a count: an orphan has no failure to blame at the moment it
appears, so `Paid` also counts the holds that one more failure would orphan (`Endangered`); each failure
adds at most one to the sum of both, a lost reply two.

The proofs about `TripSaga` rest on `TripSagaAssumption`: finitely many trips, three disjoint kinds of
process, the null values apart, natural bounds; for any number of trips, cancellations, drivers, failures,
disconnects and restarts.

* `TypeCorrect`: `TypeOK` with `Shape` is inductive. `Shape` says who stands where (a saga works on its
  own trip and has its row from `requested` on, a cancellation has a row to mark) and that an answer is
  handled once: unread, in the batch, or in the hands of the consumer.
* `StrictCorrect` (`Spec => StrictUnlessCancelled`, an action property): no UPDATE checks the status it
  replaces, so `Track` says for each process about to write one which status it will find, as long as
  no cancellation names the trip: `REQUESTED` for the saga, `MATCHING` for the consumer with an answer.
* `HoldCorrect` (`LiveTripKeepsHold`): `Kept` says that, unless a call failed or a cancellation came, a
  released hold belongs to a trip that is neither matched nor served, nor will be by its saga. So whoever
  is about to release has written the status that ends the trip, or its client has hung up, after which
  its release fails.
* `FailedCreateCorrect` (`FailedCreateLeavesNothing`): `Undone` follows a request that turns back and
  says how far it has come; that it has met its one failure already makes the next calls work.
  Disconnects fail calls without counting as failures, so that calls work also needs `Connected`: contexts
  end by disconnects only.
* `LeaksCorrect`, `SilenceCorrect`: both count trips, and the sets of the properties are not inductive:
  a trip enters `LeakedHolds` at a step that costs nothing, long after the disconnect that is to
  blame. `LeaksPaid` therefore counts `MayLeak`, to which a trip belongs from the disconnect of a request
  that works on it; `SilencePaid` counts `MayStaySilent`, the trips whose status is neither
  published nor promised by a process that will publish it. A process may publish an
  older status than the one in the row, hence a promise names the status. Every step adds at most one
  trip, and only when it spends a failure. Both counts are for runs without a restart: one restart
  is allowed to cost every trip.

Only model-checked: liveness and everything under fairness (`DispatchTerminates`, `LockRecovers`,
`LeavesRequested`, `AnswerApplied`, `PlaceholderGoes`), which the prover does not handle.
Every invariant and every action property of a passing run is proved. The four violations are
counterexamples and need no proof.

## What remains

1. **Stream composition**: a module for a Redis stream with its consumer group, joining trip and
   driver service over it, with cancellation during dispatch.
2. **Payment contract**: an abstract hold ledger that `Payment` implements and `TripSaga` relies on,
   as `MatchOutcome` does for dispatch.

## Not modelled

* Landing page (`app/page.tsx`), role chooser (`app/login/page.tsx`), layouts and configuration: animation
  and links, with no state shared with anything. `lib/tripStore.ts` is imported nowhere.
* Camera, cursor, layers and car markers of the map; the gliding of the car along its road and the
  search timer: presentation. Positions matter to the ride only as arrivals.
* The shift log and the rider's history lists: they sit beside the wallet and are matched by
  position; no other state depends on them.
* The Centrifugo branch of `onTripStatus`: pages pass an empty trip id, for which it does nothing.
* Refresh tokens, token verification, passwords and seeded demo accounts: no page refreshes or
  verifies a token, and a wrong password changes nothing.
* Generated protocol code, gateway, main programs, deployment, logging, tracing and load scripts: no
  state that several actors share. The fare arithmetic of the trip service is a pure function with unit
  tests; its result is a constant of `Booking`. Trimming of the streams at 10000 entries is out of any
  bound worth checking.
