------------------------------ MODULE Dispatch ------------------------------
(***************************************************************************)
(* The driver service's matchmaking engine: one dispatch loop per trip     *)
(* that entered MATCHING, all loops running concurrently against           *)
(*   - the drivers' status rows in PostgreSQL,                             *)
(*   - the Redis geo set drivers:available,                                *)
(*   - one Redis lock per driver (SET NX PX 15000, released by a DEL),     *)
(*   - the Redis channel dispatch:response:<driver>, which wakes every     *)
(*     loop subscribed to it,                                              *)
(* together with UpdateDriverStatus calls, GPS pings and the drivers' apps *)
(* that show an offer and answer it.                                       *)
(*                                                                         *)
(* Every read or write of shared state is a step of its own; steps that    *)
(* only touch a loop's locals are merged with the shared access before or  *)
(* after them.  Distances are abstracted: the candidates of a search are   *)
(* examined in any order.  Time is abstracted: a timer that is running may *)
(* fire at any moment.                                                     *)
(***************************************************************************)
EXTENDS Integers, FiniteSets

CONSTANTS
  Trip,           \* trips that reach MATCHING, one dispatch loop each
  Driver,         \* registered drivers
  NoTrip,
  NoDriver,
  VehicleMatch,   \* pairs <<trip, driver>> that pass the vehicle type filter
  MaxOffers,      \* DefaultMaxOffers
  MaxCandidates,  \* DefaultMaxCandidates, the COUNT of GEOSEARCH
  MaxPolls,       \* searches that fit the window: DispatchWindow / PollingInterval
  MaxExpiries,    \* bound: lock TTLs that may run out under an offer, per driver
  MaxFaults,      \* bound: PostgreSQL, Redis and HTTP calls that may fail
  MaxCrashes,     \* bound: restarts of the driver service
  MaxToggles      \* bound: online/offline switches of the drivers' apps

ASSUME DispatchAssumption ==
  /\ IsFiniteSet(Trip)
  /\ NoTrip \notin Trip
  /\ NoDriver \notin Driver
  /\ VehicleMatch \subseteq Trip \X Driver
  /\ MaxOffers \in Nat
  /\ MaxCandidates \in Nat
  /\ MaxPolls \in Nat \ {0}
  /\ MaxExpiries \in Nat
  /\ MaxFaults \in Nat
  /\ MaxCrashes \in Nat
  /\ MaxToggles \in Nat

VARIABLES
  status,     \* drivers.status in PostgreSQL
  available,  \* members of the geo set drivers:available
  lock,       \* value of lock:driver:dispatch:<driver>
  expiries,   \* how often a lock ran out while its offer was still open
  pc,         \* where each loop stands
  cur,        \* the candidate a loop is working on; at "done" its result
  cands,      \* candidates of the current search not examined yet
  seen,       \* seenDrivers
  attempts,   \* attempts
  polls,      \* searches done
  events,     \* everything appended to the stream driver.match.v1
  delivered,  \* OFFERED events that reached the driver's app
  online,     \* isOnline of the driver's app
  screen,     \* activeOffer of the driver's app
  riding,     \* activeTrip of the driver's app
  consented,  \* trips whose offer the driver accepted in the app
  answers,    \* answers of the app that the service has not handled, or,
              \* for "declined", whose result the app has not handled
  call,       \* the UpdateDriverStatus call in progress for each driver
  faults, crashes, toggles

loopVars == <<pc, cur, cands, seen, attempts, polls>>
appVars  == <<delivered, online, screen, riding, consented, answers>>
bounds   == <<faults, crashes, toggles>>
vars == <<status, available, lock, expiries, loopVars, events, appVars, call,
          bounds>>

Status == {"OFFLINE", "AVAILABLE", "ON_TRIP"}

\* Stages at which a loop has taken a driver's lock and not yet released it.
Holding == {"announce", "subscribe", "wait", "commit", "delist", "unlockOk",
            "unlockNo"}
\* Stages that follow the driver's ACCEPT.
Accepting == {"commit", "delist", "unlockOk", "confirm"}
Stages == Holding \cup {"idle", "search", "scan", "lock", "confirm", "report",
                        "exhaust", "done", "dead"}
Running == Stages \ {"idle", "done", "dead"}

MatchEvent ==
  [type : {"OFFERED", "DECLINED", "ACCEPTED"}, trip : Trip, driver : Driver]
    \cup [type : {"EXHAUSTED"}, trip : Trip, driver : {NoDriver}]

NoCall == [step |-> "none", to |-> "OFFLINE"]
Calls == [step : {"none", "read", "write", "index"}, to : Status]

-----------------------------------------------------------------------------
(* Helpers *)

CanTransitionTo(from, to) ==
  \/ from = "OFFLINE"   /\ to = "AVAILABLE"
  \/ from = "AVAILABLE" /\ to \in {"ON_TRIP", "OFFLINE"}
  \/ from = "ON_TRIP"   /\ to \in {"AVAILABLE", "OFFLINE"}

\* A call that may fail either succeeds, or uses up one of the allowed faults.
Succeeds == UNCHANGED faults
Fails == faults < MaxFaults /\ faults' = faults + 1

Goto(t, stage) == pc' = [pc EXCEPT ![t] = stage]

\* GEOSEARCH BYRADIUS 50000 km COUNT n: everybody listed, cut off at n.
FindNearbyDrivers ==
  {S \in SUBSET available :
     /\ Cardinality(S) <= MaxCandidates
     /\ S # available => Cardinality(S) = MaxCandidates}

\* XADD to driver.match.v1: a failure is logged and the event is lost.
PublishMatchEvent(type, t, d) ==
  \/ /\ Succeeds
     /\ events' = events \cup {[type |-> type, trip |-> t, driver |-> d]}
  \/ Fails /\ UNCHANGED events

\* Mutant: SET without NX.
SetAnyway(d, t) == lock' = [lock EXCEPT ![d] = t]
\* SET lock:driver:dispatch:<d> NX.
SetNX(d, t) == lock[d] = NoTrip /\ lock' = [lock EXCEPT ![d] = t]

\* DEL of the key, whoever holds it; an error is ignored.
ReleaseDispatchLock(d) ==
  \/ Succeeds /\ lock' = [lock EXCEPT ![d] = NoTrip]
  \/ Fails /\ UNCHANGED lock

-----------------------------------------------------------------------------
(* The dispatch loop of trip t: FindAndDispatchDriver *)

\* The consumer reads the trip's MATCHING event, spawns the loop and acks.
StartDispatch(t) ==
  /\ pc[t] = "idle"
  /\ Goto(t, "search")
  /\ UNCHANGED <<status, available, lock, expiries, cur, cands, seen, attempts,
                 polls, events, appVars, call, bounds>>

\* Mutants: the loop forgets to check the window, or its time does not pass.
UncheckedPoll(t) == polls' = [polls EXCEPT ![t] = @ + 1]
EndlessWindow(t) == polls[t] < MaxPolls /\ UNCHANGED polls
\* One search of the window.
Poll(t) == polls[t] < MaxPolls /\ polls' = [polls EXCEPT ![t] = @ + 1]

\* Head of the outer loop: window and attempt checks, then GEOSEARCH.  A failed
\* search is logged and leaves no candidates.
Search(t) ==
  /\ pc[t] = "search"
  /\ attempts[t] < MaxOffers
  /\ Poll(t)
  /\ \/ Succeeds /\ \E S \in FindNearbyDrivers : cands' = [cands EXCEPT ![t] = S]
     \/ Fails /\ cands' = [cands EXCEPT ![t] = {}]
  /\ Goto(t, "scan")
  /\ UNCHANGED <<status, available, lock, expiries, cur, seen, attempts, events,
                 appVars, call, crashes, toggles>>

\* The window is over, or MaxOffers attempts were made, at the head of the loop:
\* not before the first search, which the window always has time for.
CloseWindow(t) ==
  /\ pc[t] = "search"
  /\ polls[t] > 0 \/ attempts[t] >= MaxOffers
  /\ Goto(t, "exhaust")
  /\ UNCHANGED <<status, available, lock, expiries, cur, cands, seen, attempts,
                 polls, events, appVars, call, bounds>>

\* Mutants: a candidate is not remembered, or its attempt not counted.
ForgetCandidate(t, d) ==
  /\ cands' = [cands EXCEPT ![t] = @ \ {d}]
  /\ attempts' = [attempts EXCEPT ![t] = @ + 1]
  /\ UNCHANGED seen
UncountedCandidate(t, d) ==
  /\ cands' = [cands EXCEPT ![t] = @ \ {d}]
  /\ seen' = [seen EXCEPT ![t] = @ \cup {d}]
  /\ UNCHANGED attempts
MarkCandidate(t, d) ==
  /\ cands' = [cands EXCEPT ![t] = @ \ {d}]
  /\ seen' = [seen EXCEPT ![t] = @ \cup {d}]
  /\ attempts' = [attempts EXCEPT ![t] = @ + 1]

\* Next candidate: mark it seen, count the attempt, read its profile, go for
\* the lock if it is AVAILABLE and has the right vehicle.
Examine(t) ==
  /\ pc[t] = "scan"
  /\ attempts[t] < MaxOffers
  /\ \E d \in cands[t] \ seen[t] :
       /\ MarkCandidate(t, d)
       /\ \/ /\ Succeeds
             /\ status[d] = "AVAILABLE"
             /\ <<t, d>> \in VehicleMatch
             /\ cur' = [cur EXCEPT ![t] = d]
             /\ Goto(t, "lock")
          \/ /\ Succeeds
             /\ status[d] # "AVAILABLE" \/ <<t, d>> \notin VehicleMatch
             /\ UNCHANGED <<cur, pc>>
          \/ Fails /\ UNCHANGED <<cur, pc>>
  /\ UNCHANGED <<status, available, lock, expiries, polls, events, appVars, call,
                 crashes, toggles>>

\* No candidate left, or no attempt left: give up, or sleep and search again.
EndRound(t) ==
  /\ pc[t] = "scan"
  /\ cands[t] \subseteq seen[t] \/ attempts[t] >= MaxOffers
  /\ \/ Goto(t, "exhaust")
     \/ attempts[t] < MaxOffers /\ Goto(t, "search")
  /\ UNCHANGED <<status, available, lock, expiries, cur, cands, seen, attempts,
                 polls, events, appVars, call, bounds>>

\* SET NX.  A reply that is lost may leave the key set behind the loop's back.
AcquireDispatchLock(t) ==
  LET d == cur[t] IN
  /\ pc[t] = "lock"
  /\ \/ /\ Succeeds
        /\ SetNX(d, t)
        /\ Goto(t, "announce")
        /\ UNCHANGED cur
     \/ /\ \/ lock[d] # NoTrip /\ Succeeds /\ UNCHANGED lock
           \/ Fails /\ UNCHANGED lock
           \/ Fails /\ SetNX(d, t)
        /\ Goto(t, "scan")
        /\ cur' = [cur EXCEPT ![t] = NoDriver]
  /\ UNCHANGED <<status, available, expiries, cands, seen, attempts, polls,
                 events, appVars, call, crashes, toggles>>

AnnounceOffer(t) ==
  /\ pc[t] = "announce"
  /\ PublishMatchEvent("OFFERED", t, cur[t])
  /\ Goto(t, "subscribe")
  /\ UNCHANGED <<status, available, lock, expiries, cur, cands, seen, attempts,
                 polls, appVars, call, crashes, toggles>>

\* WaitForDriverResponse subscribes only now: an earlier answer is not heard.
Subscribe(t) ==
  /\ pc[t] = "subscribe"
  /\ Goto(t, "wait")
  /\ UNCHANGED <<status, available, lock, expiries, cur, cands, seen, attempts,
                 polls, events, appVars, call, bounds>>

\* Mutant: a timeout counts as an acceptance.
TimeoutAccepts(t) ==
  /\ pc[t] = "wait"
  /\ Goto(t, "commit")
  /\ UNCHANGED <<status, available, lock, expiries, cur, cands, seen, attempts,
                 polls, events, appVars, call, bounds>>
\* The 15 s timer fires.  (An answer arrives through RespondToDispatch.)
OfferTimeout(t) ==
  /\ pc[t] = "wait"
  /\ Goto(t, "unlockNo")
  /\ UNCHANGED <<status, available, lock, expiries, cur, cands, seen, attempts,
                 polls, events, appVars, call, bounds>>

\* Accepted: UPDATE drivers SET status = ON_TRIP; an error is only logged.
CommitOnTrip(t) ==
  /\ pc[t] = "commit"
  /\ \/ Succeeds /\ status' = [status EXCEPT ![cur[t]] = "ON_TRIP"]
     \/ Fails /\ UNCHANGED status
  /\ Goto(t, "delist")
  /\ UNCHANGED <<available, lock, expiries, cur, cands, seen, attempts, polls,
                 events, appVars, call, crashes, toggles>>

\* Accepted: ZREM from the geo set; an error is ignored.
RemoveDriver(t) ==
  /\ pc[t] = "delist"
  /\ \/ Succeeds /\ available' = available \ {cur[t]}
     \/ Fails /\ UNCHANGED available
  /\ Goto(t, "unlockOk")
  /\ UNCHANGED <<status, lock, expiries, cur, cands, seen, attempts, polls,
                 events, appVars, call, crashes, toggles>>

UnlockAccepted(t) ==
  /\ pc[t] = "unlockOk"
  /\ ReleaseDispatchLock(cur[t])
  /\ Goto(t, "confirm")
  /\ UNCHANGED <<status, available, expiries, cur, cands, seen, attempts, polls,
                 events, appVars, call, crashes, toggles>>

\* Mutant: the loop goes on after ACCEPTED.
ConfirmAndGoOn(t) ==
  /\ pc[t] = "confirm"
  /\ PublishMatchEvent("ACCEPTED", t, cur[t])
  /\ Goto(t, "exhaust")
  /\ UNCHANGED <<status, available, lock, expiries, cur, cands, seen, attempts,
                 polls, appVars, call, crashes, toggles>>
\* Accepted: publish ACCEPTED and return the driver.
Confirm(t) ==
  /\ pc[t] = "confirm"
  /\ PublishMatchEvent("ACCEPTED", t, cur[t])
  /\ Goto(t, "done")
  /\ UNCHANGED <<status, available, lock, expiries, cur, cands, seen, attempts,
                 polls, appVars, call, crashes, toggles>>

UnlockDeclined(t) ==
  /\ pc[t] = "unlockNo"
  /\ ReleaseDispatchLock(cur[t])
  /\ Goto(t, "report")
  /\ UNCHANGED <<status, available, expiries, cur, cands, seen, attempts, polls,
                 events, appVars, call, crashes, toggles>>

ReportDeclined(t) ==
  /\ pc[t] = "report"
  /\ PublishMatchEvent("DECLINED", t, cur[t])
  /\ cur' = [cur EXCEPT ![t] = NoDriver]
  /\ Goto(t, "scan")
  /\ UNCHANGED <<status, available, lock, expiries, cands, seen, attempts, polls,
                 appVars, call, crashes, toggles>>

\* After the loop: publish EXHAUSTED and return no driver.
Exhaust(t) ==
  /\ pc[t] = "exhaust"
  /\ PublishMatchEvent("EXHAUSTED", t, NoDriver)
  /\ Goto(t, "done")
  /\ UNCHANGED <<status, available, lock, expiries, cur, cands, seen, attempts,
                 polls, appVars, call, crashes, toggles>>

FindAndDispatchDriver(t) ==
  \/ Search(t) \/ CloseWindow(t) \/ Examine(t) \/ EndRound(t)
  \/ AcquireDispatchLock(t) \/ AnnounceOffer(t) \/ Subscribe(t)
  \/ OfferTimeout(t) \/ CommitOnTrip(t) \/ RemoveDriver(t)
  \/ UnlockAccepted(t) \/ Confirm(t) \/ UnlockDeclined(t) \/ ReportDeclined(t)
  \/ Exhaust(t)

-----------------------------------------------------------------------------
(* Redis, crashes *)

OpenOffers(d) == {t \in Trip : pc[t] \in Holding /\ cur[t] = d}

\* Mutant: a lock without TTL.
NoExpiry(d) == FALSE
\* The TTL of d's lock runs out.  The TTL starts at SET NX and the wait, as long
\* as the TTL, only after OFFERED is published: the key can go first.  It does
\* outlive the steps before the wait (XADD gives up after 3 s).
LockExpires(d) ==
  /\ lock[d] # NoTrip
  /\ ~ \E t \in OpenOffers(d) : lock[d] = t /\ pc[t] \in {"announce", "subscribe"}
  /\ lock' = [lock EXCEPT ![d] = NoTrip]
  /\ \/ OpenOffers(d) = {} /\ UNCHANGED expiries
     \/ /\ expiries[d] < MaxExpiries
        /\ expiries' = [expiries EXCEPT ![d] = @ + 1]
  /\ UNCHANGED <<status, available, loopVars, events, appVars, call, bounds>>

\* The driver service dies with its loops and its calls; Redis keys and
\* PostgreSQL rows stay, and the acked MATCHING events are not read again.
Crash ==
  /\ crashes < MaxCrashes
  /\ crashes' = crashes + 1
  /\ pc' = [t \in Trip |-> IF pc[t] \in Running THEN "dead" ELSE pc[t]]
  /\ call' = [d \in Driver |-> NoCall]
  /\ UNCHANGED <<status, available, lock, expiries, cur, cands, seen, attempts,
                 polls, events, appVars, faults, toggles>>

-----------------------------------------------------------------------------
(* UpdateDriverStatus for driver d: read and validate, write, index *)

ValidateStatus(d) ==
  /\ call[d].step = "read"
  /\ \/ /\ Succeeds
        /\ status[d] = call[d].to \/ CanTransitionTo(status[d], call[d].to)
        /\ call' = [call EXCEPT ![d] = [step |-> "write", to |-> @.to]]
     \/ /\ Succeeds
        /\ status[d] # call[d].to /\ ~CanTransitionTo(status[d], call[d].to)
        /\ call' = [call EXCEPT ![d] = NoCall]
     \/ Fails /\ call' = [call EXCEPT ![d] = NoCall]
  /\ UNCHANGED <<status, available, lock, expiries, loopVars, events, appVars,
                 crashes, toggles>>

\* The UPDATE; an error, even one that came after the commit, ends the call.
UpdateStatus(d) ==
  /\ call[d].step = "write"
  /\ \/ /\ Succeeds
        /\ status' = [status EXCEPT ![d] = call[d].to]
        /\ call' = [call EXCEPT ![d] = [step |-> "index", to |-> @.to]]
     \/ /\ Fails
        /\ UNCHANGED status \/ status' = [status EXCEPT ![d] = call[d].to]
        /\ call' = [call EXCEPT ![d] = NoCall]
  /\ UNCHANGED <<available, lock, expiries, loopVars, events, appVars, crashes,
                 toggles>>

\* GEOADD when the driver became AVAILABLE, ZREM otherwise; errors are ignored.
UpdateIndex(d) ==
  /\ call[d].step = "index"
  /\ \/ /\ Succeeds
        /\ available' = IF call[d].to = "AVAILABLE" THEN available \cup {d}
                        ELSE available \ {d}
     \/ Fails /\ UNCHANGED available
  /\ call' = [call EXCEPT ![d] = NoCall]
  /\ UNCHANGED <<status, lock, expiries, loopVars, events, appVars, crashes,
                 toggles>>

UpdateDriverStatus(d) == ValidateStatus(d) \/ UpdateStatus(d) \/ UpdateIndex(d)

\* The location service's GEOADD for a ping without a trip id: no status check.
LocationPing(d) ==
  /\ online[d]
  /\ d \notin available
  /\ available' = available \cup {d}
  /\ UNCHANGED <<status, lock, expiries, loopVars, events, appVars, call, bounds>>

-----------------------------------------------------------------------------
(* The driver's app *)

\* Switching online or offline calls UpdateDriverStatus; the switch is disabled
\* during a trip.
ToggleOnline(d) ==
  /\ riding[d] = NoTrip
  /\ call[d].step = "none"
  /\ toggles < MaxToggles
  /\ toggles' = toggles + 1
  /\ online' = [online EXCEPT ![d] = ~@]
  /\ call' = [call EXCEPT ![d] =
                [step |-> "read", to |-> IF online[d] THEN "OFFLINE" ELSE "AVAILABLE"]]
  /\ UNCHANGED <<status, available, lock, expiries, loopVars, events, delivered,
                 screen, riding, consented, answers, faults, crashes>>

\* The notification service forwards OFFERED; the app shows it when it is
\* online and not on a trip, replacing an offer it was showing.
ReceiveOffer(d, t) ==
  /\ [type |-> "OFFERED", trip |-> t, driver |-> d] \in events
  /\ <<t, d>> \notin delivered
  /\ delivered' = delivered \cup {<<t, d>>}
  /\ screen' = IF online[d] /\ riding[d] = NoTrip THEN [screen EXCEPT ![d] = t]
               ELSE screen
  /\ UNCHANGED <<status, available, lock, expiries, loopVars, events, online,
                 riding, consented, answers, call, bounds>>

\* The app's own countdown clears the offer.
OfferCountdown(d) ==
  /\ screen[d] # NoTrip
  /\ screen' = [screen EXCEPT ![d] = NoTrip]
  /\ UNCHANGED <<status, available, lock, expiries, loopVars, events, delivered,
                 online, riding, consented, answers, call, bounds>>

\* Pressing Accept starts the ride in the app and sends the answer.
AcceptOffer(d) ==
  /\ screen[d] # NoTrip
  /\ "accept" \notin answers[d]
  /\ screen' = [screen EXCEPT ![d] = NoTrip]
  /\ riding' = [riding EXCEPT ![d] = screen[d]]
  /\ consented' = [consented EXCEPT ![d] = @ \cup {screen[d]}]
  /\ answers' = [answers EXCEPT ![d] = @ \cup {"accept"}]
  /\ UNCHANGED <<status, available, lock, expiries, loopVars, events, delivered,
                 online, call, bounds>>

\* Pressing Decline sends the answer and leaves the offer on the screen...
DeclineOffer(d) ==
  /\ screen[d] # NoTrip
  /\ answers[d] \cap {"decline", "declined"} = {}
  /\ answers' = [answers EXCEPT ![d] = @ \cup {"decline"}]
  /\ UNCHANGED <<status, available, lock, expiries, loopVars, events, delivered,
                 online, screen, riding, consented, call, bounds>>

\* ... until the request returns; then whatever offer is shown goes.
ClearOffer(d) ==
  /\ "declined" \in answers[d]
  /\ answers' = [answers EXCEPT ![d] = @ \ {"declined"}]
  /\ screen' = [screen EXCEPT ![d] = NoTrip]
  /\ UNCHANGED <<status, available, lock, expiries, loopVars, events, delivered,
                 online, riding, consented, call, bounds>>

\* PUBLISH dispatch:response:<d>: every loop waiting on d takes the answer,
\* whatever trip it was given for.
PublishDriverResponse(d, accepted) ==
  pc' = [t \in Trip |->
           IF pc[t] = "wait" /\ cur[t] = d
           THEN IF accepted THEN "commit" ELSE "unlockNo"
           ELSE pc[t]]

\* The driver service handles an answer; the app only logs a failed request.
RespondToDispatch(d, answer) ==
  /\ answer \in answers[d]
  /\ \/ Succeeds /\ PublishDriverResponse(d, answer = "accept")
     \/ Fails /\ UNCHANGED pc
  /\ answers' = [answers EXCEPT ![d] =
                   IF answer = "accept" THEN @ \ {"accept"}
                   ELSE (@ \ {"decline"}) \cup {"declined"}]
  /\ UNCHANGED <<status, available, lock, expiries, cur, cands, seen, attempts,
                 polls, events, delivered, online, screen, riding, consented,
                 call, crashes, toggles>>

\* Completing the ride only changes the app.
CompleteTrip(d) ==
  /\ riding[d] # NoTrip
  /\ riding' = [riding EXCEPT ![d] = NoTrip]
  /\ UNCHANGED <<status, available, lock, expiries, loopVars, events, delivered,
                 online, screen, consented, answers, call, bounds>>

-----------------------------------------------------------------------------
\* Some drivers are offline, the others went online and are idle.
Init ==
  /\ \E on \in SUBSET Driver :
       /\ available = on
       /\ status = [d \in Driver |-> IF d \in on THEN "AVAILABLE" ELSE "OFFLINE"]
       /\ online = [d \in Driver |-> d \in on]
  /\ lock = [d \in Driver |-> NoTrip]
  /\ expiries = [d \in Driver |-> 0]
  /\ pc = [t \in Trip |-> "idle"]
  /\ cur = [t \in Trip |-> NoDriver]
  /\ cands = [t \in Trip |-> {}]
  /\ seen = [t \in Trip |-> {}]
  /\ attempts = [t \in Trip |-> 0]
  /\ polls = [t \in Trip |-> 0]
  /\ events = {}
  /\ delivered = {}
  /\ screen = [d \in Driver |-> NoTrip]
  /\ riding = [d \in Driver |-> NoTrip]
  /\ consented = [d \in Driver |-> {}]
  /\ answers = [d \in Driver |-> {}]
  /\ call = [d \in Driver |-> NoCall]
  /\ faults = 0 /\ crashes = 0 /\ toggles = 0

Next ==
  \/ \E t \in Trip : StartDispatch(t) \/ FindAndDispatchDriver(t)
  \/ \E d \in Driver :
       \/ LockExpires(d) \/ UpdateDriverStatus(d) \/ LocationPing(d)
       \/ ToggleOnline(d) \/ OfferCountdown(d) \/ AcceptOffer(d)
       \/ DeclineOffer(d) \/ ClearOffer(d) \/ CompleteTrip(d)
       \/ \E answer \in {"accept", "decline"} : RespondToDispatch(d, answer)
  \/ \E d \in Driver, t \in Trip : ReceiveOffer(d, t)
  \/ Crash

\* Loops and calls are goroutines the Go scheduler runs, and Redis expires keys.
\* The drivers and the faults get no fairness.
Fairness ==
  /\ \A t \in Trip : WF_vars(FindAndDispatchDriver(t))
  /\ \A d \in Driver : WF_vars(UpdateDriverStatus(d)) /\ WF_vars(LockExpires(d))

Spec == Init /\ [][Next]_vars
FairSpec == Spec /\ Fairness

-----------------------------------------------------------------------------
TypeOK ==
  /\ status \in [Driver -> Status]
  /\ available \subseteq Driver
  /\ lock \in [Driver -> Trip \cup {NoTrip}]
  /\ expiries \in [Driver -> Nat]
  /\ pc \in [Trip -> Stages]
  /\ cur \in [Trip -> Driver \cup {NoDriver}]
  /\ cands \in [Trip -> SUBSET Driver]
  /\ seen \in [Trip -> SUBSET Driver]
  /\ attempts \in [Trip -> 0..MaxOffers]
  /\ polls \in [Trip -> 0..MaxPolls]
  /\ events \subseteq MatchEvent
  /\ delivered \subseteq Trip \X Driver
  /\ online \in [Driver -> BOOLEAN]
  /\ screen \in [Driver -> Trip \cup {NoTrip}]
  /\ riding \in [Driver -> Trip \cup {NoTrip}]
  /\ consented \in [Driver -> SUBSET Trip]
  /\ answers \in [Driver -> SUBSET {"accept", "decline", "declined"}]
  /\ call \in [Driver -> Calls]
  /\ faults \in Nat /\ crashes \in Nat /\ toggles \in Nat

-----------------------------------------------------------------------------
(* Properties *)

Assigned(d) ==
  {t \in Trip : pc[t] \in Accepting \cup {"done"} /\ cur[t] = d}

\* A driver has at most one open offer for the lock it is under, plus one for
\* each time the lock ran out under an offer.  Without such an expiry the SET NX
\* keeps the offers of a driver apart, although the DEL in ReleaseDispatchLock
\* does not check whose lock it deletes.
ConcurrentOffersBounded ==
  \A d \in Driver :
    Cardinality(OpenOffers(d)) <= expiries[d] + (IF lock[d] = NoTrip THEN 0 ELSE 1)

\* One press of Accept assigns the driver at most one trip, and at most one more
\* for each lock that ran out: dispatch:response:<driver> wakes every loop that
\* waits for the driver, and there are never more of them than that.
AssignmentsPerClick ==
  \A d \in Driver :
    Cardinality(Assigned(d)) <= Cardinality(consented[d]) * (1 + expiries[d])

\* The budget of FindAndDispatchDriver: over all searches of its window a loop
\* announces offers to at most MaxOffers drivers.
OffersTo(t) == {d \in Driver : \E e \in events :
                  e.type = "OFFERED" /\ e.trip = t /\ e.driver = d}
OfferBudget == \A t \in Trip : Cardinality(OffersTo(t)) <= MaxOffers

\* seenDrivers: a later search of the same window never offers the trip again to
\* a driver who declined it or let it time out.
NeverReoffered ==
  [][\A t \in Trip : pc[t] = "announce" /\ pc'[t] = "subscribe"
                       => cur[t] \notin OffersTo(t)]_vars

\* The final answers in the stream, as the trip service sees them.
MatchAnswers(t) == {e \in events : e.type \in {"ACCEPTED", "EXHAUSTED"} /\ e.trip = t}
PostedOutcome == [t \in Trip |-> {e.driver : e \in MatchAnswers(t)}]
Outcome == INSTANCE MatchOutcome WITH NoMatch <- NoDriver, outcome <- PostedOutcome

\* The loops implement MatchOutcome: a trip gets one final answer and no other.
MatchContract == Outcome!OutcomeSpec

\* A started loop returns (or dies with the service), whatever the drivers do:
\* every wait has a timer and every search consumes the window.
DispatchTerminates ==
  \A t \in Trip : pc[t] \in Running ~> pc[t] \in {"done", "dead"}

\* No driver stays locked for good, not even when the loop that held the lock
\* died, its DEL failed, or the reply to its SET NX was lost: again and again all
\* locks are free at once, since the trips are finitely many.
LockRecovers == []<>(\A d \in Driver : lock[d] = NoTrip)

\* README.md:73 and 106, geo/redis_geo.go:110: a driver is never offered to two
\* riders at the same time.
OneOfferPerDriver == \A d \in Driver : Cardinality(OpenOffers(d)) <= 1

\* docs/SAGA_PATTERN.md:30: a trip is assigned when its driver accepts that
\* match, so an ACCEPTED event names a trip the driver accepted.
OnlyConsentedTrips ==
  \A e \in events : e.type = "ACCEPTED" => e.trip \in consented[e.driver]
=============================================================================
