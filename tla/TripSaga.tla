------------------------------- MODULE TripSaga -------------------------------
(***************************************************************************)
(* The trip service: the create-trip saga run by each CreateTrip request,  *)
(* CancelTrip requests, and the consumer of driver.match.v1, all writing   *)
(* the rows of the table trips without a lock or a condition on the status *)
(* they replace.                                                           *)
(*                                                                         *)
(* A process is a request (a create saga is named by the trip it creates)  *)
(* or the consumer.  Each call of a process to PostgreSQL, the payment     *)
(* service or Redis is one step and has three outcomes: it works, it fails *)
(* without effect, or it takes effect and its reply is lost.  Calls made   *)
(* on a request whose client is gone fail at once: they use its context.   *)
(*                                                                         *)
(* The payment hold of a trip is what ReleaseHold, which looks it up by    *)
(* trip, would find.  The driver service is its contract, MatchOutcome.    *)
(***************************************************************************)
EXTENDS Integers, FiniteSets

CONSTANTS
  Trip,         \* trips, each created by one CreateTrip request
  Cancel,       \* CancelTrip requests
  Consumer,     \* the goroutine reading driver.match.v1
  Driver,
  NoTrip,
  NoDriver,     \* driver_id is NULL
  NoMatch,      \* the answer EXHAUSTED
  MaxFaults,    \* bound: calls that fail without effect
  MaxLost,      \* bound: calls that take effect but report an error
  MaxHangups,   \* bound: clients that disconnect before their answer
  MaxCrashes    \* bound: restarts of the trip service

ASSUME TripSagaAssumption ==
  /\ IsFiniteSet(Trip)
  /\ Trip \cap Cancel = {} /\ Consumer \notin Trip \cup Cancel
  /\ NoTrip \notin Trip
  /\ NoDriver \notin Driver /\ NoMatch \notin Driver \cup {NoDriver}
  /\ MaxFaults \in Nat /\ MaxLost \in Nat /\ MaxHangups \in Nat
  /\ MaxCrashes \in Nat

VARIABLES
  row,       \* trips.status, "NONE" while there is no row
  driver,    \* trips.driver_id
  hold,      \* the trip's payment hold
  events,    \* everything appended to the stream trip.events.v1
  outcome,   \* the driver service's answers for each trip
  unread,    \* trips whose answer is in driver.match.v1, not yet read
  batch,     \* trips whose answer XREADGROUP returned, not yet handled
  at,        \* where each process stands
  on,        \* the trip each process works on
  alive,     \* FALSE once the request's context is cancelled
  faults, lost, hangups, crashes

matchVars == <<outcome, unread>>
limits == <<faults, lost, hangups, crashes>>
vars == <<row, driver, hold, events, matchVars, batch, at, on, alive, limits>>

Request == Trip \cup Cancel
Process == Request \cup {Consumer}

Status == {"NONE", "REQUESTED", "MATCHING", "ASSIGNED", "CANCELLED",
           "CANCELLED_NO_DRIVER"}
Cancelled == {"CANCELLED", "CANCELLED_NO_DRIVER"}

Working == {"authorize", "insert", "undo", "requested", "matching", "announce",
            "mark", "release", "publish", "assign", "assigned"}
Stages == Working \cup {"idle", "done", "failed", "dead"}

-----------------------------------------------------------------------------
(* Helpers *)

\* The transition table of the trip state machine.
CanTransitionTo(from, to) ==
  \/ from = "REQUESTED" /\ to \in {"MATCHING", "PAYMENT_FAILED", "CANCELLED"}
  \/ from = "MATCHING"  /\ to \in {"ASSIGNED", "CANCELLED_NO_DRIVER", "CANCELLED"}
  \/ from = "ASSIGNED"  /\ to \in {"IN_PROGRESS", "CANCELLED"}
  \/ from = "IN_PROGRESS" /\ to \in {"COMPLETED", "CANCELLED"}

\* The outcomes of a call by process p: it works, it fails without effect, or it
\* takes effect and p is told that it failed.
Works(p) == alive[p] /\ UNCHANGED <<faults, lost>>
Fails(p) ==
  /\ \/ ~alive[p] /\ UNCHANGED faults
     \/ alive[p] /\ faults < MaxFaults /\ faults' = faults + 1
  /\ UNCHANGED lost
ReplyLost(p) ==
  /\ alive[p]
  /\ lost < MaxLost /\ lost' = lost + 1
  /\ UNCHANGED faults

Goto(p, stage) == at' = [at EXCEPT ![p] = stage]

\* UPDATE trips SET status, whatever the status was.
UpdateStatus(t, status) ==
  row' = IF row[t] = "NONE" THEN row ELSE [row EXCEPT ![t] = status]

\* ReleaseHold finds the hold by trip; without one it changes nothing.
ReleaseHold(p, t) ==
  \/ /\ Works(p) \/ ReplyLost(p)
     /\ hold' = IF hold[t] = "held" THEN [hold EXCEPT ![t] = "released"] ELSE hold
  \/ Fails(p) /\ UNCHANGED hold

\* XADD to trip.events.v1: a failure is logged and the event is lost.
PublishTripEvent(p, t, status) ==
  \/ Works(p) /\ events' = events \cup {[trip |-> t, status |-> status]}
  \/ Fails(p) /\ UNCHANGED events

-----------------------------------------------------------------------------
(* The create saga of trip t: ExecuteCreateTripSaga *)

\* The route is computed (OSRM has a fallback) and may be too long.
StartSaga(t) ==
  /\ at[t] = "idle"
  /\ Goto(t, "authorize") \/ Goto(t, "failed")
  /\ UNCHANGED <<row, driver, hold, events, matchVars, batch, on, alive, limits>>

\* A hold that is declined, or whose call fails, becomes a mock hold and the saga
\* goes on.
AuthorizeHold(t) ==
  /\ at[t] = "authorize"
  /\ \/ Works(t) /\ hold' \in {hold, [hold EXCEPT ![t] = "held"]}
     \/ Fails(t) /\ UNCHANGED hold
     \/ ReplyLost(t) /\ hold' = [hold EXCEPT ![t] = "held"]
  /\ Goto(t, "insert")
  /\ UNCHANGED <<row, driver, events, matchVars, batch, on, alive, hangups, crashes>>

CreateRow(t) ==
  /\ at[t] = "insert"
  /\ \/ Works(t) /\ row' = [row EXCEPT ![t] = "REQUESTED"] /\ Goto(t, "requested")
     \/ ReplyLost(t) /\ row' = [row EXCEPT ![t] = "REQUESTED"] /\ Goto(t, "undo")
     \/ Fails(t) /\ UNCHANGED row /\ Goto(t, "undo")
  /\ UNCHANGED <<driver, hold, events, matchVars, batch, on, alive, hangups, crashes>>

\* Mutant: the error is returned with the hold still in place.
UndoNothing(t) ==
  /\ at[t] = "undo"
  /\ Goto(t, "failed")
  /\ UNCHANGED <<row, driver, hold, events, matchVars, batch, on, alive, limits>>
\* The INSERT returned an error: release the hold, then return the error.
UndoHold(t) ==
  /\ at[t] = "undo"
  /\ ReleaseHold(t, t)
  /\ Goto(t, "failed")
  /\ UNCHANGED <<row, driver, events, matchVars, batch, on, alive, hangups, crashes>>

\* Mutant: MATCHING is announced before it is written.
AnnounceEarly(t) ==
  /\ at[t] = "requested"
  /\ PublishTripEvent(t, t, "MATCHING")
  /\ Goto(t, "matching")
  /\ UNCHANGED <<row, driver, hold, matchVars, batch, on, alive, hangups, crashes>>
PublishRequested(t) ==
  /\ at[t] = "requested"
  /\ PublishTripEvent(t, t, "REQUESTED")
  /\ Goto(t, "matching")
  /\ UNCHANGED <<row, driver, hold, matchVars, batch, on, alive, hangups, crashes>>

\* Mutant: an error is returned without compensation.
ToMatchingOrFail(t) ==
  /\ at[t] = "matching"
  /\ \/ Works(t) /\ UpdateStatus(t, "MATCHING") /\ Goto(t, "announce")
     \/ Fails(t) /\ UNCHANGED row /\ Goto(t, "failed")
  /\ UNCHANGED <<driver, hold, events, matchVars, batch, on, alive, hangups, crashes>>
\* An error starts CompensateTripCreation.
ToMatching(t) ==
  /\ at[t] = "matching"
  /\ \/ Works(t) /\ UpdateStatus(t, "MATCHING") /\ Goto(t, "announce")
     \/ ReplyLost(t) /\ UpdateStatus(t, "MATCHING") /\ Goto(t, "mark")
     \/ Fails(t) /\ UNCHANGED row /\ Goto(t, "mark")
  /\ UNCHANGED <<driver, hold, events, matchVars, batch, on, alive, hangups, crashes>>

\* The event that starts dispatch.
PublishMatching(t) ==
  /\ at[t] = "announce"
  /\ PublishTripEvent(t, t, "MATCHING")
  /\ Goto(t, "done")
  /\ UNCHANGED <<row, driver, hold, matchVars, batch, on, alive, hangups, crashes>>

Saga(t) ==
  \/ AuthorizeHold(t) \/ CreateRow(t) \/ UndoHold(t) \/ PublishRequested(t)
  \/ ToMatching(t) \/ PublishMatching(t)

-----------------------------------------------------------------------------
(* CompensateTripCreation by a saga or a cancellation, and                  *)
(* CompensateNoDriverAvailable by the consumer: mark, release, publish.     *)
(* Errors are logged and the next step is taken.                            *)

FinalStatus(p) == IF p = Consumer THEN "CANCELLED_NO_DRIVER" ELSE "CANCELLED"

\* Mutant: the hold is released and the row left alone.
MarkNothing(p) ==
  /\ at[p] = "mark"
  /\ Goto(p, "release")
  /\ UNCHANGED <<row, driver, hold, events, matchVars, batch, on, alive, limits>>
MarkCancelled(p) ==
  /\ at[p] = "mark"
  /\ \/ (Works(p) \/ ReplyLost(p)) /\ UpdateStatus(on[p], FinalStatus(p))
     \/ Fails(p) /\ UNCHANGED row
  /\ Goto(p, "release")
  /\ UNCHANGED <<driver, hold, events, matchVars, batch, on, alive, hangups, crashes>>

\* Mutant: the hold is not released.
KeepHold(p) ==
  /\ at[p] = "release"
  /\ Goto(p, "publish")
  /\ UNCHANGED <<row, driver, hold, events, matchVars, batch, on, alive, limits>>
CompensateHold(p) ==
  /\ at[p] = "release"
  /\ ReleaseHold(p, on[p])
  /\ Goto(p, "publish")
  /\ UNCHANGED <<row, driver, events, matchVars, batch, on, alive, hangups, crashes>>

\* Mutant: nobody is told.
CancelSilently(p) ==
  /\ at[p] = "publish"
  /\ Goto(p, IF p \in Trip THEN "failed" ELSE IF p = Consumer THEN "idle" ELSE "done")
  /\ UNCHANGED <<row, driver, hold, events, matchVars, batch, on, alive, limits>>
\* The saga returns its error, CancelTrip its answer, the consumer acks.
PublishCancelled(p) ==
  /\ at[p] = "publish"
  /\ PublishTripEvent(p, on[p], FinalStatus(p))
  /\ Goto(p, IF p \in Trip THEN "failed" ELSE IF p = Consumer THEN "idle" ELSE "done")
  /\ UNCHANGED <<row, driver, hold, matchVars, batch, on, alive, hangups, crashes>>

Compensate(p) == MarkCancelled(p) \/ CompensateHold(p) \/ PublishCancelled(p)

-----------------------------------------------------------------------------
(* CancelTrip *)

\* Read the trip and validate the transition to CANCELLED; the compensation
\* that follows does not look at the status again.
CancelTrip(c, t) ==
  /\ at[c] = "idle"
  /\ row[t] # "NONE"
  /\ on' = [on EXCEPT ![c] = t]
  /\ Goto(c, IF CanTransitionTo(row[t], "CANCELLED") THEN "mark" ELSE "done")
  /\ UNCHANGED <<row, driver, hold, events, matchVars, batch, alive, limits>>

-----------------------------------------------------------------------------
(* The consumer of driver.match.v1 *)

Match == INSTANCE MatchOutcome

\* The driver service answers a trip whose MATCHING event it could read.
AnswerMatch(t) ==
  /\ [trip |-> t, status |-> "MATCHING"] \in events
  /\ Match!PostAnswer(t)
  /\ unread' = unread \cup {t}
  /\ UNCHANGED <<row, driver, hold, events, batch, at, on, alive, limits>>

\* XREADGROUP ">" hands the new messages out once: what a lost reply carried is
\* not read again.
ReadStream ==
  /\ at[Consumer] = "idle" /\ batch = {} /\ unread # {}
  /\ unread' = {}
  /\ \/ Works(Consumer) /\ batch' = unread
     \/ ReplyLost(Consumer) /\ UNCHANGED batch
  /\ UNCHANGED <<row, driver, hold, events, outcome, at, on, alive, hangups, crashes>>

\* Mutants: EXHAUSTED is handled like ACCEPTED, or not handled.
AssignAlways ==
  /\ at[Consumer] = "idle"
  /\ \E t \in batch :
       /\ batch' = batch \ {t}
       /\ on' = [on EXCEPT ![Consumer] = t]
       /\ Goto(Consumer, "assign")
  /\ UNCHANGED <<row, driver, hold, events, matchVars, alive, limits>>
DropExhausted ==
  /\ at[Consumer] = "idle"
  /\ \E t \in batch :
       /\ batch' = batch \ {t}
       /\ on' = [on EXCEPT ![Consumer] = t]
       /\ Goto(Consumer, IF NoMatch \in outcome[t] THEN "idle" ELSE "assign")
  /\ UNCHANGED <<row, driver, hold, events, matchVars, alive, limits>>
\* Next message of the batch: ACCEPTED assigns, EXHAUSTED compensates.
HandleMessage ==
  /\ at[Consumer] = "idle"
  /\ \E t \in batch :
       /\ batch' = batch \ {t}
       /\ on' = [on EXCEPT ![Consumer] = t]
       /\ Goto(Consumer, IF NoMatch \in outcome[t] THEN "mark" ELSE "assign")
  /\ UNCHANGED <<row, driver, hold, events, matchVars, alive, limits>>

\* AssignDriverToTrip: an UPDATE that asks nothing of the status.  An error is
\* logged and the message acked.
AssignDriver ==
  LET t == on[Consumer] IN
  /\ at[Consumer] = "assign"
  /\ \/ /\ \/ Works(Consumer) /\ Goto(Consumer, "assigned")
           \/ ReplyLost(Consumer) /\ Goto(Consumer, "idle")
        /\ UpdateStatus(t, "ASSIGNED")
        /\ \E d \in outcome[t] :
             driver' = IF row[t] = "NONE" THEN driver ELSE [driver EXCEPT ![t] = d]
     \/ Fails(Consumer) /\ Goto(Consumer, "idle") /\ UNCHANGED <<row, driver>>
  /\ UNCHANGED <<hold, events, matchVars, batch, on, alive, hangups, crashes>>

PublishAssigned ==
  /\ at[Consumer] = "assigned"
  /\ PublishTripEvent(Consumer, on[Consumer], "ASSIGNED")
  /\ Goto(Consumer, "idle")
  /\ UNCHANGED <<row, driver, hold, matchVars, batch, on, alive, hangups, crashes>>

Consume == ReadStream \/ HandleMessage \/ AssignDriver \/ PublishAssigned

-----------------------------------------------------------------------------
(* Failures *)

\* The client disconnects and its request's context is cancelled; the handler
\* runs on.
Hangup(p) ==
  /\ at[p] \in Working /\ alive[p]
  /\ hangups < MaxHangups /\ hangups' = hangups + 1
  /\ alive' = [alive EXCEPT ![p] = FALSE]
  /\ UNCHANGED <<row, driver, hold, events, matchVars, batch, at, on, faults,
                 lost, crashes>>

\* The service dies.  Requests are gone; the consumer comes back and never asks
\* for the messages it had read and not handled.
Crash ==
  /\ crashes < MaxCrashes /\ crashes' = crashes + 1
  /\ at' = [p \in Process |-> IF p = Consumer THEN "idle"
                               ELSE IF at[p] \in Working THEN "dead" ELSE at[p]]
  /\ batch' = {}
  /\ UNCHANGED <<row, driver, hold, events, matchVars, on, alive, faults, lost,
                 hangups>>

-----------------------------------------------------------------------------
Init ==
  /\ row = [t \in Trip |-> "NONE"]
  /\ driver = [t \in Trip |-> NoDriver]
  /\ hold = [t \in Trip |-> "none"]
  /\ events = {}
  /\ Match!OutcomeInit
  /\ unread = {} /\ batch = {}
  /\ at = [p \in Process |-> "idle"]
  /\ on = [p \in Process |-> IF p \in Trip THEN p ELSE NoTrip]
  /\ alive = [p \in Process |-> TRUE]
  /\ faults = 0 /\ lost = 0 /\ hangups = 0 /\ crashes = 0

Next ==
  \/ \E t \in Trip : StartSaga(t) \/ Saga(t) \/ AnswerMatch(t)
  \/ \E p \in Process : Compensate(p)
  \/ \E c \in Cancel, t \in Trip : CancelTrip(c, t)
  \/ Consume
  \/ \E p \in Request : Hangup(p)
  \/ Crash

\* Handlers and the consumer are goroutines the Go scheduler runs.  Clients,
\* the driver service and the failures get no fairness.
Fairness ==
  /\ \A t \in Trip : WF_vars(Saga(t))
  /\ \A p \in Process : WF_vars(Compensate(p))
  /\ WF_vars(Consume)

Spec == Init /\ [][Next]_vars
FairSpec == Spec /\ Fairness

-----------------------------------------------------------------------------
TypeOK ==
  /\ row \in [Trip -> Status]
  /\ driver \in [Trip -> Driver \cup {NoDriver}]
  /\ hold \in [Trip -> {"none", "held", "released"}]
  /\ events \subseteq [trip : Trip, status : Status]
  /\ outcome \in [Trip -> SUBSET (Driver \cup {NoMatch})]
  /\ unread \subseteq Trip /\ batch \subseteq Trip
  /\ at \in [Process -> Stages]
  /\ on \in [Process -> Trip \cup {NoTrip}]
  /\ alive \in [Process -> BOOLEAN]
  /\ faults \in 0..MaxFaults /\ lost \in 0..MaxLost
  /\ hangups \in 0..MaxHangups /\ crashes \in 0..MaxCrashes

-----------------------------------------------------------------------------
(* Properties *)

\* Processes about to take a step for trip t.
Busy(t, stages) == \E p \in Process : on[p] = t /\ at[p] \in stages

\* A cancelled trip whose hold stays: every one is paid for by a failed call, a
\* client that hung up or a crash.  So a compensation that meets no failure frees
\* the rider's money, whoever else is writing the same trip.
LeakedHolds == {t \in Trip : row[t] \in Cancelled /\ hold[t] = "held"
                             /\ ~Busy(t, {"release"})}
LeaksAccounted ==
  Cardinality(LeakedHolds) <= faults + hangups + Cardinality(Trip) * crashes

\* A status that stays in the database without its event: every one is paid for
\* in the same way.  The driver service and the rider's app know a trip only by
\* its events.
Untold == {t \in Trip : /\ row[t] # "NONE"
                        /\ [trip |-> t, status |-> row[t]] \notin events
                        /\ ~Busy(t, {"requested", "announce", "release", "publish",
                                     "assigned"})}
SilenceAccounted ==
  Cardinality(Untold) <= faults + lost + hangups + Cardinality(Trip) * crashes

\* The hold of a trip that is being matched or served is only ever released by a
\* rider's cancellation, or when marking the trip cancelled failed.
LiveTripKeepsHold ==
  \A t \in Trip :
    row[t] \in {"MATCHING", "ASSIGNED"} /\ hold[t] = "released"
      => faults > 0 \/ \E c \in Cancel : on[c] = t

\* As long as no CancelTrip request named it, a trip moves along the transition
\* table, although no UPDATE checks the status it replaces.
StrictUnlessCancelled ==
  [][\A t \in Trip :
       row[t] # "NONE" /\ row'[t] # row[t] /\ (\A c \in Cancel : on[c] # t)
         => CanTransitionTo(row[t], row'[t])]_vars

\* A create request that returns an error has left nothing behind, if a single
\* call failed and that call had no effect.
FailedCreateLeavesNothing ==
  \A t \in Trip :
    at[t] = "failed" /\ faults <= 1 /\ lost = 0 /\ hangups = 0
      => row[t] \in {"NONE", "CANCELLED"} /\ hold[t] # "held"

\* One failed call never leaves a trip in REQUESTED.
LeavesRequested ==
  \A t \in Trip :
    row[t] = "REQUESTED" ~>
      row[t] # "REQUESTED" \/ faults > 1 \/ lost > 0 \/ hangups > 0 \/ crashes > 0

\* Once dispatch has answered, the trip leaves REQUESTED and MATCHING for good,
\* unless a call of the consumer fails or the service crashes.
AnswerApplied ==
  \A t \in Trip :
    outcome[t] # {} ~>
      [](row[t] \notin {"REQUESTED", "MATCHING"} \/ faults + lost + crashes > 0)

\* domain/trip.go:62: every change of a trip's status is one the table allows.
StrictTransitions ==
  [][\A t \in Trip : row[t] # "NONE" /\ row'[t] # row[t]
                       => CanTransitionTo(row[t], row'[t])]_vars

\* docs/SAGA_PATTERN.md:3: a saga that failed was compensated, the disconnect of
\* its client included: no call of the services behind it failed.
CompensatedOnFailure ==
  \A t \in Trip :
    at[t] = "failed" /\ faults = 0 /\ lost = 0
      => row[t] \in {"NONE", "CANCELLED"} /\ hold[t] # "held"
=============================================================================
