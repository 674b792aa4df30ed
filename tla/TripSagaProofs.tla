--------------------------- MODULE TripSagaProofs ---------------------------
(***************************************************************************)
(* Proofs about TripSaga, for any trips, cancellations, drivers, failures, *)
(* disconnects and crashes.                                                *)
(*                                                                         *)
(* Shape, inductive together with the types, says who stands where and     *)
(* that an answer is handled once.  On it rest Track (what the status is   *)
(* when a process is about to write it), Kept (why a live trip still has   *)
(* its hold), Undone (what a create request that turns back has undone),   *)
(* and two counts, LeaksPaid and SilencePaid, of sets that only a failure  *)
(* enlarges, by one trip.                                                  *)
(***************************************************************************)
EXTENDS TripSaga, FiniteSetTheorems, TLAPS

\* Every step is one of these.
LEMMA StepCases ==
  ASSUME [Next]_vars
  PROVE  \/ \E t \in Trip : StartSaga(t)
         \/ \E t \in Trip : AuthorizeHold(t)
         \/ \E t \in Trip : CreateRow(t)
         \/ \E t \in Trip : UndoHold(t)
         \/ \E t \in Trip : PublishRequested(t)
         \/ \E t \in Trip : ToMatching(t)
         \/ \E t \in Trip : PublishMatching(t)
         \/ \E t \in Trip : AnswerMatch(t)
         \/ \E p \in Process : MarkCancelled(p)
         \/ \E p \in Process : CompensateHold(p)
         \/ \E p \in Process : PublishCancelled(p)
         \/ \E c \in Cancel, t \in Trip : CancelTrip(c, t)
         \/ ReadStream
         \/ HandleMessage
         \/ AssignDriver
         \/ PublishAssigned
         \/ \E p \in Request : Hangup(p)
         \/ Crash
         \/ UNCHANGED vars
BY DEF Next, Saga, Compensate, Consume

\* Trips, cancellations and the consumer are different processes.
LEMMA Processes ==
  /\ \A t \in Trip : t \in Process /\ t \in Request /\ t \notin Cancel /\ t # Consumer
  /\ \A c \in Cancel : c \in Process /\ c \in Request /\ c \notin Trip /\ c # Consumer
  /\ Consumer \in Process /\ Consumer \notin Trip /\ Consumer \notin Cancel
  /\ \A p \in Process : p \in Trip \/ p \in Cancel \/ p = Consumer
  /\ \A p \in Request : p \in Process /\ p # Consumer
  /\ NoTrip \notin Trip
BY TripSagaAssumption DEF Process, Request

-----------------------------------------------------------------------------
(* Type correctness, and who stands where *)

Announced(t) == [trip |-> t, status |-> "MATCHING"] \in events

Compensating == {"mark", "release", "publish"}

\* A saga works on its own trip, whose row it has inserted when it goes on.  Dispatch
\* is asked for a driver by its last step.
SagaShape ==
  \A t \in Trip :
    /\ on[t] = t
    /\ at[t] \notin {"assign", "assigned"}
    /\ at[t] \in {"idle", "authorize", "insert"} => row[t] = "NONE"
    /\ at[t] \in {"requested", "matching", "announce", "done"} \cup Compensating
         => row[t] # "NONE"
    /\ at[t] = "idle" => hold[t] = "none"
    /\ Announced(t) => at[t] = "done"

CancelShape ==
  \A c \in Cancel :
    /\ at[c] \in {"idle", "done", "dead"} \cup Compensating
    /\ at[c] = "idle" => on[c] = NoTrip /\ alive[c]
    /\ at[c] # "idle" => on[c] \in Trip

\* The consumer works on an answer it has taken out of the batch.
ConsumerShape ==
  /\ at[Consumer] \in {"idle", "assign", "assigned"} \cup Compensating
  /\ alive[Consumer]
  /\ at[Consumer] # "idle" => /\ on[Consumer] \in Trip
                              /\ on[Consumer] \notin unread \cup batch
                              /\ outcome[on[Consumer]] # {}
  /\ at[Consumer] \in {"assign", "assigned"} => NoMatch \notin outcome[on[Consumer]]
  /\ at[Consumer] \in Compensating => NoMatch \in outcome[on[Consumer]]

\* Only announced trips are answered, and an answer is in one place.
AnswerShape ==
  /\ unread \cap batch = {}
  /\ \A t \in unread \cup batch : outcome[t] # {}
  /\ \A t \in Trip : outcome[t] # {} => Announced(t)

Shape == SagaShape /\ CancelShape /\ ConsumerShape /\ AnswerShape

TypeInv == TypeOK /\ Shape

LEMMA InitType == Init => TypeInv
BY Processes, TripSagaAssumption
   DEF Init, TypeInv, TypeOK, Shape, SagaShape, CancelShape, ConsumerShape, AnswerShape,
       Announced, Compensating, Stages, Working, Status, Match!OutcomeInit, Process

\* What was published before stays, and at most the one event is new.
LEMMA Publishing ==
  ASSUME NEW p, NEW t, NEW s, PublishTripEvent(p, t, s)
  PROVE  /\ events \subseteq events'
         /\ events' \subseteq events \cup {[trip |-> t, status |-> s]}
         /\ s # "MATCHING" => \A u : Announced(u)' <=> Announced(u)
         /\ \A u : u # t => (Announced(u)' <=> Announced(u))
BY DEF PublishTripEvent, Announced

LEMMA Limits ==
  ASSUME TypeOK, NEW p, Works(p) \/ Fails(p) \/ ReplyLost(p)
  PROVE  /\ faults' \in 0..MaxFaults /\ lost' \in 0..MaxLost
         /\ faults' >= faults /\ lost' >= lost
BY TripSagaAssumption DEF TypeOK, Works, Fails, ReplyLost

LEMMA ReleaseCalls ==
  ASSUME TypeOK, NEW p, NEW t \in Trip, ReleaseHold(p, t)
  PROVE  /\ Works(p) \/ Fails(p) \/ ReplyLost(p)
         /\ hold' \in [Trip -> {"none", "held", "released"}]
         /\ \A u \in Trip \ {t} : hold'[u] = hold[u]
         /\ hold'[t] = hold[t] \/ (hold[t] = "held" /\ hold'[t] = "released")
         /\ hold'[t] = "held" => Fails(p)
BY DEF TypeOK, ReleaseHold

LEMMA UpdateCalls ==
  ASSUME TypeOK, NEW t \in Trip, NEW s \in Status, UpdateStatus(t, s)
  PROVE  /\ row' \in [Trip -> Status]
         /\ \A u \in Trip \ {t} : row'[u] = row[u]
         /\ row[t] = "NONE" => row'[t] = "NONE"
         /\ row[t] # "NONE" => row'[t] = s
BY DEF TypeOK, UpdateStatus

LEMMA NextType == TypeInv /\ [Next]_vars => TypeInv'
<1> SUFFICES ASSUME TypeOK, Shape, [Next]_vars PROVE TypeInv'
  BY DEF TypeInv
<1> USE Processes
<1> USE DEF Shape, SagaShape, CancelShape, ConsumerShape, AnswerShape, Compensating,
            TypeInv, TypeOK, Stages, Working, Status, Goto, matchVars, limits
<1>1. ASSUME NEW t \in Trip, StartSaga(t) PROVE TypeInv'
  BY <1>1 DEF StartSaga, Announced
<1>2. ASSUME NEW t \in Trip, AuthorizeHold(t) PROVE TypeInv'
  BY <1>2, Limits DEF AuthorizeHold, Announced
<1>3. ASSUME NEW t \in Trip, CreateRow(t) PROVE TypeInv'
  BY <1>3, Limits DEF CreateRow, Announced
<1>4. ASSUME NEW t \in Trip, UndoHold(t) PROVE TypeInv'
  BY <1>4, Limits, ReleaseCalls DEF UndoHold, Announced
<1>5. ASSUME NEW t \in Trip, PublishRequested(t) PROVE TypeInv'
  <2>1. at[t] = "requested" /\ at' = [at EXCEPT ![t] = "matching"]
        /\ PublishTripEvent(t, t, "REQUESTED")
        /\ UNCHANGED <<row, driver, hold, matchVars, batch, on, alive, hangups, crashes>>
    BY <1>5 DEF PublishRequested
  <2>2. faults' \in 0..MaxFaults /\ lost' \in 0..MaxLost
    BY <2>1, Limits DEF PublishTripEvent
  <2>3. events' \subseteq [trip : Trip, status : Status]
    BY <2>1, Publishing
  <2>4. \A u : Announced(u)' <=> Announced(u)
    BY <2>1, Publishing
  <2>. QED BY <2>1, <2>2, <2>3, <2>4
<1>6. ASSUME NEW t \in Trip, ToMatching(t) PROVE TypeInv'
  BY <1>6, Limits, UpdateCalls DEF ToMatching, Announced
<1>7. ASSUME NEW t \in Trip, PublishMatching(t) PROVE TypeInv'
  <2>1. at[t] = "announce" /\ at' = [at EXCEPT ![t] = "done"]
        /\ PublishTripEvent(t, t, "MATCHING")
        /\ UNCHANGED <<row, driver, hold, matchVars, batch, on, alive, hangups, crashes>>
    BY <1>7 DEF PublishMatching
  <2>2. faults' \in 0..MaxFaults /\ lost' \in 0..MaxLost
    BY <2>1, Limits DEF PublishTripEvent
  <2>3. events' \subseteq [trip : Trip, status : Status]
    BY <2>1, Publishing
  <2>4. /\ \A u : u # t => (Announced(u)' <=> Announced(u))
        /\ \A u : Announced(u) => Announced(u)'
    <3>1. events \subseteq events' /\ \A u : u # t => (Announced(u)' <=> Announced(u))
      BY <2>1, Publishing
    <3>. QED BY <3>1 DEF Announced
  <2>. QED BY <2>1, <2>2, <2>3, <2>4
<1>8. ASSUME NEW t \in Trip, AnswerMatch(t) PROVE TypeInv'
  BY <1>8 DEF AnswerMatch, Announced, Match!PostAnswer
<1>9. ASSUME NEW p \in Process, MarkCancelled(p) PROVE TypeInv'
  <2>1. /\ at[p] = "mark" /\ at' = [at EXCEPT ![p] = "release"] /\ on[p] \in Trip
        /\ UNCHANGED <<driver, hold, events, matchVars, batch, on, alive, hangups, crashes>>
    BY <1>9 DEF MarkCancelled
  <2>2. /\ faults' \in 0..MaxFaults /\ lost' \in 0..MaxLost
    BY <1>9, Limits DEF MarkCancelled
  <2>3. /\ row' \in [Trip -> Status]
        /\ \A t \in Trip : row'[t] = "NONE" <=> row[t] = "NONE"
    BY <1>9, <2>1, UpdateCalls DEF MarkCancelled, FinalStatus
  <2>4. \A u : Announced(u)' <=> Announced(u)
    BY <2>1 DEF Announced
  <2>. QED BY <2>1, <2>2, <2>3, <2>4
<1>10. ASSUME NEW p \in Process, CompensateHold(p) PROVE TypeInv'
  <2>1. /\ at[p] = "release" /\ at' = [at EXCEPT ![p] = "publish"] /\ on[p] \in Trip
        /\ UNCHANGED <<row, driver, events, matchVars, batch, on, alive, hangups, crashes>>
        /\ ReleaseHold(p, on[p])
    BY <1>10 DEF CompensateHold
  <2>2. faults' \in 0..MaxFaults /\ lost' \in 0..MaxLost
    BY <2>1, Limits, ReleaseCalls
  <2>3. /\ hold' \in [Trip -> {"none", "held", "released"}]
        /\ \A t \in Trip : hold[t] = "none" => hold'[t] = "none"
    BY <2>1, ReleaseCalls
  <2>4. \A u : Announced(u)' <=> Announced(u)
    BY <2>1 DEF Announced
  <2>. QED BY <2>1, <2>2, <2>3, <2>4
<1>11. ASSUME NEW p \in Process, PublishCancelled(p) PROVE TypeInv'
  <2> DEFINE s == IF p \in Trip THEN "failed" ELSE IF p = Consumer THEN "idle" ELSE "done"
  <2>0. /\ s \in {"failed", "idle", "done"}
        /\ p \in Trip <=> s = "failed"
        /\ p = Consumer <=> s = "idle"
    OBVIOUS
  <2>1. /\ at[p] = "publish" /\ on[p] \in Trip
        /\ at' = [at EXCEPT ![p] = s]
        /\ UNCHANGED <<row, driver, hold, matchVars, batch, on, alive, hangups, crashes>>
        /\ PublishTripEvent(p, on[p], FinalStatus(p))
        /\ FinalStatus(p) \in Cancelled
    BY <1>11 DEF PublishCancelled, FinalStatus, Cancelled
  <2>2. faults' \in 0..MaxFaults /\ lost' \in 0..MaxLost
    BY <2>1, Limits DEF PublishTripEvent
  <2>3. events' \subseteq [trip : Trip, status : Status]
    BY <2>1, Publishing DEF Cancelled
  <2>4. \A u : Announced(u)' <=> Announced(u)
    BY <2>1, Publishing DEF Cancelled
  <2> HIDE DEF s
  <2>. QED BY <2>0, <2>1, <2>2, <2>3, <2>4
<1>12. ASSUME NEW c \in Cancel, NEW t \in Trip, CancelTrip(c, t) PROVE TypeInv'
  BY <1>12 DEF CancelTrip, Announced
<1>13. CASE ReadStream
  BY <1>13, Limits DEF ReadStream, Announced
<1>14. CASE HandleMessage
  BY <1>14 DEF HandleMessage, Announced
<1>15. CASE AssignDriver
  BY <1>15, Limits, UpdateCalls DEF AssignDriver, Announced
<1>16. CASE PublishAssigned
  <2>1. at[Consumer] = "assigned" /\ at' = [at EXCEPT ![Consumer] = "idle"]
        /\ PublishTripEvent(Consumer, on[Consumer], "ASSIGNED")
        /\ UNCHANGED <<row, driver, hold, matchVars, batch, on, alive, hangups, crashes>>
    BY <1>16 DEF PublishAssigned
  <2>2. faults' \in 0..MaxFaults /\ lost' \in 0..MaxLost
    BY <2>1, Limits DEF PublishTripEvent
  <2>3. events' \subseteq [trip : Trip, status : Status]
    BY <2>1, Publishing
  <2>4. \A u : Announced(u)' <=> Announced(u)
    BY <2>1, Publishing
  <2>. QED BY <2>1, <2>2, <2>3, <2>4
<1>17. ASSUME NEW p \in Request, Hangup(p) PROVE TypeInv'
  BY <1>17, TripSagaAssumption DEF Hangup, Announced
<1>18. CASE Crash
  BY <1>18, TripSagaAssumption DEF Crash, Announced
<1>19. CASE UNCHANGED vars
  BY <1>19 DEF vars, Announced
<1>. QED
  BY <1>1, <1>2, <1>3, <1>4, <1>5, <1>6, <1>7, <1>8, <1>9, <1>10, <1>11, <1>12, <1>13,
     <1>14, <1>15, <1>16, <1>17, <1>18, <1>19, StepCases

LEMMA TypeAlways == Spec => []TypeInv
BY InitType, NextType, PTL DEF Spec

\* Rows, holds, events and processes keep their types: see TypeOK.
THEOREM TypeCorrect == Spec => []TypeOK
<1>1. TypeInv => TypeOK
  BY DEF TypeInv
<1>. QED BY <1>1, TypeAlways, PTL

-----------------------------------------------------------------------------
(* The counters of failures *)

\* What the calls of a step do to the counters.
LEMMA StepCalls ==
  ASSUME [Next]_vars
  PROVE  /\ \/ UNCHANGED <<faults, lost>>
            \/ \E p \in Process : Works(p) \/ Fails(p) \/ ReplyLost(p)
         /\ UNCHANGED hangups \/ hangups' = hangups + 1
         /\ UNCHANGED crashes \/ crashes' = crashes + 1
         /\ Crash => crashes' = crashes + 1
<1> USE Processes
        DEF StartSaga, AuthorizeHold, CreateRow, UndoHold, PublishRequested, ToMatching,
            PublishMatching, AnswerMatch, MarkCancelled, CompensateHold, PublishCancelled,
            CancelTrip, ReadStream, HandleMessage, AssignDriver, PublishAssigned, Hangup,
            Crash, vars, limits
<1>1. \/ UNCHANGED <<faults, lost>>
      \/ \E p \in Process : Works(p) \/ Fails(p) \/ ReplyLost(p)
  BY StepCases DEF ReleaseHold, PublishTripEvent
<1>2. /\ UNCHANGED hangups \/ hangups' = hangups + 1
      /\ UNCHANGED crashes \/ crashes' = crashes + 1
      /\ Crash => crashes' = crashes + 1
  BY StepCases
<1>. QED BY <1>1, <1>2

LEMMA LimitsGrow ==
  ASSUME TypeInv, [Next]_vars
  PROVE  /\ faults \in Nat /\ lost \in Nat /\ hangups \in Nat /\ crashes \in Nat
         /\ faults' \in Nat /\ lost' \in Nat /\ hangups' \in Nat /\ crashes' \in Nat
         /\ faults <= faults' /\ lost <= lost' /\ hangups <= hangups'
         /\ crashes' = 0 => crashes = 0 /\ ~ Crash
<1>1. /\ faults \in Nat /\ lost \in Nat /\ hangups \in Nat /\ crashes \in Nat
      /\ faults' \in Nat /\ lost' \in Nat /\ hangups' \in Nat /\ crashes' \in Nat
  BY NextType, TripSagaAssumption DEF TypeInv, TypeOK
<1>2. faults <= faults' /\ lost <= lost'
  BY <1>1, StepCalls, Limits DEF TypeInv
<1>3. hangups <= hangups' /\ (crashes' = 0 => crashes = 0 /\ ~ Crash)
  BY <1>1, StepCalls
<1>. QED BY <1>1, <1>2, <1>3

-----------------------------------------------------------------------------
(* The transition table *)

\* No CancelTrip request has named the trip.
Untouched(t) == \A c \in Cancel : on[c] # t

\* The answer of trip t has yet to be applied.
Pending(t) == \/ t \in unread \cup batch
              \/ at[Consumer] \in {"assign", "mark"} /\ on[Consumer] = t

\* Where a process that is about to write the status of t finds it.
Tracked(t) ==
  /\ at[t] \in {"requested", "matching"} => row[t] = "REQUESTED"
  /\ at[t] = "announce" => row[t] = "MATCHING"
  /\ at[t] = "mark" => row[t] \in {"REQUESTED", "MATCHING"}
  /\ at[t] = "undo" => row[t] \in {"NONE", "REQUESTED"}
  /\ Announced(t) /\ outcome[t] = {} => row[t] = "MATCHING"
  /\ Pending(t) => row[t] = "MATCHING"

Track == \A t \in Trip : Untouched(t) => Tracked(t)

LEMMA UntouchedStep ==
  ASSUME TypeInv, [Next]_vars, NEW t \in Trip, Untouched(t)'
  PROVE  Untouched(t)
<1>1. \A c \in Cancel : on'[c] = on[c] \/ on[c] = NoTrip
  <2> USE Processes DEF TypeInv, TypeOK, Shape, CancelShape
  <2>1. CASE \E c \in Cancel, u \in Trip : CancelTrip(c, u)
    BY <2>1 DEF CancelTrip
  <2>2. CASE HandleMessage
    BY <2>2 DEF HandleMessage
  <2>3. CASE UNCHANGED on
    BY <2>3
  <2>. QED
    BY <2>1, <2>2, <2>3, StepCases
       DEF StartSaga, AuthorizeHold, CreateRow, UndoHold, PublishRequested, ToMatching,
           PublishMatching, AnswerMatch, MarkCancelled, CompensateHold, PublishCancelled,
           ReadStream, AssignDriver, PublishAssigned, Hangup, Crash, vars
<1>. QED BY <1>1, Processes DEF Untouched

LEMMA TrackStep == TypeInv /\ Track /\ [Next]_vars => Track'
<1> SUFFICES ASSUME TypeInv, Track, [Next]_vars, NEW u \in Trip, Untouched(u)'
             PROVE  Tracked(u)'
  BY DEF Track
<1>0. Untouched(u) /\ Tracked(u)
  BY UntouchedStep DEF Track
<1> USE <1>0, Processes
<1> USE DEF TypeInv, TypeOK, Shape, SagaShape, ConsumerShape, AnswerShape, Compensating,
            Goto, matchVars, limits, Tracked, Pending
<1>1. ASSUME NEW t \in Trip, StartSaga(t) PROVE Tracked(u)'
  BY <1>1 DEF StartSaga, Announced
<1>2. ASSUME NEW t \in Trip, AuthorizeHold(t) PROVE Tracked(u)'
  BY <1>2 DEF AuthorizeHold, Announced
<1>3. ASSUME NEW t \in Trip, CreateRow(t) PROVE Tracked(u)'
  BY <1>3 DEF CreateRow, Announced
<1>4. ASSUME NEW t \in Trip, UndoHold(t) PROVE Tracked(u)'
  BY <1>4 DEF UndoHold, Announced
<1>5. ASSUME NEW t \in Trip, PublishRequested(t) PROVE Tracked(u)'
  BY <1>5, Publishing DEF PublishRequested
<1>6. ASSUME NEW t \in Trip, ToMatching(t) PROVE Tracked(u)'
  <2>1. /\ at[t] = "matching" /\ ~ Announced(t)
        /\ UNCHANGED <<events, matchVars, batch, on>>
        /\ \/ at' = [at EXCEPT ![t] = "announce"] /\ UpdateStatus(t, "MATCHING")
           \/ /\ at' = [at EXCEPT ![t] = "mark"]
              /\ UpdateStatus(t, "MATCHING") \/ UNCHANGED row
    BY <1>6 DEF ToMatching
  <2>2. /\ \A v \in Trip \ {t} : row'[v] = row[v]
        /\ at'[t] = "announce" => row'[t] = "MATCHING"
        /\ row'[t] \in {row[t], "MATCHING"}
    BY <2>1, UpdateCalls DEF Status
  <2>. QED BY <2>1, <2>2 DEF Announced
<1>7. ASSUME NEW t \in Trip, PublishMatching(t) PROVE Tracked(u)'
  BY <1>7, Publishing DEF PublishMatching
<1>8. ASSUME NEW t \in Trip, AnswerMatch(t) PROVE Tracked(u)'
  BY <1>8 DEF AnswerMatch, Announced, Match!PostAnswer
<1>9. ASSUME NEW p \in Process, MarkCancelled(p) PROVE Tracked(u)'
  <2>1. /\ at[p] = "mark" /\ at' = [at EXCEPT ![p] = "release"] /\ on[p] \in Trip
        /\ UNCHANGED <<events, matchVars, batch, on>>
    BY <1>9 DEF MarkCancelled, CancelShape
  <2>2. \A v \in Trip \ {on[p]} : row'[v] = row[v]
    BY <1>9, <2>1, UpdateCalls DEF MarkCancelled, FinalStatus, Status
  <2>3. CASE on[p] # u
    BY <2>1, <2>2, <2>3 DEF Announced
  <2>4. CASE p = u
    BY <2>1, <2>4 DEF Announced
  <2>5. CASE p = Consumer /\ on[p] = u
    BY <2>1, <2>5 DEF Announced
  <2>. QED BY <2>3, <2>4, <2>5 DEF Untouched
<1>10. ASSUME NEW p \in Process, CompensateHold(p) PROVE Tracked(u)'
  BY <1>10 DEF CompensateHold, Announced
<1>11. ASSUME NEW p \in Process, PublishCancelled(p) PROVE Tracked(u)'
  BY <1>11, Publishing DEF PublishCancelled, FinalStatus
<1>12. ASSUME NEW c \in Cancel, NEW t \in Trip, CancelTrip(c, t) PROVE Tracked(u)'
  BY <1>12 DEF CancelTrip, Announced
<1>13. CASE ReadStream
  BY <1>13 DEF ReadStream, Announced
<1>14. CASE HandleMessage
  BY <1>14 DEF HandleMessage, Announced
<1>15. CASE AssignDriver
  <2>1. /\ at[Consumer] = "assign" /\ on[Consumer] \in Trip
        /\ \E s \in {"assigned", "idle"} : at' = [at EXCEPT ![Consumer] = s]
        /\ UNCHANGED <<events, matchVars, batch, on>>
    BY <1>15 DEF AssignDriver
  <2>2. \A v \in Trip \ {on[Consumer]} : row'[v] = row[v]
    BY <1>15, <2>1, UpdateCalls DEF AssignDriver, Status
  <2>. QED BY <2>1, <2>2 DEF Announced
<1>16. CASE PublishAssigned
  BY <1>16, Publishing DEF PublishAssigned
<1>17. ASSUME NEW p \in Request, Hangup(p) PROVE Tracked(u)'
  BY <1>17 DEF Hangup, Announced
<1>18. CASE Crash
  BY <1>18 DEF Crash, Announced
<1>19. CASE UNCHANGED vars
  BY <1>19 DEF vars, Announced
<1>. QED
  BY <1>1, <1>2, <1>3, <1>4, <1>5, <1>6, <1>7, <1>8, <1>9, <1>10, <1>11, <1>12, <1>13,
     <1>14, <1>15, <1>16, <1>17, <1>18, <1>19, StepCases

LEMMA TrackAlways == Spec => []Track
<1>1. Init => Track
  BY Processes DEF Init, Track, Tracked, Pending, Announced, Match!OutcomeInit
<1>. QED BY <1>1, TypeAlways, TrackStep, PTL DEF Spec

Strict ==
  \A t \in Trip :
    row[t] # "NONE" /\ row'[t] # row[t] /\ (\A c \in Cancel : on[c] # t)
      => CanTransitionTo(row[t], row'[t])

LEMMA StrictStep == TypeInv /\ Track /\ [Next]_vars => Strict
<1> SUFFICES ASSUME TypeInv, Track, [Next]_vars, NEW u \in Trip,
                    row[u] # "NONE", row'[u] # row[u], Untouched(u)
             PROVE  CanTransitionTo(row[u], row'[u])
  BY DEF Strict, Untouched
<1>0. Tracked(u)
  BY DEF Track
<1> USE <1>0, Processes
<1> USE DEF TypeInv, TypeOK, Shape, SagaShape, ConsumerShape, Compensating, Tracked,
            Pending, CanTransitionTo
<1>1. ASSUME NEW t \in Trip, CreateRow(t) PROVE CanTransitionTo(row[u], row'[u])
  BY <1>1 DEF CreateRow
<1>2. ASSUME NEW t \in Trip, ToMatching(t) PROVE CanTransitionTo(row[u], row'[u])
  BY <1>2, UpdateCalls DEF ToMatching, Status
<1>3. ASSUME NEW p \in Process, MarkCancelled(p) PROVE CanTransitionTo(row[u], row'[u])
  <2>1. on[p] = u /\ at[p] = "mark" /\ row'[u] = FinalStatus(p)
    BY <1>3, UpdateCalls DEF MarkCancelled, FinalStatus, Status, CancelShape
  <2>. QED BY <2>1 DEF FinalStatus, Untouched
<1>4. CASE AssignDriver
  BY <1>4, UpdateCalls DEF AssignDriver, Status
<1>5. CASE UNCHANGED row
  BY <1>5
<1>. QED
  BY <1>1, <1>2, <1>3, <1>4, <1>5, StepCases
     DEF StartSaga, AuthorizeHold, UndoHold, PublishRequested, PublishMatching,
         AnswerMatch, CompensateHold, PublishCancelled, CancelTrip, ReadStream,
         HandleMessage, PublishAssigned, Hangup, Crash, vars

\* A trip no cancellation named moves along the transition table: see
\* StrictUnlessCancelled.
THEOREM StrictCorrect == Spec => StrictUnlessCancelled
<1>1. TypeInv /\ Track /\ [Next]_vars
      => [\A t \in Trip :
            row[t] # "NONE" /\ row'[t] # row[t] /\ (\A c \in Cancel : on[c] # t)
              => CanTransitionTo(row[t], row'[t])]_vars
  BY StrictStep DEF Strict
<1>. QED BY <1>1, TypeAlways, TrackAlways, PTL DEF Spec, StrictUnlessCancelled

-----------------------------------------------------------------------------
(* The hold of a live trip *)

\* While no call has failed, a trip no cancellation named loses its hold only with a
\* status that ends it: the process about to release has written one, or its client
\* has hung up and the call to the payment service will not be made either.
KeptFor(t) ==
  /\ hold[t] = "released" =>
       /\ row[t] \notin {"MATCHING", "ASSIGNED"}
       /\ at[t] \notin {"authorize", "insert", "requested", "matching", "announce"}
  /\ at[t] = "release" => row[t] = "CANCELLED" \/ ~ alive[t]
  /\ at[Consumer] = "release" /\ on[Consumer] = t => row[t] = "CANCELLED_NO_DRIVER"

Kept == faults = 0 => \A t \in Trip : Untouched(t) => KeptFor(t)

LEMMA KeptStep == TypeInv /\ Track /\ Kept /\ [Next]_vars => Kept'
<1> SUFFICES ASSUME TypeInv, Track, Kept, [Next]_vars, faults' = 0,
                    NEW u \in Trip, Untouched(u)'
             PROVE  KeptFor(u)'
  BY DEF Kept
<1>0. Untouched(u) /\ Tracked(u) /\ faults = 0 /\ KeptFor(u)
  BY UntouchedStep, LimitsGrow DEF Track, Kept
<1> USE <1>0, Processes
<1> USE DEF TypeInv, TypeOK, Shape, SagaShape, ConsumerShape, AnswerShape, Compensating,
            Goto, matchVars, limits, KeptFor
<1>1. ASSUME NEW t \in Trip, StartSaga(t) PROVE KeptFor(u)'
  BY <1>1 DEF StartSaga
<1>2. ASSUME NEW t \in Trip, AuthorizeHold(t) PROVE KeptFor(u)'
  BY <1>2 DEF AuthorizeHold
<1>3. ASSUME NEW t \in Trip, CreateRow(t) PROVE KeptFor(u)'
  BY <1>3 DEF CreateRow
<1>4. ASSUME NEW t \in Trip, UndoHold(t) PROVE KeptFor(u)'
  <2>1. /\ at[t] = "undo" /\ at' = [at EXCEPT ![t] = "failed"] /\ ReleaseHold(t, t)
        /\ UNCHANGED <<row, matchVars, batch, on, alive>>
    BY <1>4 DEF UndoHold
  <2>2. \A v \in Trip \ {t} : hold'[v] = hold[v]
    BY <2>1, ReleaseCalls
  <2>. QED BY <2>1, <2>2 DEF Tracked
<1>5. ASSUME NEW t \in Trip, PublishRequested(t) PROVE KeptFor(u)'
  BY <1>5 DEF PublishRequested
<1>6. ASSUME NEW t \in Trip, ToMatching(t) PROVE KeptFor(u)'
  <2>1. /\ at[t] = "matching" /\ ~ Announced(t)
        /\ UNCHANGED <<hold, events, matchVars, batch, on, alive>>
        /\ \E s \in {"announce", "mark"} : at' = [at EXCEPT ![t] = s]
    BY <1>6 DEF ToMatching
  <2>2. \A v \in Trip \ {t} : row'[v] = row[v]
    BY <1>6, UpdateCalls DEF ToMatching, Status
  <2>. QED BY <2>1, <2>2
<1>7. ASSUME NEW t \in Trip, PublishMatching(t) PROVE KeptFor(u)'
  BY <1>7 DEF PublishMatching
<1>8. ASSUME NEW t \in Trip, AnswerMatch(t) PROVE KeptFor(u)'
  BY <1>8 DEF AnswerMatch
<1>9. ASSUME NEW p \in Process, MarkCancelled(p) PROVE KeptFor(u)'
  <2>1. /\ at[p] = "mark" /\ at' = [at EXCEPT ![p] = "release"] /\ on[p] \in Trip
        /\ UNCHANGED <<hold, events, matchVars, batch, on, alive>>
        /\ UpdateStatus(on[p], FinalStatus(p)) \/ (Fails(p) /\ UNCHANGED row)
    BY <1>9 DEF MarkCancelled, CancelShape
  <2>2. \A v \in Trip \ {on[p]} : row'[v] = row[v]
    BY <2>1, UpdateCalls DEF FinalStatus, Status
  <2>3. CASE on[p] # u
    BY <2>1, <2>2, <2>3
  <2>4. ASSUME p = u \/ p = Consumer
        PROVE  row'[on[p]] = FinalStatus(p) \/ (~ alive[p] /\ UNCHANGED row)
    <3>1. row[on[p]] # "NONE"
      BY <2>1, <2>4
    <3>2. FinalStatus(p) \in Status
      BY DEF FinalStatus, Status
    <3>3. CASE UpdateStatus(on[p], FinalStatus(p))
      BY <2>1, <3>1, <3>2, <3>3, UpdateCalls
    <3>4. CASE Fails(p) /\ UNCHANGED row
      BY <3>4 DEF Fails
    <3>. QED BY <2>1, <3>3, <3>4
  <2>5. CASE p = u
    <3>1. ~ (at[Consumer] = "release" /\ on[Consumer] = u) /\ on[p] = u
      BY <2>1, <2>5
    <3>2. row'[u] = "CANCELLED" \/ (~ alive[u] /\ UNCHANGED row)
      BY <2>4, <2>5, <3>1 DEF FinalStatus
    <3>. QED BY <2>1, <2>5, <3>1, <3>2
  <2>6. CASE p = Consumer /\ on[p] = u
    BY <2>1, <2>4, <2>6 DEF FinalStatus
  <2>. QED BY <2>3, <2>5, <2>6 DEF Untouched
<1>10. ASSUME NEW p \in Process, CompensateHold(p) PROVE KeptFor(u)'
  <2>1. /\ at[p] = "release" /\ at' = [at EXCEPT ![p] = "publish"] /\ on[p] \in Trip
        /\ UNCHANGED <<row, events, matchVars, batch, on, alive>> /\ ReleaseHold(p, on[p])
    BY <1>10 DEF CompensateHold, CancelShape
  <2>2. \A v \in Trip \ {on[p]} : hold'[v] = hold[v]
    BY <2>1, ReleaseCalls
  <2>3. CASE on[p] # u
    BY <2>1, <2>2, <2>3
  <2>4. hold'[on[p]] = hold[on[p]] \/ alive[p]
    BY <2>1 DEF ReleaseHold, Works, Fails, ReplyLost
  <2>5. CASE p = u
    BY <2>1, <2>4, <2>5
  <2>6. CASE p = Consumer /\ on[p] = u
    BY <2>1, <2>6
  <2>. QED BY <2>3, <2>5, <2>6 DEF Untouched
<1>11. ASSUME NEW p \in Process, PublishCancelled(p) PROVE KeptFor(u)'
  BY <1>11 DEF PublishCancelled
<1>12. ASSUME NEW c \in Cancel, NEW t \in Trip, CancelTrip(c, t) PROVE KeptFor(u)'
  BY <1>12 DEF CancelTrip
<1>13. CASE ReadStream
  BY <1>13 DEF ReadStream
<1>14. CASE HandleMessage
  BY <1>14 DEF HandleMessage
<1>15. CASE AssignDriver
  <2>1. /\ at[Consumer] = "assign" /\ on[Consumer] \in Trip
        /\ \E s \in {"assigned", "idle"} : at' = [at EXCEPT ![Consumer] = s]
        /\ UNCHANGED <<hold, events, matchVars, batch, on, alive>>
    BY <1>15 DEF AssignDriver
  <2>2. \A v \in Trip \ {on[Consumer]} : row'[v] = row[v]
    BY <1>15, <2>1, UpdateCalls DEF AssignDriver, Status
  <2>. QED BY <2>1, <2>2 DEF Tracked, Pending
<1>16. CASE PublishAssigned
  BY <1>16 DEF PublishAssigned
<1>17. ASSUME NEW p \in Request, Hangup(p) PROVE KeptFor(u)'
  BY <1>17 DEF Hangup
<1>18. CASE Crash
  BY <1>18 DEF Crash
<1>19. CASE UNCHANGED vars
  BY <1>19 DEF vars
<1>. QED
  BY <1>1, <1>2, <1>3, <1>4, <1>5, <1>6, <1>7, <1>8, <1>9, <1>10, <1>11, <1>12, <1>13,
     <1>14, <1>15, <1>16, <1>17, <1>18, <1>19, StepCases

\* Only cancellations and failed calls take the hold of a live trip: see LiveTripKeepsHold.
THEOREM HoldCorrect == Spec => []LiveTripKeepsHold
<1>1. Init => Kept
  BY Processes DEF Init, Kept, KeptFor
<1>2. TypeInv /\ Kept => LiveTripKeepsHold
  <2> SUFFICES ASSUME TypeInv, Kept, NEW t \in Trip, row[t] \in {"MATCHING", "ASSIGNED"},
                      hold[t] = "released", ~ (faults > 0), Untouched(t)
               PROVE  FALSE
    BY DEF LiveTripKeepsHold, Untouched
  <2>1. faults = 0
    BY TripSagaAssumption DEF TypeInv, TypeOK
  <2>. QED BY <2>1 DEF Kept, KeptFor
<1>. QED BY <1>1, <1>2, TypeAlways, TrackAlways, KeptStep, PTL DEF Spec

-----------------------------------------------------------------------------
(* Create requests that fail *)

\* A saga that turns back has met a failed call: with no more than one, every step
\* of its way back works.
UndoneFor(t) ==
  /\ at[t] \in {"undo", "mark", "release"} => faults = 1
  /\ at[t] = "undo" => row[t] = "NONE"
  /\ at[t] \in {"release", "publish"} => row[t] = "CANCELLED"
  /\ at[t] = "publish" => hold[t] # "held"
  /\ at[t] = "failed" => row[t] \in {"NONE", "CANCELLED"} /\ hold[t] # "held"

OneFailure == faults <= 1 /\ lost = 0 /\ hangups = 0
Undone == OneFailure => \A t \in Trip : UndoneFor(t)

\* Contexts are cancelled by disconnects only.
Connected == hangups = 0 => \A p \in Process : alive[p]

LEMMA ConnectedStep == TypeInv /\ Connected /\ [Next]_vars => Connected'
<1> SUFFICES ASSUME TypeInv, Connected, [Next]_vars PROVE Connected'
  OBVIOUS
<1>1. ASSUME NEW p \in Request, Hangup(p) PROVE Connected'
  BY <1>1 DEF Hangup, Connected, TypeInv, TypeOK
<1>2. CASE UNCHANGED <<alive, hangups>>
  BY <1>2 DEF Connected
<1>. QED
  BY <1>1, <1>2, StepCases
     DEF StartSaga, AuthorizeHold, CreateRow, UndoHold, PublishRequested, ToMatching,
         PublishMatching, AnswerMatch, MarkCancelled, CompensateHold, PublishCancelled,
         CancelTrip, ReadStream, HandleMessage, AssignDriver, PublishAssigned, Crash,
         vars, limits

LEMMA OneFailureBefore ==
  ASSUME TypeInv, [Next]_vars, OneFailure'
  PROVE  OneFailure /\ UNCHANGED <<lost, hangups>>
BY LimitsGrow DEF OneFailure

\* What a call can do while no reply is lost and everyone is connected.
LEMMA OneFailureCalls ==
  ASSUME TypeOK, NEW p \in Process, alive[p], lost = 0, lost' = 0
  PROVE  ~ ReplyLost(p) /\ (Fails(p) => faults' = faults + 1) /\ (Works(p) => UNCHANGED faults)
BY DEF TypeOK, ReplyLost, Fails, Works

LEMMA UndoneStep == TypeInv /\ Connected /\ Undone /\ [Next]_vars => Undone'
<1> SUFFICES ASSUME TypeInv, Connected, Undone, [Next]_vars, OneFailure', NEW u \in Trip
             PROVE  UndoneFor(u)'
  BY DEF Undone
<1>0. /\ OneFailure /\ UndoneFor(u) /\ lost = 0 /\ lost' = 0
      /\ faults \in {0, 1} /\ faults' \in {0, 1} /\ faults <= faults'
      /\ \A p \in Process : alive[p]
  BY OneFailureBefore, LimitsGrow DEF Undone, OneFailure, Connected
<1> USE <1>0, Processes
<1> USE DEF TypeInv, TypeOK, Shape, SagaShape, Goto, matchVars, limits, Compensating,
            UndoneFor
<1>1. ASSUME NEW t \in Trip, StartSaga(t) PROVE UndoneFor(u)'
  BY <1>1 DEF StartSaga
<1>2. ASSUME NEW t \in Trip, AuthorizeHold(t) PROVE UndoneFor(u)'
  <2>1. /\ at[t] = "authorize" /\ at' = [at EXCEPT ![t] = "insert"] /\ UNCHANGED row
        /\ \A v \in Trip \ {t} : hold'[v] = hold[v]
    BY <1>2 DEF AuthorizeHold
  <2>. QED BY <2>1
<1>3. ASSUME NEW t \in Trip, CreateRow(t) PROVE UndoneFor(u)'
  BY <1>3, OneFailureCalls DEF CreateRow
<1>4. ASSUME NEW t \in Trip, UndoHold(t) PROVE UndoneFor(u)'
  <2>1. /\ at[t] = "undo" /\ at' = [at EXCEPT ![t] = "failed"] /\ ReleaseHold(t, t)
        /\ UNCHANGED row
    BY <1>4 DEF UndoHold
  <2>2. \A v \in Trip \ {t} : hold'[v] = hold[v]
    BY <2>1, ReleaseCalls
  <2>3. CASE u = t
    <3>1. ~ Fails(t)
      BY <2>1, <2>3, OneFailureCalls
    <3>. QED BY <2>1, <2>3, <3>1, ReleaseCalls
  <2>. QED BY <2>1, <2>2, <2>3
<1>5. ASSUME NEW t \in Trip, PublishRequested(t) PROVE UndoneFor(u)'
  BY <1>5 DEF PublishRequested
<1>6. ASSUME NEW t \in Trip, ToMatching(t) PROVE UndoneFor(u)'
  <2>1. /\ at[t] = "matching" /\ UNCHANGED hold
        /\ \/ at' = [at EXCEPT ![t] = "announce"]
           \/ at' = [at EXCEPT ![t] = "mark"] /\ Fails(t)
    BY <1>6, OneFailureCalls DEF ToMatching
  <2>2. \A v \in Trip \ {t} : row'[v] = row[v]
    BY <1>6, UpdateCalls DEF ToMatching, Status
  <2>. QED BY <2>1, <2>2, OneFailureCalls
<1>7. ASSUME NEW t \in Trip, PublishMatching(t) PROVE UndoneFor(u)'
  BY <1>7 DEF PublishMatching
<1>8. ASSUME NEW t \in Trip, AnswerMatch(t) PROVE UndoneFor(u)'
  BY <1>8 DEF AnswerMatch
<1>9. ASSUME NEW p \in Process, MarkCancelled(p) PROVE UndoneFor(u)'
  <2>1. /\ at[p] = "mark" /\ at' = [at EXCEPT ![p] = "release"] /\ on[p] \in Trip
        /\ UNCHANGED hold
        /\ UpdateStatus(on[p], FinalStatus(p)) \/ (Fails(p) /\ UNCHANGED row)
    BY <1>9 DEF MarkCancelled, CancelShape, ConsumerShape
  <2>2. FinalStatus(p) \in Status
    BY DEF FinalStatus, Status
  <2>3. \A v \in Trip \ {on[p]} : row'[v] = row[v]
    BY <2>1, <2>2, UpdateCalls
  <2>4. CASE on[p] # u
    BY <2>1, <2>3, <2>4
  <2>5. CASE p = u
    <3>1. ~ Fails(p) /\ row[u] # "NONE" /\ on[p] = u
      BY <2>1, <2>5, OneFailureCalls
    <3>2. row'[u] = "CANCELLED"
      BY <2>1, <2>2, <2>5, <3>1, UpdateCalls DEF FinalStatus
    <3>. QED BY <2>1, <2>5, <3>2
  <2>6. CASE p \in Cancel /\ on[p] = u
    <3>1. row'[u] \in {row[u], "CANCELLED"} /\ (row[u] = "NONE" => row'[u] = "NONE")
      BY <2>1, <2>2, <2>6, UpdateCalls DEF FinalStatus
    <3>. QED BY <2>1, <2>6, <3>1
  <2>7. CASE p = Consumer /\ on[p] = u
    <3>1. at[u] = "done"
      BY <2>1, <2>7 DEF ConsumerShape, AnswerShape
    <3>. QED BY <2>1, <2>7, <3>1
  <2>. QED BY <2>4, <2>5, <2>6, <2>7
<1>10. ASSUME NEW p \in Process, CompensateHold(p) PROVE UndoneFor(u)'
  <2>1. /\ at[p] = "release" /\ at' = [at EXCEPT ![p] = "publish"] /\ on[p] \in Trip
        /\ UNCHANGED row /\ ReleaseHold(p, on[p])
    BY <1>10 DEF CompensateHold, CancelShape, ConsumerShape
  <2>2. \A v \in Trip : hold'[v] = hold[v] \/ hold'[v] = "released"
    BY <2>1, ReleaseCalls
  <2>3. CASE p # u
    BY <2>1, <2>2, <2>3
  <2>4. CASE p = u
    <3>1. ~ Fails(p)
      BY <2>1, <2>4, OneFailureCalls
    <3>. QED BY <2>1, <2>4, <3>1, ReleaseCalls
  <2>. QED BY <2>3, <2>4
<1>11. ASSUME NEW p \in Process, PublishCancelled(p) PROVE UndoneFor(u)'
  BY <1>11 DEF PublishCancelled
<1>12. ASSUME NEW c \in Cancel, NEW t \in Trip, CancelTrip(c, t) PROVE UndoneFor(u)'
  BY <1>12 DEF CancelTrip
<1>13. CASE ReadStream
  BY <1>13 DEF ReadStream
<1>14. CASE HandleMessage
  BY <1>14 DEF HandleMessage
<1>15. CASE AssignDriver
  <2>1. /\ at[Consumer] = "assign" /\ on[Consumer] \in Trip /\ UNCHANGED hold
        /\ \E s \in {"assigned", "idle"} : at' = [at EXCEPT ![Consumer] = s]
        /\ at[on[Consumer]] = "done"
    BY <1>15 DEF AssignDriver, ConsumerShape, AnswerShape
  <2>2. \A v \in Trip \ {on[Consumer]} : row'[v] = row[v]
    BY <1>15, <2>1, UpdateCalls DEF AssignDriver, Status
  <2>. QED BY <2>1, <2>2
<1>16. CASE PublishAssigned
  BY <1>16 DEF PublishAssigned
<1>17. ASSUME NEW p \in Request, Hangup(p) PROVE UndoneFor(u)'
  BY <1>17 DEF Hangup
<1>18. CASE Crash
  BY <1>18 DEF Crash, Working
<1>19. CASE UNCHANGED vars
  BY <1>19 DEF vars
<1>. QED
  BY <1>1, <1>2, <1>3, <1>4, <1>5, <1>6, <1>7, <1>8, <1>9, <1>10, <1>11, <1>12, <1>13,
     <1>14, <1>15, <1>16, <1>17, <1>18, <1>19, StepCases

\* One failed call without effect leaves a create request that can return its error
\* with nothing behind it: see FailedCreateLeavesNothing.
THEOREM FailedCreateCorrect == Spec => []FailedCreateLeavesNothing
<1>1. Init => Connected /\ Undone
  BY Processes DEF Init, Connected, Undone, UndoneFor
<1>2. Undone => FailedCreateLeavesNothing
  BY DEF Undone, OneFailure, UndoneFor, FailedCreateLeavesNothing
<1>. QED BY <1>1, <1>2, TypeAlways, ConnectedStep, UndoneStep, PTL DEF Spec

-----------------------------------------------------------------------------
(* Counting what failures leave behind *)

LEMMA Counting ==
  ASSUME NEW S, NEW T, IsFiniteSet(S), NEW a \in Nat, NEW b \in Nat, Cardinality(S) <= a,
         \/ T \subseteq S /\ a <= b
         \/ (\E x : T \subseteq S \cup {x}) /\ a + 1 <= b
  PROVE  Cardinality(T) <= b
<1>1. Cardinality(S) \in Nat
  BY FS_CardinalityType
<1>2. CASE T \subseteq S /\ a <= b
  <2>1. Cardinality(T) \in Nat /\ Cardinality(T) <= Cardinality(S)
    BY <1>2, FS_Subset, FS_CardinalityType
  <2>. QED BY <1>1, <1>2, <2>1
<1>3. ASSUME NEW x, T \subseteq S \cup {x}, a + 1 <= b
      PROVE  Cardinality(T) <= b
  <2>1. IsFiniteSet(S \cup {x})
        /\ (Cardinality(S \cup {x}) = Cardinality(S)
             \/ Cardinality(S \cup {x}) = Cardinality(S) + 1)
    BY FS_AddElement
  <2>2. Cardinality(T) \in Nat /\ Cardinality(T) <= Cardinality(S \cup {x})
    BY <1>3, <2>1, FS_Subset, FS_CardinalityType
  <2>. QED BY <1>1, <1>3, <2>1, <2>2
<1>. QED BY <1>2, <1>3

-----------------------------------------------------------------------------
(* Leaked holds *)

\* A request for the trip has lost its client.
HungUp(t) == \E p \in Request : ~ alive[p] /\ on[p] = t

\* A hold counts as soon as a client has hung up on its trip: the release that will
\* not be made is still to come.
MayLeak == LeakedHolds \cup {t \in Trip : HungUp(t)}

LeakBudget == faults + hangups
LeaksPaid == crashes = 0 => Cardinality(MayLeak) <= LeakBudget

LEMMA LeaksFinite ==
  IsFiniteSet(MayLeak) /\ IsFiniteSet(LeakedHolds) /\ IsFiniteSet(Trip)
BY FS_Subset, TripSagaAssumption DEF MayLeak, LeakedHolds

LEMMA LeakCost ==
  ASSUME TypeInv, [Next]_vars
  PROVE  /\ LeakBudget \in Nat /\ LeakBudget' \in Nat /\ LeakBudget <= LeakBudget'
         /\ faults' = faults + 1 \/ hangups' = hangups + 1 => LeakBudget + 1 <= LeakBudget'
<1> DEFINE f == faults   h == hangups   f1 == faults'   h1 == hangups'
<1>1. f \in Nat /\ h \in Nat /\ f1 \in Nat /\ h1 \in Nat /\ f <= f1 /\ h <= h1
  BY LimitsGrow
<1>2. LeakBudget = f + h /\ LeakBudget' = f1 + h1
  BY DEF LeakBudget
<1> SUFFICES /\ LeakBudget \in Nat /\ LeakBudget' \in Nat /\ LeakBudget <= LeakBudget'
             /\ f1 = f + 1 \/ h1 = h + 1 => LeakBudget + 1 <= LeakBudget'
  OBVIOUS
<1> HIDE DEF f, h, f1, h1
<1>. QED BY <1>1, <1>2

\* A step that cancels no trip with a hold, leaves nobody's release and hangs up on
\* nobody.
LEMMA LeakFrame ==
  ASSUME TypeInv,
         \A p \in Process : at[p] = "release" => at'[p] = "release" /\ on'[p] = on[p],
         \A t \in Trip : row'[t] \in Cancelled /\ hold'[t] = "held"
                           => row[t] \in Cancelled /\ hold[t] = "held",
         \A p \in Request : ~ alive'[p] => ~ alive[p] /\ on'[p] = on[p]
  PROVE  MayLeak' \subseteq MayLeak
<1>1. \A t \in Trip : HungUp(t)' => HungUp(t)
  BY DEF HungUp
<1>2. \A t \in Trip : Busy(t, {"release"}) => Busy(t, {"release"})'
  BY DEF Busy
<1>. QED BY <1>1, <1>2 DEF MayLeak, LeakedHolds

LEMMA LeakSteps ==
  ASSUME TypeInv, [Next]_vars, ~ Crash
  PROVE  \/ MayLeak' \subseteq MayLeak
         \/ /\ faults' = faults + 1 \/ hangups' = hangups + 1
            /\ \E t : MayLeak' \subseteq MayLeak \cup {t}
<1> DEFINE Free == MayLeak' \subseteq MayLeak
           Cost == /\ faults' = faults + 1 \/ hangups' = hangups + 1
                   /\ \E t : MayLeak' \subseteq MayLeak \cup {t}
<1> SUFFICES Free \/ Cost
  OBVIOUS
<1> HIDE DEF Free
<1> USE Processes
<1> USE DEF TypeInv, TypeOK, Shape, SagaShape, Goto, Cancelled
<1>1. ASSUME NEW t \in Trip, StartSaga(t) PROVE Free
  BY <1>1, LeakFrame DEF StartSaga, Free
<1>2. ASSUME NEW t \in Trip, AuthorizeHold(t) PROVE Free
  BY <1>2, LeakFrame DEF AuthorizeHold, Free
<1>3. ASSUME NEW t \in Trip, CreateRow(t) PROVE Free
  BY <1>3, LeakFrame DEF CreateRow, Free
<1>4. ASSUME NEW t \in Trip, UndoHold(t) PROVE Free
  BY <1>4, LeakFrame, ReleaseCalls DEF UndoHold, Free
<1>5. ASSUME NEW t \in Trip, PublishRequested(t) PROVE Free
  BY <1>5, LeakFrame DEF PublishRequested, Free
<1>6. ASSUME NEW t \in Trip, ToMatching(t) PROVE Free
  BY <1>6, LeakFrame DEF ToMatching, UpdateStatus, Free
<1>7. ASSUME NEW t \in Trip, PublishMatching(t) PROVE Free
  BY <1>7, LeakFrame DEF PublishMatching, Free
<1>8. ASSUME NEW t \in Trip, AnswerMatch(t) PROVE Free
  BY <1>8, LeakFrame DEF AnswerMatch, Free
<1>9. ASSUME NEW p \in Process, MarkCancelled(p) PROVE Free
  <2>1. /\ at[p] = "mark" /\ at' = [at EXCEPT ![p] = "release"] /\ on[p] \in Trip
        /\ UNCHANGED <<hold, on, alive>>
    BY <1>9 DEF MarkCancelled, CancelShape, ConsumerShape, Compensating
  <2>2. \A v \in Trip \ {on[p]} : row'[v] = row[v]
    BY <1>9, <2>1, UpdateCalls DEF MarkCancelled, FinalStatus, Status
  <2>3. Busy(on[p], {"release"})'
    BY <2>1 DEF Busy
  <2>4. \A t : Busy(t, {"release"}) => Busy(t, {"release"})'
    BY <2>1 DEF Busy
  <2>5. \A t : HungUp(t)' => HungUp(t)
    BY <2>1 DEF HungUp
  <2>. QED BY <2>1, <2>2, <2>3, <2>4, <2>5 DEF MayLeak, LeakedHolds, Free
<1>10. ASSUME NEW p \in Process, CompensateHold(p) PROVE Free \/ Cost
  <2>1. /\ at[p] = "release" /\ at' = [at EXCEPT ![p] = "publish"] /\ on[p] \in Trip
        /\ UNCHANGED <<row, on, alive>> /\ ReleaseHold(p, on[p])
    BY <1>10 DEF CompensateHold, CancelShape, ConsumerShape, Compensating
  <2>2. /\ \A v \in Trip : hold'[v] = "held" => hold[v] = "held"
        /\ hold'[on[p]] = "held" => Fails(p)
    BY <2>1, ReleaseCalls
  <2>3. \A t \in Trip \ {on[p]} : Busy(t, {"release"}) => Busy(t, {"release"})'
    BY <2>1 DEF Busy
  <2>4. \A t : HungUp(t)' => HungUp(t)
    BY <2>1 DEF HungUp
  <2>5. MayLeak' \subseteq MayLeak \cup {on[p]}
    BY <2>1, <2>2, <2>3, <2>4 DEF MayLeak, LeakedHolds
  <2>6. CASE hold'[on[p]] # "held"
    BY <2>4, <2>5, <2>6 DEF MayLeak, LeakedHolds, Free
  <2>7. CASE Fails(p) /\ alive[p]
    BY <2>5, <2>7 DEF Fails
  <2>8. CASE ~ alive[p]
    <3>1. on[p] \in MayLeak
      BY <2>1, <2>8 DEF MayLeak, HungUp, ConsumerShape, Process, Request
    <3>. QED BY <2>5, <3>1 DEF Free
  <2>. QED BY <2>2, <2>6, <2>7, <2>8
<1>11. ASSUME NEW p \in Process, PublishCancelled(p) PROVE Free
  BY <1>11, LeakFrame DEF PublishCancelled, Free
<1>12. ASSUME NEW c \in Cancel, NEW t \in Trip, CancelTrip(c, t) PROVE Free
  BY <1>12, LeakFrame DEF CancelTrip, CancelShape, Free
<1>13. CASE ReadStream
  BY <1>13, LeakFrame DEF ReadStream, Free
<1>14. CASE HandleMessage
  BY <1>14, LeakFrame DEF HandleMessage, Free
<1>15. CASE AssignDriver
  BY <1>15, LeakFrame DEF AssignDriver, UpdateStatus, ConsumerShape, Free
<1>16. CASE PublishAssigned
  BY <1>16, LeakFrame DEF PublishAssigned, Free
<1>17. ASSUME NEW p \in Request, Hangup(p) PROVE Cost
  <2>1. UNCHANGED <<row, hold, at, on>> /\ hangups' = hangups + 1
        /\ alive' = [alive EXCEPT ![p] = FALSE]
    BY <1>17 DEF Hangup
  <2>2. \A t : HungUp(t)' => HungUp(t) \/ t = on[p]
    BY <2>1 DEF HungUp
  <2>3. MayLeak' \subseteq MayLeak \cup {on[p]}
    BY <2>1, <2>2 DEF MayLeak, LeakedHolds, Busy
  <2>. QED BY <2>1, <2>3
<1>18. CASE UNCHANGED vars
  BY <1>18, LeakFrame DEF vars, Free
<1>. QED
  BY <1>1, <1>2, <1>3, <1>4, <1>5, <1>6, <1>7, <1>8, <1>9, <1>10, <1>11, <1>12, <1>13,
     <1>14, <1>15, <1>16, <1>17, <1>18, StepCases

LEMMA LeaksPaidStep == TypeInv /\ LeaksPaid /\ [Next]_vars => LeaksPaid'
<1> SUFFICES ASSUME TypeInv, LeaksPaid, [Next]_vars, crashes' = 0
             PROVE  Cardinality(MayLeak') <= LeakBudget'
  BY DEF LeaksPaid
<1>1. crashes = 0 /\ ~ Crash
  BY LimitsGrow
<1>2. Cardinality(MayLeak) <= LeakBudget
  BY <1>1 DEF LeaksPaid
<1>. QED BY <1>1, <1>2, LeakSteps, LeakCost, LeaksFinite, Counting

\* A cancelled trip whose hold stays has cost a failed call, a disconnect or a crash:
\* see LeaksAccounted.
THEOREM LeaksCorrect == Spec => []LeaksAccounted
<1>1. Init => LeaksPaid
  <2> SUFFICES ASSUME Init PROVE LeaksPaid
    OBVIOUS
  <2>1. MayLeak = {} /\ Cardinality({}) = 0 /\ LeakBudget = 0
    BY Processes, FS_EmptySet DEF Init, MayLeak, LeakedHolds, HungUp, Cancelled, LeakBudget
  <2>. QED BY <2>1 DEF LeaksPaid
<1>2. TypeInv /\ LeaksPaid => LeaksAccounted
  <2> SUFFICES ASSUME TypeInv, LeaksPaid PROVE LeaksAccounted
    OBVIOUS
  <2> DEFINE a == Cardinality(LeakedHolds)   n == Cardinality(Trip)
  <2>1. a \in Nat /\ n \in Nat /\ a <= n
    BY LeaksFinite, FS_Subset, FS_CardinalityType DEF LeakedHolds
  <2>2. faults \in Nat /\ hangups \in Nat /\ crashes \in Nat
    BY TripSagaAssumption DEF TypeInv, TypeOK
  <2>3. crashes = 0 => a <= faults + hangups
    <3>1. a <= Cardinality(MayLeak) /\ Cardinality(MayLeak) \in Nat
      BY LeaksFinite, FS_Subset, FS_CardinalityType DEF MayLeak
    <3>. QED BY <2>1, <2>2, <3>1 DEF LeaksPaid, LeakBudget
  <2> SUFFICES a <= faults + hangups + n * crashes
    BY DEF LeaksAccounted
  <2> HIDE DEF a, n
  <2>4. CASE crashes = 0
    BY <2>1, <2>2, <2>3, <2>4
  <2>5. CASE crashes # 0
    <3>1. n * crashes \in Nat /\ n <= n * crashes
      BY <2>1, <2>2, <2>5
    <3>. QED BY <2>1, <2>2, <3>1
  <2>. QED BY <2>4, <2>5
<1>. QED BY <1>1, <1>2, TypeAlways, LeaksPaidStep, PTL DEF Spec

-----------------------------------------------------------------------------
(* Statuses without an event *)

\* Process p is about to publish the status trip t has.
Promise(p, t) ==
  /\ on[p] = t
  /\ \/ at[p] = "requested" /\ row[t] = "REQUESTED"
     \/ at[p] = "announce" /\ row[t] = "MATCHING"
     \/ at[p] = "assigned" /\ row[t] = "ASSIGNED"
     \/ at[p] \in {"release", "publish"} /\ row[t] = FinalStatus(p)

Told(t) == \/ row[t] = "NONE"
           \/ [trip |-> t, status |-> row[t]] \in events
           \/ \E p \in Process : Promise(p, t)

\* A process that works on the trip is not enough: what it is about to publish may be
\* another status than the one the row has got since.
MayStaySilent == {t \in Trip : ~ Told(t) \/ HungUp(t)}

SilenceBudget == faults + lost + hangups
SilencePaid == crashes = 0 => Cardinality(MayStaySilent) <= SilenceBudget

LEMMA SilenceFinite ==
  IsFiniteSet(MayStaySilent) /\ IsFiniteSet(Untold) /\ IsFiniteSet(Trip)
BY FS_Subset, TripSagaAssumption DEF MayStaySilent, Untold

LEMMA SilenceCost ==
  ASSUME TypeInv, [Next]_vars
  PROVE  /\ SilenceBudget \in Nat /\ SilenceBudget' \in Nat
         /\ SilenceBudget <= SilenceBudget'
         /\ faults' = faults + 1 \/ lost' = lost + 1 \/ hangups' = hangups + 1
              => SilenceBudget + 1 <= SilenceBudget'
<1> DEFINE f == faults   l == lost   h == hangups
           f1 == faults'   l1 == lost'   h1 == hangups'
<1>1. /\ f \in Nat /\ l \in Nat /\ h \in Nat /\ f1 \in Nat /\ l1 \in Nat /\ h1 \in Nat
      /\ f <= f1 /\ l <= l1 /\ h <= h1
  BY LimitsGrow
<1>2. SilenceBudget = f + l + h /\ SilenceBudget' = f1 + l1 + h1
  BY DEF SilenceBudget
<1> SUFFICES /\ SilenceBudget \in Nat /\ SilenceBudget' \in Nat
             /\ SilenceBudget <= SilenceBudget'
             /\ f1 = f + 1 \/ l1 = l + 1 \/ h1 = h + 1
                  => SilenceBudget + 1 <= SilenceBudget'
  OBVIOUS
<1> HIDE DEF f, l, h, f1, l1, h1
<1>. QED BY <1>1, <1>2

\* What a step costs that may leave something untold.
Silences ==
  /\ faults' = faults + 1 \/ lost' = lost + 1 \/ hangups' = hangups + 1
  /\ \E t : MayStaySilent' \subseteq MayStaySilent \cup {t}

\* A step that writes no row and keeps every promise.
LEMMA SilenceFrame ==
  ASSUME UNCHANGED row, events \subseteq events',
         \A p \in Process, t \in Trip : Promise(p, t) =>
           /\ on'[p] = on[p]
           /\ at'[p] = at[p] \/ (at[p] = "release" /\ at'[p] = "publish"),
         \A p \in Request : ~ alive'[p] => ~ alive[p] /\ on'[p] = on[p]
  PROVE  MayStaySilent' \subseteq MayStaySilent
<1>1. \A t \in Trip : HungUp(t)' => HungUp(t)
  BY DEF HungUp
<1>2. \A t \in Trip : Told(t) => Told(t)'
  BY DEF Told, Promise, FinalStatus
<1>. QED BY <1>1, <1>2 DEF MayStaySilent

\* A step that publishes the only status it has promised.
LEMMA SilencePublish ==
  ASSUME TypeInv, NEW p \in Process, NEW s, on[p] \in Trip,
         PublishTripEvent(p, on[p], s), Promise(p, on[p]) => row[on[p]] = s,
         UNCHANGED <<row, on, alive>>,
         \A q \in Process \ {p} : at'[q] = at[q]
  PROVE  MayStaySilent' \subseteq MayStaySilent \/ Silences
<1>1. \A t : HungUp(t)' <=> HungUp(t)
  BY DEF HungUp
<1>2. \A q \in Process \ {p} : \A t : Promise(q, t) => Promise(q, t)'
  BY DEF Promise, FinalStatus
<1>3. events \subseteq events'
  BY Publishing
<1>4. \A t \in Trip \ {on[p]} : Told(t) => Told(t)'
  <2> SUFFICES ASSUME NEW t \in Trip \ {on[p]}, Told(t) PROVE Told(t)'
    OBVIOUS
  <2>1. CASE row[t] = "NONE" \/ [trip |-> t, status |-> row[t]] \in events
    BY <1>3, <2>1 DEF Told
  <2>2. ASSUME NEW q \in Process, Promise(q, t) PROVE Told(t)'
    <3>1. q # p
      BY <2>2 DEF Promise
    <3>. QED BY <1>2, <2>2, <3>1 DEF Told
  <2>. QED BY <2>1, <2>2 DEF Told
<1>5. MayStaySilent' \subseteq MayStaySilent \cup {on[p]}
  BY <1>1, <1>4 DEF MayStaySilent
<1>6. CASE [trip |-> on[p], status |-> s] \in events'
  <2>1. Told(on[p]) => Told(on[p])'
    <3>1. CASE Promise(p, on[p])
      BY <1>6, <3>1 DEF Told
    <3>2. CASE row[on[p]] = "NONE" \/ [trip |-> on[p], status |-> row[on[p]]] \in events
      BY <1>3, <3>2 DEF Told
    <3>3. ASSUME NEW q \in Process \ {p}, Promise(q, on[p]) PROVE Told(on[p])'
      BY <1>2, <3>3 DEF Told
    <3>. QED BY <3>1, <3>2, <3>3 DEF Told
  <2>. QED BY <1>1, <1>5, <2>1 DEF MayStaySilent
<1>7. CASE Fails(p) /\ alive[p]
  BY <1>5, <1>7 DEF Fails, Silences
<1>8. CASE ~ alive[p]
  <2>1. on[p] \in MayStaySilent
    BY <1>8 DEF MayStaySilent, HungUp, TypeInv, Shape, ConsumerShape, Process, Request
  <2>. QED BY <1>5, <2>1
<1>. QED BY <1>6, <1>7, <1>8 DEF PublishTripEvent

\* A step that writes the status of the trip it works on and has promised nothing yet.
LEMMA SilenceWrite ==
  ASSUME TypeInv, NEW p \in Process, on[p] \in Trip,
         at[p] \in {"insert", "matching", "mark", "assign"},
         UNCHANGED <<events, on, alive>>,
         \A t \in Trip \ {on[p]} : row'[t] = row[t],
         \A q \in Process \ {p} : at'[q] = at[q]
  PROVE  /\ MayStaySilent' \subseteq MayStaySilent \cup {on[p]}
         /\ row'[on[p]] = row[on[p]] \/ Promise(p, on[p])'
              => MayStaySilent' \subseteq MayStaySilent
<1>1. \A t : HungUp(t)' <=> HungUp(t)
  BY DEF HungUp
<1>2. \A t : ~ Promise(p, t)
  BY DEF Promise
<1>3. \A q \in Process \ {p}, t \in Trip :
        row'[t] = row[t] => (Promise(q, t) => Promise(q, t)')
  BY DEF Promise, FinalStatus
<1>4. \A t \in Trip : row'[t] = row[t] => (Told(t) => Told(t)')
  BY <1>2, <1>3 DEF Told
<1>5. MayStaySilent' \subseteq MayStaySilent \cup {on[p]}
  BY <1>1, <1>4 DEF MayStaySilent
<1>6. Promise(p, on[p])' => Told(on[p])'
  BY DEF Told, Promise
<1>. QED BY <1>1, <1>4, <1>5, <1>6 DEF MayStaySilent

LEMMA SilenceSteps ==
  ASSUME TypeInv, [Next]_vars, ~ Crash
  PROVE  MayStaySilent' \subseteq MayStaySilent \/ Silences
<1> DEFINE Free == MayStaySilent' \subseteq MayStaySilent
<1> SUFFICES Free \/ Silences
  OBVIOUS
<1> USE Processes
<1> HIDE DEF Free
<1> USE DEF TypeInv, TypeOK, Shape, SagaShape, Goto
<1>1. ASSUME NEW t \in Trip, StartSaga(t) PROVE Free
  BY <1>1, SilenceFrame DEF StartSaga, Promise, Free
<1>2. ASSUME NEW t \in Trip, AuthorizeHold(t) PROVE Free
  BY <1>2, SilenceFrame DEF AuthorizeHold, Promise, Free
<1>3. ASSUME NEW t \in Trip, CreateRow(t) PROVE Free \/ Silences
  <2>1. /\ on[t] = t /\ at[t] = "insert" /\ UNCHANGED <<events, on, alive>>
        /\ \A u \in Trip \ {t} : row'[u] = row[u]
        /\ \A q \in Process \ {t} : at'[q] = at[q]
        /\ \/ row'[t] = "REQUESTED" /\ at'[t] = "requested"
           \/ lost' = lost + 1
           \/ row'[t] = row[t]
    BY <1>3 DEF CreateRow, ReplyLost
  <2>2. row'[t] = "REQUESTED" /\ at'[t] = "requested" => Promise(t, t)'
    BY <2>1 DEF Promise
  <2>3. /\ MayStaySilent' \subseteq MayStaySilent \cup {t}
        /\ row'[t] = row[t] \/ Promise(t, t)' => MayStaySilent' \subseteq MayStaySilent
    BY <2>1, <2>2, SilenceWrite
  <2>. QED BY <2>1, <2>2, <2>3 DEF Silences, Free
<1>4. ASSUME NEW t \in Trip, UndoHold(t) PROVE Free
  BY <1>4, SilenceFrame DEF UndoHold, Promise, Free
<1>5. ASSUME NEW t \in Trip, PublishRequested(t) PROVE Free \/ Silences
  <2>1. /\ on[t] = t /\ at[t] = "requested" /\ UNCHANGED <<row, on, alive>>
        /\ PublishTripEvent(t, t, "REQUESTED")
        /\ \A q \in Process \ {t} : at'[q] = at[q]
    BY <1>5 DEF PublishRequested
  <2>2. Promise(t, t) => row[t] = "REQUESTED"
    BY <2>1 DEF Promise
  <2>. QED BY <2>1, <2>2, SilencePublish DEF Free
<1>6. ASSUME NEW t \in Trip, ToMatching(t) PROVE Free \/ Silences
  <2>1. /\ on[t] = t /\ at[t] = "matching" /\ UNCHANGED <<events, on, alive>>
        /\ \A q \in Process \ {t} : at'[q] = at[q]
        /\ \/ UpdateStatus(t, "MATCHING") /\ at'[t] = "announce"
           \/ UpdateStatus(t, "MATCHING") /\ lost' = lost + 1
           \/ UNCHANGED row
    BY <1>6 DEF ToMatching, ReplyLost
  <2>2. /\ \A u \in Trip \ {t} : row'[u] = row[u]
        /\ \/ row'[t] = "MATCHING" /\ at'[t] = "announce"
           \/ lost' = lost + 1
           \/ row'[t] = row[t]
    BY <2>1, UpdateCalls DEF Status
  <2>3. row'[t] = "MATCHING" /\ at'[t] = "announce" => Promise(t, t)'
    BY <2>1 DEF Promise
  <2>4. /\ MayStaySilent' \subseteq MayStaySilent \cup {t}
        /\ row'[t] = row[t] \/ Promise(t, t)' => MayStaySilent' \subseteq MayStaySilent
    BY <2>1, <2>2, SilenceWrite
  <2>. QED BY <2>1, <2>2, <2>3, <2>4 DEF Silences, Free
<1>7. ASSUME NEW t \in Trip, PublishMatching(t) PROVE Free \/ Silences
  <2>1. /\ on[t] = t /\ at[t] = "announce" /\ UNCHANGED <<row, on, alive>>
        /\ PublishTripEvent(t, t, "MATCHING")
        /\ \A q \in Process \ {t} : at'[q] = at[q]
    BY <1>7 DEF PublishMatching
  <2>2. Promise(t, t) => row[t] = "MATCHING"
    BY <2>1 DEF Promise
  <2>. QED BY <2>1, <2>2, SilencePublish DEF Free
<1>8. ASSUME NEW t \in Trip, AnswerMatch(t) PROVE Free
  BY <1>8, SilenceFrame DEF AnswerMatch, Free
<1>9. ASSUME NEW p \in Process, MarkCancelled(p) PROVE Free
  <2>1. /\ at[p] = "mark" /\ at'[p] = "release" /\ on[p] \in Trip
        /\ UNCHANGED <<events, on, alive>>
        /\ \A q \in Process \ {p} : at'[q] = at[q]
    BY <1>9 DEF MarkCancelled, CancelShape, ConsumerShape, Compensating
  <2>2. /\ \A t \in Trip \ {on[p]} : row'[t] = row[t]
        /\ row'[on[p]] \in {row[on[p]], FinalStatus(p)}
    BY <1>9, <2>1, UpdateCalls DEF MarkCancelled, FinalStatus, Status
  <2>3. row'[on[p]] = FinalStatus(p) => Promise(p, on[p])'
    BY <2>1 DEF Promise, FinalStatus
  <2>. QED BY <2>1, <2>2, <2>3, SilenceWrite DEF Free
<1>10. ASSUME NEW p \in Process, CompensateHold(p) PROVE Free
  BY <1>10, SilenceFrame DEF CompensateHold, Free
<1>11. ASSUME NEW p \in Process, PublishCancelled(p) PROVE Free \/ Silences
  <2>1. /\ at[p] = "publish" /\ on[p] \in Trip /\ UNCHANGED <<row, on, alive>>
        /\ PublishTripEvent(p, on[p], FinalStatus(p))
        /\ \A q \in Process \ {p} : at'[q] = at[q]
    BY <1>11 DEF PublishCancelled, CancelShape, ConsumerShape, Compensating
  <2>2. Promise(p, on[p]) => row[on[p]] = FinalStatus(p)
    BY <2>1 DEF Promise
  <2>. QED BY <2>1, <2>2, SilencePublish DEF Free
<1>12. ASSUME NEW c \in Cancel, NEW t \in Trip, CancelTrip(c, t) PROVE Free
  BY <1>12, SilenceFrame DEF CancelTrip, CancelShape, Promise, Free
<1>13. CASE ReadStream
  BY <1>13, SilenceFrame DEF ReadStream, Free
<1>14. CASE HandleMessage
  BY <1>14, SilenceFrame DEF HandleMessage, Promise, Free
<1>15. CASE AssignDriver
  <2>1. PICK t \in Trip : t = on[Consumer]
    BY <1>15 DEF AssignDriver, ConsumerShape
  <2>2. /\ at[Consumer] = "assign" /\ UNCHANGED <<events, on, alive>>
        /\ \A q \in Process \ {Consumer} : at'[q] = at[q]
        /\ \/ UpdateStatus(t, "ASSIGNED") /\ at'[Consumer] = "assigned"
           \/ UpdateStatus(t, "ASSIGNED") /\ lost' = lost + 1
           \/ UNCHANGED row
    BY <1>15, <2>1 DEF AssignDriver, ReplyLost
  <2>3. /\ \A u \in Trip \ {t} : row'[u] = row[u]
        /\ \/ row'[t] = "ASSIGNED" /\ at'[Consumer] = "assigned"
           \/ lost' = lost + 1
           \/ row'[t] = row[t]
    BY <2>2, UpdateCalls DEF Status
  <2>4. row'[t] = "ASSIGNED" /\ at'[Consumer] = "assigned" => Promise(Consumer, t)'
    BY <2>1, <2>2 DEF Promise
  <2>5. /\ MayStaySilent' \subseteq MayStaySilent \cup {t}
        /\ row'[t] = row[t] \/ Promise(Consumer, t)'
             => MayStaySilent' \subseteq MayStaySilent
    BY <2>1, <2>2, <2>3, SilenceWrite
  <2>. QED BY <2>3, <2>4, <2>5 DEF Silences, Free
<1>16. CASE PublishAssigned
  <2>1. /\ at[Consumer] = "assigned" /\ on[Consumer] \in Trip
        /\ UNCHANGED <<row, on, alive>>
        /\ PublishTripEvent(Consumer, on[Consumer], "ASSIGNED")
        /\ \A q \in Process \ {Consumer} : at'[q] = at[q]
    BY <1>16 DEF PublishAssigned, ConsumerShape
  <2>2. Promise(Consumer, on[Consumer]) => row[on[Consumer]] = "ASSIGNED"
    BY <2>1 DEF Promise
  <2>. QED BY <2>1, <2>2, SilencePublish DEF Free
<1>17. ASSUME NEW p \in Request, Hangup(p) PROVE Silences
  <2>1. UNCHANGED <<row, events, at, on>> /\ hangups' = hangups + 1
        /\ alive' = [alive EXCEPT ![p] = FALSE]
    BY <1>17 DEF Hangup
  <2>2. \A t : HungUp(t)' => HungUp(t) \/ t = on[p]
    BY <2>1 DEF HungUp
  <2>3. \A t : Told(t) => Told(t)'
    BY <2>1 DEF Told, Promise, FinalStatus
  <2>4. MayStaySilent' \subseteq MayStaySilent \cup {on[p]}
    BY <2>2, <2>3 DEF MayStaySilent
  <2>. QED BY <2>1, <2>4 DEF Silences
<1>18. CASE UNCHANGED vars
  BY <1>18, SilenceFrame DEF vars, Free
<1>. QED
  BY <1>1, <1>2, <1>3, <1>4, <1>5, <1>6, <1>7, <1>8, <1>9, <1>10, <1>11, <1>12, <1>13,
     <1>14, <1>15, <1>16, <1>17, <1>18, StepCases

LEMMA SilencePaidStep == TypeInv /\ SilencePaid /\ [Next]_vars => SilencePaid'
<1> SUFFICES ASSUME TypeInv, SilencePaid, [Next]_vars, crashes' = 0
             PROVE  Cardinality(MayStaySilent') <= SilenceBudget'
  BY DEF SilencePaid
<1>1. crashes = 0 /\ ~ Crash
  BY LimitsGrow
<1>2. Cardinality(MayStaySilent) <= SilenceBudget
  BY <1>1 DEF SilencePaid
<1>. QED BY <1>1, <1>2, SilenceSteps, SilenceCost, SilenceFinite, Counting DEF Silences

\* A status that stays without its event has cost a failed call, a lost reply, a
\* disconnect or a crash: see SilenceAccounted.
THEOREM SilenceCorrect == Spec => []SilenceAccounted
<1>1. Init => SilencePaid
  <2> SUFFICES ASSUME Init PROVE SilencePaid
    OBVIOUS
  <2>1. MayStaySilent = {} /\ Cardinality({}) = 0 /\ SilenceBudget = 0
    BY Processes, FS_EmptySet DEF Init, MayStaySilent, Told, HungUp, SilenceBudget
  <2>. QED BY <2>1 DEF SilencePaid
<1>2. TypeInv /\ SilencePaid => SilenceAccounted
  <2> SUFFICES ASSUME TypeInv, SilencePaid PROVE SilenceAccounted
    OBVIOUS
  <2> DEFINE a == Cardinality(Untold)   n == Cardinality(Trip)
  <2>1. a \in Nat /\ n \in Nat /\ a <= n
    BY SilenceFinite, FS_Subset, FS_CardinalityType DEF Untold
  <2>2. faults \in Nat /\ lost \in Nat /\ hangups \in Nat /\ crashes \in Nat
    BY TripSagaAssumption DEF TypeInv, TypeOK
  <2>3. crashes = 0 => a <= faults + lost + hangups
    <3>1. Untold \subseteq MayStaySilent
      BY DEF Untold, MayStaySilent, Told, Promise, Busy
    <3>2. a <= Cardinality(MayStaySilent) /\ Cardinality(MayStaySilent) \in Nat
      BY <3>1, SilenceFinite, FS_Subset, FS_CardinalityType
    <3>. QED BY <2>1, <2>2, <3>2 DEF SilencePaid, SilenceBudget
  <2> SUFFICES a <= faults + lost + hangups + n * crashes
    BY DEF SilenceAccounted
  <2> HIDE DEF a, n
  <2>4. CASE crashes = 0
    BY <2>1, <2>2, <2>3, <2>4
  <2>5. CASE crashes # 0
    <3>1. n * crashes \in Nat /\ n <= n * crashes
      BY <2>1, <2>2, <2>5
    <3>. QED BY <2>1, <2>2, <3>1
  <2>. QED BY <2>4, <2>5
<1>. QED BY <1>1, <1>2, TypeAlways, SilencePaidStep, PTL DEF Spec
=============================================================================
