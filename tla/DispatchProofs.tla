--------------------------- MODULE DispatchProofs ---------------------------
(* Proofs about Dispatch, for any number of trips, drivers, faults, crashes and *)
(* lock expiries.                                                              *)
EXTENDS Dispatch, FiniteSetTheorems, TLAPS

\* Every step is one of these; used to split the proof that a step preserves an
\* invariant.
LEMMA StepCases ==
  ASSUME [Next]_vars
  PROVE  \/ \E t \in Trip : StartDispatch(t)
         \/ \E t \in Trip : Search(t)
         \/ \E t \in Trip : CloseWindow(t)
         \/ \E t \in Trip : Examine(t)
         \/ \E t \in Trip : EndRound(t)
         \/ \E t \in Trip : AcquireDispatchLock(t)
         \/ \E t \in Trip : AnnounceOffer(t)
         \/ \E t \in Trip : Subscribe(t)
         \/ \E t \in Trip : OfferTimeout(t)
         \/ \E t \in Trip : CommitOnTrip(t)
         \/ \E t \in Trip : RemoveDriver(t)
         \/ \E t \in Trip : UnlockAccepted(t)
         \/ \E t \in Trip : Confirm(t)
         \/ \E t \in Trip : UnlockDeclined(t)
         \/ \E t \in Trip : ReportDeclined(t)
         \/ \E t \in Trip : Exhaust(t)
         \/ \E d \in Driver : LockExpires(d)
         \/ \E d \in Driver : ValidateStatus(d)
         \/ \E d \in Driver : UpdateStatus(d)
         \/ \E d \in Driver : UpdateIndex(d)
         \/ \E d \in Driver : LocationPing(d)
         \/ \E d \in Driver : ToggleOnline(d)
         \/ \E d \in Driver : OfferCountdown(d)
         \/ \E d \in Driver : AcceptOffer(d)
         \/ \E d \in Driver : DeclineOffer(d)
         \/ \E d \in Driver : ClearOffer(d)
         \/ \E d \in Driver : \E a \in {"accept", "decline"} : RespondToDispatch(d, a)
         \/ \E d \in Driver : CompleteTrip(d)
         \/ \E d \in Driver, t \in Trip : ReceiveOffer(d, t)
         \/ Crash
         \/ UNCHANGED vars
BY DEF Next, FindAndDispatchDriver, UpdateDriverStatus

-----------------------------------------------------------------------------
(* Type correctness *)

\* A loop has a candidate exactly while it works on one, so that the events it
\* publishes name a driver.
LoopShape ==
  \A t \in Trip :
    /\ pc[t] \in Holding \cup {"lock", "confirm", "report"} => cur[t] \in Driver
    /\ pc[t] \in {"idle", "search", "scan", "exhaust"} => cur[t] = NoDriver

TypeInv == TypeOK /\ LoopShape

LEMMA InitType == Init => TypeInv
BY DispatchAssumption
   DEF Init, TypeInv, TypeOK, LoopShape, Stages, Holding, Status, Calls, NoCall

LEMMA PublishType ==
  ASSUME TypeOK, NEW type, NEW t, NEW d, PublishMatchEvent(type, t, d),
         [type |-> type, trip |-> t, driver |-> d] \in MatchEvent
  PROVE  events' \subseteq MatchEvent /\ faults' \in Nat
BY DEF PublishMatchEvent, TypeOK, Succeeds, Fails

LEMMA ReleaseType ==
  ASSUME TypeOK, NEW d \in Driver, ReleaseDispatchLock(d)
  PROVE  lock' \in [Driver -> Trip \cup {NoTrip}] /\ faults' \in Nat
BY DEF ReleaseDispatchLock, TypeOK, Succeeds, Fails

LEMMA NextType == TypeInv /\ [Next]_vars => TypeInv'
<1> SUFFICES ASSUME TypeOK, LoopShape, [Next]_vars PROVE TypeInv'
  BY DEF TypeInv
<1> USE DispatchAssumption
        DEF TypeInv, TypeOK, LoopShape, Stages, Holding, Goto, Succeeds, Fails
<1>1. CASE \E t \in Trip : StartDispatch(t)
  BY <1>1 DEF StartDispatch, appVars, bounds
<1>2. CASE \E t \in Trip : Search(t)
  BY <1>2 DEF Search, Poll, FindNearbyDrivers, appVars
<1>3. CASE \E t \in Trip : CloseWindow(t)
  BY <1>3 DEF CloseWindow, appVars, bounds
<1>4. ASSUME NEW t \in Trip, Examine(t) PROVE TypeInv'
  <2>1. PICK d \in cands[t] \ seen[t] :
          /\ attempts[t] < MaxOffers
          /\ MarkCandidate(t, d)
          /\ \/ cur' = [cur EXCEPT ![t] = d] /\ pc' = [pc EXCEPT ![t] = "lock"]
             \/ UNCHANGED <<cur, pc>>
    BY <1>4 DEF Examine
  <2>2. d \in Driver
    BY <2>1
  <2>3. /\ cands' \in [Trip -> SUBSET Driver] /\ seen' \in [Trip -> SUBSET Driver]
        /\ attempts' \in [Trip -> 0..MaxOffers]
    BY <2>1, <2>2 DEF MarkCandidate
  <2>4. cur' \in [Trip -> Driver \cup {NoDriver}] /\ pc' \in [Trip -> Stages]
    BY <2>1, <2>2
  <2>5. LoopShape'
    BY <1>4, <2>1, <2>2
  <2>6. faults' \in Nat
    BY <1>4 DEF Examine
  <2>. QED
    BY <1>4, <2>3, <2>4, <2>5, <2>6 DEF Examine, appVars
<1>5. CASE \E t \in Trip : EndRound(t)
  BY <1>5 DEF EndRound, appVars, bounds
<1>6. ASSUME NEW t \in Trip, AcquireDispatchLock(t) PROVE TypeInv'
  <2>1. lock' \in [Driver -> Trip \cup {NoTrip}] /\ faults' \in Nat
    BY <1>6 DEF AcquireDispatchLock, SetNX
  <2>2. \/ pc' = [pc EXCEPT ![t] = "announce"] /\ UNCHANGED cur
        \/ pc' = [pc EXCEPT ![t] = "scan"] /\ cur' = [cur EXCEPT ![t] = NoDriver]
    BY <1>6 DEF AcquireDispatchLock
  <2>3. cur' \in [Trip -> Driver \cup {NoDriver}] /\ pc' \in [Trip -> Stages]
    BY <2>2
  <2>4. pc[t] = "lock" /\ cur[t] \in Driver
    BY <1>6 DEF AcquireDispatchLock
  <2>5. LoopShape'
    BY <2>2, <2>4
  <2>. QED
    BY <1>6, <2>1, <2>3, <2>5 DEF AcquireDispatchLock, appVars
<1>7. ASSUME NEW t \in Trip, AnnounceOffer(t) PROVE TypeInv'
  <2>1. events' \subseteq MatchEvent /\ faults' \in Nat
    BY <1>7, PublishType DEF AnnounceOffer, MatchEvent
  <2>. QED
    BY <1>7, <2>1 DEF AnnounceOffer, appVars
<1>8. CASE \E t \in Trip : Subscribe(t)
  BY <1>8 DEF Subscribe, appVars, bounds
<1>9. CASE \E t \in Trip : OfferTimeout(t)
  BY <1>9 DEF OfferTimeout, appVars, bounds
<1>10. CASE \E t \in Trip : CommitOnTrip(t)
  BY <1>10 DEF CommitOnTrip, appVars, Status
<1>11. CASE \E t \in Trip : RemoveDriver(t)
  BY <1>11 DEF RemoveDriver, appVars
<1>12. ASSUME NEW t \in Trip, UnlockAccepted(t) PROVE TypeInv'
  <2>1. lock' \in [Driver -> Trip \cup {NoTrip}] /\ faults' \in Nat
    BY <1>12, ReleaseType DEF UnlockAccepted
  <2>. QED
    BY <1>12, <2>1 DEF UnlockAccepted, appVars
<1>13. ASSUME NEW t \in Trip, Confirm(t) PROVE TypeInv'
  <2>1. events' \subseteq MatchEvent /\ faults' \in Nat
    BY <1>13, PublishType DEF Confirm, MatchEvent
  <2>. QED
    BY <1>13, <2>1 DEF Confirm, appVars
<1>14. ASSUME NEW t \in Trip, UnlockDeclined(t) PROVE TypeInv'
  <2>1. lock' \in [Driver -> Trip \cup {NoTrip}] /\ faults' \in Nat
    BY <1>14, ReleaseType DEF UnlockDeclined
  <2>. QED
    BY <1>14, <2>1 DEF UnlockDeclined, appVars
<1>15. ASSUME NEW t \in Trip, ReportDeclined(t) PROVE TypeInv'
  <2>1. events' \subseteq MatchEvent /\ faults' \in Nat
    BY <1>15, PublishType DEF ReportDeclined, MatchEvent
  <2>. QED
    BY <1>15, <2>1 DEF ReportDeclined, appVars
<1>16. ASSUME NEW t \in Trip, Exhaust(t) PROVE TypeInv'
  <2>1. events' \subseteq MatchEvent /\ faults' \in Nat
    BY <1>16, PublishType DEF Exhaust, MatchEvent
  <2>. QED
    BY <1>16, <2>1 DEF Exhaust, appVars
<1>17. CASE \E d \in Driver : LockExpires(d)
  BY <1>17 DEF LockExpires, loopVars, appVars, bounds
<1>18. ASSUME NEW d \in Driver, ValidateStatus(d) PROVE TypeInv'
  <2>1. call[d].to \in Status /\ NoCall \in Calls
    BY DEF Calls, NoCall, Status
  <2>2. call' \in [Driver -> Calls]
    BY <1>18, <2>1 DEF ValidateStatus, Calls
  <2>3. status' \in [Driver -> Status] /\ available' \subseteq Driver /\ faults' \in Nat
    BY <1>18 DEF ValidateStatus, Calls
  <2>. QED
    BY <1>18, <2>2, <2>3 DEF ValidateStatus, loopVars, appVars
<1>19. ASSUME NEW d \in Driver, UpdateStatus(d) PROVE TypeInv'
  <2>1. call[d].to \in Status /\ NoCall \in Calls
    BY DEF Calls, NoCall, Status
  <2>2. [step |-> "index", to |-> call[d].to] \in Calls
    BY <2>1 DEF Calls
  <2>3. \/ call' = [call EXCEPT ![d] = NoCall]
        \/ call' = [call EXCEPT ![d] = [step |-> "index", to |-> @.to]]
    BY <1>19 DEF UpdateStatus
  <2>4. call' \in [Driver -> Calls]
    BY <2>1, <2>2, <2>3
  <2>5. status' \in [Driver -> Status] /\ faults' \in Nat
    BY <1>19, <2>1 DEF UpdateStatus
  <2>. QED
    BY <1>19, <2>4, <2>5 DEF UpdateStatus, loopVars, appVars
<1>20. ASSUME NEW d \in Driver, UpdateIndex(d) PROVE TypeInv'
  <2>1. call[d].to \in Status /\ NoCall \in Calls
    BY DEF Calls, NoCall, Status
  <2>2. call' \in [Driver -> Calls]
    BY <1>20, <2>1 DEF UpdateIndex, Calls
  <2>3. status' \in [Driver -> Status] /\ available' \subseteq Driver /\ faults' \in Nat
    BY <1>20 DEF UpdateIndex, Calls
  <2>. QED
    BY <1>20, <2>2, <2>3 DEF UpdateIndex, loopVars, appVars
<1>21. CASE \E d \in Driver : LocationPing(d)
  BY <1>21 DEF LocationPing, loopVars, appVars, bounds
<1>22. CASE \E d \in Driver : ToggleOnline(d)
  BY <1>22 DEF ToggleOnline, loopVars, Calls, Status
<1>23. CASE \E d \in Driver : OfferCountdown(d)
  BY <1>23 DEF OfferCountdown, loopVars, bounds
<1>24. CASE \E d \in Driver : AcceptOffer(d)
  BY <1>24 DEF AcceptOffer, loopVars, bounds
<1>25. CASE \E d \in Driver : DeclineOffer(d)
  BY <1>25 DEF DeclineOffer, loopVars, bounds
<1>26. CASE \E d \in Driver : ClearOffer(d)
  BY <1>26 DEF ClearOffer, loopVars, bounds
<1>27. CASE \E d \in Driver : \E a \in {"accept", "decline"} : RespondToDispatch(d, a)
  BY <1>27 DEF RespondToDispatch, PublishDriverResponse
<1>28. CASE \E d \in Driver : CompleteTrip(d)
  BY <1>28 DEF CompleteTrip, loopVars, bounds
<1>29. CASE \E d \in Driver, t \in Trip : ReceiveOffer(d, t)
  BY <1>29 DEF ReceiveOffer, loopVars, bounds
<1>30. CASE Crash
  BY <1>30 DEF Crash, NoCall, Calls, Status, appVars, Running
<1>31. CASE UNCHANGED vars
  BY <1>31 DEF vars, loopVars, appVars, bounds
<1>. QED
  BY <1>1, <1>2, <1>3, <1>4, <1>5, <1>6, <1>7, <1>8, <1>9, <1>10, <1>11, <1>12, <1>13, <1>14, <1>15, <1>16, <1>17, <1>18, <1>19, <1>20, <1>21, <1>22, <1>23, <1>24, <1>25, <1>26, <1>27, <1>28, <1>29, <1>30, <1>31, StepCases

\* Every state of Dispatch has the types its variables are meant to have.
THEOREM TypeCorrect == Spec => []TypeOK
<1>1. TypeInv => TypeOK
  BY DEF TypeInv
<1>. QED
  BY <1>1, InitType, NextType, PTL DEF Spec

-----------------------------------------------------------------------------
(* The offer budget *)

\* A loop offers its trip only to drivers it has seen, it counts as many attempts
\* as it has seen drivers, and the driver it is about to offer the trip to has not
\* been offered it.
OfferInv ==
  \A t \in Trip :
    /\ IsFiniteSet(seen[t])
    /\ attempts[t] = Cardinality(seen[t])
    /\ OffersTo(t) \subseteq seen[t]
    /\ pc[t] \in {"lock", "announce"} => cur[t] \in seen[t] \ OffersTo(t)

\* What a step can do to the offers of the loops.
LEMMA OfferSteps ==
  ASSUME TypeInv, [Next]_vars
  PROVE  \/ \E t \in Trip : Examine(t) \/ AcquireDispatchLock(t) \/ AnnounceOffer(t)
         \/ /\ UNCHANGED <<seen, attempts>>
            /\ events \subseteq events'
            /\ \A e \in events' \ events : e.type # "OFFERED"
            /\ \A t \in Trip : pc'[t] \in {"lock", "announce"}
                                => pc'[t] = pc[t] /\ cur'[t] = cur[t]
<1> DEFINE Other ==
       /\ UNCHANGED <<seen, attempts>>
       /\ events \subseteq events'
       /\ \A e \in events' \ events : e.type # "OFFERED"
       /\ \A t \in Trip : pc'[t] \in {"lock", "announce"}
                           => pc'[t] = pc[t] /\ cur'[t] = cur[t]
<1> USE DEF TypeInv, TypeOK, Goto
<1>1. ASSUME NEW t \in Trip,
             \/ StartDispatch(t) \/ Search(t) \/ CloseWindow(t) \/ EndRound(t)
             \/ Subscribe(t) \/ OfferTimeout(t) \/ CommitOnTrip(t) \/ RemoveDriver(t)
             \/ UnlockAccepted(t) \/ UnlockDeclined(t)
      PROVE  Other
  BY <1>1 DEF StartDispatch, Search, CloseWindow, EndRound, Subscribe, OfferTimeout,
              CommitOnTrip, RemoveDriver, UnlockAccepted, UnlockDeclined
<1>2. ASSUME NEW t \in Trip, Confirm(t) \/ ReportDeclined(t) \/ Exhaust(t)
      PROVE  Other
  BY <1>2 DEF Confirm, ReportDeclined, Exhaust, PublishMatchEvent
<1>3. ASSUME NEW d \in Driver,
             \/ LockExpires(d) \/ ValidateStatus(d) \/ UpdateStatus(d) \/ UpdateIndex(d)
             \/ LocationPing(d) \/ ToggleOnline(d) \/ OfferCountdown(d) \/ AcceptOffer(d)
             \/ DeclineOffer(d) \/ ClearOffer(d) \/ CompleteTrip(d)
      PROVE  Other
  BY <1>3 DEF LockExpires, ValidateStatus, UpdateStatus, UpdateIndex, LocationPing,
              ToggleOnline, OfferCountdown, AcceptOffer, DeclineOffer, ClearOffer,
              CompleteTrip, loopVars
<1>4. ASSUME NEW d \in Driver, NEW a \in {"accept", "decline"}, RespondToDispatch(d, a)
      PROVE  Other
  BY <1>4 DEF RespondToDispatch, PublishDriverResponse
<1>5. ASSUME NEW d \in Driver, NEW t \in Trip, ReceiveOffer(d, t)
      PROVE  Other
  BY <1>5 DEF ReceiveOffer, loopVars
<1>6. CASE Crash
  BY <1>6 DEF Crash
<1>7. CASE UNCHANGED vars
  BY <1>7 DEF vars, loopVars
<1>. QED
  BY <1>1, <1>2, <1>3, <1>4, <1>5, <1>6, <1>7, StepCases

LEMMA InitOffer == Init => OfferInv
BY FS_EmptySet DEF Init, OfferInv, OffersTo

LEMMA NextOffer == TypeInv /\ OfferInv /\ [Next]_vars => OfferInv'
<1> SUFFICES ASSUME TypeInv, OfferInv, [Next]_vars, NEW t \in Trip
             PROVE  /\ IsFiniteSet(seen[t])'
                    /\ (attempts[t] = Cardinality(seen[t]))'
                    /\ (OffersTo(t) \subseteq seen[t])'
                    /\ (pc[t] \in {"lock", "announce"}
                          => cur[t] \in seen[t] \ OffersTo(t))'
  BY DEF OfferInv
<1> USE DEF TypeInv, TypeOK
<1>1. ASSUME NEW u \in Trip, Examine(u)
      PROVE  OfferInv'
  <2>1. PICK d \in cands[u] \ seen[u] :
          /\ MarkCandidate(u, d)
          /\ \/ cur' = [cur EXCEPT ![u] = d] /\ pc' = [pc EXCEPT ![u] = "lock"]
             \/ UNCHANGED <<cur, pc>> /\ pc[u] = "scan"
    BY <1>1 DEF Examine, Goto
  <2>2. events' = events
    BY <1>1 DEF Examine
  <2>3. /\ IsFiniteSet(seen[u] \cup {d})
        /\ Cardinality(seen[u] \cup {d}) = Cardinality(seen[u]) + 1
    BY FS_AddElement DEF OfferInv
  <2>4. /\ seen' = [seen EXCEPT ![u] = @ \cup {d}]
        /\ attempts' = [attempts EXCEPT ![u] = @ + 1]
    BY <2>1 DEF MarkCandidate
  <2>5. \A v \in Trip : OffersTo(v)' = OffersTo(v)
    BY <2>2 DEF OffersTo
  <2>. QED
    BY <2>1, <2>3, <2>4, <2>5 DEF OfferInv
<1>2. ASSUME NEW u \in Trip, AcquireDispatchLock(u)
      PROVE  OfferInv'
  <2>1. \A v \in Trip : OffersTo(v)' = OffersTo(v)
    BY <1>2 DEF AcquireDispatchLock, OffersTo
  <2>. QED
    BY <1>2, <2>1 DEF AcquireDispatchLock, Goto, OfferInv
<1>3. ASSUME NEW u \in Trip, AnnounceOffer(u)
      PROVE  OfferInv'
  <2>1. /\ OffersTo(u)' \subseteq OffersTo(u) \cup {cur[u]}
        /\ \A v \in Trip \ {u} : OffersTo(v)' = OffersTo(v)
    BY <1>3 DEF AnnounceOffer, PublishMatchEvent, OffersTo
  <2>. QED
    BY <1>3, <2>1 DEF AnnounceOffer, Goto, OfferInv
<1>4. ASSUME /\ UNCHANGED <<seen, attempts>>
             /\ events \subseteq events'
             /\ \A e \in events' \ events : e.type # "OFFERED"
             /\ \A v \in Trip : pc'[v] \in {"lock", "announce"}
                                 => pc'[v] = pc[v] /\ cur'[v] = cur[v]
      PROVE  OfferInv'
  <2>1. \A v \in Trip : OffersTo(v)' = OffersTo(v)
    BY <1>4 DEF OffersTo
  <2>. QED
    BY <1>4, <2>1 DEF OfferInv
<1>. QED
  BY <1>1, <1>2, <1>3, <1>4, OfferSteps DEF OfferInv

\* A loop offers its trip to at most MaxOffers drivers, for any number of
\* candidates, searches and drivers.
THEOREM BudgetKept == Spec => []OfferBudget
<1>1. TypeInv /\ OfferInv => OfferBudget
  <2> SUFFICES ASSUME TypeInv, OfferInv, NEW t \in Trip
               PROVE  Cardinality(OffersTo(t)) <= MaxOffers
    BY DEF OfferBudget
  <2>1. IsFiniteSet(OffersTo(t)) /\ Cardinality(OffersTo(t)) <= Cardinality(seen[t])
    BY FS_Subset DEF OfferInv
  <2>2. Cardinality(OffersTo(t)) \in Nat
    BY <2>1, FS_CardinalityType
  <2>3. attempts[t] \in 0..MaxOffers /\ attempts[t] = Cardinality(seen[t])
    BY DEF OfferInv, TypeInv, TypeOK
  <2>. QED
    BY <2>1, <2>2, <2>3, DispatchAssumption
<1>. QED
  BY <1>1, InitType, NextType, InitOffer, NextOffer, PTL DEF Spec

\* A driver who let an offer of a trip go is not offered the trip again.
THEOREM NoReoffer == Spec => NeverReoffered
<1>1. TypeInv /\ OfferInv =>
        \A t \in Trip : pc[t] = "announce" => cur[t] \notin OffersTo(t)
  BY DEF OfferInv
<1>2. TypeInv /\ OfferInv =>
        [\A t \in Trip : pc[t] = "announce" /\ pc'[t] = "subscribe"
                           => cur[t] \notin OffersTo(t)]_vars
  BY <1>1
<1>. QED
  BY <1>2, InitType, NextType, InitOffer, NextOffer, PTL DEF Spec, NeverReoffered
=============================================================================
