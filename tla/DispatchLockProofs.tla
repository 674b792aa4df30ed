------------------------- MODULE DispatchLockProofs -------------------------
(* Proofs about the locks of Dispatch: how many offers of a driver are open at  *)
(* once, how many trips one press of Accept assigns, and that each loop posts   *)
(* one answer.                                                                 *)
EXTENDS DispatchProofs

-----------------------------------------------------------------------------
(* Open offers *)

\* A loop keeps its offer open and its candidate.
OffersStay ==
  \A t \in Trip :
    /\ pc'[t] \in Holding <=> pc[t] \in Holding
    /\ pc[t] \in Holding => cur'[t] = cur[t]

\* What a step can do to the open offers and the locks.
LEMMA LockSteps ==
  ASSUME TypeInv, [Next]_vars
  PROVE  \/ \E t \in Trip : AcquireDispatchLock(t) \/ UnlockAccepted(t) \/ UnlockDeclined(t)
         \/ \E d \in Driver : LockExpires(d)
         \/ Crash
         \/ OffersStay /\ UNCHANGED <<lock, expiries>>
<1> DEFINE Other == OffersStay /\ UNCHANGED <<lock, expiries>>
<1> USE DEF TypeInv, TypeOK, Goto, OffersStay, Holding
<1>1. ASSUME NEW t \in Trip,
             \/ StartDispatch(t) \/ Search(t) \/ CloseWindow(t) \/ EndRound(t)
             \/ Subscribe(t) \/ OfferTimeout(t) \/ CommitOnTrip(t) \/ RemoveDriver(t)
      PROVE  Other
  BY <1>1 DEF StartDispatch, Search, CloseWindow, EndRound, Subscribe, OfferTimeout,
              CommitOnTrip, RemoveDriver
<1>2. ASSUME NEW t \in Trip,
             AnnounceOffer(t) \/ Confirm(t) \/ ReportDeclined(t) \/ Exhaust(t) \/ Examine(t)
      PROVE  Other
  BY <1>2 DEF AnnounceOffer, Confirm, ReportDeclined, Exhaust, Examine
<1>3. ASSUME NEW d \in Driver,
             \/ ValidateStatus(d) \/ UpdateStatus(d) \/ UpdateIndex(d)
             \/ LocationPing(d) \/ ToggleOnline(d) \/ OfferCountdown(d) \/ AcceptOffer(d)
             \/ DeclineOffer(d) \/ ClearOffer(d) \/ CompleteTrip(d)
      PROVE  Other
  BY <1>3 DEF ValidateStatus, UpdateStatus, UpdateIndex, LocationPing,
              ToggleOnline, OfferCountdown, AcceptOffer, DeclineOffer, ClearOffer,
              CompleteTrip, loopVars
<1>4. ASSUME NEW d \in Driver, NEW a \in {"accept", "decline"}, RespondToDispatch(d, a)
      PROVE  Other
  BY <1>4 DEF RespondToDispatch, PublishDriverResponse
<1>5. ASSUME NEW d \in Driver, NEW t \in Trip, ReceiveOffer(d, t)
      PROVE  Other
  BY <1>5 DEF ReceiveOffer, loopVars
<1>6. CASE UNCHANGED vars
  BY <1>6 DEF vars, loopVars
<1>. QED
  BY <1>1, <1>2, <1>3, <1>4, <1>5, <1>6, StepCases

LEMMA OpenOffersFinite ==
  ASSUME NEW d
  PROVE  IsFiniteSet(OpenOffers(d)) /\ Cardinality(OpenOffers(d)) \in Nat
BY FS_Subset, FS_CardinalityType, DispatchAssumption DEF OpenOffers

LEMMA InitOpen == Init => ConcurrentOffersBounded
<1> SUFFICES ASSUME Init, NEW d \in Driver
             PROVE  Cardinality(OpenOffers(d)) <= 0
  BY DEF Init, ConcurrentOffersBounded
<1>1. OpenOffers(d) = {}
  BY DEF Init, OpenOffers, Holding
<1>. QED
  BY <1>1, FS_EmptySet

LEMMA NextOpen ==
  TypeInv /\ ConcurrentOffersBounded /\ [Next]_vars => ConcurrentOffersBounded'
<1> SUFFICES ASSUME TypeInv, ConcurrentOffersBounded, [Next]_vars, NEW d \in Driver
             PROVE  Cardinality(OpenOffers(d)')
                      <= expiries'[d] + (IF lock'[d] = NoTrip THEN 0 ELSE 1)
  BY DEF ConcurrentOffersBounded
<1> DEFINE Locked == IF lock[d] = NoTrip THEN 0 ELSE 1
<1>0. /\ Cardinality(OpenOffers(d)) <= expiries[d] + Locked
      /\ expiries[d] \in Nat
      /\ IsFiniteSet(OpenOffers(d)) /\ Cardinality(OpenOffers(d)) \in Nat
  BY OpenOffersFinite DEF ConcurrentOffersBounded, TypeInv, TypeOK
<1>1. ASSUME NEW t \in Trip, AcquireDispatchLock(t)
      PROVE  Cardinality(OpenOffers(d)')
               <= expiries'[d] + (IF lock'[d] = NoTrip THEN 0 ELSE 1)
  <2>1. expiries' = expiries
    BY <1>1 DEF AcquireDispatchLock
  <2>2. CASE pc' = [pc EXCEPT ![t] = "announce"] /\ UNCHANGED cur /\ SetNX(cur[t], t)
    <3>1. CASE cur[t] = d
      <4>1. OpenOffers(d)' = OpenOffers(d) \cup {t} /\ t \notin OpenOffers(d)
        BY <1>1, <2>2, <3>1 DEF OpenOffers, Holding, AcquireDispatchLock, TypeInv, TypeOK
      <4>2. Cardinality(OpenOffers(d)') = Cardinality(OpenOffers(d)) + 1
        BY <1>0, <4>1, FS_AddElement
      <4>3. lock[d] = NoTrip /\ lock'[d] = t /\ t # NoTrip
        BY <2>2, <3>1, DispatchAssumption DEF SetNX, TypeInv, TypeOK
      <4>. QED
        BY <1>0, <2>1, <4>2, <4>3
    <3>2. CASE cur[t] # d
      <4>1. OpenOffers(d)' = OpenOffers(d)
        BY <1>1, <2>2, <3>2 DEF OpenOffers, Holding, AcquireDispatchLock, TypeInv, TypeOK
      <4>2. lock'[d] = lock[d]
        BY <2>2, <3>2 DEF SetNX, TypeInv, TypeOK
      <4>. QED
        BY <1>0, <2>1, <4>1, <4>2
    <3>. QED
      BY <3>1, <3>2
  <2>3. CASE /\ pc' = [pc EXCEPT ![t] = "scan"]
             /\ cur' = [cur EXCEPT ![t] = NoDriver]
             /\ UNCHANGED lock \/ SetNX(cur[t], t)
    <3>1. OpenOffers(d)' = OpenOffers(d)
      BY <1>1, <2>3 DEF OpenOffers, Holding, AcquireDispatchLock, TypeInv, TypeOK
    <3>2. lock'[d] = lock[d] \/ lock[d] = NoTrip
      BY <2>3 DEF SetNX, TypeInv, TypeOK
    <3>. QED
      BY <1>0, <2>1, <3>1, <3>2
  <2>. QED
    BY <1>1, <2>2, <2>3 DEF AcquireDispatchLock, Goto
<1>2. ASSUME NEW t \in Trip, UnlockAccepted(t) \/ UnlockDeclined(t)
      PROVE  Cardinality(OpenOffers(d)')
               <= expiries'[d] + (IF lock'[d] = NoTrip THEN 0 ELSE 1)
  <2>1. /\ expiries' = expiries /\ cur' = cur
        /\ pc[t] \in {"unlockOk", "unlockNo"}
        /\ \E stage \in {"confirm", "report"} : pc' = [pc EXCEPT ![t] = stage]
        /\ lock' = lock \/ lock' = [lock EXCEPT ![cur[t]] = NoTrip]
    BY <1>2 DEF UnlockAccepted, UnlockDeclined, ReleaseDispatchLock, Goto
  <2>2. CASE cur[t] = d
    <3>1. OpenOffers(d)' = OpenOffers(d) \ {t} /\ t \in OpenOffers(d)
      BY <2>1, <2>2 DEF OpenOffers, Holding, TypeInv, TypeOK
    <3>2. Cardinality(OpenOffers(d)') = Cardinality(OpenOffers(d)) - 1
      BY <1>0, <3>1, FS_RemoveElement
    <3>. QED
      BY <1>0, <2>1, <3>2
  <2>3. CASE cur[t] # d
    <3>1. OpenOffers(d)' = OpenOffers(d)
      BY <2>1, <2>3 DEF OpenOffers, Holding, TypeInv, TypeOK
    <3>2. lock'[d] = lock[d]
      BY <2>1, <2>3 DEF TypeInv, TypeOK
    <3>. QED
      BY <1>0, <2>1, <3>1, <3>2
  <2>. QED
    BY <2>2, <2>3
<1>3. ASSUME NEW b \in Driver, LockExpires(b)
      PROVE  Cardinality(OpenOffers(d)')
               <= expiries'[d] + (IF lock'[d] = NoTrip THEN 0 ELSE 1)
  <2>1. /\ OpenOffers(d)' = OpenOffers(d)
        /\ lock' = [lock EXCEPT ![b] = NoTrip]
        /\ \/ OpenOffers(b) = {} /\ expiries' = expiries
           \/ expiries' = [expiries EXCEPT ![b] = @ + 1]
    BY <1>3 DEF LockExpires, loopVars, OpenOffers
  <2>2. CASE b = d
    BY <1>0, <2>1, <2>2, FS_EmptySet DEF TypeInv, TypeOK
  <2>3. CASE b # d
    BY <1>0, <2>1, <2>3 DEF TypeInv, TypeOK
  <2>. QED
    BY <2>2, <2>3
<1>4. ASSUME OpenOffers(d)' \subseteq OpenOffers(d), UNCHANGED <<lock, expiries>>
      PROVE  Cardinality(OpenOffers(d)')
               <= expiries'[d] + (IF lock'[d] = NoTrip THEN 0 ELSE 1)
  <2>1. /\ Cardinality(OpenOffers(d)') <= Cardinality(OpenOffers(d))
        /\ Cardinality(OpenOffers(d)') \in Nat
    BY <1>0, <1>4, FS_Subset, FS_CardinalityType
  <2>. QED
    BY <1>0, <1>4, <2>1
<1>5. CASE Crash
  <2>1. OpenOffers(d)' \subseteq OpenOffers(d)
    BY <1>5 DEF Crash, OpenOffers, Holding, TypeInv, TypeOK
  <2>. QED
    BY <1>4, <1>5, <2>1 DEF Crash
<1>6. CASE OffersStay /\ UNCHANGED <<lock, expiries>>
  <2>1. OpenOffers(d)' = OpenOffers(d)
    BY <1>6 DEF OffersStay, OpenOffers
  <2>. QED
    BY <1>4, <1>6, <2>1
<1>. QED
  BY <1>1, <1>2, <1>3, <1>5, <1>6, LockSteps

\* SET NX, its TTL and the unconditional DEL keep the open offers of a driver down
\* to its lock and the locks that expired under an offer.
THEOREM OffersBounded == Spec => []ConcurrentOffersBounded
BY InitType, NextType, InitOpen, NextOpen, PTL DEF Spec

-----------------------------------------------------------------------------
(* Assigned trips *)

\* Loops enter the stages of an accepted offer only through an answer, and none
\* changes its driver there.
AssignedStay ==
  \A t \in Trip :
    pc'[t] \in Accepting \cup {"done"} /\ cur'[t] \in Driver
      => pc[t] \in Accepting \cup {"done"} /\ cur[t] = cur'[t]

\* The app does not show new offers and sends no acceptance.
AppQuiet ==
  /\ UNCHANGED <<delivered, consented>>
  /\ \A d \in Driver : /\ screen'[d] \in {screen[d], NoTrip}
                       /\ "accept" \in answers'[d] => "accept" \in answers[d]

\* What a step can do to the acceptances and the assigned trips.
LEMMA ConsentSteps ==
  ASSUME TypeInv, [Next]_vars
  PROVE  \/ \E d \in Driver, t \in Trip : ReceiveOffer(d, t)
         \/ \E d \in Driver : AcceptOffer(d) \/ LockExpires(d)
         \/ \E d \in Driver : \E a \in {"accept", "decline"} : RespondToDispatch(d, a)
         \/ AssignedStay /\ AppQuiet /\ expiries' = expiries
<1> DEFINE Other == AssignedStay /\ AppQuiet /\ expiries' = expiries
<1> USE DispatchAssumption DEF TypeInv, TypeOK, LoopShape, Goto, Accepting, Holding
<1>1. ASSUME NEW t \in Trip,
             \/ StartDispatch(t) \/ Search(t) \/ CloseWindow(t) \/ EndRound(t)
             \/ Subscribe(t) \/ OfferTimeout(t)
      PROVE  Other
  BY <1>1 DEF StartDispatch, Search, CloseWindow, EndRound, Subscribe, OfferTimeout,
              appVars, AssignedStay, AppQuiet
<1>2. ASSUME NEW t \in Trip,
             \/ CommitOnTrip(t) \/ RemoveDriver(t) \/ UnlockAccepted(t)
             \/ UnlockDeclined(t)
      PROVE  Other
  BY <1>2 DEF CommitOnTrip, RemoveDriver, UnlockAccepted, UnlockDeclined, appVars,
              AssignedStay, AppQuiet
<1>3. ASSUME NEW t \in Trip,
             AnnounceOffer(t) \/ Confirm(t) \/ ReportDeclined(t) \/ Exhaust(t)
      PROVE  Other
  BY <1>3 DEF AnnounceOffer, Confirm, ReportDeclined, Exhaust, appVars,
              AssignedStay, AppQuiet
<1>4. ASSUME NEW t \in Trip, Examine(t) \/ AcquireDispatchLock(t)
      PROVE  Other
  <2>1. UNCHANGED <<appVars, expiries>> /\ pc[t] \in {"scan", "lock"}
    BY <1>4 DEF Examine, AcquireDispatchLock
  <2>2. /\ \/ pc' = pc
           \/ \E stage \in {"lock", "scan", "announce"} : pc' = [pc EXCEPT ![t] = stage]
        /\ cur' = cur \/ \E d : cur' = [cur EXCEPT ![t] = d]
    BY <1>4 DEF Examine, AcquireDispatchLock
  <2>. QED
    BY <2>1, <2>2 DEF appVars, AssignedStay, AppQuiet
<1>5. ASSUME NEW d \in Driver,
             \/ ValidateStatus(d) \/ UpdateStatus(d) \/ UpdateIndex(d)
             \/ LocationPing(d) \/ ToggleOnline(d) \/ OfferCountdown(d)
             \/ DeclineOffer(d) \/ ClearOffer(d) \/ CompleteTrip(d)
      PROVE  Other
  BY <1>5 DEF ValidateStatus, UpdateStatus, UpdateIndex, LocationPing, ToggleOnline,
              OfferCountdown, DeclineOffer, ClearOffer, CompleteTrip, loopVars,
              appVars, AssignedStay, AppQuiet
<1>6. CASE Crash
  BY <1>6 DEF Crash, appVars, AssignedStay, AppQuiet
<1>7. CASE UNCHANGED vars
  BY <1>7 DEF vars, loopVars, appVars, AssignedStay, AppQuiet
<1>. QED
  BY <1>1, <1>2, <1>3, <1>4, <1>5, <1>6, <1>7, StepCases

-----------------------------------------------------------------------------
\* An acceptance under way has assigned nothing yet.
Unanswered(d) == IF "accept" \in answers[d] THEN 1 ELSE 0

\* The acceptances the service has handled account for the assigned trips, and an
\* offer on the screen is not one the driver accepted before.
ConsentInv ==
  \A d \in Driver :
    /\ Cardinality(Assigned(d)) + Unanswered(d) * (1 + expiries[d])
         <= Cardinality(consented[d]) * (1 + expiries[d])
    /\ consented[d] \X {d} \subseteq delivered
    /\ screen[d] # NoTrip => /\ <<screen[d], d>> \in delivered
                             /\ screen[d] \notin consented[d]

LEMMA TripSetsFinite ==
  ASSUME NEW S \in SUBSET Trip
  PROVE  IsFiniteSet(S) /\ Cardinality(S) \in Nat
BY FS_Subset, FS_CardinalityType, DispatchAssumption

LEMMA InitConsent == Init => ConsentInv
<1> SUFFICES ASSUME Init, NEW d \in Driver
             PROVE  /\ Cardinality(Assigned(d)) + Unanswered(d) * (1 + expiries[d])
                         <= Cardinality(consented[d]) * (1 + expiries[d])
                    /\ consented[d] \X {d} \subseteq delivered
                    /\ screen[d] = NoTrip
  BY DEF ConsentInv
<1>1. Assigned(d) = {} /\ consented[d] = {} /\ Unanswered(d) = 0 /\ expiries[d] = 0
  BY DEF Init, Assigned, Accepting, Unanswered
<1>. QED
  BY <1>1, FS_EmptySet DEF Init

\* The account of one driver survives a step that assigns it nothing.
LEMMA NothingAssigned ==
  ASSUME NEW d \in Driver, TypeInv, ConsentInv,
         Assigned(d)' \subseteq Assigned(d), consented'[d] = consented[d],
         "accept" \in answers'[d] => "accept" \in answers[d],
         expiries'[d] \in {expiries[d], expiries[d] + 1}
  PROVE  Cardinality(Assigned(d)') + Unanswered(d)' * (1 + expiries'[d])
           <= Cardinality(consented'[d]) * (1 + expiries'[d])
<1> DEFINE k == 1 + expiries[d]
           n == Cardinality(consented[d])
           a == Cardinality(Assigned(d))
           b == Cardinality(Assigned(d)')
<1>1. k \in Nat \ {0} /\ n \in Nat /\ a \in Nat /\ b \in Nat /\ b <= a
  <2>1. Assigned(d) \subseteq Trip /\ consented[d] \subseteq Trip /\ expiries[d] \in Nat
    BY DEF Assigned, TypeInv, TypeOK
  <2>. QED
    BY <2>1, TripSetsFinite, FS_Subset
<1>2. /\ Unanswered(d) \in 0..1 /\ Unanswered(d)' \in 0..1
      /\ Unanswered(d)' <= Unanswered(d)
  BY DEF Unanswered
<1>3. a + Unanswered(d) * k <= n * k
  BY DEF ConsentInv
<1>4. Unanswered(d) <= n
  BY <1>1, <1>2, <1>3
<1>5. n * (k + 1) = n * k + n
  BY <1>1
<1>6. CASE expiries'[d] = expiries[d]
  <2>1. b + Unanswered(d)' * k <= n * k
    BY <1>1, <1>2, <1>3
  <2>. QED
    BY <1>6, <2>1
<1>7. CASE expiries'[d] = expiries[d] + 1
  <2>1. b + Unanswered(d)' * (k + 1) <= n * (k + 1)
    BY <1>1, <1>2, <1>3, <1>4, <1>5
  <2>2. 1 + expiries'[d] = k + 1
    BY <1>1, <1>7 DEF TypeInv, TypeOK
  <2>. QED
    BY <2>1, <2>2
<1>. QED
  BY <1>6, <1>7

LEMMA NextConsent ==
  TypeInv /\ ConcurrentOffersBounded /\ ConsentInv /\ [Next]_vars => ConsentInv'
<1> SUFFICES ASSUME TypeInv, ConcurrentOffersBounded, ConsentInv, [Next]_vars,
                    NEW d \in Driver
             PROVE  /\ Cardinality(Assigned(d)') + Unanswered(d)' * (1 + expiries'[d])
                         <= Cardinality(consented'[d]) * (1 + expiries'[d])
                    /\ consented'[d] \X {d} \subseteq delivered'
                    /\ screen'[d] # NoTrip => /\ <<screen'[d], d>> \in delivered'
                                              /\ screen'[d] \notin consented'[d]
  BY DEF ConsentInv
<1> DEFINE Shown ==
       /\ consented'[d] \X {d} \subseteq delivered'
       /\ screen'[d] # NoTrip => /\ <<screen'[d], d>> \in delivered'
                                 /\ screen'[d] \notin consented'[d]
<1> DEFINE Account ==
       Cardinality(Assigned(d)') + Unanswered(d)' * (1 + expiries'[d])
         <= Cardinality(consented'[d]) * (1 + expiries'[d])
<1>1. ASSUME NEW b \in Driver, NEW t \in Trip, ReceiveOffer(b, t)
      PROVE  Account /\ Shown
  <2>1. Assigned(d)' = Assigned(d) /\ UNCHANGED <<consented, answers, expiries>>
    BY <1>1 DEF ReceiveOffer, Assigned, loopVars
  <2>2. Account
    BY <2>1, NothingAssigned
  <2>3. Shown
    <3>1. /\ delivered' = delivered \cup {<<t, b>>} /\ <<t, b>> \notin delivered
          /\ screen' = screen \/ screen' = [screen EXCEPT ![b] = t]
      BY <1>1 DEF ReceiveOffer
    <3>2. CASE screen'[d] = screen[d]
      BY <2>1, <3>1, <3>2 DEF ConsentInv
    <3>3. CASE b = d /\ screen'[d] = t
      BY <2>1, <3>1, <3>3 DEF ConsentInv
    <3>. QED
      BY <3>1, <3>2, <3>3 DEF TypeInv, TypeOK
  <2>. QED
    BY <2>2, <2>3
<1>2. ASSUME NEW b \in Driver, AcceptOffer(b)
      PROVE  Account /\ Shown
  <2>1. /\ Assigned(d)' = Assigned(d)
        /\ UNCHANGED <<expiries, delivered>>
        /\ screen' = [screen EXCEPT ![b] = NoTrip]
        /\ consented' = [consented EXCEPT ![b] = @ \cup {screen[b]}]
        /\ answers' = [answers EXCEPT ![b] = @ \cup {"accept"}]
        /\ screen[b] # NoTrip /\ "accept" \notin answers[b]
    BY <1>2 DEF AcceptOffer, Assigned, loopVars
  <2>2. CASE b # d
    <3>1. consented'[d] = consented[d] /\ answers'[d] = answers[d] /\ screen'[d] = screen[d]
      BY <2>1, <2>2 DEF TypeInv, TypeOK
    <3>2. Account
      BY <2>1, <3>1, NothingAssigned
    <3>. QED
      BY <2>1, <3>1, <3>2 DEF ConsentInv
  <2>3. CASE b = d
    <3> DEFINE k == 1 + expiries[d]
               n == Cardinality(consented[d])
               a == Cardinality(Assigned(d))
    <3>1. /\ consented'[d] = consented[d] \cup {screen[d]} /\ screen[d] \in Trip
          /\ screen[d] \notin consented[d] /\ consented[d] \subseteq Trip
          /\ Unanswered(d) = 0 /\ Unanswered(d)' = 1 /\ expiries[d] \in Nat
          /\ screen'[d] = NoTrip
      BY <2>1, <2>3 DEF ConsentInv, TypeInv, TypeOK, Unanswered
    <3>2. Cardinality(consented'[d]) = n + 1 /\ n \in Nat
      BY <3>1, TripSetsFinite, FS_AddElement
    <3>3. a \in Nat /\ k \in Nat
      BY <3>1, TripSetsFinite DEF Assigned
    <3>4. a <= n * k
      <4>1. a + Unanswered(d) * k <= n * k
        BY DEF ConsentInv
      <4>2. a + 0 * k <= n * k
        BY <3>1, <4>1
      <4>. QED
        BY <3>2, <3>3, <4>2
    <3>5. a + 1 * k <= (n + 1) * k
      BY <3>2, <3>3, <3>4
    <3>6. Account
      <4>1. Unanswered(d)' * (1 + expiries'[d]) = 1 * k
        BY <2>1, <3>1
      <4>2. Cardinality(consented'[d]) * (1 + expiries'[d]) = (n + 1) * k
        BY <2>1, <3>2
      <4>. QED
        BY <2>1, <3>5, <4>1, <4>2
    <3>7. Shown
      <4>1. <<screen[d], d>> \in delivered /\ consented[d] \X {d} \subseteq delivered
        BY <2>1, <2>3 DEF ConsentInv
      <4>2. \A t \in consented'[d] : <<t, d>> \in delivered
        BY <3>1, <4>1
      <4>3. consented'[d] \X {d} \subseteq delivered
        BY <4>2
      <4>. QED
        BY <2>1, <3>1, <4>3
    <3>. QED
      BY <3>6, <3>7
  <2>. QED
    BY <2>2, <2>3
<1>3. ASSUME NEW b \in Driver, LockExpires(b)
      PROVE  Account /\ Shown
  <2>1. /\ Assigned(d)' = Assigned(d) /\ UNCHANGED <<consented, answers, delivered, screen>>
        /\ expiries' = expiries \/ expiries' = [expiries EXCEPT ![b] = @ + 1]
    BY <1>3 DEF LockExpires, Assigned, loopVars, appVars
  <2>2. expiries'[d] \in {expiries[d], expiries[d] + 1}
    BY <2>1 DEF TypeInv, TypeOK
  <2>3. Account
    BY <2>1, <2>2, NothingAssigned
  <2>. QED
    BY <2>1, <2>3 DEF ConsentInv
<1>4. ASSUME NEW b \in Driver, NEW a \in {"accept", "decline"}, RespondToDispatch(b, a)
      PROVE  Account /\ Shown
  <2>1. /\ UNCHANGED <<consented, expiries, delivered, screen, cur>>
        /\ a \in answers[b]
        /\ answers' = [answers EXCEPT ![b] = IF a = "accept" THEN @ \ {"accept"}
                                             ELSE (@ \ {"decline"}) \cup {"declined"}]
        /\ pc' = pc \/ PublishDriverResponse(b, a = "accept")
    BY <1>4 DEF RespondToDispatch
  <2>2. Shown
    BY <2>1 DEF ConsentInv
  <2>3. CASE Assigned(d)' \subseteq Assigned(d)
    <3>1. "accept" \in answers'[d] => "accept" \in answers[d]
      BY <2>1 DEF TypeInv, TypeOK
    <3>. QED
      BY <2>1, <2>2, <2>3, <3>1, NothingAssigned
  <2>4. CASE b = d /\ a = "accept"
    <3> DEFINE k == 1 + expiries[d]
               n == Cardinality(consented[d])
               m == Cardinality(Assigned(d))
               o == Cardinality(OpenOffers(d))
    <3>1. Assigned(d)' \subseteq Assigned(d) \cup OpenOffers(d)
      BY <2>1, <2>4 DEF PublishDriverResponse, Assigned, OpenOffers, Holding,
                        TypeInv, TypeOK
    <3>2. /\ Unanswered(d) = 1 /\ Unanswered(d)' = 0 /\ expiries[d] \in Nat
          /\ consented[d] \subseteq Trip
      BY <2>1, <2>4 DEF Unanswered, TypeInv, TypeOK
    <3>3. /\ IsFiniteSet(Assigned(d)) /\ m \in Nat
          /\ IsFiniteSet(OpenOffers(d)) /\ o \in Nat /\ n \in Nat
      BY <3>2, TripSetsFinite DEF Assigned, OpenOffers
    <3>4. /\ Cardinality(Assigned(d)') <= m + o
          /\ Cardinality(Assigned(d)') \in Nat
      <4>1. /\ IsFiniteSet(Assigned(d) \cup OpenOffers(d))
            /\ Cardinality(Assigned(d) \cup OpenOffers(d))
                 = m + o - Cardinality(Assigned(d) \cap OpenOffers(d))
        BY <3>3, FS_Union
      <4>2. Cardinality(Assigned(d) \cap OpenOffers(d)) \in Nat
        BY TripSetsFinite DEF Assigned
      <4>3. /\ Cardinality(Assigned(d)') <= Cardinality(Assigned(d) \cup OpenOffers(d))
            /\ Cardinality(Assigned(d)') \in Nat
        BY <3>1, <4>1, FS_Subset, FS_CardinalityType
      <4>. QED
        BY <3>3, <4>1, <4>2, <4>3
    <3>5. o <= k
      BY <3>2, <3>3 DEF ConcurrentOffersBounded
    <3>6. m + 1 * k <= n * k
      BY <3>2 DEF ConsentInv
    <3>7. Cardinality(Assigned(d)') + 0 * k <= n * k
      BY <3>2, <3>3, <3>4, <3>5, <3>6
    <3>. QED
      BY <2>1, <2>2, <3>2, <3>7
  <2>5. CASE b # d \/ a = "decline"
    <3>1. Assigned(d)' \subseteq Assigned(d)
      BY <2>1, <2>5 DEF PublishDriverResponse, Assigned, Accepting, TypeInv, TypeOK
    <3>. QED
      BY <2>3, <3>1
  <2>. QED
    BY <2>4, <2>5
<1>5. CASE AssignedStay /\ AppQuiet /\ expiries' = expiries
  <2>1. Assigned(d)' \subseteq Assigned(d)
    BY <1>5 DEF AssignedStay, Assigned
  <2>2. Account
    BY <1>5, <2>1, NothingAssigned DEF AppQuiet
  <2>. QED
    BY <1>5, <2>2 DEF AppQuiet, ConsentInv
<1>. QED
  BY <1>1, <1>2, <1>3, <1>4, <1>5, ConsentSteps

\* One press of Accept assigns a driver one trip, and one more for each lock that
\* ran out under an offer, however many loops wait on the driver's channel.
THEOREM AssignmentsBounded == Spec => []AssignmentsPerClick
<1>1. TypeInv /\ ConsentInv => AssignmentsPerClick
  <2> SUFFICES ASSUME TypeInv, ConsentInv, NEW d \in Driver
               PROVE  Cardinality(Assigned(d)) <= Cardinality(consented[d]) * (1 + expiries[d])
    BY DEF AssignmentsPerClick
  <2>1. /\ Cardinality(Assigned(d)) \in Nat /\ expiries[d] \in Nat
        /\ Cardinality(consented[d]) \in Nat
    BY TripSetsFinite DEF Assigned, TypeInv, TypeOK
  <2> DEFINE due == Unanswered(d) * (1 + expiries[d])
             paid == Cardinality(consented[d]) * (1 + expiries[d])
  <2>2. due \in Nat /\ paid \in Nat
    BY <2>1 DEF Unanswered
  <2>3. Cardinality(Assigned(d)) + due <= paid
    BY DEF ConsentInv
  <2>4. Cardinality(Assigned(d)) <= paid
    <3> HIDE DEF due, paid
    <3>. QED
      BY <2>1, <2>2, <2>3
  <2>. QED
    BY <2>4
<1>. QED
  BY <1>1, InitType, NextType, InitOpen, NextOpen, InitConsent, NextConsent, PTL
     DEF Spec
=============================================================================
