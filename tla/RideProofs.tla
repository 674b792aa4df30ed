------------------------------ MODULE RideProofs ------------------------------
(***************************************************************************)
(* Proofs about Ride, for any tabs, drivers, fares and number of rides.    *)
(*                                                                         *)
(* Inductive invariants, each beside the types: what a driver with one tab *)
(* has earned (WalletAccounted is inductive as it stands), which PIN an    *)
(* offer carries and a page has drawn (PinsAgree), why the PIN of a driver *)
(* who waits is on the rider's page or not (CardIsTold), how the last      *)
(* message a tab has posted relates to its stage (Told), and the order of  *)
(* all messages of a tab while a single offer was ever accepted (OneRide). *)
(***************************************************************************)
EXTENDS Ride, SequenceTheorems, TLAPS

Message == [type : {"offer", "rating", "tip"}, trip : Carried]
Sent == {"ACCEPTED_EN_ROUTE_PICKUP", "ARRIVED_AT_PICKUP", "IN_TRANSIT",
         "ARRIVED_AT_DESTINATION", "COMPLETED"}
TabState == [online : BOOLEAN, offer : Carried, declining : BOOLEAN, trip : Carried,
             stage : DrivingStages \cup {"MATCHING"}, money : Nat, next : Nat,
             tipped : Nat]

LEMMA Stages ==
  /\ DrivingStages = {"ACCEPTED_EN_ROUTE_PICKUP", "ARRIVED_AT_PICKUP", "IN_TRANSIT",
                      "ARRIVED_AT_DESTINATION"}
  /\ PickupStages \subseteq DrivingStages
BY DEF DrivingStages, Driving, PickupStages, ToSet

\* The rider's page is opened anew, and creates no more trips than were asked for.
OpensRider == OpensAnew /\ creating' \subseteq creating \cup carding

LEMMA Opened ==
  ASSUME ReloadRider \/ LeaveRider
  PROVE  OpensRider
BY DEF ReloadRider, LeaveRider, OpensRider

LEMMA TurnsTyped ==
  ASSUME NEW s, Turns(s)
  PROVE  covered' \in BOOLEAN
BY DEF Turns

\* The disjuncts of a step.
LEMMA StepCases ==
  ASSUME [Next]_vars
  PROVE  \/ handleRequestRide \/ handleCancelTrip \/ OpensRider
         \/ \E n \in carding : CardReady(n) \/ CardFails(n)
         \/ \E tip \in Ratings : handleSubmitRating(tip)
         \/ \E n \in creating : CreateReply(n)
         \/ \E t \in Tab :
              \/ RiderHears(t) \/ HearOffer(t)
              \/ \E n \in 1 .. asked : HearBackendOffer(t, n)
              \/ Countdown(t) \/ handleAcceptOffer(t)
              \/ handleDeclineOffer(t) \/ DeclineReply(t) \/ ToggleOnline(t)
              \/ ArriveAtPickup(t) \/ handleVerifyOtpAndStart(t) \/ ArriveAtDropoff(t)
              \/ handleCompleteTrip(t)
              \/ HearRating(t) \/ StorageEvent(t) \/ Render(t) \/ ReloadTab(t)
         \/ UNCHANGED vars
BY Opened DEF Next, ArriveAtPickup, handleSimulateArrivePickup, ArriveAtDropoff,
       handleSimulateArriveDropoff

-----------------------------------------------------------------------------
(* Types *)

LEMMA SessionDriver ==
  ASSUME TypeOK, NEW t \in Tab
  PROVE  session[t] \in Driver /\ session \in [Tab -> Driver]
BY RideAssumption DEF TypeOK

\* Posting keeps the types of the mail.
LEMMA PostStageTyped ==
  ASSUME TypeOK, NEW t \in Tab, NEW s \in Sent, PostStage(t, s)
  PROVE  toRider' \in [Tab -> Seq(DrivingStages \cup {"COMPLETED"})]
<1>1. s \in DrivingStages \cup {"COMPLETED"}
  BY Stages DEF Sent
<1>2. Append(toRider[t], s) \in Seq(DrivingStages \cup {"COMPLETED"})
  BY <1>1, AppendProperties DEF TypeOK
<1>. QED BY <1>2 DEF PostStage, TypeOK

LEMMA PostToTabsTyped ==
  ASSUME TypeOK, NEW m \in Message, PostToTabs(m)
  PROVE  toTab' \in [Tab -> Seq(Message)]
<1>1. \A t \in Tab : Append(toTab[t], m) \in Seq(Message)
  BY AppendProperties DEF TypeOK, Message
<1>. QED BY <1>1 DEF PostToTabs

\* A tab takes its next message.
LEMMA TakeTyped ==
  ASSUME TypeOK, NEW t \in Tab, toTab[t] # <<>>
  PROVE  /\ Head(toTab[t]) \in Message
         /\ [toTab EXCEPT ![t] = Tail(@)] \in [Tab -> Seq(Message)]
<1>1. toTab[t] \in Seq(Message) /\ toTab \in [Tab -> Seq(Message)]
  BY DEF TypeOK, Message
<1>2. Head(toTab[t]) \in Message /\ Tail(toTab[t]) \in Seq(Message)
  BY <1>1, HeadTailProperties
<1>. QED BY <1>1, <1>2

\* A tab whose parts stay typed stays typed, and so does a new one.
LEMMA NewTabTyped ==
  ASSUME TypeOK, NEW t \in Tab
  PROVE  NewTab(session[t]) \in TabState
<1>1. NoTrip \in Carried
  BY DEF NoTrip, Carried, TypeOK
<1>2. store[session[t]] \in Nat
  BY SessionDriver DEF TypeOK
<1>. QED BY <1>1, <1>2 DEF NewTab, TabState

\* What an action that leaves the number of requests alone has to keep.
LEMMA TypeKept ==
  ASSUME TypeOK, asked' = asked, session' = session,
         rider' \in [stage : RiderStages, modal : BOOLEAN, pin : 0 .. asked],
         carding' \subseteq 1 .. asked, creating' \subseteq 1 .. asked,
         tab' \in [Tab -> TabState],
         store' \in [Driver -> Nat], due' \in [Driver -> Nat],
         toRider' \in [Tab -> Seq(DrivingStages \cup {"COMPLETED"})],
         toTab' \in [Tab -> Seq(Message)],
         events' \subseteq Tab, raced' \subseteq Driver,
         accepts' \in Nat, reloads' \in Nat, drawn' \in 0 .. asked,
         covered' \in BOOLEAN, spent' \in Nat
  PROVE  TypeOK'
BY DEF TypeOK, TabState, Message, Carried

\* Every step keeps the types.
LEMMA TypeStep == TypeOK /\ [Next]_vars => TypeOK'
<1> SUFFICES ASSUME TypeOK, [Next]_vars PROVE TypeOK'
  OBVIOUS
<1> USE DEF wallets, mail, ghosts, bounds, Spends, SpendsAfter
<1> DEFINE Rider(n) == [stage : RiderStages, modal : BOOLEAN, pin : 0 .. n]
<1>a. asked \in Nat
  BY DEF TypeOK
<1>b. NoTrip \in Carried
  BY <1>a DEF NoTrip, Carried
<1>c. /\ rider \in Rider(asked)
      /\ carding \subseteq 1 .. asked /\ creating \subseteq 1 .. asked
  BY DEF TypeOK
<1>d. tab \in [Tab -> TabState]
  BY DEF TypeOK, TabState
<1>e. toTab \in [Tab -> Seq(Message)]
      /\ toRider \in [Tab -> Seq(DrivingStages \cup {"COMPLETED"})]
  BY DEF TypeOK, Message
<1>f. /\ store \in [Driver -> Nat] /\ due \in [Driver -> Nat]
      /\ events \subseteq Tab /\ raced \subseteq Driver
  BY DEF TypeOK
<1>g. /\ accepts \in Nat /\ reloads \in Nat /\ spent \in Nat
      /\ drawn \in 0 .. asked /\ covered \in BOOLEAN
  BY DEF TypeOK
<1>0. /\ rider \in Rider(asked)
      /\ tab \in [Tab -> TabState] /\ toTab \in [Tab -> Seq(Message)]
      /\ store \in [Driver -> Nat] /\ due \in [Driver -> Nat]
      /\ toRider \in [Tab -> Seq(DrivingStages \cup {"COMPLETED"})]
      /\ events \subseteq Tab /\ raced \subseteq Driver
      /\ carding \subseteq 1 .. asked /\ creating \subseteq 1 .. asked
      /\ accepts \in Nat /\ reloads \in Nat /\ spent \in Nat
      /\ drawn \in 0 .. asked /\ covered \in BOOLEAN
  BY <1>c, <1>d, <1>e, <1>f, <1>g
<1>h. ASSUME NEW t \in Tab, NEW r \in TabState, tab' = [tab EXCEPT ![t] = r]
      PROVE  tab' \in [Tab -> TabState]
  BY <1>d, <1>h
<1>1. CASE handleRequestRide
  <2>1. asked' \in Nat /\ 0 .. asked \subseteq 0 .. asked' /\ asked' = asked + 1
    BY <1>a, <1>1 DEF handleRequestRide
  <2>2. Message \subseteq [type : {"offer", "rating", "tip"}, trip : Carried']
    BY <2>1 DEF Message, Carried
  <2>3. toTab' \in [Tab -> Seq([type : {"offer", "rating", "tip"}, trip : Carried'])]
    <3>1. \A t \in Tab :
            toTab[t] \in Seq([type : {"offer", "rating", "tip"}, trip : Carried'])
      BY <1>e, <2>2, SeqMonotonic
    <3>. QED BY <1>e, <1>1, <3>1 DEF handleRequestRide
  <2>4. tab' \in [Tab -> [online : BOOLEAN, offer : Carried', declining : BOOLEAN,
                          trip : Carried', stage : DrivingStages \cup {"MATCHING"},
                          money : Nat, next : Nat, tipped : Nat]]
    BY <1>d, <1>1, <2>1 DEF handleRequestRide, TabState, Carried
  <2>5. rider' \in Rider(asked') /\ drawn' \in 0 .. asked'
    BY <1>c, <1>g, <1>1, <2>1 DEF handleRequestRide
  <2>6. carding' \subseteq 1 .. asked' /\ creating' \subseteq 1 .. asked'
    BY <1>a, <1>c, <1>1 DEF handleRequestRide
  <2>7. UNCHANGED <<session, store, due, toRider, events, raced, accepts, reloads,
                    covered>>
    BY <1>1 DEF handleRequestRide
  <2>8. spent' \in Nat
    BY <1>g, <1>1 DEF handleRequestRide
  <2>. QED BY <1>0, <2>1, <2>3, <2>4, <2>5, <2>6, <2>7, <2>8 DEF TypeOK
<1>2. CASE handleCancelTrip
  <2>1. rider' \in Rider(asked)
    <3>1. rider' = [rider EXCEPT !.stage = "idle", !.modal = FALSE]
      BY <1>2 DEF handleCancelTrip
    <3>2. "idle" \in RiderStages
      BY DEF RiderStages
    <3>. QED BY <1>c, <3>1, <3>2
  <2>2. spent' \in Nat /\ covered' \in BOOLEAN
    BY <1>g, <1>2, TurnsTyped DEF handleCancelTrip
  <2>. QED BY <1>0, <1>2, <2>1, <2>2, TypeKept DEF handleCancelTrip
<1>3. CASE OpensRider
  <2>1. rider' \in Rider(asked) /\ spent' \in Nat /\ drawn' \in 0 .. asked
        /\ covered' \in BOOLEAN
    BY <1>a, <1>g, <1>3 DEF OpensRider, OpensAnew, NewPage, RiderStages, DefaultPin
  <2>2. toRider' \in [Tab -> Seq(DrivingStages \cup {"COMPLETED"})]
    BY <1>3, EmptySeq DEF OpensRider, OpensAnew
  <2>3. carding' \subseteq 1 .. asked /\ creating' \subseteq 1 .. asked
    BY <1>c, <1>3 DEF OpensRider, OpensAnew
  <2>. QED BY <1>0, <1>3, <2>1, <2>2, <2>3, TypeKept DEF OpensRider, OpensAnew
<1>18. ASSUME NEW n \in carding, CardReady(n)
       PROVE  TypeOK'
  <2>1. n \in 1 .. asked /\ n \in 0 .. asked
    BY <1>a, <1>c
  <2>2. rider' \in Rider(asked)
    <3>1. rider' = [rider EXCEPT !.stage = "MATCHING", !.pin = n]
      BY <1>18 DEF CardReady
    <3>2. "MATCHING" \in RiderStages
      BY DEF RiderStages
    <3>. QED BY <1>c, <2>1, <3>1, <3>2
  <2>3. drawn' \in 0 .. asked /\ covered' \in BOOLEAN
    BY <1>18, <2>1, TurnsTyped DEF CardReady
  <2>4. carding' \subseteq 1 .. asked /\ creating' \subseteq 1 .. asked
    BY <1>c, <1>18, <2>1 DEF CardReady
  <2>. QED BY <1>0, <1>18, <2>2, <2>3, <2>4, TypeKept DEF CardReady
<1>19. ASSUME NEW n \in carding, CardFails(n)
       PROVE  TypeOK'
  <2>1. carding' \subseteq 1 .. asked
    BY <1>c, <1>19 DEF CardFails
  <2>. QED BY <1>0, <1>19, <2>1, TypeKept DEF CardFails
<1>4. ASSUME NEW tip \in Ratings, handleSubmitRating(tip)
      PROVE  TypeOK'
  <2>1. rider' \in Rider(asked)
    <3>1. rider' = [rider EXCEPT !.modal = FALSE, !.stage = "COMPLETED"]
      BY <1>4 DEF handleSubmitRating
    <3>2. "COMPLETED" \in RiderStages
      BY DEF RiderStages
    <3>. QED BY <1>c, <3>1, <3>2
  <2>2. [type |-> IF tip > 0 THEN "tip" ELSE "rating", trip |-> NoTrip] \in Message
    BY <1>b DEF Message
  <2>3. toTab' \in [Tab -> Seq(Message)] /\ covered' \in BOOLEAN
    BY <1>4, <2>2, PostToTabsTyped, TurnsTyped DEF handleSubmitRating
  <2>. QED BY <1>0, <1>4, <2>1, <2>3, TypeKept DEF handleSubmitRating
<1>5. ASSUME NEW n \in creating, CreateReply(n)
      PROVE  TypeOK'
  <2>1. n \in 0 .. asked
    BY <1>0
  <2>3. OfferOf(n) \in Message
    BY <2>1 DEF OfferOf, Message, Carried
  <2>4. toTab' \in [Tab -> Seq(Message)]
    BY <1>5, <2>3, PostToTabsTyped DEF CreateReply
  <2>5. creating' \subseteq 1 .. asked
    BY <1>c, <1>5 DEF CreateReply
  <2>. QED BY <1>0, <1>5, <2>4, <2>5, TypeKept DEF CreateReply
<1>6. ASSUME NEW t \in Tab, RiderHears(t)
      PROVE  TypeOK'
  <2>1. Head(toRider[t]) \in DrivingStages \cup {"COMPLETED"}
        /\ Tail(toRider[t]) \in Seq(DrivingStages \cup {"COMPLETED"})
    BY <1>0, <1>6, HeadTailProperties DEF RiderHears
  <2>2. rider' \in Rider(asked)
    BY <1>0, <1>6, <2>1 DEF RiderHears, RiderStages
  <2>3. toRider' \in [Tab -> Seq(DrivingStages \cup {"COMPLETED"})]
    BY <1>0, <1>6, <2>1 DEF RiderHears
  <2>4. covered' \in BOOLEAN
    BY <1>6, TurnsTyped DEF RiderHears
  <2>. QED BY <1>0, <1>6, <2>2, <2>3, <2>4, TypeKept DEF RiderHears
<1>7. ASSUME NEW t \in Tab, NEW o \in Carried, Shows(t, o)
      PROVE  tab' \in [Tab -> TabState]
  <2>1. tab' = tab \/ tab' = [tab EXCEPT ![t] = [tab[t] EXCEPT !.offer = o]]
    BY <1>7 DEF Shows
  <2>2. tab[t] \in TabState
    BY <1>d
  <2>3. [tab[t] EXCEPT !.offer = o] \in TabState
    BY <2>2 DEF TabState
  <2>. QED BY <1>d, <1>h, <2>1, <2>3
<1>8. ASSUME NEW t \in Tab, HearOffer(t)
      PROVE  TypeOK'
  <2>1. Head(toTab[t]).trip \in Carried /\ toTab' \in [Tab -> Seq(Message)]
    BY <1>8, TakeTyped DEF HearOffer, Message
  <2>. QED BY <1>0, <1>7, <1>8, <2>1, TypeKept DEF HearOffer
<1>9. ASSUME NEW t \in Tab, NEW n \in 1 .. asked, HearBackendOffer(t, n)
      PROVE  TypeOK'
  <2>1. [n |-> n, pin |-> DefaultPin, direct |-> FALSE] \in Carried
    BY <1>a DEF Carried, DefaultPin
  <2>. QED BY <1>0, <1>7, <1>9, <2>1, TypeKept DEF HearBackendOffer
<1>10. ASSUME NEW t \in Tab, Countdown(t) \/ handleDeclineOffer(t) \/ DeclineReply(t)
                             \/ ToggleOnline(t)
       PROVE  TypeOK'
  <2>1. tab' \in [Tab -> TabState]
    <3>1. PICK r : /\ r \in {[tab[t] EXCEPT !.offer = NoTrip],
                            [tab[t] EXCEPT !.declining = TRUE],
                            [tab[t] EXCEPT !.declining = FALSE, !.offer = NoTrip],
                            [tab[t] EXCEPT !.online = ~ @]}
                   /\ tab' = [tab EXCEPT ![t] = r]
      BY <1>10 DEF Countdown, handleDeclineOffer, DeclineReply, ToggleOnline
    <3>2. tab[t] \in TabState
      BY <1>d
    <3>3. r \in TabState
      BY <1>b, <3>1, <3>2 DEF TabState
    <3>. QED BY <1>h, <3>1, <3>3
  <2>. QED
    BY <1>0, <1>10, <2>1, TypeKept
       DEF Countdown, handleDeclineOffer, DeclineReply, ToggleOnline
<1>11. ASSUME NEW t \in Tab, handleAcceptOffer(t)
       PROVE  TypeOK'
  <2>1. tab' \in [Tab -> TabState]
    <3> DEFINE r == [tab[t] EXCEPT !.offer = NoTrip, !.trip = tab[t].offer,
                                   !.stage = "ACCEPTED_EN_ROUTE_PICKUP"]
    <3>1. tab' = [tab EXCEPT ![t] = r]
      BY <1>11 DEF handleAcceptOffer
    <3>2. tab[t] \in TabState
      BY <1>d
    <3>3. r \in TabState
      BY <1>b, <3>2, Stages DEF TabState
    <3>. QED BY <1>h, <3>1, <3>3
  <2>2. toRider' \in [Tab -> Seq(DrivingStages \cup {"COMPLETED"})]
    BY <1>11, PostStageTyped DEF handleAcceptOffer, Sent
  <2>. QED BY <1>0, <1>11, <2>1, <2>2, TypeKept DEF handleAcceptOffer
<1>12. ASSUME NEW t \in Tab, NEW from, NEW to \in Sent \ {"COMPLETED"},
              Advances(t, from, to)
       PROVE  TypeOK'
  <2>1. tab' \in [Tab -> TabState]
    <3>1. tab' = [tab EXCEPT ![t] = [tab[t] EXCEPT !.stage = to]]
      BY <1>12 DEF Advances
    <3>2. tab[t] \in TabState
      BY <1>d
    <3>3. [tab[t] EXCEPT !.stage = to] \in TabState
      BY <3>2, Stages DEF TabState, Sent
    <3>. QED BY <1>h, <3>1, <3>3
  <2>2. toRider' \in [Tab -> Seq(DrivingStages \cup {"COMPLETED"})]
    BY <1>12, PostStageTyped DEF Advances
  <2>. QED BY <1>0, <1>12, <2>1, <2>2, TypeKept DEF Advances
<1>13. ASSUME NEW t \in Tab, handleCompleteTrip(t)
       PROVE  TypeOK'
  <2>1. tab[t].money + Net \in Nat /\ session[t] \in Driver
    BY <1>d, SessionDriver, RideAssumption DEF TabState
  <2>2. tab' \in [Tab -> TabState]
    <3> DEFINE r == [tab[t] EXCEPT !.trip = NoTrip, !.stage = "MATCHING",
                       !.money = tab[t].money + Net, !.next = tab[t].money + Net,
                       !.tipped = 0]
    <3>1. tab' = [tab EXCEPT ![t] = r]
      BY <1>13 DEF handleCompleteTrip
    <3>2. tab[t] \in TabState
      BY <1>d
    <3>3. r \in TabState
      BY <1>b, <2>1, <3>2 DEF TabState
    <3>. QED BY <1>h, <3>1, <3>3
  <2>3. store' \in [Driver -> Nat] /\ events' \subseteq Tab
    <3>1. tab[t].tipped \in Nat
      BY <1>d DEF TabState
    <3>. QED BY <1>f, <1>13, <2>1, <3>1 DEF handleCompleteTrip, Stores
  <2>4. due' \in [Driver -> Nat] /\ raced' \subseteq Driver
    <3>1. due[session[t]] + Net \in Nat
      BY <1>f, <2>1, RideAssumption
    <3>. QED BY <1>f, <1>13, <2>1, <3>1 DEF handleCompleteTrip, Races
  <2>5. toRider' \in [Tab -> Seq(DrivingStages \cup {"COMPLETED"})]
    BY <1>13, PostStageTyped DEF handleCompleteTrip, Sent
  <2>. QED BY <1>0, <1>13, <2>2, <2>3, <2>4, <2>5, TypeKept DEF handleCompleteTrip
<1>14. ASSUME NEW t \in Tab, HearRating(t)
       PROVE  TypeOK'
  <2> DEFINE sum == tab[t].next + Tip
  <2>1. sum \in Nat /\ session[t] \in Driver
    BY <1>d, SessionDriver, RideAssumption DEF TabState
  <2>2. tab' \in [Tab -> TabState]
    <3>1. \/ tab' = tab
          \/ tab' = [tab EXCEPT ![t] = [tab[t] EXCEPT !.next = sum, !.tipped = sum]]
      BY <1>14 DEF HearRating
    <3>2. tab[t] \in TabState
      BY <1>d
    <3> HIDE DEF sum
    <3>3. [tab[t] EXCEPT !.next = sum, !.tipped = sum] \in TabState
      BY <2>1, <3>2 DEF TabState
    <3>. QED BY <1>d, <1>h, <3>1, <3>3
  <2>3. events' \subseteq Tab
    BY <1>f, <1>14 DEF HearRating
  <2>4. due' \in [Driver -> Nat]
    <3>1. due[session[t]] + Tip \in Nat
      BY <1>f, <2>1, RideAssumption
    <3>2. due' = due \/ due' = [due EXCEPT ![session[t]] = @ + Tip]
      BY <1>14 DEF HearRating
    <3>. QED BY <1>f, <2>1, <3>1, <3>2
  <2>5. toTab' \in [Tab -> Seq(Message)]
    BY <1>14, TakeTyped DEF HearRating
  <2>. QED BY <1>0, <1>14, <2>2, <2>3, <2>4, <2>5, TypeKept DEF HearRating
<1>r. ASSUME NEW t \in Tab, Races(t)
      PROVE  raced' \subseteq Driver
  BY <1>f, <1>r, SessionDriver DEF Races
<1>15. ASSUME NEW t \in Tab, StorageEvent(t)
       PROVE  TypeOK'
  <2>1. tab' \in [Tab -> TabState]
    <3>1. PICK v : /\ v \in {store[session[t]], tab[t].next}
                   /\ tab' = [tab EXCEPT ![t] = [tab[t] EXCEPT !.next = v]]
      BY <1>15 DEF StorageEvent
    <3>2. tab[t] \in TabState /\ v \in Nat
      BY <1>d, <1>f, <3>1, SessionDriver DEF TabState
    <3>3. [tab[t] EXCEPT !.next = v] \in TabState
      BY <3>2 DEF TabState
    <3>. QED BY <1>h, <3>1, <3>3
  <2>2. raced' \subseteq Driver /\ events' \subseteq Tab
    BY <1>f, <1>r, <1>15 DEF StorageEvent
  <2>. QED BY <1>0, <1>15, <2>1, <2>2, TypeKept DEF StorageEvent
<1>20. ASSUME NEW t \in Tab, Render(t)
       PROVE  TypeOK'
  <2>0. tab[t] \in TabState
    BY <1>d
  <2>1. tab' \in [Tab -> TabState]
    <3>1. tab' = [tab EXCEPT ![t] = [tab[t] EXCEPT !.money = tab[t].next, !.tipped = 0]]
      BY <1>20 DEF Render
    <3>2. [tab[t] EXCEPT !.money = tab[t].next, !.tipped = 0] \in TabState
      BY <2>0 DEF TabState
    <3>. QED BY <1>h, <3>1, <3>2
  <2>2. store' \in [Driver -> Nat] /\ events' \subseteq Tab
    BY <1>f, <1>20, <2>0, SessionDriver DEF Render, Stores, TabState
  <2>. QED BY <1>0, <1>20, <2>1, <2>2, TypeKept DEF Render
<1>16. ASSUME NEW t \in Tab, ReloadTab(t)
       PROVE  TypeOK'
  <2>1. tab' \in [Tab -> TabState]
    BY <1>0, <1>16, NewTabTyped DEF ReloadTab
  <2>2. toTab' \in [Tab -> Seq(Message)]
    BY <1>0, <1>16, EmptySeq DEF ReloadTab
  <2>3. raced' \subseteq Driver /\ events' \subseteq Tab
    BY <1>f, <1>r, <1>16 DEF ReloadTab
  <2>. QED BY <1>0, <1>16, <2>1, <2>2, <2>3, TypeKept DEF ReloadTab
<1>17. CASE UNCHANGED vars
  BY <1>17 DEF vars, TypeOK, Carried
<1>. QED
  BY <1>1, <1>2, <1>3, <1>4, <1>5, <1>6, <1>8, <1>9, <1>10, <1>11, <1>12, <1>13, <1>14,
     <1>15, <1>16, <1>17, <1>18, <1>19, <1>20, StepCases
     DEF ArriveAtPickup, handleVerifyOtpAndStart, ArriveAtDropoff, Sent

\* Pages, messages and wallets keep their types: see TypeOK.
THEOREM TypeCorrect == Spec => []TypeOK
<1>1. Init => TypeOK
  <2> SUFFICES ASSUME Init PROVE TypeOK
    OBVIOUS
  <2>1. asked = 0 /\ NoTrip \in Carried
    BY DEF Init, NoTrip, Carried
  <2>2. session \in [Tab -> Driver] /\ store \in [Driver -> Nat] /\ due \in [Driver -> Nat]
    BY RideAssumption DEF Init
  <2>3. \A t \in Tab : NewTab(session[t]) \in TabState
    BY <2>1, <2>2 DEF NewTab, TabState, Init
  <2>4. tab \in [Tab -> TabState]
    BY <2>3 DEF Init
  <2>5. toRider \in [Tab -> Seq(DrivingStages \cup {"COMPLETED"})]
        /\ toTab \in [Tab -> Seq(Message)]
    BY EmptySeq DEF Init
  <2>6. rider \in [stage : RiderStages, modal : BOOLEAN, pin : 0 .. asked]
    <3>1. "idle" \in RiderStages /\ 0 \in 0 .. asked
      BY <2>1 DEF RiderStages
    <3>. QED BY <3>1 DEF Init, NewPage, DefaultPin
  <2>7. /\ carding \subseteq 1 .. asked /\ creating \subseteq 1 .. asked
        /\ events \subseteq Tab /\ raced \subseteq Driver
        /\ covered \in BOOLEAN /\ session \in Sessions
        /\ accepts \in Nat /\ reloads \in Nat /\ asked \in Nat /\ spent \in Nat
    BY DEF Init
  <2>8. drawn \in 0 .. asked
    BY <2>1 DEF Init
  <2>. QED BY <2>2, <2>4, <2>5, <2>6, <2>7, <2>8 DEF TypeOK, TabState, Message
<1>. QED BY <1>1, TypeStep, PTL DEF Spec

-----------------------------------------------------------------------------
(* The earnings of a driver with one tab *)

\* What a tab knows of its earnings.
Purse(t) == <<tab[t].money, tab[t].next, tab[t].tipped>>

\* A completed trip, a rating, a storage event, a render and a reload are all that changes
\* the money of a tab.
LEMMA MoneySteps ==
  ASSUME TypeOK, [Next]_vars
  PROVE  \/ \E t \in Tab : \/ handleCompleteTrip(t) \/ HearRating(t) \/ StorageEvent(t)
                            \/ Render(t) \/ ReloadTab(t)
         \/ /\ \A t \in Tab : Purse(t)' = Purse(t)
            /\ UNCHANGED <<session, store, due, raced>>
<1> USE DEF TypeOK, wallets, Purse
<1>1. ASSUME NEW t \in Tab, NEW o, Shows(t, o)
      PROVE  \A u \in Tab : Purse(u)' = Purse(u)
  BY <1>1 DEF Shows
<1>2. ASSUME NEW t \in Tab, HearOffer(t) \/ \E n \in 1 .. asked : HearBackendOffer(t, n)
      PROVE  /\ \A u \in Tab : Purse(u)' = Purse(u)
             /\ UNCHANGED <<session, store, due, raced>>
  BY <1>1, <1>2 DEF HearOffer, HearBackendOffer
<1>3. ASSUME NEW t \in Tab, Countdown(t) \/ handleDeclineOffer(t) \/ DeclineReply(t)
                            \/ ToggleOnline(t)
      PROVE  /\ \A u \in Tab : Purse(u)' = Purse(u)
             /\ UNCHANGED <<session, store, due, raced>>
  <2>1. PICK r : /\ r \in {[tab[t] EXCEPT !.offer = NoTrip],
                          [tab[t] EXCEPT !.declining = TRUE],
                          [tab[t] EXCEPT !.declining = FALSE, !.offer = NoTrip],
                          [tab[t] EXCEPT !.online = ~ @]}
                 /\ tab' = [tab EXCEPT ![t] = r]
    BY <1>3 DEF Countdown, handleDeclineOffer, DeclineReply, ToggleOnline
  <2>2. r.money = tab[t].money /\ r.next = tab[t].next /\ r.tipped = tab[t].tipped
    BY <2>1
  <2>3. UNCHANGED <<session, store, due, raced>>
    BY <1>3 DEF Countdown, handleDeclineOffer, DeclineReply, ToggleOnline
  <2>. QED BY <2>1, <2>2, <2>3
<1>4. ASSUME NEW t \in Tab, handleAcceptOffer(t)
      PROVE  /\ \A u \in Tab : Purse(u)' = Purse(u)
             /\ UNCHANGED <<session, store, due, raced>>
  BY <1>4 DEF handleAcceptOffer
<1>5. ASSUME NEW t \in Tab, NEW from, NEW to, Advances(t, from, to)
      PROVE  /\ \A u \in Tab : Purse(u)' = Purse(u)
             /\ UNCHANGED <<session, store, due, raced>>
  BY <1>5 DEF Advances
<1>6. ASSUME handleRequestRide \/ handleCancelTrip \/ OpensRider
             \/ (\E n \in carding : CardReady(n) \/ CardFails(n))
             \/ (\E tip \in Ratings : handleSubmitRating(tip))
             \/ (\E n \in creating : CreateReply(n)) \/ (\E t \in Tab : RiderHears(t))
             \/ UNCHANGED vars
      PROVE  UNCHANGED <<tab, session, store, due, raced>>
  BY <1>6
     DEF handleRequestRide, handleCancelTrip, OpensRider, OpensAnew, CardReady, CardFails,
         handleSubmitRating, CreateReply, RiderHears, vars
<1>7. ASSUME NEW t \in Tab,
             ArriveAtPickup(t) \/ handleVerifyOtpAndStart(t) \/ ArriveAtDropoff(t)
      PROVE  /\ \A u \in Tab : Purse(u)' = Purse(u)
             /\ UNCHANGED <<session, store, due, raced>>
  BY <1>5, <1>7 DEF ArriveAtPickup, handleVerifyOtpAndStart, ArriveAtDropoff
<1>8. UNCHANGED <<tab, session, store, due, raced>>
        => /\ \A u \in Tab : Purse(u)' = Purse(u)
           /\ UNCHANGED <<session, store, due, raced>>
  OBVIOUS
<1> HIDE DEF TypeOK, wallets, Purse
<1>. QED BY <1>2, <1>3, <1>4, <1>6, <1>7, <1>8, StepCases

\* The account of a tab of its own: money shown, to be shown, to be stored and stored, and
\* what is due.
Sound(money, next, tipped, stored, owed, race) ==
  /\ {money, next, tipped, stored} \subseteq 0 .. owed
  /\ ~ race => /\ money = stored /\ next = owed
               /\ (IF tipped = 0 THEN stored ELSE tipped) = owed

LEMMA Accounts ==
  WalletAccounted <=>
    \A t \in Tab : Alone(t) =>
      Sound(tab[t].money, tab[t].next, tab[t].tipped, store[session[t]], due[session[t]],
            session[t] \in raced)
BY DEF WalletAccounted, Sound

\* No step pays a driver with one tab twice, or loses more than a race does.
LEMMA WalletStep == TypeOK /\ WalletAccounted /\ [Next]_vars => WalletAccounted'
<1> SUFFICES ASSUME TypeOK, WalletAccounted, [Next]_vars,
                    NEW t \in Tab, \A u \in Tab \ {t} : session'[u] # session'[t],
                    NEW d, d = session'[t]
             PROVE  Sound(tab'[t].money, tab'[t].next, tab'[t].tipped, store'[d], due'[d],
                          d \in raced')
  BY DEF WalletAccounted, Alone, Sound
<1>1. session' = session
  BY MoneySteps
     DEF handleCompleteTrip, HearRating, StorageEvent, Render, ReloadTab
<1>2. Sound(tab[t].money, tab[t].next, tab[t].tipped, store[d], due[d], d \in raced)
  BY <1>1, Accounts DEF Alone
<1>3. /\ d \in Driver /\ store[d] \in Nat /\ due[d] \in Nat
      /\ tab[t].money \in Nat /\ tab[t].next \in Nat /\ tab[t].tipped \in Nat
  BY <1>1, SessionDriver DEF TypeOK
<1>4. ASSUME NEW u \in Tab, u # t
      PROVE  session[u] # d
  BY <1>1, <1>4
<1> DEFINE m == tab[t].money
           x == tab[t].next
           p == tab[t].tipped
           s == store[d]
           o == due[d]
           r == d \in raced
<1>a. tab \in [Tab -> TabState] /\ tab[t] \in TabState
  BY DEF TypeOK, TabState
\* What each kind of step makes of the account.
<1>5. /\ Sound(m + Net, m + Net, 0, IF p = 0 THEN m + Net ELSE p, o + Net, r \/ p # 0)
      /\ Sound(m, x + Tip, x + Tip, s, o + Tip, r)
      /\ Sound(m, IF s > 0 THEN s ELSE x, p, s, o, r \/ p # 0)
      /\ Sound(x, x, 0, IF p = 0 THEN s ELSE p, o, r)
      /\ Sound(s, s, 0, s, o, r \/ p # 0)
  <2>1. r \in BOOLEAN /\ m \in Nat /\ x \in Nat /\ p \in Nat /\ s \in Nat /\ o \in Nat
    BY <1>3
  <2>2. Net \in Nat \ {0} /\ Tip \in Nat \ {0}
    BY RideAssumption
  <2>3. Sound(m, x, p, s, o, r)
    BY <1>2
  <2> HIDE DEF m, x, p, s, o, r
  <2>4. /\ m <= o /\ x <= o /\ p <= o /\ s <= o
        /\ ~ r => m = s /\ x = o /\ (IF p = 0 THEN s ELSE p) = o
    BY <2>1, <2>3 DEF Sound
  <2>5. Sound(m + Net, m + Net, 0, IF p = 0 THEN m + Net ELSE p, o + Net, r \/ p # 0)
    BY <2>1, <2>2, <2>4 DEF Sound
  <2>6. Sound(m, x + Tip, x + Tip, s, o + Tip, r)
    BY <2>1, <2>2, <2>4 DEF Sound
  <2>7. Sound(m, IF s > 0 THEN s ELSE x, p, s, o, r \/ p # 0)
    BY <2>1, <2>4 DEF Sound
  <2>8. Sound(x, x, 0, IF p = 0 THEN s ELSE p, o, r)
    BY <2>1, <2>4 DEF Sound
  <2>9. Sound(s, s, 0, s, o, r \/ p # 0)
    BY <2>1, <2>4 DEF Sound
  <2>. QED BY <2>5, <2>6, <2>7, <2>8, <2>9
<1>6. Races(t) => ((d \in raced') <=> (r \/ p # 0))
  BY <1>1 DEF Races
<1> DEFINE Goal == Sound(tab'[t].money, tab'[t].next, tab'[t].tipped, store'[d], due'[d],
                         d \in raced')
<1>7. ASSUME handleCompleteTrip(t)
      PROVE  Goal
  <2>1. tab'[t].money = m + Net /\ tab'[t].next = m + Net /\ tab'[t].tipped = 0
    BY <1>a, <1>7 DEF handleCompleteTrip, TabState
  <2>2. store'[d] = (IF p = 0 THEN m + Net ELSE p) /\ due'[d] = o + Net
    BY <1>1, <1>3, <1>7 DEF handleCompleteTrip, Stores, TypeOK
  <2>3. (d \in raced') <=> (r \/ p # 0)
    BY <1>6, <1>7 DEF handleCompleteTrip
  <2>. QED BY <1>5, <2>1, <2>2, <2>3 DEF Sound
<1>8. ASSUME HearRating(t)
      PROVE  Goal
  <2>1. store' = store /\ raced' = raced
    BY <1>8 DEF HearRating
  <2>2. CASE Head(toTab[t]).type = "tip"
    <3>1. tab'[t].money = m /\ tab'[t].next = x + Tip /\ tab'[t].tipped = x + Tip
      BY <1>a, <1>8, <2>2 DEF HearRating, TabState
    <3>2. due'[d] = o + Tip
      BY <1>1, <1>3, <1>8, <2>2 DEF HearRating, TypeOK
    <3>. QED BY <1>5, <2>1, <3>1, <3>2 DEF Sound
  <2>3. CASE Head(toTab[t]).type # "tip"
    <3>1. tab' = tab /\ due' = due
      BY <1>8, <2>3 DEF HearRating
    <3>. QED BY <1>2, <2>1, <3>1 DEF Sound
  <2>. QED BY <2>2, <2>3
<1>9. ASSUME StorageEvent(t)
      PROVE  Goal
  <2>1. tab'[t].money = m /\ tab'[t].tipped = p /\ tab'[t].next = IF s > 0 THEN s ELSE x
    BY <1>1, <1>a, <1>9 DEF StorageEvent, TabState
  <2>2. store' = store /\ due' = due
    BY <1>9 DEF StorageEvent
  <2>3. (d \in raced') <=> (r \/ p # 0)
    BY <1>6, <1>9 DEF StorageEvent
  <2>. QED BY <1>5, <2>1, <2>2, <2>3 DEF Sound
<1>10. ASSUME Render(t)
       PROVE  Goal
  <2>1. tab'[t].money = x /\ tab'[t].next = x /\ tab'[t].tipped = 0
    BY <1>a, <1>10 DEF Render, TabState
  <2>2. store'[d] = (IF p = 0 THEN s ELSE p) /\ due' = due /\ raced' = raced
    BY <1>1, <1>3, <1>10 DEF Render, Stores, TypeOK
  <2>. QED BY <1>5, <2>1, <2>2 DEF Sound
<1>11. ASSUME ReloadTab(t)
       PROVE  Goal
  <2>1. tab'[t].money = s /\ tab'[t].next = s /\ tab'[t].tipped = 0
    BY <1>1, <1>a, <1>11 DEF ReloadTab, NewTab
  <2>2. store' = store /\ due' = due
    BY <1>11 DEF ReloadTab
  <2>3. (d \in raced') <=> (r \/ p # 0)
    BY <1>6, <1>11 DEF ReloadTab
  <2>. QED BY <1>5, <2>1, <2>2, <2>3 DEF Sound
<1>12. ASSUME NEW u \in Tab, u # t,
              handleCompleteTrip(u) \/ HearRating(u) \/ StorageEvent(u) \/ Render(u)
                \/ ReloadTab(u)
       PROVE  Goal
  <2>1. tab'[t] = tab[t] /\ store'[d] = store[d] /\ due'[d] = due[d]
    BY <1>3, <1>4, <1>12
       DEF handleCompleteTrip, HearRating, StorageEvent, Render, ReloadTab, Stores, TypeOK
  <2>2. (d \in raced') <=> (d \in raced)
    BY <1>4, <1>12
       DEF handleCompleteTrip, HearRating, StorageEvent, Render, ReloadTab, Races
  <2>. QED BY <1>2, <2>1, <2>2 DEF Sound
<1>13. ASSUME \A u \in Tab : Purse(u)' = Purse(u), UNCHANGED <<session, store, due, raced>>
       PROVE  Goal
  <2>1. tab'[t].money = m /\ tab'[t].next = x /\ tab'[t].tipped = p
    BY <1>13 DEF Purse
  <2>. QED BY <1>2, <1>13, <2>1 DEF Sound
<1>. QED BY <1>7, <1>8, <1>9, <1>10, <1>11, <1>12, <1>13, MoneySteps

\* No order of trips, tips, renders and storage events pays a driver with one tab twice, and
\* only a tip that is raced before its render loses anything: see WalletAccounted.
THEOREM WalletCorrect == Spec => []WalletAccounted
<1>1. Init => WalletAccounted
  <2> SUFFICES ASSUME Init, NEW t \in Tab
               PROVE  Sound(tab[t].money, tab[t].next, tab[t].tipped, store[session[t]],
                            due[session[t]], session[t] \in raced)
    BY Accounts
  <2>1. session[t] \in Driver
    BY RideAssumption DEF Init
  <2>2. /\ tab[t].money = 0 /\ tab[t].next = 0 /\ tab[t].tipped = 0
        /\ store[session[t]] = 0 /\ due[session[t]] = 0
    BY <2>1 DEF Init, NewTab
  <2>. QED BY <2>2 DEF Sound
<1>. QED BY <1>1, WalletStep, TypeCorrect, PTL DEF Spec

-----------------------------------------------------------------------------
(* The PIN of a trip *)

\* An offer of the rider's own page has the PIN of its trip and one of the backend the
\* default, wherever it has got to; and the page has the PIN it last drew.
Honest == {o \in [n : Nat, pin : Nat, direct : BOOLEAN] :
             o.pin = IF o.direct THEN o.n ELSE DefaultPin}
HonestMessage == [type : {"offer", "rating", "tip"}, trip : Honest]

PinsAgree ==
  /\ \A t \in Tab : tab[t].offer \in Honest /\ tab[t].trip \in Honest
  /\ toTab \in [Tab -> Seq(HonestMessage)]
  /\ rider.pin = drawn

LEMMA PinsStep == TypeOK /\ PinsAgree /\ [Next]_vars => PinsAgree'
<1> SUFFICES ASSUME TypeOK, PinsAgree, [Next]_vars PROVE PinsAgree'
  OBVIOUS
<1> USE DEF wallets, mail, ghosts, bounds
<1>a. tab \in [Tab -> TabState] /\ toTab \in [Tab -> Seq(HonestMessage)]
  BY DEF TypeOK, TabState, PinsAgree
<1>b. NoTrip \in Honest
  BY DEF NoTrip, Honest
<1>c. \A t \in Tab : tab[t].offer \in Honest /\ tab[t].trip \in Honest
  BY DEF PinsAgree
<1>d. ASSUME NEW m \in HonestMessage, PostToTabs(m)
      PROVE  toTab' \in [Tab -> Seq(HonestMessage)]
  <2>1. \A t \in Tab : Append(toTab[t], m) \in Seq(HonestMessage)
    BY <1>a, AppendProperties
  <2>. QED BY <1>d, <2>1 DEF PostToTabs
<1>e. ASSUME NEW t \in Tab, toTab[t] # <<>>
      PROVE  Head(toTab[t]) \in HonestMessage /\ Tail(toTab[t]) \in Seq(HonestMessage)
  BY <1>a, <1>e, HeadTailProperties
<1>f. ASSUME NEW t \in Tab, NEW r, tab' = [tab EXCEPT ![t] = r],
             r.offer \in Honest, r.trip \in Honest
      PROVE  \A u \in Tab : tab'[u].offer \in Honest /\ tab'[u].trip \in Honest
  BY <1>a, <1>c, <1>f
<1>g. rider \in [stage : RiderStages, modal : BOOLEAN, pin : 0 .. asked]
      /\ rider.pin = drawn
  BY DEF TypeOK, PinsAgree
<1>1. CASE \/ handleRequestRide \/ handleCancelTrip \/ \E n \in carding : CardFails(n)
           \/ \E t \in Tab : RiderHears(t)
  <2>1. rider'.pin = rider.pin /\ UNCHANGED <<drawn, tab, toTab>>
    BY <1>g, <1>1 DEF handleRequestRide, handleCancelTrip, CardFails, RiderHears
  <2>. QED BY <2>1 DEF PinsAgree
<1>2. ASSUME NEW n \in carding, CardReady(n)
      PROVE  PinsAgree'
  <2>1. rider'.pin = n /\ drawn' = n /\ UNCHANGED <<tab, toTab>>
    BY <1>g, <1>2 DEF CardReady
  <2>. QED BY <2>1 DEF PinsAgree
<1>3. CASE OpensRider
  <2>1. rider'.pin = 0 /\ drawn' = 0 /\ UNCHANGED <<tab, toTab>>
    BY <1>3 DEF OpensRider, OpensAnew, NewPage, DefaultPin
  <2>. QED BY <2>1 DEF PinsAgree
<1>4. ASSUME NEW tip \in Ratings, handleSubmitRating(tip)
      PROVE  PinsAgree'
  <2>1. [type |-> IF tip > 0 THEN "tip" ELSE "rating", trip |-> NoTrip] \in HonestMessage
    BY <1>b DEF HonestMessage
  <2>2. toTab' \in [Tab -> Seq(HonestMessage)]
    BY <1>d, <1>4, <2>1 DEF handleSubmitRating
  <2>3. rider'.pin = rider.pin
    BY <1>g, <1>4 DEF handleSubmitRating
  <2>. QED BY <1>4, <2>2, <2>3 DEF handleSubmitRating, PinsAgree
<1>5. ASSUME NEW n \in creating, CreateReply(n)
      PROVE  PinsAgree'
  <2>1. OfferOf(n) \in HonestMessage
    BY DEF OfferOf, HonestMessage, Honest, TypeOK
  <2>2. toTab' \in [Tab -> Seq(HonestMessage)]
    BY <1>d, <1>5, <2>1 DEF CreateReply
  <2>. QED BY <1>5, <2>2 DEF CreateReply, PinsAgree
<1>7. ASSUME NEW t \in Tab, NEW o \in Honest, Shows(t, o)
      PROVE  \A u \in Tab : tab'[u].offer \in Honest /\ tab'[u].trip \in Honest
  <2>1. tab' = tab \/ tab' = [tab EXCEPT ![t] = [tab[t] EXCEPT !.offer = o]]
    BY <1>7 DEF Shows
  <2>2. [tab[t] EXCEPT !.offer = o].offer = o
        /\ [tab[t] EXCEPT !.offer = o].trip = tab[t].trip
    BY <1>a DEF TabState
  <2>. QED BY <1>c, <1>f, <2>1, <2>2
<1>8. ASSUME NEW t \in Tab, HearOffer(t)
      PROVE  PinsAgree'
  <2>1. Head(toTab[t]).trip \in Honest
    BY <1>e, <1>8 DEF HearOffer, HonestMessage
  <2>2. toTab' \in [Tab -> Seq(HonestMessage)]
    BY <1>a, <1>e, <1>8 DEF HearOffer
  <2>. QED BY <1>7, <1>8, <2>1, <2>2 DEF HearOffer, PinsAgree
<1>9. ASSUME NEW t \in Tab, NEW n \in 1 .. asked, HearBackendOffer(t, n)
      PROVE  PinsAgree'
  <2>1. [n |-> n, pin |-> DefaultPin, direct |-> FALSE] \in Honest
    BY DEF Honest, DefaultPin, TypeOK
  <2>. QED BY <1>7, <1>9, <2>1 DEF HearBackendOffer, PinsAgree
<1>10. ASSUME NEW t \in Tab,
              \/ Countdown(t) \/ handleDeclineOffer(t) \/ DeclineReply(t) \/ ToggleOnline(t)
              \/ Render(t) \/ handleAcceptOffer(t) \/ StorageEvent(t)
              \/ \E from, to \in Sent : Advances(t, from, to)
       PROVE  PinsAgree'
  <2> DEFINE Changed(r) == /\ r.offer \in {tab[t].offer, NoTrip}
                           /\ r.trip \in {tab[t].trip, tab[t].offer}
                           /\ tab' = [tab EXCEPT ![t] = r]
  <2>a. tab[t] \in TabState
    BY <1>a
  <2>b. Countdown(t) => Changed([tab[t] EXCEPT !.offer = NoTrip])
    BY <2>a DEF Countdown, TabState
  <2>c. handleDeclineOffer(t) => Changed([tab[t] EXCEPT !.declining = TRUE])
    BY <2>a DEF handleDeclineOffer, TabState
  <2>d. DeclineReply(t) => Changed([tab[t] EXCEPT !.declining = FALSE, !.offer = NoTrip])
    BY <2>a DEF DeclineReply, TabState
  <2>e. ToggleOnline(t) => Changed([tab[t] EXCEPT !.online = ~ @])
    BY <2>a DEF ToggleOnline, TabState
  <2>f. Render(t) => Changed([tab[t] EXCEPT !.money = tab[t].next, !.tipped = 0])
    BY <2>a DEF Render, TabState
  <2>g. handleAcceptOffer(t) =>
          Changed([tab[t] EXCEPT !.offer = NoTrip, !.trip = tab[t].offer,
                                 !.stage = "ACCEPTED_EN_ROUTE_PICKUP"])
    BY <2>a DEF handleAcceptOffer, TabState
  <2>h. ASSUME NEW from, NEW to, Advances(t, from, to)
        PROVE  Changed([tab[t] EXCEPT !.stage = to])
    BY <2>a, <2>h DEF Advances, TabState
  <2>i. StorageEvent(t) =>
          Changed([tab[t] EXCEPT !.next = IF store[session[t]] > 0 THEN store[session[t]]
                                          ELSE tab[t].next])
    BY <2>a DEF StorageEvent, TabState
  <2>1. \E r : Changed(r)
    <3> HIDE DEF Changed
    <3>. QED BY <1>10, <2>b, <2>c, <2>d, <2>e, <2>f, <2>g, <2>h, <2>i
  <2>3. \A u \in Tab : tab'[u].offer \in Honest /\ tab'[u].trip \in Honest
    BY <1>b, <1>c, <1>f, <2>1
  <2>4. UNCHANGED <<toTab, drawn, rider>>
    BY <1>10 DEF Countdown, handleDeclineOffer, DeclineReply, ToggleOnline, Render,
                 handleAcceptOffer, StorageEvent, Advances
  <2>. QED BY <2>3, <2>4 DEF PinsAgree
<1>11. ASSUME NEW t \in Tab, handleCompleteTrip(t)
       PROVE  PinsAgree'
  <2> DEFINE r == [tab[t] EXCEPT !.trip = NoTrip, !.stage = "MATCHING",
                     !.money = tab[t].money + Net, !.next = tab[t].money + Net,
                     !.tipped = 0]
  <2>1. tab' = [tab EXCEPT ![t] = r]
    BY <1>11 DEF handleCompleteTrip
  <2>2. r.offer = tab[t].offer /\ r.trip = NoTrip
    BY <1>a DEF TabState
  <2>3. \A u \in Tab : tab'[u].offer \in Honest /\ tab'[u].trip \in Honest
    BY <1>b, <1>c, <1>f, <2>1, <2>2
  <2>. QED BY <1>11, <2>3 DEF handleCompleteTrip, PinsAgree
<1>12. ASSUME NEW t \in Tab, HearRating(t)
       PROVE  PinsAgree'
  <2> DEFINE sum == tab[t].next + Tip
             r == [tab[t] EXCEPT !.next = sum, !.tipped = sum]
  <2>1. tab' = tab \/ tab' = [tab EXCEPT ![t] = r]
    BY <1>12 DEF HearRating
  <2>2. r.offer = tab[t].offer /\ r.trip = tab[t].trip
    BY <1>a DEF TabState
  <2> HIDE DEF r
  <2>3. \A u \in Tab : tab'[u].offer \in Honest /\ tab'[u].trip \in Honest
    BY <1>c, <1>f, <2>1, <2>2
  <2>4. toTab' \in [Tab -> Seq(HonestMessage)]
    BY <1>a, <1>e, <1>12 DEF HearRating
  <2>. QED BY <1>12, <2>3, <2>4 DEF HearRating, PinsAgree
<1>13. ASSUME NEW t \in Tab, ReloadTab(t)
       PROVE  PinsAgree'
  <2>1. tab' = [tab EXCEPT ![t] = NewTab(session[t])]
    BY <1>13 DEF ReloadTab
  <2>2. \A u \in Tab : tab'[u].offer \in Honest /\ tab'[u].trip \in Honest
    <3>1. NewTab(session[t]).offer = NoTrip /\ NewTab(session[t]).trip = NoTrip
      BY DEF NewTab
    <3>. QED BY <1>b, <1>f, <2>1, <3>1
  <2>3. toTab' \in [Tab -> Seq(HonestMessage)]
    BY <1>a, <1>13, EmptySeq DEF ReloadTab
  <2>. QED BY <1>13, <2>2, <2>3 DEF ReloadTab, PinsAgree
<1>14. CASE UNCHANGED vars
  BY <1>14 DEF vars, PinsAgree
<1>. QED
  BY <1>1, <1>2, <1>3, <1>4, <1>5, <1>8, <1>9, <1>10, <1>11, <1>12, <1>13, <1>14,
     StepCases
     DEF ArriveAtPickup, handleVerifyOtpAndStart, ArriveAtDropoff, Sent

-----------------------------------------------------------------------------
(* The stages a rider is told of *)

\* A step that posts nothing to the rider and moves no tab from its trip and stage, and
\* that keeps the stage the rider sees or turns the page to one that is not driving.
Quiet ==
  /\ UNCHANGED <<toRider, accepts, reloads>>
  /\ \A t \in Tab : tab'[t].trip = tab[t].trip /\ tab'[t].stage = tab[t].stage
  /\ \/ rider'.stage = rider.stage /\ covered' = covered
     \/ rider'.stage \notin DrivingStages /\ Turns(rider'.stage)

\* The steps that matter to what a rider is told.
LEMMA StageSteps ==
  ASSUME TypeOK, [Next]_vars
  PROVE  \/ Quiet \/ OpensRider
         \/ \E t \in Tab :
              \/ RiderHears(t) \/ handleAcceptOffer(t)
              \/ ArriveAtPickup(t) \/ handleVerifyOtpAndStart(t) \/ ArriveAtDropoff(t)
              \/ handleCompleteTrip(t) \/ ReloadTab(t)
<1> USE DEF wallets, mail, ghosts, bounds
<1>a. tab \in [Tab -> TabState]
  BY DEF TypeOK, TabState
<1>b. rider \in [stage : RiderStages, modal : BOOLEAN, pin : 0 .. asked]
  BY DEF TypeOK
<1>1. ASSUME handleRequestRide \/ handleCancelTrip
             \/ (\E n \in carding : CardReady(n) \/ CardFails(n))
             \/ (\E tip \in Ratings : handleSubmitRating(tip))
             \/ \E n \in creating : CreateReply(n)
      PROVE  Quiet
  <2>1. \/ rider'.stage = rider.stage /\ covered' = covered
        \/ rider'.stage \in {"MATCHING", "idle", "COMPLETED"} /\ Turns(rider'.stage)
    <3>1. \A n : CardReady(n) => rider'.stage = "MATCHING" /\ Turns("MATCHING")
      BY <1>b DEF CardReady
    <3>2. handleCancelTrip => rider'.stage = "idle" /\ Turns("idle")
      BY <1>b DEF handleCancelTrip
    <3>3. \A tip :
            handleSubmitRating(tip) => rider'.stage = "COMPLETED" /\ Turns("COMPLETED")
      BY <1>b DEF handleSubmitRating
    <3>4. handleRequestRide \/ (\E n : CreateReply(n) \/ CardFails(n))
            => rider' = rider /\ covered' = covered
      BY DEF CreateReply, handleRequestRide, CardFails
    <3>. QED BY <1>1, <3>1, <3>2, <3>3, <3>4
  <2>2. UNCHANGED <<reloads, accepts, toRider, tab>>
    BY <1>1 DEF handleRequestRide, handleCancelTrip, handleSubmitRating, CreateReply,
                CardReady, CardFails
  <2>. QED BY <2>1, <2>2, Stages DEF Quiet
<1>2. ASSUME NEW t \in Tab, NEW r, tab' = [tab EXCEPT ![t] = r],
             r.trip = tab[t].trip, r.stage = tab[t].stage,
             UNCHANGED <<rider, covered, accepts, reloads, toRider>>
      PROVE  Quiet
  BY <1>a, <1>2 DEF Quiet
<1>3. ASSUME NEW t \in Tab, NEW o, Shows(t, o),
             UNCHANGED <<rider, covered, accepts, reloads, toRider>>
      PROVE  Quiet
  <2>1. tab' = tab \/ tab' = [tab EXCEPT ![t] = [tab[t] EXCEPT !.offer = o]]
    BY <1>3 DEF Shows
  <2>2. [tab[t] EXCEPT !.offer = o].trip = tab[t].trip
        /\ [tab[t] EXCEPT !.offer = o].stage = tab[t].stage
    BY <1>a DEF TabState
  <2>. QED BY <1>2, <1>3, <2>1, <2>2 DEF Quiet
<1>4. ASSUME NEW t \in Tab, HearOffer(t) \/ \E n \in 1 .. asked : HearBackendOffer(t, n)
      PROVE  Quiet
  BY <1>3, <1>4 DEF HearOffer, HearBackendOffer
<1>5. ASSUME NEW t \in Tab,
             \/ Countdown(t) \/ handleDeclineOffer(t) \/ DeclineReply(t) \/ ToggleOnline(t)
             \/ Render(t) \/ StorageEvent(t) \/ HearRating(t)
      PROVE  Quiet
  <2> DEFINE Changed(r) == /\ r.trip = tab[t].trip /\ r.stage = tab[t].stage
                           /\ tab' = [tab EXCEPT ![t] = r]
  <2>a. tab[t] \in TabState
    BY <1>a
  <2>b. Countdown(t) => Changed([tab[t] EXCEPT !.offer = NoTrip])
    BY <2>a DEF Countdown, TabState
  <2>c. handleDeclineOffer(t) => Changed([tab[t] EXCEPT !.declining = TRUE])
    BY <2>a DEF handleDeclineOffer, TabState
  <2>d. DeclineReply(t) => Changed([tab[t] EXCEPT !.declining = FALSE, !.offer = NoTrip])
    BY <2>a DEF DeclineReply, TabState
  <2>e. ToggleOnline(t) => Changed([tab[t] EXCEPT !.online = ~ @])
    BY <2>a DEF ToggleOnline, TabState
  <2>f. Render(t) => Changed([tab[t] EXCEPT !.money = tab[t].next, !.tipped = 0])
    BY <2>a DEF Render, TabState
  <2>g. HearRating(t) =>
          \/ Changed([tab[t] EXCEPT !.next = tab[t].next + Tip,
                                    !.tipped = tab[t].next + Tip])
          \/ Changed(tab[t])
    BY <1>a, <2>a DEF HearRating, TabState
  <2>h. StorageEvent(t) =>
          Changed([tab[t] EXCEPT !.next = IF store[session[t]] > 0 THEN store[session[t]]
                                          ELSE tab[t].next])
    BY <2>a DEF StorageEvent, TabState
  <2>1. \E r : Changed(r)
    <3> HIDE DEF Changed
    <3>. QED BY <1>5, <2>b, <2>c, <2>d, <2>e, <2>f, <2>g, <2>h
  <2>2. UNCHANGED <<rider, covered, accepts, reloads, toRider>>
    BY <1>5 DEF Countdown, handleDeclineOffer, DeclineReply, ToggleOnline, Render,
                StorageEvent, HearRating
  <2>. QED BY <1>2, <2>1, <2>2
<1>6. CASE UNCHANGED vars
  BY <1>6 DEF vars, Quiet
<1>. QED
  BY <1>1, <1>4, <1>5, <1>6, StepCases

\* What a tab posted last is where it is: at a stage, or done.
Current(t) == IF tab[t].trip = NoTrip THEN "COMPLETED" ELSE tab[t].stage
LastIsStage == \A t \in Tab : toRider[t] # <<>> => Last(toRider[t]) = Current(t)

\* A driving stage the rider shows is that of a tab, or a message is under way.
StageHasTab ==
  rider.stage \in DrivingStages =>
    \E t \in Tab : \/ toRider[t] # <<>>
                   \/ tab[t].trip # NoTrip /\ tab[t].stage = rider.stage

Told == reloads = 0 => LastIsStage /\ StageHasTab

LEMMA LastOfAppend ==
  ASSUME NEW S, NEW s \in Seq(S), NEW e \in S
  PROVE  Append(s, e) # <<>> /\ Last(Append(s, e)) = e
BY AppendProperties DEF Last

LEMMA LastOfTail ==
  ASSUME NEW S, NEW s \in Seq(S), s # <<>>
  PROVE  /\ Tail(s) # <<>> => Last(Tail(s)) = Last(s)
         /\ Tail(s) = <<>> => Head(s) = Last(s)
<1> DEFINE q == Tail(s)
<1>1. Len(q) = Len(s) - 1 /\ q \in Seq(S) /\ \A i \in 1 .. Len(q) : q[i] = s[i + 1]
  BY HeadTailProperties
<1>2. Len(s) \in Nat /\ Len(s) # 0 /\ Head(s) = s[1]
  BY EmptySeq
<1> HIDE DEF q
<1>3. q = <<>> <=> Len(q) = 0
  BY <1>1, EmptySeq
<1>4. Len(q) \in Nat
  BY <1>1
<1>5. q # <<>> => Last(q) = Last(s)
  BY <1>1, <1>2, <1>3, <1>4 DEF Last
<1>6. q = <<>> => Head(s) = Last(s)
  BY <1>1, <1>2, <1>3 DEF Last
<1>. QED BY <1>5, <1>6 DEF q

LEMMA ToldKept == Told /\ Quiet => Told'
BY DEF Told, Quiet, LastIsStage, StageHasTab, Current

\* A tab posts the stage it moves to.
Posts(t, s) ==
  /\ PostStage(t, s) /\ Current(t)' = s
  /\ \A u \in Tab \ {t} : tab'[u] = tab[u]
  /\ UNCHANGED <<rider, covered, reloads>>

\* The steps that post: an acceptance, or the next stage of a trip.
LEMMA PostSteps ==
  ASSUME TypeOK, NEW t \in Tab
  PROVE  /\ handleAcceptOffer(t) => /\ Posts(t, "ACCEPTED_EN_ROUTE_PICKUP")
                                   /\ accepts' = accepts + 1
         /\ \A from, to : Advances(t, from, to) =>
              /\ tab[t].trip # NoTrip /\ Current(t) = from
              /\ Posts(t, to) /\ accepts' = accepts
         /\ handleCompleteTrip(t) =>
              /\ tab[t].trip # NoTrip /\ Current(t) = "ARRIVED_AT_DESTINATION"
              /\ Posts(t, "COMPLETED") /\ accepts' = accepts
<1>a. tab \in [Tab -> TabState]
  BY DEF TypeOK, TabState
<1>1. ASSUME handleAcceptOffer(t)
      PROVE  Posts(t, "ACCEPTED_EN_ROUTE_PICKUP") /\ accepts' = accepts + 1
  <2>1. tab' = [tab EXCEPT ![t] = [tab[t] EXCEPT !.offer = NoTrip, !.trip = tab[t].offer,
                                                !.stage = "ACCEPTED_EN_ROUTE_PICKUP"]]
    BY <1>1 DEF handleAcceptOffer
  <2>2. tab'[t].trip = tab[t].offer /\ tab'[t].stage = "ACCEPTED_EN_ROUTE_PICKUP"
        /\ \A u \in Tab \ {t} : tab'[u] = tab[u]
    BY <1>a, <2>1 DEF TabState
  <2>3. Current(t)' = "ACCEPTED_EN_ROUTE_PICKUP"
    BY <1>1, <2>2 DEF handleAcceptOffer, OfferModal, Current
  <2>. QED BY <1>1, <2>2, <2>3 DEF handleAcceptOffer, Posts
<1>2. ASSUME NEW from, NEW to, Advances(t, from, to)
      PROVE  /\ tab[t].trip # NoTrip /\ Current(t) = from
             /\ Posts(t, to) /\ accepts' = accepts
  <2>1. tab' = [tab EXCEPT ![t] = [tab[t] EXCEPT !.stage = to]]
    BY <1>2 DEF Advances
  <2>2. tab'[t].trip = tab[t].trip /\ tab'[t].stage = to
        /\ \A u \in Tab \ {t} : tab'[u] = tab[u]
    BY <1>a, <2>1 DEF TabState
  <2>3. tab[t].trip # NoTrip /\ Current(t) = from /\ Current(t)' = to
    BY <1>2, <2>2 DEF Advances, Hud, Current
  <2>. QED BY <1>2, <2>2, <2>3 DEF Advances, Posts, ghosts
<1>3. ASSUME handleCompleteTrip(t)
      PROVE  /\ tab[t].trip # NoTrip /\ Current(t) = "ARRIVED_AT_DESTINATION"
             /\ Posts(t, "COMPLETED") /\ accepts' = accepts
  <2> DEFINE r == [tab[t] EXCEPT !.trip = NoTrip, !.stage = "MATCHING",
                     !.money = tab[t].money + Net, !.next = tab[t].money + Net,
                     !.tipped = 0]
  <2>1. tab' = [tab EXCEPT ![t] = r]
    BY <1>3 DEF handleCompleteTrip
  <2>2. tab'[t].trip = NoTrip /\ \A u \in Tab \ {t} : tab'[u] = tab[u]
    BY <1>a, <2>1 DEF TabState
  <2>3. /\ tab[t].trip # NoTrip /\ Current(t) = "ARRIVED_AT_DESTINATION"
        /\ Current(t)' = "COMPLETED"
    BY <1>3, <2>2 DEF handleCompleteTrip, Hud, Current
  <2>. QED BY <1>3, <2>2, <2>3 DEF handleCompleteTrip, Posts, ghosts
<1>. QED BY <1>1, <1>2, <1>3

LEMMA ToldPosted ==
  ASSUME TypeOK, Told, NEW t \in Tab, NEW s \in Sent, Posts(t, s)
  PROVE  Told'
<1>1. toRider \in [Tab -> Seq(DrivingStages \cup {"COMPLETED"})]
      /\ s \in DrivingStages \cup {"COMPLETED"}
  BY Stages DEF TypeOK, Sent
<1>2. toRider'[t] # <<>> /\ Last(toRider'[t]) = s
  BY <1>1, LastOfAppend DEF Posts, PostStage
<1>3. \A u \in Tab \ {t} : toRider'[u] = toRider[u]
  BY <1>1 DEF Posts, PostStage
<1>. QED BY <1>2, <1>3 DEF Posts, Told, LastIsStage, StageHasTab, Current

LEMMA ToldStep == TypeOK /\ Told /\ [Next]_vars => Told'
<1> SUFFICES ASSUME TypeOK, Told, [Next]_vars PROVE Told'
  OBVIOUS
<1> USE DEF wallets, mail, ghosts, bounds
<1>a. tab \in [Tab -> TabState]
      /\ toRider \in [Tab -> Seq(DrivingStages \cup {"COMPLETED"})]
  BY DEF TypeOK, TabState
<1>b. rider \in [stage : RiderStages, modal : BOOLEAN, pin : 0 .. asked]
  BY DEF TypeOK
<1>1. CASE Quiet
  BY <1>1, ToldKept
<1>2. CASE OpensRider
  <2>1. /\ \A t \in Tab : toRider'[t] = <<>>
        /\ rider'.stage = "idle"
    BY <1>2 DEF OpensRider, OpensAnew, NewPage
  <2>. QED BY <2>1, Stages DEF Told, LastIsStage, StageHasTab
<1>3. ASSUME NEW t \in Tab, RiderHears(t)
      PROVE  Told'
  <2>1. toRider[t] # <<>> /\ toRider'[t] = Tail(toRider[t])
        /\ \A u \in Tab \ {t} : toRider'[u] = toRider[u]
    BY <1>a, <1>3 DEF RiderHears
  <2>2. rider'.stage = Head(toRider[t])
    BY <1>b, <1>3 DEF RiderHears
  <2>3. /\ toRider'[t] # <<>> => Last(toRider'[t]) = Last(toRider[t])
        /\ toRider'[t] = <<>> => Head(toRider[t]) = Last(toRider[t])
    BY <1>a, <2>1, LastOfTail
  <2>4. UNCHANGED <<tab, reloads>>
    BY <1>3 DEF RiderHears
  <2>. QED
    BY <2>1, <2>2, <2>3, <2>4, Stages DEF Told, LastIsStage, StageHasTab, Current
<1>4. ASSUME NEW t \in Tab,
             \/ handleAcceptOffer(t) \/ handleCompleteTrip(t)
             \/ \E from, to \in Sent : Advances(t, from, to)
      PROVE  Told'
  BY <1>4, PostSteps, ToldPosted DEF Sent
<1>5. ASSUME NEW t \in Tab, ReloadTab(t)
      PROVE  Told'
  BY <1>5 DEF ReloadTab, Told, TypeOK
<1>. QED
  BY <1>1, <1>2, <1>3, <1>4, <1>5, StageSteps
     DEF ArriveAtPickup, handleVerifyOtpAndStart, ArriveAtDropoff, Sent

\* A rider who is told of a driver has a tab at that stage: see RiderSeesADriver.
THEOREM ToldCorrect == Spec => []RiderSeesADriver
<1>1. Init => Told
  BY Stages DEF Init, NewPage, Told, LastIsStage, StageHasTab
<1>2. Told => RiderSeesADriver
  BY DEF Told, StageHasTab, RiderSeesADriver
<1>. QED BY <1>1, <1>2, ToldStep, TypeCorrect, PTL DEF Spec

-----------------------------------------------------------------------------
(* The PIN on the rider's page *)

\* The page is covered only when it has no PIN on it; and a driver who waits has told it
\* so, or is about to: the PIN is on it unless it was covered since.
CardIsTold ==
  /\ covered => rider.stage \notin PickupStages
  /\ \A t \in Tab : Waits(t) =>
       IF toRider[t] = <<>> THEN covered \/ rider.stage \in PickupStages
       ELSE Last(toRider[t]) = tab[t].stage

\* Turning the page to the stage s covers the PIN, or puts it there.
LEMMA Turned ==
  ASSUME NEW s, Turns(s), rider'.stage = s
  PROVE  /\ covered' => rider'.stage \notin PickupStages
         /\ covered \/ rider.stage \in PickupStages
              => covered' \/ rider'.stage \in PickupStages
BY DEF Turns

LEMMA CardStep == TypeOK /\ CardIsTold /\ [Next]_vars => CardIsTold'
<1> SUFFICES ASSUME TypeOK, CardIsTold, [Next]_vars PROVE CardIsTold'
  OBVIOUS
<1>a. tab \in [Tab -> TabState]
      /\ toRider \in [Tab -> Seq(DrivingStages \cup {"COMPLETED"})]
  BY DEF TypeOK, TabState
<1>b. rider \in [stage : RiderStages, modal : BOOLEAN, pin : 0 .. asked]
  BY DEF TypeOK
<1>1. CASE Quiet
  <2>1. /\ covered' => rider'.stage \notin PickupStages
        /\ covered \/ rider.stage \in PickupStages
             => covered' \/ rider'.stage \in PickupStages
    BY <1>1, Turned DEF Quiet, CardIsTold
  <2>2. \A t \in Tab : Waits(t)' => Waits(t) /\ tab'[t].stage = tab[t].stage
    BY <1>1 DEF Quiet, Waits
  <2>3. toRider' = toRider
    BY <1>1 DEF Quiet
  <2>. QED BY <2>1, <2>2, <2>3 DEF CardIsTold
<1>2. CASE OpensRider
  <2>1. /\ \A t \in Tab : toRider'[t] = <<>>
        /\ rider'.stage = "idle" /\ covered'
    BY <1>2 DEF OpensRider, OpensAnew, NewPage
  <2>. QED BY <2>1 DEF CardIsTold, PickupStages
<1>3. ASSUME NEW t \in Tab, RiderHears(t)
      PROVE  CardIsTold'
  <2>1. toRider[t] # <<>> /\ toRider'[t] = Tail(toRider[t])
        /\ \A u \in Tab \ {t} : toRider'[u] = toRider[u]
    BY <1>a, <1>3 DEF RiderHears
  <2>2. rider'.stage = Head(toRider[t]) /\ Turns(rider'.stage) /\ tab' = tab
    BY <1>b, <1>3 DEF RiderHears
  <2>3. /\ covered' => rider'.stage \notin PickupStages
        /\ covered \/ rider.stage \in PickupStages
             => covered' \/ rider'.stage \in PickupStages
    BY <2>2, Turned
  <2>4. /\ toRider'[t] # <<>> => Last(toRider'[t]) = Last(toRider[t])
        /\ toRider'[t] = <<>> => Head(toRider[t]) = Last(toRider[t])
    BY <1>a, <2>1, LastOfTail
  <2>5. ASSUME NEW u \in Tab, Waits(u)'
        PROVE  IF toRider'[u] = <<>> THEN covered' \/ rider'.stage \in PickupStages
               ELSE Last(toRider'[u]) = tab'[u].stage
    <3>1. Waits(u) /\ tab'[u].stage = tab[u].stage /\ tab[u].stage \in PickupStages
      BY <2>2, <2>5 DEF Waits
    <3>2. CASE u = t
      BY <2>1, <2>2, <2>4, <3>1, <3>2 DEF CardIsTold
    <3>3. CASE u # t
      BY <2>1, <2>3, <3>1, <3>3 DEF CardIsTold
    <3>. QED BY <3>2, <3>3
  <2>. QED BY <2>3, <2>5 DEF CardIsTold
<1>4. ASSUME NEW t \in Tab, NEW s \in Sent, Posts(t, s)
      PROVE  CardIsTold'
  <2>1. toRider'[t] # <<>> /\ Last(toRider'[t]) = s
    <3>1. s \in DrivingStages \cup {"COMPLETED"}
      BY Stages DEF Sent
    <3>. QED BY <1>a, <1>4, <3>1, LastOfAppend DEF Posts, PostStage
  <2>2. \A u \in Tab \ {t} : toRider'[u] = toRider[u] /\ tab'[u] = tab[u]
    BY <1>a, <1>4 DEF Posts, PostStage
  <2>3. Waits(t)' => tab'[t].stage = s
    BY <1>4 DEF Posts, Current, Waits
  <2>4. rider' = rider /\ covered' = covered
    BY <1>4 DEF Posts
  <2>5. \A u \in Tab \ {t} : Waits(u)' => Waits(u)
    BY <2>2 DEF Waits
  <2>. QED BY <2>1, <2>2, <2>3, <2>4, <2>5 DEF CardIsTold
<1>5. ASSUME NEW t \in Tab,
             \/ handleAcceptOffer(t) \/ handleCompleteTrip(t)
             \/ \E from, to \in Sent : Advances(t, from, to)
      PROVE  CardIsTold'
  BY <1>4, <1>5, PostSteps DEF Sent
<1>6. ASSUME NEW t \in Tab, ReloadTab(t)
      PROVE  CardIsTold'
  <2>1. /\ tab'[t].trip = NoTrip /\ \A u \in Tab \ {t} : tab'[u] = tab[u]
        /\ UNCHANGED <<rider, toRider, covered>>
    BY <1>a, <1>6 DEF ReloadTab, NewTab
  <2>2. \A u \in Tab : Waits(u)' => u # t /\ Waits(u) /\ tab'[u] = tab[u]
    BY <2>1 DEF Waits
  <2>. QED BY <2>1, <2>2 DEF CardIsTold
<1>. QED
  BY <1>1, <1>2, <1>3, <1>5, <1>6, StageSteps
     DEF ArriveAtPickup, handleVerifyOtpAndStart, ArriveAtDropoff, Sent

\* When a driver who waits can be given the PIN it expects: see DriverCanStart.
THEOREM StartCorrect == Spec => []DriverCanStart
<1>1. Init => PinsAgree /\ CardIsTold
  <2> SUFFICES ASSUME Init PROVE PinsAgree /\ CardIsTold
    OBVIOUS
  <2>1. NoTrip \in Honest
    BY DEF NoTrip, Honest, DefaultPin
  <2>2. \A t \in Tab : tab[t].offer = NoTrip /\ tab[t].trip = NoTrip
    BY DEF Init, NewTab
  <2>3. toTab \in [Tab -> Seq(HonestMessage)]
    BY EmptySeq DEF Init
  <2>4. rider.pin = drawn /\ ~ covered
    BY DEF Init, NewPage, DefaultPin
  <2>. QED BY <2>1, <2>2, <2>3, <2>4 DEF PinsAgree, CardIsTold, Waits
<1>2. PinsAgree /\ CardIsTold => DriverCanStart
  <2> SUFFICES ASSUME PinsAgree, CardIsTold, NEW t \in Tab, Waits(t), toRider[t] = <<>>
               PROVE  tab[t].trip.pin \in PinCard <=>
                        drawn = (IF tab[t].trip.direct THEN tab[t].trip.n ELSE 0)
                        /\ ~ covered
    BY DEF DriverCanStart
  <2>1. tab[t].trip.pin = IF tab[t].trip.direct THEN tab[t].trip.n ELSE 0
    BY DEF PinsAgree, Honest, DefaultPin
  <2>2. ~ covered <=> rider.stage \in PickupStages
    BY DEF CardIsTold
  <2>3. rider.pin = drawn
    BY DEF PinsAgree
  <2>. QED BY <2>1, <2>2, <2>3 DEF PinCard
<1>. QED BY <1>1, <1>2, PinsStep, CardStep, TypeCorrect, PTL DEF Spec

-----------------------------------------------------------------------------
(* The order of the stages *)

\* The rank of a stage, with the end of the trip last.
Order(s) == IF s = "COMPLETED" THEN 5 ELSE Rank(s)

\* What a tab posted is in order: nothing is ahead of the tab, nor behind what the rider
\* is shown.
InOrder(t) ==
  LET Posted == 1 .. Len(toRider[t]) IN
  /\ Current(t) \in Sent
  /\ \A i, j \in Posted : i <= j => Order(toRider[t][i]) <= Order(toRider[t][j])
  /\ \A i \in Posted : Order(toRider[t][i]) <= Order(Current(t))
  /\ rider.stage \in DrivingStages =>
       /\ Order(rider.stage) <= Order(Current(t))
       /\ \A i \in Posted : Order(rider.stage) <= Order(toRider[t][i])

\* A tab that drives nobody, with nothing of it under way.
Silent(t) == toRider[t] = <<>> /\ tab[t].trip = NoTrip

\* One acceptance makes one tab post; before it no stage is shown.
OneRide ==
  /\ accepts = 0 => rider.stage \notin DrivingStages /\ \A t \in Tab : Silent(t)
  /\ accepts = 1 => \E t \in Tab : InOrder(t) /\ \A u \in Tab \ {t} : Silent(u)

LEMMA OrderOfStages ==
  /\ Order("ACCEPTED_EN_ROUTE_PICKUP") = 1 /\ Order("ARRIVED_AT_PICKUP") = 2
  /\ Order("IN_TRANSIT") = 3 /\ Order("ARRIVED_AT_DESTINATION") = 4
  /\ Order("COMPLETED") = 5
<1>1. DOMAIN Driving = 1 .. 4
  BY DEF Driving
<1>2. /\ Driving[1] = "ACCEPTED_EN_ROUTE_PICKUP" /\ Driving[2] = "ARRIVED_AT_PICKUP"
      /\ Driving[3] = "IN_TRANSIT" /\ Driving[4] = "ARRIVED_AT_DESTINATION"
  BY DEF Driving
<1>3. \A i, j \in 1 .. 4 : Driving[i] = Driving[j] => i = j
  BY <1>2
<1>4. \A i \in 1 .. 4 : Rank(Driving[i]) = i
  <2> SUFFICES ASSUME NEW i \in 1 .. 4 PROVE Rank(Driving[i]) = i
    OBVIOUS
  <2>1. \E j \in DOMAIN Driving : Driving[j] = Driving[i]
    BY <1>1
  <2>2. Rank(Driving[i]) \in DOMAIN Driving /\ Driving[Rank(Driving[i])] = Driving[i]
    BY <2>1 DEF Rank
  <2>. QED BY <1>1, <1>3, <2>2
<1>. QED BY <1>2, <1>4 DEF Order

\* Stages sent have a natural order; that of a driving one is its rank.
LEMMA OrderTyped ==
  /\ \A s \in Sent : Order(s) \in Nat
  /\ \A s \in DrivingStages : s \in Sent /\ Order(s) = Rank(s) /\ Rank(s) \in Nat
  /\ Sent = DrivingStages \cup {"COMPLETED"}
BY OrderOfStages, Stages DEF Sent, Order

LEMMA MailTyped ==
  ASSUME TypeOK
  PROVE  /\ toRider \in [Tab -> Seq(Sent)]
         /\ tab \in [Tab -> TabState]
         /\ rider \in [stage : RiderStages, modal : BOOLEAN, pin : 0 .. asked]
         /\ accepts \in Nat
BY OrderTyped DEF TypeOK, TabState

LEMMA OrderKept ==
  ASSUME OneRide, Quiet
  PROVE  OneRide'
<1>1. \A t \in Tab : Silent(t) => Silent(t)'
  BY DEF Quiet, Silent
<1>2. \A t \in Tab : InOrder(t) => InOrder(t)'
  <2> SUFFICES ASSUME NEW t \in Tab, InOrder(t) PROVE InOrder(t)'
    OBVIOUS
  <2>1. Current(t)' = Current(t) /\ toRider'[t] = toRider[t]
    BY DEF Quiet, Current
  <2>2. rider'.stage \in DrivingStages => rider'.stage = rider.stage
    BY DEF Quiet
  <2>. QED BY <2>1, <2>2 DEF InOrder
<1>. QED BY <1>1, <1>2 DEF OneRide, Quiet

\* A tab in order that posts a later stage stays in order.
LEMMA PostInOrder ==
  ASSUME TypeOK, NEW t \in Tab, NEW s \in Sent, Posts(t, s),
         InOrder(t), Order(Current(t)) <= Order(s)
  PROVE  InOrder(t)'
<1> DEFINE q == toRider[t]
           r == Append(q, s)
<1>1. q \in Seq(Sent) /\ toRider'[t] = r
  BY MailTyped DEF Posts, PostStage
<1>2. /\ Len(q) \in Nat /\ Len(r) = Len(q) + 1
      /\ \A i \in 1 .. Len(q) : r[i] = q[i] /\ q[i] \in Sent
      /\ r[Len(q) + 1] = s
  BY <1>1, AppendProperties, LenProperties, ElementOfSeq
<1> HIDE DEF q, r
<1>3. \A i \in 1 .. Len(q) : /\ Order(q[i]) \in Nat /\ Order(q[i]) <= Order(Current(t))
                             /\ \A j \in 1 .. Len(q) : i <= j => Order(q[i]) <= Order(q[j])
  BY <1>2, OrderTyped DEF InOrder, q
<1>4. Order(Current(t)) \in Nat /\ Order(s) \in Nat
  BY OrderTyped DEF InOrder
<1>5. \A i \in 1 .. Len(r) : i \in 1 .. Len(q) \/ i = Len(q) + 1
  BY <1>2
<1>6. \A i \in 1 .. Len(r) : Order(r[i]) <= Order(s)
  BY <1>2, <1>3, <1>4, <1>5
<1>7. \A i, j \in 1 .. Len(r) : i <= j => Order(r[i]) <= Order(r[j])
  <2> SUFFICES ASSUME NEW i \in 1 .. Len(r), NEW j \in 1 .. Len(r), i <= j
               PROVE  Order(r[i]) <= Order(r[j])
    OBVIOUS
  <2>1. CASE j = Len(q) + 1
    BY <1>2, <1>6, <2>1
  <2>2. CASE j \in 1 .. Len(q)
    <3>1. i \in 1 .. Len(q)
      BY <1>2, <2>2
    <3>. QED BY <1>2, <1>3, <2>2, <3>1
  <2>. QED BY <1>5, <2>1, <2>2
<1>8. ASSUME rider.stage \in DrivingStages
      PROVE  /\ Order(rider.stage) <= Order(s)
             /\ \A i \in 1 .. Len(r) : Order(rider.stage) <= Order(r[i])
  <2>1. /\ Order(rider.stage) \in Nat /\ Order(rider.stage) <= Order(Current(t))
        /\ \A i \in 1 .. Len(q) : Order(rider.stage) <= Order(q[i])
    BY <1>8, OrderTyped DEF InOrder, q
  <2>. QED BY <1>2, <1>4, <1>5, <2>1
<1>. QED BY <1>1, <1>6, <1>7, <1>8 DEF InOrder, Posts

\* The first stage of a tab that was silent is in order.
LEMMA FirstInOrder ==
  ASSUME TypeOK, NEW t \in Tab, NEW s \in Sent, Posts(t, s), Silent(t),
         rider.stage \notin DrivingStages
  PROVE  InOrder(t)'
<1>1. toRider'[t] = <<s>>
  BY MailTyped DEF Posts, PostStage, Silent
<1>2. Len(<<s>>) = 1 /\ <<s>>[1] = s
  OBVIOUS
<1>3. \A i \in 1 .. 1 : i = 1
  OBVIOUS
<1>4. Order(s) \in Nat
  BY OrderTyped
<1>. QED BY <1>1, <1>2, <1>3, <1>4 DEF InOrder, Posts

\* Who posts leaves the other tabs as silent as they were.
LEMMA OthersSilent ==
  ASSUME TypeOK, NEW t \in Tab, NEW s \in Sent, Posts(t, s)
  PROVE  \A u \in Tab \ {t} : Silent(u) => Silent(u)'
BY MailTyped DEF Posts, PostStage, Silent

\* A tab on its trip goes to a later stage.
LEMMA OrderPosted ==
  ASSUME TypeOK, OneRide, NEW t \in Tab, NEW s \in Sent, Posts(t, s),
         accepts' = accepts, tab[t].trip # NoTrip, Order(Current(t)) <= Order(s)
  PROVE  OneRide'
<1>1. accepts # 0
  BY DEF OneRide, Silent
<1>2. ASSUME accepts = 1
      PROVE  InOrder(t)' /\ \A u \in Tab \ {t} : Silent(u)'
  <2>1. InOrder(t) /\ \A u \in Tab \ {t} : Silent(u)
    BY <1>2 DEF OneRide, Silent
  <2>. QED BY <2>1, PostInOrder, OthersSilent
<1>. QED BY <1>1, <1>2 DEF OneRide

\* A rider who hears a tab in order is shown no earlier stage, and the tab stays in order.
LEMMA HeardInOrder ==
  ASSUME TypeOK, NEW t \in Tab, RiderHears(t), InOrder(t)
  PROVE  /\ InOrder(t)'
         /\ rider.stage \in DrivingStages => Order(rider.stage) <= Order(rider'.stage)
<1> DEFINE q == toRider[t]
           r == Tail(q)
<1>1. q \in Seq(Sent) /\ q # <<>> /\ toRider'[t] = r
  BY MailTyped DEF RiderHears
<1>2. rider'.stage = q[1]
  BY <1>1, MailTyped DEF RiderHears
<1>3. /\ Len(q) \in Nat \ {0} /\ Len(r) = Len(q) - 1
      /\ \A i \in 1 .. Len(r) : r[i] = q[i + 1]
  BY <1>1, HeadTailProperties, EmptySeq, LenProperties
<1> HIDE DEF q, r
<1>4. 1 \in 1 .. Len(q) /\ \A i \in 1 .. Len(r) : i + 1 \in 1 .. Len(q)
  BY <1>3
<1>5. Current(t)' = Current(t)
  BY DEF RiderHears, Current
<1>6. /\ Current(t) \in Sent
      /\ \A i, j \in 1 .. Len(q) : i <= j => Order(q[i]) <= Order(q[j])
      /\ \A i \in 1 .. Len(q) : Order(q[i]) <= Order(Current(t))
      /\ rider.stage \in DrivingStages =>
           \A i \in 1 .. Len(q) : Order(rider.stage) <= Order(q[i])
  BY DEF InOrder, q
<1>7. \A i, j \in 1 .. Len(r) : i <= j => Order(r[i]) <= Order(r[j])
  BY <1>3, <1>4, <1>6
<1>8. \A i \in 1 .. Len(r) : /\ Order(r[i]) <= Order(Current(t))
                             /\ Order(q[1]) <= Order(r[i])
  BY <1>3, <1>4, <1>6
<1>9. InOrder(t)'
  BY <1>1, <1>2, <1>4, <1>5, <1>6, <1>7, <1>8 DEF InOrder
<1>. QED BY <1>2, <1>4, <1>6, <1>9

LEMMA OrderStep == TypeOK /\ OneRide /\ [Next]_vars => OneRide'
<1> SUFFICES ASSUME TypeOK, OneRide, [Next]_vars PROVE OneRide'
  OBVIOUS
<1>1. CASE Quiet
  BY <1>1, OrderKept
<1>2. CASE OpensRider
  <2>1. /\ rider'.stage = "idle" /\ UNCHANGED <<tab, accepts>>
        /\ \A t \in Tab : toRider'[t] = <<>>
    BY <1>2 DEF OpensRider, OpensAnew, NewPage
  <2>2. \A t \in Tab : Silent(t) => Silent(t)'
    BY <2>1 DEF Silent
  <2>3. "idle" \notin DrivingStages
    BY Stages
  <2>4. \A t \in Tab : InOrder(t) => InOrder(t)'
    BY <2>1, <2>3 DEF InOrder, Current
  <2>. QED BY <2>1, <2>2, <2>3, <2>4 DEF OneRide
<1>3. ASSUME NEW t \in Tab, RiderHears(t)
      PROVE  OneRide'
  <2>1. /\ toRider[t] # <<>> /\ UNCHANGED <<tab, accepts>>
        /\ \A u \in Tab \ {t} : toRider'[u] = toRider[u]
    BY <1>3, MailTyped DEF RiderHears, ghosts
  <2>2. accepts # 0
    BY <2>1 DEF OneRide, Silent
  <2>3. ASSUME accepts = 1
        PROVE  InOrder(t) /\ \A u \in Tab \ {t} : Silent(u)
    BY <2>1, <2>3 DEF OneRide, Silent
  <2>4. \A u \in Tab \ {t} : Silent(u) => Silent(u)'
    BY <2>1 DEF Silent
  <2>. QED BY <1>3, <2>1, <2>2, <2>3, <2>4, HeardInOrder DEF OneRide
<1>4. ASSUME NEW t \in Tab, handleAcceptOffer(t)
      PROVE  OneRide'
  <2> DEFINE s == "ACCEPTED_EN_ROUTE_PICKUP"
  <2>1. Posts(t, s) /\ accepts' = accepts + 1 /\ s \in Sent
    BY <1>4, PostSteps DEF Sent
  <2>2. ASSUME accepts = 0
        PROVE  InOrder(t)' /\ \A u \in Tab \ {t} : Silent(u)'
    <3>1. rider.stage \notin DrivingStages /\ \A u \in Tab : Silent(u)
      BY <2>2 DEF OneRide
    <3>. QED BY <2>1, <3>1, FirstInOrder, OthersSilent
  <2>. QED BY <2>1, <2>2, MailTyped DEF OneRide
<1>5. ASSUME NEW t \in Tab,
             \/ ArriveAtPickup(t) \/ handleVerifyOtpAndStart(t) \/ ArriveAtDropoff(t)
             \/ handleCompleteTrip(t)
      PROVE  OneRide'
  <2>1. \E s \in Sent : /\ tab[t].trip # NoTrip /\ Order(Current(t)) <= Order(s)
                        /\ Posts(t, s) /\ accepts' = accepts
    <3>1. ASSUME ArriveAtPickup(t) PROVE <2>1
      BY <3>1, PostSteps, OrderOfStages DEF ArriveAtPickup, Sent
    <3>2. ASSUME handleVerifyOtpAndStart(t) PROVE <2>1
      BY <3>2, PostSteps, OrderOfStages DEF handleVerifyOtpAndStart, Sent
    <3>3. ASSUME ArriveAtDropoff(t) PROVE <2>1
      BY <3>3, PostSteps, OrderOfStages DEF ArriveAtDropoff, Sent
    <3>4. ASSUME handleCompleteTrip(t) PROVE <2>1
      BY <3>4, PostSteps, OrderOfStages DEF Sent
    <3>. QED BY <1>5, <3>1, <3>2, <3>3, <3>4
  <2>. QED BY <2>1, OrderPosted
<1>6. ASSUME NEW t \in Tab, ReloadTab(t)
      PROVE  OneRide'
  <2>1. /\ tab'[t].trip = NoTrip /\ \A u \in Tab \ {t} : tab'[u] = tab[u]
        /\ UNCHANGED <<rider, toRider, accepts>>
    BY <1>6, MailTyped DEF ReloadTab, NewTab
  <2>2. \A u \in Tab : Silent(u) => Silent(u)'
    BY <2>1 DEF Silent
  <2>3. \A u \in Tab \ {t} : InOrder(u) => InOrder(u)'
    BY <2>1 DEF InOrder, Current
  <2>4. InOrder(t) => InOrder(t)'
    <3> SUFFICES ASSUME InOrder(t) PROVE InOrder(t)'
      OBVIOUS
    <3>1. Current(t)' = "COMPLETED" /\ "COMPLETED" \in Sent /\ Current(t) \in Sent
      BY <2>1 DEF Current, InOrder, Sent
    <3>2. Order(Current(t)) <= 5 /\ Order(Current(t)) \in Nat
      BY <3>1, OrderOfStages DEF Sent
    <3>3. toRider[t] \in Seq(Sent)
      BY MailTyped
    <3>4. \A i \in 1 .. Len(toRider[t]) : Order(toRider[t][i]) <= 5
      BY <3>3, ElementOfSeq, OrderOfStages DEF Sent
    <3>5. rider.stage \in DrivingStages => Order(rider.stage) <= 5
      BY OrderOfStages, Stages
    <3>. QED BY <2>1, <3>1, <3>4, <3>5, OrderOfStages DEF InOrder
  <2>. QED BY <2>1, <2>2, <2>3, <2>4 DEF OneRide
<1>. QED
  BY <1>1, <1>2, <1>3, <1>4, <1>5, <1>6, StageSteps

\* The stages of a single acceptance only advance at the rider: see RiderNeverGoesBack.
THEOREM OrderCorrect == Spec => RiderNeverGoesBack
<1> DEFINE Forward ==
      rider.stage \in DrivingStages /\ rider'.stage \in DrivingStages /\ accepts <= 1
        => Rank(rider.stage) <= Rank(rider'.stage)
<1>1. Init => OneRide
  BY Stages DEF Init, NewPage, OneRide, Silent, NewTab
<1>2. TypeOK /\ OneRide /\ [Next]_vars => Forward
  <2> SUFFICES ASSUME TypeOK, OneRide, [Next]_vars,
                      rider.stage \in DrivingStages, rider'.stage \in DrivingStages,
                      accepts <= 1
               PROVE  Order(rider.stage) <= Order(rider'.stage)
    BY OrderTyped
  <2>1. CASE rider'.stage = rider.stage
    BY <2>1, OrderTyped
  <2>2. ASSUME NEW t \in Tab, RiderHears(t)
        PROVE  Order(rider.stage) <= Order(rider'.stage)
    <3>1. accepts = 1
      BY MailTyped DEF OneRide
    <3>2. InOrder(t)
      BY <2>2, <3>1 DEF OneRide, Silent, RiderHears
    <3>. QED BY <2>2, <3>2, HeardInOrder
  <2>3. OpensRider => rider'.stage \notin DrivingStages
    BY Stages DEF OpensRider, OpensAnew, NewPage
  <2>4. \A t \in Tab : ReloadTab(t) => rider' = rider
    BY DEF ReloadTab
  <2>5. \A t \in Tab :
          \/ handleAcceptOffer(t) \/ handleCompleteTrip(t)
          \/ \E from, to \in Sent : Advances(t, from, to)
          => rider' = rider
    BY PostSteps DEF Posts
  <2>. QED
    BY <2>1, <2>2, <2>3, <2>4, <2>5, StageSteps
       DEF Quiet, ArriveAtPickup, handleVerifyOtpAndStart, ArriveAtDropoff, Sent
<1>. QED
  BY <1>1, <1>2, OrderStep, TypeCorrect, PTL DEF Spec, RiderNeverGoesBack
===============================================================================
