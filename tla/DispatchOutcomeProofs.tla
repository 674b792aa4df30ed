------------------------ MODULE DispatchOutcomeProofs ------------------------
(* Proof that Dispatch implements MatchOutcome: a trip is given one final       *)
(* answer, by the step in which its loop returns, and none after it.            *)
EXTENDS DispatchProofs

\* A trip that was answered has a loop that returned, and one answer.
AnswerInv ==
  \A t \in Trip :
    /\ MatchAnswers(t) # {} => pc[t] = "done"
    /\ \A e, f \in MatchAnswers(t) : e = f

\* No answer is posted and no loop that returned goes on.
AnswersStay ==
  /\ events \subseteq events'
  /\ \A e \in events' \ events : e.type \notin {"ACCEPTED", "EXHAUSTED"}
  /\ \A t \in Trip : pc[t] = "done" => pc'[t] = "done"

LEMMA AnswerSteps ==
  ASSUME TypeInv, [Next]_vars
  PROVE  (\E t \in Trip : Confirm(t) \/ Exhaust(t)) \/ AnswersStay
<1> USE DEF TypeInv, TypeOK, Goto, AnswersStay
<1>1. ASSUME NEW t \in Trip,
             \/ StartDispatch(t) \/ Search(t) \/ CloseWindow(t) \/ EndRound(t)
             \/ Subscribe(t) \/ OfferTimeout(t) \/ CommitOnTrip(t) \/ RemoveDriver(t)
             \/ UnlockAccepted(t) \/ UnlockDeclined(t)
      PROVE  AnswersStay
  BY <1>1 DEF StartDispatch, Search, CloseWindow, EndRound, Subscribe, OfferTimeout,
              CommitOnTrip, RemoveDriver, UnlockAccepted, UnlockDeclined
<1>2. ASSUME NEW t \in Trip, Examine(t) \/ AcquireDispatchLock(t)
      PROVE  AnswersStay
  <2>1. /\ events' = events
        /\ pc[t] \in {"scan", "lock"}
        /\ pc' = pc \/ \E stage : pc' = [pc EXCEPT ![t] = stage]
    BY <1>2 DEF Examine, AcquireDispatchLock
  <2>. QED
    BY <2>1
<1>8. ASSUME NEW t \in Trip, AnnounceOffer(t) \/ ReportDeclined(t)
      PROVE  AnswersStay
  BY <1>8 DEF AnnounceOffer, ReportDeclined, PublishMatchEvent
<1>3. ASSUME NEW d \in Driver,
             \/ LockExpires(d) \/ ValidateStatus(d) \/ UpdateStatus(d) \/ UpdateIndex(d)
             \/ LocationPing(d) \/ ToggleOnline(d) \/ OfferCountdown(d) \/ AcceptOffer(d)
             \/ DeclineOffer(d) \/ ClearOffer(d) \/ CompleteTrip(d)
      PROVE  AnswersStay
  BY <1>3 DEF LockExpires, ValidateStatus, UpdateStatus, UpdateIndex, LocationPing,
              ToggleOnline, OfferCountdown, AcceptOffer, DeclineOffer, ClearOffer,
              CompleteTrip, loopVars
<1>4. ASSUME NEW d \in Driver, NEW a \in {"accept", "decline"}, RespondToDispatch(d, a)
      PROVE  AnswersStay
  BY <1>4 DEF RespondToDispatch, PublishDriverResponse
<1>5. ASSUME NEW d \in Driver, NEW t \in Trip, ReceiveOffer(d, t)
      PROVE  AnswersStay
  BY <1>5 DEF ReceiveOffer, loopVars
<1>6. CASE Crash
  BY <1>6 DEF Crash, Running
<1>7. CASE UNCHANGED vars
  BY <1>7 DEF vars, loopVars
<1>. QED
  BY <1>1, <1>2, <1>3, <1>4, <1>5, <1>6, <1>7, <1>8, StepCases

\* The step in which a loop returns: its event is lost, or is the trip's answer.
LEMMA LoopReturns ==
  ASSUME TypeInv, AnswerInv, NEW t \in Trip, Confirm(t) \/ Exhaust(t)
  PROVE  /\ pc'[t] = "done" /\ MatchAnswers(t) = {}
         /\ \A u \in Trip \ {t} : pc'[u] = pc[u] /\ MatchAnswers(u)' = MatchAnswers(u)
         /\ \/ MatchAnswers(t)' = {}
            \/ \E e : /\ MatchAnswers(t)' = {e}
                      /\ e.driver \in Driver \cup {NoDriver}
<1>1. CASE Confirm(t)
  <2>1. /\ pc[t] = "confirm" /\ pc' = [pc EXCEPT ![t] = "done"]
        /\ cur[t] \in Driver
        /\ \/ events' = events
           \/ events' = events \cup {[type |-> "ACCEPTED", trip |-> t, driver |-> cur[t]]}
    BY <1>1 DEF Confirm, Goto, PublishMatchEvent, TypeInv, LoopShape
  <2>2. MatchAnswers(t) = {}
    BY <2>1 DEF AnswerInv
  <2>. QED
    BY <2>1, <2>2 DEF MatchAnswers, TypeInv, TypeOK
<1>2. CASE Exhaust(t)
  <2>1. /\ pc[t] = "exhaust" /\ pc' = [pc EXCEPT ![t] = "done"]
        /\ \/ events' = events
           \/ events' = events \cup {[type |-> "EXHAUSTED", trip |-> t, driver |-> NoDriver]}
    BY <1>2 DEF Exhaust, Goto, PublishMatchEvent
  <2>2. MatchAnswers(t) = {}
    BY <2>1 DEF AnswerInv
  <2>. QED
    BY <2>1, <2>2 DEF MatchAnswers, TypeInv, TypeOK
<1>. QED
  BY <1>1, <1>2

LEMMA SameAnswers ==
  ASSUME AnswersStay, NEW t
  PROVE  MatchAnswers(t)' = MatchAnswers(t)
BY DEF AnswersStay, MatchAnswers

LEMMA InitAnswer == Init => AnswerInv
BY DEF Init, AnswerInv, MatchAnswers

LEMMA NextAnswer == TypeInv /\ AnswerInv /\ [Next]_vars => AnswerInv'
<1> SUFFICES ASSUME TypeInv, AnswerInv, [Next]_vars PROVE AnswerInv'
  OBVIOUS
<1>1. ASSUME NEW t \in Trip, Confirm(t) \/ Exhaust(t) PROVE AnswerInv'
  BY <1>1, LoopReturns DEF AnswerInv
<1>2. CASE AnswersStay
  BY <1>2, SameAnswers DEF AnswerInv, AnswersStay
<1>. QED
  BY <1>1, <1>2, AnswerSteps

-----------------------------------------------------------------------------
(* The refinement *)

LEMMA InitOutcome == Init => Outcome!OutcomeInit
<1> SUFFICES ASSUME Init PROVE PostedOutcome = [t \in Trip |-> {}]
  BY DEF Outcome!OutcomeInit
<1>1. \A t \in Trip : MatchAnswers(t) = {}
  BY DEF Init, MatchAnswers
<1>. QED
  BY <1>1 DEF PostedOutcome

\* The step in which a loop returns posts the answer; the others change none.
LEMMA NextOutcome ==
  TypeInv /\ AnswerInv /\ [Next]_vars => [Outcome!OutcomeNext]_PostedOutcome
<1> SUFFICES ASSUME TypeInv, AnswerInv, [Next]_vars
             PROVE  Outcome!OutcomeNext \/ PostedOutcome' = PostedOutcome
  OBVIOUS
<1>1. ASSUME NEW t \in Trip, Confirm(t) \/ Exhaust(t)
      PROVE  Outcome!OutcomeNext \/ PostedOutcome' = PostedOutcome
  <2>1. PostedOutcome[t] = {}
    BY <1>1, LoopReturns DEF PostedOutcome
  <2>2. \A u \in Trip \ {t} : MatchAnswers(u)' = MatchAnswers(u)
    BY <1>1, LoopReturns
  <2>3. CASE MatchAnswers(t)' = {}
    <3>1. \A u \in Trip : MatchAnswers(u)' = MatchAnswers(u)
      BY <1>1, <2>2, <2>3, LoopReturns
    <3>. QED
      BY <3>1 DEF PostedOutcome
  <2>4. ASSUME NEW e, MatchAnswers(t)' = {e}, e.driver \in Driver \cup {NoDriver}
        PROVE  Outcome!OutcomeNext
    <3>1. PostedOutcome' = [PostedOutcome EXCEPT ![t] = {e.driver}]
      <4>1. PostedOutcome' = [u \in Trip |-> {f.driver : f \in MatchAnswers(u)'}]
        BY DEF PostedOutcome
      <4>2. {f.driver : f \in MatchAnswers(t)'} = {e.driver}
        BY <2>4
      <4>3. \A u \in Trip \ {t} : {f.driver : f \in MatchAnswers(u)'} = PostedOutcome[u]
        BY <2>2 DEF PostedOutcome
      <4>. QED
        BY <4>1, <4>2, <4>3 DEF PostedOutcome
    <3>. QED
      BY <2>1, <2>4, <3>1 DEF Outcome!OutcomeNext, Outcome!PostAnswer
  <2>. QED
    BY <1>1, <2>3, <2>4, LoopReturns
<1>2. CASE AnswersStay
  BY <1>2, SameAnswers DEF PostedOutcome
<1>. QED
  BY <1>1, <1>2, AnswerSteps

\* The loops of the driver service implement the contract the trip service reads
\* from driver.match.v1.
THEOREM LoopsImplementOutcome == Spec => MatchContract
BY InitType, NextType, InitAnswer, NextAnswer, InitOutcome, NextOutcome, PTL
   DEF Spec, MatchContract, Outcome!OutcomeSpec
=============================================================================
