---------------------------- MODULE MatchOutcome ----------------------------
(***************************************************************************)
(* What the trip service relies on when it consumes driver.match.v1: for   *)
(* each trip the driver service posts at most one final answer, ACCEPTED   *)
(* by one driver or EXHAUSTED, and never takes it back.  No answer at all  *)
(* is allowed: the loop may crash or the event may be lost.                *)
(***************************************************************************)
CONSTANTS Trip, Driver, NoMatch

VARIABLE outcome    \* the answers posted for each trip

OutcomeInit == outcome = [t \in Trip |-> {}]

PostAnswer(t) ==
  /\ outcome[t] = {}
  /\ \E answer \in Driver \cup {NoMatch} :
       outcome' = [outcome EXCEPT ![t] = {answer}]

OutcomeNext == \E t \in Trip : PostAnswer(t)

OutcomeSpec == OutcomeInit /\ [][OutcomeNext]_outcome
=============================================================================
