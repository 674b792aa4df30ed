---------------------------- MODULE PaymentProofs ----------------------------
(***************************************************************************)
(* Proofs about Payment, for any requests, trips and failures.             *)
(*                                                                         *)
(* RowInv makes RowsAgreeWithStripe inductive: a request about to write a  *)
(* status has Stripe's answer for it, and an intent that has been settled  *)
(* stays so, since only a request that has not asked yet has none.         *)
(* Shaped says of a release, from its lookup to its Success, which row it  *)
(* has found, and Unheld what the row has at Stripe without lost replies.  *)
(* Paid counts what may become an orphan before it does.                   *)
(***************************************************************************)
EXTENDS Payment, FiniteSetTheorems, TLAPS

IntentStatus == {"none", "held", "released", "captured"}

\* The parts of the type that are functions of requests.
LEMMA RequestTypes ==
  ASSUME TypeOK
  PROVE  /\ trip \in [Request -> Trip \cup {NoTrip}] /\ op \in [Request -> Ops]
         /\ at \in [Request -> Stages] /\ stripe \in [Request -> IntentStatus]
         /\ tx \in [Request -> TransactionStatus] /\ stamp \in [Request -> Nat]
         /\ found \in [Request -> Request \cup {NoRequest}]
         /\ alive \in [Request -> BOOLEAN] /\ clock \in Nat
BY DEF TypeOK, IntentStatus

\* The ways a call can end use up the bounds as these steps say.
LEMMA Outcomes ==
  ASSUME TypeOK, NEW r,
         Works \/ Fails \/ ReplyLost \/ DbWorks(r) \/ DbFails(r) \/ DbReplyLost(r)
  PROVE  /\ faults' \in 0..MaxFaults /\ lost' \in 0..MaxLost
         /\ lost' = 0 => lost = 0
BY PaymentAssumption
   DEF TypeOK, Works, Fails, ReplyLost, DbWorks, DbFails, DbReplyLost

LEMMA TypeStep == TypeOK /\ [Next]_vars => TypeOK'
<1> SUFFICES ASSUME TypeOK, [Next]_vars PROVE TypeOK'
  OBVIOUS
<1> USE RequestTypes DEF limits
<1>1. ASSUME NEW r \in Request, NEW o \in Ops, NEW t \in Trip, Arrive(r, o, t)
      PROVE  TypeOK'
  BY <1>1 DEF TypeOK, Arrive, Goto, Stages, Working
<1>2. ASSUME NEW r \in Request, StripeAuthorize(r)
      PROVE  TypeOK'
  <2>1. faults' \in 0..MaxFaults /\ lost' \in 0..MaxLost
    BY <1>2, Outcomes DEF StripeAuthorize
  <2>2. stripe' \in [Request -> IntentStatus] /\ at' \in [Request -> Stages]
    BY <1>2 DEF StripeAuthorize, Goto, Stages, Working, IntentStatus
  <2>3. clock' \in Nat /\ stamp' \in [Request -> Nat]
    BY <1>2 DEF StripeAuthorize
  <2>. QED BY <1>2, <2>1, <2>2, <2>3 DEF StripeAuthorize, TypeOK, IntentStatus
<1>3. ASSUME NEW r \in Request, SaveHold(r)
      PROVE  TypeOK'
  <2>1. faults' \in 0..MaxFaults /\ lost' \in 0..MaxLost
    BY <1>3, Outcomes DEF SaveHold
  <2>2. tx' \in [Request -> TransactionStatus] /\ at' \in [Request -> Stages]
    BY <1>3 DEF SaveHold, Goto, Stages, Working, TransactionStatus
  <2>. QED BY <1>3, <2>1, <2>2 DEF SaveHold, TypeOK
<1>4. ASSUME NEW r \in Request, ReleaseUnsaved(r)
      PROVE  TypeOK'
  <2>1. faults' \in 0..MaxFaults /\ lost' \in 0..MaxLost
    BY <1>4, Outcomes DEF ReleaseUnsaved
  <2>2. stripe' \in [Request -> IntentStatus] /\ at' \in [Request -> Stages]
    BY <1>4 DEF ReleaseUnsaved, Goto, Stages, Working, IntentStatus
  <2>. QED BY <1>4, <2>1, <2>2 DEF ReleaseUnsaved, TypeOK, IntentStatus
<1>5. ASSUME NEW r \in Request, SaveFailedHold(r)
      PROVE  TypeOK'
  <2>1. faults' \in 0..MaxFaults /\ lost' \in 0..MaxLost
    BY <1>5, Outcomes DEF SaveFailedHold
  <2>2. tx' \in [Request -> TransactionStatus] /\ at' \in [Request -> Stages]
    BY <1>5 DEF SaveFailedHold, Goto, Stages, Working, TransactionStatus
  <2>. QED BY <1>5, <2>1, <2>2 DEF SaveFailedHold, TypeOK
<1>6. ASSUME NEW r \in Request, LookUp(r)
      PROVE  TypeOK'
  <2>1. faults' \in 0..MaxFaults /\ lost' \in 0..MaxLost
    BY <1>6, Outcomes DEF LookUp
  <2>2. found' \in [Request -> Request \cup {NoRequest}] /\ at' \in [Request -> Stages]
    BY <1>6 DEF LookUp, Goto, Stages, Working
  <2>. QED BY <1>6, <2>1, <2>2 DEF LookUp, TypeOK
<1>7. ASSUME NEW r \in Request, SettleIntent(r)
      PROVE  TypeOK'
  <2>1. faults' \in 0..MaxFaults /\ lost' \in 0..MaxLost
    BY <1>7, Outcomes DEF SettleIntent
  <2>2. stripe' \in [Request -> IntentStatus] /\ at' \in [Request -> Stages]
    BY <1>7 DEF SettleIntent, Settled, Goto, Stages, Working, IntentStatus
  <2>. QED BY <1>7, <2>1, <2>2 DEF SettleIntent, TypeOK, IntentStatus
<1>8. ASSUME NEW r \in Request, RecordStatus(r)
      PROVE  TypeOK'
  <2>1. faults' \in 0..MaxFaults /\ lost' \in 0..MaxLost
    BY <1>8, Outcomes DEF RecordStatus
  <2>2. tx' \in [Request -> TransactionStatus] /\ at' \in [Request -> Stages]
    BY <1>8 DEF RecordStatus, Record, Goto, Stages, Working, TransactionStatus
  <2>. QED BY <1>8, <2>1, <2>2 DEF RecordStatus, TypeOK
<1>9. ASSUME NEW r \in Request, Expire(r)
      PROVE  TypeOK'
  <2>1. expired' \in 0..MaxExpired /\ alive' \in [Request -> BOOLEAN]
    BY <1>9, PaymentAssumption DEF Expire, TypeOK
  <2>. QED BY <1>9, <2>1 DEF Expire, TypeOK
<1>10. CASE Crash
  <2>1. crashes' \in 0..MaxCrashes /\ at' \in [Request -> Stages]
    BY <1>10, PaymentAssumption DEF Crash, TypeOK, Stages
  <2>. QED BY <1>10, <2>1 DEF Crash, TypeOK
<1>11. CASE UNCHANGED vars
  BY <1>11 DEF vars, TypeOK
<1>. QED
  BY <1>1, <1>2, <1>3, <1>4, <1>5, <1>6, <1>7, <1>8, <1>9, <1>10, <1>11 DEF Next, Handle

\* Requests, rows and intents keep their types, and failures their bounds: see TypeOK.
THEOREM TypeCorrect == Spec => []TypeOK
<1>1. Init => TypeOK
  BY PaymentAssumption DEF Init, TypeOK, Ops, Stages, Working, TransactionStatus
<1>. QED BY <1>1, TypeStep, PTL DEF Spec

-----------------------------------------------------------------------------
(* Rows and Stripe *)

\* A request that has not asked Stripe has no intent; one about to settle has found a
\* row, and one about to record what Stripe did has Stripe's answer for it.
RowInv ==
  /\ RowsAgreeWithStripe
  /\ \A r \in Request :
       /\ at[r] \in {"idle", "hold"} => stripe[r] = "none"
       /\ at[r] \in {"settle", "record"} => found[r] \in Request
       /\ at[r] = "record" => stripe[found[r]] = Settled(r)

\* An intent, once settled, is not touched again.
LEMMA SettledStays ==
  ASSUME TypeOK, RowInv, [Next]_vars
  PROVE  \A q \in Request :
           stripe[q] \in {"released", "captured"} => stripe'[q] = stripe[q]
<1> USE RequestTypes
<1> SUFFICES ASSUME NEW q \in Request, stripe[q] \in {"released", "captured"}
             PROVE  stripe'[q] = stripe[q]
  OBVIOUS
<1>1. ASSUME NEW r \in Request, StripeAuthorize(r)
      PROVE  stripe'[q] = stripe[q]
  <2>1. r # q
    BY <1>1 DEF StripeAuthorize, RowInv
  <2>. QED BY <1>1, <2>1 DEF StripeAuthorize
<1>2. ASSUME NEW r \in Request, ReleaseUnsaved(r)
      PROVE  stripe'[q] = stripe[q]
  BY <1>2 DEF ReleaseUnsaved
<1>3. ASSUME NEW r \in Request, SettleIntent(r)
      PROVE  stripe'[q] = stripe[q]
  BY <1>3 DEF SettleIntent
<1>4. ASSUME \/ \E r \in Request, o \in Ops, t \in Trip : Arrive(r, o, t)
             \/ \E r \in Request : \/ SaveHold(r) \/ SaveFailedHold(r) \/ LookUp(r)
                                   \/ RecordStatus(r) \/ Expire(r)
             \/ Crash \/ UNCHANGED vars
      PROVE  stripe' = stripe
  BY <1>4 DEF Arrive, SaveHold, SaveFailedHold, LookUp, RecordStatus, Expire, Crash, vars
<1>. QED BY <1>1, <1>2, <1>3, <1>4 DEF Next, Handle

LEMMA RowStep == TypeOK /\ RowInv /\ [Next]_vars => RowInv'
<1> SUFFICES ASSUME TypeOK, RowInv, [Next]_vars PROVE RowInv'
  OBVIOUS
<1> USE RequestTypes
<1>a. \A q \in Request : stripe[q] \in {"released", "captured"} => stripe'[q] = stripe[q]
  BY SettledStays
<1>b. \A r : Settled(r) \in {"released", "captured"}
  BY DEF Settled
<1>c. \A r \in Request :
        /\ tx[r] = "RELEASED" => stripe[r] = "released" /\ stripe'[r] = "released"
        /\ tx[r] = "CAPTURED" => stripe[r] = "captured" /\ stripe'[r] = "captured"
        /\ at[r] \in {"idle", "hold"} => stripe[r] = "none"
        /\ at[r] \in {"settle", "record"} => found[r] \in Request
        /\ at[r] = "record" => stripe[found[r]] = Settled(r)
                             /\ stripe'[found[r]] = Settled(r)
  BY <1>a, <1>b DEF RowInv, RowsAgreeWithStripe
<1>1. ASSUME NEW r \in Request, NEW o \in Ops, NEW t \in Trip, Arrive(r, o, t)
      PROVE  RowInv'
  <2>1. /\ UNCHANGED <<stripe, tx, found>> /\ at[r] = "idle" /\ at'[r] \in {"hold", "lookup"}
        /\ \A q \in Request \ {r} : at'[q] = at[q] /\ op'[q] = op[q]
    BY <1>1 DEF Arrive, Goto
  <2>. QED BY <1>c, <2>1 DEF RowInv, RowsAgreeWithStripe, Settled
<1>2. ASSUME NEW r \in Request, StripeAuthorize(r)
      PROVE  RowInv'
  <2>1. /\ UNCHANGED <<tx, found, op>> /\ at'[r] \in {"save", "saveFailed"}
        /\ \A q \in Request \ {r} : at'[q] = at[q] /\ stripe'[q] = stripe[q]
    BY <1>2 DEF StripeAuthorize, Goto
  <2>. QED BY <1>c, <2>1 DEF RowInv, RowsAgreeWithStripe, Settled
<1>3. ASSUME NEW r \in Request, SaveHold(r) \/ SaveFailedHold(r)
      PROVE  RowInv'
  <2>1. /\ UNCHANGED <<stripe, found, op>> /\ at'[r] \in {"ok", "unhold", "error"}
        /\ tx'[r] \in {tx[r], "HOLD_SUCCESS", "HOLD_FAILED"}
        /\ \A q \in Request \ {r} : at'[q] = at[q] /\ tx'[q] = tx[q]
    BY <1>3 DEF SaveHold, SaveFailedHold, Goto
  <2>. QED BY <1>c, <2>1 DEF RowInv, RowsAgreeWithStripe, Settled
<1>4. ASSUME NEW r \in Request, ReleaseUnsaved(r)
      PROVE  RowInv'
  <2>1. /\ UNCHANGED <<tx, found, op>> /\ at'[r] = "error"
        /\ \A q \in Request \ {r} : at'[q] = at[q] /\ stripe'[q] = stripe[q]
    BY <1>4 DEF ReleaseUnsaved, Goto
  <2>. QED BY <1>c, <2>1 DEF RowInv, RowsAgreeWithStripe, Settled
<1>5. ASSUME NEW r \in Request, LookUp(r)
      PROVE  RowInv'
  <2>1. /\ UNCHANGED <<tx, stripe, op>> /\ at'[r] \in {"settle", "ok", "error"}
        /\ at'[r] = "settle" => found'[r] \in Request
        /\ \A q \in Request \ {r} : at'[q] = at[q] /\ found'[q] = found[q]
    BY <1>5 DEF LookUp, Goto
  <2>. QED BY <1>c, <2>1 DEF RowInv, RowsAgreeWithStripe, Settled
<1>6. ASSUME NEW r \in Request, SettleIntent(r)
      PROVE  RowInv'
  <2>1. /\ UNCHANGED <<tx, found, op>> /\ at'[r] \in {"record", "error"}
        /\ at[r] = "settle"
        /\ \A q \in Request \ {r} : at'[q] = at[q]
    BY <1>6 DEF SettleIntent, Goto
  <2>2. at'[r] = "record" => stripe'[found[r]] = Settled(r)
    BY <1>6, <1>c DEF SettleIntent, Goto
  <2>3. \A q \in Request : stripe[q] = "none" => stripe'[q] = "none"
    BY <1>6, <1>c DEF SettleIntent
  <2>. QED BY <1>c, <2>1, <2>2, <2>3 DEF RowInv, RowsAgreeWithStripe, Settled
<1>7. ASSUME NEW r \in Request, RecordStatus(r)
      PROVE  RowInv'
  <2>1. /\ UNCHANGED <<stripe, found, op>> /\ at'[r] = "ok" /\ at[r] = "record"
        /\ \A q \in Request \ {r} : at'[q] = at[q]
    BY <1>7 DEF RecordStatus, Goto
  <2>2. /\ tx'[found[r]] \in {tx[found[r]], Record(r)}
        /\ \A q \in Request \ {found[r]} : tx'[q] = tx[q]
    BY <1>7, <1>c DEF RecordStatus
  <2>3. found[r] \in Request /\ stripe[found[r]] = Settled(r)
    BY <1>c, <2>1
  <2>4. RowsAgreeWithStripe'
    BY <1>c, <2>1, <2>2, <2>3 DEF RowsAgreeWithStripe, Settled, Record
  <2>. QED BY <1>c, <2>1, <2>4 DEF RowInv, Settled
<1>8. CASE Crash
  <2>1. /\ UNCHANGED <<stripe, tx, found, op>>
        /\ \A q \in Request : at'[q] \in {at[q], "dead"}
    BY <1>8 DEF Crash
  <2>. QED BY <1>c, <2>1 DEF RowInv, RowsAgreeWithStripe, Settled
<1>9. CASE (\E r \in Request : Expire(r)) \/ UNCHANGED vars
  <2>1. UNCHANGED <<stripe, tx, found, op, at>>
    BY <1>9 DEF Expire, vars
  <2>. QED BY <1>c, <2>1 DEF RowInv, RowsAgreeWithStripe, Settled
<1>. QED
  BY <1>1, <1>2, <1>3, <1>4, <1>5, <1>6, <1>7, <1>8, <1>9 DEF Next, Handle

LEMMA RowsAlways == Spec => [](TypeOK /\ RowInv)
<1>1. Init => RowInv
  BY DEF Init, RowInv, RowsAgreeWithStripe
<1>. QED BY <1>1, TypeCorrect, TypeStep, RowStep, PTL DEF Spec

\* A row claims no release or capture that Stripe did not make: see RowsAgreeWithStripe.
THEOREM RowsCorrect == Spec => []RowsAgreeWithStripe
<1>1. RowInv => RowsAgreeWithStripe
  BY DEF RowInv
<1>. QED BY <1>1, RowsAlways, PTL

-----------------------------------------------------------------------------
(* A release that answers Success *)

\* A row is of an authorization that has done its part, and a request that has found
\* one works on a row of its own trip.  Without lost replies a row of a failed hold, and
\* the authorization about to save one, has no intent, and a release that answers
\* Success has found an intent that is not held.
Shaped ==
  \A r \in Request :
    /\ at[r] # "idle" => trip[r] \in Trip
    /\ at[r] \in {"hold", "save", "saveFailed", "unhold"} => op[r] = "authorize"
    /\ at[r] \in {"lookup", "settle", "record"} => op[r] # "authorize"
    /\ tx[r] # "NONE" => /\ op[r] = "authorize"
                         /\ at[r] \notin {"idle", "hold", "save", "saveFailed"}
    /\ \/ at[r] \in {"settle", "record"}
       \/ op[r] = "release" /\ at[r] = "ok"
       => found[r] \in Request /\ tx[found[r]] # "NONE" /\ trip[found[r]] = trip[r]

Unheld ==
  lost = 0 => \A r \in Request :
    /\ tx[r] = "HOLD_FAILED" => stripe[r] = "none"
    /\ at[r] = "saveFailed" => stripe[r] = "none"
    /\ op[r] = "release" /\ at[r] = "ok" => stripe[found[r]] # "held"

\* What has a row keeps it, with its trip, and an intent that is not held by then is
\* never held again.
LEMMA RowStays ==
  ASSUME TypeOK, RowInv, Shaped, [Next]_vars, NEW q \in Request, tx[q] # "NONE"
  PROVE  /\ tx'[q] # "NONE" /\ trip'[q] = trip[q] /\ op'[q] = op[q]
         /\ stripe[q] # "held" => stripe'[q] = stripe[q]
<1> USE RequestTypes
<1>1. at[q] \notin {"idle", "hold", "save", "saveFailed"}
  BY DEF Shaped
<1>2. ASSUME NEW r \in Request, NEW o \in Ops, NEW t \in Trip, Arrive(r, o, t)
      PROVE  UNCHANGED <<tx, stripe>> /\ trip'[q] = trip[q] /\ op'[q] = op[q]
  BY <1>1, <1>2 DEF Arrive
<1>3. ASSUME NEW r \in Request, StripeAuthorize(r)
      PROVE  UNCHANGED <<tx, trip, op>> /\ stripe'[q] = stripe[q]
  BY <1>1, <1>3 DEF StripeAuthorize
<1>4. ASSUME NEW r \in Request, SaveHold(r) \/ SaveFailedHold(r)
      PROVE  UNCHANGED <<trip, op, stripe>> /\ tx'[q] # "NONE"
  BY <1>4 DEF SaveHold, SaveFailedHold
<1>5. ASSUME NEW r \in Request, ReleaseUnsaved(r) \/ SettleIntent(r)
      PROVE  UNCHANGED <<trip, op, tx>> /\ (stripe[q] # "held" => stripe'[q] = stripe[q])
  BY <1>5 DEF ReleaseUnsaved, SettleIntent
<1>6. ASSUME NEW r \in Request, RecordStatus(r)
      PROVE  UNCHANGED <<trip, op, stripe>> /\ tx'[q] # "NONE"
  BY <1>6 DEF RecordStatus, Record
<1>7. ASSUME (\E r \in Request : LookUp(r) \/ Expire(r)) \/ Crash \/ UNCHANGED vars
      PROVE  UNCHANGED <<trip, op, stripe, tx>>
  BY <1>7 DEF LookUp, Expire, Crash, vars
<1>. QED BY <1>2, <1>3, <1>4, <1>5, <1>6, <1>7 DEF Next, Handle

LEMMA FreeStep ==
  TypeOK /\ RowInv /\ Shaped /\ Unheld /\ [Next]_vars => Shaped' /\ Unheld'
<1> SUFFICES ASSUME TypeOK, RowInv, Shaped, Unheld, [Next]_vars PROVE Shaped' /\ Unheld'
  OBVIOUS
<1> USE RequestTypes
<1>a. \A q \in Request : tx[q] # "NONE" =>
        /\ tx'[q] # "NONE" /\ trip'[q] = trip[q] /\ op'[q] = op[q]
        /\ stripe[q] # "held" => stripe'[q] = stripe[q]
  BY RowStays
<1>b. \A r \in Request :
        \/ at[r] \in {"settle", "record"}
        \/ op[r] = "release" /\ at[r] = "ok"
        => /\ found[r] \in Request /\ tx[found[r]] # "NONE" /\ tx'[found[r]] # "NONE"
           /\ trip'[found[r]] = trip[r]
           /\ stripe[found[r]] # "held" => stripe'[found[r]] # "held"
  BY <1>a DEF Shaped
<1>1. ASSUME NEW r \in Request, NEW o \in Ops, NEW t \in Trip, Arrive(r, o, t)
      PROVE  Shaped' /\ Unheld'
  <2>1. /\ UNCHANGED <<stripe, tx, found, lost>> /\ at[r] = "idle"
        /\ trip'[r] = t /\ op'[r] = o
        /\ at'[r] = IF o = "authorize" THEN "hold" ELSE "lookup"
        /\ \A q \in Request \ {r} : at'[q] = at[q] /\ op'[q] = op[q] /\ trip'[q] = trip[q]
    BY <1>1 DEF Arrive, Goto, limits
  <2>. QED BY <1>b, <2>1 DEF Shaped, Unheld
<1>2. ASSUME NEW r \in Request, StripeAuthorize(r)
      PROVE  Shaped' /\ Unheld'
  <2>1. /\ UNCHANGED <<tx, found, op, trip>> /\ at[r] = "hold"
        /\ at'[r] \in {"save", "saveFailed"}
        /\ \A q \in Request \ {r} : at'[q] = at[q] /\ stripe'[q] = stripe[q]
    BY <1>2 DEF StripeAuthorize, Goto
  <2>2. (lost' = 0 => lost = 0) /\ stripe[r] = "none" /\ tx[r] = "NONE"
    BY <1>2, <2>1, Outcomes DEF StripeAuthorize, RowInv, Shaped
  <2>3. lost' = 0 /\ at'[r] = "saveFailed" => stripe'[r] = "none"
    BY <1>2, <2>2 DEF StripeAuthorize, Goto, ReplyLost, TypeOK
  <2>. QED BY <1>b, <2>1, <2>2, <2>3 DEF Shaped, Unheld
<1>3. ASSUME NEW r \in Request, SaveHold(r)
      PROVE  Shaped' /\ Unheld'
  <2>1. /\ UNCHANGED <<stripe, found, op, trip>> /\ at[r] = "save"
        /\ at'[r] \in {"ok", "unhold"}
        /\ tx'[r] \in {tx[r], "HOLD_SUCCESS"}
        /\ \A q \in Request \ {r} : at'[q] = at[q] /\ tx'[q] = tx[q]
    BY <1>3 DEF SaveHold, Goto
  <2>2. lost' = 0 => lost = 0
    BY <1>3, Outcomes DEF SaveHold
  <2>. QED BY <1>b, <2>1, <2>2 DEF Shaped, Unheld
<1>4. ASSUME NEW r \in Request, SaveFailedHold(r)
      PROVE  Shaped' /\ Unheld'
  <2>1. /\ UNCHANGED <<stripe, found, op, trip>> /\ at[r] = "saveFailed" /\ at'[r] = "error"
        /\ tx'[r] \in {tx[r], "HOLD_FAILED"}
        /\ \A q \in Request \ {r} : at'[q] = at[q] /\ tx'[q] = tx[q]
    BY <1>4 DEF SaveFailedHold, Goto
  <2>2. lost' = 0 => lost = 0
    BY <1>4, Outcomes DEF SaveFailedHold
  <2>. QED BY <1>b, <2>1, <2>2 DEF Shaped, Unheld
<1>5. ASSUME NEW r \in Request, ReleaseUnsaved(r)
      PROVE  Shaped' /\ Unheld'
  <2>1. /\ UNCHANGED <<tx, found, op, trip>> /\ at[r] = "unhold" /\ at'[r] = "error"
        /\ \A q \in Request \ {r} : at'[q] = at[q] /\ stripe'[q] = stripe[q]
        /\ stripe[r] = "none" => stripe'[r] = "none"
    BY <1>5 DEF ReleaseUnsaved, Goto
  <2>2. lost' = 0 => lost = 0
    BY <1>5, Outcomes DEF ReleaseUnsaved
  <2>. QED BY <1>b, <2>1, <2>2 DEF Shaped, Unheld
<1>6. ASSUME NEW r \in Request, LookUp(r)
      PROVE  Shaped' /\ Unheld'
  <2>1. /\ UNCHANGED <<tx, stripe, op, trip>> /\ at[r] = "lookup"
        /\ at'[r] \in {"settle", "ok", "error"}
        /\ \A q \in Request \ {r} : at'[q] = at[q] /\ found'[q] = found[q]
    BY <1>6 DEF LookUp, Goto
  <2>2. lost' = 0 => lost = 0
    BY <1>6, Outcomes DEF LookUp
  <2>3. at'[r] # "error" =>
          /\ found'[r] \in Request /\ tx[found'[r]] # "NONE" /\ trip[found'[r]] = trip[r]
          /\ at'[r] = "ok" => tx[found'[r]] # "HOLD_SUCCESS"
    BY <1>6 DEF LookUp, Goto, Latest, Rows
  <2>4. lost = 0 /\ at'[r] = "ok" => stripe[found'[r]] # "held"
    <3> SUFFICES ASSUME lost = 0, at'[r] = "ok" PROVE stripe[found'[r]] # "held"
      OBVIOUS
    <3>1. tx[found'[r]] \in {"HOLD_FAILED", "CAPTURED", "RELEASED"}
      BY <2>3 DEF TransactionStatus
    <3>. QED BY <2>3, <3>1 DEF Unheld, RowInv, RowsAgreeWithStripe
  <2>. QED BY <1>b, <2>1, <2>2, <2>3, <2>4 DEF Shaped, Unheld
<1>7. ASSUME NEW r \in Request, SettleIntent(r)
      PROVE  Shaped' /\ Unheld'
  <2>1. /\ UNCHANGED <<tx, found, op, trip>> /\ at[r] = "settle"
        /\ at'[r] \in {"record", "error"}
        /\ \A q \in Request \ {r} : at'[q] = at[q]
        /\ \A q \in Request : stripe[q] = "none" => stripe'[q] = "none"
    BY <1>7 DEF SettleIntent, Goto
  <2>2. lost' = 0 => lost = 0
    BY <1>7, Outcomes DEF SettleIntent
  <2>. QED BY <1>b, <2>1, <2>2 DEF Shaped, Unheld
<1>8. ASSUME NEW r \in Request, RecordStatus(r)
      PROVE  Shaped' /\ Unheld'
  <2>1. /\ UNCHANGED <<stripe, found, op, trip>> /\ at[r] = "record" /\ at'[r] = "ok"
        /\ \A q \in Request \ {r} : at'[q] = at[q]
        /\ \A q \in Request : tx'[q] \in {tx[q], Record(r)}
    BY <1>8 DEF RecordStatus, Goto
  <2>2. lost' = 0 => lost = 0
    BY <1>8, Outcomes DEF RecordStatus
  <2>3. stripe[found[r]] \in {"released", "captured"}
    BY <2>1 DEF RowInv, Settled
  <2>4. \A q \in Request : tx[q] = "NONE" => tx'[q] = "NONE"
    <3>1. tx[found[r]] # "NONE"
      BY <1>b, <2>1
    <3>. QED BY <1>8, <3>1 DEF RecordStatus
  <2>5. Record(r) \notin {"HOLD_FAILED", "NONE"}
    BY DEF Record
  <2>. QED BY <1>b, <2>1, <2>2, <2>3, <2>4, <2>5 DEF Shaped, Unheld
<1>9. CASE Crash
  <2>1. /\ UNCHANGED <<stripe, tx, found, op, trip, lost>>
        /\ \A q \in Request : at'[q] = IF at[q] \in Working THEN "dead" ELSE at[q]
    BY <1>9 DEF Crash
  <2>2. \A q \in Request : at'[q] = at[q] \/ (at'[q] = "dead" /\ at[q] # "idle")
    BY <2>1 DEF Working
  <2>. QED BY <1>b, <2>1, <2>2 DEF Shaped, Unheld
<1>10. CASE (\E r \in Request : Expire(r)) \/ UNCHANGED vars
  <2>1. UNCHANGED <<stripe, tx, found, op, trip, at, lost>>
    BY <1>10 DEF Expire, vars, limits
  <2>. QED BY <2>1 DEF Shaped, Unheld
<1>. QED
  BY <1>1, <1>2, <1>3, <1>4, <1>5, <1>6, <1>7, <1>8, <1>9, <1>10 DEF Next, Handle

\* A release that answers Success has freed the trip's only hold: see ReleaseSuccessFrees.
THEOREM ReleaseCorrect == Spec => []ReleaseSuccessFrees
<1>1. Init => Shaped /\ Unheld
  BY DEF Init, Shaped, Unheld
<1>2. TypeOK /\ Shaped /\ Unheld => ReleaseSuccessFrees
  <2> SUFFICES ASSUME TypeOK, Shaped, Unheld, NEW r \in Request, NEW q \in Request,
                      op[r] = "release", at[r] = "ok", lost = 0,
                      op[q] = "authorize", trip[q] = trip[r],
                      \A p \in Request : op[p] = "authorize" /\ trip[p] = trip[r] => p = q
               PROVE  stripe[q] # "held"
    BY DEF ReleaseSuccessFrees
  <2>1. found[r] \in Request /\ op[found[r]] = "authorize" /\ trip[found[r]] = trip[r]
    BY DEF Shaped
  <2>. QED BY <2>1 DEF Unheld
<1>. QED BY <1>1, <1>2, RowsAlways, FreeStep, PTL DEF Spec
-----------------------------------------------------------------------------
(* Orphans *)

\* What is an orphan, or is one failure away from it: a hold whose row could not be
\* saved, or whose request can no longer save one.
Endangered ==
  Orphans \cup {r \in Request : stripe[r] = "held" /\ tx[r] # "HOLD_SUCCESS" /\ at[r] = "unhold"}
          \cup {r \in Request : ~ alive[r]}

\* What the failures so far pay for.
Spent == faults + expired + 2 * lost

Harm == Cardinality(Orphans) + Cardinality(Endangered)

\* Each failure endangers one hold or orphans one that was endangered, and a lost reply
\* does both at once.
Paid == crashes = 0 => Harm <= Spent

LEMMA AtMostOneMore ==
  ASSUME NEW S, NEW T, IsFiniteSet(S)
  PROVE  /\ Cardinality(S) \in Nat
         /\ T \subseteq S => Cardinality(T) \in Nat /\ Cardinality(T) <= Cardinality(S)
         /\ \A x : T \subseteq S \cup {x} =>
              Cardinality(T) \in Nat /\ Cardinality(T) <= Cardinality(S) + 1
<1>1. Cardinality(S) \in Nat
  BY FS_CardinalityType
<1>2. ASSUME T \subseteq S PROVE Cardinality(T) \in Nat /\ Cardinality(T) <= Cardinality(S)
  BY <1>2, FS_Subset, FS_CardinalityType
<1>3. ASSUME NEW x, T \subseteq S \cup {x}
      PROVE  Cardinality(T) \in Nat /\ Cardinality(T) <= Cardinality(S) + 1
  <2>1. IsFiniteSet(S \cup {x})
        /\ (Cardinality(S \cup {x}) = Cardinality(S)
             \/ Cardinality(S \cup {x}) = Cardinality(S) + 1)
    BY FS_AddElement
  <2>2. Cardinality(T) \in Nat /\ Cardinality(T) <= Cardinality(S \cup {x})
    BY <1>3, <2>1, FS_Subset, FS_CardinalityType
  <2>. QED BY <1>1, <2>1, <2>2
<1>. QED BY <1>1, <1>2, <1>3

LEMMA OrphansFinite ==
  /\ IsFiniteSet(Orphans) /\ IsFiniteSet(Endangered)
  /\ Cardinality(Orphans) \in Nat /\ Cardinality(Endangered) \in Nat
  /\ Cardinality(Orphans) <= Cardinality(Request) /\ Cardinality(Request) \in Nat
  /\ Cardinality(Orphans) <= Cardinality(Endangered)
<1>1. Orphans \subseteq Request /\ Endangered \subseteq Request
      /\ Orphans \subseteq Endangered /\ IsFiniteSet(Request)
  BY PaymentAssumption DEF Orphans, Endangered
<1>. QED BY <1>1, FS_Subset, FS_CardinalityType

\* What a step spends, and what harm it does.
LEMMA Spending ==
  ASSUME TypeOK, TypeOK', NEW i \in Nat, NEW j \in Nat, NEW k \in Nat,
         faults' = faults + i, expired' = expired + j, lost' = lost + k
  PROVE  Spent \in Nat /\ Spent' = Spent + i + j + 2 * k
<1> DEFINE f == faults   e == expired   l == lost
           f1 == faults'   e1 == expired'   l1 == lost'
<1>1. f \in Nat /\ e \in Nat /\ l \in Nat /\ f1 = f + i /\ e1 = e + j /\ l1 = l + k
  BY PaymentAssumption DEF TypeOK
<1>2. Spent = f + e + 2 * l /\ Spent' = f1 + e1 + 2 * l1
  BY DEF Spent
<1> HIDE DEF f, e, l, f1, e1, l1
<1>. QED BY <1>1, <1>2

LEMMA Costs ==
  ASSUME TypeOK, TypeOK', NEW r, expired' = expired,
         Works \/ Fails \/ ReplyLost \/ DbWorks(r) \/ DbFails(r) \/ DbReplyLost(r)
  PROVE  /\ Spent \in Nat /\ Spent' \in Nat /\ Spent <= Spent'
         /\ Fails => Spent' = Spent + 1
         /\ ReplyLost => Spent' = Spent + 2
<1>1. expired' = expired + 0 /\ faults \in Nat /\ lost \in Nat
  BY PaymentAssumption DEF TypeOK
<1>2. CASE Fails
  <2>1. faults' = faults + 1 /\ lost' = lost + 0 /\ ~ ReplyLost
    BY <1>1, <1>2 DEF Fails, ReplyLost
  <2>2. Spent \in Nat /\ Spent' = Spent + 1 + 0 + 2 * 0
    BY <1>1, <2>1, Spending
  <2>. QED BY <2>1, <2>2
<1>3. CASE ReplyLost
  <2>1. faults' = faults + 0 /\ lost' = lost + 1 /\ ~ Fails
    BY <1>1, <1>3 DEF Fails, ReplyLost
  <2>2. Spent \in Nat /\ Spent' = Spent + 0 + 0 + 2 * 1
    BY <1>1, <2>1, Spending
  <2>. QED BY <2>1, <2>2
<1>4. CASE UNCHANGED <<faults, lost>>
  <2>1. faults' = faults + 0 /\ lost' = lost + 0 /\ ~ Fails /\ ~ ReplyLost
    BY <1>1, <1>4 DEF Fails, ReplyLost
  <2>2. Spent \in Nat /\ Spent' = Spent + 0 + 0 + 2 * 0
    BY <1>1, <2>1, Spending
  <2>. QED BY <2>1, <2>2
<1>. QED
  BY <1>2, <1>3, <1>4 DEF Works, DbWorks, DbFails, DbReplyLost

LEMMA Idle ==
  ASSUME TypeOK, TypeOK', UNCHANGED <<faults, lost, expired>>
  PROVE  Spent \in Nat /\ Spent' \in Nat /\ Spent <= Spent'
<1>1. /\ faults' = faults + 0 /\ expired' = expired + 0 /\ lost' = lost + 0
  BY PaymentAssumption DEF TypeOK
<1>2. Spent \in Nat /\ Spent' = Spent + 0 + 0 + 2 * 0
  BY <1>1, Spending
<1>. QED BY <1>2

LEMMA Harming ==
  ASSUME TypeOK, TypeOK', Paid, crashes = 0, NEW i \in Nat, NEW j \in Nat,
         Cardinality(Orphans') \in Nat, Cardinality(Orphans') <= Cardinality(Orphans) + i,
         Cardinality(Endangered') \in Nat,
         Cardinality(Endangered') <= Cardinality(Endangered) + j,
         Spent \in Nat, Spent' \in Nat, Spent + i + j <= Spent'
  PROVE  Paid'
<1> DEFINE a == Cardinality(Orphans)   a1 == Cardinality(Orphans')
           b == Cardinality(Endangered)   b1 == Cardinality(Endangered')
           c == Spent   c1 == Spent'
<1>1. /\ a \in Nat /\ b \in Nat /\ c \in Nat /\ a1 \in Nat /\ b1 \in Nat /\ c1 \in Nat
      /\ a1 <= a + i /\ b1 <= b + j /\ c + i + j <= c1
  BY OrphansFinite
<1>2. a + b <= c
  BY DEF Paid, Harm
<1> SUFFICES a1 + b1 <= c1
  BY DEF Paid, Harm
<1> HIDE DEF a, b, c, a1, b1, c1
<1>. QED BY <1>1, <1>2

LEMMA PaidStep == TypeOK /\ RowInv /\ Shaped /\ Paid /\ [Next]_vars => Paid'
<1> SUFFICES ASSUME TypeOK, RowInv, Shaped, Paid, [Next]_vars, crashes' = 0 PROVE Paid'
  BY DEF Paid
<1> USE RequestTypes
<1>a. TypeOK'
  BY TypeStep
<1>b. IsFiniteSet(Orphans) /\ IsFiniteSet(Endangered)
  BY OrphansFinite
<1>c. ASSUME crashes' = crashes, Orphans' \subseteq Orphans, Endangered' \subseteq Endangered,
             Spent \in Nat, Spent' \in Nat, Spent <= Spent'
      PROVE  Paid'
  <2>1. Cardinality(Orphans') \in Nat /\ Cardinality(Orphans') <= Cardinality(Orphans) + 0
    BY <1>b, <1>c, AtMostOneMore, OrphansFinite
  <2>2. Cardinality(Endangered') \in Nat /\ Cardinality(Endangered') <= Cardinality(Endangered) + 0
    BY <1>b, <1>c, AtMostOneMore, OrphansFinite
  <2>3. Spent + 0 + 0 <= Spent'
    BY <1>c
  <2>. QED BY <1>a, <1>c, <2>1, <2>2, <2>3, Harming
<1>d. ASSUME crashes' = crashes, NEW r \in Request,
             Orphans' \subseteq Orphans, Endangered' \subseteq Endangered \cup {r},
             Spent \in Nat, Spent' \in Nat, Spent + 1 <= Spent'
      PROVE  Paid'
  <2>1. Cardinality(Orphans') \in Nat /\ Cardinality(Orphans') <= Cardinality(Orphans) + 0
    BY <1>b, <1>d, AtMostOneMore, OrphansFinite
  <2>2. Cardinality(Endangered') \in Nat /\ Cardinality(Endangered') <= Cardinality(Endangered) + 1
    BY <1>b, <1>d, AtMostOneMore, OrphansFinite
  <2>3. Spent + 0 + 1 <= Spent'
    BY <1>d
  <2>. QED BY <1>a, <1>d, <2>1, <2>2, <2>3, Harming
<1>e. ASSUME crashes' = crashes, NEW r \in Request,
             Orphans' \subseteq Orphans \cup {r}, Endangered' \subseteq Endangered,
             Spent \in Nat, Spent' \in Nat, Spent + 1 <= Spent'
      PROVE  Paid'
  <2>1. Cardinality(Orphans') \in Nat /\ Cardinality(Orphans') <= Cardinality(Orphans) + 1
    BY <1>b, <1>e, AtMostOneMore, OrphansFinite
  <2>2. Cardinality(Endangered') \in Nat /\ Cardinality(Endangered') <= Cardinality(Endangered) + 0
    BY <1>b, <1>e, AtMostOneMore, OrphansFinite
  <2>3. Spent + 1 + 0 <= Spent'
    BY <1>e
  <2>. QED BY <1>a, <1>e, <2>1, <2>2, <2>3, Harming
<1>f. ASSUME crashes' = crashes, NEW r \in Request,
             Orphans' \subseteq Orphans \cup {r}, Endangered' \subseteq Endangered \cup {r},
             Spent \in Nat, Spent' \in Nat, Spent + 2 <= Spent'
      PROVE  Paid'
  <2>1. Cardinality(Orphans') \in Nat /\ Cardinality(Orphans') <= Cardinality(Orphans) + 1
    BY <1>b, <1>f, AtMostOneMore, OrphansFinite
  <2>2. Cardinality(Endangered') \in Nat /\ Cardinality(Endangered') <= Cardinality(Endangered) + 1
    BY <1>b, <1>f, AtMostOneMore, OrphansFinite
  <2>3. Spent + 1 + 1 <= Spent'
    BY <1>f
  <2>. QED BY <1>a, <1>f, <2>1, <2>2, <2>3, Harming
<1>1. ASSUME NEW r \in Request, NEW o \in Ops, NEW t \in Trip, Arrive(r, o, t)
      PROVE  Paid'
  <2>1. /\ UNCHANGED <<stripe, tx, alive, faults, lost, expired, crashes>>
        /\ stripe[r] = "none"
        /\ \A q \in Request \ {r} : at'[q] = at[q]
    BY <1>1 DEF Arrive, Goto, limits, RowInv
  <2>2. Orphans' \subseteq Orphans /\ Endangered' \subseteq Endangered
    BY <2>1 DEF Orphans, Endangered
  <2>3. Spent \in Nat /\ Spent' \in Nat /\ Spent <= Spent'
    BY <1>a, <2>1, Idle
  <2>. QED BY <1>c, <2>1, <2>2, <2>3
<1>2. ASSUME NEW r \in Request, StripeAuthorize(r)
      PROVE  Paid'
  <2>1. /\ UNCHANGED <<tx, alive, expired, crashes>> /\ at[r] = "hold" /\ stripe[r] = "none"
        /\ at'[r] \in {"save", "saveFailed"}
        /\ \A q \in Request \ {r} : at'[q] = at[q] /\ stripe'[q] = stripe[q]
    BY <1>2 DEF StripeAuthorize, Goto, RowInv
  <2>0. /\ Spent \in Nat /\ Spent' \in Nat /\ Spent <= Spent'
        /\ Fails => Spent' = Spent + 1
        /\ ReplyLost => Spent' = Spent + 2
    BY <1>2, <1>a, <2>1, Costs DEF StripeAuthorize
  <2>2. CASE stripe'[r] = "none" \/ at'[r] = "save"
    <3>1. Orphans' \subseteq Orphans /\ Endangered' \subseteq Endangered
      BY <2>1, <2>2 DEF Orphans, Endangered
    <3>. QED BY <1>c, <2>0, <2>1, <3>1
  <2>3. CASE ~ (stripe'[r] = "none" \/ at'[r] = "save")
    <3>1. ReplyLost
      BY <1>2, <2>1, <2>3 DEF StripeAuthorize, Goto
    <3>2. Orphans' \subseteq Orphans \cup {r} /\ Endangered' \subseteq Endangered \cup {r}
      BY <2>1 DEF Orphans, Endangered
    <3>3. Spent + 2 <= Spent'
      BY <2>0, <3>1
    <3>. QED BY <1>f, <2>0, <2>1, <3>2, <3>3
  <2>. QED BY <2>2, <2>3
<1>3. ASSUME NEW r \in Request, SaveHold(r)
      PROVE  Paid'
  <2>1. /\ UNCHANGED <<stripe, alive, expired, crashes>> /\ at[r] = "save"
        /\ \A q \in Request \ {r} : at'[q] = at[q] /\ tx'[q] = tx[q]
    BY <1>3 DEF SaveHold, Goto
  <2>2. /\ Spent \in Nat /\ Spent' \in Nat /\ Spent <= Spent'
        /\ Fails => Spent' = Spent + 1
        /\ ReplyLost => Spent' = Spent + 2
    BY <1>3, <1>a, <2>1, Costs DEF SaveHold
  <2>3. CASE tx'[r] = "HOLD_SUCCESS" \/ ~ alive[r]
    <3>1. tx'[r] = "HOLD_SUCCESS" \/ at'[r] = "unhold"
      BY <1>3 DEF SaveHold, Goto
    <3>2. Orphans' \subseteq Orphans /\ Endangered' \subseteq Endangered
      BY <2>1, <2>3, <3>1 DEF Orphans, Endangered
    <3>. QED BY <1>c, <2>1, <2>2, <3>2
  <2>4. CASE tx'[r] # "HOLD_SUCCESS" /\ alive[r]
    <3>1. Fails /\ at'[r] = "unhold"
      BY <1>3, <2>4 DEF SaveHold, Goto, DbFails
    <3>2. Orphans' \subseteq Orphans /\ Endangered' \subseteq Endangered \cup {r}
      BY <2>1, <3>1 DEF Orphans, Endangered
    <3>3. Spent + 1 <= Spent'
      BY <2>2, <3>1
    <3>. QED BY <1>d, <2>1, <2>2, <3>2, <3>3
  <2>. QED BY <2>3, <2>4
<1>4. ASSUME NEW r \in Request, SaveFailedHold(r)
      PROVE  Paid'
  <2>1. /\ UNCHANGED <<stripe, alive, expired, crashes>> /\ at[r] = "saveFailed"
        /\ \A q \in Request \ {r} : at'[q] = at[q] /\ tx'[q] = tx[q]
        /\ tx[r] = "NONE"
    BY <1>4 DEF SaveFailedHold, Goto, Shaped
  <2>2. /\ Spent \in Nat /\ Spent' \in Nat /\ Spent <= Spent'
        /\ Fails => Spent' = Spent + 1
        /\ ReplyLost => Spent' = Spent + 2
    BY <1>4, <1>a, <2>1, Costs DEF SaveFailedHold
  <2>3. at'[r] = "error"
    BY <1>4 DEF SaveFailedHold, Goto
  <2>4. Orphans' \subseteq Orphans /\ Endangered' \subseteq Endangered
    BY <2>1, <2>3 DEF Orphans, Endangered
  <2>. QED BY <1>c, <2>1, <2>2, <2>4
<1>5. ASSUME NEW r \in Request, ReleaseUnsaved(r)
      PROVE  Paid'
  <2>1. /\ UNCHANGED <<tx, alive, expired, crashes>> /\ at[r] = "unhold" /\ at'[r] = "error"
        /\ \A q \in Request \ {r} : at'[q] = at[q] /\ stripe'[q] = stripe[q]
        /\ stripe'[r] # "held" \/ (Fails /\ stripe'[r] = stripe[r])
    BY <1>5 DEF ReleaseUnsaved, Goto
  <2>2. /\ Spent \in Nat /\ Spent' \in Nat /\ Spent <= Spent'
        /\ Fails => Spent' = Spent + 1
        /\ ReplyLost => Spent' = Spent + 2
    BY <1>5, <1>a, <2>1, Costs DEF ReleaseUnsaved
  <2>3. CASE stripe'[r] # "held"
    <3>1. Orphans' \subseteq Orphans /\ Endangered' \subseteq Endangered
      BY <2>1, <2>3 DEF Orphans, Endangered
    <3>. QED BY <1>c, <2>1, <2>2, <3>1
  <2>4. CASE Fails /\ stripe'[r] = stripe[r]
    <3>1. Orphans' \subseteq Orphans \cup {r} /\ Endangered' \subseteq Endangered
      BY <2>1, <2>4 DEF Orphans, Endangered
    <3>2. Spent + 1 <= Spent'
      BY <2>2, <2>4
    <3>. QED BY <1>e, <2>1, <2>2, <3>1, <3>2
  <2>. QED BY <2>1, <2>3, <2>4
<1>6. ASSUME NEW r \in Request, LookUp(r)
      PROVE  Paid'
  <2>1. /\ UNCHANGED <<stripe, tx, alive, expired, crashes>> /\ at[r] = "lookup"
        /\ at'[r] \in {"settle", "ok", "error"}
        /\ \A q \in Request \ {r} : at'[q] = at[q]
    BY <1>6 DEF LookUp, Goto
  <2>2. /\ Spent \in Nat /\ Spent' \in Nat /\ Spent <= Spent'
        /\ Fails => Spent' = Spent + 1
        /\ ReplyLost => Spent' = Spent + 2
    BY <1>6, <1>a, <2>1, Costs DEF LookUp
  <2>3. Orphans' \subseteq Orphans /\ Endangered' \subseteq Endangered
    BY <2>1 DEF Orphans, Endangered
  <2>. QED BY <1>c, <2>1, <2>2, <2>3
<1>7. ASSUME NEW r \in Request, SettleIntent(r)
      PROVE  Paid'
  <2>1. /\ UNCHANGED <<tx, alive, expired, crashes>> /\ at[r] = "settle"
        /\ at'[r] \in {"record", "error"}
        /\ \A q \in Request \ {r} : at'[q] = at[q]
        /\ \A q \in Request : stripe'[q] = "held" => stripe[q] = "held"
    BY <1>7 DEF SettleIntent, Settled, Goto
  <2>2. /\ Spent \in Nat /\ Spent' \in Nat /\ Spent <= Spent'
        /\ Fails => Spent' = Spent + 1
        /\ ReplyLost => Spent' = Spent + 2
    BY <1>7, <1>a, <2>1, Costs DEF SettleIntent
  <2>3. Orphans' \subseteq Orphans /\ Endangered' \subseteq Endangered
    BY <2>1 DEF Orphans, Endangered
  <2>. QED BY <1>c, <2>1, <2>2, <2>3
<1>8. ASSUME NEW r \in Request, RecordStatus(r)
      PROVE  Paid'
  <2>1. /\ UNCHANGED <<stripe, alive, expired, crashes>> /\ at[r] = "record" /\ at'[r] = "ok"
        /\ \A q \in Request \ {r} : at'[q] = at[q]
        /\ \A q \in Request \ {found[r]} : tx'[q] = tx[q]
    BY <1>8 DEF RecordStatus, Goto
  <2>2. /\ Spent \in Nat /\ Spent' \in Nat /\ Spent <= Spent'
        /\ Fails => Spent' = Spent + 1
        /\ ReplyLost => Spent' = Spent + 2
    BY <1>8, <1>a, <2>1, Costs DEF RecordStatus
  <2>3. stripe[found[r]] # "held"
    BY <2>1 DEF RowInv, Settled
  <2>4. Orphans' \subseteq Orphans /\ Endangered' \subseteq Endangered
    BY <2>1, <2>3 DEF Orphans, Endangered
  <2>. QED BY <1>c, <2>1, <2>2, <2>4
<1>9. ASSUME NEW r \in Request, Expire(r)
      PROVE  Paid'
  <2>1. /\ UNCHANGED <<stripe, tx, at, faults, lost, crashes>> /\ expired' = expired + 1
        /\ \A q \in Request \ {r} : alive'[q] = alive[q]
    BY <1>9 DEF Expire
  <2>2. Orphans' \subseteq Orphans /\ Endangered' \subseteq Endangered \cup {r}
    BY <2>1 DEF Orphans, Endangered
  <2>3. Spent \in Nat /\ Spent' = Spent + 0 + 1 + 2 * 0
    <3>1. faults' = faults + 0 /\ lost' = lost + 0
      BY <2>1, PaymentAssumption DEF TypeOK
    <3>. QED BY <1>a, <2>1, <3>1, Spending
  <2>4. Spent' \in Nat /\ Spent + 1 <= Spent'
    BY <2>3
  <2>. QED BY <1>d, <2>1, <2>2, <2>3, <2>4
<1>10. CASE Crash
  BY <1>10 DEF Crash, TypeOK
<1>11. CASE UNCHANGED vars
  <2>1. UNCHANGED <<stripe, tx, at, alive, faults, lost, expired, crashes>>
    BY <1>11 DEF vars, limits
  <2>2. Orphans' \subseteq Orphans /\ Endangered' \subseteq Endangered
    BY <2>1 DEF Orphans, Endangered
  <2>3. Spent \in Nat /\ Spent' \in Nat /\ Spent <= Spent'
    BY <1>a, <2>1, Idle
  <2>. QED BY <1>c, <2>1, <2>2, <2>3
<1>. QED
  BY <1>1, <1>2, <1>3, <1>4, <1>5, <1>6, <1>7, <1>8, <1>9, <1>10, <1>11 DEF Next, Handle

\* Money nobody will free takes two failures, a lost reply or a crash: see OrphansAccounted.
THEOREM OrphansCorrect == Spec => []OrphansAccounted
<1>1. Init => Shaped /\ Unheld /\ Paid
  <2> SUFFICES ASSUME Init PROVE Shaped /\ Unheld /\ Paid
    OBVIOUS
  <2>1. Orphans = {} /\ Endangered = {} /\ Cardinality({}) = 0
    BY FS_EmptySet DEF Init, Orphans, Endangered
  <2>. QED BY <2>1 DEF Init, Shaped, Unheld, Paid, Harm, Spent
<1>2. TypeOK /\ Paid => OrphansAccounted
  <2> SUFFICES ASSUME TypeOK, Paid PROVE OrphansAccounted
    OBVIOUS
  <2> DEFINE a == Cardinality(Orphans)
             b == Cardinality(Endangered)
             n == Cardinality(Request)
  <2>1. a \in Nat /\ b \in Nat /\ n \in Nat /\ a <= n /\ a <= b
    BY OrphansFinite
  <2>2. faults \in Nat /\ lost \in Nat /\ expired \in Nat /\ crashes \in Nat
    BY DEF TypeOK
  <2>3. crashes = 0 => a + b <= faults + expired + 2 * lost
    BY DEF Paid, Harm, Spent
  <2>4. crashes # 0 => n <= n * crashes
    BY <2>1, <2>2
  <2> SUFFICES 2 * a <= faults + expired + 2 * lost + 2 * n * crashes
    BY DEF OrphansAccounted
  <2> HIDE DEF a, b, n
  <2>5. CASE crashes = 0
    BY <2>1, <2>2, <2>3, <2>5
  <2>6. CASE crashes # 0
    <3>1. 2 * n * crashes = 2 * (n * crashes) /\ n * crashes \in Nat
      BY <2>1, <2>2
    <3>. QED BY <2>1, <2>2, <2>4, <2>6, <3>1
  <2>. QED BY <2>5, <2>6
<1>. QED BY <1>1, <1>2, RowsAlways, FreeStep, PaidStep, PTL DEF Spec
=============================================================================
