------------------------------- MODULE Payment -------------------------------
(***************************************************************************)
(* The payment service: AuthorizeHold, ReleaseHold and CapturePayment      *)
(* requests running concurrently against the table transactions and        *)
(* Stripe, two stores no transaction spans.  A request names the trip it   *)
(* is for; an authorization's row and PaymentIntent are named by the       *)
(* request that made them.                                                 *)
(*                                                                         *)
(* Every call to a store is one step that works, fails without effect, or  *)
(* takes effect and loses its reply.  Calls to PostgreSQL use the          *)
(* request's context, which the trip service lets expire after 5 s; calls  *)
(* to Stripe do not.                                                       *)
(***************************************************************************)
EXTENDS Integers, FiniteSets

CONSTANTS
  Request,      \* gRPC requests
  Trip,
  NoTrip,
  NoRequest,
  MaxFaults,    \* bound: calls that fail without effect
  MaxLost,      \* bound: calls that take effect but report an error
  MaxExpired,   \* bound: requests whose context expires
  MaxCrashes    \* bound: restarts of the payment service

ASSUME PaymentAssumption ==
  /\ IsFiniteSet(Request)
  /\ NoTrip \notin Trip /\ NoRequest \notin Request
  /\ MaxFaults \in Nat /\ MaxLost \in Nat /\ MaxExpired \in Nat
  /\ MaxCrashes \in Nat

VARIABLES
  trip,      \* the trip each request is for
  op,        \* the RPC each request is
  at,        \* where each request stands
  stripe,    \* the PaymentIntent of each authorization, at Stripe
  tx,        \* status of its row in transactions, "NONE" without a row
  stamp,     \* created_at of the row
  found,     \* the transaction a release or capture looked up
  alive,     \* FALSE once the request's context has expired
  clock,
  faults, lost, expired, crashes

limits == <<faults, lost, expired, crashes>>
vars == <<trip, op, at, stripe, tx, stamp, found, alive, clock, limits>>

Ops == {"authorize", "release", "capture"}
TransactionStatus == {"NONE", "HOLD_SUCCESS", "HOLD_FAILED", "CAPTURED", "RELEASED"}
Working == {"hold", "save", "saveFailed", "unhold", "lookup", "settle", "record"}
Stages == Working \cup {"idle", "ok", "error", "dead"}

-----------------------------------------------------------------------------
(* Helpers *)

Goto(r, stage) == at' = [at EXCEPT ![r] = stage]

Works == UNCHANGED <<faults, lost>>
Fails == faults < MaxFaults /\ faults' = faults + 1 /\ UNCHANGED lost
ReplyLost == lost < MaxLost /\ lost' = lost + 1 /\ UNCHANGED faults

\* The same for a call to PostgreSQL, refused when the context has expired.
DbWorks(r) == alive[r] /\ Works
DbFails(r) == IF alive[r] THEN Fails ELSE UNCHANGED <<faults, lost>>
DbReplyLost(r) == alive[r] /\ ReplyLost

\* GetByTripID: the row of trip t with the latest created_at.
Rows(t) == {r \in Request : tx[r] # "NONE" /\ trip[r] = t}
Latest(r, t) == r \in Rows(t) /\ \A q \in Rows(t) : stamp[q] <= stamp[r]

\* Mutants: a capture cancels the intent; a release never reaches Stripe.
AlwaysReleased(r) == "released"
ReleaseSkipped(r) == IF op[r] = "release" THEN "held" ELSE "captured"
\* What a release or a capture makes of a hold.
Settled(r) == IF op[r] = "release" THEN "released" ELSE "captured"
\* Mutant: a status the service does not know.
UnknownStatus(r) == IF op[r] = "release" THEN "CANCELLED" ELSE "CAPTURED"
Record(r) == IF op[r] = "release" THEN "RELEASED" ELSE "CAPTURED"

-----------------------------------------------------------------------------
(* Requests arrive *)

Arrive(r, o, t) ==
  /\ at[r] = "idle"
  /\ trip' = [trip EXCEPT ![r] = t]
  /\ op' = [op EXCEPT ![r] = o]
  /\ Goto(r, IF o = "authorize" THEN "hold" ELSE "lookup")
  /\ UNCHANGED <<stripe, tx, stamp, found, alive, clock, limits>>

-----------------------------------------------------------------------------
(* AuthorizeHold *)

\* Confirm a PaymentIntent with manual capture, then take the time.  An error,
\* a declined card or a lost reply alike, leaves the handler without the intent.
StripeAuthorize(r) ==
  /\ at[r] = "hold"
  /\ \/ Works /\ stripe' = [stripe EXCEPT ![r] = "held"] /\ Goto(r, "save")
     \/ Works /\ UNCHANGED stripe /\ Goto(r, "saveFailed")
     \/ Fails /\ UNCHANGED stripe /\ Goto(r, "saveFailed")
     \/ ReplyLost /\ stripe' = [stripe EXCEPT ![r] = "held"] /\ Goto(r, "saveFailed")
  /\ clock' = clock + 1
  /\ stamp' = [stamp EXCEPT ![r] = clock]
  /\ UNCHANGED <<trip, op, tx, found, alive, expired, crashes>>

SaveHold(r) ==
  /\ at[r] = "save"
  /\ \/ DbWorks(r) /\ tx' = [tx EXCEPT ![r] = "HOLD_SUCCESS"] /\ Goto(r, "ok")
     \/ DbReplyLost(r) /\ tx' = [tx EXCEPT ![r] = "HOLD_SUCCESS"] /\ Goto(r, "unhold")
     \/ DbFails(r) /\ UNCHANGED tx /\ Goto(r, "unhold")
  /\ UNCHANGED <<trip, op, stripe, stamp, found, alive, clock, expired, crashes>>

\* Mutant: the hold of a row that could not be saved is kept.
KeepUnsaved(r) ==
  /\ at[r] = "unhold"
  /\ Goto(r, "error")
  /\ UNCHANGED <<trip, op, stripe, tx, stamp, found, alive, clock, limits>>
\* The row could not be saved: cancel the intent; an error is ignored.
ReleaseUnsaved(r) ==
  /\ at[r] = "unhold"
  /\ \/ /\ Works \/ ReplyLost
        /\ stripe' = IF stripe[r] = "held" THEN [stripe EXCEPT ![r] = "released"]
                     ELSE stripe
     \/ Fails /\ UNCHANGED stripe
  /\ Goto(r, "error")
  /\ UNCHANGED <<trip, op, tx, stamp, found, alive, clock, expired, crashes>>

\* Stripe refused: keep a HOLD_FAILED row, if it can be saved.
SaveFailedHold(r) ==
  /\ at[r] = "saveFailed"
  /\ \/ (DbWorks(r) \/ DbReplyLost(r)) /\ tx' = [tx EXCEPT ![r] = "HOLD_FAILED"]
     \/ DbFails(r) /\ UNCHANGED tx
  /\ Goto(r, "error")
  /\ UNCHANGED <<trip, op, stripe, stamp, found, alive, clock, expired, crashes>>

-----------------------------------------------------------------------------
(* ReleaseHold and CapturePayment *)

\* Look the trip's transaction up.  Without a hold in it, a release has nothing
\* to do and a capture is refused.
LookUp(r) ==
  /\ at[r] = "lookup"
  /\ \/ /\ DbWorks(r)
        /\ \E q \in Request :
             /\ Latest(q, trip[r])
             /\ found' = [found EXCEPT ![r] = q]
             /\ Goto(r, IF tx[q] = "HOLD_SUCCESS" THEN "settle"
                        ELSE IF op[r] = "release" THEN "ok" ELSE "error")
     \/ /\ DbFails(r) \/ (DbWorks(r) /\ Rows(trip[r]) = {})
        /\ Goto(r, "error")
        /\ UNCHANGED found
  /\ UNCHANGED <<trip, op, stripe, tx, stamp, alive, clock, expired, crashes>>

\* Cancel or capture the intent.  Stripe refuses an intent that is not held.
SettleIntent(r) ==
  LET q == found[r] IN
  /\ at[r] = "settle"
  /\ \/ /\ stripe[q] = "held"
        /\ stripe' = [stripe EXCEPT ![q] = Settled(r)]
        /\ (Works /\ Goto(r, "record")) \/ (ReplyLost /\ Goto(r, "error"))
     \/ /\ (stripe[q] # "held" /\ Works) \/ Fails
        /\ UNCHANGED stripe
        /\ Goto(r, "error")
  /\ UNCHANGED <<trip, op, tx, stamp, found, alive, clock, expired, crashes>>

\* Update the row; an error is only logged and the answer is Success.
RecordStatus(r) ==
  /\ at[r] = "record"
  /\ \/ (DbWorks(r) \/ DbReplyLost(r)) /\ tx' = [tx EXCEPT ![found[r]] = Record(r)]
     \/ DbFails(r) /\ UNCHANGED tx
  /\ Goto(r, "ok")
  /\ UNCHANGED <<trip, op, stripe, stamp, found, alive, clock, expired, crashes>>

Handle(r) ==
  \/ StripeAuthorize(r) \/ SaveHold(r) \/ ReleaseUnsaved(r) \/ SaveFailedHold(r)
  \/ LookUp(r) \/ SettleIntent(r) \/ RecordStatus(r)

-----------------------------------------------------------------------------
(* Failures *)

Expire(r) ==
  /\ at[r] \in Working /\ alive[r]
  /\ expired < MaxExpired /\ expired' = expired + 1
  /\ alive' = [alive EXCEPT ![r] = FALSE]
  /\ UNCHANGED <<trip, op, at, stripe, tx, stamp, found, clock, faults, lost,
                 crashes>>

Crash ==
  /\ crashes < MaxCrashes /\ crashes' = crashes + 1
  /\ at' = [r \in Request |-> IF at[r] \in Working THEN "dead" ELSE at[r]]
  /\ UNCHANGED <<trip, op, stripe, tx, stamp, found, alive, clock, faults, lost,
                 expired>>

-----------------------------------------------------------------------------
Init ==
  /\ trip = [r \in Request |-> NoTrip]
  /\ op = [r \in Request |-> "authorize"]
  /\ at = [r \in Request |-> "idle"]
  /\ stripe = [r \in Request |-> "none"]
  /\ tx = [r \in Request |-> "NONE"]
  /\ stamp = [r \in Request |-> 0]
  /\ found = [r \in Request |-> NoRequest]
  /\ alive = [r \in Request |-> TRUE]
  /\ clock = 1
  /\ faults = 0 /\ lost = 0 /\ expired = 0 /\ crashes = 0

Next ==
  \/ \E r \in Request, o \in Ops, t \in Trip : Arrive(r, o, t)
  \/ \E r \in Request : Handle(r) \/ Expire(r)
  \/ Crash

Spec == Init /\ [][Next]_vars

-----------------------------------------------------------------------------
TypeOK ==
  /\ trip \in [Request -> Trip \cup {NoTrip}]
  /\ op \in [Request -> Ops]
  /\ at \in [Request -> Stages]
  /\ stripe \in [Request -> {"none", "held", "released", "captured"}]
  /\ tx \in [Request -> TransactionStatus]
  /\ stamp \in [Request -> Nat]
  /\ found \in [Request -> Request \cup {NoRequest}]
  /\ alive \in [Request -> BOOLEAN]
  /\ clock \in Nat
  /\ faults \in 0..MaxFaults /\ lost \in 0..MaxLost
  /\ expired \in 0..MaxExpired /\ crashes \in 0..MaxCrashes

-----------------------------------------------------------------------------
(* Properties *)

\* A row never claims a release or a capture that Stripe did not make, whichever
\* releases and captures of the trip ran at the same time.
RowsAgreeWithStripe ==
  \A r \in Request :
    /\ tx[r] = "RELEASED" => stripe[r] = "released"
    /\ tx[r] = "CAPTURED" => stripe[r] = "captured"

\* Money held at Stripe that no row leads to and no request will free.
Orphans == {r \in Request : /\ stripe[r] = "held"
                            /\ tx[r] # "HOLD_SUCCESS"
                            /\ at[r] \notin {"save", "unhold"}}

\* internal/handler/grpc.go:79: "releasing Stripe hold to prevent orphans".  It
\* takes two failures to leave one, or a lost Stripe reply or a crash.
OrphansAccounted ==
  2 * Cardinality(Orphans)
    <= faults + expired + 2 * lost + 2 * Cardinality(Request) * crashes

\* A ReleaseHold that answers Success has freed the trip's money, if the trip was
\* authorized once and no reply of Stripe or PostgreSQL was lost.
ReleaseSuccessFrees ==
  \A r, q \in Request :
    /\ op[r] = "release" /\ at[r] = "ok" /\ lost = 0
    /\ op[q] = "authorize" /\ trip[q] = trip[r]
    /\ (\A p \in Request : op[p] = "authorize" /\ trip[p] = trip[r] => p = q)
    => stripe[q] # "held"
=============================================================================
