----------------------------- MODULE VoiceOrder -----------------------------
(***************************************************************************)
(* Ordering by voice: baskets held as order intents, the customer's yes,   *)
(* the payment hold, the order and its capture.                            *)
(* voice-commerce/src/core/voice-commerce-service.ts over the sandbox      *)
(* backend of voice-commerce/src/backend/sandbox/sandbox-backend.ts.       *)
(*                                                                         *)
(* One session of one customer.  A request is a thread: JavaScript runs    *)
(* one piece at a time and hands over at every await, so a step is the     *)
(* code between two awaits that others can tell apart.  Requests on one    *)
(* intent hold its lock; the session is read and written without one.      *)
(* Idempotency records only repeat an answer and are left out.             *)
(***************************************************************************)
EXTENDS Naturals, FiniteSets

CONSTANTS
    Intent,           \* ids of order intents
    Thread,           \* requests in progress at one time
    Price,            \* totals the price service can quote
    MaxPriceChanges,
    MaxLost,          \* intents that lose a call to the backend
    None              \* no intent, no thread, no request, no amount

(* A request in progress: its next step, the intent it has locked, the     *)
(* session's intent as it read it, a quoted total, the id of the intent it *)
(* is building, and the status an aborted order will get.                  *)
RequestType ==
    [pc : {"quote", "supersede", "save", "touch", "authorize", "check", "reserve",
           "requote", "release", "void", "order", "capture", "cancel", "record"},
     intent : Intent \cup {None}, session : Intent \cup {None},
     quote : Price \cup {None}, fresh : Intent \cup {None},
     to : {"FAILED", "SUPERSEDED", None}]

ASSUME VoiceAssumption ==
    /\ MaxPriceChanges \in Nat /\ MaxLost \in Nat
    /\ None \notin Intent \cup Thread \cup RequestType

Unconfirmed == {"AWAITING_CONFIRMATION", "CONFIRMED"}
Live == Unconfirmed \cup {"PAYMENT_AUTHORIZED"}
Terminal == {"ORDER_PLACED", "CANCELLED", "SUPERSEDED", "FAILED"}
Unused == "no intent"

VARIABLES
    intents,  \* stores.intents: status, confirmed total, past its expiry
    active,   \* active_order_intent_id of the stored session
    record,   \* stores.paymentAuths: status of the intent's record
    lock,     \* per intent: the thread holding intent:<id>
    thread,   \* per thread: the request in progress and what it read
    hold,     \* at the provider, per key payauth:<id>
    order,    \* at the OMS, per key order:<id>
    reserved, \* reservations of stock made for an intent and not yet given up
    price,    \* what the price service quotes now
    agreed,   \* the amount the customer said yes to
    lost,     \* intents for which a call to the backend got lost
    changes   \* price changes so far

vars == <<intents, active, record, lock, thread, hold, order, reserved,
          price, agreed, lost, changes>>
stores == <<intents, active, record>>
backend == <<hold, order, reserved>>
world == <<price, agreed, changes>>

NoOrder == [status |-> "none", total |-> None]

Init ==
    /\ intents = [i \in Intent |-> [status |-> Unused, total |-> None, expired |-> FALSE]]
    /\ active = None
    /\ record = [i \in Intent |-> "none"]
    /\ lock = [i \in Intent |-> None]
    /\ thread = [t \in Thread |-> None]
    /\ hold = [i \in Intent |-> "none"]
    /\ order = [i \in Intent |-> NoOrder]
    /\ reserved = [i \in Intent |-> 0]
    /\ price \in Price
    /\ agreed = [i \in Intent |-> None]
    /\ lost = {}
    /\ changes = 0

---------------------------------------------------------------------------
(* Threads, locks and the intent's state machine. *)

At(t, pc) == thread[t] # None /\ thread[t].pc = pc
Mine(t) == thread[t].intent

(* The intent is in the expected state and has not run out. *)
Usable(i, status) == intents[i].status = status /\ ~intents[i].expired

SetStatus(i, status) == [intents EXCEPT ![i].status = status]

(* A request that reads the session (as now stored) and starts at pc. *)
Request(pc, i) == [pc |-> pc, intent |-> i, session |-> active,
                   quote |-> None, fresh |-> None, to |-> None]

Begin(t, pc, i) ==
    /\ thread[t] = None
    /\ thread' = [thread EXCEPT ![t] = Request(pc, i)]

BeginLocked(t, pc, i) ==
    /\ lock[i] = None
    /\ Begin(t, pc, i)
    /\ lock' = [lock EXCEPT ![i] = t]

Goto(t, pc) == thread' = [thread EXCEPT ![t].pc = pc] /\ UNCHANGED lock

End(t) ==
    /\ thread' = [thread EXCEPT ![t] = None]
    /\ lock' = [i \in Intent |-> IF lock[i] = t THEN None ELSE lock[i]]

(* The call, or only its answer, is lost: the request ends with an error. *)
LoseCall(t) ==
    /\ Mine(t) \notin lost
    /\ Cardinality(lost) < MaxLost
    /\ lost' = lost \cup {Mine(t)}

(* A call that has taken effect: it returns to pc, or its answer is lost. *)
Returns(t, pc) ==
    \/ Goto(t, pc) /\ UNCHANGED lost
    \/ LoseCall(t) /\ End(t)

---------------------------------------------------------------------------
(* A basket becomes an intent. *)

StartCreate(t) ==
    /\ Begin(t, "quote", None)
    /\ UNCHANGED <<stores, backend, world, lock, lost>>

(* The basket is checked and priced, or refused.  The id is chosen here so *)
(* that running out of ids, a bound, is a refusal and not a half-built     *)
(* intent.                                                                 *)
Fresh(i) ==
    /\ intents[i].status = Unused
    /\ i \notin {thread[u].fresh : u \in {v \in Thread : thread[v] # None}}

Quote(t) ==
    /\ At(t, "quote")
    /\ \/ End(t)
       \/ \E i \in Intent :
            /\ Fresh(i)
            /\ thread' = [thread EXCEPT ![t].fresh = i, ![t].quote = price,
                 ![t].pc = IF thread[t].session = None THEN "save" ELSE "supersede"]
            /\ UNCHANGED lock
    /\ UNCHANGED <<stores, backend, world, lost>>

BugSupersedeUnlocked(t) ==
    /\ At(t, "supersede")
    /\ intents' = IF intents[thread[t].session].status \in Unconfirmed
                  THEN SetStatus(thread[t].session, "SUPERSEDED") ELSE intents
    /\ Goto(t, "save")
    /\ UNCHANGED <<active, record, backend, world, lost>>

(* The session's intent, as read at the start, gives way to the new one. *)
Supersede(t) ==
    /\ At(t, "supersede")
    /\ LET prior == thread[t].session IN
         /\ lock[prior] = None
         /\ intents' = IF intents[prior].status \in Unconfirmed
                       THEN SetStatus(prior, "SUPERSEDED") ELSE intents
    /\ Goto(t, "save")
    /\ UNCHANGED <<active, record, backend, world, lost>>

SaveIntent(t) ==
    /\ At(t, "save")
    /\ LET new == thread[t].fresh IN
         /\ intents' = [intents EXCEPT ![new] =
              [status |-> "AWAITING_CONFIRMATION", total |-> thread[t].quote,
               expired |-> FALSE]]
         /\ active' = new
    /\ End(t)
    /\ UNCHANGED <<record, backend, world, lost>>

(* Requests that only note progress on the session: they write back the    *)
(* whole session they read.                                                *)
Browse(t) ==
    /\ Begin(t, "touch", None)
    /\ UNCHANGED <<stores, backend, world, lock, lost>>

BeginAuthorization(t, i) ==
    /\ Usable(i, "AWAITING_CONFIRMATION")
    /\ BeginLocked(t, "touch", i)
    /\ UNCHANGED <<stores, backend, world, lost>>

Touch(t) ==
    /\ At(t, "touch")
    /\ active' = thread[t].session
    /\ End(t)
    /\ UNCHANGED <<intents, record, backend, world, lost>>

---------------------------------------------------------------------------
(* The customer's decision and the payment hold. *)

Confirm(t, i, amount) ==
    /\ Usable(i, "AWAITING_CONFIRMATION")
    /\ amount = intents[i].total
    /\ BeginLocked(t, "touch", i)
    /\ intents' = SetStatus(i, "CONFIRMED")
    /\ agreed' = [agreed EXCEPT ![i] = amount]
    /\ UNCHANGED <<active, record, backend, price, changes, lost>>

Decline(t, i) ==
    /\ Usable(i, "AWAITING_CONFIRMATION")
    /\ BeginLocked(t, "touch", i)
    /\ intents' = SetStatus(i, "CANCELLED")
    /\ UNCHANGED <<active, record, backend, world, lost>>

StartPayment(t, i) ==
    /\ Usable(i, "CONFIRMED")
    /\ BeginLocked(t, "authorize", i)
    /\ UNCHANGED <<stores, backend, world, lost>>

(* The provider authorises, refuses, or does not answer in time; a hold    *)
(* made by an earlier call that timed out is found again by its key.       *)
Authorized(t) ==
    /\ At(t, "authorize")
    /\ LET i == Mine(t) IN
         /\ hold' = [hold EXCEPT ![i] = "AUTHORIZED"]
         /\ record' = [record EXCEPT ![i] = "AUTHORIZED"]
         /\ intents' = SetStatus(i, "PAYMENT_AUTHORIZED")
         /\ thread' = [thread EXCEPT ![t] = Request("touch", i)]
    /\ UNCHANGED <<active, lock, order, reserved, world, lost>>

Declined(t) ==
    /\ At(t, "authorize")
    /\ hold[Mine(t)] = "none"
    /\ intents' = SetStatus(Mine(t), "FAILED")
    /\ End(t)
    /\ UNCHANGED <<active, record, backend, world, lost>>

TimedOut(t) ==
    /\ At(t, "authorize")
    /\ hold[Mine(t)] = "none"
    /\ hold' = [hold EXCEPT ![Mine(t)] = "AUTHORIZED"]
    /\ End(t)
    /\ UNCHANGED <<stores, order, reserved, world, lost>>

---------------------------------------------------------------------------
(* finalizeOrder: everything is checked again, then the order is created   *)
(* and the hold captured.                                                  *)

StartPlacing(t, i) ==
    /\ Usable(i, "PAYMENT_AUTHORIZED")
    /\ record[i] = "AUTHORIZED"
    /\ BeginLocked(t, "check", i)
    /\ UNCHANGED <<stores, backend, world, lost>>

(* abort(to): release, void, and the records. *)
Abort(t, pc, to) ==
    /\ thread' = [thread EXCEPT ![t].pc = pc, ![t].to = to]
    /\ UNCHANGED lock

Check(t) ==
    /\ At(t, "check")
    /\ Goto(t, "reserve") \/ Abort(t, "void", "FAILED")
    /\ UNCHANGED <<stores, backend, world, lost>>

(* Any error while reserving aborts the order, a lost answer included. *)
Reserve(t) ==
    /\ At(t, "reserve")
    /\ LET held == [reserved EXCEPT ![Mine(t)] = @ + 1] IN
         \/ reserved' = held /\ Goto(t, "requote") /\ UNCHANGED lost
         \/ Abort(t, "void", "FAILED") /\ UNCHANGED <<reserved, lost>>
         \/ reserved' = held /\ Abort(t, "void", "FAILED") /\ LoseCall(t)
    /\ UNCHANGED <<stores, hold, order, world>>

BugPriceNotCompared(t) == TRUE
SamePrice(t) == price = intents[Mine(t)].total

Requote(t) ==
    /\ At(t, "requote")
    /\ IF SamePrice(t)
       THEN /\ thread' = [thread EXCEPT ![t].pc = "order", ![t].quote = price]
            /\ UNCHANGED lock
       ELSE Abort(t, "release", "SUPERSEDED")
    /\ UNCHANGED <<stores, backend, world, lost>>

Release(t) ==
    /\ At(t, "release")
    /\ reserved' = [reserved EXCEPT ![Mine(t)] = @ - 1]
    /\ Returns(t, "void")
    /\ UNCHANGED <<stores, hold, order, world>>

BugHoldKept(i) == hold
VoidHold(i) == [hold EXCEPT ![i] = IF @ = "AUTHORIZED" THEN "VOIDED" ELSE @]

(* After a changed price the same request builds the replacement. *)
Void(t) ==
    /\ At(t, "void")
    /\ LET i == Mine(t)
           s == thread[t].session IN
         /\ hold' = VoidHold(i)
         /\ \/ /\ record' = [record EXCEPT ![i] = "VOIDED"]
               /\ intents' = SetStatus(i, thread[t].to)
               /\ active' = s
               /\ IF thread[t].to = "FAILED"
                  THEN End(t)
                  ELSE /\ thread' = [thread EXCEPT ![t].pc = "quote",
                                       ![t].session = IF s = i THEN None ELSE s]
                       /\ UNCHANGED lock
               /\ UNCHANGED lost
            \/ LoseCall(t) /\ End(t) /\ UNCHANGED stores
    /\ UNCHANGED <<order, reserved, world>>

(* A second call for the same intent finds the first order. *)
CreateOrder(t) ==
    /\ At(t, "order")
    /\ LET i == Mine(t) IN
         IF order[i] = NoOrder
         THEN /\ order' = [order EXCEPT ![i] =
                   [status |-> "CONFIRMED", total |-> thread[t].quote]]
              /\ reserved' = [reserved EXCEPT ![i] = @ - 1]
         ELSE UNCHANGED <<order, reserved>>
    /\ Returns(t, "capture")
    /\ UNCHANGED <<stores, hold, world>>

Captured(t) ==
    /\ At(t, "capture")
    /\ hold[Mine(t)] = "AUTHORIZED"
    /\ hold' = [hold EXCEPT ![Mine(t)] = "CAPTURED"]
    /\ Returns(t, "record")
    /\ UNCHANGED <<stores, order, reserved, world>>

(* As if an order whose capture failed were not cancelled. *)
BugOrderKept(t) ==
    /\ At(t, "capture")
    /\ Abort(t, "void", "FAILED")
    /\ UNCHANGED <<stores, backend, world, lost>>

NotCaptured(t) ==
    /\ At(t, "capture")
    /\ Goto(t, "cancel")
    /\ UNCHANGED <<stores, backend, world, lost>>

(* orders.cancel: the OMS gives up an order it has not begun to pack, and  *)
(* voids a hold that was not captured.                                     *)
CancelAtOMS(i) ==
    IF order[i].status = "CONFIRMED"
    THEN order' = [order EXCEPT ![i].status = "CANCELLED"] /\ hold' = VoidHold(i)
    ELSE UNCHANGED <<order, hold>>

(* The answer of orders.cancel is not looked at. *)
CancelUnpaid(t) ==
    /\ At(t, "cancel")
    /\ CancelAtOMS(Mine(t))
    /\ \/ Abort(t, "void", "FAILED") /\ UNCHANGED lost
       \/ LoseCall(t) /\ End(t)
    /\ UNCHANGED <<stores, reserved, world>>

RecordPlaced(t) ==
    /\ At(t, "record")
    /\ record' = [record EXCEPT ![Mine(t)] = "CAPTURED"]
    /\ intents' = SetStatus(Mine(t), "ORDER_PLACED")
    /\ active' = None
    /\ End(t)
    /\ UNCHANGED <<backend, world, lost>>

(* A call to the backend throws before it has any effect. *)
Throw(t) ==
    /\ thread[t] # None
    /\ thread[t].pc \in {"check", "requote", "release", "void", "order", "capture", "cancel"}
    /\ LoseCall(t)
    /\ End(t)
    /\ UNCHANGED <<stores, backend, world>>

---------------------------------------------------------------------------
(* The customer, the OMS, prices and time. *)

CancelOrder(i) ==
    /\ order[i].status = "CONFIRMED"
    /\ CancelAtOMS(i)
    /\ UNCHANGED <<stores, lock, thread, reserved, world, lost>>

(* CONFIRMED stands for ACCEPTED too: both can still be cancelled.          *)
StartPacking(i) ==
    /\ order[i].status = "CONFIRMED"
    /\ order' = [order EXCEPT ![i].status = "PREPARING"]
    /\ UNCHANGED <<stores, lock, thread, hold, reserved, world, lost>>

Expire(i) ==
    /\ intents[i].status \in Live
    /\ ~intents[i].expired
    /\ intents' = [intents EXCEPT ![i].expired = TRUE]
    /\ UNCHANGED <<active, record, lock, thread, backend, world, lost>>

ChangePrice ==
    /\ changes < MaxPriceChanges
    /\ changes' = changes + 1
    /\ price' \in Price \ {price}
    /\ UNCHANGED <<stores, lock, thread, backend, agreed, lost>>

Ask(t) ==
    \/ StartCreate(t)
    \/ Browse(t)
    \/ \E i \in Intent :
         \/ BeginAuthorization(t, i)
         \/ \E amount \in Price : Confirm(t, i, amount)
         \/ Decline(t, i)
         \/ StartPayment(t, i)
         \/ StartPlacing(t, i)

Step(t) ==
    \/ Quote(t) \/ Supersede(t) \/ SaveIntent(t) \/ Touch(t)
    \/ Authorized(t) \/ Declined(t) \/ TimedOut(t)
    \/ Check(t) \/ Reserve(t) \/ Requote(t) \/ Release(t) \/ Void(t)
    \/ CreateOrder(t) \/ Captured(t) \/ NotCaptured(t) \/ CancelUnpaid(t)
    \/ RecordPlaced(t) \/ Throw(t)

Environment ==
    \/ ChangePrice
    \/ \E i \in Intent : CancelOrder(i) \/ StartPacking(i) \/ Expire(i)

Next ==
    \/ \E t \in Thread : Ask(t) \/ Step(t)
    \/ Environment

Spec == Init /\ [][Next]_vars

---------------------------------------------------------------------------
(* Properties. *)

(* Every variable has a value of its type. *)
Status == Live \cup Terminal \cup {Unused}
TypeOK ==
    /\ intents \in [Intent -> [status : Status, total : Price \cup {None}, expired : BOOLEAN]]
    /\ active \in Intent \cup {None}
    /\ record \in [Intent -> {"none", "AUTHORIZED", "VOIDED", "CAPTURED"}]
    /\ lock \in [Intent -> Thread \cup {None}]
    /\ thread \in [Thread -> RequestType \cup {None}]
    /\ hold \in [Intent -> {"none", "AUTHORIZED", "VOIDED", "CAPTURED"}]
    /\ order \in [Intent -> [status : {"none", "CONFIRMED", "PREPARING", "CANCELLED"},
                             total : Price \cup {None}]]
    /\ reserved \in [Intent -> Nat]
    /\ price \in Price /\ agreed \in [Intent -> Price \cup {None}]
    /\ lost \subseteq Intent /\ changes \in 0 .. MaxPriceChanges

(* Nobody is at work on the intent, and no call made for it was lost. *)
Settled(i) == lock[i] = None /\ i \notin lost

(* Money is only ever asked for while the customer's yes stands: a hold is *)
(* made on a confirmed intent and captured on an authorised one, whatever  *)
(* new baskets, declines and supersessions race with the payment.          *)
OnlyConfirmedCharged ==
    [][\A i \in Intent : hold'[i] # hold[i] =>
         /\ hold'[i] = "AUTHORIZED" => intents[i].status = "CONFIRMED"
         /\ hold'[i] = "CAPTURED" => intents[i].status = "PAYMENT_AUTHORIZED"]_vars

(* How far an intent of that status is, for the customer. *)
StageOf(status) ==
    IF status \in {Unused, "AWAITING_CONFIRMATION"} THEN "open"
    ELSE IF status = "CONFIRMED" THEN "agreed"
    ELSE IF status = "PAYMENT_AUTHORIZED" THEN "paying"
    ELSE "closed"

Standing == [i \in Intent |-> StageOf(intents[i].status)]

Customers == INSTANCE Purchase
    WITH Basket <- Intent, Amount <- Price, stage <- Standing,
         amount <- agreed, money <- hold, goods <- order

(* The requests, their retries and the backend's lost answers implement    *)
(* the purchase the customer sees (Purchase): finalizeOrder and its abort, *)
(* the payment hold, supersession and cancellation, one basket at a time.  *)
KeepsThePurchase == Customers!Spec

(* An order is created for exactly the amount the customer said yes to,    *)
(* however often prices change between the yes and the order.              *)
ChargedAsConfirmed ==
    \A i \in Intent : order[i] # NoOrder => order[i].total = agreed[i]

(* An order that is still waiting to be packed has been paid for, once the *)
(* request that placed it is over: a refused capture cancels it.           *)
UnpaidIsCancelled ==
    \A i \in Intent :
      Settled(i) /\ order[i].status = "CONFIRMED" => hold[i] = "CAPTURED"

(* The service knows what was paid: captured holds and placed intents are  *)
(* the same, and each of them has an order.                                *)
PlacedIsCaptured ==
    \A i \in Intent : Settled(i) =>
      /\ (hold[i] = "CAPTURED") <=> (intents[i].status = "ORDER_PLACED")
      /\ hold[i] = "CAPTURED" => order[i] # NoOrder

(* Both: what the customer paid for, the order system and the service agree. *)
PaidIsPlaced == UnpaidIsCancelled /\ PlacedIsCaptured

(* An intent given up after its payment was authorised keeps no hold on    *)
(* the customer's card.                                                    *)
AbortedIsReleased ==
    \A i \in Intent :
      Settled(i) /\ record[i] # "none" /\ intents[i].status \in {"FAILED", "SUPERSEDED"}
        => hold[i] = "VOIDED"

(* No stock stays reserved for an intent nobody is placing. *)
StockReturned == \A i \in Intent : Settled(i) => reserved[i] = 0

(* Both: an intent given up, or being placed by nobody, holds nothing. *)
NothingKept == AbortedIsReleased /\ StockReturned

(* No order is left unpaid (comment in finalizeOrder). *)
NeverUnpaid ==
    \A i \in Intent :
      Settled(i) /\ order[i].status \in {"CONFIRMED", "PREPARING"} => hold[i] = "CAPTURED"

(* A session has at most one intent the customer could still say yes to or *)
(* pay for (comment in buildIntent).                                       *)
OneUnconfirmedIntent ==
    Cardinality({i \in Intent : intents[i].status \in Unconfirmed}) <= 1

(* A cancelled order is not charged (the answer of cancelOrder). *)
CancelledNotCharged ==
    \A i \in Intent : order[i].status = "CANCELLED" => hold[i] # "CAPTURED"

(* No hold outlives its intent. *)
NoStrandedHold ==
    \A i \in Intent :
      Settled(i) /\ (intents[i].status \in Terminal \/ intents[i].expired)
        => hold[i] # "AUTHORIZED"

(* No two requests that build a replacement each hold the lock of the      *)
(* intent the other is about to supersede: they would wait for ever.       *)
NoCrossedLocks ==
    \A t, u \in Thread :
      At(t, "quote") /\ At(u, "quote") /\ Mine(t) # None /\ Mine(u) # None
        => ~(thread[t].session = Mine(u) /\ thread[u].session = Mine(t))
=============================================================================
