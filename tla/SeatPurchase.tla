---------------------------- MODULE SeatPurchase ----------------------------
(***************************************************************************)
(* A date's purchases, from the key the buyer sends to the seats or the    *)
(* money: PurchaseSeatHandler's transactions and the provider's call       *)
(* between them, the webhooks applied in any order, the sweeper's expiry   *)
(* pass and the worker's calls.  Several attempts may run under one key,   *)
(* at once or one after the other, and any of them may stop for good       *)
(* between two of its transactions.                                        *)
(*                                                                         *)
(* A transaction on an order holds the order's row lock from its first     *)
(* read, so each is one action.  The date's row is moved by the statements *)
(* of SalesRow, which decide again under that row's lock what an unlocked  *)
(* read decided before; how old such a read may be is DateSales' subject,  *)
(* and the waiting list's pool stays there too.                            *)
(***************************************************************************)
EXTENDS SalesRow, FiniteSets

CONSTANTS
    Orders,         \* one for each idempotency key the buyers send
    Quantity,       \* the seats each asks for
    Attempts,       \* the requests received, retries included
    KeyOf,          \* the order each attempt's key is bound to
    Scenarios,      \* the statuses the provider may give each order's new intent
    Disputable,     \* the orders whose charge the bank may dispute
    Outcomes,       \* the outcomes catalog may declare, at most one
    Capacity,       \* the seats the studio opens
    HoldTtl,        \* core's checkoutIntentExpiry, in ticks
    StartsAt,       \* the date's start: later, a purchase acknowledges what it missed
    SalesEnd,       \* the end of sales
    MaxRenewals,    \* bound: how often an order's hold is renewed
    MaxTime         \* bound: the clock's last instant

IntentStatus == {"requires_action", "processing", "succeeded", "declined"}

ASSUME SeatPurchaseAssumption ==
    /\ IsFiniteSet(Orders)
    /\ Quantity \in [Orders -> Nat \ {0}]
    /\ KeyOf \in [Attempts -> Orders]
    /\ Scenarios \in [Orders -> SUBSET IntentStatus]
    /\ Disputable \subseteq Orders
    /\ Outcomes \subseteq DateOutcome
    /\ {Capacity, HoldTtl, StartsAt, SalesEnd, MaxRenewals, MaxTime} \subseteq Nat
    /\ Capacity > 0 /\ HoldTtl > 0
    /\ NULL \notin IntentStatus \cup DateOutcome

VARIABLES
    now,        \* the clock every process reads
    sales,      \* the date's row
    order,      \* each key's order, with its hold, its refund and its kept answer
    attempt,    \* where each request stands, and what its buyer was told
    intent,     \* the provider's intent for each order
    events      \* the provider's events on each order not applied yet

vars == <<now, sales, order, attempt, intent, events>>

-----------------------------------------------------------------------------
(***************************************************************************)
(* The order.                                                              *)
(***************************************************************************)

AWAITING_PAYMENT == {"pending", "awaiting_action", "processing"}

OrderState == AWAITING_PAYMENT \cup {"none", "failed", "paid", "refunded", "disputed"}

\* Core's ranks, forward only.
Rank ==
    [none |-> 0, pending |-> 1, awaiting_action |-> 2, processing |-> 3,
     failed |-> 4, paid |-> 5, refunded |-> 6, disputed |-> 7]

orderStateMovesForward(from, to) == Rank[from] < Rank[to]

\* hold is the state of the order's current hold and gen counts the holds before it;
\* intent tells apart one learnt of by webhook, without its client secret; refund is
\* the payment's, owed back whole; seated is that its seats were issued.
SeatOrder ==
    [state      : OrderState,
     hold       : {"none", "active", "consumed", "released", "expired"},
     gen        : Nat,
     expiresAt  : Instant,
     intent     : {"none", "ref", "secret"},
     refund     : {"none", "owed", "made"},
     cancelOwed : BOOLEAN,
     seated     : BOOLEAN,
     answer     : {"none", "paid", "awaiting_payment"}]

NoOrder ==
    [state |-> "none", hold |-> "none", gen |-> 0, expiresAt |-> 0, intent |-> "none",
     refund |-> "none", cancelOwed |-> FALSE, seated |-> FALSE, answer |-> "none"]

awaitsPayment(x) == x.state \in AWAITING_PAYMENT

\* Variant: an order that failed takes no payment.
acceptsPaymentAwaiting(x) == x.refund = "none" /\ awaitsPayment(x)

acceptsPayment(x) == x.refund = "none" /\ orderStateMovesForward(x.state, "paid")

awaitsIntent(x) == x.state = "pending" /\ x.intent = "none"

\* Variant: an intent learnt of by webhook is not asked for again.
awaitsClientSecretNever(x) == FALSE

awaitsClientSecret(x) == awaitsPayment(x) /\ x.refund = "none" /\ x.intent = "ref"

\* The order moved to a new hold: placed with its first, renewed with the others.
heldUntil(x, gen, until) ==
    [x EXCEPT !.state = "pending", !.hold = "active", !.gen = gen, !.expiresAt = until]

completedIntent(known, told) ==
    IF known = "none" \/ told = "secret" THEN told ELSE known

\* An intent that still waits.  Reaching an order that failed meanwhile, it is owed its
\* cancellation.
recordIntent(x, told, state) ==
    IF x.state = "failed"
    THEN [x EXCEPT !.intent = IF @ = "none" THEN told ELSE @, !.cancelOwed = TRUE]
    ELSE IF awaitsPayment(x)
    THEN [x EXCEPT !.intent = completedIntent(@, told),
                   !.state = IF orderStateMovesForward(@, state) THEN state ELSE @]
    ELSE x

\* Variant: the cancellation owed stays owed.
payOwingCancellation(x) ==
    [x EXCEPT !.state = "paid", !.intent = completedIntent(@, "ref"), !.seated = TRUE]

pay(x) ==
    [x EXCEPT !.state = "paid", !.intent = completedIntent(@, "ref"),
              !.cancelOwed = FALSE, !.seated = TRUE]

oweUnseatedPaymentBack(x) ==
    [x EXCEPT !.refund = "owed", !.intent = completedIntent(@, "ref"),
              !.cancelOwed = FALSE]

fail(x) == [x EXCEPT !.state = "failed"]

dispute(x) ==
    [x EXCEPT !.state = IF orderStateMovesForward(@, "disputed") THEN "disputed" ELSE @]

refundMade(x) ==
    [x EXCEPT !.refund = "made",
              !.state = IF orderStateMovesForward(@, "refunded") THEN "refunded" ELSE @]

-----------------------------------------------------------------------------
(***************************************************************************)
(* A request's steps: it starts, resumes an order its key is bound to,     *)
(* asks the provider, records the answer or gives the hold back, and is    *)
(* done.  gen is the hold a renewal found gone, status the answer in hand. *)
(***************************************************************************)

Attempt ==
    [step   : {"start", "resuming", "sold_out", "creating", "recording", "releasing", "done"},
     gen    : Nat,
     status : IntentStatus \cup {NULL},
     told   : {"nothing", "paid", "awaiting_payment", "refused", "retry"}]

At(a, step) == [attempt EXCEPT ![a].step = step]

Told(a, what) ==
    [attempt EXCEPT ![a] = [step |-> "done", gen |-> 0, status |-> NULL, told |-> what]]

Refused(a) == Told(a, "refused")

EventKind == IntentStatus \cup {"cancelled", "disputed"}

Intent == [status : IntentStatus \cup {NULL}, canceled : BOOLEAN, disputed : BOOLEAN]

TypeOK ==
    /\ now \in Instant
    /\ sales \in DateSalesRow
    /\ order \in [Orders -> SeatOrder]
    /\ attempt \in [Attempts -> Attempt]
    /\ intent \in [Orders -> Intent]
    /\ events \in [Orders -> SUBSET EventKind]

\* A published date, its seats not opened yet.
Init ==
    /\ now = 0
    /\ sales = [OpenedRow EXCEPT !.pricesLocked = TRUE, !.salesEndAt = SalesEnd]
    /\ order = [o \in Orders |-> NoOrder]
    /\ attempt = [a \in Attempts |->
                     [step |-> "start", gen |-> 0, status |-> NULL, told |-> "nothing"]]
    /\ intent = [o \in Orders |->
                    [status |-> NULL, canceled |-> FALSE, disputed |-> FALSE]]
    /\ events = [o \in Orders |-> {}]

Moved(o, x) == order' = [order EXCEPT ![o] = x]

sellsSeats == isOnSale(sales) /\ ~hasEndedBy(sales, now)

unacknowledged(acknowledged) == now >= StartsAt /\ ~acknowledged

CanHold(o) ==
    /\ CanTakeSeats(sales, Quantity[o], now, FALSE)
    /\ now + HoldTtl <= MaxTime

returned(o) == returnHeldSeats(sales, Quantity[o], 0, now)

-----------------------------------------------------------------------------
(***************************************************************************)
(* Settling and failing a payment, from tx B or from a webhook: the order  *)
(* and the date's row after it.                                            *)
(***************************************************************************)

\* The seats from the hold; taken again when it is gone (D-082); or, none left or the
\* date cancelled, the money owed back and an active hold given back.
settleConfirmedPayment(o) ==
    LET x == order[o]
        q == Quantity[o]
        cancelled == sales.outcome = "cancelled"
    IN  CASE ~acceptsPayment(x) ->
                 [order |-> x, sales |-> sales]
          [] acceptsPayment(x) /\ cancelled /\ x.hold = "active" ->
                 [order |-> oweUnseatedPaymentBack([x EXCEPT !.hold = "released"]),
                  sales |-> returned(o)]
          [] acceptsPayment(x) /\ ~cancelled /\ x.hold = "active" ->
                 [order |-> pay([x EXCEPT !.hold = "consumed"]),
                  sales |-> sellHeldSeats(sales, q)]
          [] acceptsPayment(x) /\ ~cancelled /\ x.hold # "active"
                 /\ CanTakeSeats(sales, q, now, FALSE) ->
                 [order |-> pay(x), sales |-> takeAndSellSeats(sales, q, now, FALSE)]
          [] OTHER ->
                 [order |-> oweUnseatedPaymentBack(x), sales |-> sales]

\* Variant: the seats go back whether or not the hold was active.
failUnpaidOrderReturning(o) ==
    LET x == order[o]
    IN  IF ~awaitsPayment(x) THEN [order |-> x, sales |-> sales]
        ELSE [order |-> fail([x EXCEPT !.hold = "released"]), sales |-> returned(o)]

failUnpaidOrder(o) ==
    LET x == order[o]
    IN  CASE ~awaitsPayment(x) -> [order |-> x, sales |-> sales]
          [] awaitsPayment(x) /\ x.hold = "active" ->
                 [order |-> fail([x EXCEPT !.hold = "released"]), sales |-> returned(o)]
          [] OTHER -> [order |-> fail(x), sales |-> sales]

\* Variant: a payment still processing is settled as confirmed.
AppliedEarly(o, kind, told) ==
    CASE kind \in {"succeeded", "processing"} -> settleConfirmedPayment(o)
      [] kind \in {"declined", "cancelled"} -> failUnpaidOrder(o)
      [] kind = "requires_action" ->
             [order |-> recordIntent(order[o], told, "awaiting_action"), sales |-> sales]
      [] kind = "disputed" ->
             [settleConfirmedPayment(o) EXCEPT !.order = dispute(@)]

\* What the provider said of the intent, a webhook telling no client secret.
Applied(o, kind, told) ==
    CASE kind = "succeeded" -> settleConfirmedPayment(o)
      [] kind \in {"declined", "cancelled"} -> failUnpaidOrder(o)
      [] kind = "requires_action" ->
             [order |-> recordIntent(order[o], told, "awaiting_action"), sales |-> sales]
      [] kind = "processing" ->
             [order |-> recordIntent(order[o], told, "processing"), sales |-> sales]
      [] kind = "disputed" ->
             [settleConfirmedPayment(o) EXCEPT !.order = dispute(@)]

-----------------------------------------------------------------------------
(***************************************************************************)
(* The answer a purchase gives from its order's state: the first success   *)
(* is kept and every replay is served it; a refusal is not kept.           *)
(***************************************************************************)

\* Variant: each success is served as the order stands.
answerOfUnkept(x) ==
    IF x.state = "paid" THEN "paid"
    ELSE IF x.refund # "owed" /\ awaitsPayment(x) /\ x.intent = "secret" THEN "awaiting_payment"
    ELSE "refused"

answerOf(x) ==
    LET success == IF x.state = "paid" THEN "paid"
                   ELSE IF x.refund # "owed" /\ awaitsPayment(x) /\ x.intent = "secret"
                   THEN "awaiting_payment" ELSE "refused"
    IN  IF success # "refused" /\ x.answer # "none" THEN x.answer ELSE success

\* The order with the answer it gives kept, when it is its first success.
kept(x) ==
    [x EXCEPT !.answer = IF @ = "none" /\ answerOf(x) # "refused" THEN answerOf(x) ELSE @]

AnswerFrom(a, x) ==
    /\ Moved(KeyOf[a], kept(x))
    /\ attempt' = Told(a, answerOf(x))

-----------------------------------------------------------------------------
(***************************************************************************)
(* PurchaseSeatHandler.                                                    *)
(***************************************************************************)

\* Tx A: the key bound to a new order, its hold, its seats.
PlaceOrder(a, acknowledged) ==
    LET o == KeyOf[a]
    IN  /\ attempt[a].step = "start" /\ order[o].state = "none"
        /\ sellsSeats /\ ~unacknowledged(acknowledged) /\ CanHold(o)
        /\ Moved(o, heldUntil(order[o], 0, now + HoldTtl))
        /\ sales' = takeSeats(sales, Quantity[o], now, FALSE)
        /\ attempt' = At(a, "creating")
        /\ UNCHANGED <<now, intent, events>>

\* Tx A refused, and rolled back whole: the key stays free.
RefusePurchase(a, acknowledged) ==
    /\ attempt[a].step = "start" /\ order[KeyOf[a]].state = "none"
    /\ \/ ~sellsSeats
       \/ unacknowledged(acknowledged)
       \/ ~CanTakeSeats(sales, Quantity[KeyOf[a]], now, FALSE)
    /\ attempt' = Refused(a)
    /\ UNCHANGED <<now, sales, order, intent, events>>

\* The key is another attempt's order, committed before or while its insert waited.
FindBound(a) ==
    /\ attempt[a].step = "start" /\ order[KeyOf[a]].state # "none"
    /\ attempt' = At(a, "resuming")
    /\ UNCHANGED <<now, sales, order, intent, events>>

\* The kept answer, or the one the order's state gives.
ResumeAnswered(a) ==
    LET x == order[KeyOf[a]]
    IN  /\ attempt[a].step = "resuming"
        /\ IF x.answer # "none"
           THEN attempt' = Told(a, x.answer) /\ UNCHANGED order
           ELSE ~awaitsClientSecret(x) /\ ~awaitsIntent(x) /\ AnswerFrom(a, x)
        /\ UNCHANGED <<now, sales, intent, events>>

\* The order resumed at the provider's call, with a hold to renew when holdGone.
Resumes(a, holdGone) ==
    LET x == order[KeyOf[a]]
    IN  /\ attempt[a].step = "resuming" /\ x.answer = "none"
        /\ awaitsClientSecret(x) \/ awaitsIntent(x)
        /\ holdGone = (~awaitsClientSecret(x) /\ x.hold # "active")

\* Seats to take again past the end of sales, or off sale: the order fails.
ResumeClosed(a, acknowledged) ==
    /\ Resumes(a, TRUE)
    /\ \/ hasEndedBy(sales, now)
       \/ ~unacknowledged(acknowledged) /\ ~isOnSale(sales)
    /\ Moved(KeyOf[a], fail(order[KeyOf[a]]))
    /\ attempt' = Refused(a)
    /\ UNCHANGED <<now, sales, intent, events>>

\* After the start, asked to acknowledge it first.
ResumeUnacknowledged(a, acknowledged) ==
    /\ \E holdGone \in BOOLEAN :
           Resumes(a, holdGone) /\ ~(holdGone /\ hasEndedBy(sales, now))
    /\ unacknowledged(acknowledged)
    /\ attempt' = Refused(a)
    /\ UNCHANGED <<now, sales, order, intent, events>>

\* The hold renewed, its seats taken last.
RenewHold(a, acknowledged) ==
    LET o == KeyOf[a]
    IN  /\ Resumes(a, TRUE) /\ sellsSeats /\ ~unacknowledged(acknowledged)
        /\ CanHold(o) /\ order[o].gen < MaxRenewals
        /\ Moved(o, heldUntil(order[o], order[o].gen + 1, now + HoldTtl))
        /\ sales' = takeSeats(sales, Quantity[o], now, FALSE)
        /\ attempt' = At(a, "creating")
        /\ UNCHANGED <<now, intent, events>>

\* None left: the renewal rolls back (RenewalSoldOut) ...
RenewalSoldOut(a, acknowledged) ==
    LET o == KeyOf[a]
    IN  /\ Resumes(a, TRUE) /\ sellsSeats /\ ~unacknowledged(acknowledged)
        /\ ~CanTakeSeats(sales, Quantity[o], now, FALSE)
        /\ attempt' = [attempt EXCEPT ![a].step = "sold_out", ![a].gen = order[o].gen]
        /\ UNCHANGED <<now, sales, order, intent, events>>

\* Variant: the order fails whatever became of it since.
FailSoldOutBlindly(a) ==
    /\ attempt[a].step = "sold_out"
    /\ Moved(KeyOf[a], fail(order[KeyOf[a]]))
    /\ attempt' = Refused(a)
    /\ UNCHANGED <<now, sales, intent, events>>

\* ... and the order fails in a transaction of its own, unless another attempt renewed it
\* (answered in flight) or it moved on meanwhile (answered from its state).
FailSoldOut(a) ==
    LET x == order[KeyOf[a]]
    IN  /\ attempt[a].step = "sold_out"
        /\ \/ x.gen # attempt[a].gen
              /\ attempt' = Told(a, "retry") /\ UNCHANGED order
           \/ x.gen = attempt[a].gen /\ ~awaitsIntent(x)
              /\ AnswerFrom(a, x)
           \/ x.gen = attempt[a].gen /\ awaitsIntent(x)
              /\ Moved(KeyOf[a], fail(x)) /\ attempt' = Refused(a)
        /\ UNCHANGED <<now, sales, intent, events>>

\* Nothing to renew: straight to the provider.
ResumeCreating(a, acknowledged) ==
    /\ Resumes(a, FALSE) /\ ~unacknowledged(acknowledged)
    /\ attempt' = At(a, "creating")
    /\ UNCHANGED <<now, sales, order, intent, events>>

-----------------------------------------------------------------------------
(***************************************************************************)
(* The provider: one intent per order id, whichever attempt asks; each     *)
(* change of it sends an event, delivered once or more, in any order.      *)
(***************************************************************************)

\* The intent created with status s, or handed back as it stands.
IntentAfter(o, s) ==
    IF intent[o].status # NULL THEN intent[o] ELSE [intent[o] EXCEPT !.status = s]

EventsAfter(o, s) ==
    IF intent[o].status # NULL THEN events
    ELSE [events EXCEPT ![o] = @ \cup {s}]

CreateIntent(a, s) ==
    LET o == KeyOf[a]
    IN  /\ attempt[a].step = "creating"
        /\ s \in IF intent[o].status = NULL THEN Scenarios[o] ELSE {intent[o].status}
        /\ intent' = [intent EXCEPT ![o] = IntentAfter(o, s)]
        /\ events' = EventsAfter(o, s)
        /\ attempt' = [attempt EXCEPT ![a].step = "recording", ![a].status = s]
        /\ UNCHANGED <<now, sales, order>>

\* No answer in time, the intent created or not.
ProviderUnavailable(a, s) ==
    LET o == KeyOf[a]
    IN  /\ attempt[a].step = "creating"
        /\ intent' = [intent EXCEPT ![o] = IntentAfter(o, s)]
        /\ events' = IF s = NULL THEN events ELSE EventsAfter(o, s)
        /\ attempt' = At(a, "releasing")
        /\ UNCHANGED <<now, sales, order>>

ProviderMoves(o, s) ==
    /\ ~intent[o].canceled
    /\ <<intent[o].status, s>> \in
           {<<"requires_action", "processing">>, <<"requires_action", "succeeded">>,
            <<"requires_action", "declined">>, <<"processing", "succeeded">>,
            <<"processing", "declined">>, <<"declined", "succeeded">>}
    /\ intent' = [intent EXCEPT ![o].status = s]
    /\ events' = [events EXCEPT ![o] = @ \cup {s}]
    /\ UNCHANGED <<now, sales, order, attempt>>

OpenDispute(o) ==
    /\ o \in Disputable
    /\ intent[o].status = "succeeded" /\ ~intent[o].disputed
    /\ intent' = [intent EXCEPT ![o].disputed = TRUE]
    /\ events' = [events EXCEPT ![o] = @ \cup {"disputed"}]
    /\ UNCHANGED <<now, sales, order, attempt>>

-----------------------------------------------------------------------------
\* Variant: the hold of an order that has its intent goes back too.
ReleaseHoldOfAny(a) ==
    LET o == KeyOf[a]
        releases == order[o].hold = "active"
    IN  /\ attempt[a].step = "releasing"
        /\ IF releases
           THEN /\ Moved(o, [order[o] EXCEPT !.hold = "released"])
                /\ sales' = returned(o)
           ELSE UNCHANGED <<order, sales>>
        /\ attempt' = Told(a, "retry")
        /\ UNCHANGED <<now, intent, events>>

\* The provider did not answer: the hold goes back, the order waits for a retry.
ReleaseHoldOf(a) ==
    LET o == KeyOf[a]
        releases == awaitsIntent(order[o]) /\ order[o].hold = "active"
    IN  /\ attempt[a].step = "releasing"
        /\ IF releases
           THEN /\ Moved(o, [order[o] EXCEPT !.hold = "released"])
                /\ sales' = returned(o)
           ELSE UNCHANGED <<order, sales>>
        /\ attempt' = Told(a, "retry")
        /\ UNCHANGED <<now, intent, events>>

\* Tx B: what the provider said, applied, then the purchase's answer.
RecordIntent(a) ==
    LET after == Applied(KeyOf[a], attempt[a].status, "secret")
    IN  /\ attempt[a].step = "recording"
        /\ AnswerFrom(a, after.order)
        /\ sales' = after.sales
        /\ UNCHANGED <<now, intent, events>>

\* The request's process stops between two of its transactions.
Crash(a) ==
    /\ attempt[a].step \notin {"start", "done"}
    /\ attempt' = Told(a, "nothing")
    /\ UNCHANGED <<now, sales, order, intent, events>>

-----------------------------------------------------------------------------
(***************************************************************************)
(* The payment worker, the sweeper, the provider-call worker, the studio   *)
(* and catalog.                                                            *)
(***************************************************************************)

\* A recorded webhook, in a transaction of its own; an event applied again moves
\* nothing, its row's applied_at being set with its effect.
ApplyEvent(o, kind) ==
    LET after == Applied(o, kind, "ref")
    IN  /\ kind \in events[o]
        /\ Moved(o, after.order)
        /\ sales' = after.sales
        /\ events' = [events EXCEPT ![o] = @ \ {kind}]
        /\ UNCHANGED <<now, attempt, intent>>

DueHolds == {o \in Orders : order[o].hold = "active" /\ order[o].expiresAt <= now}

PendingWithoutHold ==
    {o \in Orders : /\ awaitsIntent(order[o]) /\ order[o].hold # "active"
                    /\ order[o].expiresAt <= now}

\* The order of a hold past its expiry: failed, its intent's cancellation owed.
expiredOrder(x) ==
    IF awaitsPayment(x)
    THEN [fail(x) EXCEPT !.hold = "expired", !.cancelOwed = (x.intent # "none")]
    ELSE [x EXCEPT !.hold = "expired"]

SeatsOf(B) == UNION {{o} \X (1..Quantity[o]) : o \in B}

\* One pass: the due holds and the pending orders without one that it could lock.
ExpireDueHolds(B, P) ==
    /\ B \subseteq DueHolds /\ P \subseteq PendingWithoutHold /\ B \cup P # {}
    /\ order' = [o \in Orders |-> CASE o \in B -> expiredOrder(order[o])
                                    [] o \in P -> fail(order[o])
                                    [] OTHER -> order[o]]
    /\ sales' = returnHeldSeats(sales, Cardinality(SeatsOf(B)), 0, now)
    /\ UNCHANGED <<now, attempt, intent, events>>

\* The worker's cancellation of an intent owed one: without effect on a payment made;
\* asked again when the worker stopped before its transaction.
CancelIntent(o, recorded) ==
    LET cancels == intent[o].status # "succeeded" /\ ~intent[o].canceled
    IN  /\ order[o].cancelOwed
        /\ intent' = [intent EXCEPT ![o].canceled = @ \/ cancels]
        /\ events' = IF cancels THEN [events EXCEPT ![o] = @ \cup {"cancelled"}] ELSE events
        /\ Moved(o, [order[o] EXCEPT !.cancelOwed = ~recorded])
        /\ UNCHANGED <<now, sales, attempt>>

\* The worker's refund, refused by the provider while the charge is disputed.
MakeRefund(o) ==
    /\ order[o].refund = "owed" /\ order[o].state # "disputed"
    /\ intent[o].status = "succeeded" /\ ~intent[o].disputed
    /\ Moved(o, refundMade(order[o]))
    /\ UNCHANGED <<now, sales, attempt, intent, events>>

OpenSeats ==
    /\ sales.capacityTotal = 0 /\ CanOpenCapacityTier(sales, Capacity)
    /\ sales' = openCapacityTier(sales, Capacity, FALSE, 0)
    /\ UNCHANGED <<now, order, attempt, intent, events>>

RecordOutcome(outcome) ==
    /\ sales.outcome = NULL
    /\ sales' = recordOutcome(sales, outcome, now)
    /\ UNCHANGED <<now, order, attempt, intent, events>>

Tick ==
    /\ now < MaxTime
    /\ now' = now + 1
    /\ UNCHANGED <<sales, order, attempt, intent, events>>

-----------------------------------------------------------------------------
Handler(a) ==
    \/ FindBound(a) \/ ResumeAnswered(a) \/ FailSoldOut(a)
    \/ ReleaseHoldOf(a) \/ RecordIntent(a)
    \/ \E acknowledged \in BOOLEAN :
           \/ PlaceOrder(a, acknowledged) \/ RefusePurchase(a, acknowledged)
           \/ ResumeClosed(a, acknowledged) \/ ResumeUnacknowledged(a, acknowledged)
           \/ RenewHold(a, acknowledged) \/ RenewalSoldOut(a, acknowledged)
           \/ ResumeCreating(a, acknowledged)
    \/ \E s \in IntentStatus : CreateIntent(a, s)
    \/ \E s \in Scenarios[KeyOf[a]] \cup {NULL} : ProviderUnavailable(a, s)

Provider(o) == OpenDispute(o) \/ \E s \in IntentStatus : ProviderMoves(o, s)

Workers(o) ==
    \/ \E kind \in EventKind : ApplyEvent(o, kind)
    \/ \E recorded \in BOOLEAN : CancelIntent(o, recorded)
    \/ MakeRefund(o)

Next ==
    \/ \E a \in Attempts : Handler(a) \/ Crash(a)
    \/ \E o \in Orders : Provider(o) \/ Workers(o)
    \/ \E B \in SUBSET DueHolds, P \in SUBSET PendingWithoutHold : ExpireDueHolds(B, P)
    \/ \E outcome \in Outcomes : RecordOutcome(outcome)
    \/ OpenSeats \/ Tick

Spec == Init /\ [][Next]_vars

\* The sweeper and the workers run every second and retry what failed; a request's
\* process ends its transaction or stops; the clock advances.  The buyer, the bank and
\* the studio owe nothing.
Fairness ==
    /\ WF_vars(Tick)
    /\ \A a \in Attempts : WF_vars(attempt[a].step # "start" /\ (Handler(a) \/ Crash(a)))
    /\ \A o \in Orders :
           /\ \A kind \in EventKind : WF_vars(ApplyEvent(o, kind))
           /\ WF_vars(MakeRefund(o))
           /\ WF_vars(\E B \in SUBSET DueHolds, P \in SUBSET PendingWithoutHold :
                          o \in B \cup P /\ ExpireDueHolds(B, P))

FairSpec == Spec /\ Fairness

-----------------------------------------------------------------------------
(***************************************************************************)
(* What no interleaving may break.                                         *)
(***************************************************************************)

\* A payment buys seats or is owed back, never both, and a hold is kept only by an order
\* that still waits for its payment: no order both holds and owns its seats, none
\* holds seats its money was owed back for.
SeatsOrMoney ==
    \A o \in Orders :
        /\ order[o].seated => order[o].refund = "none"
        /\ order[o].hold = "active" =>
               awaitsPayment(order[o]) /\ order[o].refund = "none" /\ ~order[o].seated

\* A seat or a refund is given for money the provider took, and for no other.
MoneyTaken ==
    \A o \in Orders :
        order[o].seated \/ order[o].refund # "none" => intent[o].status = "succeeded"

\* An intent's cancellation is owed only by an order that failed, and never by one that
\* gave its seats: the worker cancels no payment a seat was given for.
CancellationsOwed ==
    \A o \in Orders :
        order[o].cancelOwed => ~awaitsPayment(order[o]) /\ ~order[o].seated
                                   /\ order[o].intent # "none"

\* Every attempt a key's buyer got a success for was told the same one, the order's
\* kept answer, and one told "paid" has its seats.
SameAnswer ==
    \A a \in Attempts :
        attempt[a].told \in {"paid", "awaiting_payment"} =>
            /\ order[KeyOf[a]].answer = attempt[a].told
            /\ attempt[a].told = "paid" => order[KeyOf[a]].seated

\* An order whose intent is known, its buyer paying, gives its hold up only for its
\* seats, its failure or its money back: no late attempt of its key releases it.
HandoffKeepsItsSeats ==
    [][\A o \in Orders :
           order[o].hold = "active" /\ order[o].intent # "none" /\ order'[o].hold # "active"
               => order'[o].seated \/ order'[o].state = "failed" \/ order'[o].refund # "none"]_vars

\* A buyer is refused only once no seats are held for them, but for a purchase that had
\* to acknowledge the start.
NeverRefusedWhileHeld ==
    [][\A a \in Attempts :
           attempt[a].step # "done" /\ attempt'[a].told = "refused" /\ now < StartsAt
               => order'[KeyOf[a]].hold # "active"]_vars

\* The orders' holds, each renewal one more, and the row implement the inventory.
Inventory == INSTANCE SeatInventory WITH
    Holds    <- Orders \X (0..MaxRenewals),
    Quantity <- [h \in Orders \X (0..MaxRenewals) |-> Quantity[h[1]]],
    capacity <- sales.capacityTotal,
    free     <- sales.seatsAvailable,
    phase    <- [h \in Orders \X (0..MaxRenewals) |->
                    LET x == order[h[1]]
                    IN  CASE x.hold = "none" \/ h[2] > x.gen -> "unplaced"
                          [] x.hold = "active" /\ h[2] = x.gen -> "held"
                          [] OTHER -> "ended"],
    sold     <- sales.seatsSold

\* Every transaction of a purchase, a webhook or the sweeper is one step of it.
ImplementsInventory == Inventory!InventorySpec

-----------------------------------------------------------------------------
(***************************************************************************)
(* What must eventually happen, under FairSpec.                            *)
(***************************************************************************)

\* "Never money kept without a seat": a payment the provider took ends in its seats, in
\* the refund made, or in the bank's hands.
PaymentsSettle ==
    \A o \in Orders :
        intent[o].status = "succeeded"
            ~> (order[o].seated \/ order[o].refund = "made" \/ order[o].state = "disputed")

\* "An order whose hold went back while the provider did not answer ... fails at its
\* expiry" (expire-due-holds.handler.ts): it does not stay waiting.
StrandedOrdersFail ==
    \A o \in Orders :
        (awaitsPayment(order[o]) /\ order[o].hold = "released" /\ order[o].expiresAt <= now)
            ~> ~awaitsPayment(order[o])
=============================================================================
