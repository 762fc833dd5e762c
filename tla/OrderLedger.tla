---------------------------- MODULE OrderLedger ----------------------------
(***************************************************************************)
(* What a date's orders paid, gave back and still owe: the payment that    *)
(* seats an order or is owed back, the viewer's cancellation of a seat,    *)
(* the studio's refund, the refunds made, the dispute, and the settlement  *)
(* of the date's cancellation or interruption                              *)
(* (apps/ticketing/src: orders/seat-order.aggregate.ts, seats/,            *)
(* orders/settle-payment.ts, date-outcomes/).                              *)
(*                                                                         *)
(* A payment and a seat's cancellation lock their order, then read the     *)
(* date's outcome without a lock, and move its counters last: the outcome  *)
(* may be recorded in between, so each is a step that reads and a step     *)
(* that commits.  Amounts are in minor units.                              *)
(***************************************************************************)
EXTENDS Integers, Sequences, FiniteSets

CONSTANTS
    Orders,          \* order ids, in the order a batch takes them
    Quantity,        \* Quantity[o]: the seats it buys
    Total,           \* Total[o]: what it pays
    NoAccount,       \* the orders placed without an account
    Batch,           \* orderBatch: the orders one settlement transaction takes
    Places,          \* the date's seats
    MaxStudioRefunds \* bound on the studio's refunds

ASSUME OrdersAssumption ==
    /\ Orders \subseteq Nat /\ IsFiniteSet(Orders)
    /\ Quantity \in [Orders -> Nat \ {0}] /\ Total \in [Orders -> Nat \ {0}]
ASSUME BatchAssumption == Batch \in Nat \ {0}
ASSUME PlacesAssumption == Places \in Nat

VARIABLES
    sales,       \* date_sales: its outcome, the seats sold and on sale
    order,       \* seat_order with its seats and refunds
    tx,          \* the payment or cancellation that holds each order's lock
    settlement,  \* date_outcome_settlement
    deadline,    \* the seats' cancel deadline has passed
    studio       \* how often the studio refunded a seat

vars == <<sales, order, tx, settlement, deadline, studio>>

Outcome == {"none", "cancelled", "interrupted"}

OrderState == {"unplaced", "awaiting", "failed", "paid", "partially_refunded", "refunded", "disputed"}

Rank == [awaiting |-> 0, failed |-> 1, paid |-> 2, partially_refunded |-> 3,
         refunded |-> 4, disputed |-> 5]

orderStateMovesForward(from, to) == Rank[from] < Rank[to]

Refund == [amount : Nat \ {0}, made : BOOLEAN]

(* refundId is the place of its refund among its order's, 0 for none.      *)
Seat == [state : {"active", "cancelled", "refunded", "credited"},
         cancelReason : {"none", "viewer_request", "date_cancelled"},
         refundId : Nat, refundAmount : Nat, creditAmount : Nat]

ActiveSeat == [state |-> "active", cancelReason |-> "none",
               refundId |-> 0, refundAmount |-> 0, creditAmount |-> 0]

SeatOrder == [state : OrderState, hold : BOOLEAN, seats : Seq(Seat), refunds : Seq(Refund),
              credit : Nat, outcomeSettled : BOOLEAN]

NoOrder == [state |-> "unplaced", hold |-> FALSE, seats |-> <<>>, refunds |-> <<>>,
            credit |-> 0, outcomeSettled |-> FALSE]

NoTx == [kind |-> "none"]

Tx == {NoTx} \union [kind : {"payment"}, outcome : Outcome]
             \union [kind : {"cancel"}, seat : Nat \ {0}, outcome : Outcome]

Init ==
    /\ sales = [outcome |-> "none", sold |-> 0, available |-> Places]
    /\ order = [o \in Orders |-> NoOrder]
    /\ tx = [o \in Orders |-> NoTx]
    /\ settlement = [recorded |-> FALSE, waitlistEnded |-> FALSE, settled |-> FALSE]
    /\ deadline = FALSE
    /\ studio = 0

Free(o) == tx[o] = NoTx

Placed(o) == order[o].state # "unplaced"

-----------------------------------------------------------------------------
(* Money                                                                   *)

(* An amount is as many minor units, each of whoever holds it: what a set  *)
(* of refunds or seats holds together is counted, not added up.            *)
Units(amount) == UNION {{k} \X (1 .. amount[k]) : k \in DOMAIN amount}

SumOf(amount) == Cardinality(Units(amount))

AmountsOf(x, refunds) == SumOf([i \in refunds |-> x.refunds[i].amount])

(* Every refund, owed or made.                                             *)
owed(x) == AmountsOf(x, DOMAIN x.refunds)

refunded(x) == AmountsOf(x, {i \in DOMAIN x.refunds : x.refunds[i].made})

refundableLeft(o, x) == Total[o] - owed(x)

(* seatSharesOf: split evenly, the first seats taking what is left over.   *)
share(total, n, place) == total \div n + (IF place <= total % n THEN 1 ELSE 0)

seatShareWithin(o, x, s) ==
    LET entry == share(Total[o], Quantity[o], s)
        left == refundableLeft(o, x)
    IN  IF entry <= left THEN entry ELSE left

acceptsPayment(x) == x.refunds = <<>> /\ orderStateMovesForward(x.state, "paid")

holdsMoney(x) == x.state \in {"paid", "partially_refunded"}

(* An order refunded in part taken for one that holds nothing.             *)
moneyLeftOfPaid(o, x) == IF x.state = "paid" THEN refundableLeft(o, x) ELSE 0

moneyLeftOf(o, x) == IF holdsMoney(x) THEN refundableLeft(o, x) ELSE 0

ActiveSeats(x) == {s \in DOMAIN x.seats : x.seats[s].state = "active"}

SeatsOf(x, i) == {s \in DOMAIN x.seats : x.seats[s].refundId = i}

owe(x, amount) == [x EXCEPT !.refunds = Append(@, [amount |-> amount, made |-> FALSE])]

(* A seat cancelled with its share of the order's latest refund; a share   *)
(* of nothing gives nothing back.                                          *)
cancelledSeat(x, reason, amount) ==
    [ActiveSeat EXCEPT !.state = "cancelled", !.cancelReason = reason,
        !.refundId = IF amount > 0 THEN Len(x.refunds) ELSE 0, !.refundAmount = amount]

(* The refund that completes the total alone is looked at.                 *)
refundMadeAlone(o, x, i) ==
    LET y == [x EXCEPT !.refunds[i].made = TRUE]
        reached == IF x.refunds[i].amount >= Total[o] THEN "refunded" ELSE "partially_refunded"
    IN  [y EXCEPT !.state = IF orderStateMovesForward(@, reached) THEN reached ELSE @,
                  !.seats = [s \in DOMAIN @ |->
                      IF @[s].refundId = i /\ @[s].state = "cancelled"
                      THEN [@[s] EXCEPT !.state = "refunded"] ELSE @[s]]]

refundMade(o, x, i) ==
    LET y == [x EXCEPT !.refunds[i].made = TRUE]
        reached == IF refunded(y) >= Total[o] THEN "refunded" ELSE "partially_refunded"
    IN  [y EXCEPT !.state = IF orderStateMovesForward(@, reached) THEN reached ELSE @,
                  !.seats = [s \in DOMAIN @ |->
                      IF @[s].refundId = i /\ @[s].state = "cancelled"
                      THEN [@[s] EXCEPT !.state = "refunded"] ELSE @[s]]]

-----------------------------------------------------------------------------
(* The order placed and paid                                               *)

(* takeSeats: on sale, with seats left; the order holds them.              *)
PlaceOrder(o) ==
    /\ ~Placed(o) /\ sales.outcome = "none" /\ sales.available >= Quantity[o]
    /\ sales' = [sales EXCEPT !.available = @ - Quantity[o]]
    /\ order' = [order EXCEPT ![o].state = "awaiting", ![o].hold = TRUE]
    /\ UNCHANGED <<tx, settlement, deadline, studio>>

(* settleConfirmedPayment: the order is locked and the date read.          *)
BeginPayment(o) ==
    /\ Free(o) /\ Placed(o) /\ acceptsPayment(order[o])
    /\ tx' = [tx EXCEPT ![o] = [kind |-> "payment", outcome |-> sales.outcome]]
    /\ UNCHANGED <<sales, order, settlement, deadline, studio>>

Paid(o) == [order[o] EXCEPT !.state = "paid", !.hold = FALSE,
                            !.seats = [s \in 1 .. Quantity[o] |-> ActiveSeat]]

Commits(o, x) ==
    /\ order' = [order EXCEPT ![o] = x]
    /\ tx' = [tx EXCEPT ![o] = NoTx]
    /\ UNCHANGED <<settlement, deadline, studio>>

(* Its hold consumed, its seats are given.                                 *)
PayFromHold(o) ==
    /\ tx[o].kind = "payment" /\ tx[o].outcome # "cancelled" /\ order[o].hold
    /\ sales' = [sales EXCEPT !.sold = @ + Quantity[o]]
    /\ Commits(o, Paid(o))

CanRetake(o) == sales.outcome = "none" /\ sales.available >= Quantity[o]

(* Its hold gone, the seats are taken again ...                            *)
PayRetaking(o) ==
    /\ tx[o].kind = "payment" /\ tx[o].outcome # "cancelled" /\ ~order[o].hold
    /\ CanRetake(o)
    /\ sales' = [sales EXCEPT !.sold = @ + Quantity[o], !.available = @ - Quantity[o]]
    /\ Commits(o, Paid(o))

(* ... or, none left or the sale closed, the payment is owed back; so is   *)
(* one on a date read as cancelled, its hold given back.                   *)
OwePaymentBack(o) ==
    /\ tx[o].kind = "payment"
    /\ tx[o].outcome = "cancelled" \/ (~order[o].hold /\ ~CanRetake(o))
    /\ sales' = [sales EXCEPT !.available = @ + (IF order[o].hold THEN Quantity[o] ELSE 0)]
    /\ Commits(o, owe([order[o] EXCEPT !.hold = FALSE], Total[o]))

(* The expiry pass: the hold ends, the order fails if it still awaits.     *)
HoldExpires(o) ==
    /\ Free(o) /\ order[o].hold
    /\ order' = [order EXCEPT ![o].hold = FALSE,
                              ![o].state = IF @ = "awaiting" THEN "failed" ELSE @]
    /\ sales' = [sales EXCEPT !.available = @ + Quantity[o]]
    /\ UNCHANGED <<tx, settlement, deadline, studio>>

-----------------------------------------------------------------------------
(* A viewer cancels a seat                                                 *)

(* The order is locked and the date read: past the deadline only a         *)
(* cancelled date's seat is cancellable.                                   *)
BeginCancelSeat(o, s) ==
    /\ Free(o) /\ s \in ActiveSeats(order[o])
    /\ deadline => sales.outcome = "cancelled"
    /\ tx' = [tx EXCEPT ![o] = [kind |-> "cancel", seat |-> s, outcome |-> sales.outcome]]
    /\ UNCHANGED <<sales, order, settlement, deadline, studio>>

(* oweShare and cancelSeats: nothing on a disputed order, whose money the  *)
(* provider holds.                                                         *)
cancelled(o, s, reason) ==
    LET x == order[o]
        amount == IF x.state = "disputed" THEN 0 ELSE seatShareWithin(o, x, s)
        y == IF amount > 0 THEN owe(x, amount) ELSE x
    IN  [y EXCEPT !.seats[s] = cancelledSeat(y, reason, amount)]

(* A date read as cancelled owes the seat back, and sells it no more.      *)
CancelSeatOfCancelledDate(o) ==
    /\ tx[o].kind = "cancel" /\ tx[o].outcome = "cancelled"
    /\ sales' = sales
    /\ Commits(o, cancelled(o, tx[o].seat, "date_cancelled"))

(* Whatever became of the date since it was read.                          *)
CanReleaseAnySoldSeat == sales.sold >= 1

CanReleaseSoldSeat == sales.sold >= 1 /\ sales.outcome # "cancelled"

(* Else the seat goes back on sale, last.                                  *)
CancelSeat(o) ==
    /\ tx[o].kind = "cancel" /\ tx[o].outcome # "cancelled"
    /\ CanReleaseSoldSeat
    /\ sales' = [sales EXCEPT !.sold = @ - 1, !.available = @ + 1]
    /\ Commits(o, cancelled(o, tx[o].seat, "viewer_request"))

(* DateCancelledMeanwhile: rolled back whole, to run again from its start. *)
RollCancelSeatBack(o) ==
    /\ tx[o].kind = "cancel" /\ tx[o].outcome # "cancelled"
    /\ ~CanReleaseSoldSeat
    /\ tx' = [tx EXCEPT ![o] = NoTx]
    /\ UNCHANGED <<sales, order, settlement, deadline, studio>>

DeadlinePasses ==
    /\ ~deadline
    /\ deadline' = TRUE
    /\ UNCHANGED <<sales, order, tx, settlement, studio>>

-----------------------------------------------------------------------------
(* The studio, the worker and the bank                                     *)

(* The studio refunds an active seat an amount of its own, or its share,   *)
(* within what is left; only date_cancelled, on a cancelled date, cancels  *)
(* it.                                                                     *)
RefundSeat(o, s, reason) ==
    LET x == order[o]
    IN  /\ Free(o) /\ studio < MaxStudioRefunds
        /\ s \in ActiveSeats(x) /\ x.state # "disputed"
        /\ reason = "date_cancelled" => sales.outcome = "cancelled"
        /\ \E amount \in 1 .. refundableLeft(o, x) :
              LET y == owe(x, amount)
              IN  order' = [order EXCEPT ![o] =
                      IF reason = "date_cancelled"
                      THEN [y EXCEPT !.seats[s] = cancelledSeat(y, reason, amount)]
                      ELSE y]
        /\ studio' = studio + 1
        /\ UNCHANGED <<sales, tx, settlement, deadline>>

(* The worker records a refund the provider made, disputed since or not.   *)
RefundMade(o, i) ==
    /\ Free(o) /\ ~order[o].refunds[i].made
    /\ order' = [order EXCEPT ![o] = refundMade(o, @, i)]
    /\ UNCHANGED <<sales, tx, settlement, deadline, studio>>

(* A dispute reaches an order whose payment was settled.                   *)
Dispute(o) ==
    /\ Free(o) /\ Placed(o) /\ ~acceptsPayment(order[o])
    /\ orderStateMovesForward(order[o].state, "disputed")
    /\ order' = [order EXCEPT ![o].state = "disputed"]
    /\ UNCHANGED <<sales, tx, settlement, deadline, studio>>

-----------------------------------------------------------------------------
(* The date's outcome                                                      *)

(* Recorded, with its settlement's row: an outcome is final.               *)
RecordOutcome(outcome) ==
    /\ sales.outcome = "none"
    /\ sales' = [sales EXCEPT !.outcome = outcome]
    /\ settlement' = [settlement EXCEPT !.recorded = TRUE]
    /\ UNCHANGED <<order, tx, deadline, studio>>

(* The seats' places among those active, in seat-id order.                 *)
PlaceAmong(seats, s) == Cardinality({t \in seats : t <= s})

(* cancelledDateSettlementOf: what is left in one refund, shared over the  *)
(* seats still active.                                                     *)
cancelledDateSettlementOf(o, x) ==
    LET seats == ActiveSeats(x)
        left == moneyLeftOf(o, x)
        y == IF left > 0 THEN owe(x, left) ELSE x
        n == Cardinality(seats)
    IN  [y EXCEPT !.seats = [s \in DOMAIN @ |->
            IF s \in seats
            THEN cancelledSeat(y, "date_cancelled", share(left, n, PlaceAmong(seats, s)))
            ELSE @[s]]]

(* interruptedDateSettlementOf: one credit for what is left, to an account *)
interruptedDateSettlementOf(o, x) ==
    LET seats == ActiveSeats(x)
        left == moneyLeftOf(o, x)
        n == Cardinality(seats)
    IN  IF left = 0 \/ o \in NoAccount \/ x.credit > 0 THEN x
        ELSE [x EXCEPT !.credit = left,
                       !.seats = [s \in DOMAIN @ |->
                 IF s \in seats
                 THEN [@[s] EXCEPT !.state = "credited",
                                   !.creditAmount = share(left, n, PlaceAmong(seats, s))]
                 ELSE @[s]]]

(* The mark on the order not looked at.                                    *)
ToSettleUnmarked(x) == ActiveSeats(x) # {}

ToSettle(x) == ActiveSeats(x) # {} /\ ~x.outcomeSettled

(* The orders no transaction holds, the first Batch of them.               *)
OrdersToSettle ==
    LET due == {o \in Orders : ToSettle(order[o]) /\ Free(o)}
    IN  {o \in due : Cardinality({p \in due : p < o}) < Batch}

settledOrder(o) ==
    [(IF sales.outcome = "cancelled" THEN cancelledDateSettlementOf(o, order[o])
                                     ELSE interruptedDateSettlementOf(o, order[o]))
        EXCEPT !.outcomeSettled = TRUE]

(* The holds still active not looked at.                                   *)
NothingLeftSeated(x) == ~ToSettle(x)

NothingLeftToSettle(x) == ~ToSettle(x) /\ ~x.hold

(* One batch, in one transaction: settled when it fell short, the list     *)
(* ended and nothing of the date is left.                                  *)
SettleOrders ==
    LET batch == OrdersToSettle
        after == [o \in Orders |-> IF o \in batch THEN settledOrder(o) ELSE order[o]]
        done == /\ Cardinality(batch) < Batch /\ settlement.waitlistEnded
                /\ \A o \in Orders : NothingLeftToSettle(after[o])
    IN  /\ settlement.recorded /\ ~settlement.settled
        /\ batch # {} \/ done
        /\ order' = after
        /\ settlement' = [settlement EXCEPT !.settled = done]
        /\ UNCHANGED <<sales, tx, deadline, studio>>

(* After a batch, once.                                                    *)
EndWaitlist ==
    /\ settlement.recorded /\ ~settlement.settled /\ ~settlement.waitlistEnded
    /\ settlement' = [settlement EXCEPT !.waitlistEnded = TRUE]
    /\ UNCHANGED <<sales, order, tx, deadline, studio>>

-----------------------------------------------------------------------------
Transaction(o) ==
    \/ PayFromHold(o) \/ PayRetaking(o) \/ OwePaymentBack(o)
    \/ CancelSeatOfCancelledDate(o) \/ CancelSeat(o) \/ RollCancelSeatBack(o)

Next ==
    \/ \E o \in Orders :
          \/ PlaceOrder(o) \/ BeginPayment(o) \/ Transaction(o) \/ HoldExpires(o) \/ Dispute(o)
          \/ \E s \in 1 .. Quantity[o] :
                \/ BeginCancelSeat(o, s)
                \/ \E reason \in {"goodwill", "date_cancelled"} : RefundSeat(o, s, reason)
          \/ \E i \in DOMAIN order[o].refunds : RefundMade(o, i)
    \/ \E outcome \in {"cancelled", "interrupted"} : RecordOutcome(outcome)
    \/ SettleOrders \/ EndWaitlist \/ DeadlinePasses

Spec == Init /\ [][Next]_vars

(* Transactions end, the two sweepers go on.                               *)
Fairness ==
    /\ WF_vars(SettleOrders) /\ WF_vars(EndWaitlist)
    /\ \A o \in Orders : WF_vars(Transaction(o)) /\ SF_vars(HoldExpires(o))

FairSpec == Spec /\ Fairness

-----------------------------------------------------------------------------
(* Every order, seat and counter is of its type: no counter is negative.   *)
TypeOK ==
    /\ sales \in [outcome : Outcome, sold : Nat, available : Nat]
    /\ order \in [Orders -> SeatOrder]
    /\ tx \in [Orders -> Tx]
    /\ settlement \in [recorded : BOOLEAN, waitlistEnded : BOOLEAN, settled : BOOLEAN]
    /\ deadline \in BOOLEAN
    /\ studio \in Nat

(* An order and its seats say what was really given back, whichever of its *)
(* refunds are made first (seat-order.aggregate.ts refundMade,             *)
(* cancelSeats): one not disputed is refunded once the refunds made reach  *)
(* its total, partially before, neither before any; a seat is refunded     *)
(* exactly when it was cancelled with a share of a refund that was made;   *)
(* the shares a refund's seats hold stay within it; and refunds, owed or   *)
(* made, and the credit never pass what the order paid, whoever gives      *)
(* money back: viewer, studio, settlement (race-ledger.ts: "refunds never  *)
(* above what the order paid").                                            *)
RefundsTold ==
    \A o \in Orders :
        LET x == order[o]
            made == refunded(x)
        IN  /\ x.state # "disputed" =>
                  /\ (x.state = "refunded") <=> (made = Total[o])
                  /\ (x.state = "partially_refunded") <=> (made > 0 /\ made < Total[o])
            /\ \A s \in DOMAIN x.seats :
                  (x.seats[s].state = "refunded")
                      <=> (x.seats[s].refundId # 0 /\ x.refunds[x.seats[s].refundId].made)
            /\ \A i \in DOMAIN x.refunds :
                  SumOf([s \in SeatsOf(x, i) |-> x.seats[s].refundAmount]) <= x.refunds[i].amount
            /\ owed(x) + x.credit <= Total[o]

(* No seat of a cancelled date goes back on sale, even one whose           *)
(* cancellation read the date before (cancel-seat.handler.ts).             *)
NoReturnOnCancelledDate ==
    [][sales.outcome = "cancelled" => sales'.sold >= sales.sold]_vars

(* Once a date is settled no order of it holds an active seat the pass did *)
(* not settle: no payment in flight seats one after                        *)
(* (NOTHING_LEFT_TO_SETTLE).                                               *)
SettledForGood ==
    settlement.settled => \A o \in Orders : ~ToSettle(order[o])

(* Once a cancelled date is settled, every order the pass took and every   *)
(* one whose viewer gave back each seat before owes or gave back all it    *)
(* paid, unless its money is disputed: shares, amounts of the studio's own *)
(* and the remainder add up (settle-date-outcomes.handler.ts: "one refund  *)
(* per paid order of what is left").                                       *)
CancelledDateOwesBack ==
    settlement.settled /\ sales.outcome = "cancelled" =>
        \A o \in Orders :
            LET x == order[o] IN
            /\ x.seats # <<>> /\ x.state # "disputed"
            /\ x.outcomeSettled
               \/ \A s \in DOMAIN x.seats : x.seats[s].cancelReason = "viewer_request"
            => refundableLeft(o, x) = 0

(* Every outcome recorded is settled in the end, the payments and          *)
(* cancellations in flight and the last holds waited for.                  *)
OutcomesSettle == settlement.recorded ~> settlement.settled

=============================================================================
