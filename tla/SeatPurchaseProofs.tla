------------------------- MODULE SeatPurchaseProofs -------------------------
(***************************************************************************)
(* Proofs about SeatPurchase, for any number of orders, quantities,        *)
(* attempts under each key, statuses of an intent and disputes.            *)
(***************************************************************************)
EXTENDS SeatPurchase, FiniteSetTheorems, TLAPS

-----------------------------------------------------------------------------
(***************************************************************************)
(* The inductive invariant: what an order says of itself, what the         *)
(* provider knows of it, and what each attempt under its key still has in  *)
(* hand.                                                                   *)
(***************************************************************************)

\* Seats and money exclude one another, a hold is an unpaid order's, and whatever was
\* given or owed names an intent.
OrderOK(x) ==
    /\ x.state = "none" => /\ x.hold = "none" /\ x.intent = "none" /\ x.refund = "none"
                           /\ x.answer = "none" /\ ~x.cancelOwed /\ ~x.seated /\ x.gen = 0
    /\ x.hold = "none" => x.state = "none"
    /\ x.seated => x.state \in {"paid", "disputed"} /\ x.refund = "none"
    /\ x.state = "paid" => x.seated
    /\ x.hold = "active" => awaitsPayment(x) /\ x.refund = "none"
    /\ x.cancelOwed => ~awaitsPayment(x) /\ ~x.seated /\ x.intent # "none"
    /\ x.seated \/ x.refund # "none" \/ x.state \in {"awaiting_action", "processing"}
           => x.intent # "none"
    /\ x.answer = "paid" => x.seated
    /\ x.gen <= MaxRenewals

\* Nothing is given before the provider took the money, and nothing is known of an
\* order nobody placed.
ProviderOK(o) ==
    /\ order[o].seated \/ order[o].refund # "none" => intent[o].status = "succeeded"
    /\ "succeeded" \in events[o] \/ "disputed" \in events[o] => intent[o].status = "succeeded"
    /\ events[o] # {} \/ intent[o].status # NULL => order[o].state # "none"

\* An attempt told a success was told the kept answer; one sold out looks at a hold
\* that is gone, unless another attempt has renewed it since.
AttemptOK(a) ==
    LET t == attempt[a]
        x == order[KeyOf[a]]
    IN  /\ t.step \notin {"start", "done"} => x.state # "none"
        /\ t.step # "done" => t.told = "nothing"
        /\ t.step = "recording" => t.status # NULL
        /\ t.status = "succeeded" => intent[KeyOf[a]].status = "succeeded"
        /\ t.step = "sold_out" => t.gen <= x.gen /\ (t.gen = x.gen => x.hold # "active")
        /\ t.told \in {"paid", "awaiting_payment"} => x.answer = t.told

PurchaseInv ==
    /\ TypeOK
    /\ \A o \in Orders : OrderOK(order[o]) /\ ProviderOK(o)
    /\ \A a \in Attempts : AttemptOK(a)

-----------------------------------------------------------------------------
(***************************************************************************)
(* The order's moves.                                                      *)
(***************************************************************************)

\* Core's ranks, one by one.
LEMMA Ranks ==
    ASSUME NEW s \in OrderState
    PROVE  /\ orderStateMovesForward(s, "awaiting_action") <=> s \in {"none", "pending"}
           /\ orderStateMovesForward(s, "processing") <=>
                  s \in {"none", "pending", "awaiting_action"}
           /\ orderStateMovesForward(s, "paid") <=> s \in AWAITING_PAYMENT \cup {"none", "failed"}
           /\ orderStateMovesForward(s, "refunded") <=> s \notin {"refunded", "disputed"}
           /\ orderStateMovesForward(s, "disputed") <=> s # "disputed"
<1>1. /\ Rank["none"] = 0 /\ Rank["pending"] = 1 /\ Rank["awaiting_action"] = 2
      /\ Rank["processing"] = 3 /\ Rank["failed"] = 4 /\ Rank["paid"] = 5
      /\ Rank["refunded"] = 6 /\ Rank["disputed"] = 7
  BY DEF Rank
<1> QED
  BY <1>1 DEF orderStateMovesForward, OrderState, AWAITING_PAYMENT

\* How a transaction may move an order; taken is that the provider took the money.
MovesTo(x, y, taken) ==
    /\ y \in SeatOrder /\ OrderOK(y) /\ y.state # "none"
    /\ x.gen <= y.gen
    /\ y.hold = "active" => \/ x.hold = "active" /\ y.gen = x.gen
                            \/ x.gen < y.gen
                            \/ x.state = "none"
    /\ x.answer # "none" => y.answer = x.answer
    /\ y.seated \/ y.refund # "none" => x.seated \/ x.refund # "none" \/ taken
    /\ x.hold = "active" /\ x.intent # "none" /\ y.hold # "active"
           => y.seated \/ y.state = "failed" \/ y.refund # "none"

\* An order placed or renewed: from one nobody placed, or one that waits for its intent.
LEMMA HeldUntilMoves ==
    ASSUME NEW x \in SeatOrder, OrderOK(x), NEW gen \in Nat, NEW until \in Nat,
           NEW taken \in BOOLEAN, gen <= MaxRenewals,
           \/ x.state = "none" /\ gen >= x.gen
           \/ awaitsIntent(x) /\ gen > x.gen
    PROVE  MovesTo(x, heldUntil(x, gen, until), taken)
<1> DEFINE y == heldUntil(x, gen, until)
<1>1. /\ y \in SeatOrder /\ y.state = "pending" /\ y.hold = "active" /\ y.gen = gen
      /\ y.intent = x.intent /\ y.refund = x.refund /\ y.cancelOwed = x.cancelOwed
      /\ y.seated = x.seated /\ y.answer = x.answer
  BY DEF heldUntil, SeatOrder, OrderState, AWAITING_PAYMENT, Instant
<1>2. x.refund = "none" /\ ~x.cancelOwed /\ ~x.seated
  BY DEF OrderOK, awaitsIntent, awaitsPayment, AWAITING_PAYMENT
<1>3. x.gen <= gen /\ (x.gen < gen \/ x.state = "none")
  BY DEF SeatOrder
<1> HIDE DEF y
<1>4. OrderOK(y)
  BY <1>1, <1>2 DEF OrderOK, awaitsPayment, AWAITING_PAYMENT
<1>5. MovesTo(x, y, taken)
  BY <1>1, <1>2, <1>3, <1>4 DEF MovesTo
<1> QED
  BY <1>5 DEF y

\* A failure, of an order whose hold is not active.
LEMMA FailMoves ==
    ASSUME NEW x \in SeatOrder, OrderOK(x), NEW taken \in BOOLEAN,
           awaitsPayment(x), x.hold # "active"
    PROVE  MovesTo(x, fail(x), taken) /\ fail(x).hold = x.hold /\ fail(x).gen = x.gen
BY DEF MovesTo, OrderOK, fail, SeatOrder, OrderState, AWAITING_PAYMENT, awaitsPayment

\* An order that stands is a move an order may make.
LEMMA StandMoves ==
    ASSUME NEW x \in SeatOrder, OrderOK(x), x.state # "none", NEW taken \in BOOLEAN
    PROVE  MovesTo(x, x, taken)
BY DEF MovesTo, SeatOrder

\* The answer kept with a transaction's last state changes nothing else.
LEMMA KeptMoves ==
    ASSUME NEW x \in SeatOrder, NEW y, NEW taken \in BOOLEAN, MovesTo(x, y, taken)
    PROVE  /\ MovesTo(x, kept(y), taken)
           /\ answerOf(y) \in {"paid", "awaiting_payment", "refused"}
           /\ answerOf(y) # "refused" => kept(y).answer = answerOf(y)
           /\ kept(y).hold = y.hold /\ kept(y).gen = y.gen
<1>1. y \in SeatOrder /\ OrderOK(y)
  BY DEF MovesTo
<1>2. answerOf(y) \in {"paid", "awaiting_payment", "refused"}
  BY <1>1 DEF answerOf, SeatOrder
<1>3. answerOf(y) # "refused" /\ y.answer # "none" => answerOf(y) = y.answer
  BY DEF answerOf
<1>4. answerOf(y) = "paid" => y.seated
  BY <1>1 DEF answerOf, OrderOK
<1> DEFINE ans == IF y.answer = "none" /\ answerOf(y) # "refused" THEN answerOf(y) ELSE y.answer
<1>5. kept(y) = [y EXCEPT !.answer = ans]
  BY DEF kept
<1>6. ans \in {"none", "paid", "awaiting_payment"} /\ (ans = "paid" => y.seated)
  BY <1>1, <1>2, <1>4 DEF SeatOrder, OrderOK
<1>7. y.answer # "none" => ans = y.answer
  OBVIOUS
<1>8. answerOf(y) # "refused" => ans = answerOf(y)
  BY <1>3
<1> HIDE DEF ans
<1>9. MovesTo(x, kept(y), taken)
  BY <1>1, <1>5, <1>6, <1>7 DEF MovesTo, OrderOK, SeatOrder, awaitsPayment
<1> QED
  BY <1>1, <1>2, <1>5, <1>8, <1>9 DEF SeatOrder

\* The provider's answer kept on the order: an intent that still waits.
LEMMA RecordMoves ==
    ASSUME NEW x \in SeatOrder, OrderOK(x), x.state # "none", NEW taken \in BOOLEAN,
           NEW told \in {"ref", "secret"}, NEW state \in {"awaiting_action", "processing"}
    PROVE  LET y == recordIntent(x, told, state)
           IN  /\ MovesTo(x, y, taken)
               /\ y.hold = x.hold /\ y.gen = x.gen
               /\ told = "secret" /\ y.hold = "active" =>
                      awaitsPayment(y) /\ y.refund = "none" /\ y.intent = "secret"
<1> DEFINE y == recordIntent(x, told, state)
<1>1. CASE x.state = "failed"
  <2>1. y = [x EXCEPT !.intent = IF x.intent = "none" THEN told ELSE x.intent,
                      !.cancelOwed = TRUE]
    BY <1>1 DEF recordIntent
  <2>2. /\ y \in SeatOrder /\ y.state = x.state /\ y.intent # "none" /\ y.hold = x.hold
        /\ y.gen = x.gen /\ y.refund = x.refund /\ y.cancelOwed = TRUE
        /\ y.seated = x.seated /\ y.answer = x.answer
    BY <2>1 DEF SeatOrder
  <2> HIDE DEF y
  <2>3. ~x.seated /\ x.hold # "active"
    BY <1>1 DEF OrderOK, awaitsPayment, AWAITING_PAYMENT
  <2>4. OrderOK(y)
    BY <1>1, <2>2, <2>3 DEF OrderOK, awaitsPayment, AWAITING_PAYMENT
  <2>5. MovesTo(x, y, taken)
    BY <1>1, <2>2, <2>3, <2>4 DEF MovesTo, SeatOrder
  <2> QED
    BY <2>2, <2>3, <2>5 DEF y
<1>2. CASE awaitsPayment(x)
  <2> DEFINE to == IF orderStateMovesForward(x.state, state) THEN state ELSE x.state
             known == completedIntent(x.intent, told)
  <2>1. y = [x EXCEPT !.intent = known, !.state = to]
    BY <1>2 DEF recordIntent, awaitsPayment, AWAITING_PAYMENT
  <2>2. /\ known \in {"ref", "secret"} /\ (told = "secret" => known = "secret")
    BY DEF completedIntent, SeatOrder
  <2>3. to \in AWAITING_PAYMENT
    BY <1>2 DEF awaitsPayment, AWAITING_PAYMENT
  <2> HIDE DEF to, known
  <2>4. /\ y \in SeatOrder /\ y.state = to /\ y.intent = known /\ y.hold = x.hold
        /\ y.gen = x.gen /\ y.refund = x.refund /\ y.cancelOwed = x.cancelOwed
        /\ y.seated = x.seated /\ y.answer = x.answer
    BY <2>1, <2>2, <2>3 DEF SeatOrder, OrderState
  <2> HIDE DEF y
  <2>5. ~x.seated /\ ~x.cancelOwed
    BY <1>2 DEF OrderOK, awaitsPayment, AWAITING_PAYMENT
  <2>6. OrderOK(y)
    BY <1>2, <2>2, <2>3, <2>4, <2>5 DEF OrderOK, awaitsPayment, AWAITING_PAYMENT
  <2>7. MovesTo(x, y, taken)
    BY <2>3, <2>4, <2>5, <2>6 DEF MovesTo, AWAITING_PAYMENT, SeatOrder
  <2> QED
    BY <2>2, <2>3, <2>4, <2>6, <2>7 DEF awaitsPayment, OrderOK, y
<1>3. CASE x.state # "failed" /\ ~awaitsPayment(x)
  <2>1. y = x
    BY <1>3 DEF recordIntent
  <2>2. x.hold # "active"
    BY <1>3 DEF OrderOK
  <2> QED
    BY <2>1, <2>2, StandMoves
<1> QED
  BY <1>1, <1>2, <1>3

\* The seats given, or the money owed back, to an order that takes its payment.
LEMMA PayMoves ==
    ASSUME NEW x \in SeatOrder, OrderOK(x), x.state # "none", acceptsPayment(x),
           NEW h \in {"consumed", "released", "expired"}
    PROVE  LET y == pay([x EXCEPT !.hold = h])
               z == oweUnseatedPaymentBack([x EXCEPT !.hold = h])
           IN  /\ MovesTo(x, y, TRUE) /\ y.hold = h /\ y.gen = x.gen /\ y.seated
               /\ MovesTo(x, z, TRUE) /\ z.hold = h /\ z.gen = x.gen /\ z.refund = "owed"
<1>0. x.state \in OrderState
  BY DEF SeatOrder
<1>1. /\ x.refund = "none" /\ ~x.seated /\ x.state \in AWAITING_PAYMENT \cup {"failed"}
      /\ x.answer # "paid"
  BY <1>0, Ranks DEF acceptsPayment, OrderOK, AWAITING_PAYMENT
<1> DEFINE known == completedIntent(x.intent, "ref")
<1>2. known \in {"ref", "secret"}
  BY DEF completedIntent, SeatOrder
<1> DEFINE y == pay([x EXCEPT !.hold = h])
           z == oweUnseatedPaymentBack([x EXCEPT !.hold = h])
<1>3. /\ y = [x EXCEPT !.hold = h, !.state = "paid", !.intent = known, !.cancelOwed = FALSE,
                       !.seated = TRUE]
      /\ z = [x EXCEPT !.hold = h, !.refund = "owed", !.intent = known, !.cancelOwed = FALSE]
  BY DEF pay, oweUnseatedPaymentBack, SeatOrder
<1> HIDE DEF known
<1>4. /\ y \in SeatOrder /\ y.hold = h /\ y.state = "paid" /\ y.intent = known /\ ~y.cancelOwed
      /\ y.seated /\ y.refund = x.refund /\ y.answer = x.answer /\ y.gen = x.gen
  BY ZenonT(40), <1>2, <1>3 DEF SeatOrder, OrderState
<1>5. /\ z \in SeatOrder /\ z.hold = h /\ z.state = x.state /\ z.intent = known /\ ~z.cancelOwed
      /\ z.refund = "owed" /\ z.seated = x.seated /\ z.answer = x.answer /\ z.gen = x.gen
  BY ZenonT(40), <1>2, <1>3 DEF SeatOrder
<1> HIDE DEF y, z
<1>6. MovesTo(x, y, TRUE)
  BY <1>1, <1>2, <1>4 DEF MovesTo, OrderOK, awaitsPayment, AWAITING_PAYMENT, SeatOrder
<1>7. MovesTo(x, z, TRUE)
  BY <1>1, <1>2, <1>5 DEF MovesTo, OrderOK, awaitsPayment, AWAITING_PAYMENT, SeatOrder
<1> QED
  BY <1>4, <1>5, <1>6, <1>7 DEF y, z

\* The same, of an order whose hold is gone.
LEMMA PayUnheldMoves ==
    ASSUME NEW x \in SeatOrder, OrderOK(x), x.state # "none", acceptsPayment(x),
           x.hold \in {"consumed", "released", "expired"}
    PROVE  LET y == pay(x)
               z == oweUnseatedPaymentBack(x)
           IN  /\ MovesTo(x, y, TRUE) /\ y.hold = x.hold /\ y.gen = x.gen
               /\ MovesTo(x, z, TRUE) /\ z.hold = x.hold /\ z.gen = x.gen
<1> DEFINE u == [x EXCEPT !.hold = x.hold]
<1>1. u = x
  BY DEF SeatOrder
<1>2. /\ MovesTo(x, pay(u), TRUE) /\ pay(u).hold = x.hold /\ pay(u).gen = x.gen
      /\ MovesTo(x, oweUnseatedPaymentBack(u), TRUE)
      /\ oweUnseatedPaymentBack(u).hold = x.hold /\ oweUnseatedPaymentBack(u).gen = x.gen
  BY ZenonT(40), PayMoves
<1> HIDE DEF u
<1> QED
  BY <1>1, <1>2

\* A dispute, of an order whose payment was settled.
LEMMA DisputeMoves ==
    ASSUME NEW x \in SeatOrder, NEW y, NEW taken \in BOOLEAN, MovesTo(x, y, taken),
           y.hold # "active", OrderOK(x), x.hold = "active" => y.seated \/ y.refund # "none"
    PROVE  MovesTo(x, dispute(y), taken) /\ dispute(y).hold = y.hold /\ dispute(y).gen = y.gen
<1> DEFINE z == dispute(y)
<1>1. y \in SeatOrder /\ OrderOK(y)
  BY DEF MovesTo
<1>2. z = [y EXCEPT !.state = "disputed"]
  BY <1>1, Ranks DEF dispute, SeatOrder
<1>3. /\ z \in SeatOrder /\ z.state = "disputed" /\ z.hold = y.hold /\ z.intent = y.intent
      /\ z.cancelOwed = y.cancelOwed /\ z.seated = y.seated /\ z.refund = y.refund
      /\ z.answer = y.answer /\ z.gen = y.gen
  BY <1>1, <1>2 DEF SeatOrder, OrderState
<1> HIDE DEF z
<1>4. OrderOK(z)
  BY <1>1, <1>3 DEF OrderOK, awaitsPayment, AWAITING_PAYMENT, MovesTo
<1>5. MovesTo(x, z, taken)
  BY <1>3, <1>4 DEF MovesTo
<1> QED
  BY <1>3, <1>5 DEF z

\* The refund made.
LEMMA RefundMoves ==
    ASSUME NEW x \in SeatOrder, OrderOK(x), x.refund = "owed", NEW taken \in BOOLEAN
    PROVE  MovesTo(x, refundMade(x), taken) /\ refundMade(x).hold = x.hold
               /\ refundMade(x).gen = x.gen
<1> DEFINE to == IF orderStateMovesForward(x.state, "refunded") THEN "refunded" ELSE x.state
           y == refundMade(x)
<1>1. to \in {"refunded", "disputed"}
  BY Ranks DEF SeatOrder
<1>2. y = [x EXCEPT !.refund = "made", !.state = to]
  BY DEF refundMade
<1> HIDE DEF to
<1>3. /\ y \in SeatOrder /\ y.state = to /\ y.hold = x.hold /\ y.intent = x.intent
      /\ y.cancelOwed = x.cancelOwed /\ y.seated = x.seated /\ y.refund = "made"
      /\ y.answer = x.answer /\ y.gen = x.gen
  BY <1>1, <1>2 DEF SeatOrder, OrderState
<1> HIDE DEF y
<1>4. x.hold # "active" /\ ~x.seated /\ x.state # "none"
  BY DEF OrderOK
<1>5. OrderOK(y)
  BY <1>1, <1>3, <1>4 DEF OrderOK, awaitsPayment, AWAITING_PAYMENT
<1> QED
  BY <1>1, <1>3, <1>4, <1>5 DEF MovesTo, SeatOrder, y

\* The expiry of an order's hold.
LEMMA ExpiredMoves ==
    ASSUME NEW x \in SeatOrder, OrderOK(x), x.hold = "active", NEW taken \in BOOLEAN
    PROVE  /\ MovesTo(x, expiredOrder(x), taken)
           /\ expiredOrder(x).hold = "expired" /\ expiredOrder(x).gen = x.gen
<1> DEFINE y == expiredOrder(x)
<1>1. awaitsPayment(x) /\ ~x.seated /\ x.refund = "none" /\ x.answer # "paid"
  BY DEF OrderOK, awaitsPayment, AWAITING_PAYMENT
<1>2. y = [x EXCEPT !.state = "failed", !.hold = "expired", !.cancelOwed = (x.intent # "none")]
  BY <1>1 DEF expiredOrder, fail
<1>3. /\ y \in SeatOrder /\ y.state = "failed" /\ y.hold = "expired" /\ y.intent = x.intent
      /\ (y.cancelOwed => x.intent # "none") /\ y.seated = x.seated /\ y.refund = x.refund
      /\ y.answer = x.answer /\ y.gen = x.gen
  BY <1>2 DEF SeatOrder, OrderState
<1> HIDE DEF y
<1>4. OrderOK(y)
  BY <1>1, <1>3 DEF OrderOK, awaitsPayment, AWAITING_PAYMENT
<1> QED
  BY <1>1, <1>3, <1>4 DEF MovesTo, SeatOrder, y

\* The hold given back: with the order's failure, or while it waits for its intent.
LEMMA ReleasedMoves ==
    ASSUME NEW x \in SeatOrder, OrderOK(x), x.hold = "active", NEW taken \in BOOLEAN
    PROVE  /\ LET z == fail([x EXCEPT !.hold = "released"])
              IN  MovesTo(x, z, taken) /\ z.hold = "released" /\ z.gen = x.gen
           /\ x.intent = "none" => MovesTo(x, [x EXCEPT !.hold = "released"], taken)
<1> DEFINE y == [x EXCEPT !.hold = "released"]
<1>1. awaitsPayment(x) /\ ~x.seated /\ x.refund = "none" /\ x.answer # "paid" /\ ~x.cancelOwed
  BY DEF OrderOK, awaitsPayment, AWAITING_PAYMENT
<1>2. /\ y \in SeatOrder /\ y.state = x.state /\ y.hold = "released" /\ y.intent = x.intent
      /\ y.cancelOwed = x.cancelOwed /\ y.seated = x.seated /\ y.refund = x.refund
      /\ y.answer = x.answer /\ y.gen = x.gen
  BY DEF SeatOrder
<1>3. OrderOK(y) /\ awaitsPayment(y)
  BY <1>1, <1>2 DEF OrderOK, awaitsPayment, AWAITING_PAYMENT
<1>4. x.intent = "none" => MovesTo(x, y, taken)
  BY <1>1, <1>2, <1>3 DEF MovesTo, SeatOrder, awaitsPayment, AWAITING_PAYMENT
<1> DEFINE z == fail(y)
<1>5. /\ z \in SeatOrder /\ z.state = "failed" /\ z.hold = "released" /\ z.intent = x.intent
      /\ z.cancelOwed = x.cancelOwed /\ z.seated = x.seated /\ z.refund = x.refund
      /\ z.answer = x.answer /\ z.gen = x.gen
  BY <1>2 DEF fail, SeatOrder, OrderState
<1> HIDE DEF z
<1>6. OrderOK(z)
  BY <1>1, <1>5 DEF OrderOK, awaitsPayment, AWAITING_PAYMENT
<1>7. MovesTo(x, z, taken)
  BY <1>1, <1>5, <1>6 DEF MovesTo, SeatOrder
<1> QED
  BY <1>4, <1>5, <1>7 DEF z

-----------------------------------------------------------------------------
(***************************************************************************)
(* The row's statements, as a purchase uses them: no pool.                 *)
(***************************************************************************)

\* The counters of row r are those of row s, moved by the amounts given.
Counts(s, r, free, sold) ==
    /\ r \in DateSalesRow
    /\ r.capacityTotal = s.capacityTotal
    /\ r.seatsAvailable = s.seatsAvailable + free
    /\ r.seatsSold = s.seatsSold + sold

\* What each statement on the date's row does to its two counters.
LEMMA RowStatements ==
    ASSUME NEW s \in DateSalesRow, NEW q \in Nat, NEW t
    PROVE  /\ CanTakeSeats(s, q, t, FALSE) =>
                  /\ s.seatsAvailable >= q
                  /\ Counts(s, takeSeats(s, q, t, FALSE), 0 - q, 0)
                  /\ Counts(s, takeAndSellSeats(s, q, t, FALSE), 0 - q, q)
           /\ Counts(s, sellHeldSeats(s, q), 0, q)
           /\ Counts(s, returnHeldSeats(s, q, 0, t), q, 0)
<1>1. /\ s.seatsAvailable \in Nat /\ s.priorityPoolSeats \in Nat
      /\ s.seatsSold \in Nat /\ s.capacityTotal \in Nat
  BY DEF DateSalesRow
<1>2. ASSUME NEW r \in DateSalesRow
      PROVE  Counts(r, sellHeldSeats(r, q), 0, q)
  <2>1. sellHeldSeats(r, q) = [r EXCEPT !.seatsSold = r.seatsSold + q]
    BY DEF sellHeldSeats
  <2>2. r.seatsSold + q \in Nat /\ r.seatsAvailable \in Nat
    BY DEF DateSalesRow
  <2>3. sellHeldSeats(r, q) \in DateSalesRow
    BY <2>1, <2>2 DEF DateSalesRow
  <2>4. /\ sellHeldSeats(r, q).seatsSold = r.seatsSold + q
        /\ sellHeldSeats(r, q).capacityTotal = r.capacityTotal
        /\ sellHeldSeats(r, q).seatsAvailable = r.seatsAvailable
    BY <2>1 DEF DateSalesRow
  <2> QED
    BY <2>2, <2>3, <2>4 DEF Counts
<1>3. ASSUME CanTakeSeats(s, q, t, FALSE)
      PROVE  /\ s.seatsAvailable >= q
             /\ Counts(s, takeSeats(s, q, t, FALSE), 0 - q, 0)
             /\ Counts(s, takeAndSellSeats(s, q, t, FALSE), 0 - q, q)
  <2> DEFINE r == takeSeats(s, q, t, FALSE)
             u == takeAndSellSeats(s, q, t, FALSE)
  <2>1. s.seatsAvailable >= q
    BY <1>1, <1>3 DEF CanTakeSeats
  <2>11. /\ s.priorityPoolSeats - 0 = s.priorityPoolSeats
        /\ s.seatsAvailable - (q - 0) = s.seatsAvailable - q
    BY <1>1
  <2>12. poolShare(s, q, t, FALSE) = 0
    BY DEF poolShare
  <2>13. r = [s EXCEPT !.priorityPoolSeats = s.priorityPoolSeats - 0,
                      !.seatsAvailable = s.seatsAvailable - (q - 0)]
    BY <2>12, Zenon DEF takeSeats
  <2>2. r = [s EXCEPT !.priorityPoolSeats = s.priorityPoolSeats,
                      !.seatsAvailable = s.seatsAvailable - q]
    BY <2>11, <2>13, Zenon
  <2>3. s.seatsAvailable - q \in Nat
    BY <1>1, <2>1
  <2>4. r \in DateSalesRow
    BY <1>1, <2>2, <2>3 DEF DateSalesRow
  <2>5. /\ r.seatsSold = s.seatsSold /\ r.capacityTotal = s.capacityTotal
        /\ r.seatsAvailable = s.seatsAvailable - q
    BY <2>2 DEF DateSalesRow
  <2>6. u = sellHeldSeats(r, q)
    BY DEF takeAndSellSeats
  <2> HIDE DEF r, u
  <2>7. Counts(r, u, 0, q)
    BY <1>2, <2>4, <2>6
  <2>8. Counts(s, r, 0 - q, 0) /\ Counts(s, u, 0 - q, q)
    BY <1>1, <2>4, <2>5, <2>7 DEF Counts
  <2> QED
    BY <2>1, <2>8 DEF r, u
<1>4. Counts(s, returnHeldSeats(s, q, 0, t), q, 0)
  <2> DEFINE r == returnHeldSeats(s, q, 0, t)
  <2>11. /\ s.priorityPoolSeats + 0 = s.priorityPoolSeats
        /\ s.seatsAvailable + q - 0 = s.seatsAvailable + q
        /\ s.seatsAvailable + q \in Nat
    BY <1>1
  <2>12. (IF isPriorityWindowOpen(s, t) THEN 0 ELSE 0) = 0
    OBVIOUS
  <2>13. r = [s EXCEPT !.priorityPoolSeats = s.priorityPoolSeats + 0,
                      !.seatsAvailable = s.seatsAvailable + q - 0]
    BY <2>12, Zenon DEF returnHeldSeats
  <2>1. r = [s EXCEPT !.priorityPoolSeats = s.priorityPoolSeats,
                      !.seatsAvailable = s.seatsAvailable + q]
    BY <2>11, <2>13, Zenon
  <2>2. r \in DateSalesRow
    BY <1>1, <2>11, <2>1 DEF DateSalesRow
  <2>3. /\ r.seatsSold = s.seatsSold /\ r.capacityTotal = s.capacityTotal
        /\ r.seatsAvailable = s.seatsAvailable + q
    BY <2>1 DEF DateSalesRow
  <2> HIDE DEF r
  <2>4. Counts(s, r, q, 0)
    BY <1>1, <2>2, <2>3 DEF Counts
  <2> QED
    BY <2>4 DEF r
<1> QED
  BY <1>2, <1>3, <1>4

-----------------------------------------------------------------------------
(***************************************************************************)
(* An order and the row moved together, by quantity q: what one step of    *)
(* the inventory does to one hold.                                         *)
(***************************************************************************)

SameHold(x, y) ==
    /\ y.gen = x.gen
    /\ (y.hold = "active") = (x.hold = "active")
    /\ (y.hold = "none") = (x.hold = "none")

EndsHold(x, y) ==
    /\ y.gen = x.gen /\ x.hold = "active" /\ y.hold \notin {"active", "none"}

SeatsMove(x, y, s, r, q) ==
    \/ SameHold(x, y) /\ Counts(s, r, 0, 0)
    \/ SameHold(x, y) /\ s.seatsAvailable >= q /\ Counts(s, r, 0 - q, q)
    \/ EndsHold(x, y) /\ Counts(s, r, q, 0)
    \/ EndsHold(x, y) /\ Counts(s, r, 0, q)

\* A row left alone counts the same.
LEMMA RowStands ==
    ASSUME NEW s \in DateSalesRow
    PROVE  Counts(s, s, 0, 0)
BY DEF Counts, DateSalesRow

\* The hypotheses of a transaction on a placed order.
Placed(o) ==
    /\ o \in Orders /\ Quantity[o] \in Nat /\ sales \in DateSalesRow
    /\ order[o] \in SeatOrder /\ OrderOK(order[o]) /\ order[o].state # "none"

\* A confirmed payment leaves no active hold: it gives the seats or owes the money.
LEMMA SettleMoves ==
    ASSUME NEW o, Placed(o), NEW y, NEW r,
           settleConfirmedPayment(o) = [order |-> y, sales |-> r]
    PROVE  /\ MovesTo(order[o], y, TRUE)
           /\ SeatsMove(order[o], y, sales, r, Quantity[o])
           /\ y.hold # "active"
           /\ order[o].hold = "active" => y.seated \/ y.refund # "none"
<1> DEFINE x == order[o]
           q == Quantity[o]
           cancelled == sales.outcome = "cancelled"
<1>1. /\ x \in SeatOrder /\ OrderOK(x) /\ x.state # "none" /\ q \in Nat
      /\ sales \in DateSalesRow
  BY DEF Placed
<1>2. x.hold \in {"active", "consumed", "released", "expired"}
  BY <1>1 DEF OrderOK, SeatOrder
<1>3. CASE ~acceptsPayment(x)
  <2>1. settleConfirmedPayment(o) = [order |-> x, sales |-> sales]
    BY <1>3 DEF settleConfirmedPayment
  <2>2. y = x /\ r = sales
    BY <2>1
  <2>3. x.hold # "active"
    <3>1. x.state \in OrderState
      BY <1>1 DEF SeatOrder
    <3> QED
      BY <1>1, <1>3, <3>1, Ranks DEF acceptsPayment, OrderOK, awaitsPayment
  <2> HIDE DEF x, q
  <2>4. MovesTo(x, y, TRUE)
    BY <1>1, <2>2, StandMoves
  <2>5. SeatsMove(x, y, sales, r, q)
    BY <1>1, <2>2, RowStands DEF SeatsMove, SameHold
  <2> QED
    BY <2>2, <2>3, <2>4, <2>5 DEF x, q
<1>4. CASE acceptsPayment(x) /\ cancelled /\ x.hold = "active"
  <2>1. settleConfirmedPayment(o) =
            [order |-> oweUnseatedPaymentBack([x EXCEPT !.hold = "released"]),
             sales |-> returned(o)]
    BY <1>4 DEF settleConfirmedPayment
  <2>2. y = oweUnseatedPaymentBack([x EXCEPT !.hold = "released"]) /\ r = returned(o)
    BY <2>1
  <2> HIDE DEF x, q
  <2>3. MovesTo(x, y, TRUE) /\ y.hold = "released" /\ y.gen = x.gen /\ y.refund = "owed"
    BY <1>1, <1>4, <2>2, PayMoves
  <2>4. Counts(sales, r, q, 0)
    BY <1>1, <2>2, RowStatements DEF returned, q
  <2> QED
    BY <1>4, <2>3, <2>4 DEF SeatsMove, EndsHold, x, q
<1>5. CASE acceptsPayment(x) /\ ~cancelled /\ x.hold = "active"
  <2>1. settleConfirmedPayment(o) =
            [order |-> pay([x EXCEPT !.hold = "consumed"]), sales |-> sellHeldSeats(sales, q)]
    BY <1>5 DEF settleConfirmedPayment
  <2>2. y = pay([x EXCEPT !.hold = "consumed"]) /\ r = sellHeldSeats(sales, q)
    BY <2>1
  <2> HIDE DEF x, q
  <2>3. MovesTo(x, y, TRUE) /\ y.hold = "consumed" /\ y.gen = x.gen /\ y.seated
    BY <1>1, <1>5, <2>2, PayMoves
  <2>4. Counts(sales, r, 0, q)
    BY <1>1, <2>2, RowStatements
  <2> QED
    BY <1>5, <2>3, <2>4 DEF SeatsMove, EndsHold, x, q
<1>6. CASE acceptsPayment(x) /\ x.hold # "active"
  <2>2. CASE ~cancelled /\ CanTakeSeats(sales, q, now, FALSE)
    <3>1. settleConfirmedPayment(o) =
              [order |-> pay(x), sales |-> takeAndSellSeats(sales, q, now, FALSE)]
      BY <1>6, <2>2 DEF settleConfirmedPayment
    <3> HIDE DEF x, q
    <3> DEFINE sold == takeAndSellSeats(sales, q, now, FALSE)
    <3>11. settleConfirmedPayment(o) = [order |-> pay(x), sales |-> sold]
      BY <3>1
    <3> HIDE DEF sold
    <3>12. y = pay(x) /\ r = sold
      BY <3>11
    <3>2. y = pay(x) /\ r = takeAndSellSeats(sales, q, now, FALSE)
      BY <3>12 DEF sold
    <3>3. MovesTo(x, y, TRUE) /\ y.hold = x.hold /\ y.gen = x.gen
      BY <1>1, <1>2, <1>6, <3>2, PayUnheldMoves
    <3>4. sales.seatsAvailable >= q /\ Counts(sales, r, 0 - q, q)
      BY <1>1, <2>2, <3>2, RowStatements
    <3> QED
      BY <1>6, <3>3, <3>4 DEF SeatsMove, SameHold, x, q
  <2>3. CASE ~(~cancelled /\ CanTakeSeats(sales, q, now, FALSE))
    <3>1. settleConfirmedPayment(o) = [order |-> oweUnseatedPaymentBack(x), sales |-> sales]
      BY <1>6, <2>3 DEF settleConfirmedPayment
    <3>2. y = oweUnseatedPaymentBack(x) /\ r = sales
      BY <3>1
    <3> HIDE DEF x, q
    <3>3. MovesTo(x, y, TRUE) /\ y.hold = x.hold /\ y.gen = x.gen
      BY <1>1, <1>2, <1>6, <3>2, PayUnheldMoves
    <3>4. Counts(sales, r, 0, 0)
      BY <1>1, <3>2, RowStands
    <3> QED
      BY <1>6, <3>3, <3>4 DEF SeatsMove, SameHold, x, q
  <2> QED
    BY <2>2, <2>3
<1> QED
  BY <1>3, <1>4, <1>5, <1>6

\* An unpaid order failed is a move it may make, its seats given back with its hold.
LEMMA FailUnpaidMoves ==
    ASSUME NEW o, Placed(o), NEW taken \in BOOLEAN, NEW y, NEW r,
           failUnpaidOrder(o) = [order |-> y, sales |-> r]
    PROVE  /\ MovesTo(order[o], y, taken)
           /\ SeatsMove(order[o], y, sales, r, Quantity[o])
           /\ y.hold # "active"
<1> DEFINE x == order[o]
           q == Quantity[o]
<1>1. /\ x \in SeatOrder /\ OrderOK(x) /\ x.state # "none" /\ q \in Nat
      /\ sales \in DateSalesRow
  BY DEF Placed
<1>2. CASE ~awaitsPayment(x)
  <2>1. failUnpaidOrder(o) = [order |-> x, sales |-> sales]
    BY <1>2 DEF failUnpaidOrder
  <2>2. y = x /\ r = sales /\ x.hold # "active"
    BY <1>1, <1>2, <2>1 DEF OrderOK
  <2> HIDE DEF x, q
  <2>3. MovesTo(x, y, taken) /\ Counts(sales, r, 0, 0)
    BY <1>1, <2>2, StandMoves, RowStands
  <2> QED
    BY <2>2, <2>3 DEF SeatsMove, SameHold, x, q
<1>3. CASE awaitsPayment(x) /\ x.hold = "active"
  <2>1. failUnpaidOrder(o) =
            [order |-> fail([x EXCEPT !.hold = "released"]), sales |-> returned(o)]
    BY <1>3 DEF failUnpaidOrder
  <2>2. y = fail([x EXCEPT !.hold = "released"]) /\ r = returned(o)
    BY <2>1
  <2> HIDE DEF x, q
  <2>3. MovesTo(x, y, taken) /\ y.hold = "released" /\ y.gen = x.gen
    BY <1>1, <1>3, <2>2, ReleasedMoves
  <2>4. Counts(sales, r, q, 0)
    BY <1>1, <2>2, RowStatements DEF returned, q
  <2> QED
    BY <1>3, <2>3, <2>4 DEF SeatsMove, EndsHold, x, q
<1>4. CASE awaitsPayment(x) /\ x.hold # "active"
  <2>1. failUnpaidOrder(o) = [order |-> fail(x), sales |-> sales]
    BY <1>4 DEF failUnpaidOrder
  <2>2. y = fail(x) /\ r = sales
    BY <2>1
  <2> HIDE DEF x, q
  <2>3. MovesTo(x, y, taken) /\ y.hold = x.hold /\ y.gen = x.gen /\ Counts(sales, r, 0, 0)
    BY <1>1, <1>4, <2>2, FailMoves, RowStands
  <2> QED
    BY <1>4, <2>3 DEF SeatsMove, SameHold, x, q
<1> QED
  BY <1>2, <1>3, <1>4

\* Both give an order and a row.
LEMMA PairOf ==
    ASSUME NEW o
    PROVE  /\ \E y, r : settleConfirmedPayment(o) = [order |-> y, sales |-> r]
           /\ \E y, r : failUnpaidOrder(o) = [order |-> y, sales |-> r]
BY DEF settleConfirmedPayment, failUnpaidOrder

\* What the provider said, applied: money is given for only by what says it was taken.
LEMMA AppliedMoves ==
    ASSUME NEW o, Placed(o), NEW kind \in EventKind, NEW told \in {"ref", "secret"},
           NEW taken \in BOOLEAN, kind \in {"succeeded", "disputed"} => taken
    PROVE  \E y, r :
               /\ Applied(o, kind, told) = [order |-> y, sales |-> r]
               /\ MovesTo(order[o], y, taken)
               /\ SeatsMove(order[o], y, sales, r, Quantity[o])
               /\ y.hold = "active" =>
                      /\ kind \in {"requires_action", "processing"}
                      /\ told = "secret" =>
                             awaitsPayment(y) /\ y.refund = "none" /\ y.intent = "secret"
<1> DEFINE x == order[o]
<1>1. x \in SeatOrder /\ OrderOK(x) /\ x.state # "none" /\ sales \in DateSalesRow
  BY DEF Placed
<1>2. CASE kind = "succeeded"
  <2>1. Applied(o, kind, told) = settleConfirmedPayment(o)
    BY <1>2 DEF Applied
  <2>2. PICK y, r : settleConfirmedPayment(o) = [order |-> y, sales |-> r]
    BY PairOf
  <2> QED
    BY <1>2, <2>1, <2>2, SettleMoves
<1>3. CASE kind \in {"declined", "cancelled"}
  <2>1. Applied(o, kind, told) = failUnpaidOrder(o)
    BY <1>3 DEF Applied
  <2>2. PICK y, r : failUnpaidOrder(o) = [order |-> y, sales |-> r]
    BY PairOf
  <2> QED
    BY <2>1, <2>2, FailUnpaidMoves
<1>4. CASE kind \in {"requires_action", "processing"}
  <2> DEFINE state == IF kind = "processing" THEN "processing" ELSE "awaiting_action"
             y == recordIntent(x, told, state)
  <2>1. Applied(o, kind, told) = [order |-> y, sales |-> sales]
    BY <1>4 DEF Applied
  <2>2. state \in {"awaiting_action", "processing"}
    OBVIOUS
  <2> HIDE DEF state
  <2>3. /\ MovesTo(x, y, taken)
        /\ y.hold = x.hold /\ y.gen = x.gen
        /\ told = "secret" /\ y.hold = "active" =>
               awaitsPayment(y) /\ y.refund = "none" /\ y.intent = "secret"
    BY <1>1, <2>2, RecordMoves
  <2> HIDE DEF y
  <2>4. SeatsMove(x, y, sales, sales, Quantity[o])
    BY <1>1, <2>3, RowStands DEF SeatsMove, SameHold
  <2> QED
    BY <1>4, <2>1, <2>3, <2>4
<1>5. CASE kind = "disputed"
  <2>1. Applied(o, kind, told) = [settleConfirmedPayment(o) EXCEPT !.order = dispute(@)]
    BY <1>5 DEF Applied
  <2>2. PICK y, r : settleConfirmedPayment(o) = [order |-> y, sales |-> r]
    BY PairOf
  <2>3. Applied(o, kind, told) = [order |-> dispute(y), sales |-> r]
    BY <2>1, <2>2
  <2>4. /\ MovesTo(x, y, TRUE)
        /\ SeatsMove(x, y, sales, r, Quantity[o])
        /\ y.hold # "active"
        /\ x.hold = "active" => y.seated \/ y.refund # "none"
    BY <2>2, SettleMoves
  <2>5. /\ MovesTo(x, dispute(y), TRUE)
        /\ dispute(y).hold = y.hold /\ dispute(y).gen = y.gen
    BY <1>1, <2>4, DisputeMoves
  <2>6. SeatsMove(x, dispute(y), sales, r, Quantity[o])
    BY <2>4, <2>5 DEF SeatsMove, SameHold, EndsHold
  <2> QED
    BY <1>5, <2>3, <2>4, <2>5, <2>6
<1> QED
  BY <1>2, <1>3, <1>4, <1>5 DEF EventKind, IntentStatus

-----------------------------------------------------------------------------
(***************************************************************************)
(* What any step may do: the orders' part, the provider's, the attempts'   *)
(* and the seats'.  Every action of the specification is shown to be one;  *)
(* the invariant and the action properties follow from that alone.         *)
(***************************************************************************)

OrdersStep ==
    /\ order' \in [Orders -> SeatOrder]
    /\ \A o \in Orders :
           order'[o] = order[o] \/ MovesTo(order[o], order'[o], intent[o].status = "succeeded")

ProviderStep ==
    /\ intent' \in [Orders -> Intent] /\ events' \in [Orders -> SUBSET EventKind]
    /\ \A o \in Orders :
           /\ intent[o].status = "succeeded" => intent'[o].status = "succeeded"
           /\ "succeeded" \in events'[o] \/ "disputed" \in events'[o]
                  => intent'[o].status = "succeeded"
           /\ events'[o] # {} \/ intent'[o].status # NULL => order'[o].state # "none"

AttemptsStep ==
    /\ attempt' \in [Attempts -> Attempt]
    /\ \A a \in Attempts :
           \/ attempt'[a] = attempt[a]
           \/ /\ AttemptOK(a)'
              /\ attempt'[a].told = "refused" /\ now < StartsAt
                     => order'[KeyOf[a]].hold # "active"

PurchaseStep ==
    /\ now' \in Instant /\ sales' \in DateSalesRow
    /\ OrdersStep /\ ProviderStep /\ AttemptsStep

\* Such a step keeps the invariant ...
LEMMA StepKeepsInv ==
    ASSUME PurchaseInv, PurchaseStep
    PROVE  PurchaseInv'
<1>1. TypeOK'
  BY DEF PurchaseStep, OrdersStep, ProviderStep, AttemptsStep, TypeOK
<1>2. ASSUME NEW o \in Orders
      PROVE  /\ OrderOK(order[o]) /\ OrderOK(order'[o])
             /\ order[o].state # "none" => order'[o].state # "none"
  BY DEF PurchaseInv, PurchaseStep, OrdersStep, MovesTo
<1>3. ASSUME NEW o \in Orders
      PROVE  ProviderOK(o)'
  <2>1. order'[o].seated \/ order'[o].refund # "none" =>
            \/ order[o].seated \/ order[o].refund # "none" \/ intent[o].status = "succeeded"
    BY DEF PurchaseStep, OrdersStep, MovesTo
  <2>2. /\ intent[o].status = "succeeded" => intent'[o].status = "succeeded"
        /\ "succeeded" \in events'[o] \/ "disputed" \in events'[o]
               => intent'[o].status = "succeeded"
        /\ events'[o] # {} \/ intent'[o].status # NULL => order'[o].state # "none"
    BY DEF PurchaseStep, ProviderStep
  <2>3. ProviderOK(o)
    BY DEF PurchaseInv
  <2> QED
    BY <2>1, <2>2, <2>3 DEF ProviderOK
<1>4. ASSUME NEW a \in Attempts
      PROVE  AttemptOK(a)'
  <2>1. CASE AttemptOK(a)'
    BY <2>1
  <2>2. CASE attempt'[a] = attempt[a]
    <3> DEFINE t == attempt[a]
               k == KeyOf[a]
    <3>1. k \in Orders
      BY SeatPurchaseAssumption
    <3>2. AttemptOK(a) /\ t \in Attempt
      BY DEF PurchaseInv, TypeOK
    <3>3. intent[k].status = "succeeded" => intent'[k].status = "succeeded"
      BY <3>1 DEF PurchaseStep, ProviderStep
    <3>4. order[k] \in SeatOrder /\ order'[k] \in SeatOrder
      BY <1>1, <3>1 DEF PurchaseInv, TypeOK
    <3>5. CASE order'[k] = order[k]
      BY <2>2, <3>2, <3>3, <3>5 DEF AttemptOK
    <3>6. CASE MovesTo(order[k], order'[k], intent[k].status = "succeeded")
      <4> DEFINE x == order[k]
                 y == order'[k]
      <4>1. /\ x.gen <= y.gen /\ x.gen \in Nat /\ y.gen \in Nat /\ t.gen \in Nat
            /\ y.state # "none"
            /\ x.answer # "none" => y.answer = x.answer
            /\ y.hold = "active" => \/ x.hold = "active" /\ y.gen = x.gen
                                    \/ x.gen < y.gen \/ x.state = "none"
        BY <3>2, <3>4, <3>6 DEF MovesTo, SeatOrder, Attempt
      <4>2. /\ t.step \notin {"start", "done"} => x.state # "none"
            /\ t.step # "done" => t.told = "nothing"
            /\ t.step = "recording" => t.status # NULL
            /\ t.status = "succeeded" => intent[k].status = "succeeded"
            /\ t.step = "sold_out" => t.gen <= x.gen /\ (t.gen = x.gen => x.hold # "active")
            /\ t.told \in {"paid", "awaiting_payment"} => x.answer = t.told
        BY <3>2 DEF AttemptOK
      <4> HIDE DEF x, y, t
      <4>3. t.step = "sold_out" => t.gen <= y.gen /\ (t.gen = y.gen => y.hold # "active")
        BY <4>1, <4>2
      <4>4. t.told \in {"paid", "awaiting_payment"} => y.answer = t.told
        BY <4>1, <4>2
      <4> QED
        BY <2>2, <3>3, <4>1, <4>2, <4>3, <4>4 DEF AttemptOK, t, y
    <3> QED
      BY <3>1, <3>5, <3>6 DEF PurchaseStep, OrdersStep
  <2> QED
    BY <2>1, <2>2 DEF PurchaseStep, AttemptsStep
<1> QED
  BY <1>1, <1>2, <1>3, <1>4 DEF PurchaseInv

\* ... and neither drops a payer's hold nor refuses a buyer whose seats are held.
LEMMA StepKeepsHandoff ==
    ASSUME PurchaseInv, PurchaseStep
    PROVE  /\ \A o \in Orders :
                  order[o].hold = "active" /\ order[o].intent # "none"
                      /\ order'[o].hold # "active"
                      => order'[o].seated \/ order'[o].state = "failed"
                             \/ order'[o].refund # "none"
           /\ \A a \in Attempts :
                  attempt[a].step # "done" /\ attempt'[a].told = "refused" /\ now < StartsAt
                      => order'[KeyOf[a]].hold # "active"
<1>1. ASSUME NEW o \in Orders, order[o].hold = "active", order[o].intent # "none",
             order'[o].hold # "active"
      PROVE  order'[o].seated \/ order'[o].state = "failed" \/ order'[o].refund # "none"
  BY <1>1 DEF PurchaseStep, OrdersStep, MovesTo
<1>2. ASSUME NEW a \in Attempts, attempt[a].step # "done", attempt'[a].told = "refused",
             now < StartsAt
      PROVE  order'[KeyOf[a]].hold # "active"
  <2>1. attempt[a].told = "nothing"
    BY <1>2 DEF PurchaseInv, AttemptOK
  <2> QED
    BY <1>2, <2>1 DEF PurchaseStep, AttemptsStep
<1> QED
  BY <1>1, <1>2

-----------------------------------------------------------------------------
(***************************************************************************)
(* The parts of a step.                                                    *)
(***************************************************************************)

\* An attempt's key is an order's.
LEMMA KeyOfOrder ==
    ASSUME NEW a \in Attempts
    PROVE  KeyOf[a] \in Orders
BY SeatPurchaseAssumption

\* What the invariant says of an order.
LEMMA InvPlaced ==
    ASSUME PurchaseInv, NEW o \in Orders
    PROVE  /\ order[o] \in SeatOrder /\ OrderOK(order[o]) /\ ProviderOK(o)
           /\ Quantity[o] \in Nat /\ sales \in DateSalesRow /\ now \in Nat
           /\ order[o].state # "none" => Placed(o)
BY SeatPurchaseAssumption DEF PurchaseInv, TypeOK, Placed, Instant

\* A step that moves one order moves every order as it may.
LEMMA OneOrderMoves ==
    ASSUME PurchaseInv, NEW o \in Orders, NEW y, Moved(o, y),
           MovesTo(order[o], y, intent[o].status = "succeeded")
    PROVE  /\ OrdersStep
           /\ order'[o] = y
           /\ \A p \in Orders \ {o} : order'[p] = order[p]
<1>1. y \in SeatOrder
  BY DEF MovesTo
<1>2. order \in [Orders -> SeatOrder]
  BY DEF PurchaseInv, TypeOK
<1>3. order'[o] = y /\ \A p \in Orders \ {o} : order'[p] = order[p]
  BY <1>2 DEF Moved
<1>4. order' \in [Orders -> SeatOrder]
  BY <1>1, <1>2 DEF Moved
<1> QED
  BY <1>3, <1>4 DEF OrdersStep

\* A step that moves no order moves every order as it may.
LEMMA OrdersStand ==
    ASSUME PurchaseInv, order' = order
    PROVE  OrdersStep
BY DEF OrdersStep, PurchaseInv, TypeOK

\* A step that leaves the intents alone, and may consume events, is one of the provider's.
LEMMA ProviderStands ==
    ASSUME PurchaseInv, OrdersStep, intent' = intent, events' \in [Orders -> SUBSET EventKind],
           \A o \in Orders : events'[o] \subseteq events[o]
    PROVE  ProviderStep
<1>1. ASSUME NEW o \in Orders
      PROVE  /\ "succeeded" \in events'[o] \/ "disputed" \in events'[o]
                    => intent[o].status = "succeeded"
             /\ events'[o] # {} \/ intent[o].status # NULL => order'[o].state # "none"
  <2>1. ProviderOK(o)
    BY DEF PurchaseInv
  <2>2. order[o].state # "none" => order'[o].state # "none"
    BY DEF OrdersStep, MovesTo
  <2>3. events'[o] \subseteq events[o]
    OBVIOUS
  <2> QED
    BY <2>1, <2>2, <2>3 DEF ProviderOK
<1> QED
  BY <1>1 DEF ProviderStep, PurchaseInv, TypeOK

\* A step that leaves the intents and the events alone is one of the provider's.
LEMMA ProviderUnchanged ==
    ASSUME PurchaseInv, OrdersStep, intent' = intent, events' = events
    PROVE  ProviderStep
BY ProviderStands DEF PurchaseInv, TypeOK

\* The provider's intent for a placed order moves, telling an event of it.
LEMMA OneIntentMoves ==
    ASSUME PurchaseInv, NEW o \in Orders, order' = order, order[o].state # "none",
           NEW i \in Intent, NEW kind \in EventKind,
           intent' = [intent EXCEPT ![o] = i],
           events' = [events EXCEPT ![o] = events[o] \cup {kind}],
           intent[o].status = "succeeded" => i.status = "succeeded",
           kind \in {"succeeded", "disputed"} => i.status = "succeeded"
    PROVE  ProviderStep
<1>1. intent \in [Orders -> Intent] /\ events \in [Orders -> SUBSET EventKind]
  BY DEF PurchaseInv, TypeOK
<1>2. intent' \in [Orders -> Intent] /\ events' \in [Orders -> SUBSET EventKind]
  BY <1>1
<1>3. ASSUME NEW p \in Orders
      PROVE  /\ intent[p].status = "succeeded" => intent'[p].status = "succeeded"
             /\ "succeeded" \in events'[p] \/ "disputed" \in events'[p]
                    => intent'[p].status = "succeeded"
             /\ events'[p] # {} \/ intent'[p].status # NULL => order'[p].state # "none"
  <2>1. ProviderOK(p)
    BY DEF PurchaseInv
  <2>2. CASE p = o
    <3>1. intent'[p] = i /\ events'[p] = events[p] \cup {kind}
      BY <1>1, <2>2
    <3> QED
      BY <2>1, <2>2, <3>1 DEF ProviderOK
  <2>3. CASE p # o
    <3>1. intent'[p] = intent[p] /\ events'[p] = events[p]
      BY <1>1, <2>3
    <3> QED
      BY <2>1, <3>1 DEF ProviderOK
  <2> QED
    BY <2>2, <2>3
<1> QED
  BY <1>2, <1>3 DEF ProviderStep

\* ... the first time, or handed back as it stands.
LEMMA IntentCreated ==
    ASSUME PurchaseInv, NEW o \in Orders, order' = order, order[o].state # "none",
           OrdersStep, NEW s \in IntentStatus,
           intent' = [intent EXCEPT ![o] = IntentAfter(o, s)], events' = EventsAfter(o, s)
    PROVE  /\ ProviderStep
           /\ (intent[o].status # NULL => s = intent[o].status) => intent'[o].status = s
<1>1. intent \in [Orders -> Intent]
  BY DEF PurchaseInv, TypeOK
<1>2. CASE intent[o].status # NULL
  <2>1. intent' = intent /\ events' = events
    BY <1>1, <1>2 DEF IntentAfter, EventsAfter
  <2> QED
    BY <1>2, <2>1, ProviderUnchanged
<1>3. CASE intent[o].status = NULL
  <2> DEFINE i == [intent[o] EXCEPT !.status = s]
  <2>1. intent' = [intent EXCEPT ![o] = i]
    BY <1>3 DEF IntentAfter
  <2>2. events' = [events EXCEPT ![o] = events[o] \cup {s}]
    BY <1>3 DEF EventsAfter
  <2>3. i \in Intent /\ i.status = s
    BY <1>1 DEF Intent
  <2>4. intent[o].status # "succeeded" /\ s \in EventKind /\ s # "disputed"
    BY <1>3, SeatPurchaseAssumption DEF IntentStatus, EventKind
  <2> HIDE DEF i
  <2>5. ProviderStep
    BY <2>1, <2>2, <2>3, <2>4, OneIntentMoves
  <2> QED
    BY <1>1, <2>1, <2>3, <2>5
<1> QED
  BY <1>2, <1>3

\* A step that moves no attempt is one of the attempts'.
LEMMA AttemptsStand ==
    ASSUME PurchaseInv, attempt' = attempt
    PROVE  AttemptsStep
BY DEF AttemptsStep, PurchaseInv, TypeOK

\* An attempt's request is answered.
LEMMA AttemptTold ==
    ASSUME PurchaseInv, NEW a \in Attempts,
           NEW what \in {"nothing", "paid", "awaiting_payment", "refused", "retry"},
           attempt' = Told(a, what),
           what \in {"paid", "awaiting_payment"} => order'[KeyOf[a]].answer = what,
           what = "refused" /\ now < StartsAt => order'[KeyOf[a]].hold # "active"
    PROVE  AttemptsStep
<1> DEFINE t == [step |-> "done", gen |-> 0, status |-> NULL, told |-> what]
<1>1. attempt \in [Attempts -> Attempt]
  BY DEF PurchaseInv, TypeOK
<1>2. t \in Attempt
  BY DEF Attempt
<1>3. attempt' = [attempt EXCEPT ![a] = t]
  BY DEF Told
<1>4. t.step = "done" /\ t.status = NULL /\ t.told = what
  OBVIOUS
<1> HIDE DEF t
<1>5. attempt'[a] = t /\ \A b \in Attempts \ {a} : attempt'[b] = attempt[b]
  BY <1>1, <1>3
<1>6. attempt' \in [Attempts -> Attempt]
  BY <1>1, <1>2, <1>3
<1>7. NULL # "succeeded"
  BY SeatPurchaseAssumption DEF IntentStatus
<1>8. AttemptOK(a)'
  BY <1>4, <1>5, <1>7 DEF AttemptOK
<1> QED
  BY <1>4, <1>5, <1>6, <1>8 DEF AttemptsStep

\* An attempt goes on to a step of its own.
LEMMA AttemptGoes ==
    ASSUME PurchaseInv, ProviderStep, NEW a \in Attempts, attempt[a].step # "done",
           NEW step \in {"resuming", "creating", "releasing"}, attempt' = At(a, step),
           order'[KeyOf[a]].state # "none"
    PROVE  AttemptsStep
<1> DEFINE t == [attempt[a] EXCEPT !.step = step]
<1>1. attempt \in [Attempts -> Attempt] /\ AttemptOK(a) /\ KeyOf[a] \in Orders
  BY KeyOfOrder DEF PurchaseInv, TypeOK
<1>2. /\ t \in Attempt /\ t.step = step /\ t.status = attempt[a].status
      /\ t.told = attempt[a].told
  BY <1>1 DEF Attempt
<1>3. attempt' = [attempt EXCEPT ![a] = t]
  BY DEF At
<1> HIDE DEF t
<1>4. attempt'[a] = t /\ \A b \in Attempts \ {a} : attempt'[b] = attempt[b]
  BY <1>1, <1>3
<1>5. attempt' \in [Attempts -> Attempt]
  BY <1>1, <1>2, <1>3
<1>6. /\ attempt[a].told = "nothing"
      /\ attempt[a].status = "succeeded" => intent[KeyOf[a]].status = "succeeded"
  BY <1>1 DEF AttemptOK
<1>7. intent[KeyOf[a]].status = "succeeded" => intent'[KeyOf[a]].status = "succeeded"
  BY <1>1 DEF ProviderStep
<1>8. AttemptOK(a)'
  BY <1>2, <1>4, <1>6, <1>7 DEF AttemptOK
<1> QED
  BY <1>2, <1>4, <1>5, <1>6, <1>8 DEF AttemptsStep

\* What the seats' side of a step may be.
TakesHold(x, y) ==
    /\ y.hold = "active"
    /\ \/ x.hold = "none" /\ y.gen = 0
       \/ x.hold \notin {"none", "active"} /\ y.gen = x.gen + 1

OthersStand(o) == \A p \in Orders \ {o} : order'[p] = order[p]

SeatsStep ==
    \/ order' = order /\ Counts(sales, sales', 0, 0)
    \/ order' = order /\ Counts([sales EXCEPT !.capacityTotal = @ + Capacity], sales', Capacity, 0)
    \/ \E o \in Orders : /\ SeatsMove(order[o], order'[o], sales, sales', Quantity[o])
                         /\ OthersStand(o)
    \/ \E o \in Orders : /\ TakesHold(order[o], order'[o])
                         /\ sales.seatsAvailable >= Quantity[o]
                         /\ Counts(sales, sales', 0 - Quantity[o], 0)
                         /\ OthersStand(o)
    \/ \E B \in SUBSET Orders :
           /\ \A o \in B : EndsHold(order[o], order'[o])
           /\ \A o \in Orders \ B : SameHold(order[o], order'[o])
           /\ Counts(sales, sales', Cardinality(SeatsOf(B)), 0)

\* The row and the orders left alone.
LEMMA SeatsStand ==
    ASSUME PurchaseInv, order' = order, sales' = sales
    PROVE  SeatsStep /\ sales' \in DateSalesRow
BY RowStands DEF SeatsStep, PurchaseInv, TypeOK

\* One order moved, its hold and the row as they were.
LEMMA SeatsStandOne ==
    ASSUME PurchaseInv, NEW o \in Orders, SameHold(order[o], order'[o]), OthersStand(o),
           sales' = sales
    PROVE  SeatsStep /\ sales' \in DateSalesRow
BY RowStands DEF SeatsStep, SeatsMove, PurchaseInv, TypeOK

-----------------------------------------------------------------------------
(***************************************************************************)
(* The actions, one by one.                                                *)
(***************************************************************************)

\* A purchase's answer, from the order as its transaction leaves it.
LEMMA Answers ==
    ASSUME PurchaseInv, NEW a \in Attempts, NEW y,
           MovesTo(order[KeyOf[a]], y, intent[KeyOf[a]].status = "succeeded"),
           AnswerFrom(a, y), intent' = intent, events' = events,
           y.hold = "active" => answerOf(y) # "refused"
    PROVE  /\ OrdersStep /\ ProviderStep /\ AttemptsStep
           /\ order'[KeyOf[a]].hold = y.hold /\ order'[KeyOf[a]].gen = y.gen
           /\ OthersStand(KeyOf[a])
<1> DEFINE o == KeyOf[a]
           taken == intent[o].status = "succeeded"
<1>1. o \in Orders /\ order[o] \in SeatOrder
  BY KeyOfOrder, InvPlaced
<1>2. /\ MovesTo(order[o], kept(y), taken)
      /\ answerOf(y) \in {"paid", "awaiting_payment", "refused"}
      /\ answerOf(y) # "refused" => kept(y).answer = answerOf(y)
      /\ kept(y).hold = y.hold /\ kept(y).gen = y.gen
  <2>1. taken \in BOOLEAN
    OBVIOUS
  <2> QED
    BY <1>1, <2>1, KeptMoves
<1>3. OrdersStep /\ order'[o] = kept(y) /\ OthersStand(o)
  BY <1>1, <1>2, OneOrderMoves DEF AnswerFrom, OthersStand
<1>4. ProviderStep
  BY <1>3, ProviderUnchanged
<1>5. AttemptsStep
  BY <1>2, <1>3, AttemptTold DEF AnswerFrom
<1> QED
  BY <1>2, <1>3, <1>4, <1>5

\* An order placed.
LEMMA PlaceOrderStep ==
    ASSUME PurchaseInv, NEW a \in Attempts, NEW acknowledged \in BOOLEAN,
           PlaceOrder(a, acknowledged)
    PROVE  PurchaseStep /\ SeatsStep
<1> DEFINE o == KeyOf[a]
           y == heldUntil(order[o], 0, now + HoldTtl)
<1>1. /\ o \in Orders /\ order[o] \in SeatOrder /\ OrderOK(order[o]) /\ Quantity[o] \in Nat
      /\ now \in Nat /\ sales \in DateSalesRow
  BY KeyOfOrder, InvPlaced
<1>2. /\ attempt[a].step = "start" /\ order[o].state = "none" /\ Moved(o, y)
      /\ CanTakeSeats(sales, Quantity[o], now, FALSE)
      /\ sales' = takeSeats(sales, Quantity[o], now, FALSE) /\ attempt' = At(a, "creating")
      /\ now' = now /\ intent' = intent /\ events' = events
  BY DEF PlaceOrder, CanHold
<1>3. order[o].gen = 0 /\ order[o].hold = "none"
  BY <1>1, <1>2 DEF OrderOK
<1>4. now + HoldTtl \in Nat /\ 0 <= MaxRenewals
  BY <1>1, SeatPurchaseAssumption
<1>5. MovesTo(order[o], y, intent[o].status = "succeeded")
  <2>1. 0 >= order[o].gen /\ 0 \in Nat
    BY <1>3
  <2> QED
    BY <1>1, <1>2, <1>4, <2>1, HeldUntilMoves
<1>6. y.hold = "active" /\ y.gen = 0
  BY <1>1 DEF heldUntil, SeatOrder
<1> HIDE DEF y
<1>7. OrdersStep /\ order'[o] = y /\ OthersStand(o)
  BY <1>1, <1>2, <1>5, OneOrderMoves DEF OthersStand
<1>8. ProviderStep
  BY <1>2, <1>7, ProviderUnchanged
<1>9. AttemptsStep
  <2>1. order'[o].state # "none" /\ attempt[a].step # "done"
    BY <1>2, <1>5, <1>7 DEF MovesTo
  <2> QED
    BY <1>2, <1>8, <2>1, AttemptGoes
<1>10. /\ sales.seatsAvailable >= Quantity[o]
       /\ Counts(sales, sales', 0 - Quantity[o], 0)
  BY <1>1, <1>2, RowStatements
<1>11. SeatsStep
  BY <1>1, <1>3, <1>6, <1>7, <1>10 DEF SeatsStep, TakesHold
<1> QED
  BY <1>1, <1>2, <1>7, <1>8, <1>9, <1>10, <1>11 DEF PurchaseStep, Counts, Instant

\* Tx A refused, or a request that found its key bound.
LEMMA StartedStep ==
    ASSUME PurchaseInv, NEW a \in Attempts, NEW acknowledged \in BOOLEAN,
           RefusePurchase(a, acknowledged) \/ FindBound(a)
    PROVE  PurchaseStep /\ SeatsStep
<1> DEFINE o == KeyOf[a]
<1>1. o \in Orders /\ OrderOK(order[o]) /\ now \in Nat
  BY KeyOfOrder, InvPlaced
<1>2. /\ attempt[a].step = "start" /\ now' = now /\ sales' = sales /\ order' = order
      /\ intent' = intent /\ events' = events
  BY DEF RefusePurchase, FindBound
<1>3. OrdersStep /\ ProviderStep /\ SeatsStep /\ sales' \in DateSalesRow
  BY <1>2, OrdersStand, ProviderUnchanged, SeatsStand
<1>4. CASE RefusePurchase(a, acknowledged)
  <2>1. order[o].state = "none" /\ attempt' = Told(a, "refused")
    BY <1>4 DEF RefusePurchase, Refused
  <2>2. order'[o].hold # "active"
    BY <1>1, <1>2, <2>1 DEF OrderOK
  <2>3. AttemptsStep
    BY <2>1, <2>2, AttemptTold
  <2> QED
    BY <1>1, <1>2, <1>3, <2>3 DEF PurchaseStep, Instant
<1>5. CASE FindBound(a)
  <2>1. order[o].state # "none" /\ attempt' = At(a, "resuming")
    BY <1>5 DEF FindBound
  <2>2. AttemptsStep
    BY <1>2, <1>3, <2>1, AttemptGoes
  <2> QED
    BY <1>1, <1>2, <1>3, <2>2 DEF PurchaseStep, Instant
<1> QED
  BY <1>4, <1>5

\* A resumed order's answer, kept or given from its state: not a refusal while its seats
\* are held, its intent's client secret being known.
LEMMA ResumeAnsweredStep ==
    ASSUME PurchaseInv, NEW a \in Attempts, ResumeAnswered(a)
    PROVE  PurchaseStep /\ SeatsStep
<1> DEFINE o == KeyOf[a]
           x == order[o]
<1>1. /\ o \in Orders /\ x \in SeatOrder /\ OrderOK(x) /\ now \in Nat
      /\ AttemptOK(a)
  BY KeyOfOrder, InvPlaced DEF PurchaseInv
<1>2. /\ attempt[a].step = "resuming" /\ now' = now /\ sales' = sales
      /\ intent' = intent /\ events' = events
  BY DEF ResumeAnswered
<1>3. CASE x.answer # "none"
  <2>1. attempt' = Told(a, x.answer) /\ order' = order
    BY <1>3 DEF ResumeAnswered
  <2>2. OrdersStep /\ ProviderStep /\ SeatsStep /\ sales' \in DateSalesRow
    BY <1>2, <2>1, OrdersStand, ProviderUnchanged, SeatsStand
  <2>3. x.answer \in {"paid", "awaiting_payment"}
    BY <1>1, <1>3 DEF SeatOrder
  <2>4. AttemptsStep
    BY <2>1, <2>3, AttemptTold
  <2> QED
    BY <1>1, <1>2, <2>2, <2>4 DEF PurchaseStep, Instant
<1>4. CASE x.answer = "none"
  <2>1. ~awaitsClientSecret(x) /\ ~awaitsIntent(x) /\ AnswerFrom(a, x)
    BY <1>4 DEF ResumeAnswered
  <2>2. x.state # "none"
    BY <1>1, <1>2 DEF AttemptOK
  <2>3. MovesTo(x, x, intent[o].status = "succeeded")
    BY <1>1, <2>2, StandMoves
  <2>4. x.hold = "active" => answerOf(x) # "refused"
    <3>1. ASSUME x.hold = "active"
          PROVE  awaitsPayment(x) /\ x.refund = "none" /\ x.intent = "secret"
      <4>1. awaitsPayment(x) /\ x.refund = "none" /\ x.intent # "ref"
        BY <1>1, <2>1, <3>1 DEF OrderOK, awaitsClientSecret
      <4>2. x.intent # "none"
        BY <1>1, <2>1, <4>1 DEF OrderOK, awaitsIntent, awaitsPayment, AWAITING_PAYMENT
      <4> QED
        BY <1>1, <4>1, <4>2 DEF SeatOrder
    <3> QED
      BY <1>4, <3>1 DEF answerOf
  <2>5. /\ OrdersStep /\ ProviderStep /\ AttemptsStep /\ OthersStand(o)
        /\ order'[o].hold = x.hold /\ order'[o].gen = x.gen
    BY <1>2, <2>1, <2>3, <2>4, Answers
  <2>6. SeatsStep /\ sales' \in DateSalesRow
    <3>1. SameHold(order[o], order'[o])
      BY <2>5 DEF SameHold
    <3> QED
      BY <1>1, <1>2, <2>5, <3>1, SeatsStandOne
  <2> QED
    BY <1>1, <1>2, <2>5, <2>6 DEF PurchaseStep, Instant
<1> QED
  BY <1>3, <1>4

\* The failure of an order whose hold is gone, the buyer refused.
LEMMA FailedStep ==
    ASSUME PurchaseInv, NEW a \in Attempts, order[KeyOf[a]].hold # "active",
           awaitsPayment(order[KeyOf[a]]), Moved(KeyOf[a], fail(order[KeyOf[a]])),
           attempt' = Refused(a), UNCHANGED <<now, sales, intent, events>>
    PROVE  PurchaseStep /\ SeatsStep
<1> DEFINE o == KeyOf[a]
           x == order[o]
           y == fail(x)
<1>1. o \in Orders /\ x \in SeatOrder /\ OrderOK(x) /\ now \in Nat
  BY KeyOfOrder, InvPlaced
<1>2. /\ MovesTo(x, y, intent[o].status = "succeeded") /\ y.hold = x.hold /\ y.gen = x.gen
  BY <1>1, FailMoves
<1> HIDE DEF y
<1>3. OrdersStep /\ order'[o] = y /\ OthersStand(o)
  BY <1>1, <1>2, OneOrderMoves DEF OthersStand, y
<1>4. ProviderStep
  BY <1>3, ProviderUnchanged
<1>5. AttemptsStep
  BY <1>2, <1>3, AttemptTold DEF Refused
<1>6. SeatsStep /\ sales' \in DateSalesRow
  <2>1. SameHold(order[o], order'[o])
    BY <1>2, <1>3 DEF SameHold
  <2> QED
    BY <1>1, <1>3, <2>1, SeatsStandOne
<1> QED
  BY <1>1, <1>3, <1>4, <1>5, <1>6 DEF PurchaseStep, Instant

\* A checkout resumed once the sale is closed: its order fails.
LEMMA ResumeClosedStep ==
    ASSUME PurchaseInv, NEW a \in Attempts, NEW acknowledged \in BOOLEAN,
           ResumeClosed(a, acknowledged)
    PROVE  PurchaseStep /\ SeatsStep
<1> DEFINE x == order[KeyOf[a]]
<1>1. x.hold # "active" /\ awaitsIntent(x)
  BY DEF ResumeClosed, Resumes
<1>2. awaitsPayment(x)
  BY <1>1 DEF awaitsIntent, awaitsPayment, AWAITING_PAYMENT
<1> QED
  BY <1>1, <1>2, FailedStep DEF ResumeClosed

\* A resumption that leaves the order alone.
LEMMA ResumeStandingStep ==
    ASSUME PurchaseInv, NEW a \in Attempts, NEW acknowledged \in BOOLEAN,
           ResumeUnacknowledged(a, acknowledged) \/ ResumeCreating(a, acknowledged)
    PROVE  PurchaseStep /\ SeatsStep
<1>1. /\ attempt[a].step = "resuming" /\ now' = now /\ sales' = sales /\ order' = order
      /\ intent' = intent /\ events' = events
  BY DEF ResumeUnacknowledged, ResumeCreating, Resumes
<1>2. OrdersStep /\ ProviderStep /\ SeatsStep /\ sales' \in DateSalesRow
  BY <1>1, OrdersStand, ProviderUnchanged, SeatsStand
<1>3. now \in Nat /\ AttemptOK(a) /\ StartsAt \in Nat
  BY SeatPurchaseAssumption DEF PurchaseInv, TypeOK, Instant
<1>4. CASE ResumeUnacknowledged(a, acknowledged)
  <2>1. attempt' = Told(a, "refused") /\ ~(now < StartsAt)
    BY <1>3, <1>4 DEF ResumeUnacknowledged, unacknowledged, Refused
  <2>2. AttemptsStep
    BY <2>1, AttemptTold
  <2> QED
    BY <1>1, <1>2, <1>3, <2>2 DEF PurchaseStep, Instant
<1>5. CASE ResumeCreating(a, acknowledged)
  <2>1. attempt' = At(a, "creating") /\ order'[KeyOf[a]].state # "none"
    BY <1>1, <1>3, <1>5 DEF ResumeCreating, AttemptOK
  <2>2. AttemptsStep
    BY <1>1, <1>2, <2>1, AttemptGoes
  <2> QED
    BY <1>1, <1>2, <1>3, <2>2 DEF PurchaseStep, Instant
<1> QED
  BY <1>4, <1>5

\* A checkout resumed on an order whose hold ended, with a new hold.
LEMMA RenewHoldStep ==
    ASSUME PurchaseInv, NEW a \in Attempts, NEW acknowledged \in BOOLEAN,
           RenewHold(a, acknowledged)
    PROVE  PurchaseStep /\ SeatsStep
<1> DEFINE o == KeyOf[a]
           x == order[o]
           y == heldUntil(x, x.gen + 1, now + HoldTtl)
<1>1. /\ o \in Orders /\ x \in SeatOrder /\ OrderOK(x) /\ Quantity[o] \in Nat
      /\ now \in Nat /\ sales \in DateSalesRow
  BY KeyOfOrder, InvPlaced
<1>2. /\ attempt[a].step = "resuming" /\ awaitsIntent(x) /\ x.hold # "active"
      /\ Moved(o, y) /\ x.gen < MaxRenewals
      /\ CanTakeSeats(sales, Quantity[o], now, FALSE)
      /\ sales' = takeSeats(sales, Quantity[o], now, FALSE) /\ attempt' = At(a, "creating")
      /\ now' = now /\ intent' = intent /\ events' = events
  BY DEF RenewHold, CanHold, Resumes
<1>3. x.gen \in Nat /\ x.hold # "none"
  BY <1>1, <1>2 DEF OrderOK, SeatOrder, awaitsIntent
<1>4. /\ now + HoldTtl \in Nat /\ x.gen + 1 \in Nat /\ x.gen + 1 > x.gen
      /\ x.gen + 1 <= MaxRenewals
  BY <1>1, <1>2, <1>3, SeatPurchaseAssumption
<1>5. MovesTo(x, y, intent[o].status = "succeeded")
  BY <1>1, <1>2, <1>4, HeldUntilMoves
<1>6. y.hold = "active" /\ y.gen = x.gen + 1
  BY <1>1 DEF heldUntil, SeatOrder
<1> HIDE DEF y
<1>7. OrdersStep /\ order'[o] = y /\ OthersStand(o)
  BY <1>1, <1>2, <1>5, OneOrderMoves DEF OthersStand
<1>8. ProviderStep
  BY <1>2, <1>7, ProviderUnchanged
<1>9. AttemptsStep
  <2>1. order'[o].state # "none" /\ attempt[a].step # "done"
    BY <1>2, <1>5, <1>7 DEF MovesTo
  <2> QED
    BY <1>2, <1>8, <2>1, AttemptGoes
<1>10. /\ sales.seatsAvailable >= Quantity[o]
       /\ Counts(sales, sales', 0 - Quantity[o], 0)
  BY <1>1, <1>2, RowStatements
<1>11. SeatsStep
  BY <1>1, <1>2, <1>3, <1>6, <1>7, <1>10 DEF SeatsStep, TakesHold
<1> QED
  BY <1>1, <1>2, <1>7, <1>8, <1>9, <1>10, <1>11 DEF PurchaseStep, Counts, Instant

\* A renewal that found no seats remembers the hold it found gone.
LEMMA RenewalSoldOutStep ==
    ASSUME PurchaseInv, NEW a \in Attempts, NEW acknowledged \in BOOLEAN,
           RenewalSoldOut(a, acknowledged)
    PROVE  PurchaseStep /\ SeatsStep
<1> DEFINE o == KeyOf[a]
           x == order[o]
           t == [attempt[a] EXCEPT !.step = "sold_out", !.gen = x.gen]
<1>1. /\ o \in Orders /\ x \in SeatOrder /\ now \in Nat /\ attempt \in [Attempts -> Attempt]
      /\ AttemptOK(a)
  BY KeyOfOrder, InvPlaced DEF PurchaseInv, TypeOK
<1>2. /\ attempt[a].step = "resuming" /\ x.hold # "active"
      /\ now' = now /\ sales' = sales /\ order' = order /\ intent' = intent /\ events' = events
      /\ attempt' = [attempt EXCEPT ![a].step = "sold_out", ![a].gen = x.gen]
  BY DEF RenewalSoldOut, Resumes
<1>3. OrdersStep /\ ProviderStep /\ SeatsStep /\ sales' \in DateSalesRow
  BY <1>2, OrdersStand, ProviderUnchanged, SeatsStand
<1>4. attempt' = [attempt EXCEPT ![a] = t]
  BY <1>1, <1>2
<1>5. /\ t \in Attempt /\ t.step = "sold_out" /\ t.gen = x.gen /\ t.told = attempt[a].told
      /\ t.status = attempt[a].status
  BY ZenonT(40), <1>1 DEF Attempt, SeatOrder
<1> HIDE DEF t
<1>6. attempt'[a] = t /\ \A b \in Attempts \ {a} : attempt'[b] = attempt[b]
  BY <1>1, <1>4
<1>7. attempt' \in [Attempts -> Attempt]
  BY <1>1, <1>4, <1>5
<1>8. /\ attempt[a].told = "nothing" /\ x.state # "none"
      /\ attempt[a].status = "succeeded" => intent[o].status = "succeeded"
      /\ x.gen <= x.gen
  BY <1>1, <1>2 DEF AttemptOK, SeatOrder
<1>9. AttemptOK(a)'
  BY <1>2, <1>5, <1>6, <1>8 DEF AttemptOK
<1>10. AttemptsStep
  BY <1>5, <1>6, <1>7, <1>8, <1>9 DEF AttemptsStep
<1> QED
  BY <1>1, <1>2, <1>3, <1>10 DEF PurchaseStep, Instant

\* ... and fails the order only if that hold is still the last one.
LEMMA FailSoldOutStep ==
    ASSUME PurchaseInv, NEW a \in Attempts, FailSoldOut(a)
    PROVE  PurchaseStep /\ SeatsStep
<1> DEFINE o == KeyOf[a]
           x == order[o]
<1>1. /\ o \in Orders /\ x \in SeatOrder /\ OrderOK(x) /\ now \in Nat /\ AttemptOK(a)
  BY KeyOfOrder, InvPlaced DEF PurchaseInv
<1>2. /\ attempt[a].step = "sold_out" /\ now' = now /\ sales' = sales
      /\ intent' = intent /\ events' = events
  BY DEF FailSoldOut
<1>3. x.state # "none" /\ (x.gen = attempt[a].gen => x.hold # "active")
  BY <1>1, <1>2 DEF AttemptOK
<1>4. CASE x.gen # attempt[a].gen
  <2>1. attempt' = Told(a, "retry") /\ order' = order
    BY <1>4 DEF FailSoldOut
  <2>2. OrdersStep /\ ProviderStep /\ SeatsStep /\ sales' \in DateSalesRow
    BY <1>2, <2>1, OrdersStand, ProviderUnchanged, SeatsStand
  <2>3. AttemptsStep
    BY <2>1, AttemptTold
  <2> QED
    BY <1>1, <1>2, <2>2, <2>3 DEF PurchaseStep, Instant
<1>5. CASE x.gen = attempt[a].gen /\ ~awaitsIntent(x)
  <2>1. AnswerFrom(a, x)
    BY <1>5 DEF FailSoldOut
  <2>2. MovesTo(x, x, intent[o].status = "succeeded")
    BY <1>1, <1>3, StandMoves
  <2>3. /\ OrdersStep /\ ProviderStep /\ AttemptsStep /\ OthersStand(o)
        /\ order'[o].hold = x.hold /\ order'[o].gen = x.gen
    BY <1>2, <1>3, <1>5, <2>1, <2>2, Answers
  <2>4. SeatsStep /\ sales' \in DateSalesRow
    <3>1. SameHold(order[o], order'[o])
      BY <2>3 DEF SameHold
    <3> QED
      BY <1>1, <1>2, <2>3, <3>1, SeatsStandOne
  <2> QED
    BY <1>1, <1>2, <2>3, <2>4 DEF PurchaseStep, Instant
<1>6. CASE x.gen = attempt[a].gen /\ awaitsIntent(x)
  <2>1. Moved(o, fail(x)) /\ attempt' = Refused(a)
    BY <1>6 DEF FailSoldOut
  <2>2. awaitsPayment(x)
    BY <1>6 DEF awaitsIntent, awaitsPayment, AWAITING_PAYMENT
  <2> QED
    BY <1>2, <1>3, <1>6, <2>1, <2>2, FailedStep
<1> QED
  BY <1>4, <1>5, <1>6

\* The provider asked, answering or not: nobody asks for an order nobody placed.
LEMMA CreateIntentStep ==
    ASSUME PurchaseInv, NEW a \in Attempts, NEW s \in IntentStatus, CreateIntent(a, s)
    PROVE  PurchaseStep /\ SeatsStep
<1> DEFINE o == KeyOf[a]
           x == order[o]
           t == [attempt[a] EXCEPT !.step = "recording", !.status = s]
<1>1. /\ o \in Orders /\ now \in Nat /\ attempt \in [Attempts -> Attempt] /\ AttemptOK(a)
      /\ intent \in [Orders -> Intent] /\ events \in [Orders -> SUBSET EventKind]
  BY KeyOfOrder, InvPlaced DEF PurchaseInv, TypeOK
<1>2. /\ attempt[a].step = "creating" /\ now' = now /\ sales' = sales /\ order' = order
      /\ intent[o].status # NULL => s = intent[o].status
      /\ intent' = [intent EXCEPT ![o] = IntentAfter(o, s)]
      /\ events' = EventsAfter(o, s)
      /\ attempt' = [attempt EXCEPT ![a].step = "recording", ![a].status = s]
  BY DEF CreateIntent
<1>3. x.state # "none" /\ attempt[a].told = "nothing"
  BY <1>1, <1>2 DEF AttemptOK
<1>4. OrdersStep /\ SeatsStep /\ sales' \in DateSalesRow
  BY <1>2, OrdersStand, SeatsStand
<1>5. ProviderStep /\ intent'[o].status = s
  BY <1>1, <1>2, <1>3, <1>4, IntentCreated
<1>6. AttemptsStep
  <2>1. attempt' = [attempt EXCEPT ![a] = t]
    BY <1>1, <1>2
  <2>2. /\ t \in Attempt /\ t.step = "recording" /\ t.status = s /\ t.told = "nothing"
    BY <1>1, <1>3 DEF Attempt
  <2> HIDE DEF t
  <2>3. attempt'[a] = t /\ \A b \in Attempts \ {a} : attempt'[b] = attempt[b]
    BY <1>1, <2>1
  <2>4. attempt' \in [Attempts -> Attempt]
    BY <1>1, <2>1, <2>2
  <2>5. s # NULL
    BY SeatPurchaseAssumption
  <2>6. AttemptOK(a)'
    BY <1>2, <1>3, <1>5, <2>2, <2>3, <2>5 DEF AttemptOK
  <2> QED
    BY <2>2, <2>3, <2>4, <2>6 DEF AttemptsStep
<1> QED
  BY <1>1, <1>2, <1>4, <1>5, <1>6 DEF PurchaseStep, Instant

\* A checkout the provider did not answer.
LEMMA ProviderUnavailableStep ==
    ASSUME PurchaseInv, NEW a \in Attempts, NEW s \in Scenarios[KeyOf[a]] \cup {NULL},
           ProviderUnavailable(a, s)
    PROVE  PurchaseStep /\ SeatsStep
<1> DEFINE o == KeyOf[a]
<1>1. /\ o \in Orders /\ now \in Nat /\ AttemptOK(a)
      /\ intent \in [Orders -> Intent] /\ events \in [Orders -> SUBSET EventKind]
  BY KeyOfOrder, InvPlaced DEF PurchaseInv, TypeOK
<1>2. /\ attempt[a].step = "creating" /\ now' = now /\ sales' = sales /\ order' = order
      /\ intent' = [intent EXCEPT ![o] = IntentAfter(o, s)]
      /\ events' = IF s = NULL THEN events ELSE EventsAfter(o, s)
      /\ attempt' = At(a, "releasing")
  BY DEF ProviderUnavailable
<1>3. order[o].state # "none"
  BY <1>1, <1>2 DEF AttemptOK
<1>4. OrdersStep /\ SeatsStep /\ sales' \in DateSalesRow
  BY <1>2, OrdersStand, SeatsStand
<1>5. ProviderStep
  <2>1. CASE s # NULL
    <3>1. s \in IntentStatus
      BY <1>1, <2>1, SeatPurchaseAssumption
    <3> QED
      BY <1>1, <1>2, <1>3, <1>4, <2>1, <3>1, IntentCreated
  <2>2. CASE s = NULL
    <3>1. IntentAfter(o, s) = intent[o]
      BY <1>1, <2>2 DEF IntentAfter, Intent
    <3>2. intent' = intent /\ events' = events
      BY <1>1, <1>2, <2>2, <3>1
    <3> QED
      BY <1>4, <3>2, ProviderUnchanged
  <2> QED
    BY <2>1, <2>2
<1>6. AttemptsStep
  BY <1>2, <1>3, <1>5, AttemptGoes
<1> QED
  BY <1>1, <1>2, <1>4, <1>5, <1>6 DEF PurchaseStep, Instant

\* The intent moves at the provider, each move telling an event.
LEMMA ProviderMovesStep ==
    ASSUME PurchaseInv, NEW o \in Orders,
           OpenDispute(o) \/ \E s \in IntentStatus : ProviderMoves(o, s)
    PROVE  PurchaseStep /\ SeatsStep
<1>1. /\ now \in Nat /\ intent \in [Orders -> Intent]
      /\ events \in [Orders -> SUBSET EventKind] /\ ProviderOK(o)
  BY InvPlaced DEF PurchaseInv, TypeOK
<1>2. /\ now' = now /\ sales' = sales /\ order' = order /\ attempt' = attempt
  BY DEF OpenDispute, ProviderMoves
<1>3. OrdersStep /\ SeatsStep /\ sales' \in DateSalesRow /\ AttemptsStep
  BY <1>2, OrdersStand, SeatsStand, AttemptsStand
<1>4. intent[o].status # NULL
  BY SeatPurchaseAssumption DEF OpenDispute, ProviderMoves, IntentStatus
<1>5. order[o].state # "none"
  BY <1>1, <1>4 DEF ProviderOK
<1>6. CASE OpenDispute(o)
  <2> DEFINE i == [intent[o] EXCEPT !.disputed = TRUE]
  <2>1. /\ intent[o].status = "succeeded"
        /\ intent' = [intent EXCEPT ![o] = i]
        /\ events' = [events EXCEPT ![o] = events[o] \cup {"disputed"}]
    BY <1>1, <1>6 DEF OpenDispute
  <2>2. i \in Intent /\ i.status = "succeeded"
    BY <1>1, <2>1 DEF Intent
  <2> HIDE DEF i
  <2>3. ProviderStep
    BY <1>1, <1>2, <1>5, <2>1, <2>2, OneIntentMoves DEF EventKind
  <2> QED
    BY <1>1, <1>2, <1>3, <2>3 DEF PurchaseStep, Instant
<1>7. ASSUME NEW s \in IntentStatus, ProviderMoves(o, s)
      PROVE  PurchaseStep /\ SeatsStep
  <2> DEFINE i == [intent[o] EXCEPT !.status = s]
  <2>1. /\ intent[o].status # "succeeded"
        /\ intent' = [intent EXCEPT ![o] = i]
        /\ events' = [events EXCEPT ![o] = events[o] \cup {s}]
    BY <1>1, <1>7 DEF ProviderMoves
  <2>2. i \in Intent /\ i.status = s
    BY <1>1 DEF Intent
  <2> HIDE DEF i
  <2>3. s # "disputed" /\ s \in EventKind
    BY DEF IntentStatus, EventKind
  <2>4. ProviderStep
    BY <1>1, <1>2, <1>5, <2>1, <2>2, <2>3, OneIntentMoves
  <2> QED
    BY <1>1, <1>2, <1>3, <2>4 DEF PurchaseStep, Instant
<1> QED
  BY <1>6, <1>7

\* The hold given back while the order waits for its intent, and for nobody else's.
LEMMA ReleaseHoldOfStep ==
    ASSUME PurchaseInv, NEW a \in Attempts, ReleaseHoldOf(a)
    PROVE  PurchaseStep /\ SeatsStep
<1> DEFINE o == KeyOf[a]
           x == order[o]
           y == [x EXCEPT !.hold = "released"]
           releases == awaitsIntent(x) /\ x.hold = "active"
<1>1. /\ o \in Orders /\ x \in SeatOrder /\ OrderOK(x) /\ Quantity[o] \in Nat
      /\ now \in Nat /\ sales \in DateSalesRow
  BY KeyOfOrder, InvPlaced
<1>2. /\ attempt' = Told(a, "retry") /\ now' = now /\ intent' = intent /\ events' = events
  BY DEF ReleaseHoldOf
<1>3. AttemptsStep
  BY <1>2, AttemptTold
<1>4. CASE releases
  <2>1. Moved(o, y) /\ sales' = returnHeldSeats(sales, Quantity[o], 0, now)
    BY <1>4 DEF ReleaseHoldOf, returned
  <2>2. x.intent = "none"
    BY <1>4 DEF awaitsIntent
  <2>3. MovesTo(x, y, intent[o].status = "succeeded")
    BY <1>1, <1>4, <2>2, ReleasedMoves
  <2>4. y.hold = "released" /\ y.gen = x.gen
    BY <1>1 DEF SeatOrder
  <2> HIDE DEF y
  <2>5. OrdersStep /\ order'[o] = y /\ OthersStand(o)
    BY <1>1, <2>1, <2>3, OneOrderMoves DEF OthersStand
  <2>6. ProviderStep
    BY <1>2, <2>5, ProviderUnchanged
  <2>7. Counts(sales, sales', Quantity[o], 0)
    BY <1>1, <2>1, RowStatements
  <2>8. EndsHold(order[o], order'[o])
    BY <1>4, <2>4, <2>5 DEF EndsHold
  <2>9. SeatsStep
    BY <1>1, <2>5, <2>7, <2>8 DEF SeatsStep, SeatsMove
  <2> QED
    BY <1>1, <1>2, <1>3, <2>5, <2>6, <2>7, <2>9 DEF PurchaseStep, Counts, Instant
<1>5. CASE ~releases
  <2>1. order' = order /\ sales' = sales
    BY <1>5 DEF ReleaseHoldOf
  <2>2. OrdersStep /\ ProviderStep /\ SeatsStep /\ sales' \in DateSalesRow
    BY <1>2, <2>1, OrdersStand, ProviderUnchanged, SeatsStand
  <2> QED
    BY <1>1, <1>2, <1>3, <2>2 DEF PurchaseStep, Instant
<1> QED
  BY <1>4, <1>5

\* Tx B: the answer the provider gave, and the purchase's.
LEMMA RecordIntentStep ==
    ASSUME PurchaseInv, NEW a \in Attempts, RecordIntent(a)
    PROVE  PurchaseStep /\ SeatsStep
<1> DEFINE o == KeyOf[a]
           x == order[o]
           kind == attempt[a].status
           taken == intent[o].status = "succeeded"
<1>1. /\ o \in Orders /\ now \in Nat /\ AttemptOK(a) /\ attempt[a] \in Attempt
      /\ attempt[a].step = "recording"
  BY KeyOfOrder, InvPlaced DEF PurchaseInv, TypeOK, RecordIntent
<1>2. /\ x.state # "none" /\ kind \in IntentStatus /\ (kind = "succeeded" => taken)
  BY <1>1 DEF AttemptOK, Attempt
<1>3. /\ Placed(o) /\ kind \in EventKind /\ taken \in BOOLEAN
      /\ kind \in {"succeeded", "disputed"} => taken
  BY <1>1, <1>2, InvPlaced DEF EventKind, IntentStatus
<1> HIDE DEF taken, kind
<1>4. PICK y, r :
          /\ Applied(o, kind, "secret") = [order |-> y, sales |-> r]
          /\ MovesTo(x, y, taken)
          /\ SeatsMove(x, y, sales, r, Quantity[o])
          /\ y.hold = "active" =>
                 awaitsPayment(y) /\ y.refund = "none" /\ y.intent = "secret"
  BY <1>3, AppliedMoves
<1>5. AnswerFrom(a, y) /\ sales' = r /\ now' = now /\ intent' = intent /\ events' = events
  BY <1>4 DEF RecordIntent, kind
<1>6. y.hold = "active" => answerOf(y) # "refused"
  <2>1. y \in SeatOrder
    BY <1>4 DEF MovesTo
  <2> QED
    BY <1>4, <2>1 DEF answerOf, SeatOrder
<1>7. /\ OrdersStep /\ ProviderStep /\ AttemptsStep /\ OthersStand(o)
      /\ order'[o].hold = y.hold /\ order'[o].gen = y.gen
  BY <1>4, <1>5, <1>6, Answers DEF taken
<1>8. SeatsMove(x, order'[o], sales, sales', Quantity[o])
  BY <1>4, <1>5, <1>7 DEF SeatsMove, SameHold, EndsHold
<1>9. sales' \in DateSalesRow
  BY <1>8 DEF SeatsMove, Counts
<1>10. SeatsStep
  BY <1>1, <1>7, <1>8 DEF SeatsStep
<1> QED
  BY <1>1, <1>5, <1>7, <1>9, <1>10 DEF PurchaseStep, Instant

\* A handler that stops.
LEMMA CrashStep ==
    ASSUME PurchaseInv, NEW a \in Attempts, Crash(a)
    PROVE  PurchaseStep /\ SeatsStep
<1>1. /\ attempt' = Told(a, "nothing") /\ now' = now /\ sales' = sales /\ order' = order
      /\ intent' = intent /\ events' = events /\ now \in Instant
  BY DEF Crash, PurchaseInv, TypeOK
<1>2. OrdersStep /\ ProviderStep /\ SeatsStep /\ sales' \in DateSalesRow
  BY <1>1, OrdersStand, ProviderUnchanged, SeatsStand
<1>3. AttemptsStep
  BY <1>1, AttemptTold
<1> QED
  BY <1>1, <1>2, <1>3 DEF PurchaseStep

\* A webhook applied.
LEMMA ApplyEventStep ==
    ASSUME PurchaseInv, NEW o \in Orders, NEW kind \in EventKind, ApplyEvent(o, kind)
    PROVE  PurchaseStep /\ SeatsStep
<1> DEFINE x == order[o]
           taken == intent[o].status = "succeeded"
<1>1. /\ now \in Nat /\ ProviderOK(o) /\ kind \in events[o]
      /\ events \in [Orders -> SUBSET EventKind]
  BY InvPlaced DEF PurchaseInv, TypeOK, ApplyEvent
<1>2. /\ x.state # "none" /\ taken \in BOOLEAN
      /\ kind \in {"succeeded", "disputed"} => taken
  BY <1>1 DEF ProviderOK
<1>3. Placed(o)
  BY <1>2, InvPlaced
<1> HIDE DEF taken
<1>4. PICK y, r :
          /\ Applied(o, kind, "ref") = [order |-> y, sales |-> r]
          /\ MovesTo(x, y, taken)
          /\ SeatsMove(x, y, sales, r, Quantity[o])
  BY <1>2, <1>3, AppliedMoves
<1>5. /\ Moved(o, y) /\ sales' = r /\ now' = now /\ intent' = intent /\ attempt' = attempt
      /\ events' = [events EXCEPT ![o] = events[o] \ {kind}]
  BY <1>4 DEF ApplyEvent
<1>6. OrdersStep /\ order'[o] = y /\ OthersStand(o)
  BY <1>4, <1>5, OneOrderMoves DEF OthersStand, taken
<1>7. /\ events' \in [Orders -> SUBSET EventKind]
      /\ \A p \in Orders : events'[p] \subseteq events[p]
  BY <1>1, <1>5
<1>8. ProviderStep /\ AttemptsStep
  BY <1>5, <1>6, <1>7, ProviderStands, AttemptsStand
<1>9. sales' \in DateSalesRow
  BY <1>4, <1>5 DEF SeatsMove, Counts
<1>10. SeatsStep
  BY <1>4, <1>5, <1>6 DEF SeatsStep
<1> QED
  BY <1>1, <1>5, <1>6, <1>8, <1>9, <1>10 DEF PurchaseStep, Instant

\* The worker's calls.
LEMMA CancelIntentStep ==
    ASSUME PurchaseInv, NEW o \in Orders, NEW recorded \in BOOLEAN, CancelIntent(o, recorded)
    PROVE  PurchaseStep /\ SeatsStep
<1> DEFINE x == order[o]
           y == [x EXCEPT !.cancelOwed = ~recorded]
           cancels == intent[o].status # "succeeded" /\ ~intent[o].canceled
           i == [intent[o] EXCEPT !.canceled = intent[o].canceled \/ cancels]
<1>1. /\ x \in SeatOrder /\ OrderOK(x) /\ now \in Nat /\ intent \in [Orders -> Intent]
      /\ events \in [Orders -> SUBSET EventKind] /\ ProviderOK(o)
  BY InvPlaced DEF PurchaseInv, TypeOK
<1>2. /\ x.cancelOwed /\ Moved(o, y) /\ now' = now /\ sales' = sales /\ attempt' = attempt
      /\ events' = IF cancels THEN [events EXCEPT ![o] = events[o] \cup {"cancelled"}]
                   ELSE events
  BY DEF CancelIntent
<1>3. intent' = [intent EXCEPT ![o] = i]
  BY <1>1 DEF CancelIntent
<1>4. i \in Intent /\ i.status = intent[o].status
  <2>1. intent[o] \in Intent
    BY <1>1
  <2>2. (intent[o].canceled \/ cancels) \in BOOLEAN
    BY <2>1 DEF Intent
  <2> QED
    BY <2>1, <2>2 DEF Intent
<1>5. x.state # "none" /\ ~awaitsPayment(x) /\ x.hold # "active"
  BY <1>1, <1>2 DEF OrderOK
<1>6. /\ y \in SeatOrder /\ y.state = x.state /\ y.hold = x.hold /\ y.intent = x.intent
      /\ y.seated = x.seated /\ y.refund = x.refund /\ y.answer = x.answer /\ y.gen = x.gen
      /\ (y.cancelOwed => x.cancelOwed)
  BY <1>1, <1>2 DEF SeatOrder
<1> HIDE DEF y, i
<1>7. MovesTo(x, y, intent[o].status = "succeeded")
  BY <1>1, <1>5, <1>6 DEF MovesTo, OrderOK, SeatOrder, awaitsPayment
<1>8. OrdersStep /\ order'[o] = y /\ OthersStand(o)
  BY <1>2, <1>7, OneOrderMoves DEF OthersStand
<1>9. ProviderStep
  <2>1. ASSUME NEW p \in Orders
        PROVE  /\ intent'[p].status = intent[p].status
               /\ "succeeded" \in events'[p] \/ "disputed" \in events'[p]
                      => "succeeded" \in events[p] \/ "disputed" \in events[p]
               /\ events'[p] # {} => events[p] # {} \/ p = o
    BY <1>1, <1>2, <1>3, <1>4
  <2>2. intent' \in [Orders -> Intent] /\ events' \in [Orders -> SUBSET EventKind]
    BY <1>1, <1>2, <1>3, <1>4 DEF EventKind
  <2>3. ASSUME NEW p \in Orders
        PROVE  /\ ProviderOK(p) /\ order'[o].state # "none"
               /\ order[p].state # "none" => order'[p].state # "none"
    BY <1>5, <1>6, <1>8 DEF PurchaseInv, OthersStand
  <2>4. ASSUME NEW p \in Orders
        PROVE  /\ intent[p].status = "succeeded" => intent'[p].status = "succeeded"
               /\ "succeeded" \in events'[p] \/ "disputed" \in events'[p]
                      => intent'[p].status = "succeeded"
               /\ events'[p] # {} \/ intent'[p].status # NULL => order'[p].state # "none"
    BY <2>1, <2>3 DEF ProviderOK
  <2> QED
    BY <2>2, <2>4 DEF ProviderStep
<1>10. AttemptsStep
  BY <1>2, AttemptsStand
<1>11. SeatsStep /\ sales' \in DateSalesRow
  <2>1. SameHold(order[o], order'[o])
    BY <1>6, <1>8 DEF SameHold
  <2> QED
    BY <1>2, <1>8, <2>1, SeatsStandOne
<1> QED
  BY <1>1, <1>2, <1>8, <1>9, <1>10, <1>11 DEF PurchaseStep, Instant

\* A refund made by the provider.
LEMMA MakeRefundStep ==
    ASSUME PurchaseInv, NEW o \in Orders, MakeRefund(o)
    PROVE  PurchaseStep /\ SeatsStep
<1> DEFINE x == order[o]
           y == refundMade(x)
<1>1. x \in SeatOrder /\ OrderOK(x) /\ now \in Nat
  BY InvPlaced
<1>2. /\ x.refund = "owed" /\ Moved(o, y) /\ now' = now /\ sales' = sales
      /\ attempt' = attempt /\ intent' = intent /\ events' = events
  BY DEF MakeRefund
<1>3. MovesTo(x, y, intent[o].status = "succeeded") /\ y.hold = x.hold /\ y.gen = x.gen
  BY <1>1, <1>2, RefundMoves
<1> HIDE DEF y
<1>4. OrdersStep /\ order'[o] = y /\ OthersStand(o)
  BY <1>2, <1>3, OneOrderMoves DEF OthersStand
<1>5. ProviderStep /\ AttemptsStep
  BY <1>2, <1>4, ProviderUnchanged, AttemptsStand
<1>6. SeatsStep /\ sales' \in DateSalesRow
  <2>1. SameHold(order[o], order'[o])
    BY <1>3, <1>4 DEF SameHold
  <2> QED
    BY <1>2, <1>4, <2>1, SeatsStandOne
<1> QED
  BY <1>1, <1>2, <1>4, <1>5, <1>6 DEF PurchaseStep, Instant

\* The seats of a set of orders are finitely many.
LEMMA SeatsOfFinite ==
    ASSUME NEW B \in SUBSET Orders
    PROVE  IsFiniteSet(SeatsOf(B)) /\ Cardinality(SeatsOf(B)) \in Nat
<1> DEFINE f == [o \in B |-> {o} \X (1..Quantity[o])]
           T == {{o} \X (1..Quantity[o]) : o \in B}
<1>1. IsFiniteSet(B)
  BY FS_Subset, SeatPurchaseAssumption
<1>2. f \in Surjection(B, T)
  BY DEF Surjection
<1>3. IsFiniteSet(T)
  BY <1>1, <1>2, FS_Surjection
<1>4. ASSUME NEW o \in B
      PROVE  IsFiniteSet({o} \X (1..Quantity[o]))
  <2>1. Quantity[o] \in Int
    BY SeatPurchaseAssumption
  <2>2. IsFiniteSet({o})
    BY FS_Singleton
  <2>3. IsFiniteSet(1..Quantity[o])
    BY <2>1, FS_Interval
  <2> QED
    BY <2>2, <2>3, FS_Product
<1>5. IsFiniteSet(UNION T)
  BY <1>3, <1>4, FS_UNION
<1> QED
  BY <1>5, FS_CardinalityType DEF SeatsOf

\* The sweeper's pass, over every hold and every order it locked at once.
LEMMA ExpireDueHoldsStep ==
    ASSUME PurchaseInv, NEW B \in SUBSET DueHolds, NEW P \in SUBSET PendingWithoutHold,
           ExpireDueHolds(B, P)
    PROVE  PurchaseStep /\ SeatsStep
<1>1. /\ now \in Nat /\ order \in [Orders -> SeatOrder] /\ sales \in DateSalesRow
  BY DEF PurchaseInv, TypeOK, Instant
<1>2. /\ now' = now /\ attempt' = attempt /\ intent' = intent /\ events' = events
      /\ sales' = returnHeldSeats(sales, Cardinality(SeatsOf(B)), 0, now)
      /\ order' = [o \in Orders |-> CASE o \in B -> expiredOrder(order[o])
                                      [] o \in P -> fail(order[o])
                                      [] OTHER -> order[o]]
  BY DEF ExpireDueHolds
<1>3. B \subseteq Orders /\ P \subseteq Orders /\ B \cap P = {}
  BY DEF DueHolds, PendingWithoutHold
<1>4. ASSUME NEW o \in B
      PROVE  /\ MovesTo(order[o], order'[o], intent[o].status = "succeeded")
             /\ EndsHold(order[o], order'[o])
  <2>1. order'[o] = expiredOrder(order[o]) /\ order[o].hold = "active" /\ o \in Orders
    BY <1>2, <1>3 DEF DueHolds
  <2>2. order[o] \in SeatOrder /\ OrderOK(order[o])
    BY <2>1, InvPlaced
  <2>3. /\ MovesTo(order[o], expiredOrder(order[o]), intent[o].status = "succeeded")
        /\ expiredOrder(order[o]).hold = "expired" /\ expiredOrder(order[o]).gen = order[o].gen
    BY <2>1, <2>2, ExpiredMoves
  <2> QED
    BY <2>1, <2>3 DEF EndsHold
<1>5. ASSUME NEW o \in P
      PROVE  /\ MovesTo(order[o], order'[o], intent[o].status = "succeeded")
             /\ SameHold(order[o], order'[o])
  <2>1. /\ order'[o] = fail(order[o]) /\ order[o].hold # "active" /\ o \in Orders
        /\ awaitsPayment(order[o])
    BY <1>2, <1>3 DEF PendingWithoutHold, awaitsIntent, awaitsPayment, AWAITING_PAYMENT
  <2>2. order[o] \in SeatOrder /\ OrderOK(order[o])
    BY <2>1, InvPlaced
  <2>3. /\ MovesTo(order[o], fail(order[o]), intent[o].status = "succeeded")
        /\ fail(order[o]).hold = order[o].hold /\ fail(order[o]).gen = order[o].gen
    BY <2>1, <2>2, FailMoves
  <2> QED
    BY <2>1, <2>3 DEF SameHold
<1>6. ASSUME NEW o \in Orders, o \notin B, o \notin P
      PROVE  order'[o] = order[o] /\ SameHold(order[o], order'[o])
  BY <1>2, <1>6 DEF SameHold
<1>7. OrdersStep
  <2>1. ASSUME NEW o \in Orders
        PROVE  /\ \/ order'[o] = order[o]
                  \/ MovesTo(order[o], order'[o], intent[o].status = "succeeded")
               /\ order'[o] \in SeatOrder
    <3>1. \/ order'[o] = order[o]
          \/ MovesTo(order[o], order'[o], intent[o].status = "succeeded")
      BY <1>4, <1>5, <1>6
    <3> QED
      BY <1>1, <3>1 DEF MovesTo
  <2>2. order' = [o \in Orders |-> order'[o]]
    BY <1>2
  <2>3. order' \in [Orders -> SeatOrder]
    BY <2>1, <2>2
  <2> QED
    BY <2>1, <2>3 DEF OrdersStep
<1>8. ProviderStep /\ AttemptsStep
  BY <1>2, <1>7, ProviderUnchanged, AttemptsStand
<1>9. Counts(sales, sales', Cardinality(SeatsOf(B)), 0)
  <2>1. Cardinality(SeatsOf(B)) \in Nat
    BY <1>3, SeatsOfFinite
  <2> QED
    BY <1>1, <1>2, <2>1, RowStatements
<1>10. SeatsStep
  <2>1. \A o \in Orders \ B : SameHold(order[o], order'[o])
    BY <1>5, <1>6
  <2> QED
    BY <1>3, <1>4, <1>9, <2>1 DEF SeatsStep
<1> QED
  BY <1>1, <1>2, <1>7, <1>8, <1>9, <1>10 DEF PurchaseStep, Counts, Instant

\* The studio, catalog and the clock.
LEMMA SurroundingsStep ==
    ASSUME PurchaseInv,
           OpenSeats \/ (\E outcome \in Outcomes : RecordOutcome(outcome)) \/ Tick
    PROVE  PurchaseStep /\ SeatsStep
<1>1. now \in Nat /\ sales \in DateSalesRow
  BY DEF PurchaseInv, TypeOK, Instant
<1>2. order' = order /\ attempt' = attempt /\ intent' = intent /\ events' = events
  BY DEF OpenSeats, RecordOutcome, Tick
<1>3. OrdersStep /\ ProviderStep /\ AttemptsStep
  BY <1>2, OrdersStand, ProviderUnchanged, AttemptsStand
<1>4. CASE OpenSeats
  <2> DEFINE s == [sales EXCEPT !.capacityTotal = @ + Capacity]
             r == [sales EXCEPT !.capacityTotal = sales.capacityTotal + Capacity,
                                !.seatsAvailable = sales.seatsAvailable + Capacity]
  <2>1. now' = now /\ sales' = openCapacityTier(sales, Capacity, FALSE, 0)
    BY <1>4 DEF OpenSeats
  <2>2. sales' = r
    BY <2>1, Zenon DEF openCapacityTier, NotifiesWaitlist
  <2>3. /\ sales.seatsAvailable + Capacity \in Nat /\ sales.capacityTotal + Capacity \in Nat
        /\ sales.seatsSold \in Nat /\ sales.seatsSold + 0 = sales.seatsSold
    BY <1>1, SeatPurchaseAssumption DEF DateSalesRow
  <2>4. r \in DateSalesRow
    BY <1>1, <2>3 DEF DateSalesRow
  <2>5. /\ r.capacityTotal = s.capacityTotal
        /\ r.seatsAvailable = s.seatsAvailable + Capacity
        /\ r.seatsSold = s.seatsSold + 0
    BY <1>1, <2>3 DEF DateSalesRow
  <2> HIDE DEF r
  <2>6. Counts(s, sales', Capacity, 0)
    BY <2>2, <2>4, <2>5 DEF Counts
  <2>7. SeatsStep
    BY <1>2, <2>6 DEF SeatsStep
  <2> QED
    BY <1>1, <1>3, <2>1, <2>2, <2>4, <2>7 DEF PurchaseStep, Instant
<1>5. ASSUME NEW outcome \in Outcomes, RecordOutcome(outcome)
      PROVE  PurchaseStep /\ SeatsStep
  <2> DEFINE closed == sales.salesClosed \/ outcome \in OUTCOMES_CLOSING_SALES
             r == [sales EXCEPT !.outcome = outcome, !.outcomeStatedAt = now,
                                !.salesClosed = closed]
  <2>1. now' = now /\ sales' = r
    BY <1>5 DEF RecordOutcome, recordOutcome
  <2>2. outcome \in DateOutcome \cup {NULL} /\ closed \in BOOLEAN /\ now \in Instant \cup {NULL}
    BY <1>1, SeatPurchaseAssumption DEF DateSalesRow, Instant
  <2> HIDE DEF closed
  <2>3. r \in DateSalesRow
    BY <1>1, <2>2, Zenon DEF DateSalesRow
  <2>4. /\ r.capacityTotal = sales.capacityTotal /\ r.seatsAvailable = sales.seatsAvailable
        /\ r.seatsSold = sales.seatsSold
        /\ sales.seatsAvailable \in Nat /\ sales.seatsSold \in Nat
    BY <1>1 DEF DateSalesRow
  <2> HIDE DEF r
  <2>5. Counts(sales, sales', 0, 0)
    BY <2>1, <2>3, <2>4 DEF Counts
  <2>6. SeatsStep
    BY <1>2, <2>5 DEF SeatsStep
  <2> QED
    BY <1>1, <1>3, <2>1, <2>3, <2>6 DEF PurchaseStep, Instant
<1>6. CASE Tick
  <2>1. now' \in Instant /\ sales' = sales
    BY <1>1, <1>6 DEF Tick, Instant
  <2>2. SeatsStep /\ sales' \in DateSalesRow
    BY <1>2, <2>1, SeatsStand
  <2> QED
    BY <1>3, <2>1, <2>2 DEF PurchaseStep
<1> QED
  BY <1>4, <1>5, <1>6

-----------------------------------------------------------------------------
(***************************************************************************)
(* Every step of the specification is such a step.                         *)
(***************************************************************************)

\* Every step of a checkout's handler.
LEMMA HandlerStep ==
    ASSUME PurchaseInv, NEW a \in Attempts, Handler(a)
    PROVE  PurchaseStep /\ SeatsStep
<1>1. CASE FindBound(a)
  BY <1>1, StartedStep
<1>2. CASE ResumeAnswered(a) \/ FailSoldOut(a) \/ ReleaseHoldOf(a) \/ RecordIntent(a)
  BY <1>2, ResumeAnsweredStep, FailSoldOutStep, ReleaseHoldOfStep, RecordIntentStep
<1>3. ASSUME NEW acknowledged \in BOOLEAN,
             \/ PlaceOrder(a, acknowledged) \/ RefusePurchase(a, acknowledged)
             \/ ResumeClosed(a, acknowledged) \/ ResumeUnacknowledged(a, acknowledged)
             \/ RenewHold(a, acknowledged) \/ RenewalSoldOut(a, acknowledged)
             \/ ResumeCreating(a, acknowledged)
      PROVE  PurchaseStep /\ SeatsStep
  BY <1>3, PlaceOrderStep, StartedStep, ResumeClosedStep, ResumeStandingStep, RenewHoldStep,
     RenewalSoldOutStep
<1>4. ASSUME NEW s \in IntentStatus, CreateIntent(a, s)
      PROVE  PurchaseStep /\ SeatsStep
  BY <1>4, CreateIntentStep
<1>5. ASSUME NEW s \in Scenarios[KeyOf[a]] \cup {NULL}, ProviderUnavailable(a, s)
      PROVE  PurchaseStep /\ SeatsStep
  BY <1>5, ProviderUnavailableStep
<1> QED
  BY <1>1, <1>2, <1>3, <1>4, <1>5 DEF Handler

\* Every step of the system.
LEMMA NextIsStep ==
    ASSUME PurchaseInv, Next
    PROVE  PurchaseStep /\ SeatsStep
<1>1. ASSUME NEW a \in Attempts, Handler(a) \/ Crash(a)
      PROVE  PurchaseStep /\ SeatsStep
  BY <1>1, HandlerStep, CrashStep
<1>2. ASSUME NEW o \in Orders, Provider(o)
      PROVE  PurchaseStep /\ SeatsStep
  BY <1>2, ProviderMovesStep DEF Provider
<1>3. ASSUME NEW o \in Orders, Workers(o)
      PROVE  PurchaseStep /\ SeatsStep
  BY <1>3, ApplyEventStep, CancelIntentStep, MakeRefundStep DEF Workers
<1>4. ASSUME NEW B \in SUBSET DueHolds, NEW P \in SUBSET PendingWithoutHold,
             ExpireDueHolds(B, P)
      PROVE  PurchaseStep /\ SeatsStep
  BY <1>4, ExpireDueHoldsStep
<1> QED
  BY <1>1, <1>2, <1>3, <1>4, SurroundingsStep DEF Next

\* The initial state.
LEMMA InitInv == Init => PurchaseInv
<1> SUFFICES ASSUME Init
             PROVE  PurchaseInv
  OBVIOUS
<1>1. NoOrder \in SeatOrder /\ OrderOK(NoOrder) /\ NoOrder.state = "none"
      /\ ~NoOrder.seated /\ NoOrder.refund = "none"
  BY SeatPurchaseAssumption DEF NoOrder, SeatOrder, OrderState, AWAITING_PAYMENT, OrderOK,
     awaitsPayment, Instant
<1>2. sales \in DateSalesRow
  <2>1. SalesEnd \in Instant \cup {NULL} /\ NULL \in Instant \cup {NULL}
        /\ NULL \in DateOutcome \cup {NULL} /\ 0 \in Nat
        /\ TRUE \in BOOLEAN /\ FALSE \in BOOLEAN
    BY SeatPurchaseAssumption DEF Instant
  <2>2. OpenedRow \in DateSalesRow
    BY <2>1, Zenon DEF OpenedRow, DateSalesRow
  <2>3. sales = [OpenedRow EXCEPT !.pricesLocked = TRUE, !.salesEndAt = SalesEnd]
    BY DEF Init
  <2> QED
    BY <2>1, <2>2, <2>3, Zenon DEF DateSalesRow
<1>3. TypeOK
  <2>1. order \in [Orders -> SeatOrder] /\ now \in Instant
    BY <1>1 DEF Init, Instant
  <2>2. attempt \in [Attempts -> Attempt]
    BY DEF Init, Attempt
  <2>3. intent \in [Orders -> Intent] /\ events \in [Orders -> SUBSET EventKind]
    BY DEF Init, Intent
  <2> QED
    BY <1>2, <2>1, <2>2, <2>3 DEF TypeOK
<1>4. ASSUME NEW o \in Orders
      PROVE  OrderOK(order[o]) /\ ProviderOK(o)
  <2>1. order[o] = NoOrder /\ intent[o].status = NULL /\ events[o] = {}
    BY DEF Init
  <2> QED
    BY <1>1, <2>1 DEF ProviderOK
<1>5. ASSUME NEW a \in Attempts
      PROVE  AttemptOK(a)
  <2>1. attempt[a].step = "start" /\ attempt[a].told = "nothing" /\ attempt[a].status = NULL
    BY DEF Init
  <2>2. NULL # "succeeded"
    BY SeatPurchaseAssumption DEF IntentStatus
  <2> QED
    BY <2>1, <2>2 DEF AttemptOK
<1> QED
  BY <1>3, <1>4, <1>5 DEF PurchaseInv

\* A stuttering step keeps the invariant.
LEMMA StutterInv == ASSUME PurchaseInv, UNCHANGED vars PROVE PurchaseInv'
BY DEF PurchaseInv, TypeOK, ProviderOK, AttemptOK, vars

\* The invariant holds of every reachable state, whatever the orders, the attempts under
\* each key, the provider's answers and the order in which its events are applied.
THEOREM PurchaseInvariant == Spec => []PurchaseInv
<1>1. PurchaseInv /\ [Next]_vars => PurchaseInv'
  BY NextIsStep, StepKeepsInv, StutterInv
<1> QED
  BY InitInv, <1>1, PTL DEF Spec

-----------------------------------------------------------------------------
(***************************************************************************)
(* What the invariant says to the buyer, the studio and the provider.      *)
(***************************************************************************)

\* The state stays typed: no transaction takes a counter below zero, no attempt or order
\* reaches a state the code does not name.
THEOREM PurchaseTyped == Spec => []TypeOK
<1>1. PurchaseInv => TypeOK
  BY DEF PurchaseInv
<1> QED
  BY <1>1, PurchaseInvariant, PTL

\* A payment buys seats or is owed back, never both, and a hold is kept only by an order
\* that still waits for its payment.
THEOREM PaymentBuysSeatsOrIsOwed == Spec => []SeatsOrMoney
<1>1. PurchaseInv => SeatsOrMoney
  BY DEF PurchaseInv, OrderOK, SeatsOrMoney, awaitsPayment, AWAITING_PAYMENT
<1> QED
  BY <1>1, PurchaseInvariant, PTL

\* Seats and refunds are given only for money the provider took, whichever of the
\* purchase's transaction and the webhooks settles the order.
THEOREM NothingGivenUnpaid == Spec => []MoneyTaken
<1>1. PurchaseInv => MoneyTaken
  BY DEF PurchaseInv, ProviderOK, MoneyTaken
<1> QED
  BY <1>1, PurchaseInvariant, PTL

\* A cancellation is owed only on the intent of an order that failed unseated, so the
\* worker cancels no payment a seat was given for.
THEOREM CancellationsOwedRight == Spec => []CancellationsOwed
<1>1. PurchaseInv => CancellationsOwed
  BY DEF PurchaseInv, OrderOK, CancellationsOwed
<1> QED
  BY <1>1, PurchaseInvariant, PTL

\* Every attempt under one key that was told a success was told the same one.
THEOREM OneAnswerPerKey == Spec => []SameAnswer
<1>1. PurchaseInv => SameAnswer
  <2> SUFFICES ASSUME PurchaseInv, NEW a \in Attempts,
                      attempt[a].told \in {"paid", "awaiting_payment"}
               PROVE  /\ order[KeyOf[a]].answer = attempt[a].told
                      /\ attempt[a].told = "paid" => order[KeyOf[a]].seated
    BY DEF SameAnswer
  <2>1. AttemptOK(a) /\ OrderOK(order[KeyOf[a]])
    BY KeyOfOrder DEF PurchaseInv
  <2> QED
    BY <2>1 DEF AttemptOK, OrderOK
<1> QED
  BY <1>1, PurchaseInvariant, PTL

\* An order whose buyer is paying gives its hold up only for its seats, its failure or
\* its money back, whatever its key's other attempts do.
THEOREM PayerKeepsHold == Spec => HandoffKeepsItsSeats
<1>1. PurchaseInv /\ Next =>
          \A o \in Orders :
              order[o].hold = "active" /\ order[o].intent # "none" /\ order'[o].hold # "active"
                  => order'[o].seated \/ order'[o].state = "failed" \/ order'[o].refund # "none"
  BY NextIsStep, StepKeepsHandoff
<1> QED
  BY <1>1, PurchaseInvariant, PTL DEF Spec, HandoffKeepsItsSeats

\* Before the start, a buyer is refused only once no seats are held for them.
THEOREM RefusedWithoutSeats == Spec => NeverRefusedWhileHeld
<1>1. PurchaseInv /\ Next =>
          \A a \in Attempts :
              attempt[a].step # "done" /\ attempt'[a].told = "refused" /\ now < StartsAt
                  => order'[KeyOf[a]].hold # "active"
  BY NextIsStep, StepKeepsHandoff
<1> QED
  BY <1>1, PurchaseInvariant, PTL DEF Spec, NeverRefusedWhileHeld

-----------------------------------------------------------------------------
(***************************************************************************)
(* The purchases implement the inventory: each step's seats' side is one   *)
(* step of it, or none.                                                    *)
(***************************************************************************)

HoldIds == Orders \X (0..MaxRenewals)

\* The phase of an order's i-th hold.
PhaseOf(x, i) ==
    CASE x.hold = "none" \/ i > x.gen -> "unplaced"
      [] x.hold = "active" /\ i = x.gen -> "held"
      [] OTHER -> "ended"

Phases(ord) == [h \in HoldIds |-> PhaseOf(ord[h[1]], h[2])]

Quantities == [h \in HoldIds |-> Quantity[h[1]]]

\* What an order's move does to the phases of its holds.
LEMMA PhaseMoves ==
    ASSUME NEW x \in SeatOrder, NEW y \in SeatOrder, NEW i \in Nat
    PROVE  /\ SameHold(x, y) => PhaseOf(y, i) = PhaseOf(x, i)
           /\ EndsHold(x, y) => /\ PhaseOf(x, x.gen) = "held"
                                /\ PhaseOf(y, i) = IF i = x.gen THEN "ended" ELSE PhaseOf(x, i)
           /\ TakesHold(x, y) => /\ PhaseOf(x, y.gen) = "unplaced"
                                 /\ PhaseOf(y, i) = IF i = y.gen THEN "held" ELSE PhaseOf(x, i)
<1>1. x.gen \in Nat /\ y.gen \in Nat
  BY DEF SeatOrder
<1>2. SameHold(x, y) => PhaseOf(y, i) = PhaseOf(x, i)
  BY DEF SameHold, PhaseOf
<1>3. EndsHold(x, y) => /\ PhaseOf(x, x.gen) = "held"
                        /\ PhaseOf(y, i) = IF i = x.gen THEN "ended" ELSE PhaseOf(x, i)
  BY <1>1 DEF EndsHold, PhaseOf
<1>4. TakesHold(x, y) => /\ PhaseOf(x, y.gen) = "unplaced"
                         /\ PhaseOf(y, i) = IF i = y.gen THEN "held" ELSE PhaseOf(x, i)
  BY <1>1 DEF TakesHold, PhaseOf
<1> QED
  BY <1>2, <1>3, <1>4

\* The inventory's actions, in these words.
LEMMA InventoryUnchanged ==
    ASSUME Phases(order') = Phases(order), sales'.capacityTotal = sales.capacityTotal,
           sales'.seatsAvailable = sales.seatsAvailable, sales'.seatsSold = sales.seatsSold
    PROVE  UNCHANGED Inventory!inventoryVars
BY DEF Inventory!inventoryVars, Phases, PhaseOf, HoldIds

\* A hold taken is a step of the inventory.
LEMMA InventoryPlaces ==
    ASSUME NEW h \in HoldIds, Phases(order)[h] = "unplaced",
           sales.seatsAvailable >= Quantities[h],
           Phases(order') = [Phases(order) EXCEPT ![h] = "held"],
           sales'.capacityTotal = sales.capacityTotal,
           sales'.seatsAvailable = sales.seatsAvailable - Quantities[h],
           sales'.seatsSold = sales.seatsSold
    PROVE  Inventory!InventoryNext
<1>1. Inventory!PlaceHold(h)
  BY DEF Inventory!PlaceHold, Phases, PhaseOf, HoldIds, Quantities
<1> QED
  BY <1>1 DEF Inventory!InventoryNext, HoldIds

\* A hold sold is a step of the inventory.
LEMMA InventorySells ==
    ASSUME NEW h \in HoldIds, Phases(order)[h] = "held",
           Phases(order') = [Phases(order) EXCEPT ![h] = "ended"],
           sales'.capacityTotal = sales.capacityTotal,
           sales'.seatsAvailable = sales.seatsAvailable,
           sales'.seatsSold = sales.seatsSold + Quantities[h]
    PROVE  Inventory!InventoryNext
<1>1. Inventory!SellHold(h)
  BY DEF Inventory!SellHold, Phases, PhaseOf, HoldIds, Quantities
<1> QED
  BY <1>1 DEF Inventory!InventoryNext, HoldIds

\* Free seats sold without a hold are a step of the inventory.
LEMMA InventorySellsFree ==
    ASSUME NEW h \in HoldIds, Phases(order') = Phases(order),
           sales.seatsAvailable >= Quantities[h],
           sales'.capacityTotal = sales.capacityTotal,
           sales'.seatsAvailable = sales.seatsAvailable - Quantities[h],
           sales'.seatsSold = sales.seatsSold + Quantities[h]
    PROVE  Inventory!InventoryNext
<1>1. Inventory!SellFree(Quantities[h])
  BY DEF Inventory!SellFree, Phases, PhaseOf, HoldIds
<1> QED
  BY <1>1 DEF Inventory!InventoryNext, HoldIds, Quantities

\* A capacity widened is a step of the inventory.
LEMMA InventoryWidens ==
    ASSUME Phases(order') = Phases(order),
           sales'.capacityTotal \in Nat, sales'.capacityTotal > sales.capacityTotal,
           sales'.seatsAvailable
               = sales.seatsAvailable + (sales'.capacityTotal - sales.capacityTotal),
           sales'.seatsSold = sales.seatsSold
    PROVE  Inventory!InventoryNext
<1>1. Inventory!Widen
  BY DEF Inventory!Widen, Phases, PhaseOf, HoldIds
<1> QED
  BY <1>1 DEF Inventory!InventoryNext

HoldSeats(G) == UNION {{h} \X (1..Quantities[h]) : h \in G}

\* Cardinality is the same operator on either side of the refinement.
LEMMA InventoryCardinality ==
    ASSUME NEW S
    PROVE  Inventory!Cardinality(S) = Cardinality(S)
BY Zenon DEF Inventory!Cardinality, Cardinality

\* Holds given back are a step of the inventory.
LEMMA InventoryGivesBack ==
    ASSUME NEW G \in SUBSET HoldIds, \A h \in G : Phases(order)[h] = "held",
           Phases(order') = [h \in HoldIds |-> IF h \in G THEN "ended" ELSE Phases(order)[h]],
           sales'.capacityTotal = sales.capacityTotal,
           sales'.seatsAvailable = sales.seatsAvailable + Cardinality(HoldSeats(G)),
           sales'.seatsSold = sales.seatsSold
    PROVE  Inventory!InventoryNext
<1>1. Inventory!GiveBack(G)
  BY InventoryCardinality
     DEF Inventory!GiveBack, Phases, PhaseOf, HoldIds, HoldSeats, Quantities
<1> QED
  BY <1>1 DEF Inventory!InventoryNext, HoldIds

\* The seats of the orders' current holds are those of the orders, one for one.
LEMMA SeatsOfHolds ==
    ASSUME PurchaseInv, NEW B \in SUBSET Orders
    PROVE  LET G == {<<o, order[o].gen>> : o \in B}
           IN  G \subseteq HoldIds /\ Cardinality(HoldSeats(G)) = Cardinality(SeatsOf(B))
<1> DEFINE G == {<<o, order[o].gen>> : o \in B}
           S == SeatsOf(B)
           T == HoldSeats(G)
           f == [p \in S |-> <<<<p[1], order[p[1]].gen>>, p[2]>>]
<1>1. ASSUME NEW o \in B
      PROVE  order[o].gen \in 0..MaxRenewals
  <2>1. order[o].gen \in Nat /\ order[o].gen <= MaxRenewals
    BY InvPlaced DEF SeatOrder, OrderOK
  <2> QED
    BY <2>1, SeatPurchaseAssumption
<1>2. G \subseteq HoldIds
  BY <1>1 DEF HoldIds
<1>3. ASSUME NEW o \in B
      PROVE  Quantities[<<o, order[o].gen>>] = Quantity[o]
  BY <1>1 DEF Quantities, HoldIds
<1>4. S = UNION {{o} \X (1..Quantity[o]) : o \in B}
  BY DEF SeatsOf
<1>5. \A p : p \in S <=> \E o \in B : \E n \in 1..Quantity[o] : p = <<o, n>>
  BY <1>4
<1>6. \A q : q \in T <=> \E o \in B : \E n \in 1..Quantity[o] : q = <<<<o, order[o].gen>>, n>>
  BY <1>3 DEF HoldSeats
<1>7. IsFiniteSet(S)
  BY SeatsOfFinite
<1> HIDE DEF S, T
<1>8. f \in [S -> T]
  BY <1>5, <1>6
<1>9. \A q \in T : \E p \in S : f[p] = q
  <2> SUFFICES ASSUME NEW q \in T
               PROVE  \E p \in S : f[p] = q
    OBVIOUS
  <2>1. PICK o \in B : \E n \in 1..Quantity[o] : q = <<<<o, order[o].gen>>, n>>
    BY <1>6
  <2>2. PICK n \in 1..Quantity[o] : q = <<<<o, order[o].gen>>, n>>
    BY <2>1
  <2>3. <<o, n>> \in S
    BY <1>5
  <2>4. f[<<o, n>>] = <<<<o, order[o].gen>>, n>>
    BY <2>3
  <2> QED
    BY <2>2, <2>3, <2>4
<1>10. \A p1, p2 \in S : f[p1] = f[p2] => p1 = p2
  BY <1>5
<1>11. f \in Surjection(S, T)
  BY <1>8, <1>9 DEF Surjection
<1>12. f \in Injection(S, T)
  BY <1>8, <1>10 DEF Injection, IsInjective
<1>13. Cardinality(T) = Cardinality(S)
  BY <1>7, <1>11, <1>12, FS_Surjection
<1> QED
  BY <1>2, <1>13 DEF S, T

\* One order's seats are its quantity.
LEMMA SeatsOfOneOrder ==
    ASSUME NEW o \in Orders
    PROVE  Cardinality(SeatsOf({o})) = Quantity[o]
<1>1. Quantity[o] \in Nat \ {0}
  BY SeatPurchaseAssumption
<1>2. SeatsOf({o}) = {o} \X (1..Quantity[o])
  BY DEF SeatsOf
<1>3. IsFiniteSet({o}) /\ Cardinality({o}) = 1
  BY FS_Singleton
<1>4. /\ IsFiniteSet(1..Quantity[o])
      /\ Cardinality(1..Quantity[o]) = IF 1 > Quantity[o] THEN 0 ELSE Quantity[o] - 1 + 1
  BY SMTT(30), <1>1, FS_Interval
<1>5. Cardinality(1..Quantity[o]) = Quantity[o]
  BY <1>1, <1>4
<1>6. Cardinality({o} \X (1..Quantity[o])) = Cardinality({o}) * Cardinality(1..Quantity[o])
  BY <1>3, <1>4, FS_Product
<1>7. 1 * Quantity[o] = Quantity[o]
  BY <1>1
<1>8. Cardinality({o}) * Cardinality(1..Quantity[o]) = 1 * Quantity[o]
  BY <1>3, <1>5, Zenon
<1> QED
  BY <1>2, <1>6, <1>7, <1>8, Zenon

\* Orders whose holds stand keep their holds' phases.
LEMMA PhasesStand ==
    ASSUME order \in [Orders -> SeatOrder], order' \in [Orders -> SeatOrder],
           \A o \in Orders : SameHold(order[o], order'[o])
    PROVE  Phases(order') = Phases(order)
<1>1. ASSUME NEW h \in HoldIds
      PROVE  PhaseOf(order'[h[1]], h[2]) = PhaseOf(order[h[1]], h[2])
  <2>1. h[1] \in Orders /\ h[2] \in Nat
    BY SeatPurchaseAssumption DEF HoldIds
  <2> QED
    BY <2>1, PhaseMoves
<1> QED
  BY <1>1 DEF Phases

\* A set of orders whose holds end, the others' standing.
LEMMA PhasesEnd ==
    ASSUME order \in [Orders -> SeatOrder], order' \in [Orders -> SeatOrder],
           NEW B \in SUBSET Orders,
           \A o \in B : EndsHold(order[o], order'[o]),
           \A o \in Orders \ B : SameHold(order[o], order'[o])
    PROVE  LET G == {<<o, order[o].gen>> : o \in B}
           IN  /\ \A h \in G \cap HoldIds : Phases(order)[h] = "held"
               /\ Phases(order') =
                      [h \in HoldIds |-> IF h \in G THEN "ended" ELSE Phases(order)[h]]
<1> DEFINE G == {<<o, order[o].gen>> : o \in B}
<1>1. ASSUME NEW h \in HoldIds
      PROVE  /\ h \in G => Phases(order)[h] = "held"
             /\ PhaseOf(order'[h[1]], h[2]) = IF h \in G THEN "ended" ELSE Phases(order)[h]
  <2>1. h[1] \in Orders /\ h[2] \in Nat /\ h = <<h[1], h[2]>>
    BY SeatPurchaseAssumption DEF HoldIds
  <2>2. h \in G <=> h[1] \in B /\ h[2] = order[h[1]].gen
    BY <2>1
  <2>3. Phases(order)[h] = PhaseOf(order[h[1]], h[2])
    BY DEF Phases
  <2>4. order[h[1]] \in SeatOrder /\ order'[h[1]] \in SeatOrder
    BY <2>1
  <2> HIDE DEF G
  <2>5. CASE h[1] \in B
    <3>1. EndsHold(order[h[1]], order'[h[1]])
      BY <2>5
    <3>2. /\ PhaseOf(order[h[1]], order[h[1]].gen) = "held"
          /\ PhaseOf(order'[h[1]], h[2]) =
                 IF h[2] = order[h[1]].gen THEN "ended" ELSE PhaseOf(order[h[1]], h[2])
      BY <2>1, <2>4, <3>1, PhaseMoves
    <3> QED
      BY <2>2, <2>3, <2>5, <3>2
  <2>6. CASE h[1] \notin B
    <3>1. SameHold(order[h[1]], order'[h[1]])
      BY <2>1, <2>6
    <3>2. PhaseOf(order'[h[1]], h[2]) = PhaseOf(order[h[1]], h[2])
      BY <2>1, <2>4, <3>1, PhaseMoves
    <3> QED
      BY <2>2, <2>3, <2>6, <3>2
  <2> QED
    BY <2>5, <2>6
<1> HIDE DEF G
<1>2. Phases(order') = [h \in HoldIds |-> IF h \in G THEN "ended" ELSE Phases(order)[h]]
  <2>1. Phases(order') = [h \in HoldIds |-> PhaseOf(order'[h[1]], h[2])]
    BY DEF Phases
  <2> QED
    BY <1>1, <2>1
<1> QED
  BY <1>1, <1>2 DEF G

\* One order that takes a new hold.
LEMMA PhasesTake ==
    ASSUME order \in [Orders -> SeatOrder], order' \in [Orders -> SeatOrder],
           NEW o \in Orders, TakesHold(order[o], order'[o]), OthersStand(o),
           order'[o].gen \in 0..MaxRenewals
    PROVE  LET g == <<o, order'[o].gen>>
           IN  /\ g \in HoldIds /\ Phases(order)[g] = "unplaced"
               /\ Phases(order') = [Phases(order) EXCEPT ![g] = "held"]
<1> DEFINE g == <<o, order'[o].gen>>
<1>1. g \in HoldIds /\ g[1] = o /\ g[2] = order'[o].gen /\ order'[o].gen \in Nat
  BY SeatPurchaseAssumption DEF HoldIds
<1>2. order[o] \in SeatOrder /\ order'[o] \in SeatOrder
  OBVIOUS
<1>3. PhaseOf(order[o], order'[o].gen) = "unplaced"
  BY <1>1, <1>2, PhaseMoves
<1>4. Phases(order)[g] = "unplaced"
  BY <1>1, <1>3 DEF Phases
<1>5. ASSUME NEW h \in HoldIds
      PROVE  PhaseOf(order'[h[1]], h[2]) = IF h = g THEN "held" ELSE Phases(order)[h]
  <2>1. h[1] \in Orders /\ h[2] \in Nat /\ h = <<h[1], h[2]>>
    BY SeatPurchaseAssumption DEF HoldIds
  <2>2. h = g <=> h[1] = o /\ h[2] = order'[o].gen
    BY <2>1
  <2>3. Phases(order)[h] = PhaseOf(order[h[1]], h[2])
    BY DEF Phases
  <2> HIDE DEF g
  <2>4. CASE h[1] = o
    <3>1. PhaseOf(order'[o], h[2]) = IF h[2] = order'[o].gen THEN "held" ELSE PhaseOf(order[o], h[2])
      BY <1>2, <2>1, PhaseMoves
    <3> QED
      BY <2>2, <2>3, <2>4, <3>1
  <2>5. CASE h[1] # o
    <3>1. order'[h[1]] = order[h[1]]
      BY <2>1, <2>5 DEF OthersStand
    <3> QED
      BY <2>2, <2>3, <2>5, <3>1
  <2> QED
    BY <2>4, <2>5
<1> HIDE DEF g
<1>6. Phases(order') = [Phases(order) EXCEPT ![g] = "held"]
  <2>1. /\ Phases(order') = [h \in HoldIds |-> PhaseOf(order'[h[1]], h[2])]
        /\ Phases(order) = [h \in HoldIds |-> Phases(order)[h]]
    BY DEF Phases
  <2> QED
    BY <1>1, <1>5, <2>1
<1> QED
  BY <1>1, <1>4, <1>6 DEF g

\* The holds of B given back, with as many seats as they had.
LEMMA HoldsGivenBack ==
    ASSUME PurchaseInv, OrdersStep, NEW B \in SUBSET Orders,
           \A o \in B : EndsHold(order[o], order'[o]),
           \A o \in Orders \ B : SameHold(order[o], order'[o]),
           Counts(sales, sales', Cardinality(SeatsOf(B)), 0)
    PROVE  Inventory!InventoryNext
<1> DEFINE G == {<<o, order[o].gen>> : o \in B}
<1>1. order \in [Orders -> SeatOrder] /\ order' \in [Orders -> SeatOrder]
  BY DEF PurchaseInv, TypeOK, OrdersStep
<1>2. G \subseteq HoldIds /\ Cardinality(HoldSeats(G)) = Cardinality(SeatsOf(B))
  BY SeatsOfHolds
<1>3. /\ \A h \in G \cap HoldIds : Phases(order)[h] = "held"
      /\ Phases(order') = [h \in HoldIds |-> IF h \in G THEN "ended" ELSE Phases(order)[h]]
  BY <1>1, PhasesEnd
<1> HIDE DEF G
<1>4. sales.seatsSold \in Nat
  BY DEF PurchaseInv, TypeOK, DateSalesRow
<1>5. /\ sales'.capacityTotal = sales.capacityTotal
      /\ sales'.seatsAvailable = sales.seatsAvailable + Cardinality(HoldSeats(G))
      /\ sales'.seatsSold = sales.seatsSold
  BY <1>2, <1>4 DEF Counts
<1>6. \A h \in G : Phases(order)[h] = "held"
  BY <1>2, <1>3
<1> QED
  BY <1>2, <1>3, <1>5, <1>6, InventoryGivesBack

\* The seats' side of a step is a step of the inventory.
LEMMA SeatsStepRefines ==
    ASSUME PurchaseInv, PurchaseStep, SeatsStep
    PROVE  Inventory!InventoryNext \/ UNCHANGED Inventory!inventoryVars
<1>1. /\ order \in [Orders -> SeatOrder] /\ order' \in [Orders -> SeatOrder] /\ OrdersStep
      /\ sales.capacityTotal \in Nat /\ sales.seatsAvailable \in Nat /\ sales.seatsSold \in Nat
      /\ sales \in DateSalesRow /\ Capacity \in Nat /\ Capacity > 0
  BY SeatPurchaseAssumption DEF PurchaseInv, PurchaseStep, OrdersStep, TypeOK, DateSalesRow
<1>2. ASSUME NEW o \in Orders, SameHold(order[o], order'[o]), OthersStand(o)
      PROVE  Phases(order') = Phases(order)
  <2>1. \A p \in Orders : SameHold(order[p], order'[p])
    BY <1>2 DEF OthersStand, SameHold
  <2> QED
    BY <1>1, <2>1, PhasesStand
<1>3. CASE order' = order /\ Counts(sales, sales', 0, 0)
  <2>1. Phases(order') = Phases(order)
    BY <1>3
  <2>2. /\ sales'.capacityTotal = sales.capacityTotal
        /\ sales'.seatsAvailable = sales.seatsAvailable /\ sales'.seatsSold = sales.seatsSold
    BY <1>1, <1>3 DEF Counts
  <2> QED
    BY <2>1, <2>2, InventoryUnchanged
<1>4. CASE /\ order' = order
           /\ Counts([sales EXCEPT !.capacityTotal = @ + Capacity], sales', Capacity, 0)
  <2> DEFINE s == [sales EXCEPT !.capacityTotal = sales.capacityTotal + Capacity]
  <2>1. Phases(order') = Phases(order)
    BY <1>4
  <2>2. /\ s.capacityTotal = sales.capacityTotal + Capacity
        /\ s.seatsAvailable = sales.seatsAvailable /\ s.seatsSold = sales.seatsSold
    BY <1>1 DEF DateSalesRow
  <2>3. /\ sales'.capacityTotal = sales.capacityTotal + Capacity
        /\ sales'.seatsAvailable = sales.seatsAvailable + Capacity
        /\ sales'.seatsSold = sales.seatsSold
    <3>1. Counts(s, sales', Capacity, 0)
      BY <1>4
    <3> HIDE DEF s
    <3> QED
      BY <1>1, <2>2, <3>1 DEF Counts
  <2>4. /\ sales'.capacityTotal \in Nat /\ sales'.capacityTotal > sales.capacityTotal
        /\ sales'.seatsAvailable
               = sales.seatsAvailable + (sales'.capacityTotal - sales.capacityTotal)
    BY <1>1, <2>3
  <2> QED
    BY <2>1, <2>3, <2>4, InventoryWidens
<1>5. ASSUME NEW o \in Orders, OthersStand(o),
             SeatsMove(order[o], order'[o], sales, sales', Quantity[o])
      PROVE  Inventory!InventoryNext \/ UNCHANGED Inventory!inventoryVars
  <2> DEFINE x == order[o]
             q == Quantity[o]
             h == <<o, x.gen>>
  <2>1. x \in SeatOrder /\ x.gen \in Nat /\ q \in Nat /\ OrderOK(x)
    BY InvPlaced DEF SeatOrder
  <2>2. h \in HoldIds /\ Quantities[h] = q
    <3>1. x.gen \in 0..MaxRenewals
      BY <2>1, SeatPurchaseAssumption DEF OrderOK
    <3> QED
      BY <3>1 DEF HoldIds, Quantities
  <2>3. CASE SameHold(x, order'[o]) /\ Counts(sales, sales', 0, 0)
    <3>1. Phases(order') = Phases(order)
      BY <1>2, <1>5, <2>3
    <3>2. /\ sales'.capacityTotal = sales.capacityTotal
          /\ sales'.seatsAvailable = sales.seatsAvailable /\ sales'.seatsSold = sales.seatsSold
      BY <1>1, <2>3 DEF Counts
    <3> QED
      BY <3>1, <3>2, InventoryUnchanged
  <2>4. CASE SameHold(x, order'[o]) /\ sales.seatsAvailable >= q /\ Counts(sales, sales', 0 - q, q)
    <3>1. Phases(order') = Phases(order)
      BY <1>2, <1>5, <2>4
    <3>2. /\ sales'.capacityTotal = sales.capacityTotal
          /\ sales'.seatsAvailable = sales.seatsAvailable - q
          /\ sales'.seatsSold = sales.seatsSold + q
      BY <1>1, <2>1, <2>4 DEF Counts
    <3> HIDE DEF h, q
    <3> QED
      BY <2>2, <2>4, <3>1, <3>2, InventorySellsFree
  <2>5. CASE EndsHold(x, order'[o])
    <3>1. \A p \in Orders \ {o} : SameHold(order[p], order'[p])
      BY <1>5 DEF OthersStand, SameHold
    <3>2. CASE Counts(sales, sales', q, 0)
      <4>1. Cardinality(SeatsOf({o})) = q
        BY SeatsOfOneOrder
      <4>2. Counts(sales, sales', Cardinality(SeatsOf({o})), 0)
        BY <3>2, <4>1
      <4>3. \A p \in {o} : EndsHold(order[p], order'[p])
        BY <2>5
      <4>4. {o} \in SUBSET Orders
        OBVIOUS
      <4> QED
        BY <1>1, <3>1, <4>2, <4>3, <4>4, HoldsGivenBack
    <3>3. CASE Counts(sales, sales', 0, q)
      <4> DEFINE G == {<<p, order[p].gen>> : p \in {o}}
      <4>1. G = {h}
        OBVIOUS
      <4>2. /\ \A g \in G \cap HoldIds : Phases(order)[g] = "held"
            /\ Phases(order') =
                   [g \in HoldIds |-> IF g \in G THEN "ended" ELSE Phases(order)[g]]
        BY <1>1, <2>5, <3>1, PhasesEnd
      <4> HIDE DEF G, h, q
      <4>3. Phases(order)[h] = "held"
        BY <2>2, <4>1, <4>2
      <4>4. Phases(order) = [g \in HoldIds |-> Phases(order)[g]]
        BY DEF Phases
      <4>5. Phases(order') = [Phases(order) EXCEPT ![h] = "ended"]
        BY <2>2, <4>1, <4>2, <4>4
      <4>6. /\ sales'.capacityTotal = sales.capacityTotal
            /\ sales'.seatsAvailable = sales.seatsAvailable
            /\ sales'.seatsSold = sales.seatsSold + q
        BY <1>1, <3>3 DEF Counts
      <4> QED
        BY <2>2, <4>3, <4>5, <4>6, InventorySells
    <3> QED
      BY <1>5, <2>5, <3>2, <3>3 DEF SeatsMove, SameHold, EndsHold
  <2> QED
    BY <1>5, <2>3, <2>4, <2>5 DEF SeatsMove
<1>6. ASSUME NEW o \in Orders, TakesHold(order[o], order'[o]), OthersStand(o),
             sales.seatsAvailable >= Quantity[o],
             Counts(sales, sales', 0 - Quantity[o], 0)
      PROVE  Inventory!InventoryNext
  <2> DEFINE g == <<o, order'[o].gen>>
  <2>1. order'[o].gen \in 0..MaxRenewals
    <3>1. OrderOK(order'[o]) /\ order'[o] \in SeatOrder
      BY <1>1, InvPlaced DEF OrdersStep, MovesTo
    <3> QED
      BY <3>1, SeatPurchaseAssumption DEF OrderOK, SeatOrder
  <2>2. /\ g \in HoldIds /\ Phases(order)[g] = "unplaced"
        /\ Phases(order') = [Phases(order) EXCEPT ![g] = "held"]
    BY <1>1, <1>6, <2>1, PhasesTake
  <2>3. Quantities[g] = Quantity[o] /\ Quantity[o] \in Nat
    BY <2>2, InvPlaced DEF Quantities
  <2> HIDE DEF g
  <2>4. /\ sales'.capacityTotal = sales.capacityTotal
        /\ sales'.seatsAvailable = sales.seatsAvailable - Quantities[g]
        /\ sales'.seatsSold = sales.seatsSold
    BY <1>1, <1>6, <2>3 DEF Counts
  <2> QED
    BY <1>6, <2>2, <2>3, <2>4, InventoryPlaces
<1>7. ASSUME NEW B \in SUBSET Orders,
             \A o \in B : EndsHold(order[o], order'[o]),
             \A o \in Orders \ B : SameHold(order[o], order'[o]),
             Counts(sales, sales', Cardinality(SeatsOf(B)), 0)
      PROVE  Inventory!InventoryNext
  BY <1>1, <1>7, HoldsGivenBack
<1> QED
  BY <1>3, <1>4, <1>5, <1>6, <1>7 DEF SeatsStep

\* Every transaction of a purchase, a webhook, the sweeper or the studio is one step of
\* the inventory, or none: no seat is lost, sold twice or given back twice.
THEOREM PurchasesImplementInventory == Spec => ImplementsInventory
<1>1. Init => Inventory!InventoryInit
  <2> SUFFICES ASSUME Init
               PROVE  Inventory!InventoryInit
    OBVIOUS
  <2>1. /\ sales.capacityTotal = 0 /\ sales.seatsAvailable = 0 /\ sales.seatsSold = 0
    BY DEF Init, OpenedRow
  <2>2. ASSUME NEW h \in HoldIds
        PROVE  PhaseOf(order[h[1]], h[2]) = "unplaced"
    <3>1. order[h[1]] = NoOrder
      BY DEF HoldIds, Init
    <3>2. NoOrder.hold = "none"
      BY DEF NoOrder
    <3> QED
      BY <3>1, <3>2 DEF PhaseOf
  <2>3. Phases(order) = [h \in HoldIds |-> "unplaced"]
    BY <2>2 DEF Phases
  <2> QED
    BY <2>1, <2>3 DEF Inventory!InventoryInit, Phases, PhaseOf, HoldIds
<1>2. PurchaseInv /\ [Next]_vars => Inventory!InventoryNext \/ UNCHANGED Inventory!inventoryVars
  <2>1. ASSUME PurchaseInv, Next
        PROVE  Inventory!InventoryNext \/ UNCHANGED Inventory!inventoryVars
    BY <2>1, NextIsStep, SeatsStepRefines
  <2>2. ASSUME UNCHANGED vars
        PROVE  UNCHANGED Inventory!inventoryVars
    <3>1. order' = order /\ sales' = sales
      BY <2>2 DEF vars
    <3>2. Phases(order') = Phases(order)
      BY <3>1
    <3> QED
      BY <3>1, <3>2, InventoryUnchanged
  <2> QED
    BY <2>1, <2>2
<1> QED
  BY <1>1, <1>2, PurchaseInvariant, PTL DEF Spec, ImplementsInventory, Inventory!InventorySpec
=============================================================================
