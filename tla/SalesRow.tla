------------------------------ MODULE SalesRow ------------------------------
(***************************************************************************)
(* One row of ticketing's date_sales table, and every statement and        *)
(* aggregate decision that moves it: the SQL of                            *)
(* date-sales.typeorm-repository.ts and the methods of DateSales.  The     *)
(* module has no variables: an operator takes the row as it stands when    *)
(* the statement runs under the row's lock and gives the row after it, so  *)
(* the state machines that share the table share its statements.           *)
(*                                                                         *)
(* Instants are natural numbers and SQL's NULL is the constant NULL, which *)
(* every comparison rules out first, as a comparison with NULL is never    *)
(* true in SQL.  pricesLocked and salesClosed stand for prices_locked_at   *)
(* and sales_closed_at being set: nothing reads more of them than that.    *)
(***************************************************************************)
EXTENDS Integers

CONSTANT NULL

ASSUME NullAssumption == NULL \notin Int

DateOutcome == {"postponed", "cancelled", "interrupted"}

OUTCOMES_CLOSING_SALES == {"cancelled", "interrupted"}

Instant == Nat

\* The columns that decide what may be sold; the prices, the provision and the
\* version the studio's commands name are not kept.
DateSalesRow ==
    [capacityTotal     : Nat,
     seatsAvailable    : Nat,
     seatsSold         : Nat,
     waitlistCount     : Nat,
     priorityPoolSeats : Nat,
     priorityUntil     : Instant \cup {NULL},
     pricesLocked      : BOOLEAN,
     salesClosed       : BOOLEAN,
     salesEndAt        : Instant \cup {NULL},
     scheduleStatedAt  : Instant \cup {NULL},
     outcome           : DateOutcome \cup {NULL},
     outcomeStatedAt   : Instant \cup {NULL}]

\* DateSales.open: empty, capacity the studio's, the start catalog's.
OpenedRow ==
    [capacityTotal     |-> 0,
     seatsAvailable    |-> 0,
     seatsSold         |-> 0,
     waitlistCount     |-> 0,
     priorityPoolSeats |-> 0,
     priorityUntil     |-> NULL,
     pricesLocked      |-> FALSE,
     salesClosed       |-> FALSE,
     salesEndAt        |-> NULL,
     scheduleStatedAt  |-> NULL,
     outcome           |-> NULL,
     outcomeStatedAt   |-> NULL]

-----------------------------------------------------------------------------
(***************************************************************************)
(* What the row says at an instant.                                        *)
(***************************************************************************)

isOnSale(s) == s.pricesLocked /\ ~s.salesClosed

hasEndedBy(s, t) == s.salesEndAt # NULL /\ t >= s.salesEndAt

\* The WHERE clause's own cutoff; it lets a sale with no start through.
beforeSalesEnd(s, t) == s.salesEndAt # NULL => s.salesEndAt > t

isPriorityWindowOpen(s, t) == s.priorityUntil # NULL /\ s.priorityUntil > t

openPoolAt(s, t) ==
    IF isPriorityWindowOpen(s, t) THEN s.priorityPoolSeats ELSE 0

LEAST(m, n) == IF m <= n THEN m ELSE n

\* Seats drawn from the pool by a statement taking q: none when the buyer is not
\* in the window (takeSeats), the open pool's first when they are.
poolShare(s, q, t, fromPool) ==
    IF fromPool THEN LEAST(openPoolAt(s, t), q) ELSE 0

-----------------------------------------------------------------------------
(***************************************************************************)
(* The counters' statements.  A Can operator is a statement's WHERE: with  *)
(* it false the statement affects no row and answers false.                *)
(***************************************************************************)

\* Variant: the WHERE forgets the seats left.
CanTakeSeatsUncounted(s, q, t, fromPool) == isOnSale(s) /\ beforeSalesEnd(s, t)

CanTakeSeats(s, q, t, fromPool) ==
    /\ isOnSale(s)
    /\ s.seatsAvailable + (IF fromPool THEN openPoolAt(s, t) ELSE 0) >= q
    /\ beforeSalesEnd(s, t)

\* takeSeats, and takeSeatsFromPool when fromPool.
takeSeats(s, q, t, fromPool) ==
    LET share == poolShare(s, q, t, fromPool)
    IN  [s EXCEPT !.priorityPoolSeats = @ - share,
                  !.seatsAvailable = @ - (q - share)]

sellHeldSeats(s, q) == [s EXCEPT !.seatsSold = @ + q]

\* Variant: the public counter is given the pool's part too.
returnHeldSeatsTwice(s, q, pool, t) ==
    LET toPool == IF isPriorityWindowOpen(s, t) THEN pool ELSE 0
    IN  [s EXCEPT !.priorityPoolSeats = @ + toPool, !.seatsAvailable = @ + q]

\* Variant: back to the pool whether or not a window is open.
returnHeldSeatsToPool(s, q, pool, t) ==
    [s EXCEPT !.priorityPoolSeats = @ + pool, !.seatsAvailable = @ + q - pool]

\* A pool hold's seats go back to the pool while a window is open, else on
\* public sale.
returnHeldSeats(s, q, pool, t) ==
    LET toPool == IF isPriorityWindowOpen(s, t) THEN pool ELSE 0
    IN  [s EXCEPT !.priorityPoolSeats = @ + toPool,
                  !.seatsAvailable = @ + q - toPool]

CanReleaseSoldSeats(s, q) == s.seatsSold >= q /\ s.outcome # "cancelled"

releaseSoldSeats(s, q) ==
    [s EXCEPT !.seatsAvailable = @ + q, !.seatsSold = @ - q]

\* Its WHERE is CanTakeSeats.
takeAndSellSeats(s, q, t, fromPool) ==
    sellHeldSeats(takeSeats(s, q, t, fromPool), q)

moveWaitlistCount(s, by) == [s EXCEPT !.waitlistCount = @ + by]

\* Variant: the pool is emptied and not put on sale.
endPriorityWindowLosingPool(s, entriesEnded) ==
    [s EXCEPT !.priorityPoolSeats = 0, !.priorityUntil = NULL,
              !.waitlistCount = @ - entriesEnded]

\* Under the due window's row lock, which the caller holds.
endPriorityWindow(s, entriesEnded) ==
    [s EXCEPT !.seatsAvailable = @ + s.priorityPoolSeats,
              !.priorityPoolSeats = 0,
              !.priorityUntil = NULL,
              !.waitlistCount = @ - entriesEnded]

\* Its WHERE only spares a rewrite that would change nothing.
closeWaitlist(s) ==
    [s EXCEPT !.seatsAvailable = @ + s.priorityPoolSeats,
              !.priorityPoolSeats = 0,
              !.priorityUntil = NULL,
              !.waitlistCount = 0]

-----------------------------------------------------------------------------
(***************************************************************************)
(* The aggregate's decisions, saved under the row's lock: save writes the  *)
(* counters as deltas from the locked read, so it writes these rows.       *)
(***************************************************************************)

CanOpenCapacityTier(s, n) == n > 0 /\ ~(s.salesClosed /\ s.outcome # NULL)

\* Notifying a list with someone on it, the tier is the pool and the window is
\* opened or extended; otherwise the seats go on public sale.
NotifiesWaitlist(s, notify) == notify /\ s.waitlistCount > 0

openCapacityTier(s, n, notify, until) ==
    IF NotifiesWaitlist(s, notify)
    THEN [s EXCEPT !.capacityTotal = @ + n,
                   !.priorityPoolSeats = @ + n,
                   !.priorityUntil = until]
    ELSE [s EXCEPT !.capacityTotal = @ + n,
                   !.seatsAvailable = @ + n]

lockPrices(s) == [s EXCEPT !.pricesLocked = TRUE]

\* An older fact never overwrites a newer one; one stated at the same instant
\* applies again.
isStale(statedAt, lastStatedAt) ==
    lastStatedAt # NULL /\ statedAt < lastStatedAt

closedByTime(s) == s.salesClosed /\ s.outcome \notin OUTCOMES_CLOSING_SALES

recordSchedule(s, salesEndAt, statedAt, t) ==
    LET reopens == closedByTime(s) /\ t < salesEndAt
    IN  [s EXCEPT !.salesEndAt = salesEndAt,
                  !.salesClosed = @ /\ ~reopens,
                  !.scheduleStatedAt = statedAt]

CanEndSales(s, t) == isOnSale(s) /\ hasEndedBy(s, t)

endSales(s) == [s EXCEPT !.salesClosed = TRUE]

recordOutcome(s, outcome, statedAt) ==
    [s EXCEPT !.outcome = outcome,
              !.outcomeStatedAt = statedAt,
              !.salesClosed = @ \/ outcome \in OUTCOMES_CLOSING_SALES]

=============================================================================
