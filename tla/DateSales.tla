------------------------------ MODULE DateSales ------------------------------
(***************************************************************************)
(* One date's seats: its date_sales row, the holds that carry seats until  *)
(* they are paid for, and the waiting list whose members buy from the      *)
(* priority pool.  Each action is one transaction of ticketing, or one     *)
(* half of it where the code reads the row unlocked and acts on it later:  *)
(*                                                                         *)
(*   - a purchase reads the date and the buyer's waiting-list entry        *)
(*     unlocked (BeginTake), and its conditional statement runs last       *)
(*     (TakeHold, RefuseHold; RetakeSeats, LoseSeats for a payment         *)
(*     confirmed once its hold was gone);                                  *)
(*   - every other transaction reads its instant before it reaches the     *)
(*     row's lock, so its statement runs with an instant up to Lag old.    *)
(*                                                                         *)
(* How an order decides to pay, fail or resume is SeatPurchase's subject:  *)
(* here a purchase is its hold and the statement it is about to run.       *)
(***************************************************************************)
EXTENDS SalesRow, FiniteSets

CONSTANTS
    Holds,          \* the holds ever placed on the date, one per purchase
    Accounts,
    Buyer,          \* the account each hold is bought for, NULL for a purchase with none
    Quantity,       \* the seats each hold asks for
    TierSizes,      \* the capacities a tier may add
    MaxCapacity,    \* bound: no tier widens the capacity past it
    HoldTtl,        \* core's checkoutIntentExpiry, in ticks
    PriorityTtl,    \* core's priorityUntilOf, in ticks
    SalesEnds,      \* fact k of catalog's schedule puts the end of sales at SalesEnds[k]
    OutcomeFacts,   \* outcome k catalog declares; a closing one is its last
    Lag,            \* bound: how old a transaction's instant may be at its statement
    MaxTime         \* bound: the clock's last instant

ASSUME DateSalesAssumption ==
    /\ IsFiniteSet(Holds)
    /\ IsFiniteSet(Accounts)
    /\ Buyer \in [Holds -> Accounts \cup {NULL}] /\ NULL \notin Accounts
    /\ Quantity \in [Holds -> Nat \ {0}]
    /\ TierSizes \subseteq Nat \ {0}
    /\ {MaxCapacity, HoldTtl, PriorityTtl, Lag, MaxTime} \subseteq Nat
    /\ HoldTtl > 0 /\ PriorityTtl > 0
    /\ DOMAIN SalesEnds \subseteq Nat
    /\ \A k \in DOMAIN SalesEnds : SalesEnds[k] \in Instant
    /\ DOMAIN OutcomeFacts \subseteq Nat
    /\ \A k \in DOMAIN OutcomeFacts : OutcomeFacts[k] \in DateOutcome

VARIABLES
    now,        \* the clock every process reads
    sales,      \* the date's row
    hold,       \* the seat_hold rows
    take,       \* each purchase's transaction at the row: what it read, and where it stands
    entry,      \* the waitlist_entry rows
    paidAt      \* the last instant an order of the account on the date was paid

vars == <<now, sales, hold, take, entry, paidAt>>

SeatHoldState == {"none", "active", "consumed", "released", "expired"}

\* Terminal once it leaves "active"; "none" is a hold not placed.  The pool share and
\* the expiry are read while it is active alone, so a hold that left forgets them.
SeatHold == [state : SeatHoldState, poolSeats : Nat, expiresAt : Instant]

\* "idle" before the purchase and after a refusal, "taking" and "retaking" between
\* the unlocked reads and the statement, "placed" while the hold's payment is
\* awaited, "settled" once a payment was sold its seats or owed its money back.
Take == [step : {"idle", "taking", "placed", "retaking", "settled"},
         at : Instant, fromPool : BOOLEAN]

SpentHold(state) == [state |-> state, poolSeats |-> 0, expiresAt |-> 0]

EndedTake(step) == [step |-> step, at |-> 0, fromPool |-> FALSE]

WaitlistEntryState ==
    {"none", "waiting", "notified", "left", "lapsed", "converted", "closed"}

\* notified_at is read while the entry is notified alone, so it is forgotten after.
WaitlistEntry == [state : WaitlistEntryState, notifiedAt : Instant \cup {NULL}]

TypeOK ==
    /\ now \in Instant
    /\ sales \in DateSalesRow
    /\ hold \in [Holds -> SeatHold]
    /\ take \in [Holds -> Take]
    /\ entry \in [Accounts -> WaitlistEntry]
    /\ paidAt \in [Accounts -> Instant \cup {NULL}]

Init ==
    /\ now = 0
    /\ sales = OpenedRow
    /\ hold = [h \in Holds |-> SpentHold("none")]
    /\ take = [h \in Holds |-> EndedTake("idle")]
    /\ entry = [a \in Accounts |-> [state |-> "none", notifiedAt |-> NULL]]
    /\ paidAt = [a \in Accounts |-> NULL]

-----------------------------------------------------------------------------
(***************************************************************************)
(* The seats a set of holds carries, <<h, i>> being the i-th seat of h:    *)
(* their number is the sum of the holds' quantities.                       *)
(***************************************************************************)

Seats(H) == UNION {{h} \X (1..Quantity[h]) : h \in H}

PoolSeats(H) == UNION {{h} \X (1..hold[h].poolSeats) : h \in H}

ActiveHolds == {h \in Holds : hold[h].state = "active"}

\* An instant a transaction may have read before its statement runs.
CommandInstants == {t \in 0..now : now <= t + Lag}

OnList(a) == entry[a].state \in {"waiting", "notified"}

-----------------------------------------------------------------------------
(***************************************************************************)
(* Catalog's facts, consumed from Kafka in any order and at any delay.     *)
(* Fact k of a kind is stated at instant k; a message claimed before is    *)
(* skipped and a stale one superseded, so a fact that changes the row is   *)
(* newer than the last applied.                                            *)
(***************************************************************************)

LockPrices ==
    /\ ~sales.pricesLocked
    /\ sales' = lockPrices(sales)
    /\ UNCHANGED <<now, hold, take, entry, paidAt>>

RecordSchedule(k) ==
    /\ ~isStale(k, sales.scheduleStatedAt) /\ sales.scheduleStatedAt # k
    /\ sales' = recordSchedule(sales, SalesEnds[k], k, now)
    /\ UNCHANGED <<now, hold, take, entry, paidAt>>

RecordOutcome(k) ==
    /\ ~isStale(k, sales.outcomeStatedAt) /\ sales.outcomeStatedAt # k
    /\ sales' = recordOutcome(sales, OutcomeFacts[k], k)
    /\ UNCHANGED <<now, hold, take, entry, paidAt>>

\* The sales-closing sweeper, at the instant it read before its pass.
CloseEndedSales(t) ==
    /\ CanEndSales(sales, t)
    /\ sales' = endSales(sales)
    /\ UNCHANGED <<now, hold, take, entry, paidAt>>

-----------------------------------------------------------------------------
(***************************************************************************)
(* The priority window.                                                    *)
(***************************************************************************)

\* Variant: only a window with seats left in its pool is looked for.
WindowDueWithPool(t) ==
    sales.priorityUntil # NULL /\ sales.priorityUntil <= t /\ sales.priorityPoolSeats > 0

WindowDue(t) == sales.priorityUntil # NULL /\ sales.priorityUntil <= t

\* CONVERT_NOTIFIED_ENTRIES: an order paid since the account was told.
BoughtSinceNotified(a) ==
    paidAt[a] # NULL /\ paidAt[a] >= entry[a].notifiedAt

endNotified(otherwise) ==
    [a \in Accounts |->
        IF entry[a].state # "notified" THEN entry[a]
        ELSE [state |-> IF BoughtSinceNotified(a) THEN "converted" ELSE otherwise,
              notifiedAt |-> NULL]]

Notified == {a \in Accounts : entry[a].state = "notified"}

\* Entries of a date a cancellation or an interruption ended close, others lapse.
EndedEntries ==
    endNotified(IF sales.outcome \in OUTCOMES_CLOSING_SALES THEN "closed" ELSE "lapsed")

\* Variant: the count drops by everyone on the list.
EndedWindowForAll ==
    endPriorityWindow(sales, Cardinality({a \in Accounts : OnList(a)}))

EndedWindow == endPriorityWindow(sales, Cardinality(Notified))

EndPriorityWindows(t) ==
    /\ WindowDue(t)
    /\ entry' = EndedEntries
    /\ sales' = EndedWindow
    /\ UNCHANGED <<now, hold, take, paidAt>>

\* notifyAll: every entry on the list, one already notified keeping its instant.
notifyAll(entries, t) ==
    [a \in Accounts |->
        IF entries[a].state = "waiting"
        THEN [state |-> "notified", notifiedAt |-> t]
        ELSE entries[a]]

\* A window past its end is ended first, in the same transaction.
OpenCapacityTier(n, notify, t) ==
    LET row     == IF WindowDue(t) THEN EndedWindow ELSE sales
        entries == IF WindowDue(t) THEN EndedEntries ELSE entry
    IN  /\ CanOpenCapacityTier(row, n)
        /\ row.capacityTotal + n <= MaxCapacity
        /\ t + PriorityTtl <= MaxTime
        /\ sales' = openCapacityTier(row, n, notify, t + PriorityTtl)
        /\ entry' = IF NotifiesWaitlist(row, notify)
                    THEN notifyAll(entries, t) ELSE entries
        /\ UNCHANGED <<now, hold, take, paidAt>>

-----------------------------------------------------------------------------
(***************************************************************************)
(* The waiting list, under the date's row, its instant read under the lock.*)
(***************************************************************************)

\* Core's assertWaitlistJoinable: sold out, not ended, no closing outcome.
assertWaitlistJoinable ==
    /\ sales.seatsAvailable = 0
    /\ ~hasEndedBy(sales, now)
    /\ sales.outcome \notin OUTCOMES_CLOSING_SALES

\* Core's waitlistEntryMayMove: "closed" never moves.
JoinWaitlist(a) ==
    /\ sales.pricesLocked /\ sales.salesEndAt # NULL
    /\ ~OnList(a) /\ entry[a].state # "closed"
    /\ assertWaitlistJoinable
    /\ entry' = [entry EXCEPT ![a] =
                    IF isPriorityWindowOpen(sales, now)
                    THEN [state |-> "notified", notifiedAt |-> now]
                    ELSE [state |-> "waiting", notifiedAt |-> NULL]]
    /\ sales' = moveWaitlistCount(sales, 1)
    /\ UNCHANGED <<now, hold, take, paidAt>>

LeaveWaitlist(a) ==
    /\ OnList(a)
    /\ entry' = [entry EXCEPT ![a] = [state |-> "left", notifiedAt |-> NULL]]
    /\ sales' = moveWaitlistCount(sales, -1)
    /\ UNCHANGED <<now, hold, take, paidAt>>

\* Variant: the waiting entries are forgotten.
EndWaitlistNotifiedOnly ==
    /\ sales.outcome \in OUTCOMES_CLOSING_SALES
    /\ entry' = endNotified("closed")
    /\ sales' = closeWaitlist(sales)
    /\ UNCHANGED <<now, hold, take, paidAt>>

\* WaitlistEndingHook, once the closing outcome's settlement row exists, which the
\* outcome's own transaction inserts.  A rerun moves nothing.
EndWaitlist ==
    /\ sales.outcome \in OUTCOMES_CLOSING_SALES
    /\ entry' = [a \in Accounts |->
                    IF entry[a].state = "waiting"
                    THEN [state |-> "closed", notifiedAt |-> NULL]
                    ELSE endNotified("closed")[a]]
    /\ sales' = closeWaitlist(sales)
    /\ UNCHANGED <<now, hold, take, paidAt>>

-----------------------------------------------------------------------------
(***************************************************************************)
(* A purchase's hold.                                                      *)
(***************************************************************************)

drawsOnPriorityPool(a) ==
    /\ a # NULL
    /\ isPriorityWindowOpen(sales, now)
    /\ entry[a].state = "notified"

\* The order's paid_at, which its account's conversion is measured by.
Paid(a, t) == [b \in Accounts |-> IF b = a THEN t ELSE paidAt[b]]

\* Tx A up to its statement: DateSales.holdSeats and the pool, read unlocked.
BeginTake(h) ==
    /\ take[h].step = "idle" /\ hold[h].state = "none"
    /\ isOnSale(sales) /\ ~hasEndedBy(sales, now)
    /\ now + HoldTtl <= MaxTime
    /\ take' = [take EXCEPT ![h] = [step |-> "taking", at |-> now,
                                    fromPool |-> drawsOnPriorityPool(Buyer[h])]]
    /\ UNCHANGED <<now, sales, hold, entry, paidAt>>

\* The statement takes the seats and commits the hold with them.
TakeHold(h) ==
    LET t == take[h].at
        pool == take[h].fromPool
    IN  /\ take[h].step = "taking"
        /\ CanTakeSeats(sales, Quantity[h], t, pool)
        /\ sales' = takeSeats(sales, Quantity[h], t, pool)
        /\ hold' = [hold EXCEPT ![h] =
                       [state |-> "active",
                        poolSeats |-> poolShare(sales, Quantity[h], t, pool),
                        expiresAt |-> t + HoldTtl]]
        /\ take' = [take EXCEPT ![h] = EndedTake("placed")]
        /\ UNCHANGED <<now, entry, paidAt>>

\* None left, or off sale since the read: the transaction rolls back, sold out.
RefuseHold(h) ==
    /\ take[h].step = "taking"
    /\ ~CanTakeSeats(sales, Quantity[h], take[h].at, take[h].fromPool)
    /\ take' = [take EXCEPT ![h] = EndedTake("idle")]
    /\ UNCHANGED <<now, sales, hold, entry, paidAt>>

\* Expired (the sweeper's set-based pass): each hold once, one statement for the date.
ExpireDueHolds(B, t) ==
    /\ B # {}
    /\ \A h \in B : hold[h].state = "active" /\ hold[h].expiresAt <= t
    /\ hold' = [h \in Holds |->
                   IF h \in B THEN SpentHold("expired") ELSE hold[h]]
    /\ sales' = returnHeldSeats(sales, Cardinality(Seats(B)), Cardinality(PoolSeats(B)), t)
    /\ UNCHANGED <<now, take, entry, paidAt>>

\* Released: the provider did not answer, or refused the payment, or a payment was
\* confirmed on a date already cancelled (and is then owed back).
ReleaseHold(h, settles, t) ==
    /\ hold[h].state = "active"
    /\ settles => sales.outcome = "cancelled"
    /\ hold' = [hold EXCEPT ![h] = SpentHold("released")]
    /\ take' = IF settles THEN [take EXCEPT ![h] = EndedTake("settled")] ELSE take
    /\ sales' = returnHeldSeats(sales, Quantity[h], hold[h].poolSeats, t)
    /\ UNCHANGED <<now, entry, paidAt>>

\* A payment confirmed while its hold is active, whatever its instant, sells the
\* seats.  The outcome is read unlocked before: one committed since is not seen.
ConsumeHold(h, t) ==
    /\ hold[h].state = "active" /\ take[h].step = "placed"
    /\ hold' = [hold EXCEPT ![h] = SpentHold("consumed")]
    /\ take' = [take EXCEPT ![h] = EndedTake("settled")]
    /\ sales' = sellHeldSeats(sales, Quantity[h])
    /\ paidAt' = Paid(Buyer[h], t)
    /\ UNCHANGED <<now, entry>>

\* A payment confirmed once its hold was gone (D-082): the pool read unlocked ...
BeginRetake(h) ==
    /\ hold[h].state \in {"expired", "released"} /\ take[h].step = "placed"
    /\ take' = [take EXCEPT ![h] = [step |-> "retaking", at |-> now,
                                    fromPool |-> drawsOnPriorityPool(Buyer[h])]]
    /\ UNCHANGED <<now, sales, hold, entry, paidAt>>

\* ... then the seats taken again and sold in one statement,
RetakeSeats(h) ==
    LET t == take[h].at
        pool == take[h].fromPool
    IN  /\ take[h].step = "retaking"
        /\ CanTakeSeats(sales, Quantity[h], t, pool)
        /\ sales' = takeAndSellSeats(sales, Quantity[h], t, pool)
        /\ take' = [take EXCEPT ![h] = EndedTake("settled")]
        /\ paidAt' = Paid(Buyer[h], t)
        /\ UNCHANGED <<now, hold, entry>>

\* ... or, none left, the money owed back and nothing sold.
LoseSeats(h) ==
    /\ take[h].step = "retaking"
    /\ ~CanTakeSeats(sales, Quantity[h], take[h].at, take[h].fromPool)
    /\ take' = [take EXCEPT ![h] = EndedTake("settled")]
    /\ UNCHANGED <<now, sales, hold, entry, paidAt>>

\* A sold seat cancelled by its owner goes back on public sale, unless the date was
\* cancelled, whose seats stay sold.
ReleaseSoldSeat ==
    /\ CanReleaseSoldSeats(sales, 1)
    /\ sales' = releaseSoldSeats(sales, 1)
    /\ UNCHANGED <<now, hold, take, entry, paidAt>>

Tick ==
    /\ now < MaxTime
    /\ now' = now + 1
    /\ UNCHANGED <<sales, hold, take, entry, paidAt>>

-----------------------------------------------------------------------------
CatalogFact ==
    \/ LockPrices
    \/ \E k \in DOMAIN SalesEnds : RecordSchedule(k)
    \/ \E k \in DOMAIN OutcomeFacts : RecordOutcome(k)

Studio == \E n \in TierSizes, notify \in BOOLEAN, t \in CommandInstants :
              OpenCapacityTier(n, notify, t)

Waitlist == \E a \in Accounts : JoinWaitlist(a) \/ LeaveWaitlist(a)

Purchase ==
    \E h \in Holds :
        \/ BeginTake(h) \/ TakeHold(h) \/ RefuseHold(h)
        \/ BeginRetake(h) \/ RetakeSeats(h) \/ LoseSeats(h)
        \/ \E t \in CommandInstants :
               \/ ConsumeHold(h, t)
               \/ \E settles \in BOOLEAN : ReleaseHold(h, settles, t)

Sweeper ==
    \E t \in CommandInstants :
        \/ \E B \in SUBSET ActiveHolds : ExpireDueHolds(B, t)
        \/ EndPriorityWindows(t)
        \/ CloseEndedSales(t)

Next ==
    \/ CatalogFact \/ Studio \/ Waitlist \/ Purchase \/ Sweeper
    \/ EndWaitlist \/ ReleaseSoldSeat \/ Tick

Spec == Init /\ [][Next]_vars

\* The sweeper's loops run every second, SKIP LOCKED passing over a row only while
\* another transaction holds it; a transaction in hand ends; the clock advances.
Fairness ==
    /\ WF_vars(Tick)
    /\ WF_vars(\E t \in CommandInstants, B \in SUBSET ActiveHolds : ExpireDueHolds(B, t))
    /\ WF_vars(\E t \in CommandInstants : EndPriorityWindows(t))
    /\ WF_vars(\E t \in CommandInstants : CloseEndedSales(t))
    /\ WF_vars(EndWaitlist)
    /\ \A h \in Holds : WF_vars(TakeHold(h) \/ RefuseHold(h) \/ RetakeSeats(h) \/ LoseSeats(h))

FairSpec == Spec /\ Fairness

-----------------------------------------------------------------------------
(***************************************************************************)
(* What the date's row must never lose.                                    *)
(***************************************************************************)

\* Every seat of the capacity is on public sale, in the pool, held or sold, and in
\* one of them only: no statement, no stale instant and no window's end loses a
\* seat or sells one twice (date-sales.typeorm-repository.ts's counters).
Conservation ==
    sales.seatsAvailable + sales.priorityPoolSeats
        + Cardinality(Seats(ActiveHolds)) + sales.seatsSold = sales.capacityTotal

\* Seats stay in the pool only while a window is to end: a hold given back after the
\* window's end puts none there (the CHECK date_sales_pool_within_window never fires).
PoolWithinWindow ==
    sales.priorityPoolSeats > 0 => sales.priorityUntil # NULL

\* waitlist_count is the entries on the list, though joins, leaves, a window's end
\* and a date's end each move the two by statements of their own.
WaitlistCounted ==
    sales.waitlistCount = Cardinality({a \in Accounts : OnList(a)})

\* An account is told of a window only while there is one to end, which ends its
\* entry: nobody stays notified into no window.
NotifiedWithinWindow ==
    \A a \in Accounts :
        entry[a].state = "notified" =>
            sales.priorityUntil # NULL /\ entry[a].notifiedAt # NULL

\* A hold's pool share is part of what it holds, so giving it back never takes
\* seats off public sale (the CHECK on seat_hold.pool_seats never fires).
PoolShareWithinHold == \A h \in Holds : hold[h].poolSeats <= Quantity[h]

\* Once such a date's list was ended it stays ended: no join, tier or window brings
\* an entry or a pool back.
ListEnded ==
    /\ sales.outcome \in OUTCOMES_CLOSING_SALES
    /\ sales.waitlistCount = 0 /\ sales.priorityUntil = NULL
    /\ \A a \in Accounts : ~OnList(a)

\* The row and the holds implement the abstract inventory.
Inventory == INSTANCE SeatInventory WITH
    capacity <- sales.capacityTotal,
    free     <- sales.seatsAvailable + sales.priorityPoolSeats,
    phase    <- [h \in Holds |-> CASE hold[h].state = "none" -> "unplaced"
                                   [] hold[h].state = "active" -> "held"
                                   [] OTHER -> "ended"],
    sold     <- sales.seatsSold

\* Every transaction on the date is one step of the inventory, or none of it.
ImplementsInventory == Inventory!InventorySpec

-----------------------------------------------------------------------------
(***************************************************************************)
(* What must eventually happen, under FairSpec.                            *)
(***************************************************************************)

\* A window past its end is ended, its rest of the pool on public sale, unless a new
\* tier opened another meanwhile.
DueWindowsEnd ==
    (sales.priorityUntil # NULL /\ sales.priorityUntil <= now)
        ~> (sales.priorityUntil = NULL \/ sales.priorityUntil > now)

\* A date cancelled or interrupted leaves nobody waiting.
CancelledListEnds == sales.outcome \in OUTCOMES_CLOSING_SALES ~> ListEnded
=============================================================================
