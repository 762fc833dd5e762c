--------------------------- MODULE DateSalesProofs ---------------------------
(***************************************************************************)
(* Proofs about DateSales, for every value of its constants: any number of *)
(* holds and accounts, any quantities, tiers, instants and lag.            *)
(***************************************************************************)
EXTENDS DateSales, FiniteSetTheorems, TLAPS

-----------------------------------------------------------------------------
(***************************************************************************)
(* The row's statements.                                                   *)
(***************************************************************************)

\* What nobody holds and nobody bought.
FreeSeats(s) == s.seatsAvailable + s.priorityPoolSeats

\* Taking seats leaves the row's counters natural, takes exactly the quantity from
\* what is free, and moves no other column.
LEMMA TakeSeatsRow ==
    ASSUME NEW s \in DateSalesRow, NEW q \in Nat, NEW t \in Instant,
           NEW pool \in BOOLEAN, CanTakeSeats(s, q, t, pool)
    PROVE  LET r == takeSeats(s, q, t, pool)
           IN  /\ r \in DateSalesRow
               /\ FreeSeats(r) = FreeSeats(s) - q
               /\ r.seatsSold = s.seatsSold
               /\ r.capacityTotal = s.capacityTotal
               /\ r.waitlistCount = s.waitlistCount
               /\ r.priorityUntil = s.priorityUntil
               /\ r.priorityPoolSeats <= s.priorityPoolSeats
               /\ poolShare(s, q, t, pool) \in 0..q
<1> DEFINE share == poolShare(s, q, t, pool)
<1>1. /\ s.seatsAvailable \in Nat /\ s.priorityPoolSeats \in Nat
      /\ s.seatsSold \in Nat /\ s.capacityTotal \in Nat
  BY DEF DateSalesRow
<1>2. /\ share \in 0..q
      /\ share <= s.priorityPoolSeats
      /\ q - share <= s.seatsAvailable
  BY <1>1 DEF CanTakeSeats, poolShare, openPoolAt, LEAST
<1> HIDE DEF share
<1>3. takeSeats(s, q, t, pool) =
          [s EXCEPT !.priorityPoolSeats = s.priorityPoolSeats - share,
                    !.seatsAvailable = s.seatsAvailable - (q - share)]
  BY DEF takeSeats, share
<1>4. /\ s.priorityPoolSeats - share \in Nat
      /\ s.seatsAvailable - (q - share) \in Nat
  BY <1>1, <1>2
<1>5. takeSeats(s, q, t, pool) \in DateSalesRow
  BY <1>3, <1>4 DEF DateSalesRow
<1> QED
  BY <1>1, <1>2, <1>3, <1>5 DEF DateSalesRow, FreeSeats, share

\* Giving seats back returns exactly the quantity to what is free, and to the pool
\* only in an open window.
LEMMA ReturnHeldSeatsRow ==
    ASSUME NEW s \in DateSalesRow, NEW q \in Nat, NEW pool \in 0..q, NEW t \in Instant
    PROVE  LET r == returnHeldSeats(s, q, pool, t)
           IN  /\ r \in DateSalesRow
               /\ FreeSeats(r) = FreeSeats(s) + q
               /\ r.seatsSold = s.seatsSold
               /\ r.capacityTotal = s.capacityTotal
               /\ r.waitlistCount = s.waitlistCount
               /\ r.priorityUntil = s.priorityUntil
               /\ r.priorityPoolSeats > s.priorityPoolSeats => s.priorityUntil # NULL
<1> DEFINE toPool == IF isPriorityWindowOpen(s, t) THEN pool ELSE 0
<1>1. /\ s.seatsAvailable \in Nat /\ s.priorityPoolSeats \in Nat
      /\ s.seatsSold \in Nat /\ s.capacityTotal \in Nat
  BY DEF DateSalesRow
<1>2. toPool \in 0..q /\ (toPool > 0 => s.priorityUntil # NULL)
  BY DEF isPriorityWindowOpen
<1> HIDE DEF toPool
<1>3. returnHeldSeats(s, q, pool, t) =
          [s EXCEPT !.priorityPoolSeats = s.priorityPoolSeats + toPool,
                    !.seatsAvailable = s.seatsAvailable + q - toPool]
  BY DEF returnHeldSeats, toPool
<1>4. /\ s.priorityPoolSeats + toPool \in Nat
      /\ s.seatsAvailable + q - toPool \in Nat
  BY <1>1, <1>2
<1>5. returnHeldSeats(s, q, pool, t) \in DateSalesRow
  BY <1>3, <1>4 DEF DateSalesRow
<1> QED
  BY <1>1, <1>2, <1>3, <1>5 DEF DateSalesRow, FreeSeats

\* A window's end puts the rest of the pool on public sale and loses none of it.
LEMMA EndPriorityWindowRow ==
    ASSUME NEW s \in DateSalesRow, NEW n \in 0..s.waitlistCount
    PROVE  LET r == endPriorityWindow(s, n)
           IN  /\ r \in DateSalesRow
               /\ FreeSeats(r) = FreeSeats(s)
               /\ r.seatsSold = s.seatsSold
               /\ r.capacityTotal = s.capacityTotal
               /\ r.waitlistCount = s.waitlistCount - n
               /\ r.priorityPoolSeats = 0
<1>1. /\ s.seatsAvailable \in Nat /\ s.priorityPoolSeats \in Nat
      /\ s.seatsSold \in Nat /\ s.capacityTotal \in Nat /\ s.waitlistCount \in Nat
  BY DEF DateSalesRow
<1>2. /\ s.seatsAvailable + s.priorityPoolSeats \in Nat
      /\ s.waitlistCount - n \in Nat
  BY <1>1
<1>3. endPriorityWindow(s, n) =
          [s EXCEPT !.seatsAvailable = s.seatsAvailable + s.priorityPoolSeats,
                    !.priorityPoolSeats = 0,
                    !.priorityUntil = NULL,
                    !.waitlistCount = s.waitlistCount - n]
  BY DEF endPriorityWindow
<1>4. endPriorityWindow(s, n) \in DateSalesRow
  <2>1. 0 \in Nat /\ NULL \in Instant \cup {NULL}
    OBVIOUS
  <2> QED
    BY <1>2, <1>3, <2>1, Zenon DEF DateSalesRow
<1> QED
  BY <1>1, <1>2, <1>3, <1>4 DEF DateSalesRow, FreeSeats

\* The list's end does the same, and clears the count.
LEMMA CloseWaitlistRow ==
    ASSUME NEW s \in DateSalesRow
    PROVE  LET r == closeWaitlist(s)
           IN  /\ r \in DateSalesRow
               /\ FreeSeats(r) = FreeSeats(s)
               /\ r.seatsSold = s.seatsSold
               /\ r.capacityTotal = s.capacityTotal
               /\ r.waitlistCount = 0
               /\ r.priorityPoolSeats = 0
<1>1. s.seatsAvailable \in Nat /\ s.priorityPoolSeats \in Nat
  BY DEF DateSalesRow
<1>2. closeWaitlist(s) =
          [s EXCEPT !.seatsAvailable = s.seatsAvailable + s.priorityPoolSeats,
                    !.priorityPoolSeats = 0,
                    !.priorityUntil = NULL,
                    !.waitlistCount = 0]
  BY DEF closeWaitlist
<1>3. closeWaitlist(s) \in DateSalesRow
  <2>1. /\ 0 \in Nat /\ NULL \in Instant \cup {NULL}
        /\ s.seatsAvailable + s.priorityPoolSeats \in Nat
    BY <1>1
  <2> QED
    BY <1>2, <2>1, Zenon DEF DateSalesRow
<1> QED
  BY <1>1, <1>2, <1>3 DEF DateSalesRow, FreeSeats

\* A tier adds its seats to what is free, to the pool only with a window.
LEMMA OpenCapacityTierRow ==
    ASSUME NEW s \in DateSalesRow, NEW n \in Nat \ {0}, NEW notify \in BOOLEAN,
           NEW until \in Instant
    PROVE  LET r == openCapacityTier(s, n, notify, until)
           IN  /\ r \in DateSalesRow
               /\ FreeSeats(r) = FreeSeats(s) + n
               /\ r.seatsSold = s.seatsSold
               /\ r.capacityTotal = s.capacityTotal + n
               /\ r.waitlistCount = s.waitlistCount
               /\ IF NotifiesWaitlist(s, notify)
                  THEN r.priorityUntil = until
                  ELSE /\ r.priorityUntil = s.priorityUntil
                       /\ r.priorityPoolSeats = s.priorityPoolSeats
<1>1. /\ s.seatsAvailable \in Nat /\ s.priorityPoolSeats \in Nat
      /\ s.seatsSold \in Nat /\ s.capacityTotal \in Nat
  BY DEF DateSalesRow
<1>2. CASE NotifiesWaitlist(s, notify)
  <2>1. openCapacityTier(s, n, notify, until) =
            [s EXCEPT !.capacityTotal = s.capacityTotal + n,
                      !.priorityPoolSeats = s.priorityPoolSeats + n,
                      !.priorityUntil = until]
    BY <1>2 DEF openCapacityTier
  <2>2. openCapacityTier(s, n, notify, until) \in DateSalesRow
    <3>1. /\ s.capacityTotal + n \in Nat /\ until \in Instant \cup {NULL}
          /\ s.priorityPoolSeats + n \in Nat /\ s.seatsAvailable + n \in Nat
      BY <1>1
    <3> QED
      BY <2>1, <3>1, Zenon DEF DateSalesRow
  <2> QED
    BY <1>1, <1>2, <2>1, <2>2 DEF DateSalesRow, FreeSeats
<1>3. CASE ~NotifiesWaitlist(s, notify)
  <2>1. openCapacityTier(s, n, notify, until) =
            [s EXCEPT !.capacityTotal = s.capacityTotal + n,
                      !.seatsAvailable = s.seatsAvailable + n]
    BY <1>3 DEF openCapacityTier
  <2>2. openCapacityTier(s, n, notify, until) \in DateSalesRow
    <3>1. /\ s.capacityTotal + n \in Nat /\ until \in Instant \cup {NULL}
          /\ s.priorityPoolSeats + n \in Nat /\ s.seatsAvailable + n \in Nat
      BY <1>1
    <3> QED
      BY <2>1, <3>1, Zenon DEF DateSalesRow
  <2> QED
    BY <1>1, <1>3, <2>1, <2>2 DEF DateSalesRow, FreeSeats
<1> QED
  BY <1>2, <1>3

-----------------------------------------------------------------------------
(***************************************************************************)
(* The seats of a set of holds.                                            *)
(***************************************************************************)

\* A finite set of holds carries finitely many seats.
LEMMA SeatsFinite ==
    ASSUME NEW H \in SUBSET Holds
    PROVE  IsFiniteSet(Seats(H)) /\ Cardinality(Seats(H)) \in Nat
<1> DEFINE f == [h \in H |-> {h} \X (1..Quantity[h])]
           T == {{h} \X (1..Quantity[h]) : h \in H}
<1>1. IsFiniteSet(H)
  BY FS_Subset, DateSalesAssumption
<1>2. f \in Surjection(H, T)
  BY DEF Surjection
<1>3. IsFiniteSet(T)
  BY <1>1, <1>2, FS_Surjection
<1>4. ASSUME NEW h \in H
      PROVE  IsFiniteSet({h} \X (1..Quantity[h]))
  <2>1. Quantity[h] \in Int
    BY DateSalesAssumption
  <2>2. IsFiniteSet({h})
    BY FS_Singleton
  <2>3. IsFiniteSet(1..Quantity[h])
    BY <2>1, FS_Interval
  <2> QED
    BY <2>2, <2>3, FS_Product
<1>5. \A U \in T : IsFiniteSet(U)
  BY <1>4
<1>6. IsFiniteSet(UNION T)
  BY <1>3, <1>5, FS_UNION
<1> QED
  BY <1>6, FS_CardinalityType DEF Seats

\* One hold carries its quantity.
LEMMA SeatsOfOne ==
    ASSUME NEW h \in Holds
    PROVE  Cardinality(Seats({h})) = Quantity[h]
<1>1. Quantity[h] \in Nat \ {0}
  BY DateSalesAssumption
<1>2. Seats({h}) = {h} \X (1..Quantity[h])
  BY DEF Seats
<1>3. /\ IsFiniteSet({h}) /\ Cardinality({h}) = 1
      /\ IsFiniteSet(1..Quantity[h]) /\ Cardinality(1..Quantity[h]) = Quantity[h]
  <2>1. IsFiniteSet({h}) /\ Cardinality({h}) = 1
    BY FS_Singleton
  <2>2. /\ IsFiniteSet(1..Quantity[h])
        /\ Cardinality(1..Quantity[h]) =
               IF 1 > Quantity[h] THEN 0 ELSE Quantity[h] - 1 + 1
    BY SMTT(30), <1>1, FS_Interval
  <2> QED
    BY <1>1, <2>1, <2>2
<1>4. Cardinality({h} \X (1..Quantity[h])) = Cardinality({h}) * Cardinality(1..Quantity[h])
  BY <1>3, FS_Product
<1>5. 1 * Quantity[h] = Quantity[h]
  BY <1>1
<1>6. Cardinality({h}) * Cardinality(1..Quantity[h]) = 1 * Quantity[h]
  BY <1>3, Zenon
<1> QED
  BY <1>2, <1>4, <1>5, <1>6, Zenon

\* Disjoint sets of holds carry disjoint seats, so their numbers add up.
LEMMA SeatsAdd ==
    ASSUME NEW G \in SUBSET Holds, NEW H \in SUBSET Holds, G \cap H = {}
    PROVE  Cardinality(Seats(G \cup H)) = Cardinality(Seats(G)) + Cardinality(Seats(H))
<1>1. Seats(G \cup H) = Seats(G) \cup Seats(H)
  BY DEF Seats
<1>2. Seats(G) \cap Seats(H) = {}
  BY DEF Seats
<1>3. Cardinality(Seats(G) \cap Seats(H)) = 0
  BY <1>2, FS_EmptySet
<1>4. /\ IsFiniteSet(Seats(G)) /\ Cardinality(Seats(G)) \in Nat
      /\ IsFiniteSet(Seats(H)) /\ Cardinality(Seats(H)) \in Nat
  BY SeatsFinite
<1>5. Cardinality(Seats(G) \cup Seats(H)) =
          Cardinality(Seats(G)) + Cardinality(Seats(H)) - Cardinality(Seats(G) \cap Seats(H))
  BY <1>4, FS_Union
<1>6. Cardinality(Seats(G \cup H)) = Cardinality(Seats(G)) + Cardinality(Seats(H)) - 0
  BY <1>1, <1>3, <1>5, Zenon
<1> QED
  BY <1>4, <1>6

-----------------------------------------------------------------------------
(***************************************************************************)
(* The inductive invariant.  Conservation alone is not inductive: a hold   *)
(* given back must not hold more pool seats than seats, or the public      *)
(* counter would go below zero, and the same goes for the list's count.    *)
(***************************************************************************)

DateSalesInv ==
    /\ TypeOK
    /\ Conservation
    /\ PoolShareWithinHold
    /\ PoolWithinWindow
    /\ WaitlistCounted
    /\ NotifiedWithinWindow

\* The list's entries are finitely many.
LEMMA ListFinite ==
    ASSUME NEW L \in SUBSET Accounts
    PROVE  IsFiniteSet(L) /\ Cardinality(L) \in Nat
  BY FS_Subset, FS_CardinalityType, DateSalesAssumption

\* The pool seats of active holds are among their seats.
LEMMA PoolSeatsWithin ==
    ASSUME TypeOK, PoolShareWithinHold, NEW B \in SUBSET Holds
    PROVE  Cardinality(PoolSeats(B)) \in 0..Cardinality(Seats(B))
<1>1. ASSUME NEW h \in B
      PROVE  1..hold[h].poolSeats \subseteq 1..Quantity[h]
  <2>1. hold[h].poolSeats \in Nat /\ Quantity[h] \in Nat /\ hold[h].poolSeats <= Quantity[h]
    BY DateSalesAssumption DEF TypeOK, SeatHold, PoolShareWithinHold
  <2> QED
    BY <2>1
<1>2. PoolSeats(B) \subseteq Seats(B)
  BY <1>1 DEF PoolSeats, Seats
<1>3. IsFiniteSet(Seats(B)) /\ Cardinality(Seats(B)) \in Nat
  BY SeatsFinite
<1>4. IsFiniteSet(PoolSeats(B)) /\ Cardinality(PoolSeats(B)) <= Cardinality(Seats(B))
  BY <1>2, <1>3, FS_Subset
<1>5. Cardinality(PoolSeats(B)) \in Nat
  BY <1>4, FS_CardinalityType
<1> QED
  BY <1>3, <1>4, <1>5

\* A step that leaves the holds and the list alone keeps the invariant if it loses
\* no seat and keeps the window.
LEMMA RowStep ==
    ASSUME DateSalesInv, TypeOK', hold' = hold, entry' = entry,
           FreeSeats(sales') + sales'.seatsSold + sales.capacityTotal
               = FreeSeats(sales) + sales.seatsSold + sales'.capacityTotal,
           sales'.waitlistCount = sales.waitlistCount,
           sales'.priorityUntil = sales.priorityUntil,
           sales'.priorityPoolSeats > sales.priorityPoolSeats => sales.priorityUntil # NULL
    PROVE  DateSalesInv'
<1>1. /\ sales.seatsAvailable \in Nat /\ sales.priorityPoolSeats \in Nat
      /\ sales.seatsSold \in Nat /\ sales.capacityTotal \in Nat
      /\ sales'.seatsAvailable \in Nat /\ sales'.priorityPoolSeats \in Nat
      /\ sales'.seatsSold \in Nat /\ sales'.capacityTotal \in Nat
  BY DEF DateSalesInv, TypeOK, DateSalesRow
<1>2. ActiveHolds' = ActiveHolds /\ Cardinality(Seats(ActiveHolds)) \in Nat
  BY SeatsFinite DEF ActiveHolds
<1>3. Conservation'
  <2> DEFINE held == Cardinality(Seats(ActiveHolds))
  <2>1. /\ FreeSeats(sales) \in Nat /\ FreeSeats(sales') \in Nat /\ held \in Nat
        /\ FreeSeats(sales) + held + sales.seatsSold = sales.capacityTotal
    BY <1>1, <1>2 DEF DateSalesInv, Conservation, FreeSeats
  <2>2. FreeSeats(sales') + held + sales'.seatsSold = sales'.capacityTotal
    <3> HIDE DEF held
    <3> QED
      BY <1>1, <2>1
  <2> QED
    BY <1>2, <2>2 DEF Conservation, FreeSeats
<1>4. PoolShareWithinHold'
  BY DEF DateSalesInv, PoolShareWithinHold
<1>5. PoolWithinWindow'
  BY <1>1 DEF DateSalesInv, PoolWithinWindow
<1>6. WaitlistCounted' /\ NotifiedWithinWindow'
  BY DEF DateSalesInv, WaitlistCounted, NotifiedWithinWindow, OnList
<1> QED
  BY <1>3, <1>4, <1>5, <1>6 DEF DateSalesInv

\* A step that changes the list and the row alone, the seats moving only between the
\* pool, public sale and a widened capacity.
LEMMA ListStep ==
    ASSUME DateSalesInv, TypeOK', hold' = hold,
           FreeSeats(sales') + sales.capacityTotal = FreeSeats(sales) + sales'.capacityTotal,
           sales'.seatsSold = sales.seatsSold,
           PoolWithinWindow', WaitlistCounted', NotifiedWithinWindow'
    PROVE  DateSalesInv'
<1>1. /\ sales.seatsAvailable \in Nat /\ sales.priorityPoolSeats \in Nat
      /\ sales.seatsSold \in Nat /\ sales.capacityTotal \in Nat
      /\ sales'.seatsAvailable \in Nat /\ sales'.priorityPoolSeats \in Nat
      /\ sales'.seatsSold \in Nat /\ sales'.capacityTotal \in Nat
  BY DEF DateSalesInv, TypeOK, DateSalesRow
<1>2. ActiveHolds' = ActiveHolds /\ Cardinality(Seats(ActiveHolds)) \in Nat
  BY SeatsFinite DEF ActiveHolds
<1>3. Conservation'
  <2> DEFINE held == Cardinality(Seats(ActiveHolds))
  <2>1. /\ sales'.seatsAvailable + sales'.priorityPoolSeats + sales.capacityTotal
               = sales.seatsAvailable + sales.priorityPoolSeats + sales'.capacityTotal
        /\ sales.seatsAvailable + sales.priorityPoolSeats + held + sales.seatsSold
               = sales.capacityTotal
    BY <1>1 DEF DateSalesInv, Conservation, FreeSeats
  <2>2. sales'.seatsAvailable + sales'.priorityPoolSeats + held + sales'.seatsSold
               = sales'.capacityTotal
    <3>1. held \in Nat /\ sales'.seatsSold = sales.seatsSold
      BY <1>2
    <3> HIDE DEF held
    <3> QED
      BY <1>1, <2>1, <3>1
  <2> QED
    BY <1>2, <2>2 DEF Conservation
<1>4. PoolShareWithinHold'
  BY DEF DateSalesInv, PoolShareWithinHold
<1> QED
  BY <1>3, <1>4 DEF DateSalesInv

\* A step of the holds B that leaves the list alone, its seats leaving or joining
\* what is held as the row's counters say.
LEMMA HoldStep ==
    ASSUME DateSalesInv, TypeOK', entry' = entry,
           FreeSeats(sales') + Cardinality(Seats(ActiveHolds')) + sales'.seatsSold
               = FreeSeats(sales) + Cardinality(Seats(ActiveHolds)) + sales.seatsSold,
           sales'.capacityTotal = sales.capacityTotal,
           PoolShareWithinHold',
           sales'.waitlistCount = sales.waitlistCount,
           sales'.priorityUntil = sales.priorityUntil,
           sales'.priorityPoolSeats > sales.priorityPoolSeats => sales.priorityUntil # NULL
    PROVE  DateSalesInv'
<1>1. /\ sales.seatsAvailable \in Nat /\ sales.priorityPoolSeats \in Nat
      /\ sales.seatsSold \in Nat /\ sales.capacityTotal \in Nat
      /\ sales'.seatsAvailable \in Nat /\ sales'.priorityPoolSeats \in Nat
      /\ sales'.seatsSold \in Nat /\ sales'.capacityTotal \in Nat
  BY DEF DateSalesInv, TypeOK, DateSalesRow
<1>2. Cardinality(Seats(ActiveHolds)) \in Nat /\ Cardinality(Seats(ActiveHolds')) \in Nat
  BY SeatsFinite DEF ActiveHolds
<1>3. Conservation'
  BY <1>1, <1>2 DEF DateSalesInv, Conservation, FreeSeats
<1>4. PoolWithinWindow'
  BY <1>1 DEF DateSalesInv, PoolWithinWindow
<1>5. WaitlistCounted' /\ NotifiedWithinWindow'
  BY DEF DateSalesInv, WaitlistCounted, NotifiedWithinWindow, OnList
<1> QED
  BY <1>3, <1>4, <1>5 DEF DateSalesInv

-----------------------------------------------------------------------------
(***************************************************************************)
(* One lemma per group of actions.                                         *)
(***************************************************************************)

\* The row as catalog drafts it satisfies the invariant.
LEMMA InitInv == Init => DateSalesInv
<1> SUFFICES ASSUME Init PROVE DateSalesInv
  OBVIOUS
<1>1. TypeOK
  BY DEF Init, TypeOK, OpenedRow, DateSalesRow, Instant, SpentHold, EndedTake, SeatHold,
         SeatHoldState, Take, WaitlistEntry, WaitlistEntryState
<1>2. ActiveHolds = {} /\ {a \in Accounts : OnList(a)} = {}
  BY DEF Init, ActiveHolds, SpentHold, OnList
<1>3. Seats({}) = {}
  BY DEF Seats
<1>4. Cardinality(Seats(ActiveHolds)) = 0 /\ Cardinality({a \in Accounts : OnList(a)}) = 0
  BY <1>2, <1>3, FS_EmptySet
<1>5. Conservation /\ WaitlistCounted
  BY <1>4 DEF Init, OpenedRow, Conservation, WaitlistCounted
<1>6. PoolShareWithinHold
  BY DateSalesAssumption DEF Init, SpentHold, PoolShareWithinHold
<1>7. PoolWithinWindow /\ NotifiedWithinWindow
  BY DEF Init, OpenedRow, PoolWithinWindow, NotifiedWithinWindow
<1> QED
  BY <1>1, <1>5, <1>6, <1>7 DEF DateSalesInv

\* Catalog's facts and the end of sales move no seat.
LEMMA FactInv ==
    ASSUME DateSalesInv, CatalogFact \/ \E t \in CommandInstants : CloseEndedSales(t)
    PROVE  DateSalesInv'
<1> USE DEF Instant
<1>1. sales \in DateSalesRow
  BY DEF DateSalesInv, TypeOK
<1>2. CASE LockPrices
  <2>1. sales' \in DateSalesRow
    BY <1>1, <1>2, Zenon DEF LockPrices, lockPrices, DateSalesRow
  <2>2. TypeOK'
    BY <1>2, <2>1 DEF LockPrices, DateSalesInv, TypeOK
  <2> QED
    BY <1>1, <1>2, <2>2, RowStep DEF LockPrices, lockPrices, DateSalesRow, FreeSeats
<1>3. ASSUME NEW k \in DOMAIN SalesEnds, RecordSchedule(k)
      PROVE  DateSalesInv'
  <2>1. SalesEnds[k] \in Nat \cup {NULL} /\ k \in Nat \cup {NULL}
    BY DateSalesAssumption
  <2>2. sales' \in DateSalesRow
    <3> DEFINE closed == sales.salesClosed
                             /\ ~(closedByTime(sales) /\ now < SalesEnds[k])
    <3>1. closed \in BOOLEAN
      OBVIOUS
    <3>2. sales' = [sales EXCEPT !.salesEndAt = SalesEnds[k],
                                 !.salesClosed = closed, !.scheduleStatedAt = k]
      BY <1>3 DEF RecordSchedule, recordSchedule
    <3> HIDE DEF closed
    <3> QED
      BY <1>1, <2>1, <3>1, <3>2, Zenon DEF DateSalesRow
  <2>3. TypeOK'
    BY <1>3, <2>2 DEF RecordSchedule, DateSalesInv, TypeOK
  <2> QED
    BY <1>1, <1>3, <2>3, RowStep DEF RecordSchedule, recordSchedule, DateSalesRow, FreeSeats
<1>4. ASSUME NEW k \in DOMAIN OutcomeFacts, RecordOutcome(k)
      PROVE  DateSalesInv'
  <2>1. OutcomeFacts[k] \in DateOutcome \cup {NULL} /\ k \in Nat \cup {NULL}
    BY DateSalesAssumption
  <2>2. sales' \in DateSalesRow
    <3> DEFINE closed == sales.salesClosed \/ OutcomeFacts[k] \in OUTCOMES_CLOSING_SALES
    <3>1. closed \in BOOLEAN
      OBVIOUS
    <3>2. sales' = [sales EXCEPT !.outcome = OutcomeFacts[k], !.outcomeStatedAt = k,
                                 !.salesClosed = closed]
      BY <1>4 DEF RecordOutcome, recordOutcome
    <3> HIDE DEF closed
    <3> QED
      BY <1>1, <2>1, <3>1, <3>2, Zenon DEF DateSalesRow
  <2>3. TypeOK'
    BY <1>4, <2>2 DEF RecordOutcome, DateSalesInv, TypeOK
  <2> QED
    BY <1>1, <1>4, <2>3, RowStep DEF RecordOutcome, recordOutcome, DateSalesRow, FreeSeats
<1>5. ASSUME NEW t \in CommandInstants, CloseEndedSales(t)
      PROVE  DateSalesInv'
  <2>1. sales' \in DateSalesRow
    BY <1>1, <1>5, Zenon DEF CloseEndedSales, endSales, DateSalesRow
  <2>2. TypeOK'
    BY <1>5, <2>1 DEF CloseEndedSales, DateSalesInv, TypeOK
  <2> QED
    BY <1>1, <1>5, <2>2, RowStep DEF CloseEndedSales, endSales, DateSalesRow, FreeSeats
<1> QED
  BY <1>2, <1>3, <1>4, <1>5 DEF CatalogFact

\* A purchase whose statement has not run has placed no hold.
UnplacedUntilTaken ==
    \A h \in Holds : take[h].step \in {"idle", "taking"} => hold[h].state = "none"

\* Holds placed and holds ended are kept apart by each purchase's own steps.
LEMMA UnplacedStep ==
    ASSUME TypeOK, UnplacedUntilTaken, [Next]_vars
    PROVE  UnplacedUntilTaken'
<1> USE DEF UnplacedUntilTaken, TypeOK
<1>1. ASSUME hold' = hold, take' = take
      PROVE  UnplacedUntilTaken'
  BY <1>1
<1>2. ASSUME NEW h \in Holds, BeginTake(h) \/ TakeHold(h) \/ RefuseHold(h)
                                  \/ BeginRetake(h) \/ RetakeSeats(h) \/ LoseSeats(h)
      PROVE  UnplacedUntilTaken'
  BY <1>2 DEF BeginTake, TakeHold, RefuseHold, BeginRetake, RetakeSeats, LoseSeats, EndedTake
<1>3. ASSUME NEW h \in Holds, NEW t \in CommandInstants, ConsumeHold(h, t)
      PROVE  UnplacedUntilTaken'
  BY <1>3 DEF ConsumeHold, EndedTake
<1>4. ASSUME NEW h \in Holds, NEW t \in CommandInstants, NEW settles \in BOOLEAN,
             ReleaseHold(h, settles, t)
      PROVE  UnplacedUntilTaken'
  BY <1>4 DEF ReleaseHold, EndedTake
<1>5. ASSUME NEW t \in CommandInstants, NEW B \in SUBSET ActiveHolds, ExpireDueHolds(B, t)
      PROVE  UnplacedUntilTaken'
  BY <1>5 DEF ExpireDueHolds, ActiveHolds
<1>6. ASSUME \/ CatalogFact \/ Studio \/ Waitlist \/ EndWaitlist \/ ReleaseSoldSeat \/ Tick
             \/ \E t \in CommandInstants : EndPriorityWindows(t) \/ CloseEndedSales(t)
             \/ UNCHANGED vars
      PROVE  hold' = hold /\ take' = take
  BY <1>6 DEF CatalogFact, Studio, Waitlist, EndWaitlist, ReleaseSoldSeat, Tick,
     EndPriorityWindows, CloseEndedSales, vars, LockPrices, RecordSchedule, RecordOutcome,
     OpenCapacityTier, JoinWaitlist, LeaveWaitlist
<1> QED
  BY <1>1, <1>2, <1>3, <1>4, <1>5, <1>6 DEF Next, Purchase, Sweeper

\* One hold more, or less, carries its quantity more or less.
LEMMA OneHoldMore ==
    ASSUME NEW A \in SUBSET Holds, NEW h \in Holds \ A
    PROVE  /\ Cardinality(Seats(A \cup {h})) = Cardinality(Seats(A)) + Quantity[h]
           /\ Cardinality(Seats(A)) \in Nat
<1>1. Cardinality(Seats(A \cup {h})) = Cardinality(Seats(A)) + Cardinality(Seats({h}))
  BY SeatsAdd
<1> QED
  BY <1>1, SeatsOfOne, SeatsFinite

\* A purchase's statement takes its hold's seats from what is free and from nowhere
\* else.
LEMMA TakeHoldInv ==
    ASSUME DateSalesInv, UnplacedUntilTaken, NEW h \in Holds, TakeHold(h)
    PROVE  DateSalesInv'
<1> DEFINE t == take[h].at
           pool == take[h].fromPool
           share == poolShare(sales, Quantity[h], t, pool)
<1>1. /\ sales \in DateSalesRow /\ t \in Instant /\ pool \in BOOLEAN
      /\ Quantity[h] \in Nat /\ HoldTtl \in Nat
  BY DateSalesAssumption DEF DateSalesInv, TypeOK, Take
<1>2. sales' = takeSeats(sales, Quantity[h], t, pool) /\ CanTakeSeats(sales, Quantity[h], t, pool)
  BY DEF TakeHold
<1>3. /\ sales' \in DateSalesRow
      /\ FreeSeats(sales') = FreeSeats(sales) - Quantity[h]
      /\ sales'.seatsSold = sales.seatsSold
      /\ sales'.capacityTotal = sales.capacityTotal
      /\ sales'.waitlistCount = sales.waitlistCount
      /\ sales'.priorityUntil = sales.priorityUntil
      /\ sales'.priorityPoolSeats <= sales.priorityPoolSeats
      /\ share \in 0..Quantity[h]
  BY <1>1, <1>2, TakeSeatsRow
<1> HIDE DEF t, pool, share
<1>4. hold' = [hold EXCEPT ![h] = [state |-> "active", poolSeats |-> share,
                                   expiresAt |-> t + HoldTtl]]
  BY DEF TakeHold, t, pool, share
<1>5. TypeOK'
  <2>1. share \in Nat /\ t + HoldTtl \in Instant
    BY <1>1, <1>3 DEF Instant
  <2>2. hold' \in [Holds -> SeatHold]
    BY <1>4, <2>1 DEF DateSalesInv, TypeOK, SeatHold, SeatHoldState
  <2>3. take' \in [Holds -> Take]
    BY DEF TakeHold, DateSalesInv, TypeOK, Take, EndedTake, Instant
  <2> QED
    BY <1>3, <2>2, <2>3 DEF TakeHold, DateSalesInv, TypeOK
<1>6. h \notin ActiveHolds /\ ActiveHolds' = ActiveHolds \cup {h}
  BY <1>4 DEF UnplacedUntilTaken, TakeHold, ActiveHolds, DateSalesInv, TypeOK
<1>7. PoolShareWithinHold'
  BY <1>3, <1>4 DEF DateSalesInv, TypeOK, PoolShareWithinHold
<1>8. Cardinality(Seats(ActiveHolds')) = Cardinality(Seats(ActiveHolds)) + Quantity[h]
      /\ Cardinality(Seats(ActiveHolds)) \in Nat
  BY <1>6, OneHoldMore DEF ActiveHolds
<1>9. FreeSeats(sales) \in Nat /\ sales.seatsSold \in Nat
  BY <1>1 DEF DateSalesRow, FreeSeats
<1>10. FreeSeats(sales') + Cardinality(Seats(ActiveHolds')) + sales'.seatsSold
           = FreeSeats(sales) + Cardinality(Seats(ActiveHolds)) + sales.seatsSold
  BY <1>1, <1>3, <1>8, <1>9
<1>11. sales'.priorityPoolSeats > sales.priorityPoolSeats => sales.priorityUntil # NULL
  BY <1>1, <1>3 DEF DateSalesRow
<1> QED
  BY <1>3, <1>5, <1>7, <1>10, <1>11, HoldStep DEF TakeHold

\* A payment turns a hold's seats into sold ones: none leaves, none is counted twice.
LEMMA ConsumeHoldInv ==
    ASSUME DateSalesInv, NEW h \in Holds, NEW t \in CommandInstants, ConsumeHold(h, t)
    PROVE  DateSalesInv'
<1>1. sales \in DateSalesRow /\ Quantity[h] \in Nat
  BY DateSalesAssumption DEF DateSalesInv, TypeOK
<1>2. /\ sales.seatsAvailable \in Nat /\ sales.priorityPoolSeats \in Nat
      /\ sales.seatsSold \in Nat
  BY <1>1 DEF DateSalesRow
<1>3. sales' = [sales EXCEPT !.seatsSold = sales.seatsSold + Quantity[h]]
  BY DEF ConsumeHold, sellHeldSeats
<1>4. sales.seatsSold + Quantity[h] \in Nat
  BY <1>1, <1>2
<1>5. sales' \in DateSalesRow
  BY <1>1, <1>3, <1>4, Zenon DEF DateSalesRow
<1>6. /\ FreeSeats(sales') = FreeSeats(sales)
      /\ sales'.seatsSold = sales.seatsSold + Quantity[h]
      /\ sales'.capacityTotal = sales.capacityTotal
      /\ sales'.waitlistCount = sales.waitlistCount
      /\ sales'.priorityUntil = sales.priorityUntil
      /\ sales'.priorityPoolSeats = sales.priorityPoolSeats
  BY <1>1, <1>3 DEF DateSalesRow, FreeSeats
<1>7. hold' = [hold EXCEPT ![h] = SpentHold("consumed")]
  BY DEF ConsumeHold
<1>8. TypeOK'
  <2>1. hold' \in [Holds -> SeatHold]
    BY <1>7 DEF DateSalesInv, TypeOK, SeatHold, SeatHoldState, SpentHold, Instant
  <2>2. take' \in [Holds -> Take]
    BY DEF ConsumeHold, DateSalesInv, TypeOK, Take, EndedTake, Instant
  <2>3. paidAt' \in [Accounts -> Instant \cup {NULL}]
    BY DEF ConsumeHold, Paid, DateSalesInv, TypeOK, CommandInstants, Instant
  <2> QED
    BY <1>5, <2>1, <2>2, <2>3 DEF ConsumeHold, DateSalesInv, TypeOK
<1>9. h \in ActiveHolds /\ h \notin ActiveHolds' /\ ActiveHolds = ActiveHolds' \cup {h}
  BY <1>7 DEF ConsumeHold, ActiveHolds, SpentHold, DateSalesInv, TypeOK
<1>10. /\ Cardinality(Seats(ActiveHolds)) = Cardinality(Seats(ActiveHolds')) + Quantity[h]
       /\ Cardinality(Seats(ActiveHolds')) \in Nat
  BY <1>9, OneHoldMore DEF ActiveHolds
<1>11. PoolShareWithinHold'
  BY <1>1, <1>7 DEF DateSalesInv, TypeOK, PoolShareWithinHold, SpentHold
<1>12. FreeSeats(sales) \in Nat
  BY <1>2 DEF FreeSeats
<1>13. FreeSeats(sales') + Cardinality(Seats(ActiveHolds')) + sales'.seatsSold
           = FreeSeats(sales) + Cardinality(Seats(ActiveHolds)) + sales.seatsSold
  BY <1>1, <1>2, <1>6, <1>10, <1>12
<1> QED
  BY <1>2, <1>6, <1>8, <1>11, <1>13, HoldStep DEF ConsumeHold

\* Giving back a set of active holds, whoever does it.
LEMMA GiveBackInv ==
    ASSUME DateSalesInv, NEW B \in SUBSET Holds, NEW t \in Instant,
           NEW end \in {"released", "expired"},
           \A h \in B : hold[h].state = "active",
           hold' = [h \in Holds |-> IF h \in B THEN SpentHold(end) ELSE hold[h]],
           sales' = returnHeldSeats(sales, Cardinality(Seats(B)), Cardinality(PoolSeats(B)), t),
           take' \in [Holds -> Take], UNCHANGED <<now, entry, paidAt>>
    PROVE  DateSalesInv'
<1>1. /\ sales \in DateSalesRow
      /\ Cardinality(Seats(B)) \in Nat
      /\ Cardinality(PoolSeats(B)) \in 0..Cardinality(Seats(B))
  BY SeatsFinite, PoolSeatsWithin DEF DateSalesInv, TypeOK
<1>2. /\ sales' \in DateSalesRow
      /\ FreeSeats(sales') = FreeSeats(sales) + Cardinality(Seats(B))
      /\ sales'.seatsSold = sales.seatsSold
      /\ sales'.capacityTotal = sales.capacityTotal
      /\ sales'.waitlistCount = sales.waitlistCount
      /\ sales'.priorityUntil = sales.priorityUntil
      /\ sales'.priorityPoolSeats > sales.priorityPoolSeats => sales.priorityUntil # NULL
  BY <1>1, ReturnHeldSeatsRow
<1>3. TypeOK'
  <2>1. SpentHold(end) \in SeatHold
    BY DEF SeatHold, SeatHoldState, SpentHold, Instant
  <2>2. hold' \in [Holds -> SeatHold]
    BY <2>1 DEF DateSalesInv, TypeOK
  <2> QED
    BY <1>2, <2>2 DEF DateSalesInv, TypeOK
<1>4. ActiveHolds = ActiveHolds' \cup B /\ ActiveHolds' \cap B = {}
  BY DEF ActiveHolds, SpentHold
<1>5. /\ Cardinality(Seats(ActiveHolds))
             = Cardinality(Seats(ActiveHolds')) + Cardinality(Seats(B))
      /\ Cardinality(Seats(ActiveHolds')) \in Nat
  <2>1. ActiveHolds' \in SUBSET Holds
    BY DEF ActiveHolds
  <2> QED
    BY <1>4, <2>1, SeatsAdd, SeatsFinite
<1>6. PoolShareWithinHold'
  BY DateSalesAssumption DEF DateSalesInv, TypeOK, PoolShareWithinHold, SpentHold
<1>7. FreeSeats(sales) \in Nat /\ sales.seatsSold \in Nat
  BY <1>1 DEF DateSalesRow, FreeSeats
<1>8. FreeSeats(sales') + Cardinality(Seats(ActiveHolds')) + sales'.seatsSold
          = FreeSeats(sales) + Cardinality(Seats(ActiveHolds)) + sales.seatsSold
  BY <1>1, <1>2, <1>5, <1>7
<1> QED
  BY <1>2, <1>3, <1>6, <1>8, HoldStep

\* The sweeper's batch of due holds gives back the seats of each of them once.
LEMMA ExpireInv ==
    ASSUME DateSalesInv, NEW B \in SUBSET ActiveHolds, NEW t \in CommandInstants,
           ExpireDueHolds(B, t)
    PROVE  DateSalesInv'
<1>1. t \in Instant /\ B \in SUBSET Holds /\ take \in [Holds -> Take]
  BY DEF CommandInstants, Instant, ActiveHolds, DateSalesInv, TypeOK
<1> QED
  BY <1>1, GiveBackInv DEF ExpireDueHolds

\* So does the release of one hold.
LEMMA ReleaseHoldInv ==
    ASSUME DateSalesInv, NEW h \in Holds, NEW settles \in BOOLEAN,
           NEW t \in CommandInstants, ReleaseHold(h, settles, t)
    PROVE  DateSalesInv'
<1>1. t \in Instant
  BY DEF CommandInstants, Instant
<1>2. hold' = [g \in Holds |-> IF g \in {h} THEN SpentHold("released") ELSE hold[g]]
  BY DEF ReleaseHold, DateSalesInv, TypeOK
<1>3. take' \in [Holds -> Take]
  BY DEF ReleaseHold, DateSalesInv, TypeOK, Take, EndedTake, Instant
<1>4. Cardinality(Seats({h})) = Quantity[h]
  BY SeatsOfOne
<1>5. Cardinality(PoolSeats({h})) = hold[h].poolSeats
  <2>1. hold[h].poolSeats \in Nat
    BY DEF DateSalesInv, TypeOK, SeatHold
  <2>2. PoolSeats({h}) = {h} \X (1..hold[h].poolSeats)
    BY DEF PoolSeats
  <2>3. /\ IsFiniteSet({h}) /\ Cardinality({h}) = 1
        /\ IsFiniteSet(1..hold[h].poolSeats)
        /\ Cardinality(1..hold[h].poolSeats) = hold[h].poolSeats
    <3>1. IsFiniteSet({h}) /\ Cardinality({h}) = 1
      BY FS_Singleton
    <3>2. /\ IsFiniteSet(1..hold[h].poolSeats)
          /\ Cardinality(1..hold[h].poolSeats) =
                 IF 1 > hold[h].poolSeats THEN 0 ELSE hold[h].poolSeats - 1 + 1
      BY SMTT(30), <2>1, FS_Interval
    <3> QED
      BY <2>1, <3>1, <3>2
  <2>4. Cardinality({h} \X (1..hold[h].poolSeats))
            = Cardinality({h}) * Cardinality(1..hold[h].poolSeats)
    BY <2>3, FS_Product
  <2>5. 1 * hold[h].poolSeats = hold[h].poolSeats
    BY <2>1
  <2> QED
    BY <2>2, <2>3, <2>4, <2>5, Zenon
<1>6. /\ \A g \in {h} : hold[g].state = "active"
      /\ sales' = returnHeldSeats(sales, Cardinality(Seats({h})),
                                  Cardinality(PoolSeats({h})), t)
      /\ UNCHANGED <<now, entry, paidAt>>
  BY <1>4, <1>5 DEF ReleaseHold
<1> QED
  BY <1>1, <1>2, <1>3, <1>6, GiveBackInv

\* A payment confirmed too late takes free seats and sells them in one statement.
LEMMA RetakeSeatsInv ==
    ASSUME DateSalesInv, NEW h \in Holds, RetakeSeats(h)
    PROVE  DateSalesInv'
<1> DEFINE t == take[h].at
           pool == take[h].fromPool
           r == takeSeats(sales, Quantity[h], t, pool)
<1>1. /\ sales \in DateSalesRow /\ t \in Instant /\ pool \in BOOLEAN
      /\ Quantity[h] \in Nat
  BY DateSalesAssumption DEF DateSalesInv, TypeOK, Take
<1>2. /\ CanTakeSeats(sales, Quantity[h], t, pool)
      /\ sales' = [r EXCEPT !.seatsSold = r.seatsSold + Quantity[h]]
  BY DEF RetakeSeats, takeAndSellSeats, sellHeldSeats
<1>3. /\ r \in DateSalesRow
      /\ FreeSeats(r) = FreeSeats(sales) - Quantity[h]
      /\ r.seatsSold = sales.seatsSold
      /\ r.capacityTotal = sales.capacityTotal
      /\ r.waitlistCount = sales.waitlistCount
      /\ r.priorityUntil = sales.priorityUntil
      /\ r.priorityPoolSeats <= sales.priorityPoolSeats
  BY <1>1, <1>2, TakeSeatsRow
<1>4. t \in Instant /\ Paid(Buyer[h], t) = paidAt'
  BY <1>1 DEF RetakeSeats
<1> HIDE DEF r, t, pool
<1>5. r.seatsSold + Quantity[h] \in Nat /\ r.seatsSold \in Nat
  BY <1>1, <1>3 DEF DateSalesRow
<1>6. sales' \in DateSalesRow
  BY <1>2, <1>3, <1>5, Zenon DEF DateSalesRow
<1>7. /\ FreeSeats(sales') = FreeSeats(r)
      /\ sales'.seatsSold = r.seatsSold + Quantity[h]
      /\ sales'.capacityTotal = r.capacityTotal
      /\ sales'.waitlistCount = r.waitlistCount
      /\ sales'.priorityUntil = r.priorityUntil
      /\ sales'.priorityPoolSeats = r.priorityPoolSeats
  BY <1>2, <1>3 DEF DateSalesRow, FreeSeats
<1>8. TypeOK'
  <2>1. take' \in [Holds -> Take]
    BY DEF RetakeSeats, DateSalesInv, TypeOK, Take, EndedTake, Instant
  <2>2. paidAt' \in [Accounts -> Instant \cup {NULL}]
    BY <1>4 DEF Paid, DateSalesInv, TypeOK
  <2> QED
    BY <1>6, <2>1, <2>2 DEF RetakeSeats, DateSalesInv, TypeOK
<1>9. /\ FreeSeats(sales) \in Nat /\ sales.capacityTotal \in Nat
      /\ sales.priorityPoolSeats \in Nat /\ r.priorityPoolSeats \in Nat
  BY <1>1, <1>3 DEF DateSalesRow, FreeSeats
<1>10. FreeSeats(sales') + sales'.seatsSold + sales.capacityTotal
           = FreeSeats(sales) + sales.seatsSold + sales'.capacityTotal
  BY <1>1, <1>3, <1>5, <1>7, <1>9
<1>11. sales'.priorityPoolSeats > sales.priorityPoolSeats => sales.priorityUntil # NULL
  BY <1>3, <1>7, <1>9
<1> QED
  BY <1>3, <1>7, <1>8, <1>10, <1>11, RowStep DEF RetakeSeats

\* A sold seat cancelled by its owner moves from sold to free.
LEMMA ReleaseSoldSeatInv ==
    ASSUME DateSalesInv, ReleaseSoldSeat
    PROVE  DateSalesInv'
<1>1. sales \in DateSalesRow
  BY DEF DateSalesInv, TypeOK
<1>2. /\ sales.seatsAvailable \in Nat /\ sales.priorityPoolSeats \in Nat
      /\ sales.seatsSold \in Nat /\ sales.capacityTotal \in Nat /\ sales.seatsSold >= 1
  BY <1>1 DEF DateSalesRow, ReleaseSoldSeat, CanReleaseSoldSeats
<1>3. sales.seatsAvailable + 1 \in Nat /\ sales.seatsSold - 1 \in Nat
  BY <1>2
<1>4. sales' = [sales EXCEPT !.seatsAvailable = sales.seatsAvailable + 1,
                             !.seatsSold = sales.seatsSold - 1]
  BY DEF ReleaseSoldSeat, releaseSoldSeats
<1>5. sales' \in DateSalesRow
  BY <1>1, <1>3, <1>4, Zenon DEF DateSalesRow
<1>6. /\ sales'.seatsAvailable = sales.seatsAvailable + 1
      /\ sales'.seatsSold = sales.seatsSold - 1
      /\ sales'.capacityTotal = sales.capacityTotal
      /\ sales'.waitlistCount = sales.waitlistCount
      /\ sales'.priorityUntil = sales.priorityUntil
      /\ sales'.priorityPoolSeats = sales.priorityPoolSeats
  BY <1>1, <1>4 DEF DateSalesRow
<1>7. TypeOK'
  BY <1>5 DEF ReleaseSoldSeat, DateSalesInv, TypeOK
<1>8. FreeSeats(sales') + sales'.seatsSold + sales.capacityTotal
          = FreeSeats(sales) + sales.seatsSold + sales'.capacityTotal
  BY <1>2, <1>6 DEF FreeSeats
<1> QED
  BY <1>2, <1>6, <1>7, <1>8, RowStep DEF ReleaseSoldSeat

\* A purchase's reads, a refusal, a lost retake and the clock leave the row alone.
LEMMA StillRowInv ==
    ASSUME DateSalesInv,
           \/ \E h \in Holds : BeginTake(h) \/ RefuseHold(h) \/ BeginRetake(h) \/ LoseSeats(h)
           \/ Tick
           \/ UNCHANGED vars
    PROVE  DateSalesInv'
<1>1. sales' = sales /\ hold' = hold /\ entry' = entry /\ paidAt' = paidAt
  BY DEF BeginTake, RefuseHold, BeginRetake, LoseSeats, Tick, vars
<1>2. now' \in Instant
  BY DEF BeginTake, RefuseHold, BeginRetake, LoseSeats, Tick, vars, DateSalesInv, TypeOK, Instant
<1>3. take' \in [Holds -> Take]
  <2>1. take \in [Holds -> Take] /\ now \in Instant
    BY DEF DateSalesInv, TypeOK
  <2>2. ASSUME NEW a PROVE drawsOnPriorityPool(a) \in BOOLEAN
    BY DEF drawsOnPriorityPool
  <2>3. ASSUME NEW h \in Holds, BeginTake(h) PROVE take' \in [Holds -> Take]
    BY <2>1, <2>2, <2>3 DEF BeginTake, Take
  <2>4. ASSUME NEW h \in Holds, BeginRetake(h) PROVE take' \in [Holds -> Take]
    BY <2>1, <2>2, <2>4 DEF BeginRetake, Take
  <2>5. ASSUME NEW h \in Holds, RefuseHold(h) \/ LoseSeats(h) PROVE take' \in [Holds -> Take]
    <3>1. EndedTake("idle") \in Take /\ EndedTake("settled") \in Take
      BY DEF EndedTake, Take, Instant
    <3> QED
      BY <2>1, <2>5, <3>1 DEF RefuseHold, LoseSeats
  <2> QED
    BY <2>1, <2>3, <2>4, <2>5 DEF Tick, vars
<1>4. TypeOK'
  BY <1>1, <1>2, <1>3 DEF DateSalesInv, TypeOK
<1>5. sales.priorityPoolSeats \in Nat
  BY DEF DateSalesInv, TypeOK, DateSalesRow
<1> QED
  BY <1>1, <1>4, <1>5, RowStep

-----------------------------------------------------------------------------
(***************************************************************************)
(* The list and its window.                                                *)
(***************************************************************************)

\* The accounts a table of entries has on the list.
Listed(entries) == {a \in Accounts : entries[a].state \in {"waiting", "notified"}}

\* The transition a window's end is made of, before any tier: nobody stays notified,
\* the count falls by exactly those who were, and the pool is emptied with no loss.
LEMMA EndedWindowFacts ==
    ASSUME DateSalesInv
    PROVE  /\ EndedWindow \in DateSalesRow
           /\ FreeSeats(EndedWindow) = FreeSeats(sales)
           /\ EndedWindow.seatsSold = sales.seatsSold
           /\ EndedWindow.capacityTotal = sales.capacityTotal
           /\ EndedWindow.priorityPoolSeats = 0
           /\ EndedEntries \in [Accounts -> WaitlistEntry]
           /\ \A a \in Accounts : EndedEntries[a].state # "notified"
           /\ EndedWindow.waitlistCount = Cardinality(Listed(EndedEntries))
<1> DEFINE L == {a \in Accounts : OnList(a)}
<1>1. sales \in DateSalesRow /\ entry \in [Accounts -> WaitlistEntry]
  BY DEF DateSalesInv, TypeOK
<1>2. IsFiniteSet(L) /\ Cardinality(L) \in Nat /\ sales.waitlistCount = Cardinality(L)
  BY ListFinite DEF DateSalesInv, WaitlistCounted
<1>3. Notified \in SUBSET L
  BY DEF Notified, OnList
<1>4. Cardinality(Notified) \in 0..sales.waitlistCount
  <2>1. Cardinality(Notified) <= Cardinality(L)
    BY <1>2, <1>3, FS_Subset
  <2>2. Cardinality(Notified) \in Nat
    BY ListFinite DEF Notified
  <2> QED
    BY <1>2, <2>1, <2>2
<1>5. /\ EndedWindow \in DateSalesRow
      /\ FreeSeats(EndedWindow) = FreeSeats(sales)
      /\ EndedWindow.seatsSold = sales.seatsSold
      /\ EndedWindow.capacityTotal = sales.capacityTotal
      /\ EndedWindow.waitlistCount = sales.waitlistCount - Cardinality(Notified)
      /\ EndedWindow.priorityPoolSeats = 0
  BY <1>1, <1>4, EndPriorityWindowRow DEF EndedWindow
<1>6. PICK other \in {"closed", "lapsed"} : EndedEntries = endNotified(other)
  BY DEF EndedEntries
<1>7. EndedEntries \in [Accounts -> WaitlistEntry]
  BY <1>1, <1>6 DEF endNotified, WaitlistEntry, WaitlistEntryState
<1>8. \A a \in Accounts : EndedEntries[a].state # "notified"
  BY <1>6 DEF endNotified
<1>9. Listed(EndedEntries) = L \ Notified
  BY <1>6 DEF endNotified, Listed, Notified, OnList
<1>10. Cardinality(Listed(EndedEntries)) = Cardinality(L) - Cardinality(Notified)
  <2>1. Cardinality(L \ Notified) = Cardinality(L) - Cardinality(L \cap Notified)
    BY <1>2, FS_Difference
  <2>2. L \cap Notified = Notified
    BY <1>3
  <2> HIDE DEF L
  <2> QED
    BY <1>9, <2>1, <2>2, Zenon
<1> QED
  BY <1>2, <1>5, <1>7, <1>8, <1>10

\* The sweeper's end of a due window keeps the list and its count together.
LEMMA EndPriorityWindowsInv ==
    ASSUME DateSalesInv, NEW t \in CommandInstants, EndPriorityWindows(t)
    PROVE  DateSalesInv'
<1>1. sales' = EndedWindow /\ entry' = EndedEntries
  BY DEF EndPriorityWindows
<1>2. TypeOK'
  BY <1>1, EndedWindowFacts DEF EndPriorityWindows, DateSalesInv, TypeOK
<1>3. Listed(entry') = {a \in Accounts : OnList(a)}'
  BY DEF Listed, OnList
<1>4. WaitlistCounted'
  BY <1>1, <1>3, EndedWindowFacts DEF WaitlistCounted
<1>5. NotifiedWithinWindow'
  BY <1>1, EndedWindowFacts DEF NotifiedWithinWindow
<1>6. PoolWithinWindow'
  BY <1>1, EndedWindowFacts DEF PoolWithinWindow
<1>7. FreeSeats(sales') + sales.capacityTotal = FreeSeats(sales) + sales'.capacityTotal
  BY <1>1, EndedWindowFacts
<1> QED
  BY <1>1, <1>2, <1>4, <1>5, <1>6, <1>7, EndedWindowFacts, ListStep DEF EndPriorityWindows

\* A tier, after the due window it ends first: its seats go to the pool with the
\* whole list notified, or on public sale.
LEMMA OpenCapacityTierInv ==
    ASSUME DateSalesInv, NEW n \in TierSizes, NEW notify \in BOOLEAN,
           NEW t \in CommandInstants, OpenCapacityTier(n, notify, t)
    PROVE  DateSalesInv'
<1> DEFINE row == IF WindowDue(t) THEN EndedWindow ELSE sales
           entries == IF WindowDue(t) THEN EndedEntries ELSE entry
           until == t + PriorityTtl
<1>1. n \in Nat \ {0} /\ until \in Instant /\ t \in Instant
  BY DateSalesAssumption DEF CommandInstants, Instant
<1>2. /\ row \in DateSalesRow
      /\ FreeSeats(row) = FreeSeats(sales)
      /\ row.seatsSold = sales.seatsSold
      /\ row.capacityTotal = sales.capacityTotal
      /\ entries \in [Accounts -> WaitlistEntry]
      /\ row.waitlistCount = Cardinality(Listed(entries))
      /\ row.priorityPoolSeats > 0 => row.priorityUntil # NULL
      /\ \A a \in Accounts : entries[a].state = "notified" =>
             row.priorityUntil # NULL /\ entries[a].notifiedAt # NULL
  <2>1. CASE WindowDue(t)
    BY <2>1, EndedWindowFacts
  <2>2. CASE ~WindowDue(t)
    <3>1. Listed(entry) = {a \in Accounts : OnList(a)}
      BY DEF Listed, OnList
    <3> QED
      BY <2>2, <3>1 DEF DateSalesInv, TypeOK, WaitlistCounted, PoolWithinWindow,
                        NotifiedWithinWindow
  <2> QED
    BY <2>1, <2>2
<1>3. /\ sales' = openCapacityTier(row, n, notify, until)
      /\ entry' = IF NotifiesWaitlist(row, notify) THEN notifyAll(entries, t) ELSE entries
      /\ UNCHANGED <<now, hold, take, paidAt>>
  BY DEF OpenCapacityTier
<1> HIDE DEF row, entries, until
<1>4. /\ sales' \in DateSalesRow
      /\ FreeSeats(sales') = FreeSeats(row) + n
      /\ sales'.seatsSold = row.seatsSold
      /\ sales'.capacityTotal = row.capacityTotal + n
      /\ sales'.waitlistCount = row.waitlistCount
      /\ IF NotifiesWaitlist(row, notify)
         THEN sales'.priorityUntil = until
         ELSE /\ sales'.priorityUntil = row.priorityUntil
              /\ sales'.priorityPoolSeats = row.priorityPoolSeats
  BY <1>1, <1>2, <1>3, OpenCapacityTierRow
<1>5. until # NULL /\ t # NULL
  BY <1>1, NullAssumption DEF Instant
<1>6. /\ entry' \in [Accounts -> WaitlistEntry]
      /\ Listed(entry') = Listed(entries)
  BY <1>1, <1>2, <1>3 DEF notifyAll, Listed, WaitlistEntry, WaitlistEntryState
<1>7. TypeOK'
  BY <1>3, <1>4, <1>6 DEF DateSalesInv, TypeOK
<1>8. WaitlistCounted'
  <2>1. Listed(entry') = {a \in Accounts : OnList(a)}'
    BY DEF Listed, OnList
  <2> QED
    BY <1>2, <1>4, <1>6, <2>1 DEF WaitlistCounted
<1>9. NotifiedWithinWindow'
  <2>1. CASE NotifiesWaitlist(row, notify)
    BY <1>2, <1>3, <1>4, <1>5, <2>1 DEF NotifiedWithinWindow, notifyAll
  <2>2. CASE ~NotifiesWaitlist(row, notify)
    BY <1>2, <1>3, <1>4, <2>2 DEF NotifiedWithinWindow
  <2> QED
    BY <2>1, <2>2
<1>10. PoolWithinWindow'
  BY <1>2, <1>4, <1>5 DEF PoolWithinWindow
<1>11. FreeSeats(sales') + sales.capacityTotal = FreeSeats(sales) + sales'.capacityTotal
  <2>1. FreeSeats(sales) \in Nat /\ sales.capacityTotal \in Nat
    BY DEF DateSalesInv, TypeOK, DateSalesRow, FreeSeats
  <2> QED
    BY <1>1, <1>2, <1>4, <2>1
<1> QED
  BY <1>2, <1>3, <1>4, <1>7, <1>8, <1>9, <1>10, <1>11, ListStep

\* A join and a leave move one entry and the count by one.
LEMMA JoinLeaveInv ==
    ASSUME DateSalesInv, NEW a \in Accounts, JoinWaitlist(a) \/ LeaveWaitlist(a)
    PROVE  DateSalesInv'
<1> DEFINE L == {b \in Accounts : OnList(b)}
<1>1. sales \in DateSalesRow /\ entry \in [Accounts -> WaitlistEntry] /\ now \in Instant
  BY DEF DateSalesInv, TypeOK
<1>2. IsFiniteSet(L) /\ Cardinality(L) \in Nat /\ sales.waitlistCount = Cardinality(L)
  BY ListFinite DEF DateSalesInv, WaitlistCounted
<1>3. \A b \in Accounts : b # a => entry'[b] = entry[b]
  BY <1>1 DEF JoinWaitlist, LeaveWaitlist
<1>4. entry' \in [Accounts -> WaitlistEntry]
  BY <1>1 DEF JoinWaitlist, LeaveWaitlist, WaitlistEntry, WaitlistEntryState
<1>5. PICK by \in {1, -1} :
          /\ sales' = [sales EXCEPT !.waitlistCount = sales.waitlistCount + by]
          /\ sales.waitlistCount + by = Cardinality(L')
          /\ sales.waitlistCount + by \in Nat
  <2>1. CASE JoinWaitlist(a)
    <3>1. a \notin L /\ L' = L \cup {a}
      BY <1>1, <2>1 DEF JoinWaitlist, OnList
    <3>2. Cardinality(L') = Cardinality(L) + 1
      BY <1>2, <3>1, FS_AddElement
    <3> HIDE DEF L
    <3> QED
      BY <1>2, <2>1, <3>2 DEF JoinWaitlist, moveWaitlistCount
  <2>2. CASE LeaveWaitlist(a)
    <3>1. a \in L /\ L' = L \ {a}
      BY <1>1, <2>2 DEF LeaveWaitlist, OnList
    <3>2. IsFiniteSet(L') /\ Cardinality(L') = Cardinality(L) - 1
      BY ZenonT(40), <1>2, <3>1, FS_RemoveElement
    <3>3. Cardinality(L') \in Nat
      BY <3>2, FS_CardinalityType
    <3> HIDE DEF L
    <3>4. sales.waitlistCount + (-1) = Cardinality(L')
      BY <1>2, <3>2
    <3>5. sales' = [sales EXCEPT !.waitlistCount = sales.waitlistCount + (-1)]
      BY <2>2 DEF LeaveWaitlist, moveWaitlistCount
    <3> QED
      BY <3>3, <3>4, <3>5
  <2> QED
    BY <2>1, <2>2
<1>6. sales' \in DateSalesRow
  BY <1>1, <1>5, Zenon DEF DateSalesRow
<1>7. /\ FreeSeats(sales') = FreeSeats(sales)
      /\ sales'.seatsSold = sales.seatsSold
      /\ sales'.capacityTotal = sales.capacityTotal
      /\ sales'.priorityUntil = sales.priorityUntil
      /\ sales'.priorityPoolSeats = sales.priorityPoolSeats
      /\ sales'.waitlistCount = sales.waitlistCount + by
  BY <1>1, <1>5 DEF DateSalesRow, FreeSeats
<1>8. hold' = hold /\ TypeOK'
  BY <1>4, <1>6 DEF JoinWaitlist, LeaveWaitlist, DateSalesInv, TypeOK
<1>9. WaitlistCounted'
  BY <1>5, <1>7 DEF WaitlistCounted
<1>10. NotifiedWithinWindow'
  <2>1. entry'[a].state = "notified" =>
            sales.priorityUntil # NULL /\ entry'[a].notifiedAt # NULL
    BY <1>1, NullAssumption DEF JoinWaitlist, LeaveWaitlist, isPriorityWindowOpen, Instant
  <2> QED
    BY <1>3, <1>7, <2>1 DEF NotifiedWithinWindow, DateSalesInv
<1>11. PoolWithinWindow'
  BY <1>7 DEF PoolWithinWindow, DateSalesInv
<1> QED
  BY <1>7, <1>8, <1>9, <1>10, <1>11, ListStep

\* The settlement of a cancelled or interrupted date ends every entry and the window.
LEMMA EndWaitlistInv ==
    ASSUME DateSalesInv, EndWaitlist
    PROVE  DateSalesInv'
<1>1. sales \in DateSalesRow /\ entry \in [Accounts -> WaitlistEntry]
  BY DEF DateSalesInv, TypeOK
<1>2. sales' = closeWaitlist(sales)
  BY DEF EndWaitlist
<1>3. /\ sales' \in DateSalesRow
      /\ FreeSeats(sales') = FreeSeats(sales)
      /\ sales'.seatsSold = sales.seatsSold
      /\ sales'.capacityTotal = sales.capacityTotal
      /\ sales'.waitlistCount = 0
      /\ sales'.priorityPoolSeats = 0
  BY <1>1, <1>2, CloseWaitlistRow
<1>4. entry' \in [Accounts -> WaitlistEntry]
  BY <1>1 DEF EndWaitlist, endNotified, WaitlistEntry, WaitlistEntryState
<1>5. \A a \in Accounts : entry'[a].state \notin {"waiting", "notified"}
  BY <1>1 DEF EndWaitlist, endNotified
<1>6. TypeOK'
  BY <1>3, <1>4 DEF EndWaitlist, DateSalesInv, TypeOK
<1>7. WaitlistCounted'
  <2>1. {a \in Accounts : OnList(a)}' = {}
    BY <1>5 DEF OnList
  <2> QED
    BY <1>3, <2>1, FS_EmptySet DEF WaitlistCounted
<1>8. NotifiedWithinWindow' /\ PoolWithinWindow'
  BY <1>3, <1>5 DEF NotifiedWithinWindow, PoolWithinWindow
<1> QED
  BY <1>3, <1>6, <1>7, <1>8, ListStep DEF EndWaitlist

-----------------------------------------------------------------------------
(***************************************************************************)
(* The theorems.                                                           *)
(***************************************************************************)

\* Every step of the date keeps the invariant.
LEMMA NextInv ==
    ASSUME DateSalesInv, UnplacedUntilTaken, [Next]_vars
    PROVE  DateSalesInv'
<1>1. ASSUME CatalogFact PROVE DateSalesInv'
  BY <1>1, FactInv
<1>2. ASSUME Studio PROVE DateSalesInv'
  BY <1>2, OpenCapacityTierInv DEF Studio
<1>3. ASSUME Waitlist PROVE DateSalesInv'
  BY <1>3, JoinLeaveInv DEF Waitlist
<1>4. ASSUME Purchase PROVE DateSalesInv'
  <2>1. PICK h \in Holds :
            \/ BeginTake(h) \/ TakeHold(h) \/ RefuseHold(h)
            \/ BeginRetake(h) \/ RetakeSeats(h) \/ LoseSeats(h)
            \/ \E t \in CommandInstants :
                   \/ ConsumeHold(h, t)
                   \/ \E settles \in BOOLEAN : ReleaseHold(h, settles, t)
    BY <1>4 DEF Purchase
  <2> QED
    BY <2>1, StillRowInv, TakeHoldInv, RetakeSeatsInv, ConsumeHoldInv, ReleaseHoldInv
<1>5. ASSUME Sweeper PROVE DateSalesInv'
  BY <1>5, ExpireInv, EndPriorityWindowsInv, FactInv DEF Sweeper
<1> QED
  BY <1>1, <1>2, <1>3, <1>4, <1>5, EndWaitlistInv, ReleaseSoldSeatInv, StillRowInv DEF Next

\* The row, the holds and the list satisfy the invariant in every reachable state of
\* the date, for any number of purchases, accounts, tiers and late facts.
THEOREM DateSalesCorrect == Spec => [](DateSalesInv /\ UnplacedUntilTaken)
<1>1. Init => DateSalesInv /\ UnplacedUntilTaken
  BY InitInv DEF Init, UnplacedUntilTaken, SpentHold
<1>2. DateSalesInv /\ UnplacedUntilTaken /\ [Next]_vars
          => (DateSalesInv /\ UnplacedUntilTaken)'
  <2>1. ASSUME DateSalesInv, UnplacedUntilTaken, [Next]_vars
        PROVE  DateSalesInv' /\ UnplacedUntilTaken'
    BY <2>1, NextInv, UnplacedStep DEF DateSalesInv
  <2> QED
    BY <2>1
<1> QED
  BY <1>1, <1>2, PTL DEF Spec

\* Every variable keeps its type: in particular no counter of the row ever goes
\* below zero, which the table's CHECK constraints would refuse.
THEOREM DateSalesTyped == Spec => []TypeOK
<1>1. DateSalesInv => TypeOK
  BY DEF DateSalesInv
<1> QED
  BY <1>1, DateSalesCorrect, PTL

\* No seat of the date is lost or sold twice, whatever interleaving of purchases,
\* expiries, late payments, tiers, windows and outcomes the row goes through.
THEOREM SeatsConserved == Spec => []Conservation
<1>1. DateSalesInv => Conservation
  BY DEF DateSalesInv
<1> QED
  BY <1>1, DateSalesCorrect, PTL

\* No seat is left in a pool with no window to end it.
THEOREM PoolKeptWithinWindow == Spec => []PoolWithinWindow
<1>1. DateSalesInv => PoolWithinWindow
  BY DEF DateSalesInv
<1> QED
  BY <1>1, DateSalesCorrect, PTL

\* The count the studio reads is the list, and nobody is notified into no window.
THEOREM ListKept == Spec => [](WaitlistCounted /\ NotifiedWithinWindow)
<1>1. DateSalesInv => WaitlistCounted /\ NotifiedWithinWindow
  BY DEF DateSalesInv
<1> QED
  BY <1>1, DateSalesCorrect, PTL

-----------------------------------------------------------------------------
(***************************************************************************)
(* The refinement: each transaction on the date is one step of the seat    *)
(* inventory, or none of it.  First the inventory's actions in the words   *)
(* of the row and the holds.                                               *)
(***************************************************************************)

\* Where a table of holds stands in the inventory.
Phases(table) == [h \in Holds |-> CASE table[h].state = "none" -> "unplaced"
                                    [] table[h].state = "active" -> "held"
                                    [] OTHER -> "ended"]

\* What the inventory sees of two rows is the same.
SameSeats(s, r) ==
    /\ r.capacityTotal = s.capacityTotal
    /\ FreeSeats(r) = FreeSeats(s)
    /\ r.seatsSold = s.seatsSold

\* Nothing the inventory sees has moved.
LEMMA InventoryUnchanged ==
    ASSUME Phases(hold') = Phases(hold), SameSeats(sales, sales')
    PROVE  UNCHANGED Inventory!inventoryVars
BY DEF Inventory!inventoryVars, Phases, SameSeats, FreeSeats

\* A tier's seats are free.
LEMMA InventoryWidens ==
    ASSUME Phases(hold') = Phases(hold),
           sales'.capacityTotal \in Nat, sales'.capacityTotal > sales.capacityTotal,
           FreeSeats(sales') = FreeSeats(sales) + (sales'.capacityTotal - sales.capacityTotal),
           sales'.seatsSold = sales.seatsSold
    PROVE  Inventory!InventoryNext
<1>1. Inventory!Widen
  BY DEF Inventory!Widen, Phases, FreeSeats
<1> QED
  BY <1>1 DEF Inventory!InventoryNext

\* A hold never placed takes free seats.
LEMMA InventoryPlaces ==
    ASSUME NEW h \in Holds, Phases(hold)[h] = "unplaced",
           FreeSeats(sales) >= Quantity[h],
           Phases(hold') = [Phases(hold) EXCEPT ![h] = "held"],
           sales'.capacityTotal = sales.capacityTotal,
           FreeSeats(sales') = FreeSeats(sales) - Quantity[h],
           sales'.seatsSold = sales.seatsSold
    PROVE  Inventory!InventoryNext
<1>1. Inventory!PlaceHold(h)
  BY DEF Inventory!PlaceHold, Phases, FreeSeats
<1> QED
  BY <1>1 DEF Inventory!InventoryNext

\* A hold ends as seats sold.
LEMMA InventorySells ==
    ASSUME NEW h \in Holds, Phases(hold)[h] = "held",
           Phases(hold') = [Phases(hold) EXCEPT ![h] = "ended"],
           sales'.capacityTotal = sales.capacityTotal,
           FreeSeats(sales') = FreeSeats(sales),
           sales'.seatsSold = sales.seatsSold + Quantity[h]
    PROVE  Inventory!InventoryNext
<1>1. Inventory!SellHold(h)
  BY DEF Inventory!SellHold, Phases, FreeSeats
<1> QED
  BY <1>1 DEF Inventory!InventoryNext

\* Free seats are sold with no hold of theirs.
LEMMA InventorySellsFree ==
    ASSUME NEW h \in Holds, Phases(hold') = Phases(hold),
           FreeSeats(sales) >= Quantity[h],
           sales'.capacityTotal = sales.capacityTotal,
           FreeSeats(sales') = FreeSeats(sales) - Quantity[h],
           sales'.seatsSold = sales.seatsSold + Quantity[h]
    PROVE  Inventory!InventoryNext
<1>1. Inventory!SellFree(Quantity[h])
  BY DEF Inventory!SellFree, Phases, FreeSeats
<1> QED
  BY <1>1 DEF Inventory!InventoryNext

\* Cardinality is the same operator on either side of the refinement.
LEMMA InventoryCardinality ==
    ASSUME NEW S
    PROVE  Inventory!Cardinality(S) = Cardinality(S)
BY Zenon DEF Inventory!Cardinality, Cardinality

\* Holds end as seats given back, each hold's own.
LEMMA InventoryGivesBack ==
    ASSUME NEW B \in SUBSET Holds, \A h \in B : Phases(hold)[h] = "held",
           Phases(hold') = [h \in Holds |-> IF h \in B THEN "ended" ELSE Phases(hold)[h]],
           sales'.capacityTotal = sales.capacityTotal,
           FreeSeats(sales') = FreeSeats(sales) + Cardinality(Seats(B)),
           sales'.seatsSold = sales.seatsSold
    PROVE  Inventory!InventoryNext
<1>1. Inventory!GiveBack(B)
  BY InventoryCardinality DEF Inventory!GiveBack, Phases, FreeSeats, Seats
<1> QED
  BY <1>1 DEF Inventory!InventoryNext

\* Sold seats are free again.
LEMMA InventoryReleases ==
    ASSUME Phases(hold') = Phases(hold),
           sales'.capacityTotal = sales.capacityTotal,
           sales'.seatsSold \in Nat, sales'.seatsSold < sales.seatsSold,
           FreeSeats(sales') = FreeSeats(sales) + (sales.seatsSold - sales'.seatsSold)
    PROVE  Inventory!InventoryNext
<1>1. Inventory!Release
  BY DEF Inventory!Release, Phases, FreeSeats
<1> QED
  BY <1>1 DEF Inventory!InventoryNext

-----------------------------------------------------------------------------
(***************************************************************************)
(* Then the date's actions.                                                *)
(***************************************************************************)

\* Catalog's facts, the close of sales and the ends of the window and of the list
\* move no seat the inventory tells apart.
LEMMA RowStandsStep ==
    ASSUME DateSalesInv,
           \/ CatalogFact \/ Waitlist \/ EndWaitlist
           \/ \E t \in CommandInstants : EndPriorityWindows(t) \/ CloseEndedSales(t)
    PROVE  UNCHANGED Inventory!inventoryVars
<1>1. sales \in DateSalesRow
  BY DEF DateSalesInv, TypeOK
<1>2. hold' = hold
  BY DEF CatalogFact, LockPrices, RecordSchedule, RecordOutcome, Waitlist, JoinWaitlist,
         LeaveWaitlist, EndWaitlist, EndPriorityWindows, CloseEndedSales
<1>3. CatalogFact => SameSeats(sales, sales')
  BY ZenonT(40), <1>1 DEF CatalogFact, LockPrices, RecordSchedule, RecordOutcome, lockPrices,
              recordSchedule, recordOutcome, SameSeats, FreeSeats, DateSalesRow
<1>4. Waitlist => SameSeats(sales, sales')
  BY <1>1 DEF Waitlist, JoinWaitlist, LeaveWaitlist, moveWaitlistCount, SameSeats, FreeSeats,
              DateSalesRow
<1>5. EndWaitlist => SameSeats(sales, sales')
  BY <1>1, CloseWaitlistRow DEF EndWaitlist, SameSeats
<1>6. ASSUME NEW t \in CommandInstants, EndPriorityWindows(t)
      PROVE  SameSeats(sales, sales')
  BY <1>6, EndedWindowFacts DEF EndPriorityWindows, SameSeats
<1>7. ASSUME NEW t \in CommandInstants, CloseEndedSales(t)
      PROVE  SameSeats(sales, sales')
  BY <1>1, <1>7 DEF CloseEndedSales, endSales, SameSeats, FreeSeats, DateSalesRow
<1> QED
  BY <1>2, <1>3, <1>4, <1>5, <1>6, <1>7, InventoryUnchanged

\* The reads of a purchase, its refusal, a lost retake and the clock move nothing.
LEMMA StillStep ==
    ASSUME \/ \E h \in Holds : BeginTake(h) \/ RefuseHold(h) \/ BeginRetake(h) \/ LoseSeats(h)
           \/ Tick
           \/ UNCHANGED vars
    PROVE  UNCHANGED Inventory!inventoryVars
<1>1. sales' = sales /\ hold' = hold
  BY DEF BeginTake, RefuseHold, BeginRetake, LoseSeats, Tick, vars
<1> QED
  BY <1>1, InventoryUnchanged DEF SameSeats

\* A tier widens the inventory by its seats, wherever they go on sale.
LEMMA OpenCapacityTierStep ==
    ASSUME DateSalesInv, NEW n \in TierSizes, NEW notify \in BOOLEAN,
           NEW t \in CommandInstants, OpenCapacityTier(n, notify, t)
    PROVE  Inventory!InventoryNext
<1> DEFINE row == IF WindowDue(t) THEN EndedWindow ELSE sales
           until == t + PriorityTtl
<1>1. n \in Nat \ {0} /\ until \in Instant
  BY DateSalesAssumption DEF CommandInstants, Instant
<1>2. /\ row \in DateSalesRow
      /\ FreeSeats(row) = FreeSeats(sales)
      /\ row.seatsSold = sales.seatsSold
      /\ row.capacityTotal = sales.capacityTotal
  BY EndedWindowFacts DEF DateSalesInv, TypeOK
<1>3. sales' = openCapacityTier(row, n, notify, until) /\ hold' = hold
  BY DEF OpenCapacityTier
<1> HIDE DEF row, until
<1>4. /\ FreeSeats(sales') = FreeSeats(row) + n
      /\ sales'.seatsSold = row.seatsSold
      /\ sales'.capacityTotal = row.capacityTotal + n
  BY <1>1, <1>2, <1>3, OpenCapacityTierRow
<1>5. sales.capacityTotal \in Nat
  BY DEF DateSalesInv, TypeOK, DateSalesRow
<1> QED
  BY <1>1, <1>2, <1>3, <1>4, <1>5, InventoryWidens

\* The conditional statement of a purchase places its hold, and places it once.
LEMMA TakeHoldStep ==
    ASSUME DateSalesInv, UnplacedUntilTaken, NEW h \in Holds, TakeHold(h)
    PROVE  Inventory!InventoryNext
<1> DEFINE t == take[h].at
           pool == take[h].fromPool
<1>1. /\ sales \in DateSalesRow /\ t \in Instant /\ pool \in BOOLEAN /\ Quantity[h] \in Nat
      /\ CanTakeSeats(sales, Quantity[h], t, pool)
      /\ sales' = takeSeats(sales, Quantity[h], t, pool)
  BY DateSalesAssumption DEF TakeHold, DateSalesInv, TypeOK, Take
<1>2. /\ sales' \in DateSalesRow
      /\ FreeSeats(sales') = FreeSeats(sales) - Quantity[h]
      /\ sales'.seatsSold = sales.seatsSold
      /\ sales'.capacityTotal = sales.capacityTotal
  BY <1>1, TakeSeatsRow
<1>3. FreeSeats(sales) >= Quantity[h]
  <2>1. FreeSeats(sales) \in Nat /\ FreeSeats(sales') \in Nat
    BY <1>1, <1>2 DEF FreeSeats, DateSalesRow
  <2> QED
    BY <1>1, <1>2, <2>1
<1>4. hold[h].state = "none"
  BY DEF TakeHold, UnplacedUntilTaken
<1>5. /\ hold'[h].state = "active"
      /\ \A g \in Holds \ {h} : hold'[g] = hold[g]
  BY DEF TakeHold, DateSalesInv, TypeOK
<1>6. Phases(hold)[h] = "unplaced" /\ Phases(hold') = [Phases(hold) EXCEPT ![h] = "held"]
  <2>1. Phases(hold)[h] = "unplaced" /\ Phases(hold')[h] = "held"
    BY <1>4, <1>5 DEF Phases
  <2>2. \A g \in Holds \ {h} : Phases(hold')[g] = Phases(hold)[g]
    BY <1>5 DEF Phases
  <2> QED
    BY ZenonT(40), <2>1, <2>2 DEF Phases
<1> QED
  BY <1>2, <1>3, <1>6, InventoryPlaces

\* A payment confirmed in time sells its hold.
LEMMA ConsumeHoldStep ==
    ASSUME DateSalesInv, NEW h \in Holds, NEW t \in CommandInstants, ConsumeHold(h, t)
    PROVE  Inventory!InventoryNext
<1>1. sales \in DateSalesRow /\ hold \in [Holds -> SeatHold] /\ hold[h].state = "active"
  BY DEF ConsumeHold, DateSalesInv, TypeOK
<1>2. /\ FreeSeats(sales') = FreeSeats(sales)
      /\ sales'.seatsSold = sales.seatsSold + Quantity[h]
      /\ sales'.capacityTotal = sales.capacityTotal
  BY <1>1 DEF ConsumeHold, sellHeldSeats, FreeSeats, DateSalesRow
<1>3. hold' = [hold EXCEPT ![h] = SpentHold("consumed")]
  BY DEF ConsumeHold
<1>4. Phases(hold)[h] = "held" /\ Phases(hold') = [Phases(hold) EXCEPT ![h] = "ended"]
  BY <1>1, <1>3 DEF Phases, SpentHold
<1> QED
  BY <1>2, <1>4, InventorySells

\* Whoever gives active holds back gives back the seats they carry.
LEMMA GiveBackStep ==
    ASSUME DateSalesInv, NEW B \in SUBSET Holds, NEW t \in Instant,
           NEW end \in {"released", "expired"},
           \A h \in B : hold[h].state = "active",
           hold' = [h \in Holds |-> IF h \in B THEN SpentHold(end) ELSE hold[h]],
           NEW pool \in 0..Cardinality(Seats(B)),
           sales' = returnHeldSeats(sales, Cardinality(Seats(B)), pool, t)
    PROVE  Inventory!InventoryNext
<1>1. sales \in DateSalesRow /\ Cardinality(Seats(B)) \in Nat
  BY SeatsFinite DEF DateSalesInv, TypeOK
<1>2. /\ FreeSeats(sales') = FreeSeats(sales) + Cardinality(Seats(B))
      /\ sales'.seatsSold = sales.seatsSold
      /\ sales'.capacityTotal = sales.capacityTotal
  BY <1>1, ReturnHeldSeatsRow
<1>3. /\ \A h \in B : Phases(hold)[h] = "held"
      /\ Phases(hold') = [h \in Holds |-> IF h \in B THEN "ended" ELSE Phases(hold)[h]]
  BY DEF Phases, SpentHold
<1> QED
  BY <1>2, <1>3, InventoryGivesBack

\* The sweeper's batch is one such step, for the whole of it.
LEMMA ExpireStep ==
    ASSUME DateSalesInv, NEW B \in SUBSET ActiveHolds, NEW t \in CommandInstants,
           ExpireDueHolds(B, t)
    PROVE  Inventory!InventoryNext
<1>1. t \in Instant /\ B \in SUBSET Holds
  BY DEF CommandInstants, Instant, ActiveHolds
<1>2. Cardinality(PoolSeats(B)) \in 0..Cardinality(Seats(B))
  BY <1>1, PoolSeatsWithin DEF DateSalesInv
<1>3. \A h \in B : hold[h].state = "active"
  BY DEF ExpireDueHolds
<1>4. /\ hold' = [h \in Holds |-> IF h \in B THEN SpentHold("expired") ELSE hold[h]]
      /\ sales' = returnHeldSeats(sales, Cardinality(Seats(B)), Cardinality(PoolSeats(B)), t)
  BY DEF ExpireDueHolds
<1> QED
  BY <1>1, <1>2, <1>3, <1>4, GiveBackStep

\* So is the release of one hold.
LEMMA ReleaseHoldStep ==
    ASSUME DateSalesInv, NEW h \in Holds, NEW settles \in BOOLEAN,
           NEW t \in CommandInstants, ReleaseHold(h, settles, t)
    PROVE  Inventory!InventoryNext
<1>1. t \in Instant /\ {h} \in SUBSET Holds
  BY DEF CommandInstants, Instant
<1>2. Cardinality(Seats({h})) = Quantity[h]
  BY SeatsOfOne
<1>3. hold[h].poolSeats \in 0..Cardinality(Seats({h}))
  BY <1>2, DateSalesAssumption DEF DateSalesInv, TypeOK, SeatHold, PoolShareWithinHold
<1>4. \A g \in {h} : hold[g].state = "active"
  BY DEF ReleaseHold
<1>5. hold' = [g \in Holds |-> IF g \in {h} THEN SpentHold("released") ELSE hold[g]]
  BY DEF ReleaseHold, DateSalesInv, TypeOK
<1>6. sales' = returnHeldSeats(sales, Cardinality(Seats({h})), hold[h].poolSeats, t)
  BY <1>2 DEF ReleaseHold
<1> QED
  BY <1>1, <1>3, <1>4, <1>5, <1>6, GiveBackStep

\* A payment confirmed too late sells free seats, its hold staying ended.
LEMMA RetakeSeatsStep ==
    ASSUME DateSalesInv, NEW h \in Holds, RetakeSeats(h)
    PROVE  Inventory!InventoryNext
<1> DEFINE t == take[h].at
           pool == take[h].fromPool
           r == takeSeats(sales, Quantity[h], t, pool)
<1>1. /\ sales \in DateSalesRow /\ t \in Instant /\ pool \in BOOLEAN /\ Quantity[h] \in Nat
      /\ CanTakeSeats(sales, Quantity[h], t, pool)
      /\ sales' = [r EXCEPT !.seatsSold = r.seatsSold + Quantity[h]]
      /\ hold' = hold
  BY DateSalesAssumption
     DEF RetakeSeats, takeAndSellSeats, sellHeldSeats, DateSalesInv, TypeOK, Take
<1>2. /\ r \in DateSalesRow
      /\ FreeSeats(r) = FreeSeats(sales) - Quantity[h]
      /\ r.seatsSold = sales.seatsSold
      /\ r.capacityTotal = sales.capacityTotal
  BY <1>1, TakeSeatsRow
<1> HIDE DEF r, t, pool
<1>3. FreeSeats(sales) >= Quantity[h]
  <2>1. FreeSeats(sales) \in Nat /\ FreeSeats(r) \in Nat
    BY <1>1, <1>2 DEF FreeSeats, DateSalesRow
  <2> QED
    BY <1>1, <1>2, <2>1
<1>4. /\ FreeSeats(sales') = FreeSeats(r)
      /\ sales'.seatsSold = r.seatsSold + Quantity[h]
      /\ sales'.capacityTotal = r.capacityTotal
  BY <1>1, <1>2 DEF FreeSeats, DateSalesRow
<1> QED
  BY <1>1, <1>2, <1>3, <1>4, InventorySellsFree

\* A cancelled seat is free again.
LEMMA ReleaseSoldSeatStep ==
    ASSUME DateSalesInv, ReleaseSoldSeat
    PROVE  Inventory!InventoryNext
<1>1. sales \in DateSalesRow
  BY DEF DateSalesInv, TypeOK
<1>2. /\ sales.seatsAvailable \in Nat /\ sales.priorityPoolSeats \in Nat
      /\ sales.seatsSold \in Nat /\ sales.seatsSold >= 1
  BY <1>1 DEF DateSalesRow, ReleaseSoldSeat, CanReleaseSoldSeats
<1>3. /\ sales'.seatsAvailable = sales.seatsAvailable + 1
      /\ sales'.seatsSold = sales.seatsSold - 1
      /\ sales'.capacityTotal = sales.capacityTotal
      /\ sales'.priorityPoolSeats = sales.priorityPoolSeats
      /\ hold' = hold
  BY <1>1 DEF ReleaseSoldSeat, releaseSoldSeats, DateSalesRow
<1>4. FreeSeats(sales') = FreeSeats(sales) + (sales.seatsSold - sales'.seatsSold)
  BY <1>2, <1>3 DEF FreeSeats
<1> QED
  BY <1>2, <1>3, <1>4, InventoryReleases

\* Every step of the date is a step of the inventory or leaves it alone.
LEMMA InventoryStep ==
    ASSUME DateSalesInv, UnplacedUntilTaken, [Next]_vars
    PROVE  Inventory!InventoryNext \/ UNCHANGED Inventory!inventoryVars
<1>1. CASE CatalogFact \/ Waitlist \/ EndWaitlist
  BY <1>1, RowStandsStep
<1>2. CASE Studio
  BY <1>2, OpenCapacityTierStep DEF Studio
<1>3. CASE Purchase
  <2>1. PICK h \in Holds :
            \/ BeginTake(h) \/ TakeHold(h) \/ RefuseHold(h)
            \/ BeginRetake(h) \/ RetakeSeats(h) \/ LoseSeats(h)
            \/ \E t \in CommandInstants :
                   \/ ConsumeHold(h, t)
                   \/ \E settles \in BOOLEAN : ReleaseHold(h, settles, t)
    BY <1>3 DEF Purchase
  <2> QED
    BY <2>1, StillStep, TakeHoldStep, RetakeSeatsStep, ConsumeHoldStep, ReleaseHoldStep
<1>4. CASE Sweeper
  BY <1>4, ExpireStep, RowStandsStep DEF Sweeper
<1>5. CASE ReleaseSoldSeat
  BY <1>5, ReleaseSoldSeatStep
<1>6. CASE Tick \/ UNCHANGED vars
  BY <1>6, StillStep
<1> QED
  BY <1>1, <1>2, <1>3, <1>4, <1>5, <1>6 DEF Next

\* The date's row and its holds implement the seat inventory: whatever the pool, the
\* windows, the stale instants and the late payments, seats are only opened, held
\* once, given back, sold and released.
THEOREM DateSalesImplementInventory == Spec => ImplementsInventory
<1>1. Init => Inventory!InventoryInit
  BY DEF Init, OpenedRow, SpentHold, Inventory!InventoryInit
<1>2. DateSalesInv /\ UnplacedUntilTaken /\ [Next]_vars
          => Inventory!InventoryNext \/ UNCHANGED Inventory!inventoryVars
  <2>1. ASSUME DateSalesInv, UnplacedUntilTaken, [Next]_vars
        PROVE  Inventory!InventoryNext \/ UNCHANGED Inventory!inventoryVars
    BY <2>1, InventoryStep
  <2> QED
    BY <2>1
<1> QED
  BY <1>1, <1>2, DateSalesCorrect, PTL DEF Spec, ImplementsInventory, Inventory!InventorySpec
=============================================================================
