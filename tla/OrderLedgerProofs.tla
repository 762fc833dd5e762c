------------------------- MODULE OrderLedgerProofs -------------------------
(***************************************************************************)
(* Proofs about OrderLedger, for any number of orders, seats and amounts,  *)
(* any batch and any number of the studio's refunds.                       *)
(***************************************************************************)
EXTENDS OrderLedger, FiniteSetTheorems, SequenceTheorems, TLAPS

-----------------------------------------------------------------------------
(***************************************************************************)
(* The inductive invariant.                                                *)
(***************************************************************************)

\* An order before any payment of it gave seats.
Unseated(x) == x.state \in {"unplaced", "awaiting", "failed"}

\* An order without seats has given nothing back yet, and one never placed owes nothing.
SeatsGiven(o, x) ==
    /\ Unseated(x) => /\ x.seats = <<>> /\ x.credit = 0
                      /\ \A i \in DOMAIN x.refunds : ~x.refunds[i].made
    /\ x.state = "unplaced" => x.refunds = <<>>
    /\ x.seats # <<>> => Len(x.seats) = Quantity[o]

\* Of a seat: its refund is its order's, made exactly when it says so; one not cancelled
\* was given nothing back.
SeatTold(x, s) ==
    /\ x.seats[s].refundId <= Len(x.refunds)
    /\ x.seats[s].state = "refunded" <=>
           x.seats[s].refundId # 0 /\ x.refunds[x.seats[s].refundId].made
    /\ x.seats[s].state \in {"active", "credited"} =>
           x.seats[s].refundId = 0 /\ x.seats[s].cancelReason = "none"

SeatsTold(x) == \A s \in DOMAIN x.seats : SeatTold(x, s)

\* What the seats of a refund hold of it is within it.
SharesWithin(x) ==
    \A i \in DOMAIN x.refunds :
        SumOf([s \in SeatsOf(x, i) |-> x.seats[s].refundAmount]) <= x.refunds[i].amount

\* The money: never more back than was paid, and the state tells how much was.
MoneyWithin(o, x) ==
    /\ owed(x) + x.credit <= Total[o]
    /\ x.credit > 0 => ActiveSeats(x) = {}

StateTold(o, x) ==
    x.state # "disputed" =>
        /\ x.state = "refunded" <=> refunded(x) = Total[o]
        /\ x.state = "partially_refunded" <=> refunded(x) > 0 /\ refunded(x) < Total[o]

\* What is left to give back is at most the shares of the seats that are active, while the
\* others were all given back by the viewer.
RestOfShares(o, x) ==
    /\ x.seats # <<>> /\ x.state # "disputed"
    /\ \A s \in DOMAIN x.seats :
           x.seats[s].state # "active" => x.seats[s].cancelReason = "viewer_request"
    => refundableLeft(o, x)
           <= SumOf([s \in ActiveSeats(x) |-> share(Total[o], Quantity[o], s)])

\* An order the settlement of a cancelled date took has nothing left to give back.
TakenOwesAll(o, x) ==
    x.outcomeSettled =>
        /\ sales.outcome # "none"
        /\ sales.outcome = "cancelled" /\ x.state # "disputed" => owed(x) = Total[o]

OrderTold(o, x) ==
    /\ SeatsGiven(o, x) /\ SeatsTold(x) /\ SharesWithin(x)
    /\ MoneyWithin(o, x) /\ StateTold(o, x) /\ RestOfShares(o, x)

OrderOK(o, x) == OrderTold(o, x) /\ TakenOwesAll(o, x)

\* An order in a transaction is as it was when it was locked.
TxOK(o) ==
    /\ tx[o].kind = "payment" => Placed(o) /\ acceptsPayment(order[o])
    /\ tx[o].kind = "cancel" => tx[o].seat \in ActiveSeats(order[o])

\* A settled date has an outcome, and nothing left seated that the pass did not take, nor held.
SettlementOK ==
    /\ settlement.recorded <=> sales.outcome # "none"
    /\ settlement.settled => /\ settlement.recorded
                             /\ \A o \in Orders : NothingLeftToSettle(order[o])

LedgerInv ==
    /\ TypeOK
    /\ \A o \in Orders : OrderOK(o, order[o]) /\ TxOK(o)
    /\ SettlementOK

-----------------------------------------------------------------------------
(***************************************************************************)
(* Amounts counted unit by unit.                                           *)
(***************************************************************************)

\* The units of an amount, each of its holder's.
LEMMA UnitsAre ==
    ASSUME NEW amount, NEW p
    PROVE  p \in Units(amount) <=> \E k \in DOMAIN amount : \E u \in 1 .. amount[k] : p = <<k, u>>
BY DEF Units

\* One holder's units are as many as its amount.
LEMMA UnitsOfOne ==
    ASSUME NEW k, NEW a \in Nat
    PROVE  IsFiniteSet({k} \X (1 .. a)) /\ Cardinality({k} \X (1 .. a)) = a
<1> DEFINE f == [u \in 1 .. a |-> <<k, u>>]
<1>1. f \in Bijection(1 .. a, {k} \X (1 .. a))
  <2>1. f \in [1 .. a -> {k} \X (1 .. a)]
    OBVIOUS
  <2>2. \A u, v \in 1 .. a : f[u] = f[v] => u = v
    OBVIOUS
  <2>3. \A p \in {k} \X (1 .. a) : \E u \in 1 .. a : f[u] = p
    OBVIOUS
  <2> QED
    BY <2>1, <2>2, <2>3, Zenon DEF Bijection, Injection, Surjection, IsInjective
<1>2. IsFiniteSet(1 .. a) /\ Cardinality(1 .. a) = a
  BY FS_Interval
<1> QED
  BY <1>1, <1>2, FS_Bijection DEF ExistsBijection

\* Finitely many holders hold finitely many units.
LEMMA SumNat ==
    ASSUME NEW S, IsFiniteSet(S), NEW f \in [S -> Nat]
    PROVE  IsFiniteSet(Units(f)) /\ SumOf(f) \in Nat
<1> DEFINE parts == {{k} \X (1 .. f[k]) : k \in S}
           part == [k \in S |-> {k} \X (1 .. f[k])]
<1>1. part \in Surjection(S, parts)
  BY DEF Surjection
<1>2. IsFiniteSet(parts)
  BY <1>1, FS_Surjection
<1>3. \A P \in parts : IsFiniteSet(P)
  <2> SUFFICES ASSUME NEW k \in S
               PROVE  IsFiniteSet({k} \X (1 .. f[k]))
    BY Zenon
  <2>1. f[k] \in Nat
    OBVIOUS
  <2> QED
    BY <2>1, UnitsOfOne
<1>4. IsFiniteSet(UNION parts)
  BY <1>2, <1>3, FS_UNION
<1>5. Units(f) = UNION parts
  BY DEF Units
<1> QED
  BY <1>4, <1>5, FS_CardinalityType DEF SumOf

\* Nobody holds nothing.
LEMMA SumEmpty ==
    ASSUME NEW f \in [{} -> Nat]
    PROVE  SumOf(f) = 0
<1>1. Units(f) = {}
  BY DEF Units
<1> QED
  BY <1>1, FS_EmptySet DEF SumOf

\* One holder more adds what it holds.
LEMMA SumPlus ==
    ASSUME NEW S, IsFiniteSet(S), NEW x, x \notin S, NEW f \in [S -> Nat],
           NEW g \in [S \cup {x} -> Nat], \A k \in S : g[k] = f[k]
    PROVE  SumOf(g) = SumOf(f) + g[x]
<1> DEFINE own == {x} \X (1 .. g[x])
<1>1. IsFiniteSet(own) /\ Cardinality(own) = g[x] /\ g[x] \in Nat
  BY UnitsOfOne
<1>2. IsFiniteSet(Units(f)) /\ SumOf(f) \in Nat
  BY SumNat
<1>3. Units(g) = Units(f) \cup own
  <2>1. DOMAIN f = S /\ DOMAIN g = S \cup {x}
    OBVIOUS
  <2>2. \A p : p \in Units(g) <=> p \in Units(f) \/ p \in own
    BY <2>1, UnitsAre
  <2> QED
    BY <2>2
<1>4. Units(f) \cap own = {}
  <2> SUFFICES ASSUME NEW p \in Units(f), p \in own
               PROVE  FALSE
    OBVIOUS
  <2>1. PICK k \in S : \E u \in 1 .. f[k] : p = <<k, u>>
    BY UnitsAre
  <2> QED
    BY <2>1
<1> HIDE DEF own
<1>5. Cardinality(Units(f) \cup own) = Cardinality(Units(f)) + Cardinality(own)
  <2>1. Cardinality(Units(f) \cap own) = 0
    BY <1>4, FS_EmptySet
  <2>2. Cardinality(Units(f) \cup own)
            = Cardinality(Units(f)) + Cardinality(own) - Cardinality(Units(f) \cap own)
    BY <1>1, <1>2, FS_Union
  <2> QED
    BY <1>1, <1>2, <2>1, <2>2 DEF SumOf
<1> QED
  BY <1>1, <1>2, <1>3, <1>5 DEF SumOf

\* Fewer holders, each of no more, hold no more.
LEMMA SumWithin ==
    ASSUME NEW S, IsFiniteSet(S), NEW T \in SUBSET S, NEW f \in [S -> Nat], NEW g \in [T -> Nat],
           \A k \in T : g[k] <= f[k]
    PROVE  SumOf(g) <= SumOf(f)
<1>1. IsFiniteSet(Units(f))
  BY SumNat
<1>2. Units(g) \subseteq Units(f)
  <2> SUFFICES ASSUME NEW p \in Units(g)
               PROVE  p \in Units(f)
    OBVIOUS
  <2>1. PICK k \in T : \E u \in 1 .. g[k] : p = <<k, u>>
    BY UnitsAre
  <2>2. \E u \in 1 .. f[k] : p = <<k, u>>
    BY <2>1
  <2> QED
    BY <2>2, UnitsAre
<1> QED
  BY <1>1, <1>2, FS_Subset DEF SumOf

-----------------------------------------------------------------------------
(***************************************************************************)
(* Shares.                                                                 *)
(***************************************************************************)

\* Multiples of the number of places are apart by it.
LEMMA MultiplesApart ==
    ASSUME NEW u \in Nat, NEW v \in Nat, NEW n \in Nat
    PROVE  /\ u < v => u * n + n <= v * n
           /\ u * n \in Nat
OBVIOUS

\* A total is its even part for each place and what is left over, less than the places.
LEMMA Divided ==
    ASSUME NEW total \in Nat, NEW n \in Nat, n > 0
    PROVE  /\ total \div n \in Nat /\ total % n \in Nat /\ total % n < n
           /\ total = (total \div n) * n + (total % n)
           /\ \A place \in 1 .. n :
                 share(total, n, place)
                     = IF place <= total % n THEN (total \div n) + 1 ELSE total \div n
<1>1. total \div n \in Nat
  OBVIOUS
<1>2. total % n \in 0 .. n - 1
  OBVIOUS
<1>3. total = n * (total \div n) + (total % n)
  BY SMTT(30)
<1>4. n * (total \div n) = (total \div n) * n
  BY <1>1
<1> QED
  BY <1>1, <1>2, <1>3, <1>4 DEF share

\* The u-th unit of a place's share is a unit of the total of its own.
LEMMA ShareUnit ==
    ASSUME NEW total \in Nat, NEW n \in Nat, n > 0, NEW place \in 1 .. n, NEW u \in Nat, u > 0
    PROVE  /\ (u - 1) * n + place \in Nat /\ (u - 1) * n + place >= 1
           /\ u <= share(total, n, place) <=> (u - 1) * n + place <= total
<1> DEFINE q == total \div n
           r == total % n
           m == (u - 1) * n
<1>1. q \in Nat /\ r \in Nat /\ r < n /\ total = q * n + r
  BY Divided
<1>2. share(total, n, place) = IF place <= r THEN q + 1 ELSE q
  BY Divided
<1>3. /\ u - 1 \in Nat /\ m \in Nat /\ q * n \in Nat
      /\ u - 1 < q => m + n <= q * n
      /\ q < u - 1 => q * n + n <= m
  <2>1. u - 1 \in Nat
    OBVIOUS
  <2> QED
    BY <2>1, <1>1, MultiplesApart
<1>4. u - 1 = q => m = q * n
  OBVIOUS
<1> HIDE DEF q, r, m
<1>5. u <= share(total, n, place) <=> m + place <= total
  <2>1. CASE u - 1 < q
    BY <2>1, <1>1, <1>2, <1>3
  <2>2. CASE u - 1 = q
    BY <2>2, <1>1, <1>2, <1>3, <1>4
  <2>3. CASE q < u - 1
    BY <2>3, <1>1, <1>2, <1>3
  <2> QED
    BY <2>1, <2>2, <2>3, <1>1, <1>3
<1> QED
  BY <1>3, <1>5 DEF m

\* Two units of shares are the same unit of the total only at the same place.
LEMMA ShareUnitsApart ==
    ASSUME NEW n \in Nat, n > 0, NEW k \in 1 .. n, NEW l \in 1 .. n,
           NEW u \in Nat, u > 0, NEW v \in Nat, v > 0,
           (u - 1) * n + k = (v - 1) * n + l
    PROVE  u = v /\ k = l
<1> DEFINE a == (u - 1) * n
           b == (v - 1) * n
<1>1. u - 1 \in Nat /\ v - 1 \in Nat
  OBVIOUS
<1>2. /\ a \in Nat /\ b \in Nat
      /\ u - 1 < v - 1 => a + n <= b
      /\ v - 1 < u - 1 => b + n <= a
  BY <1>1, MultiplesApart
<1>3. u = v => a = b
  OBVIOUS
<1>4. a + k = b + l
  OBVIOUS
<1> HIDE DEF a, b
<1> QED
  BY <1>2, <1>3, <1>4

\* The shares of all the places are the total.
LEMMA SharesFill ==
    ASSUME NEW total \in Nat, NEW n \in Nat, n > 0
    PROVE  SumOf([k \in 1 .. n |-> share(total, n, k)]) = total
<1> DEFINE f == [k \in 1 .. n |-> share(total, n, k)]
           h == [p \in Units(f) |-> (p[2] - 1) * n + p[1]]
<1>1. \A k \in 1 .. n : share(total, n, k) \in Nat
  BY Divided
<1>2. \A p : p \in Units(f) <=> \E k \in 1 .. n : \E u \in 1 .. share(total, n, k) : p = <<k, u>>
  BY UnitsAre
<1>3. \A p \in Units(f) :
          /\ p = <<p[1], p[2]>> /\ p[1] \in 1 .. n /\ p[2] \in Nat /\ p[2] > 0
          /\ p[2] <= share(total, n, p[1])
  BY <1>1, <1>2
<1>4. h \in [Units(f) -> 1 .. total]
  <2> SUFFICES ASSUME NEW p \in Units(f)
               PROVE  (p[2] - 1) * n + p[1] \in 1 .. total
    OBVIOUS
  <2> QED
    BY <1>3, ShareUnit
<1>5. \A p, q \in Units(f) : h[p] = h[q] => p = q
  <2> SUFFICES ASSUME NEW p \in Units(f), NEW q \in Units(f), h[p] = h[q]
               PROVE  p = q
    OBVIOUS
  <2>1. (p[2] - 1) * n + p[1] = (q[2] - 1) * n + q[1]
    OBVIOUS
  <2>2. p[2] = q[2] /\ p[1] = q[1]
    BY <1>3, <2>1, ShareUnitsApart
  <2> QED
    BY <1>3, <2>2
<1>6. \A m \in 1 .. total : \E p \in Units(f) : h[p] = m
  <2> SUFFICES ASSUME NEW m \in 1 .. total
               PROVE  \E p \in Units(f) : h[p] = m
    OBVIOUS
  <2> DEFINE q == (m - 1) \div n
             r == (m - 1) % n
             k == r + 1
             u == q + 1
  <2>1. q \in Nat /\ r \in Nat /\ r < n /\ m - 1 = q * n + r
    BY Divided, m - 1 \in Nat
  <2> HIDE DEF q, r
  <2>2. k \in 1 .. n /\ u \in Nat /\ u > 0 /\ u - 1 = q
    BY <2>1
  <2>3. (u - 1) * n + k = m
    BY <2>1, <2>2
  <2>4. u <= share(total, n, k)
    BY <2>2, <2>3, ShareUnit
  <2>5. share(total, n, k) \in Nat
    BY <2>2, <1>1
  <2>6. u \in 1 .. share(total, n, k)
    BY <2>2, <2>4, <2>5
  <2> HIDE DEF k, u
  <2>7. <<k, u>> \in Units(f)
    BY <2>2, <2>6, <1>2
  <2>8. h[<<k, u>>] = (u - 1) * n + k
    BY <2>7
  <2> QED
    BY <2>7, <2>8, <2>3
<1>7. h \in Bijection(Units(f), 1 .. total)
  BY <1>4, <1>5, <1>6, Zenon DEF Bijection, Injection, Surjection, IsInjective
<1>8. f \in [1 .. n -> Nat]
  BY <1>1
<1>9. IsFiniteSet(1 .. n) /\ IsFiniteSet(1 .. total) /\ Cardinality(1 .. total) = total
  BY FS_Interval
<1>10. IsFiniteSet(Units(f))
  BY <1>8, <1>9, SumNat
<1> HIDE DEF f, h
<1>11. Cardinality(Units(f)) = Cardinality(1 .. total)
  BY <1>7, <1>10, <1>9, FS_Bijection DEF ExistsBijection
<1> QED
  BY <1>11, <1>9 DEF SumOf, f

\* The shares of places no two holders have are within the total.
LEMMA SharesOfPlaces ==
    ASSUME NEW total \in Nat, NEW n \in Nat, n > 0, NEW S, IsFiniteSet(S),
           NEW place \in [S -> 1 .. n], \A s, t \in S : place[s] = place[t] => s = t
    PROVE  /\ \A s \in S : share(total, n, place[s]) \in Nat
           /\ SumOf([s \in S |-> share(total, n, place[s])]) <= total
<1> DEFINE f == [s \in S |-> share(total, n, place[s])]
           h == [p \in Units(f) |-> (p[2] - 1) * n + place[p[1]]]
<1>1. \A s \in S : share(total, n, place[s]) \in Nat
  BY Divided
<1>2. \A p : p \in Units(f) <=> \E k \in S : \E u \in 1 .. share(total, n, place[k]) : p = <<k, u>>
  BY UnitsAre
<1>3. \A p \in Units(f) :
          /\ p = <<p[1], p[2]>> /\ p[1] \in S /\ p[2] \in Nat /\ p[2] > 0
          /\ p[2] <= share(total, n, place[p[1]])
  BY <1>1, <1>2
<1>4. h \in [Units(f) -> 1 .. total]
  <2> SUFFICES ASSUME NEW p \in Units(f)
               PROVE  (p[2] - 1) * n + place[p[1]] \in 1 .. total
    OBVIOUS
  <2>1. place[p[1]] \in 1 .. n
    BY <1>3
  <2> QED
    BY <1>3, <2>1, ShareUnit
<1>5. \A p, q \in Units(f) : h[p] = h[q] => p = q
  <2> SUFFICES ASSUME NEW p \in Units(f), NEW q \in Units(f), h[p] = h[q]
               PROVE  p = q
    OBVIOUS
  <2>1. (p[2] - 1) * n + place[p[1]] = (q[2] - 1) * n + place[q[1]]
    OBVIOUS
  <2>2. place[p[1]] \in 1 .. n /\ place[q[1]] \in 1 .. n
    BY <1>3
  <2>3. p[2] = q[2] /\ place[p[1]] = place[q[1]]
    BY <1>3, <2>1, <2>2, ShareUnitsApart
  <2> QED
    BY <1>3, <2>3
<1>7. h \in Injection(Units(f), 1 .. total)
  BY <1>4, <1>5, Zenon DEF Injection, IsInjective
<1>8. IsFiniteSet(1 .. total) /\ Cardinality(1 .. total) = total
  BY FS_Interval
<1> HIDE DEF f, h
<1>11. Cardinality(Units(f)) <= Cardinality(1 .. total)
  BY <1>7, <1>8, FS_Injection DEF ExistsInjection
<1> QED
  BY <1>1, <1>11, <1>8 DEF SumOf, f

\* A seat's place among some seats is its own, and one of as many.
LEMMA PlacesApart ==
    ASSUME NEW n \in Nat, NEW S \in SUBSET (1 .. n)
    PROVE  /\ IsFiniteSet(S) /\ Cardinality(S) \in Nat
           /\ \A s \in S : PlaceAmong(S, s) \in 1 .. Cardinality(S)
           /\ \A s, t \in S : PlaceAmong(S, s) = PlaceAmong(S, t) => s = t
<1>0. IsFiniteSet(1 .. n)
  BY FS_Interval
<1>1. IsFiniteSet(S) /\ Cardinality(S) \in Nat
  BY <1>0, FS_Subset, FS_CardinalityType
<1> DEFINE upto(s) == {t \in S : t <= s}
<1>2. \A s \in S : IsFiniteSet(upto(s)) /\ Cardinality(upto(s)) \in Nat
                   /\ Cardinality(upto(s)) <= Cardinality(S)
  BY <1>1, FS_Subset, FS_CardinalityType
<1>3. \A s \in S : Cardinality(upto(s)) # 0
  BY <1>2, FS_EmptySet
<1>4. \A s, t \in S : s < t => Cardinality(upto(s)) < Cardinality(upto(t))
  <2> SUFFICES ASSUME NEW s \in S, NEW t \in S, s < t
               PROVE  Cardinality(upto(s)) < Cardinality(upto(t))
    OBVIOUS
  <2>0. \A r \in S : r \in Nat
    OBVIOUS
  <2>1. upto(s) \subseteq upto(t) /\ t \in upto(t) /\ t \notin upto(s)
    <3>1. \A r \in S : r <= s => r <= t
      BY <2>0
    <3>2. t <= t /\ ~(t <= s)
      BY <2>0
    <3> QED
      BY <3>1, <3>2
  <2>2. upto(s) # upto(t)
    BY <2>1
  <2> HIDE DEF upto
  <2> QED
    BY <2>1, <2>2, <1>2, FS_Subset
<1>5. \A s \in S : PlaceAmong(S, s) = Cardinality(upto(s))
  BY DEF PlaceAmong
<1> HIDE DEF upto
<1>6. \A s \in S : PlaceAmong(S, s) \in 1 .. Cardinality(S)
  BY <1>1, <1>2, <1>3, <1>5
<1>7. \A s, t \in S : PlaceAmong(S, s) = PlaceAmong(S, t) => s = t
  <2> SUFFICES ASSUME NEW s \in S, NEW t \in S, PlaceAmong(S, s) = PlaceAmong(S, t)
               PROVE  s = t
    OBVIOUS
  <2>1. ~(s < t) /\ ~(t < s)
    BY <1>2, <1>4, <1>5
  <2>2. s \in Nat /\ t \in Nat
    OBVIOUS
  <2> QED
    BY <2>1, <2>2
<1> QED
  BY <1>1, <1>6, <1>7

-----------------------------------------------------------------------------
(***************************************************************************)
(* An order and what its operations make of it.                            *)
(***************************************************************************)

\* The parts of an order.
LEMMA OrderShape ==
    ASSUME NEW x \in SeatOrder
    PROVE  /\ x.state \in OrderState /\ x.credit \in Nat /\ x.outcomeSettled \in BOOLEAN
           /\ x.hold \in BOOLEAN
           /\ x.seats \in Seq(Seat) /\ x.refunds \in Seq(Refund)
           /\ Len(x.seats) \in Nat /\ DOMAIN x.seats = 1 .. Len(x.seats)
           /\ Len(x.refunds) \in Nat /\ DOMAIN x.refunds = 1 .. Len(x.refunds)
           /\ \A s \in DOMAIN x.seats :
                 /\ x.seats[s] \in Seat
                 /\ x.seats[s].refundId \in Nat /\ x.seats[s].refundAmount \in Nat
           /\ \A i \in DOMAIN x.refunds :
                 /\ x.refunds[i] \in Refund
                 /\ x.refunds[i].amount \in Nat /\ x.refunds[i].amount > 0
                 /\ x.refunds[i].made \in BOOLEAN
<1>1. /\ x.state \in OrderState /\ x.credit \in Nat /\ x.outcomeSettled \in BOOLEAN
      /\ x.hold \in BOOLEAN /\ x.seats \in Seq(Seat) /\ x.refunds \in Seq(Refund)
  BY DEF SeatOrder
<1>2. /\ Len(x.seats) \in Nat /\ DOMAIN x.seats = 1 .. Len(x.seats)
      /\ Len(x.refunds) \in Nat /\ DOMAIN x.refunds = 1 .. Len(x.refunds)
      /\ \A s \in 1 .. Len(x.seats) : x.seats[s] \in Seat
      /\ \A i \in 1 .. Len(x.refunds) : x.refunds[i] \in Refund
  BY <1>1
<1>3. \A r \in Refund : r.amount \in Nat /\ r.amount > 0 /\ r.made \in BOOLEAN
  BY DEF Refund
<1>4. \A r \in Seat : r.refundId \in Nat /\ r.refundAmount \in Nat
  BY DEF Seat
<1> QED
  BY <1>1, <1>2, <1>3, <1>4

\* A function of an order's places is a sequence.
LEMMA SeqOf ==
    ASSUME NEW S, NEW n \in Nat, NEW f \in [1 .. n -> S]
    PROVE  f \in Seq(S) /\ Len(f) = n /\ DOMAIN f = 1 .. n
OBVIOUS

\* What some refunds of an order come to is an amount; fewer come to no more.
LEMMA AmountsWithin ==
    ASSUME NEW x \in SeatOrder, NEW R \in SUBSET DOMAIN x.refunds, NEW Q \in SUBSET R
    PROVE  /\ AmountsOf(x, R) \in Nat /\ AmountsOf(x, Q) \in Nat
           /\ AmountsOf(x, Q) <= AmountsOf(x, R)
<1>1. IsFiniteSet(R) /\ IsFiniteSet(Q)
  <2>1. IsFiniteSet(DOMAIN x.refunds)
    BY OrderShape, FS_Interval
  <2>2. IsFiniteSet(R)
    BY <2>1, FS_Subset
  <2> QED
    BY <2>2, FS_Subset
<1> DEFINE f == [i \in R |-> x.refunds[i].amount]
           g == [i \in Q |-> x.refunds[i].amount]
<1>2. f \in [R -> Nat] /\ g \in [Q -> Nat] /\ \A i \in Q : g[i] <= f[i]
  BY OrderShape
<1> HIDE DEF f, g
<1>3. SumOf(f) \in Nat /\ SumOf(g) \in Nat /\ SumOf(g) <= SumOf(f)
  BY <1>1, <1>2, SumNat, SumWithin
<1> QED
  BY <1>3 DEF AmountsOf, f, g

\* The refunds made are among those owed.
LEMMA MadeWithinOwed ==
    ASSUME NEW x \in SeatOrder
    PROVE  owed(x) \in Nat /\ refunded(x) \in Nat /\ refunded(x) <= owed(x)
BY AmountsWithin DEF owed, refunded

\* A refund more comes to its amount more.
LEMMA AmountsPlus ==
    ASSUME NEW x \in SeatOrder, NEW R \in SUBSET DOMAIN x.refunds,
           NEW i \in DOMAIN x.refunds, i \notin R
    PROVE  AmountsOf(x, R \cup {i}) = AmountsOf(x, R) + x.refunds[i].amount
<1>1. IsFiniteSet(R)
  <2>1. IsFiniteSet(DOMAIN x.refunds)
    BY OrderShape, FS_Interval
  <2> QED
    BY <2>1, FS_Subset
<1> DEFINE f == [j \in R |-> x.refunds[j].amount]
           g == [j \in R \cup {i} |-> x.refunds[j].amount]
<1>2. /\ f \in [R -> Nat] /\ g \in [R \cup {i} -> Nat] /\ \A j \in R : g[j] = f[j]
      /\ g[i] = x.refunds[i].amount
  BY OrderShape
<1> HIDE DEF f, g
<1>3. SumOf(g) = SumOf(f) + g[i]
  BY <1>1, <1>2, SumPlus
<1> QED
  BY <1>2, <1>3 DEF AmountsOf, f, g

\* The same refunds come to the same.
LEMMA AmountsSame ==
    ASSUME NEW x, NEW y, NEW R, \A i \in R : y.refunds[i].amount = x.refunds[i].amount
    PROVE  AmountsOf(y, R) = AmountsOf(x, R)
<1>1. [i \in R |-> y.refunds[i].amount] = [i \in R |-> x.refunds[i].amount]
  BY Zenon
<1> QED
  BY <1>1 DEF AmountsOf

\* A refund owed more: the order's last, not made.
LEMMA Owes ==
    ASSUME NEW x \in SeatOrder, NEW amount \in Nat \ {0}
    PROVE  LET y == owe(x, amount) IN
           /\ y \in SeatOrder
           /\ y.state = x.state /\ y.hold = x.hold /\ y.seats = x.seats /\ y.credit = x.credit
           /\ y.outcomeSettled = x.outcomeSettled
           /\ Len(y.refunds) = Len(x.refunds) + 1
           /\ \A i \in 1 .. Len(x.refunds) : y.refunds[i] = x.refunds[i]
           /\ y.refunds[Len(x.refunds) + 1] = [amount |-> amount, made |-> FALSE]
           /\ owed(y) = owed(x) + amount /\ refunded(y) = refunded(x)
<1> DEFINE y == owe(x, amount)
           n == Len(x.refunds)
           r == [amount |-> amount, made |-> FALSE]
<1>1. r \in Refund /\ r.amount = amount /\ r.made = FALSE
  BY DEF Refund
<1> HIDE DEF r
<1>2. x.refunds \in Seq(Refund) /\ n \in Nat /\ DOMAIN x.refunds = 1 .. n
  BY OrderShape
<1>3. /\ Append(x.refunds, r) \in Seq(Refund) /\ Len(Append(x.refunds, r)) = n + 1
      /\ \A i \in 1 .. n : Append(x.refunds, r)[i] = x.refunds[i]
      /\ Append(x.refunds, r)[n + 1] = r
  BY <1>1, <1>2
<1> HIDE DEF n
<1>4. y = [x EXCEPT !.refunds = Append(x.refunds, r)]
  BY DEF owe, r
<1>5. /\ y \in SeatOrder
      /\ y.state = x.state /\ y.hold = x.hold /\ y.seats = x.seats /\ y.credit = x.credit
      /\ y.outcomeSettled = x.outcomeSettled /\ y.refunds = Append(x.refunds, r)
  BY <1>3, <1>4 DEF SeatOrder
<1> HIDE DEF y
<1>6. DOMAIN y.refunds = (1 .. n) \cup {n + 1} /\ n + 1 \notin 1 .. n /\ DOMAIN y.refunds = 1 .. n + 1
  <2>1. DOMAIN y.refunds = 1 .. n + 1
    BY <1>2, <1>3, <1>5
  <2> QED
    BY <2>1, <1>2
<1>7. \A i \in 1 .. n : y.refunds[i].amount = x.refunds[i].amount
  BY <1>3, <1>5
<1>8. owed(y) = owed(x) + amount
  <2>1. AmountsOf(y, (1 .. n) \cup {n + 1}) = AmountsOf(y, 1 .. n) + y.refunds[n + 1].amount
    BY ZenonT(40), <1>5, <1>6, AmountsPlus
  <2>2. AmountsOf(y, 1 .. n) = AmountsOf(x, 1 .. n)
    BY <1>7, AmountsSame
  <2>3. y.refunds[n + 1].amount = amount
    BY <1>1, <1>3, <1>5
  <2> QED
    BY <2>1, <2>2, <2>3, <1>2, <1>6 DEF owed
<1>9. refunded(y) = refunded(x)
  <2>1. {i \in DOMAIN y.refunds : y.refunds[i].made} = {i \in DOMAIN x.refunds : x.refunds[i].made}
    <3>1. ~y.refunds[n + 1].made
      BY <1>1, <1>3, <1>5
    <3>2. \A i \in 1 .. n : y.refunds[i] = x.refunds[i]
      BY <1>3, <1>5
    <3> QED
      BY <3>1, <3>2, <1>2, <1>6
  <2> DEFINE R == {i \in DOMAIN x.refunds : x.refunds[i].made}
  <2>2. R \subseteq 1 .. n
    BY <1>2
  <2>3. AmountsOf(y, R) = AmountsOf(x, R)
    BY <1>7, <2>2, AmountsSame
  <2> QED
    BY <2>1, <2>3 DEF refunded
<1> QED
  BY <1>3, <1>5, <1>8, <1>9 DEF y, n, r

\* What an operation that gives an amount back owes, nothing when the amount is none.
LEMMA OwesSome ==
    ASSUME NEW x \in SeatOrder, NEW amount \in Nat
    PROVE  LET y == IF amount > 0 THEN owe(x, amount) ELSE x IN
           /\ y \in SeatOrder
           /\ y.state = x.state /\ y.hold = x.hold /\ y.seats = x.seats /\ y.credit = x.credit
           /\ y.outcomeSettled = x.outcomeSettled
           /\ Len(y.refunds) = IF amount > 0 THEN Len(x.refunds) + 1 ELSE Len(x.refunds)
           /\ \A i \in 1 .. Len(x.refunds) : y.refunds[i] = x.refunds[i]
           /\ amount > 0 =>
                 y.refunds[Len(x.refunds) + 1] = [amount |-> amount, made |-> FALSE]
           /\ owed(y) = owed(x) + amount /\ refunded(y) = refunded(x)
<1>1. CASE amount > 0
  <2>1. amount \in Nat \ {0}
    BY <1>1
  <2> QED
    BY <1>1, <2>1, Owes
<1>2. CASE amount = 0
  BY <1>2, MadeWithinOwed
<1> QED
  BY <1>1, <1>2

\* An order with its seats alone rewritten.
LEMMA Reseated ==
    ASSUME NEW y \in SeatOrder, NEW f \in [DOMAIN y.seats -> Seat]
    PROVE  LET z == [y EXCEPT !.seats = f] IN
           /\ z \in SeatOrder
           /\ z.state = y.state /\ z.hold = y.hold /\ z.credit = y.credit
           /\ z.outcomeSettled = y.outcomeSettled
           /\ z.refunds = y.refunds /\ z.seats = f
           /\ Len(z.seats) = Len(y.seats) /\ DOMAIN z.seats = DOMAIN y.seats
           /\ owed(z) = owed(y) /\ refunded(z) = refunded(y)
<1> DEFINE z == [y EXCEPT !.seats = f]
<1>1. Len(y.seats) \in Nat /\ DOMAIN y.seats = 1 .. Len(y.seats)
  BY OrderShape
<1>2. f \in Seq(Seat) /\ Len(f) = Len(y.seats) /\ DOMAIN f = DOMAIN y.seats
  BY <1>1, SeqOf
<1>3. /\ z \in SeatOrder
      /\ z.state = y.state /\ z.hold = y.hold /\ z.credit = y.credit
      /\ z.outcomeSettled = y.outcomeSettled
      /\ z.refunds = y.refunds /\ z.seats = f
  BY <1>2 DEF SeatOrder
<1> HIDE DEF z
<1>4. owed(z) = owed(y) /\ refunded(z) = refunded(y)
  BY <1>3 DEF owed, refunded, AmountsOf
<1> QED
  BY <1>2, <1>3, <1>4 DEF z

\* The seats of an order's earlier refunds hold what they held.
LEMMA OldShares ==
    ASSUME NEW x \in SeatOrder, SharesWithin(x), NEW i \in DOMAIN x.refunds, NEW z,
           z.refunds[i].amount = x.refunds[i].amount, DOMAIN z.seats = DOMAIN x.seats,
           \A s \in DOMAIN x.seats :
               /\ z.seats[s].refundId = i <=> x.seats[s].refundId = i
               /\ x.seats[s].refundId = i => z.seats[s].refundAmount = x.seats[s].refundAmount
    PROVE  SumOf([s \in SeatsOf(z, i) |-> z.seats[s].refundAmount]) <= z.refunds[i].amount
<1>1. SeatsOf(z, i) = SeatsOf(x, i)
  BY DEF SeatsOf
<1>2. \A s \in SeatsOf(x, i) : z.seats[s].refundAmount = x.seats[s].refundAmount
  BY DEF SeatsOf
<1>3. [s \in SeatsOf(z, i) |-> z.seats[s].refundAmount]
          = [s \in SeatsOf(x, i) |-> x.seats[s].refundAmount]
  BY <1>1, <1>2
<1> QED
  BY <1>3 DEF SharesWithin

\* One holder alone.
LEMMA SumOne ==
    ASSUME NEW k, NEW f \in [{k} -> Nat]
    PROVE  SumOf(f) = f[k]
<1> DEFINE e == [j \in {} |-> 0]
<1>1. e \in [{} -> Nat]
  OBVIOUS
<1>2. SumOf(e) = 0
  BY <1>1, SumEmpty
<1>3. f \in [{} \cup {k} -> Nat] /\ \A j \in {} : f[j] = e[j]
  OBVIOUS
<1>4. IsFiniteSet({}) /\ k \notin {}
  BY FS_EmptySet
<1> HIDE DEF e
<1>5. SumOf(f) = SumOf(e) + f[k]
  BY ZenonT(40), <1>1, <1>3, <1>4, SumPlus
<1> QED
  BY <1>2, <1>5, f[k] \in Nat

\* The shares of an order's active seats.
LEMMA ActiveShares ==
    ASSUME NEW o \in Orders, NEW x \in SeatOrder, SeatsGiven(o, x), NEW S \in SUBSET DOMAIN x.seats
    PROVE  /\ IsFiniteSet(S)
           /\ \A s \in S : s \in 1 .. Quantity[o] /\ share(Total[o], Quantity[o], s) \in Nat
           /\ [s \in S |-> share(Total[o], Quantity[o], s)] \in [S -> Nat]
           /\ SumOf([s \in S |-> share(Total[o], Quantity[o], s)]) \in Nat
<1>1. Len(x.seats) \in Nat /\ DOMAIN x.seats = 1 .. Len(x.seats)
  BY OrderShape
<1>2. IsFiniteSet(S)
  <2>1. IsFiniteSet(DOMAIN x.seats)
    BY <1>1, FS_Interval
  <2> QED
    BY <2>1, FS_Subset
<1>3. \A s \in S : s \in 1 .. Quantity[o]
  <2> SUFFICES ASSUME NEW s \in S
               PROVE  s \in 1 .. Quantity[o]
    OBVIOUS
  <2>1. x.seats # <<>>
    BY <1>1
  <2> QED
    BY <1>1, <2>1 DEF SeatsGiven
<1>4. Total[o] \in Nat /\ Quantity[o] \in Nat /\ Quantity[o] > 0
  BY OrdersAssumption
<1>5. \A s \in S : share(Total[o], Quantity[o], s) \in Nat
  BY <1>3, <1>4, Divided
<1>6. [s \in S |-> share(Total[o], Quantity[o], s)] \in [S -> Nat]
  BY <1>5
<1> QED
  BY <1>2, <1>3, <1>5, <1>6, SumNat

\* A seat cancelled, with what its order's latest refund gives back of it.
LEMMA CancelledSeatShape ==
    ASSUME NEW y \in SeatOrder, NEW reason \in {"viewer_request", "date_cancelled"},
           NEW amount \in Nat
    PROVE  LET c == cancelledSeat(y, reason, amount) IN
           /\ c \in Seat /\ c.state = "cancelled" /\ c.cancelReason = reason
           /\ c.refundId = (IF amount > 0 THEN Len(y.refunds) ELSE 0) /\ c.refundAmount = amount
<1>1. Len(y.refunds) \in Nat
  BY OrderShape
<1> QED
  BY <1>1 DEF cancelledSeat, ActiveSeat, Seat

\* Cancelling an active seat with its share, or the studio's own amount, keeps an order told.
LEMMA GiveBackTold ==
    ASSUME NEW o \in Orders, NEW x \in SeatOrder, OrderTold(o, x), NEW s \in ActiveSeats(x),
           NEW reason \in {"viewer_request", "date_cancelled"},
           NEW amount \in Nat, amount <= refundableLeft(o, x),
           reason = "viewer_request" /\ x.state # "disputed" => amount = seatShareWithin(o, x, s)
    PROVE  LET y == IF amount > 0 THEN owe(x, amount) ELSE x
               z == [y EXCEPT !.seats[s] = cancelledSeat(y, reason, amount)]
           IN  /\ z \in SeatOrder /\ OrderTold(o, z)
               /\ z.state = x.state /\ z.hold = x.hold /\ z.outcomeSettled = x.outcomeSettled
               /\ owed(z) >= owed(x) /\ ActiveSeats(z) = ActiveSeats(x) \ {s}
<1> DEFINE y == IF amount > 0 THEN owe(x, amount) ELSE x
           c == cancelledSeat(y, reason, amount)
           f == [y.seats EXCEPT ![s] = c]
           z == [y EXCEPT !.seats = f]
           n == Len(x.refunds)
<1>1. /\ y \in SeatOrder
      /\ y.state = x.state /\ y.hold = x.hold /\ y.seats = x.seats /\ y.credit = x.credit
      /\ y.outcomeSettled = x.outcomeSettled
      /\ Len(y.refunds) = IF amount > 0 THEN n + 1 ELSE n
      /\ \A i \in 1 .. n : y.refunds[i] = x.refunds[i]
      /\ amount > 0 => y.refunds[n + 1] = [amount |-> amount, made |-> FALSE]
      /\ owed(y) = owed(x) + amount /\ refunded(y) = refunded(x)
  BY OwesSome
<1>2. /\ n \in Nat /\ DOMAIN x.refunds = 1 .. n
      /\ \A t \in DOMAIN x.seats : x.seats[t].refundId \in Nat /\ x.seats[t].refundAmount \in Nat
      /\ x.credit \in Nat /\ x.state \in OrderState /\ DOMAIN x.seats = 1 .. Len(x.seats)
      /\ Len(x.seats) \in Nat /\ \A t \in DOMAIN x.seats : x.seats[t] \in Seat
  BY OrderShape
<1>3. DOMAIN y.refunds = 1 .. Len(y.refunds)
  BY <1>1, OrderShape
<1> HIDE DEF y, n
<1>4. /\ c \in Seat /\ c.state = "cancelled" /\ c.cancelReason = reason
      /\ c.refundId = (IF amount > 0 THEN n + 1 ELSE 0) /\ c.refundAmount = amount
  BY <1>1, CancelledSeatShape
<1> HIDE DEF c
<1>5. /\ s \in DOMAIN x.seats /\ x.seats[s].state = "active" /\ x.seats # <<>>
      /\ x.seats[s].refundId = 0
  BY <1>2 DEF ActiveSeats, OrderTold, SeatsTold, SeatTold
<1>6. f \in [DOMAIN y.seats -> Seat] /\ f[s] = c /\ \A t \in DOMAIN x.seats : t # s => f[t] = x.seats[t]
  BY <1>1, <1>2, <1>4, <1>5
<1> HIDE DEF f
<1>7. /\ z \in SeatOrder
      /\ z.state = y.state /\ z.hold = y.hold /\ z.credit = y.credit
      /\ z.outcomeSettled = y.outcomeSettled
      /\ z.refunds = y.refunds /\ z.seats = f
      /\ Len(z.seats) = Len(y.seats) /\ DOMAIN z.seats = DOMAIN y.seats
      /\ owed(z) = owed(y) /\ refunded(z) = refunded(y)
  BY <1>1, <1>6, Reseated
<1> HIDE DEF z
<1>8. ActiveSeats(z) = ActiveSeats(x) \ {s}
  BY <1>1, <1>4, <1>5, <1>6, <1>7 DEF ActiveSeats
<1>9. owed(x) \in Nat /\ refunded(x) \in Nat /\ owed(z) = owed(x) + amount
      /\ refunded(z) = refunded(x) /\ Total[o] \in Nat
  BY <1>1, <1>7, MadeWithinOwed, OrdersAssumption
<1>10. SeatsGiven(o, z)
  <2>1. ~Unseated(x) /\ x.state # "unplaced" /\ Len(x.seats) = Quantity[o]
    BY <1>5 DEF OrderTold, SeatsGiven, Unseated
  <2> QED
    BY <2>1, <1>1, <1>7 DEF SeatsGiven, Unseated
<1>11. SeatsTold(z)
  <2> SUFFICES ASSUME NEW t \in DOMAIN x.seats
               PROVE  SeatTold(z, t)
    BY <1>1, <1>7 DEF SeatsTold
  <2>1. CASE t = s
    <3>1. z.seats[t] = c
      BY <2>1, <1>6, <1>7
    <3>2. amount > 0 => ~z.refunds[n + 1].made
      BY <1>1, <1>7
    <3> QED
      BY <3>1, <3>2, <1>1, <1>2, <1>4, <1>7 DEF SeatTold
  <2>2. CASE t # s
    <3>1. z.seats[t] = x.seats[t] /\ SeatTold(x, t)
      BY <2>2, <1>6, <1>7 DEF OrderTold, SeatsTold
    <3>2. x.seats[t].refundId # 0 => z.refunds[x.seats[t].refundId] = x.refunds[x.seats[t].refundId]
      <4>1. z.refunds = y.refunds /\ \A i \in 1 .. n : y.refunds[i] = x.refunds[i]
        BY <1>1, <1>7
      <4>2. x.seats[t].refundId <= n
        BY <3>1 DEF SeatTold, n
      <4>3. x.seats[t].refundId # 0 => x.seats[t].refundId \in 1 .. n
        BY <4>2, <1>2
      <4> QED
        BY <4>1, <4>3
    <3>3. Len(x.refunds) <= Len(z.refunds)
      BY <1>1, <1>2, <1>7 DEF n
    <3>4. Len(z.refunds) \in Nat /\ Len(x.refunds) \in Nat
      BY <1>7, OrderShape
    <3>5. x.seats[t].refundId <= Len(z.refunds)
      BY <3>1, <3>3, <3>4, <1>2 DEF SeatTold
    <3> QED
      BY <3>1, <3>2, <3>5 DEF SeatTold
  <2> QED
    BY <2>1, <2>2
<1>12. SharesWithin(z)
  <2> SUFFICES ASSUME NEW i \in DOMAIN z.refunds
               PROVE  SumOf([t \in SeatsOf(z, i) |-> z.seats[t].refundAmount]) <= z.refunds[i].amount
    BY DEF SharesWithin
  <2>1. CASE i \in 1 .. n
    <3>1. z.refunds[i].amount = x.refunds[i].amount /\ i \in DOMAIN x.refunds
      BY <2>1, <1>1, <1>2, <1>7
    <3>2. \A t \in DOMAIN x.seats :
              /\ z.seats[t].refundId = i <=> x.seats[t].refundId = i
              /\ x.seats[t].refundId = i => z.seats[t].refundAmount = x.seats[t].refundAmount
      <4> TAKE t \in DOMAIN x.seats
      <4>1. CASE t = s
        BY <4>1, <2>1, <1>2, <1>4, <1>5, <1>6, <1>7
      <4>2. CASE t # s
        BY <4>2, <1>6, <1>7
      <4> QED
        BY <4>1, <4>2
    <3>3. DOMAIN z.seats = DOMAIN x.seats /\ SharesWithin(x)
      BY <1>1, <1>7 DEF OrderTold
    <3> QED
      BY <3>1, <3>2, <3>3, OldShares
  <2>2. CASE i \notin 1 .. n
    <3>1. amount > 0 /\ i = n + 1
      BY <2>2, <1>1, <1>2, <1>3, <1>7
    <3>2. SeatsOf(z, i) = {s}
      <4>1. \A t \in DOMAIN x.seats : t # s => z.seats[t].refundId # i
        <5> TAKE t \in DOMAIN x.seats
        <5> HAVE t # s
        <5>1. z.seats[t] = x.seats[t] /\ x.seats[t].refundId <= n /\ x.seats[t].refundId \in Nat
          BY <1>2, <1>6, <1>7 DEF OrderTold, SeatsTold, SeatTold, n
        <5> QED
          BY <5>1, <3>1, <1>2
      <4>2. z.seats[s].refundId = i
        BY <3>1, <1>4, <1>6, <1>7
      <4>3. DOMAIN z.seats = DOMAIN x.seats
        BY <1>1, <1>7
      <4> QED
        BY <4>1, <4>2, <4>3, <1>5 DEF SeatsOf
    <3>3. z.seats[s].refundAmount = amount /\ z.refunds[i].amount = amount
      BY <3>1, <1>1, <1>4, <1>6, <1>7
    <3> DEFINE g == [t \in SeatsOf(z, i) |-> z.seats[t].refundAmount]
    <3>4. g \in [{s} -> Nat] /\ g[s] = amount
      BY <3>2, <3>3
    <3> HIDE DEF g
    <3>5. SumOf(g) = g[s]
      BY <3>4, SumOne
    <3> QED
      BY <3>3, <3>4, <3>5 DEF g
  <2> QED
    BY <2>1, <2>2
<1>13. MoneyWithin(o, z)
  <2>1. x.credit = 0
    BY <1>2 DEF OrderTold, MoneyWithin
  <2>2. owed(x) + amount <= Total[o]
    BY <1>9 DEF refundableLeft
  <2> QED
    BY <2>1, <2>2, <1>1, <1>7, <1>9 DEF MoneyWithin
<1>14. StateTold(o, z)
  BY <1>1, <1>7, <1>9 DEF OrderTold, StateTold
<1>15. RestOfShares(o, z)
  <2> SUFFICES ASSUME z.state # "disputed",
                      \A t \in DOMAIN z.seats :
                          z.seats[t].state # "active" => z.seats[t].cancelReason = "viewer_request"
               PROVE  refundableLeft(o, z)
                        <= SumOf([t \in ActiveSeats(z) |-> share(Total[o], Quantity[o], t)])
    BY DEF RestOfShares
  <2>1. x.state # "disputed" /\ reason = "viewer_request"
    BY <1>1, <1>4, <1>5, <1>6, <1>7
  <2>2. amount = seatShareWithin(o, x, s)
    BY <2>1
  <2>3. \A t \in DOMAIN x.seats :
            x.seats[t].state # "active" => x.seats[t].cancelReason = "viewer_request"
    BY <1>1, <1>5, <1>6, <1>7
  <2>4. refundableLeft(o, x) <= SumOf([t \in ActiveSeats(x) |-> share(Total[o], Quantity[o], t)])
    BY <2>1, <2>3, <1>5 DEF OrderTold, RestOfShares
  <2> DEFINE S == ActiveSeats(z)
             A == [t \in ActiveSeats(x) |-> share(Total[o], Quantity[o], t)]
             B == [t \in S |-> share(Total[o], Quantity[o], t)]
             e == share(Total[o], Quantity[o], s)
  <2>5. S \in SUBSET DOMAIN x.seats /\ ActiveSeats(x) \in SUBSET DOMAIN x.seats /\ SeatsGiven(o, x)
    BY <1>8 DEF ActiveSeats, OrderTold
  <2>6. /\ IsFiniteSet(S) /\ B \in [S -> Nat] /\ SumOf(B) \in Nat
        /\ A \in [ActiveSeats(x) -> Nat] /\ e \in Nat
    BY <2>5, ActiveShares
  <2>7. ActiveSeats(x) = S \cup {s} /\ s \notin S
    BY <1>8
  <2>8. \A t \in S : A[t] = B[t]
    BY <2>7
  <2>9. A[s] = e
    OBVIOUS
  <2> HIDE DEF A, B, S, e
  <2>10. SumOf(A) = SumOf(B) + e
    <3>1. A \in [S \cup {s} -> Nat]
      BY <2>6, <2>7
    <3>2. SumOf(A) = SumOf(B) + A[s]
      BY <3>1, <2>6, <2>7, <2>8, SumPlus
    <3> QED
      BY <3>2, <2>9
  <2>11. amount = IF e <= refundableLeft(o, x) THEN e ELSE refundableLeft(o, x)
    BY <2>2 DEF seatShareWithin, e
  <2>12. refundableLeft(o, z) = refundableLeft(o, x) - amount /\ refundableLeft(o, x) \in Int
    BY <1>9 DEF refundableLeft
  <2>13. refundableLeft(o, z) <= SumOf(B)
    BY <2>4, <2>6, <2>10, <2>11, <2>12 DEF A
  <2> QED
    BY <2>13 DEF B, S
<1>16. z = [y EXCEPT !.seats[s] = c]
  BY DEF z, f
<1>17. OrderTold(o, z)
  BY <1>10, <1>11, <1>12, <1>13, <1>14, <1>15 DEF OrderTold
<1>18. owed(z) >= owed(x)
  BY <1>9
<1> QED
  BY <1>1, <1>7, <1>8, <1>16, <1>17, <1>18 DEF y, c

\* An order whose seats and money stand, and whose state stands, is disputed or moves before any
\* payment, is told as it was.
LEMMA StateMovesTold ==
    ASSUME NEW o \in Orders, NEW x \in SeatOrder, OrderTold(o, x), NEW z,
           z.seats = x.seats, z.refunds = x.refunds, z.credit = x.credit,
           \/ z.state = x.state
           \/ z.state = "disputed"
           \/ Unseated(x) /\ z.state \in {"awaiting", "failed"}
    PROVE  OrderTold(o, z) /\ owed(z) = owed(x) /\ ActiveSeats(z) = ActiveSeats(x)
<1>1. owed(z) = owed(x) /\ refunded(z) = refunded(x)
  BY DEF owed, refunded, AmountsOf
<1>2. ActiveSeats(z) = ActiveSeats(x)
  BY DEF ActiveSeats
<1>3. SeatsGiven(o, z)
  BY DEF OrderTold, SeatsGiven, Unseated
<1>4. SeatsTold(z)
  BY DEF OrderTold, SeatsTold, SeatTold
<1>5. SharesWithin(z)
  BY Zenon DEF OrderTold, SharesWithin, SeatsOf
<1>6. MoneyWithin(o, z)
  BY <1>1, <1>2 DEF OrderTold, MoneyWithin
<1>7. StateTold(o, z)
  BY <1>1 DEF OrderTold, StateTold, Unseated
<1>8. RestOfShares(o, z)
  <2>1. z.state # "disputed" => x.state # "disputed"
    BY DEF Unseated
  <2> QED
    BY <2>1, <1>1, <1>2, Zenon DEF OrderTold, RestOfShares, refundableLeft
<1> QED
  BY <1>1, <1>2, <1>3, <1>4, <1>5, <1>6, <1>7, <1>8 DEF OrderTold

\* An amount owed more, within what is left and no seat's.
LEMMA OweTold ==
    ASSUME NEW o \in Orders, NEW x \in SeatOrder, OrderTold(o, x),
           x.state # "unplaced", x.credit = 0,
           NEW amount \in Nat \ {0}, amount <= refundableLeft(o, x)
    PROVE  LET y == owe(x, amount) IN
           /\ y \in SeatOrder /\ OrderTold(o, y)
           /\ y.state = x.state /\ y.hold = x.hold /\ y.outcomeSettled = x.outcomeSettled
           /\ owed(y) >= owed(x) /\ ActiveSeats(y) = ActiveSeats(x)
<1> DEFINE y == owe(x, amount)
           n == Len(x.refunds)
<1>1. /\ y \in SeatOrder
      /\ y.state = x.state /\ y.hold = x.hold /\ y.seats = x.seats /\ y.credit = x.credit
      /\ y.outcomeSettled = x.outcomeSettled
      /\ Len(y.refunds) = n + 1
      /\ \A i \in 1 .. n : y.refunds[i] = x.refunds[i]
      /\ y.refunds[n + 1] = [amount |-> amount, made |-> FALSE]
      /\ owed(y) = owed(x) + amount /\ refunded(y) = refunded(x)
  BY Owes
<1>2. /\ n \in Nat /\ DOMAIN x.refunds = 1 .. n
      /\ \A t \in DOMAIN x.seats : x.seats[t].refundId \in Nat /\ x.seats[t].refundAmount \in Nat
  BY OrderShape
<1>3. DOMAIN y.refunds = 1 .. n + 1
  BY <1>1, OrderShape
<1> HIDE DEF y
<1>4. ActiveSeats(y) = ActiveSeats(x)
  BY <1>1 DEF ActiveSeats
<1>5. owed(x) \in Nat /\ Total[o] \in Nat
  BY MadeWithinOwed, OrdersAssumption
<1>6. SeatsGiven(o, y)
  <2>1. Unseated(x) => \A i \in DOMAIN y.refunds : ~y.refunds[i].made
    <3> SUFFICES ASSUME Unseated(x), NEW i \in 1 .. n + 1
                 PROVE  ~y.refunds[i].made
      BY <1>3
    <3>1. CASE i = n + 1
      BY <3>1, <1>1
    <3>2. CASE i # n + 1
      <4>1. i \in 1 .. n
        BY <3>2, <1>2
      <4> QED
        BY <4>1, <1>1, <1>2 DEF OrderTold, SeatsGiven
    <3> QED
      BY <3>1, <3>2
  <2> QED
    BY <2>1, <1>1 DEF OrderTold, SeatsGiven, Unseated
<1>7. SeatsTold(y)
  <2> SUFFICES ASSUME NEW t \in DOMAIN x.seats
               PROVE  SeatTold(y, t)
    BY <1>1 DEF SeatsTold
  <2>1. SeatTold(x, t)
    BY DEF OrderTold, SeatsTold
  <2>2. x.seats[t].refundId # 0 => y.refunds[x.seats[t].refundId] = x.refunds[x.seats[t].refundId]
    BY <2>1, <1>1, <1>2 DEF SeatTold
  <2>3. x.seats[t].refundId <= Len(y.refunds)
    BY <2>1, <1>1, <1>2 DEF SeatTold
  <2> QED
    BY <2>1, <2>2, <2>3, <1>1 DEF SeatTold
<1>8. SharesWithin(y)
  <2> SUFFICES ASSUME NEW i \in 1 .. n + 1
               PROVE  SumOf([t \in SeatsOf(y, i) |-> y.seats[t].refundAmount]) <= y.refunds[i].amount
    BY <1>3 DEF SharesWithin
  <2>1. CASE i \in 1 .. n
    <3>1. y.refunds[i].amount = x.refunds[i].amount /\ i \in DOMAIN x.refunds
      BY <2>1, <1>1, <1>2
    <3>2. DOMAIN y.seats = DOMAIN x.seats /\ SharesWithin(x)
      BY <1>1 DEF OrderTold
    <3> QED
      BY ZenonT(40), <3>1, <3>2, <1>1, OldShares
  <2>2. CASE i \notin 1 .. n
    <3>1. i = n + 1
      BY <2>2, <1>2
    <3>2. SeatsOf(y, i) = {}
      <4>1. \A t \in DOMAIN x.seats : x.seats[t].refundId <= n
        BY DEF OrderTold, SeatsTold, SeatTold
      <4> QED
        BY <4>1, <3>1, <1>1, <1>2 DEF SeatsOf
    <3> DEFINE g == [t \in SeatsOf(y, i) |-> y.seats[t].refundAmount]
    <3>3. g \in [{} -> Nat]
      BY <3>2
    <3>4. SumOf(g) = 0
      BY <3>3, SumEmpty
    <3>5. y.refunds[i].amount = amount
      BY <3>1, <1>1
    <3> QED
      BY <3>4, <3>5
  <2> QED
    BY <2>1, <2>2
<1>9. MoneyWithin(o, y)
  BY <1>1, <1>5 DEF MoneyWithin, refundableLeft
<1>10. StateTold(o, y)
  BY <1>1 DEF OrderTold, StateTold
<1>11. RestOfShares(o, y)
  <2>1. refundableLeft(o, y) <= refundableLeft(o, x)
        /\ refundableLeft(o, x) \in Int /\ refundableLeft(o, y) \in Int
    BY <1>1, <1>5 DEF refundableLeft
  <2> DEFINE sum == SumOf([t \in ActiveSeats(x) |-> share(Total[o], Quantity[o], t)])
  <2>2. sum \in Nat
    <3>1. ActiveSeats(x) \in SUBSET DOMAIN x.seats /\ SeatsGiven(o, x)
      BY DEF ActiveSeats, OrderTold
    <3> QED
      BY <3>1, ActiveShares
  <2>3. RestOfShares(o, x)
    BY DEF OrderTold
  <2>4. RestOfShares(o, x) => RestOfShares(o, y)
    <3>1. refundableLeft(o, x) <= sum => refundableLeft(o, y) <= sum
      BY <2>1, <2>2
    <3> QED
      BY <3>1, <1>1, <1>4, Zenon DEF RestOfShares
  <2> QED
    BY <2>3, <2>4
<1>12. OrderTold(o, y)
  BY <1>6, <1>7, <1>8, <1>9, <1>10, <1>11 DEF OrderTold
<1>13. owed(y) >= owed(x)
  BY <1>1, <1>5
<1> QED
  BY <1>1, <1>4, <1>12, <1>13 DEF y

\* An order without refunds owes nothing.
LEMMA NothingOwed ==
    ASSUME NEW x, x.refunds = <<>>
    PROVE  owed(x) = 0 /\ refunded(x) = 0
<1>1. DOMAIN x.refunds = {}
  OBVIOUS
<1> DEFINE R == {i \in DOMAIN x.refunds : x.refunds[i].made}
<1>2. R = {}
  BY <1>1
<1>3. [i \in {} |-> x.refunds[i].amount] \in [{} -> Nat]
  OBVIOUS
<1>4. AmountsOf(x, {}) = 0
  BY <1>3, SumEmpty DEF AmountsOf
<1> QED
  BY <1>1, <1>2, <1>4 DEF owed, refunded

\* A payment that gives its seats.
LEMMA PaidTold ==
    ASSUME NEW o \in Orders, NEW x \in SeatOrder, OrderTold(o, x), Unseated(x), x.refunds = <<>>
    PROVE  LET z == [x EXCEPT !.state = "paid", !.hold = FALSE,
                              !.seats = [s \in 1 .. Quantity[o] |-> ActiveSeat]]
           IN  /\ z \in SeatOrder /\ OrderTold(o, z) /\ ~z.hold
               /\ z.state = "paid" /\ z.outcomeSettled = x.outcomeSettled /\ owed(z) = owed(x)
<1> DEFINE f == [s \in 1 .. Quantity[o] |-> ActiveSeat]
           z == [x EXCEPT !.state = "paid", !.hold = FALSE, !.seats = f]
<1>1. Quantity[o] \in Nat /\ Quantity[o] > 0 /\ Total[o] \in Nat /\ Total[o] > 0
  BY OrdersAssumption
<1>2. ActiveSeat \in Seat /\ ActiveSeat.state = "active" /\ ActiveSeat.cancelReason = "none"
      /\ ActiveSeat.refundId = 0
  BY DEF ActiveSeat, Seat
<1>3. f \in Seq(Seat) /\ Len(f) = Quantity[o] /\ DOMAIN f = 1 .. Quantity[o]
      /\ \A s \in DOMAIN f : f[s] = ActiveSeat
  BY SMTT(30), <1>1, <1>2, SeqOf
<1> HIDE DEF f
<1>4. /\ z \in SeatOrder /\ z.state = "paid" /\ z.hold = FALSE /\ z.seats = f
      /\ z.refunds = <<>> /\ z.credit = x.credit /\ z.outcomeSettled = x.outcomeSettled
  BY <1>3 DEF SeatOrder, OrderState
<1> HIDE DEF z
<1>5. owed(z) = 0 /\ refunded(z) = 0 /\ owed(x) = 0
  BY <1>4, NothingOwed
<1>6. z.credit = 0
  BY <1>4 DEF OrderTold, SeatsGiven
<1>7. ActiveSeats(z) = 1 .. Quantity[o]
  BY <1>2, <1>3, <1>4 DEF ActiveSeats
<1>8. SeatsGiven(o, z)
  BY <1>3, <1>4 DEF SeatsGiven, Unseated
<1>9. SeatsTold(z)
  <2>1. Len(z.refunds) = 0
    BY <1>4
  <2> QED
    BY <2>1, <1>2, <1>3, <1>4 DEF SeatsTold, SeatTold
<1>10. SharesWithin(z)
  BY <1>4 DEF SharesWithin
<1>11. MoneyWithin(o, z)
  BY <1>1, <1>5, <1>6 DEF MoneyWithin
<1>12. StateTold(o, z)
  BY <1>1, <1>4, <1>5 DEF StateTold
<1>13. RestOfShares(o, z)
  <2>1. SumOf([k \in 1 .. Quantity[o] |-> share(Total[o], Quantity[o], k)]) = Total[o]
    BY <1>1, SharesFill
  <2>2. refundableLeft(o, z) = Total[o]
    BY <1>1, <1>5 DEF refundableLeft
  <2> QED
    BY <2>1, <2>2, <1>1, <1>7 DEF RestOfShares
<1> QED
  BY <1>4, <1>5, <1>8, <1>9, <1>10, <1>11, <1>12, <1>13 DEF OrderTold, z, f

\* A refund made, of an order and its seats.
LEMMA MadeShape ==
    ASSUME NEW o \in Orders, NEW x \in SeatOrder, NEW i \in DOMAIN x.refunds,
           ~x.refunds[i].made, NEW z, z = refundMade(o, x, i)
    PROVE
           /\ z \in SeatOrder /\ z.hold = x.hold /\ z.credit = x.credit
           /\ z.outcomeSettled = x.outcomeSettled
           /\ DOMAIN z.seats = DOMAIN x.seats /\ Len(z.seats) = Len(x.seats)
           /\ \A s \in DOMAIN x.seats :
                 /\ z.seats[s].refundId = x.seats[s].refundId
                 /\ z.seats[s].refundAmount = x.seats[s].refundAmount
                 /\ z.seats[s].cancelReason = x.seats[s].cancelReason
                 /\ z.seats[s].state
                       = IF x.seats[s].refundId = i /\ x.seats[s].state = "cancelled"
                         THEN "refunded" ELSE x.seats[s].state
           /\ DOMAIN z.refunds = DOMAIN x.refunds /\ Len(z.refunds) = Len(x.refunds)
           /\ \A j \in DOMAIN x.refunds :
                 /\ z.refunds[j].amount = x.refunds[j].amount
                 /\ z.refunds[j].made <=> j = i \/ x.refunds[j].made
           /\ owed(z) = owed(x) /\ refunded(z) = refunded(x) + x.refunds[i].amount
           /\ LET reached == IF refunded(z) >= Total[o] THEN "refunded" ELSE "partially_refunded"
              IN  z.state = IF orderStateMovesForward(x.state, reached) THEN reached ELSE x.state
<1> DEFINE r == [x.refunds EXCEPT ![i].made = TRUE]
           y == [x EXCEPT !.refunds = r]
           reached == IF refunded(y) >= Total[o] THEN "refunded" ELSE "partially_refunded"
           st == IF orderStateMovesForward(x.state, reached) THEN reached ELSE x.state
           f == [s \in DOMAIN x.seats |->
                    IF x.seats[s].refundId = i /\ x.seats[s].state = "cancelled"
                    THEN [x.seats[s] EXCEPT !.state = "refunded"] ELSE x.seats[s]]
<1>1. /\ x.state \in OrderState /\ x.seats \in Seq(Seat) /\ x.refunds \in Seq(Refund)
      /\ Len(x.seats) \in Nat /\ DOMAIN x.seats = 1 .. Len(x.seats)
      /\ Len(x.refunds) \in Nat /\ DOMAIN x.refunds = 1 .. Len(x.refunds)
      /\ \A s \in DOMAIN x.seats : x.seats[s] \in Seat
      /\ \A j \in DOMAIN x.refunds : x.refunds[j] \in Refund
  BY OrderShape
<1>2. /\ r \in Seq(Refund) /\ Len(r) = Len(x.refunds) /\ DOMAIN r = DOMAIN x.refunds
      /\ \A j \in DOMAIN x.refunds :
            /\ r[j].amount = x.refunds[j].amount
            /\ r[j].made <=> j = i \/ x.refunds[j].made
  <2>1. \A q \in Refund : /\ [q EXCEPT !.made = TRUE] \in Refund
                          /\ [q EXCEPT !.made = TRUE].amount = q.amount
                          /\ [q EXCEPT !.made = TRUE].made = TRUE
    BY DEF Refund
  <2>2. /\ DOMAIN r = DOMAIN x.refunds /\ r[i] = [x.refunds[i] EXCEPT !.made = TRUE]
        /\ \A j \in DOMAIN x.refunds : j # i => r[j] = x.refunds[j]
    BY <1>1
  <2>3. r = [j \in 1 .. Len(x.refunds) |-> r[j]]
    BY <1>1, <2>2
  <2>4. \A j \in 1 .. Len(x.refunds) : r[j] \in Refund
    BY <1>1, <2>1, <2>2
  <2> HIDE DEF r
  <2>5. r \in [1 .. Len(x.refunds) -> Refund]
    BY <2>3, <2>4
  <2>6. r \in Seq(Refund) /\ Len(r) = Len(x.refunds)
    BY <1>1, <2>5, SeqOf
  <2> QED
    <3>1. \A j \in DOMAIN x.refunds : r[j].amount = x.refunds[j].amount
      <4>1. r[i].amount = x.refunds[i].amount
        <5>1. x.refunds[i] \in Refund
          BY <1>1
        <5>2. [x.refunds[i] EXCEPT !.made = TRUE].amount = x.refunds[i].amount
          BY <5>1 DEF Refund
        <5> QED
          BY <5>2, <2>2
      <4> QED
        BY <4>1, <2>2
    <3>2. r[i].made
      BY <1>1, <2>1, <2>2
    <3>3. \A j \in DOMAIN x.refunds : r[j].made <=> j = i \/ x.refunds[j].made
      BY <2>2, <3>2
    <3> QED
      BY <2>2, <2>6, <3>1, <3>3
<1>3. z = [y EXCEPT !.state = st, !.seats = f]
  BY DEF refundMade
<1> HIDE DEF r
<1>4. /\ y \in SeatOrder /\ y.refunds = r /\ y.seats = x.seats /\ y.state = x.state
      /\ y.hold = x.hold /\ y.credit = x.credit /\ y.outcomeSettled = x.outcomeSettled
  BY <1>2 DEF SeatOrder
<1> HIDE DEF y
<1>5. st \in OrderState
  BY <1>1 DEF OrderState
<1>6. f \in [DOMAIN x.seats -> Seat]
      /\ \A s \in DOMAIN x.seats :
            /\ f[s].refundId = x.seats[s].refundId
            /\ f[s].refundAmount = x.seats[s].refundAmount
            /\ f[s].cancelReason = x.seats[s].cancelReason
            /\ f[s].state = IF x.seats[s].refundId = i /\ x.seats[s].state = "cancelled"
                            THEN "refunded" ELSE x.seats[s].state
  <2>1. \A q \in Seat : LET w == [q EXCEPT !.state = "refunded"] IN
            /\ w \in Seat /\ w.refundId = q.refundId /\ w.refundAmount = q.refundAmount
            /\ w.cancelReason = q.cancelReason /\ w.state = "refunded"
    BY DEF Seat
  <2> QED
    BY <2>1, <1>1
<1>7. f \in Seq(Seat) /\ Len(f) = Len(x.seats) /\ DOMAIN f = DOMAIN x.seats
  BY <1>1, <1>6, SeqOf
<1> HIDE DEF st, f
<1>8. /\ z \in SeatOrder /\ z.refunds = r /\ z.seats = f /\ z.state = st
      /\ z.hold = x.hold /\ z.credit = x.credit /\ z.outcomeSettled = x.outcomeSettled
  BY <1>3, <1>4, <1>5, <1>7 DEF SeatOrder
<1>9. \A R \in SUBSET DOMAIN x.refunds :
          AmountsOf(y, R) = AmountsOf(x, R) /\ AmountsOf(z, R) = AmountsOf(x, R)
  <2> TAKE R \in SUBSET DOMAIN x.refunds
  <2>1. \A j \in R : y.refunds[j].amount = x.refunds[j].amount
                     /\ z.refunds[j].amount = x.refunds[j].amount
    BY <1>2, <1>4, <1>8
  <2> QED
    BY <2>1, AmountsSame
<1>10. owed(z) = owed(x)
  BY <1>2, <1>8, <1>9 DEF owed
<1>11. refunded(z) = refunded(x) + x.refunds[i].amount /\ refunded(y) = refunded(z)
  <2> DEFINE R == {j \in DOMAIN x.refunds : x.refunds[j].made}
  <2>1. {j \in DOMAIN z.refunds : z.refunds[j].made} = R \cup {i}
    BY <1>2, <1>8
  <2>2. R \in SUBSET DOMAIN x.refunds /\ R \cup {i} \in SUBSET DOMAIN x.refunds /\ i \notin R
    OBVIOUS
  <2>3. AmountsOf(x, R \cup {i}) = AmountsOf(x, R) + x.refunds[i].amount
    BY <2>2, AmountsPlus
  <2>4. AmountsOf(z, R \cup {i}) = AmountsOf(x, R \cup {i})
    BY <1>9, <2>2
  <2>5. refunded(z) = AmountsOf(z, R \cup {i}) /\ refunded(x) = AmountsOf(x, R)
    BY <2>1 DEF refunded
  <2>6. refunded(y) = refunded(z)
    BY <1>4, <1>8 DEF refunded, AmountsOf
  <2> QED
    BY <2>3, <2>4, <2>5, <2>6
<1>12. LET reach == IF refunded(z) >= Total[o] THEN "refunded" ELSE "partially_refunded"
       IN  z.state = IF orderStateMovesForward(x.state, reach) THEN reach ELSE x.state
  BY <1>8, <1>11 DEF st
<1> QED
  BY <1>2, <1>6, <1>7, <1>8, <1>10, <1>11, <1>12

\* A refund made tells its order and its seats so.
LEMMA MadeTold ==
    ASSUME NEW o \in Orders, NEW x \in SeatOrder, OrderTold(o, x), NEW i \in DOMAIN x.refunds,
           ~x.refunds[i].made
    PROVE  LET z == refundMade(o, x, i) IN
           /\ z \in SeatOrder /\ OrderTold(o, z)
           /\ z.state # "disputed" => x.state # "disputed"
           /\ z.hold = x.hold /\ z.outcomeSettled = x.outcomeSettled
           /\ owed(z) = owed(x) /\ ActiveSeats(z) = ActiveSeats(x)
<1> DEFINE z == refundMade(o, x, i)
           n == Len(x.refunds)
<1>1. /\ z \in SeatOrder /\ z.hold = x.hold /\ z.credit = x.credit
      /\ z.outcomeSettled = x.outcomeSettled
      /\ DOMAIN z.seats = DOMAIN x.seats /\ Len(z.seats) = Len(x.seats)
      /\ DOMAIN z.refunds = DOMAIN x.refunds /\ Len(z.refunds) = Len(x.refunds)
      /\ owed(z) = owed(x) /\ refunded(z) = refunded(x) + x.refunds[i].amount
  BY MadeShape
<1>2. \A s \in DOMAIN x.seats :
          /\ z.seats[s].refundId = x.seats[s].refundId
          /\ z.seats[s].refundAmount = x.seats[s].refundAmount
          /\ z.seats[s].cancelReason = x.seats[s].cancelReason
          /\ z.seats[s].state = IF x.seats[s].refundId = i /\ x.seats[s].state = "cancelled"
                                THEN "refunded" ELSE x.seats[s].state
  BY MadeShape
<1>3. \A j \in DOMAIN x.refunds :
          /\ z.refunds[j].amount = x.refunds[j].amount
          /\ z.refunds[j].made <=> j = i \/ x.refunds[j].made
  BY MadeShape
<1>4. LET reached == IF refunded(z) >= Total[o] THEN "refunded" ELSE "partially_refunded"
      IN  z.state = IF orderStateMovesForward(x.state, reached) THEN reached ELSE x.state
  BY MadeShape
<1> HIDE DEF z
<1>5. /\ n \in Nat /\ DOMAIN x.refunds = 1 .. n /\ x.state \in OrderState /\ x.credit \in Nat
      /\ x.refunds[i].amount \in Nat /\ x.refunds[i].amount > 0
      /\ \A s \in DOMAIN x.seats : x.seats[s].refundId \in Nat /\ x.seats[s] \in Seat
      /\ Len(x.seats) \in Nat /\ DOMAIN x.seats = 1 .. Len(x.seats)
      /\ x.seats \in Seq(Seat) /\ z.seats \in Seq(Seat)
  BY <1>1, OrderShape
<1>6. x.state # "unplaced"
  BY DEF OrderTold, SeatsGiven
<1>7. owed(x) \in Nat /\ refunded(x) \in Nat /\ refunded(z) <= owed(z)
      /\ owed(x) + x.credit <= Total[o] /\ Total[o] \in Nat
  BY <1>1, MadeWithinOwed, OrdersAssumption DEF OrderTold, MoneyWithin
<1>8. refunded(z) > 0 /\ refunded(z) <= Total[o] /\ refunded(x) < Total[o] /\ refunded(z) \in Nat
  <2>1. refunded(z) = refunded(x) + x.refunds[i].amount
    BY <1>1
  <2>2. owed(z) = owed(x)
    BY <1>1
  <2>3. x.refunds[i].amount \in Nat /\ x.refunds[i].amount > 0 /\ x.credit \in Nat
    BY <1>5
  <2> QED
    BY <2>1, <2>2, <2>3, <1>7
<1>9. z.state = IF x.state = "disputed" THEN "disputed"
                ELSE IF refunded(z) = Total[o] THEN "refunded" ELSE "partially_refunded"
  <2>1. x.state # "refunded"
    <3>1. x.state = "refunded" => refunded(x) = Total[o]
      BY DEF OrderTold, StateTold
    <3> QED
      BY <3>1, <1>7, <1>8
  <2>2. x.state \in {"awaiting", "failed", "paid", "partially_refunded", "disputed"}
    BY <2>1, <1>5, <1>6 DEF OrderState
  <2>3. refunded(z) >= Total[o] <=> refunded(z) = Total[o]
    BY <1>7, <1>8
  <2>4. /\ x.state = "disputed" => ~orderStateMovesForward(x.state, "refunded")
                                   /\ ~orderStateMovesForward(x.state, "partially_refunded")
        /\ x.state # "disputed" => orderStateMovesForward(x.state, "refunded")
        /\ x.state # "disputed" => orderStateMovesForward(x.state, "partially_refunded")
                                   \/ x.state = "partially_refunded"
    BY <2>2 DEF orderStateMovesForward, Rank
  <2> QED
    BY <1>4, <2>3, <2>4
<1>10. ActiveSeats(z) = ActiveSeats(x)
  BY <1>1, <1>2 DEF ActiveSeats
<1>11. SeatsGiven(o, z)
  <2>1. ~Unseated(z) /\ z.state # "unplaced"
    BY <1>9 DEF Unseated
  <2>2. z.seats # <<>> => x.seats # <<>>
    BY <1>1, <1>5
  <2> QED
    BY <2>1, <2>2, <1>1 DEF OrderTold, SeatsGiven
<1>12. SeatsTold(z)
  <2> SUFFICES ASSUME NEW t \in DOMAIN x.seats
               PROVE  SeatTold(z, t)
    BY <1>1 DEF SeatsTold
  <2>1. SeatTold(x, t)
    BY DEF OrderTold, SeatsTold
  <2>2. x.seats[t].state \in {"active", "cancelled", "refunded", "credited"}
    BY <1>5 DEF Seat
  <2>3. x.seats[t].refundId # 0 => x.seats[t].refundId \in DOMAIN x.refunds
    BY <2>1, <1>5 DEF SeatTold
  <2>4. i # 0
    BY <1>5
  <2>5. z.seats[t].refundId <= Len(z.refunds)
    BY <2>1, <1>1, <1>2 DEF SeatTold
  <2>6. CASE x.seats[t].refundId = i
    <3>1. x.seats[t].state = "cancelled"
      BY <2>1, <2>2, <2>4, <2>6 DEF SeatTold
    <3> QED
      BY <3>1, <2>1, <2>4, <2>5, <2>6, <1>2, <1>3 DEF SeatTold
  <2>7. CASE x.seats[t].refundId # i
    <3>1. z.seats[t].state = x.seats[t].state
      BY <2>7, <1>2
    <3>2. x.seats[t].refundId # 0 =>
              (z.refunds[x.seats[t].refundId].made <=> x.refunds[x.seats[t].refundId].made)
      BY <2>3, <2>7, <1>3
    <3> QED
      BY <3>1, <3>2, <2>1, <2>5, <1>2 DEF SeatTold
  <2> QED
    BY <2>6, <2>7
<1>13. SharesWithin(z)
  <2> SUFFICES ASSUME NEW j \in DOMAIN x.refunds
               PROVE  SumOf([t \in SeatsOf(z, j) |-> z.seats[t].refundAmount]) <= z.refunds[j].amount
    BY <1>1 DEF SharesWithin
  <2>1. SharesWithin(x)
    BY DEF OrderTold
  <2> QED
    BY ZenonT(40), <2>1, <1>1, <1>2, <1>3, OldShares
<1>14. MoneyWithin(o, z)
  BY <1>1, <1>10 DEF OrderTold, MoneyWithin
<1>15. StateTold(o, z)
  BY <1>7, <1>8, <1>9 DEF StateTold
<1>16. RestOfShares(o, z)
  <2>1. z.state # "disputed" => x.state # "disputed"
    BY <1>9
  <2>2. z.seats # <<>> => x.seats # <<>>
    BY <1>1, <1>5
  <2>3. (\A t \in DOMAIN z.seats :
            z.seats[t].state # "active" => z.seats[t].cancelReason = "viewer_request")
        => \A t \in DOMAIN x.seats :
            x.seats[t].state # "active" => x.seats[t].cancelReason = "viewer_request"
    BY <1>1, <1>2
  <2>4. refundableLeft(o, z) = refundableLeft(o, x)
    BY <1>1 DEF refundableLeft
  <2> QED
    BY <2>1, <2>2, <2>3, <2>4, <1>10 DEF OrderTold, RestOfShares
<1>17. OrderTold(o, z)
  BY <1>11, <1>12, <1>13, <1>14, <1>15, <1>16 DEF OrderTold
<1>18. z.state # "disputed" => x.state # "disputed"
  BY <1>9
<1> QED
  BY <1>1, <1>10, <1>17, <1>18 DEF z

\* What an order with active seats has left, and the shares of it.
LEMMA LeftShared ==
    ASSUME NEW o \in Orders, NEW x \in SeatOrder, OrderTold(o, x), ActiveSeats(x) # {}
    PROVE  LET seats == ActiveSeats(x)
               left == moneyLeftOf(o, x)
               part == [s \in seats |-> share(left, Cardinality(seats), PlaceAmong(seats, s))]
           IN  /\ left \in Nat /\ owed(x) + left <= Total[o]
               /\ x.credit = 0 /\ ~Unseated(x) /\ x.seats # <<>>
               /\ holdsMoney(x) => owed(x) + left = Total[o]
               /\ x.state # "disputed" => owed(x) + left = Total[o]
               /\ left > 0 => holdsMoney(x)
               /\ seats \subseteq DOMAIN x.seats /\ IsFiniteSet(seats)
               /\ part \in [seats -> Nat] /\ SumOf(part) <= left
               /\ \A s \in seats : part[s] > 0 => left > 0
<1> DEFINE seats == ActiveSeats(x)
           left == moneyLeftOf(o, x)
           n == Cardinality(seats)
           place == [s \in seats |-> PlaceAmong(seats, s)]
           part == [s \in seats |-> share(left, n, PlaceAmong(seats, s))]
<1>1. /\ x.credit \in Nat /\ x.state \in OrderState
      /\ Len(x.seats) \in Nat /\ DOMAIN x.seats = 1 .. Len(x.seats)
  BY OrderShape
<1>2. seats \subseteq DOMAIN x.seats /\ seats # {}
  BY DEF ActiveSeats
<1>3. x.credit = 0 /\ x.seats # <<>> /\ ~Unseated(x)
  <2>1. x.credit = 0
    BY <1>1 DEF OrderTold, MoneyWithin
  <2>2. x.seats # <<>>
    BY <1>1, <1>2
  <2> QED
    BY <2>1, <2>2 DEF OrderTold, SeatsGiven
<1>4. /\ owed(x) \in Nat /\ refunded(x) \in Nat /\ refunded(x) <= owed(x)
      /\ owed(x) <= Total[o] /\ Total[o] \in Nat
  BY <1>3, MadeWithinOwed, OrdersAssumption DEF OrderTold, MoneyWithin
<1>5. left = IF holdsMoney(x) THEN Total[o] - owed(x) ELSE 0
  BY DEF moneyLeftOf, refundableLeft
<1>6. ~holdsMoney(x) /\ x.state # "disputed" => owed(x) = Total[o]
  <2> SUFFICES ASSUME ~holdsMoney(x), x.state # "disputed"
               PROVE  owed(x) = Total[o]
    OBVIOUS
  <2>1. x.state = "refunded"
    BY <1>1, <1>3 DEF Unseated, holdsMoney, OrderState
  <2>2. refunded(x) = Total[o]
    BY <2>1 DEF OrderTold, StateTold
  <2> QED
    BY <2>2, <1>4
<1>7. left \in Nat /\ (left > 0 => holdsMoney(x)) /\ owed(x) + left <= Total[o]
      /\ (holdsMoney(x) => owed(x) + left = Total[o])
  BY <1>4, <1>5
<1> HIDE DEF left
<1>8. /\ IsFiniteSet(seats) /\ n \in Nat
      /\ \A s \in seats : PlaceAmong(seats, s) \in 1 .. n
      /\ \A s, t \in seats : PlaceAmong(seats, s) = PlaceAmong(seats, t) => s = t
  BY <1>1, <1>2, PlacesApart
<1>9. n > 0
  BY <1>2, <1>8, FS_EmptySet
<1>10. place \in [seats -> 1 .. n] /\ \A s, t \in seats : place[s] = place[t] => s = t
  BY <1>8
<1> HIDE DEF seats, n
<1>11. \A s \in seats : place[s] = PlaceAmong(seats, s)
  OBVIOUS
<1> HIDE DEF place
<1>12. /\ \A s \in seats : share(left, n, place[s]) \in Nat
       /\ SumOf([s \in seats |-> share(left, n, place[s])]) <= left
  BY <1>7, <1>8, <1>9, <1>10, SharesOfPlaces
<1>13. part = [s \in seats |-> share(left, n, place[s])]
  BY <1>11
<1>14. part \in [seats -> Nat] /\ SumOf(part) <= left
  BY <1>12, <1>13
<1>15. \A s \in seats : part[s] > 0 => left > 0
  <2> SUFFICES ASSUME NEW s \in seats, part[s] > 0
               PROVE  left > 0
    OBVIOUS
  <2>1. 1 <= share(left, n, place[s]) /\ place[s] \in 1 .. n
    BY <1>10, <1>12, <1>13
  <2>2. (1 - 1) * n + place[s] <= left
    BY <2>1, <1>7, <1>8, <1>9, ShareUnit
  <2>3. (1 - 1) * n = 0
    BY <1>8
  <2> QED
    BY <2>1, <2>2, <2>3, <1>7
<1> QED
  BY <1>2, <1>3, <1>6, <1>7, <1>8, <1>14, <1>15, <1>4 DEF seats, left, n

\* A cancelled date's settlement of an order owes all it paid, its seats each a share.
LEMMA CancelledDateTold ==
    ASSUME NEW o \in Orders, NEW x \in SeatOrder, OrderTold(o, x), ActiveSeats(x) # {}
    PROVE  LET z == cancelledDateSettlementOf(o, x) IN
           /\ z \in SeatOrder /\ OrderTold(o, z)
           /\ z.state = x.state /\ z.hold = x.hold /\ ActiveSeats(z) = {}
           /\ x.state # "disputed" => owed(z) = Total[o]
<1> DEFINE seats == ActiveSeats(x)
           left == moneyLeftOf(o, x)
           part == [s \in seats |-> share(left, Cardinality(seats), PlaceAmong(seats, s))]
           y == IF left > 0 THEN owe(x, left) ELSE x
           f == [s \in DOMAIN y.seats |->
                    IF s \in seats
                    THEN cancelledSeat(y, "date_cancelled",
                                       share(left, Cardinality(seats), PlaceAmong(seats, s)))
                    ELSE y.seats[s]]
           z == [y EXCEPT !.seats = f]
           n == Len(x.refunds)
<1>1. cancelledDateSettlementOf(o, x) = z
  BY DEF cancelledDateSettlementOf
<1>2. /\ left \in Nat /\ owed(x) + left <= Total[o]
      /\ x.credit = 0 /\ ~Unseated(x) /\ x.seats # <<>>
      /\ x.state # "disputed" => owed(x) + left = Total[o]
      /\ seats \subseteq DOMAIN x.seats /\ IsFiniteSet(seats)
      /\ part \in [seats -> Nat] /\ SumOf(part) <= left
      /\ \A s \in seats : part[s] > 0 => left > 0
  BY LeftShared
<1> HIDE DEF left
<1>3. /\ y \in SeatOrder
      /\ y.state = x.state /\ y.hold = x.hold /\ y.seats = x.seats /\ y.credit = x.credit
      /\ y.outcomeSettled = x.outcomeSettled
      /\ Len(y.refunds) = IF left > 0 THEN n + 1 ELSE n
      /\ \A i \in 1 .. n : y.refunds[i] = x.refunds[i]
      /\ left > 0 => y.refunds[n + 1] = [amount |-> left, made |-> FALSE]
      /\ owed(y) = owed(x) + left /\ refunded(y) = refunded(x)
  BY <1>2, OwesSome
<1>4. /\ n \in Nat /\ DOMAIN x.refunds = 1 .. n
      /\ \A t \in DOMAIN x.seats : x.seats[t].refundId \in Nat /\ x.seats[t].refundAmount \in Nat
      /\ \A t \in DOMAIN x.seats : x.seats[t] \in Seat
      /\ DOMAIN x.seats = 1 .. Len(x.seats)
  BY OrderShape
<1>5. DOMAIN y.refunds = 1 .. Len(y.refunds)
  BY <1>3, OrderShape
<1> HIDE DEF y, n
<1>6. /\ f \in [DOMAIN y.seats -> Seat]
      /\ \A s \in seats :
            /\ f[s].state = "cancelled" /\ f[s].cancelReason = "date_cancelled"
            /\ f[s].refundId = (IF part[s] > 0 THEN n + 1 ELSE 0) /\ f[s].refundAmount = part[s]
      /\ \A s \in DOMAIN x.seats : s \notin seats => f[s] = x.seats[s]
  <2>1. \A s \in seats : part[s] = share(left, Cardinality(seats), PlaceAmong(seats, s))
    OBVIOUS
  <2> DEFINE c(s) == cancelledSeat(y, "date_cancelled", part[s])
  <2>2. f = [s \in DOMAIN y.seats |-> IF s \in seats THEN c(s) ELSE y.seats[s]]
    BY <2>1
  <2> HIDE DEF part, f
  <2>3. \A s \in seats :
            /\ c(s) \in Seat
            /\ c(s).state = "cancelled" /\ c(s).cancelReason = "date_cancelled"
            /\ c(s).refundId = (IF part[s] > 0 THEN Len(y.refunds) ELSE 0) /\ c(s).refundAmount = part[s]
    <3> SUFFICES ASSUME NEW s \in seats
                 PROVE
            /\ c(s) \in Seat
            /\ c(s).state = "cancelled" /\ c(s).cancelReason = "date_cancelled"
            /\ c(s).refundId = (IF part[s] > 0 THEN Len(y.refunds) ELSE 0) /\ c(s).refundAmount = part[s]
      BY Zenon
    <3>1. part[s] \in Nat
      BY <1>2
    <3> QED
      BY <3>1, <1>3, CancelledSeatShape
  <2> HIDE DEF c, seats
  <2>4. \A s \in seats : part[s] > 0 => Len(y.refunds) = n + 1
    BY <1>2, <1>3
  <2>5. f \in [DOMAIN y.seats -> Seat]
    BY <2>2, <2>3, <1>3, <1>4
  <2>6. \A s \in seats : f[s] = c(s)
    BY <2>2, <1>2, <1>3
  <2>7. \A s \in DOMAIN x.seats : s \notin seats => f[s] = x.seats[s]
    BY <2>2, <1>3
  <2> QED
    BY <2>3, <2>4, <2>5, <2>6, <2>7
<1> HIDE DEF f
<1>7. /\ z \in SeatOrder
      /\ z.state = y.state /\ z.hold = y.hold /\ z.credit = y.credit
      /\ z.outcomeSettled = y.outcomeSettled
      /\ z.refunds = y.refunds /\ z.seats = f
      /\ Len(z.seats) = Len(y.seats) /\ DOMAIN z.seats = DOMAIN y.seats
      /\ owed(z) = owed(y) /\ refunded(z) = refunded(y)
  BY <1>3, <1>6, Reseated
<1> HIDE DEF z, part
<1>8. ActiveSeats(z) = {}
  <2>1. \A s \in DOMAIN x.seats : s \notin seats => x.seats[s].state # "active"
    BY DEF ActiveSeats
  <2>2. \A s \in DOMAIN x.seats : z.seats[s].state # "active"
    BY <2>1, <1>6, <1>7
  <2> QED
    BY <2>2, <1>3, <1>7 DEF ActiveSeats
<1>9. /\ \A s \in seats : x.seats[s].refundId = 0
      /\ \A s \in DOMAIN x.seats : SeatTold(x, s)
  BY DEF ActiveSeats, OrderTold, SeatsTold, SeatTold
<1>10. SeatsGiven(o, z)
  <2>1. ~Unseated(x) /\ x.state # "unplaced" /\ Len(x.seats) = Quantity[o]
    BY <1>2 DEF OrderTold, SeatsGiven, Unseated
  <2> QED
    BY <2>1, <1>3, <1>7 DEF SeatsGiven, Unseated
<1>11. SeatsTold(z)
  <2> SUFFICES ASSUME NEW t \in DOMAIN x.seats
               PROVE  SeatTold(z, t)
    BY <1>3, <1>7 DEF SeatsTold
  <2>1. CASE t \in seats
    <3>1. /\ z.seats[t].state = "cancelled"
          /\ z.seats[t].refundId = (IF part[t] > 0 THEN n + 1 ELSE 0)
      BY <2>1, <1>6, <1>7
    <3>2. part[t] > 0 => left > 0 /\ ~z.refunds[n + 1].made /\ Len(z.refunds) = n + 1
      BY <2>1, <1>2, <1>3, <1>7
    <3>3. Len(z.refunds) \in Nat
      BY <1>7, OrderShape
    <3> QED
      BY <3>1, <3>2, <3>3, <1>4 DEF SeatTold
  <2>2. CASE t \notin seats
    <3>1. z.seats[t] = x.seats[t] /\ SeatTold(x, t)
      BY <2>2, <1>6, <1>7, <1>9
    <3>2. x.seats[t].refundId # 0 => z.refunds[x.seats[t].refundId] = x.refunds[x.seats[t].refundId]
      BY <3>1, <1>3, <1>4, <1>7 DEF SeatTold, n
    <3>3. x.seats[t].refundId <= Len(z.refunds)
      BY <3>1, <1>3, <1>4, <1>7 DEF SeatTold, n
    <3> QED
      BY <3>1, <3>2, <3>3 DEF SeatTold
  <2> QED
    BY <2>1, <2>2
<1>12. SharesWithin(z)
  <2> SUFFICES ASSUME NEW i \in DOMAIN z.refunds
               PROVE  SumOf([t \in SeatsOf(z, i) |-> z.seats[t].refundAmount]) <= z.refunds[i].amount
    BY DEF SharesWithin
  <2>1. CASE i \in 1 .. n
    <3>1. z.refunds[i].amount = x.refunds[i].amount /\ i \in DOMAIN x.refunds
      BY <2>1, <1>3, <1>4, <1>7
    <3>2. \A t \in DOMAIN x.seats :
              /\ z.seats[t].refundId = i <=> x.seats[t].refundId = i
              /\ x.seats[t].refundId = i => z.seats[t].refundAmount = x.seats[t].refundAmount
      <4> TAKE t \in DOMAIN x.seats
      <4>1. CASE t \in seats
        BY <4>1, <2>1, <1>4, <1>6, <1>7, <1>9
      <4>2. CASE t \notin seats
        BY <4>2, <1>6, <1>7
      <4> QED
        BY <4>1, <4>2
    <3>3. DOMAIN z.seats = DOMAIN x.seats /\ SharesWithin(x)
      BY <1>3, <1>7 DEF OrderTold
    <3> QED
      BY <3>1, <3>2, <3>3, OldShares
  <2>2. CASE i \notin 1 .. n
    <3>1. left > 0 /\ i = n + 1
      BY <2>2, <1>2, <1>3, <1>4, <1>5, <1>7
    <3>2. SeatsOf(z, i) \in SUBSET seats
      <4> SUFFICES ASSUME NEW t \in DOMAIN x.seats, t \notin seats
                   PROVE  z.seats[t].refundId # i
        BY <1>3, <1>7 DEF SeatsOf
      <4>1. z.seats[t] = x.seats[t] /\ x.seats[t].refundId <= n /\ x.seats[t].refundId \in Nat
        BY <1>4, <1>6, <1>7, <1>9 DEF SeatTold, n
      <4> QED
        BY <4>1, <3>1, <1>4
    <3> DEFINE g == [t \in SeatsOf(z, i) |-> z.seats[t].refundAmount]
    <3>3. \A t \in SeatsOf(z, i) : z.seats[t].refundAmount = part[t] /\ part[t] \in Nat
      BY <3>2, <1>2, <1>6, <1>7
    <3>4. g \in [SeatsOf(z, i) -> Nat] /\ \A t \in SeatsOf(z, i) : g[t] <= part[t]
      BY <3>3
    <3> HIDE DEF g
    <3>5. SumOf(g) <= SumOf(part)
      BY <3>2, <3>4, <1>2, SumWithin
    <3>6. SumOf(g) \in Nat /\ SumOf(part) \in Nat
      <4>1. IsFiniteSet(SeatsOf(z, i))
        BY <3>2, <1>2, FS_Subset
      <4> QED
        BY <4>1, <3>4, <1>2, SumNat
    <3>7. z.refunds[i].amount = left
      BY <3>1, <1>3, <1>7
    <3>8. SumOf(g) <= z.refunds[i].amount
      BY <3>5, <3>6, <3>7, <1>2
    <3> QED
      BY <3>8 DEF g
  <2> QED
    BY <2>1, <2>2
<1>13. owed(z) = owed(x) + left
  BY <1>3, <1>7
<1>14. MoneyWithin(o, z)
  <2>1. z.credit = 0 /\ owed(x) \in Nat /\ Total[o] \in Nat
    BY <1>2, <1>3, <1>7, MadeWithinOwed, OrdersAssumption
  <2> QED
    BY <2>1, <1>2, <1>13 DEF MoneyWithin
<1>15. StateTold(o, z)
  BY <1>3, <1>7 DEF OrderTold, StateTold
<1>16. RestOfShares(o, z)
  <2>1. PICK s \in seats : TRUE
    OBVIOUS
  <2>2. s \in DOMAIN z.seats /\ z.seats[s].state # "active"
        /\ z.seats[s].cancelReason = "date_cancelled"
    BY <2>1, <1>2, <1>3, <1>6, <1>7
  <2> QED
    BY <2>2 DEF RestOfShares
<1>17. OrderTold(o, z)
  BY <1>10, <1>11, <1>12, <1>14, <1>15, <1>16 DEF OrderTold
<1> QED
  BY <1>1, <1>2, <1>3, <1>7, <1>8, <1>13, <1>17

\* An interrupted date's settlement of an order credits what is left at most once.
LEMMA InterruptedDateTold ==
    ASSUME NEW o \in Orders, NEW x \in SeatOrder, OrderTold(o, x), ActiveSeats(x) # {}
    PROVE  LET z == interruptedDateSettlementOf(o, x) IN
           /\ z \in SeatOrder /\ OrderTold(o, z)
           /\ z.state = x.state /\ z.hold = x.hold
<1> DEFINE seats == ActiveSeats(x)
           left == moneyLeftOf(o, x)
           part == [s \in seats |-> share(left, Cardinality(seats), PlaceAmong(seats, s))]
           f == [s \in DOMAIN x.seats |->
                    IF s \in seats
                    THEN [x.seats[s] EXCEPT !.state = "credited",
                                            !.creditAmount = share(left, Cardinality(seats),
                                                                   PlaceAmong(seats, s))]
                    ELSE x.seats[s]]
           y == [x EXCEPT !.seats = f]
           z == [y EXCEPT !.credit = left]
<1>1. CASE left = 0 \/ o \in NoAccount \/ x.credit > 0
  BY <1>1 DEF interruptedDateSettlementOf
<1>2. CASE ~(left = 0 \/ o \in NoAccount \/ x.credit > 0)
  <2>1. interruptedDateSettlementOf(o, x) = z
    <3>1. interruptedDateSettlementOf(o, x) = [x EXCEPT !.credit = left, !.seats = f]
      BY <1>2 DEF interruptedDateSettlementOf
    <3>2. x.seats \in Seq(Seat)
      BY OrderShape
    <3> HIDE DEF f, left
    <3> QED
      BY <3>1 DEF SeatOrder
  <2>2. /\ left \in Nat /\ owed(x) + left <= Total[o]
        /\ x.credit = 0 /\ ~Unseated(x) /\ x.seats # <<>>
        /\ seats \subseteq DOMAIN x.seats
        /\ part \in [seats -> Nat]
    BY LeftShared
  <2> HIDE DEF left
  <2>3. /\ DOMAIN x.refunds = 1 .. Len(x.refunds)
        /\ \A t \in DOMAIN x.seats : x.seats[t] \in Seat
    BY OrderShape
  <2>4. /\ f \in [DOMAIN x.seats -> Seat]
        /\ \A s \in DOMAIN x.seats :
              /\ f[s].state = IF s \in seats THEN "credited" ELSE x.seats[s].state
              /\ f[s].cancelReason = x.seats[s].cancelReason
              /\ f[s].refundId = x.seats[s].refundId
              /\ f[s].refundAmount = x.seats[s].refundAmount
    <3>1. \A s \in seats : part[s] = share(left, Cardinality(seats), PlaceAmong(seats, s))
      OBVIOUS
    <3> DEFINE c(s) == [x.seats[s] EXCEPT !.state = "credited", !.creditAmount = part[s]]
    <3>2. f = [s \in DOMAIN x.seats |-> IF s \in seats THEN c(s) ELSE x.seats[s]]
      BY <3>1
    <3> HIDE DEF part, f
    <3>3. \A s \in seats :
              /\ c(s) \in Seat /\ c(s).state = "credited"
              /\ c(s).cancelReason = x.seats[s].cancelReason
              /\ c(s).refundId = x.seats[s].refundId
              /\ c(s).refundAmount = x.seats[s].refundAmount
      <4>1. \A q \in Seat, a \in Nat :
                LET w == [q EXCEPT !.state = "credited", !.creditAmount = a] IN
                /\ w \in Seat /\ w.state = "credited" /\ w.cancelReason = q.cancelReason
                /\ w.refundId = q.refundId /\ w.refundAmount = q.refundAmount
        BY DEF Seat
      <4>2. \A s \in seats : x.seats[s] \in Seat /\ part[s] \in Nat
        BY <2>2, <2>3
      <4> QED
        BY <4>1, <4>2
    <3> HIDE DEF c, seats
    <3> QED
      BY <3>2, <3>3, <2>2, <2>3
  <2> HIDE DEF f, part
  <2>5. /\ y \in SeatOrder
        /\ y.state = x.state /\ y.hold = x.hold /\ y.credit = x.credit
        /\ y.refunds = x.refunds /\ y.seats = f
        /\ Len(y.seats) = Len(x.seats) /\ DOMAIN y.seats = DOMAIN x.seats
        /\ owed(y) = owed(x) /\ refunded(y) = refunded(x)
    BY <2>4, Reseated
  <2> HIDE DEF y
  <2>6. /\ z \in SeatOrder
        /\ z.state = x.state /\ z.hold = x.hold /\ z.credit = left
        /\ z.refunds = x.refunds /\ z.seats = f
        /\ Len(z.seats) = Len(x.seats) /\ DOMAIN z.seats = DOMAIN x.seats
    BY <2>2, <2>5 DEF SeatOrder
  <2> HIDE DEF z
  <2>7. owed(z) = owed(x) /\ refunded(z) = refunded(x)
    BY <2>6 DEF owed, refunded, AmountsOf
  <2>8. ActiveSeats(z) = {}
    <3>1. \A s \in DOMAIN x.seats : s \notin seats => x.seats[s].state # "active"
      BY DEF ActiveSeats
    <3>2. \A s \in DOMAIN x.seats : z.seats[s].state # "active"
      BY <3>1, <2>4, <2>6
    <3> QED
      BY <3>2, <2>6 DEF ActiveSeats
  <2>9. /\ \A s \in seats : x.seats[s].refundId = 0 /\ x.seats[s].cancelReason = "none"
                            /\ x.seats[s].state = "active"
        /\ \A s \in DOMAIN x.seats : SeatTold(x, s)
    BY DEF ActiveSeats, OrderTold, SeatsTold, SeatTold
  <2>10. SeatsGiven(o, z)
    <3>1. ~Unseated(x) /\ x.state # "unplaced" /\ Len(x.seats) = Quantity[o]
      BY <2>2 DEF OrderTold, SeatsGiven, Unseated
    <3> QED
      BY <3>1, <2>6 DEF SeatsGiven, Unseated
  <2>11. SeatsTold(z)
    <3> SUFFICES ASSUME NEW t \in DOMAIN x.seats
                 PROVE  SeatTold(z, t)
      BY <2>6 DEF SeatsTold
    <3>1. SeatTold(x, t)
      BY <2>9
    <3>2. CASE t \in seats
      BY <3>1, <3>2, <2>4, <2>6, <2>9 DEF SeatTold
    <3>3. CASE t \notin seats
      BY <3>1, <3>3, <2>4, <2>6 DEF SeatTold
    <3> QED
      BY <3>2, <3>3
  <2>12. SharesWithin(z)
    <3> SUFFICES ASSUME NEW i \in DOMAIN x.refunds
                 PROVE  SumOf([t \in SeatsOf(z, i) |-> z.seats[t].refundAmount])
                            <= z.refunds[i].amount
      BY <2>6 DEF SharesWithin
    <3>1. SharesWithin(x)
      BY DEF OrderTold
    <3> QED
      BY ZenonT(40), <3>1, <2>4, <2>6, OldShares
  <2>13. MoneyWithin(o, z)
    BY <2>2, <2>6, <2>7, <2>8 DEF MoneyWithin
  <2>14. StateTold(o, z)
    BY <2>6, <2>7 DEF OrderTold, StateTold
  <2>15. RestOfShares(o, z)
    <3>1. PICK s \in seats : TRUE
      OBVIOUS
    <3>2. s \in DOMAIN z.seats /\ z.seats[s].state # "active" /\ z.seats[s].cancelReason = "none"
      BY <3>1, <2>2, <2>4, <2>6, <2>9
    <3> QED
      BY <3>2 DEF RestOfShares
  <2>16. OrderTold(o, z)
    BY <2>10, <2>11, <2>12, <2>13, <2>14, <2>15 DEF OrderTold
  <2> QED
    BY <2>1, <2>6, <2>16
<1> QED
  BY <1>1, <1>2

-----------------------------------------------------------------------------
(***************************************************************************)
(* The steps.                                                              *)
(***************************************************************************)

\* What the invariant says of an order.
LEMMA OrderOf ==
    ASSUME LedgerInv, NEW o \in Orders
    PROVE  /\ order[o] \in SeatOrder /\ OrderTold(o, order[o]) /\ TakenOwesAll(o, order[o])
           /\ tx[o] \in Tx /\ TxOK(o)
           /\ Quantity[o] \in Nat /\ Quantity[o] > 0 /\ Total[o] \in Nat /\ Total[o] > 0
           /\ settlement.settled => NothingLeftToSettle(order[o]) /\ sales.outcome # "none"
<1>1. order[o] \in SeatOrder /\ tx[o] \in Tx
  BY DEF LedgerInv, TypeOK
<1>2. OrderTold(o, order[o]) /\ TakenOwesAll(o, order[o]) /\ TxOK(o)
  BY DEF LedgerInv, OrderOK
<1>3. Quantity[o] \in Nat /\ Quantity[o] > 0 /\ Total[o] \in Nat /\ Total[o] > 0
  BY OrdersAssumption
<1>4. settlement.settled => NothingLeftToSettle(order[o]) /\ sales.outcome # "none"
  BY DEF LedgerInv, SettlementOK
<1> QED
  BY <1>1, <1>2, <1>3, <1>4

\* A step that moves one order, which is in no transaction after it.
LEMMA OneOrderMoves ==
    ASSUME LedgerInv, NEW o \in Orders, NEW z \in SeatOrder, OrderTold(o, z),
           order' = [order EXCEPT ![o] = z],
           z.outcomeSettled = order[o].outcomeSettled, owed(z) >= owed(order[o]),
           z.state # "disputed" => order[o].state # "disputed",
           sales' \in [outcome : Outcome, sold : Nat, available : Nat],
           sales'.outcome = sales.outcome,
           tx' \in [Orders -> Tx], \A p \in Orders : p # o => tx'[p] = tx[p],
           tx'[o].kind \notin {"payment", "cancel"},
           settlement' = settlement, deadline' \in BOOLEAN, studio' \in Nat,
           settlement.settled => NothingLeftToSettle(z)
    PROVE  LedgerInv'
<1> DEFINE x == order[o]
<1>1. /\ x \in SeatOrder /\ TakenOwesAll(o, x) /\ Total[o] \in Nat
  BY OrderOf
<1>2. order \in [Orders -> SeatOrder]
  BY DEF LedgerInv, TypeOK
<1>3. order' \in [Orders -> SeatOrder] /\ order'[o] = z
      /\ \A p \in Orders : p # o => order'[p] = order[p]
  BY <1>2
<1>4. TypeOK'
  BY <1>3 DEF LedgerInv, TypeOK
<1>5. OrderOK(o, z)'
  <2>1. x.outcomeSettled => /\ sales.outcome # "none"
                            /\ sales.outcome = "cancelled" /\ x.state # "disputed" => owed(x) = Total[o]
    BY <1>1 DEF TakenOwesAll
  <2>2. owed(z) \in Nat /\ owed(x) \in Nat /\ owed(z) <= Total[o]
    <3>1. owed(z) \in Nat /\ owed(x) \in Nat /\ z.credit \in Nat
      BY <1>1, MadeWithinOwed, OrderShape
    <3>2. owed(z) + z.credit <= Total[o]
      BY DEF OrderTold, MoneyWithin
    <3> QED
      BY <3>1, <3>2, <1>1
  <2>3. owed(x) = Total[o] => owed(z) = Total[o]
    BY <2>2, <1>1
  <2>4. TakenOwesAll(o, z)'
    BY <2>1, <2>3 DEF TakenOwesAll
  <2> QED
    BY <2>4 DEF OrderOK
<1>6. \A p \in Orders : p # o => OrderOK(p, order[p])' /\ TxOK(p)'
  <2> SUFFICES ASSUME NEW p \in Orders, p # o
               PROVE  OrderOK(p, order[p])' /\ TxOK(p)'
    OBVIOUS
  <2>1. OrderOK(p, order[p]) /\ TxOK(p)
    BY DEF LedgerInv
  <2>2. order'[p] = order[p] /\ tx'[p] = tx[p]
    BY <1>3
  <2>3. OrderOK(p, order[p])'
    BY <2>1, <2>2 DEF OrderOK, TakenOwesAll
  <2>4. TxOK(p)'
    BY <2>1, <2>2 DEF TxOK, Placed
  <2> QED
    BY <2>3, <2>4
<1>7. TxOK(o)'
  BY DEF TxOK
<1>8. SettlementOK'
  <2>1. settlement.settled => \A p \in Orders : NothingLeftToSettle(order[p])'
    <3> SUFFICES ASSUME settlement.settled, NEW p \in Orders
                 PROVE  NothingLeftToSettle(order'[p])
      OBVIOUS
    <3>1. NothingLeftToSettle(order[p])
      BY DEF LedgerInv, SettlementOK
    <3> QED
      BY <3>1, <1>3
  <2> QED
    BY <2>1 DEF LedgerInv, SettlementOK
<1>9. \A p \in Orders : OrderOK(p, order[p])' /\ TxOK(p)'
  <2> TAKE p \in Orders
  <2>1. CASE p = o
    BY <2>1, <1>3, <1>5, <1>7
  <2>2. CASE p # o
    BY <2>2, <1>6
  <2> QED
    BY <2>1, <2>2
<1> QED
  BY <1>4, <1>8, <1>9 DEF LedgerInv

\* A step that moves no order.
LEMMA OrdersStand ==
    ASSUME LedgerInv, order' = order, sales' = sales,
           tx' \in [Orders -> Tx], \A p \in Orders : TxOK(p)',
           settlement' \in [recorded : BOOLEAN, waitlistEnded : BOOLEAN, settled : BOOLEAN],
           settlement'.recorded = settlement.recorded, settlement'.settled = settlement.settled,
           deadline' \in BOOLEAN, studio' \in Nat
    PROVE  LedgerInv'
<1>1. TypeOK'
  BY DEF LedgerInv, TypeOK
<1>2. \A p \in Orders : OrderOK(p, order[p])'
  BY DEF LedgerInv, OrderOK, TakenOwesAll
<1>3. SettlementOK'
  BY DEF LedgerInv, SettlementOK
<1> QED
  BY <1>1, <1>2, <1>3 DEF LedgerInv

\* An order in no transaction; one whose transaction ends.
LEMMA TxStands ==
    ASSUME LedgerInv, NEW o \in Orders, Free(o), tx' = tx
    PROVE  /\ tx' \in [Orders -> Tx] /\ \A p \in Orders : p # o => tx'[p] = tx[p]
           /\ tx'[o].kind \notin {"payment", "cancel"}
BY DEF LedgerInv, TypeOK, Free, NoTx

\* One whose transaction ends is in none.
LEMMA TxEnds ==
    ASSUME LedgerInv, NEW o \in Orders, tx' = [tx EXCEPT ![o] = NoTx]
    PROVE  /\ tx' \in [Orders -> Tx] /\ \A p \in Orders : p # o => tx'[p] = tx[p]
           /\ tx'[o].kind \notin {"payment", "cancel"}
<1>1. NoTx \in Tx /\ NoTx.kind = "none"
  BY DEF Tx, NoTx
<1>2. tx \in [Orders -> Tx]
  BY DEF LedgerInv, TypeOK
<1> QED
  BY <1>1, <1>2

\* Nothing is left of an order that had nothing left and was given neither a seat nor a hold.
LEMMA StillNothingLeft ==
    ASSUME NEW x, NEW z, NothingLeftToSettle(x), z.hold => x.hold,
           z.outcomeSettled = x.outcomeSettled, ActiveSeats(z) \subseteq ActiveSeats(x)
    PROVE  NothingLeftToSettle(z)
BY DEF NothingLeftToSettle, ToSettle

\* The initial state.
LEMMA InitInv == Init => LedgerInv
<1> SUFFICES ASSUME Init PROVE LedgerInv
  OBVIOUS
<1>1. NoOrder \in SeatOrder /\ NoTx \in Tx
  BY DEF NoOrder, SeatOrder, OrderState, NoTx, Tx
<1>2. TypeOK
  BY <1>1, PlacesAssumption DEF Init, TypeOK, Outcome
<1>3. \A o \in Orders : OrderTold(o, NoOrder)
  <2> TAKE o \in Orders
  <2>1. /\ NoOrder.state = "unplaced" /\ NoOrder.seats = <<>> /\ NoOrder.refunds = <<>>
        /\ NoOrder.credit = 0
    BY DEF NoOrder
  <2>2. owed(NoOrder) = 0 /\ refunded(NoOrder) = 0
    BY <2>1, NothingOwed
  <2>3. Total[o] \in Nat /\ Total[o] > 0
    BY OrdersAssumption
  <2> HIDE DEF NoOrder
  <2> QED
    BY <2>1, <2>2, <2>3 DEF OrderTold, SeatsGiven, SeatsTold, SharesWithin, MoneyWithin,
       StateTold, RestOfShares
<1>4. \A o \in Orders : OrderOK(o, order[o]) /\ TxOK(o)
  <2> TAKE o \in Orders
  <2>1. order[o] = NoOrder /\ tx[o] = NoTx
    BY DEF Init
  <2>2. TakenOwesAll(o, order[o])
    BY <2>1 DEF TakenOwesAll, NoOrder
  <2>3. TxOK(o)
    BY <2>1 DEF TxOK, NoTx
  <2> QED
    BY <2>1, <2>2, <2>3, <1>3 DEF OrderOK
<1>5. SettlementOK
  BY DEF Init, SettlementOK
<1> QED
  BY <1>2, <1>4, <1>5 DEF LedgerInv

\* An order placed takes its seats.
LEMMA PlaceOrderInv == ASSUME LedgerInv, NEW o \in Orders, PlaceOrder(o) PROVE LedgerInv'
<1> DEFINE x == order[o]
           z == [x EXCEPT !.state = "awaiting", !.hold = TRUE]
<1>1. /\ x \in SeatOrder /\ OrderTold(o, x) /\ TxOK(o) /\ Quantity[o] \in Nat
      /\ settlement.settled => sales.outcome # "none"
  BY OrderOf
<1>2. x.state = "unplaced" /\ sales.outcome = "none"
  BY DEF PlaceOrder, Placed
<1>3. /\ z \in SeatOrder /\ z.state = "awaiting" /\ z.seats = x.seats /\ z.refunds = x.refunds
      /\ z.credit = x.credit /\ z.outcomeSettled = x.outcomeSettled
  BY <1>1 DEF SeatOrder, OrderState
<1>4. order' = [order EXCEPT ![o] = z]
  <2>1. order \in [Orders -> SeatOrder]
    BY DEF LedgerInv, TypeOK
  <2> QED
    BY <2>1 DEF PlaceOrder, SeatOrder
<1> HIDE DEF z
<1>5. OrderTold(o, z) /\ owed(z) = owed(x)
  <2>1. Unseated(x) /\ z.state \in {"awaiting", "failed"}
    BY <1>2, <1>3 DEF Unseated
  <2> QED
    BY <2>1, <1>1, <1>3, StateMovesTold
<1>6. owed(z) >= owed(x)
  BY <1>1, <1>5, MadeWithinOwed
<1>7. tx[o].kind \notin {"payment", "cancel"}
  <2>1. ActiveSeats(x) = {}
    BY <1>1, <1>2 DEF OrderTold, SeatsGiven, Unseated, ActiveSeats
  <2> QED
    BY <2>1, <1>1, <1>2 DEF TxOK, Placed
<1>8. /\ sales' \in [outcome : Outcome, sold : Nat, available : Nat]
      /\ sales'.outcome = sales.outcome
  BY <1>1 DEF PlaceOrder, LedgerInv, TypeOK
<1>9. /\ tx' \in [Orders -> Tx] /\ tx' = tx /\ settlement' = settlement
      /\ deadline' \in BOOLEAN /\ studio' \in Nat
  BY DEF PlaceOrder, LedgerInv, TypeOK
<1> QED
  BY <1>1, <1>2, <1>3, <1>4, <1>5, <1>6, <1>7, <1>8, <1>9, OneOrderMoves

\* A hold that expires gives its seats back.
LEMMA HoldExpiresInv == ASSUME LedgerInv, NEW o \in Orders, HoldExpires(o) PROVE LedgerInv'
<1> DEFINE x == order[o]
           st == IF x.state = "awaiting" THEN "failed" ELSE x.state
           z == [x EXCEPT !.hold = FALSE, !.state = st]
<1>1. /\ x \in SeatOrder /\ OrderTold(o, x) /\ Quantity[o] \in Nat
      /\ settlement.settled => NothingLeftToSettle(x)
  BY OrderOf
<1>2. Free(o) /\ x.hold /\ ~settlement.settled
  BY <1>1 DEF HoldExpires, NothingLeftToSettle
<1>3. /\ z \in SeatOrder /\ z.state = (IF x.state = "awaiting" THEN "failed" ELSE x.state)
      /\ z.seats = x.seats /\ z.refunds = x.refunds
      /\ z.credit = x.credit /\ z.outcomeSettled = x.outcomeSettled
  BY <1>1 DEF SeatOrder, OrderState
<1>4. order' = [order EXCEPT ![o] = z]
  <2>1. order \in [Orders -> SeatOrder]
    BY DEF LedgerInv, TypeOK
  <2>2. order' = [order EXCEPT ![o].hold = FALSE, ![o].state = st]
    BY <2>1 DEF HoldExpires, SeatOrder
  <2> HIDE DEF st
  <2> QED
    BY <2>1, <2>2 DEF SeatOrder
<1> HIDE DEF z
<1>5. OrderTold(o, z) /\ owed(z) = owed(x)
  <2>1. z.state = x.state \/ (Unseated(x) /\ z.state \in {"awaiting", "failed"})
    BY <1>3 DEF Unseated
  <2> QED
    BY <2>1, <1>1, <1>3, StateMovesTold
<1>6. owed(z) >= owed(x)
  BY <1>1, <1>5, MadeWithinOwed
<1>7. /\ sales' \in [outcome : Outcome, sold : Nat, available : Nat]
      /\ sales'.outcome = sales.outcome
  BY <1>1 DEF HoldExpires, LedgerInv, TypeOK
<1>8. /\ tx' = tx /\ settlement' = settlement /\ deadline' \in BOOLEAN /\ studio' \in Nat
  BY DEF HoldExpires, LedgerInv, TypeOK
<1>9. /\ tx' \in [Orders -> Tx] /\ \A p \in Orders : p # o => tx'[p] = tx[p]
      /\ tx'[o].kind \notin {"payment", "cancel"}
  BY <1>2, <1>8, TxStands
<1>10. z.state # "disputed" => x.state # "disputed"
  BY <1>3
<1> QED
  BY <1>2, <1>3, <1>4, <1>5, <1>6, <1>7, <1>8, <1>9, <1>10, OneOrderMoves

\* A dispute.
LEMMA DisputeInv == ASSUME LedgerInv, NEW o \in Orders, Dispute(o) PROVE LedgerInv'
<1> DEFINE x == order[o]
           z == [x EXCEPT !.state = "disputed"]
<1>1. /\ x \in SeatOrder /\ OrderTold(o, x)
      /\ settlement.settled => NothingLeftToSettle(x)
  BY OrderOf
<1>2. /\ z \in SeatOrder /\ z.state = "disputed" /\ z.hold = x.hold
      /\ z.seats = x.seats /\ z.refunds = x.refunds
      /\ z.credit = x.credit /\ z.outcomeSettled = x.outcomeSettled
  BY <1>1 DEF SeatOrder, OrderState
<1>3. order' = [order EXCEPT ![o] = z]
  <2>1. order \in [Orders -> SeatOrder]
    BY DEF LedgerInv, TypeOK
  <2> QED
    BY <2>1 DEF Dispute, SeatOrder
<1> HIDE DEF z
<1>4. OrderTold(o, z) /\ owed(z) = owed(x) /\ ActiveSeats(z) = ActiveSeats(x)
  BY <1>1, <1>2, StateMovesTold
<1>5. owed(z) >= owed(x)
  BY <1>1, <1>4, MadeWithinOwed
<1>6. /\ sales' \in [outcome : Outcome, sold : Nat, available : Nat] /\ sales' = sales
      /\ tx' = tx /\ settlement' = settlement /\ deadline' \in BOOLEAN /\ studio' \in Nat
      /\ Free(o)
  BY DEF Dispute, LedgerInv, TypeOK
<1>7. /\ tx' \in [Orders -> Tx] /\ \A p \in Orders : p # o => tx'[p] = tx[p]
      /\ tx'[o].kind \notin {"payment", "cancel"}
  BY <1>6, TxStands
<1>8. settlement.settled => NothingLeftToSettle(z)
  BY <1>1, <1>2, <1>4, StillNothingLeft
<1> QED
  BY <1>2, <1>3, <1>4, <1>5, <1>6, <1>7, <1>8, OneOrderMoves

\* A transaction begun holds what it read of its order.
LEMMA BeginPaymentInv == ASSUME LedgerInv, NEW o \in Orders, BeginPayment(o) PROVE LedgerInv'
<1> DEFINE t == [kind |-> "payment", outcome |-> sales.outcome]
<1>1. t \in Tx /\ t.kind = "payment"
  BY DEF LedgerInv, TypeOK, Tx
<1>2. tx' \in [Orders -> Tx] /\ tx'[o] = t /\ \A p \in Orders : p # o => tx'[p] = tx[p]
  <2>1. tx \in [Orders -> Tx] /\ tx' = [tx EXCEPT ![o] = t]
    BY DEF LedgerInv, TypeOK, BeginPayment
  <2> HIDE DEF t
  <2> QED
    BY <1>1, <2>1
<1> HIDE DEF t
<1>3. order' = order /\ sales' = sales /\ settlement' = settlement /\ deadline' = deadline
      /\ studio' = studio /\ Placed(o) /\ acceptsPayment(order[o])
  BY DEF BeginPayment
<1>4. \A p \in Orders : TxOK(p)'
  <2> TAKE p \in Orders
  <2>1. CASE p = o
    BY <2>1, <1>1, <1>2, <1>3 DEF TxOK, Placed
  <2>2. CASE p # o
    BY <2>2, <1>2, <1>3 DEF LedgerInv, TxOK, Placed
  <2> QED
    BY <2>1, <2>2
<1>5. /\ settlement \in [recorded : BOOLEAN, waitlistEnded : BOOLEAN, settled : BOOLEAN]
      /\ deadline \in BOOLEAN /\ studio \in Nat
  BY DEF LedgerInv, TypeOK
<1> QED
  BY <1>2, <1>3, <1>4, <1>5, OrdersStand

\* As for a payment.
LEMMA BeginCancelSeatInv ==
    ASSUME LedgerInv, NEW o \in Orders, NEW s \in 1 .. Quantity[o], BeginCancelSeat(o, s)
    PROVE  LedgerInv'
<1> DEFINE t == [kind |-> "cancel", seat |-> s, outcome |-> sales.outcome]
<1>1. t \in Tx /\ t.kind = "cancel" /\ t.seat = s
  <2>1. s \in Nat \ {0} /\ sales.outcome \in Outcome
    BY OrderOf DEF LedgerInv, TypeOK
  <2> QED
    BY <2>1 DEF Tx
<1>2. tx' \in [Orders -> Tx] /\ tx'[o] = t /\ \A p \in Orders : p # o => tx'[p] = tx[p]
  <2>1. tx \in [Orders -> Tx] /\ tx' = [tx EXCEPT ![o] = t]
    BY DEF LedgerInv, TypeOK, BeginCancelSeat
  <2> HIDE DEF t
  <2> QED
    BY <1>1, <2>1
<1> HIDE DEF t
<1>3. order' = order /\ sales' = sales /\ settlement' = settlement /\ deadline' = deadline
      /\ studio' = studio /\ s \in ActiveSeats(order[o])
  BY DEF BeginCancelSeat
<1>4. \A p \in Orders : TxOK(p)'
  <2> TAKE p \in Orders
  <2>1. CASE p = o
    BY <2>1, <1>1, <1>2, <1>3 DEF TxOK, Placed
  <2>2. CASE p # o
    BY <2>2, <1>2, <1>3 DEF LedgerInv, TxOK, Placed
  <2> QED
    BY <2>1, <2>2
<1>5. /\ settlement \in [recorded : BOOLEAN, waitlistEnded : BOOLEAN, settled : BOOLEAN]
      /\ deadline \in BOOLEAN /\ studio \in Nat
  BY DEF LedgerInv, TypeOK
<1> QED
  BY <1>2, <1>3, <1>4, <1>5, OrdersStand

\* The steps that move neither an order nor the date.
LEMMA OthersInv ==
    ASSUME LedgerInv,
           \/ \E o \in Orders : RollCancelSeatBack(o)
           \/ EndWaitlist \/ DeadlinePasses \/ UNCHANGED vars
    PROVE  LedgerInv'
<1>1. /\ settlement \in [recorded : BOOLEAN, waitlistEnded : BOOLEAN, settled : BOOLEAN]
      /\ deadline \in BOOLEAN /\ studio \in Nat /\ tx \in [Orders -> Tx]
      /\ \A p \in Orders : TxOK(p)
  BY DEF LedgerInv, TypeOK
<1>2. tx' = tx /\ order' = order => \A p \in Orders : TxOK(p)'
  BY <1>1 DEF TxOK, Placed
<1>3. ASSUME NEW o \in Orders, RollCancelSeatBack(o) PROVE LedgerInv'
  <2>1. /\ order' = order /\ sales' = sales /\ settlement' = settlement /\ deadline' = deadline
        /\ studio' = studio /\ tx' = [tx EXCEPT ![o] = NoTx]
    BY <1>3 DEF RollCancelSeatBack
  <2>2. /\ tx' \in [Orders -> Tx] /\ \A p \in Orders : p # o => tx'[p] = tx[p]
        /\ tx'[o].kind \notin {"payment", "cancel"}
    BY <2>1, TxEnds
  <2>3. \A p \in Orders : TxOK(p)'
    BY <2>1, <2>2, <1>1 DEF TxOK, Placed
  <2> QED
    BY <2>1, <2>2, <2>3, <1>1, OrdersStand
<1>4. CASE EndWaitlist
  <2>1. /\ order' = order /\ sales' = sales /\ deadline' = deadline
        /\ studio' = studio /\ tx' = tx
        /\ settlement' \in [recorded : BOOLEAN, waitlistEnded : BOOLEAN, settled : BOOLEAN]
        /\ settlement'.recorded = settlement.recorded /\ settlement'.settled = settlement.settled
    BY <1>1, <1>4 DEF EndWaitlist
  <2> QED
    BY <2>1, <1>1, <1>2, OrdersStand
<1>5. CASE DeadlinePasses
  <2>1. /\ order' = order /\ sales' = sales /\ settlement' = settlement
        /\ deadline' \in BOOLEAN /\ studio' = studio /\ tx' = tx
    BY <1>5 DEF DeadlinePasses
  <2> QED
    BY <2>1, <1>1, <1>2, OrdersStand
<1>6. CASE UNCHANGED vars
  <2>1. /\ order' = order /\ sales' = sales /\ settlement' = settlement
        /\ deadline' = deadline /\ studio' = studio /\ tx' = tx
    BY <1>6 DEF vars
  <2> QED
    BY <2>1, <1>1, <1>2, OrdersStand
<1> QED
  BY <1>3, <1>4, <1>5, <1>6

\* What a payment in a transaction is of: an order without refunds that holds no seat yet.
LEMMA InPayment ==
    ASSUME LedgerInv, NEW o \in Orders, tx[o].kind = "payment"
    PROVE  /\ order[o].refunds = <<>> /\ order[o].state \in {"awaiting", "failed"}
           /\ Unseated(order[o]) /\ order[o].credit = 0 /\ owed(order[o]) = 0
<1>1. order[o] \in SeatOrder /\ OrderTold(o, order[o]) /\ TxOK(o)
  BY OrderOf
<1>2. order[o].state # "unplaced" /\ acceptsPayment(order[o])
  BY <1>1 DEF TxOK, Placed
<1>3. order[o].state \in {"awaiting", "failed", "paid", "partially_refunded", "refunded", "disputed"}
  BY <1>1, <1>2 DEF SeatOrder, OrderState
<1>4. order[o].state \in {"awaiting", "failed"} /\ order[o].refunds = <<>>
  BY <1>2, <1>3 DEF acceptsPayment, orderStateMovesForward, Rank
<1>5. Unseated(order[o])
  BY <1>4 DEF Unseated
<1>6. order[o].credit = 0
  BY <1>1, <1>5 DEF OrderTold, SeatsGiven
<1> QED
  BY <1>4, <1>5, <1>6, NothingOwed

\* A payment that gives its seats, from its hold or retaken, on a date not settled.
LEMMA PayInv ==
    ASSUME LedgerInv, NEW o \in Orders, PayFromHold(o) \/ PayRetaking(o)
    PROVE  LedgerInv'
<1> DEFINE x == order[o]
           z == Paid(o)
<1>1. /\ x \in SeatOrder /\ OrderTold(o, x) /\ Quantity[o] \in Nat
      /\ settlement.settled => NothingLeftToSettle(x) /\ sales.outcome # "none"
  BY OrderOf
<1>2. tx[o].kind = "payment" /\ Commits(o, z)
  BY DEF PayFromHold, PayRetaking
<1>3. ~settlement.settled
  BY <1>1 DEF PayFromHold, PayRetaking, NothingLeftToSettle, CanRetake
<1>4. x.refunds = <<>> /\ Unseated(x) /\ x.state # "disputed"
  BY <1>2, InPayment DEF Unseated
<1>5. /\ z \in SeatOrder /\ OrderTold(o, z)
      /\ z.outcomeSettled = x.outcomeSettled /\ owed(z) = owed(x)
  BY <1>1, <1>4, PaidTold DEF Paid
<1> HIDE DEF z
<1>6. owed(z) >= owed(x)
  BY <1>1, <1>5, MadeWithinOwed
<1>7. /\ sales' \in [outcome : Outcome, sold : Nat, available : Nat]
      /\ sales'.outcome = sales.outcome
  <2>1. sales \in [outcome : Outcome, sold : Nat, available : Nat]
    BY DEF LedgerInv, TypeOK
  <2>2. CASE PayFromHold(o)
    BY <2>1, <2>2, <1>1 DEF PayFromHold
  <2>3. CASE PayRetaking(o)
    <3>1. sales' = [sales EXCEPT !.sold = sales.sold + Quantity[o],
                                 !.available = sales.available - Quantity[o]]
      BY <2>1, <2>3 DEF PayRetaking
    <3>2. sales.sold + Quantity[o] \in Nat /\ sales.available - Quantity[o] \in Nat
      BY <2>1, <2>3, <1>1 DEF PayRetaking, CanRetake
    <3> QED
      BY <2>1, <3>1, <3>2
  <2> QED
    BY <2>2, <2>3
<1>8. /\ order' = [order EXCEPT ![o] = z] /\ tx' = [tx EXCEPT ![o] = NoTx]
      /\ settlement' = settlement /\ deadline' \in BOOLEAN /\ studio' \in Nat
  BY <1>2 DEF Commits, LedgerInv, TypeOK
<1>9. /\ tx' \in [Orders -> Tx] /\ \A p \in Orders : p # o => tx'[p] = tx[p]
      /\ tx'[o].kind \notin {"payment", "cancel"}
  BY <1>8, TxEnds
<1> QED
  BY <1>3, <1>4, <1>5, <1>6, <1>7, <1>8, <1>9, OneOrderMoves

\* A payment owed back whole.
LEMMA OwePaymentBackInv ==
    ASSUME LedgerInv, NEW o \in Orders, OwePaymentBack(o)
    PROVE  LedgerInv'
<1> DEFINE x == order[o]
           y == [x EXCEPT !.hold = FALSE]
           z == owe(y, Total[o])
<1>1. /\ x \in SeatOrder /\ OrderTold(o, x) /\ Quantity[o] \in Nat
      /\ Total[o] \in Nat /\ Total[o] > 0
      /\ settlement.settled => NothingLeftToSettle(x)
  BY OrderOf
<1>2. tx[o].kind = "payment" /\ Commits(o, z)
  BY DEF OwePaymentBack
<1>3. /\ x.refunds = <<>> /\ Unseated(x) /\ x.state \in {"awaiting", "failed"}
      /\ x.credit = 0 /\ owed(x) = 0
  BY <1>2, InPayment
<1>4. /\ y \in SeatOrder /\ y.state = x.state /\ y.hold = FALSE
      /\ y.seats = x.seats /\ y.refunds = x.refunds
      /\ y.credit = x.credit /\ y.outcomeSettled = x.outcomeSettled
  BY <1>1 DEF SeatOrder
<1> HIDE DEF y
<1>5. OrderTold(o, y) /\ owed(y) = owed(x) /\ ActiveSeats(y) = ActiveSeats(x)
  BY <1>1, <1>4, StateMovesTold
<1>6. Total[o] \in Nat \ {0} /\ Total[o] <= refundableLeft(o, y)
  BY <1>1, <1>3, <1>5 DEF refundableLeft
<1>7. /\ z \in SeatOrder /\ OrderTold(o, z)
      /\ z.state = y.state /\ z.hold = y.hold /\ z.outcomeSettled = y.outcomeSettled
      /\ owed(z) >= owed(y) /\ ActiveSeats(z) = ActiveSeats(y)
  <2>1. y.state # "unplaced" /\ y.credit = 0
    BY <1>3, <1>4
  <2> QED
    BY <2>1, <1>4, <1>5, <1>6, OweTold
<1> HIDE DEF z
<1>8. /\ sales' \in [outcome : Outcome, sold : Nat, available : Nat]
      /\ sales'.outcome = sales.outcome
  <2>1. sales \in [outcome : Outcome, sold : Nat, available : Nat]
    BY DEF LedgerInv, TypeOK
  <2> DEFINE q == IF x.hold THEN Quantity[o] ELSE 0
  <2>2. q \in Nat
    BY <1>1
  <2>3. sales' = [sales EXCEPT !.available = @ + q]
    BY DEF OwePaymentBack
  <2> HIDE DEF q
  <2> QED
    BY <2>1, <2>2, <2>3
<1>9. /\ order' = [order EXCEPT ![o] = z] /\ tx' = [tx EXCEPT ![o] = NoTx]
      /\ settlement' = settlement /\ deadline' \in BOOLEAN /\ studio' \in Nat
  BY <1>2 DEF Commits, LedgerInv, TypeOK
<1>10. /\ tx' \in [Orders -> Tx] /\ \A p \in Orders : p # o => tx'[p] = tx[p]
       /\ tx'[o].kind \notin {"payment", "cancel"}
  BY <1>9, TxEnds
<1>11. settlement.settled => NothingLeftToSettle(z)
  <2>1. ~z.hold /\ z.outcomeSettled = x.outcomeSettled /\ ActiveSeats(z) \subseteq ActiveSeats(x)
    BY <1>4, <1>5, <1>7
  <2> QED
    BY <2>1, <1>1, StillNothingLeft
<1>12. z.outcomeSettled = x.outcomeSettled /\ owed(z) >= owed(x) /\ x.state # "disputed"
  BY <1>3, <1>4, <1>5, <1>7
<1> QED
  BY <1>7, <1>8, <1>9, <1>10, <1>11, <1>12, OneOrderMoves

\* A viewer's cancellation of an active seat keeps its order told.
LEMMA CancelledTold ==
    ASSUME LedgerInv, NEW o \in Orders, tx[o].kind = "cancel",
           NEW reason \in {"viewer_request", "date_cancelled"}
    PROVE  LET z == cancelled(o, tx[o].seat, reason) IN
           /\ z \in SeatOrder /\ OrderTold(o, z)
           /\ z.state = order[o].state /\ z.hold = order[o].hold
           /\ z.outcomeSettled = order[o].outcomeSettled
           /\ owed(z) >= owed(order[o]) /\ ActiveSeats(z) \subseteq ActiveSeats(order[o])
<1> DEFINE x == order[o]
           s == tx[o].seat
           amount == IF x.state = "disputed" THEN 0 ELSE seatShareWithin(o, x, s)
           y == IF amount > 0 THEN owe(x, amount) ELSE x
           z == [y EXCEPT !.seats[s] = cancelledSeat(y, reason, amount)]
<1>1. cancelled(o, s, reason) = z
  BY DEF cancelled
<1>2. /\ x \in SeatOrder /\ OrderTold(o, x) /\ TxOK(o) /\ Total[o] \in Nat
  BY OrderOf
<1>3. s \in ActiveSeats(x)
  BY <1>2 DEF TxOK
<1> HIDE DEF s
<1>4. refundableLeft(o, x) \in Nat
  <2>1. owed(x) \in Nat /\ x.credit \in Nat /\ owed(x) + x.credit <= Total[o]
    BY <1>2, MadeWithinOwed, OrderShape DEF OrderTold, MoneyWithin
  <2> QED
    BY <2>1, <1>2 DEF refundableLeft
<1>5. share(Total[o], Quantity[o], s) \in Nat
  <2>1. {s} \in SUBSET DOMAIN x.seats /\ SeatsGiven(o, x)
    BY <1>2, <1>3 DEF ActiveSeats, OrderTold
  <2> QED
    BY <2>1, <1>2, ActiveShares
<1>6. /\ amount \in Nat /\ amount <= refundableLeft(o, x)
      /\ x.state # "disputed" => amount = seatShareWithin(o, x, s)
  <2> DEFINE e == share(Total[o], Quantity[o], s)
  <2>1. seatShareWithin(o, x, s) = IF e <= refundableLeft(o, x) THEN e ELSE refundableLeft(o, x)
    BY DEF seatShareWithin
  <2> HIDE DEF e
  <2> QED
    BY <2>1, <1>4, <1>5 DEF e
<1> HIDE DEF amount
<1>7. /\ z \in SeatOrder /\ OrderTold(o, z)
      /\ z.state = x.state /\ z.hold = x.hold /\ z.outcomeSettled = x.outcomeSettled
      /\ owed(z) >= owed(x) /\ ActiveSeats(z) = ActiveSeats(x) \ {s}
  BY <1>2, <1>3, <1>6, GiveBackTold
<1> HIDE DEF z
<1> QED
  BY <1>1, <1>7 DEF s

\* A seat given back on a cancelled date, or to the sale.
LEMMA CancelSeatInv ==
    ASSUME LedgerInv, NEW o \in Orders, CancelSeatOfCancelledDate(o) \/ CancelSeat(o)
    PROVE  LedgerInv'
<1> DEFINE x == order[o]
<1>1. PICK reason \in {"viewer_request", "date_cancelled"} : Commits(o, cancelled(o, tx[o].seat, reason))
  BY DEF CancelSeatOfCancelledDate, CancelSeat
<1> DEFINE z == cancelled(o, tx[o].seat, reason)
<1>2. tx[o].kind = "cancel"
  BY DEF CancelSeatOfCancelledDate, CancelSeat
<1>3. /\ z \in SeatOrder /\ OrderTold(o, z)
      /\ z.state = x.state /\ z.hold = x.hold /\ z.outcomeSettled = x.outcomeSettled
      /\ owed(z) >= owed(x) /\ ActiveSeats(z) \subseteq ActiveSeats(x)
  BY <1>2, CancelledTold
<1>4. order' = [order EXCEPT ![o] = z]
  BY <1>1 DEF Commits
<1> HIDE DEF z
<1>5. /\ sales' \in [outcome : Outcome, sold : Nat, available : Nat]
      /\ sales'.outcome = sales.outcome
  <2>1. sales \in [outcome : Outcome, sold : Nat, available : Nat]
    BY DEF LedgerInv, TypeOK
  <2>2. CASE CancelSeatOfCancelledDate(o)
    BY <2>1, <2>2 DEF CancelSeatOfCancelledDate
  <2>3. CASE CancelSeat(o)
    <3>1. sales' = [sales EXCEPT !.sold = sales.sold - 1, !.available = sales.available + 1]
      BY <2>1, <2>3 DEF CancelSeat
    <3>2. sales.sold - 1 \in Nat /\ sales.available + 1 \in Nat
      BY <2>1, <2>3 DEF CancelSeat, CanReleaseSoldSeat
    <3> QED
      BY <2>1, <3>1, <3>2
  <2> QED
    BY <2>2, <2>3
<1>6. /\ tx' = [tx EXCEPT ![o] = NoTx]
      /\ settlement' = settlement /\ deadline' \in BOOLEAN /\ studio' \in Nat
  BY <1>1 DEF Commits, LedgerInv, TypeOK
<1>7. /\ tx' \in [Orders -> Tx] /\ \A p \in Orders : p # o => tx'[p] = tx[p]
      /\ tx'[o].kind \notin {"payment", "cancel"}
  BY <1>6, TxEnds
<1>8. settlement.settled => NothingLeftToSettle(z)
  <2>1. settlement.settled => NothingLeftToSettle(x)
    BY OrderOf
  <2> QED
    BY <2>1, <1>3, StillNothingLeft
<1> QED
  BY <1>3, <1>4, <1>5, <1>6, <1>7, <1>8, OneOrderMoves

\* The studio's refund of an active seat.
LEMMA RefundSeatInv ==
    ASSUME LedgerInv, NEW o \in Orders, NEW s \in 1 .. Quantity[o],
           NEW reason \in {"goodwill", "date_cancelled"}, RefundSeat(o, s, reason)
    PROVE  LedgerInv'
<1> DEFINE x == order[o]
<1>1. PICK amount \in 1 .. refundableLeft(o, x) :
          order' = [order EXCEPT ![o] =
              IF reason = "date_cancelled"
              THEN [owe(x, amount) EXCEPT
                       !.seats[s] = cancelledSeat(owe(x, amount), reason, amount)]
              ELSE owe(x, amount)]
  BY DEF RefundSeat
<1>2. /\ Free(o) /\ s \in ActiveSeats(x) /\ x.state # "disputed" /\ studio' = studio + 1
      /\ sales' = sales /\ tx' = tx /\ settlement' = settlement /\ deadline' = deadline
  BY DEF RefundSeat
<1>3. /\ x \in SeatOrder /\ OrderTold(o, x) /\ Total[o] \in Nat
      /\ settlement.settled => NothingLeftToSettle(x)
  BY OrderOf
<1>4. amount \in Nat \ {0} /\ amount <= refundableLeft(o, x) /\ amount > 0
  <2>1. refundableLeft(o, x) \in Int
    BY <1>3, MadeWithinOwed DEF refundableLeft
  <2> QED
    BY <2>1
<1> DEFINE y == owe(x, amount)
           z == IF reason = "date_cancelled"
                THEN [y EXCEPT !.seats[s] = cancelledSeat(y, reason, amount)] ELSE y
<1>5. order' = [order EXCEPT ![o] = z]
  BY <1>1
<1>6. /\ z \in SeatOrder /\ OrderTold(o, z)
      /\ z.state = x.state /\ z.hold = x.hold /\ z.outcomeSettled = x.outcomeSettled
      /\ owed(z) >= owed(x) /\ ActiveSeats(z) \subseteq ActiveSeats(x)
  <2>1. CASE reason = "date_cancelled"
    <3> DEFINE w == IF amount > 0 THEN owe(x, amount) ELSE x
               v == [w EXCEPT !.seats[s] = cancelledSeat(w, "date_cancelled", amount)]
    <3>1. /\ v \in SeatOrder /\ OrderTold(o, v)
          /\ v.state = x.state /\ v.hold = x.hold /\ v.outcomeSettled = x.outcomeSettled
          /\ owed(v) >= owed(x) /\ ActiveSeats(v) = ActiveSeats(x) \ {s}
      BY <1>2, <1>3, <1>4, GiveBackTold
    <3>2. w = y
      BY <1>4
    <3>3. z = v
      BY <2>1, <3>2
    <3> HIDE DEF z, v
    <3> QED
      BY <3>1, <3>3
  <2>2. CASE reason # "date_cancelled"
    <3>1. z = y
      BY <2>2
    <3>2. x.state # "unplaced" /\ x.credit = 0
      <4>1. ActiveSeats(x) # {}
        BY <1>2
      <4>2. x.credit = 0 /\ ~Unseated(x)
        BY <4>1, <1>3, LeftShared
      <4> QED
        BY <4>2 DEF Unseated
    <3>3. /\ y \in SeatOrder /\ OrderTold(o, y)
          /\ y.state = x.state /\ y.hold = x.hold /\ y.outcomeSettled = x.outcomeSettled
          /\ owed(y) >= owed(x) /\ ActiveSeats(y) = ActiveSeats(x)
      BY <3>2, <1>3, <1>4, OweTold
    <3> HIDE DEF z, y
    <3> QED
      BY <3>1, <3>3
  <2> QED
    BY <2>1, <2>2
<1> HIDE DEF z
<1>7. /\ tx' \in [Orders -> Tx] /\ \A p \in Orders : p # o => tx'[p] = tx[p]
      /\ tx'[o].kind \notin {"payment", "cancel"}
  BY <1>2, TxStands
<1>8. settlement.settled => NothingLeftToSettle(z)
  BY <1>3, <1>6, StillNothingLeft
<1>9. /\ sales' \in [outcome : Outcome, sold : Nat, available : Nat]
      /\ deadline' \in BOOLEAN /\ studio' \in Nat
  BY <1>2 DEF LedgerInv, TypeOK
<1> QED
  BY <1>2, <1>5, <1>6, <1>7, <1>8, <1>9, OneOrderMoves

\* The worker's record of a refund made.
LEMMA RefundMadeInv ==
    ASSUME LedgerInv, NEW o \in Orders, NEW i \in DOMAIN order[o].refunds, RefundMade(o, i)
    PROVE  LedgerInv'
<1> DEFINE x == order[o]
           z == refundMade(o, x, i)
<1>1. /\ x \in SeatOrder /\ OrderTold(o, x)
      /\ settlement.settled => NothingLeftToSettle(x)
  BY OrderOf
<1>2. /\ Free(o) /\ ~x.refunds[i].made /\ studio' = studio
      /\ sales' = sales /\ tx' = tx /\ settlement' = settlement /\ deadline' = deadline
      /\ order' = [order EXCEPT ![o] = z]
  BY DEF RefundMade
<1>3. /\ z \in SeatOrder /\ OrderTold(o, z)
      /\ z.state # "disputed" => x.state # "disputed"
      /\ z.hold = x.hold /\ z.outcomeSettled = x.outcomeSettled
      /\ owed(z) = owed(x) /\ ActiveSeats(z) = ActiveSeats(x)
  BY <1>1, <1>2, MadeTold
<1> HIDE DEF z
<1>4. owed(z) >= owed(x)
  BY <1>1, <1>3, MadeWithinOwed
<1>5. /\ tx' \in [Orders -> Tx] /\ \A p \in Orders : p # o => tx'[p] = tx[p]
      /\ tx'[o].kind \notin {"payment", "cancel"}
  BY <1>2, TxStands
<1>6. settlement.settled => NothingLeftToSettle(z)
  BY <1>1, <1>3, StillNothingLeft
<1>7. /\ sales' \in [outcome : Outcome, sold : Nat, available : Nat]
      /\ deadline' \in BOOLEAN /\ studio' \in Nat
  BY <1>2 DEF LedgerInv, TypeOK
<1> QED
  BY <1>2, <1>3, <1>4, <1>5, <1>6, <1>7, OneOrderMoves

\* The outcome recorded: no order was settled before it.
LEMMA RecordOutcomeInv ==
    ASSUME LedgerInv, NEW outcome \in {"cancelled", "interrupted"}, RecordOutcome(outcome)
    PROVE  LedgerInv'
<1>1. /\ sales.outcome = "none" /\ order' = order /\ tx' = tx
      /\ deadline' = deadline /\ studio' = studio
  BY DEF RecordOutcome
<1>2. TypeOK'
  BY <1>1 DEF RecordOutcome, LedgerInv, TypeOK, Outcome
<1>3. ~settlement.settled
  BY <1>1 DEF LedgerInv, SettlementOK
<1>4. sales'.outcome = outcome /\ settlement'.recorded /\ settlement'.settled = settlement.settled
  BY DEF RecordOutcome, LedgerInv, TypeOK
<1>5. SettlementOK'
  <2>1. ~settlement'.settled
    BY <1>3, <1>4
  <2>2. sales'.outcome # "none"
    BY <1>4
  <2> QED
    BY <2>1, <2>2, <1>4 DEF SettlementOK
<1>6. \A o \in Orders : OrderOK(o, order[o])' /\ TxOK(o)'
  <2> TAKE o \in Orders
  <2>1. OrderTold(o, order[o]) /\ TakenOwesAll(o, order[o]) /\ TxOK(o)
    BY OrderOf
  <2>2. ~order[o].outcomeSettled
    BY <2>1, <1>1 DEF TakenOwesAll
  <2>3. OrderOK(o, order[o])'
    BY <2>1, <2>2, <1>1 DEF OrderOK, TakenOwesAll
  <2>4. TxOK(o)'
    BY <2>1, <1>1 DEF TxOK, Placed
  <2> QED
    BY <2>3, <2>4
<1> QED
  BY <1>2, <1>5, <1>6 DEF LedgerInv

\* What the pass makes of an order it takes.
LEMMA SettledTold ==
    ASSUME LedgerInv, sales.outcome # "none", NEW o \in Orders, ToSettle(order[o])
    PROVE  LET z == settledOrder(o) IN
           /\ z \in SeatOrder /\ OrderTold(o, z) /\ TakenOwesAll(o, z)
<1> DEFINE x == order[o]
           y == IF sales.outcome = "cancelled" THEN cancelledDateSettlementOf(o, x)
                                               ELSE interruptedDateSettlementOf(o, x)
           z == [y EXCEPT !.outcomeSettled = TRUE]
<1>1. settledOrder(o) = z
  BY DEF settledOrder
<1>2. /\ x \in SeatOrder /\ OrderTold(o, x) /\ ActiveSeats(x) # {}
  BY OrderOf DEF ToSettle
<1>3. /\ y \in SeatOrder /\ OrderTold(o, y) /\ y.state = x.state
      /\ sales.outcome = "cancelled" /\ x.state # "disputed" => owed(y) = Total[o]
  BY <1>2, CancelledDateTold, InterruptedDateTold
<1> HIDE DEF y
<1>4. /\ z \in SeatOrder /\ z.state = y.state /\ z.seats = y.seats /\ z.refunds = y.refunds
      /\ z.credit = y.credit
  BY <1>3 DEF SeatOrder
<1> HIDE DEF z
<1>5. OrderTold(o, z) /\ owed(z) = owed(y)
  BY <1>3, <1>4, StateMovesTold
<1>6. TakenOwesAll(o, z)
  BY <1>3, <1>4, <1>5 DEF TakenOwesAll
<1> QED
  BY <1>1, <1>4, <1>5, <1>6

\* A batch settled, and the date once nothing is left.
LEMMA SettleOrdersInv == ASSUME LedgerInv, SettleOrders PROVE LedgerInv'
<1> DEFINE batch == OrdersToSettle
           after == [o \in Orders |-> IF o \in batch THEN settledOrder(o) ELSE order[o]]
           done == /\ Cardinality(batch) < Batch /\ settlement.waitlistEnded
                   /\ \A o \in Orders : NothingLeftToSettle(after[o])
<1>1. /\ settlement.recorded /\ ~settlement.settled /\ order' = after
      /\ settlement' = [settlement EXCEPT !.settled = done]
      /\ sales' = sales /\ tx' = tx /\ deadline' = deadline /\ studio' = studio
  BY DEF SettleOrders
<1>2. sales.outcome # "none"
  BY <1>1 DEF LedgerInv, SettlementOK
<1>3. \A o \in batch : o \in Orders /\ ToSettle(order[o]) /\ Free(o)
  BY DEF OrdersToSettle
<1> HIDE DEF batch
<1>4. \A o \in Orders : /\ after[o] \in SeatOrder /\ OrderTold(o, after[o])
                        /\ TakenOwesAll(o, after[o])
  <2> TAKE o \in Orders
  <2>1. CASE o \in batch
    <3>1. after[o] = settledOrder(o)
      BY <2>1
    <3>2. /\ settledOrder(o) \in SeatOrder /\ OrderTold(o, settledOrder(o))
          /\ TakenOwesAll(o, settledOrder(o))
      BY <2>1, <1>2, <1>3, SettledTold
    <3> QED
      BY <3>1, <3>2
  <2>2. CASE o \notin batch
    BY <2>2, OrderOf
  <2> QED
    BY <2>1, <2>2
<1>5. \A o \in Orders : TxOK(o)'
  <2> TAKE o \in Orders
  <2>1. CASE o \in batch
    BY <2>1, <1>1, <1>3 DEF TxOK, Free, NoTx
  <2>2. CASE o \notin batch
    <3>1. order'[o] = order[o] /\ tx'[o] = tx[o] /\ TxOK(o)
      BY <2>2, <1>1, OrderOf
    <3> QED
      BY <3>1 DEF TxOK, Placed
  <2> QED
    BY <2>1, <2>2
<1>6. after \in [Orders -> SeatOrder]
  BY <1>4
<1>7. /\ done \in BOOLEAN
      /\ settlement' \in [recorded : BOOLEAN, waitlistEnded : BOOLEAN, settled : BOOLEAN]
      /\ settlement'.recorded /\ (settlement'.settled <=> done)
  <2>1. settlement \in [recorded : BOOLEAN, waitlistEnded : BOOLEAN, settled : BOOLEAN]
    BY DEF LedgerInv, TypeOK
  <2>2. done \in BOOLEAN
    OBVIOUS
  <2> HIDE DEF done
  <2> QED
    BY <2>1, <2>2, <1>1
<1>8. TypeOK'
  BY <1>1, <1>6, <1>7 DEF LedgerInv, TypeOK
<1>9. \A o \in Orders : OrderOK(o, order[o])'
  BY <1>1, <1>4 DEF OrderOK, TakenOwesAll
<1>10. SettlementOK'
  <2>1. done => \A o \in Orders : NothingLeftToSettle(order'[o])
    BY <1>1
  <2> QED
    BY <2>1, <1>1, <1>2, <1>7 DEF SettlementOK
<1> QED
  BY <1>5, <1>8, <1>9, <1>10 DEF LedgerInv

\* Every step keeps the invariant.
LEMMA NextInv == LedgerInv /\ [Next]_vars => LedgerInv'
<1> SUFFICES ASSUME LedgerInv, [Next]_vars PROVE LedgerInv'
  OBVIOUS
<1>1. ASSUME NEW o \in Orders,
             \/ PlaceOrder(o) \/ BeginPayment(o) \/ Transaction(o) \/ HoldExpires(o) \/ Dispute(o)
             \/ \E s \in 1 .. Quantity[o] :
                   \/ BeginCancelSeat(o, s)
                   \/ \E reason \in {"goodwill", "date_cancelled"} : RefundSeat(o, s, reason)
             \/ \E i \in DOMAIN order[o].refunds : RefundMade(o, i)
      PROVE  LedgerInv'
  <2>1. CASE Transaction(o)
    BY <2>1, PayInv, OwePaymentBackInv, CancelSeatInv, OthersInv, Zenon DEF Transaction
  <2> QED
    BY <1>1, <2>1, PlaceOrderInv, BeginPaymentInv, HoldExpiresInv, DisputeInv,
       BeginCancelSeatInv, RefundSeatInv, RefundMadeInv, Zenon
<1>2. CASE \E outcome \in {"cancelled", "interrupted"} : RecordOutcome(outcome)
  BY <1>2, RecordOutcomeInv
<1>3. CASE SettleOrders
  BY <1>3, SettleOrdersInv
<1>4. CASE EndWaitlist \/ DeadlinePasses \/ UNCHANGED vars
  BY <1>4, OthersInv
<1> QED
  BY <1>1, <1>2, <1>3, <1>4, Zenon DEF Next

-----------------------------------------------------------------------------
(***************************************************************************)
(* The theorems.                                                           *)
(***************************************************************************)

\* Every reachable state has orders whose seats, refunds and state tell the same money, and
\* transactions and a settlement that agree with them.
THEOREM LedgerInvariant == Spec => []LedgerInv
<1>1. Init => LedgerInv
  BY InitInv
<1>2. LedgerInv /\ [Next]_vars => LedgerInv'
  BY NextInv
<1> QED
  BY <1>1, <1>2, PTL DEF Spec

\* Orders, seats and counters are of their types: no counter of the date's sales is negative.
THEOREM LedgerTyped == Spec => []TypeOK
<1>1. LedgerInv => TypeOK
  BY DEF LedgerInv
<1> QED
  BY <1>1, LedgerInvariant, PTL

\* An order and its seats say what was given back, in whichever order its refunds are made, and
\* refunds and credit never pass what it paid (seat-order.aggregate.ts refundMade, cancelSeats).
THEOREM OrdersTellTheirRefunds == Spec => []RefundsTold
<1>1. ASSUME LedgerInv PROVE RefundsTold
  <2> SUFFICES ASSUME NEW o \in Orders
               PROVE  LET x == order[o]
                          made == refunded(x)
                      IN  /\ x.state # "disputed" =>
                                /\ (x.state = "refunded") <=> (made = Total[o])
                                /\ (x.state = "partially_refunded") <=> (made > 0 /\ made < Total[o])
                          /\ \A s \in DOMAIN x.seats :
                                (x.seats[s].state = "refunded")
                                    <=> (x.seats[s].refundId # 0 /\ x.refunds[x.seats[s].refundId].made)
                          /\ \A i \in DOMAIN x.refunds :
                                SumOf([s \in SeatsOf(x, i) |-> x.seats[s].refundAmount])
                                    <= x.refunds[i].amount
                          /\ owed(x) + x.credit <= Total[o]
    BY Zenon DEF RefundsTold
  <2>1. OrderTold(o, order[o])
    BY <1>1, OrderOf
  <2> QED
    BY <2>1, Zenon DEF OrderTold, StateTold, SeatsTold, SeatTold, SharesWithin, MoneyWithin
<1> QED
  BY <1>1, LedgerInvariant, PTL

\* Once a date is settled no order of it holds an active seat the pass did not settle
\* (settle-date-outcomes.handler.ts NOTHING_LEFT_TO_SETTLE).
THEOREM DatesSettledForGood == Spec => []SettledForGood
<1>1. LedgerInv => SettledForGood
  BY DEF LedgerInv, SettlementOK, NothingLeftToSettle, SettledForGood
<1> QED
  BY <1>1, LedgerInvariant, PTL

\* Once a cancelled date is settled, every order the pass took and every one whose viewer gave
\* back each seat before owes or gave back all it paid (settle-date-outcomes.handler.ts: one
\* refund per paid order of what is left; seat-order.aggregate.ts seatSharesOf).
THEOREM CancelledDatesOweBack == Spec => []CancelledDateOwesBack
<1>1. ASSUME LedgerInv PROVE CancelledDateOwesBack
  <2> SUFFICES ASSUME sales.outcome = "cancelled", NEW o \in Orders,
                      order[o].seats # <<>>, order[o].state # "disputed",
                      order[o].outcomeSettled
                      \/ \A s \in DOMAIN order[o].seats :
                             order[o].seats[s].cancelReason = "viewer_request"
               PROVE  refundableLeft(o, order[o]) = 0
    BY DEF CancelledDateOwesBack
  <2> DEFINE x == order[o]
  <2>1. x \in SeatOrder /\ OrderTold(o, x) /\ TakenOwesAll(o, x) /\ Total[o] \in Nat
    BY <1>1, OrderOf
  <2>2. owed(x) \in Nat /\ x.credit \in Nat /\ owed(x) + x.credit <= Total[o]
    BY <2>1, MadeWithinOwed, OrderShape DEF OrderTold, MoneyWithin
  <2>3. CASE x.outcomeSettled
    BY <2>1, <2>2, <2>3 DEF TakenOwesAll, refundableLeft
  <2>4. CASE \A s \in DOMAIN x.seats : x.seats[s].cancelReason = "viewer_request"
    <3>1. ActiveSeats(x) = {}
      BY <2>1, <2>4 DEF OrderTold, SeatsTold, SeatTold, ActiveSeats
    <3> DEFINE f == [s \in ActiveSeats(x) |-> share(Total[o], Quantity[o], s)]
    <3>2. refundableLeft(o, x) <= SumOf(f)
      BY <2>1, <2>4 DEF OrderTold, RestOfShares
    <3>3. f \in [{} -> Nat]
      BY <3>1
    <3> HIDE DEF f
    <3>4. SumOf(f) = 0
      BY <3>3, SumEmpty
    <3> QED
      BY <3>2, <3>4, <2>1, <2>2 DEF refundableLeft
  <2> QED
    BY <2>3, <2>4
<1> QED
  BY <1>1, LedgerInvariant, PTL

\* No seat of a cancelled date goes back on sale, even one whose cancellation read the date
\* before it was cancelled (cancel-seat.handler.ts).
THEOREM NoSeatReturnsToCancelledDate == Spec => NoReturnOnCancelledDate
<1>1. ASSUME LedgerInv, [Next]_vars PROVE [sales.outcome = "cancelled" => sales'.sold >= sales.sold]_vars
  <2> SUFFICES ASSUME sales.outcome = "cancelled", Next
               PROVE  sales'.sold >= sales.sold
    BY <1>1
  <2>1. sales \in [outcome : Outcome, sold : Nat, available : Nat]
    BY <1>1 DEF LedgerInv, TypeOK
  <2>2. sales' = sales => sales'.sold >= sales.sold
    BY <2>1
  <2>3. ASSUME NEW o \in Orders, PayFromHold(o)
        PROVE  sales'.sold >= sales.sold
    <3>1. Quantity[o] \in Nat
      BY OrdersAssumption
    <3> QED
      BY <2>1, <2>3, <3>1 DEF PayFromHold
  <2>4. ASSUME NEW o \in Orders, OwePaymentBack(o)
        PROVE  sales'.sold >= sales.sold
    <3>1. sales'.sold = sales.sold
      BY <2>1, <2>4 DEF OwePaymentBack
    <3> QED
      BY <3>1, <2>1
  <2>5. ASSUME NEW o \in Orders, HoldExpires(o)
        PROVE  sales'.sold >= sales.sold
    <3>1. sales'.sold = sales.sold
      BY <2>1, <2>5 DEF HoldExpires
    <3> QED
      BY <3>1, <2>1
  <2>6. ASSUME NEW o \in Orders, PlaceOrder(o) \/ PayRetaking(o) \/ CancelSeat(o)
        PROVE  FALSE
    BY <2>6 DEF PlaceOrder, PayRetaking, CanRetake, CancelSeat, CanReleaseSoldSeat
  <2>7. ASSUME NEW outcome, RecordOutcome(outcome)
        PROVE  FALSE
    BY <2>7 DEF RecordOutcome
  <2> QED
    BY <2>2, <2>3, <2>4, <2>5, <2>6, <2>7, Zenon DEF Next, Transaction, BeginPayment, Dispute,
       CancelSeatOfCancelledDate, RollCancelSeatBack, BeginCancelSeat, RefundSeat, RefundMade,
       SettleOrders, EndWaitlist, DeadlinePasses
<1> QED
  BY <1>1, LedgerInvariant, PTL DEF Spec, NoReturnOnCancelledDate

=============================================================================
