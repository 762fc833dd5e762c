---------------------------- MODULE SeatInventory ----------------------------
(***************************************************************************)
(* What ticketing promises of a date's seats, whatever moves them: a seat  *)
(* of the capacity is free, held by one purchase or sold, and nothing else *)
(* happens to it than being opened, held, given back, sold and released.   *)
(* A hold takes its seats once and gives them up once.  How the free seats *)
(* are split between the public and the waiting list's priority pool, and  *)
(* when a sale is open, are the implementations' matter.                   *)
(***************************************************************************)
EXTENDS Integers, FiniteSets

CONSTANTS Holds, Quantity   \* finitely many holds, each of a positive quantity

VARIABLES
    capacity,   \* the seats opened so far
    free,       \* the seats nobody holds
    phase,      \* each hold: "unplaced", "held", then "ended" for good
    sold        \* the seats sold and not released

inventoryVars == <<capacity, free, phase, sold>>

InventoryTypeOK ==
    /\ capacity \in Nat
    /\ free \in Nat
    /\ phase \in [Holds -> {"unplaced", "held", "ended"}]
    /\ sold \in Nat

HeldSeats == UNION {{h} \X (1..Quantity[h]) : h \in {g \in Holds : phase[g] = "held"}}

\* Every seat of the capacity is in exactly one place.
SeatsAccountedFor == free + Cardinality(HeldSeats) + sold = capacity

InventoryInit ==
    /\ capacity = 0 /\ free = 0 /\ sold = 0
    /\ phase = [h \in Holds |-> "unplaced"]

Widen ==
    /\ capacity' \in Nat /\ capacity' > capacity
    /\ free' = free + (capacity' - capacity)
    /\ UNCHANGED <<phase, sold>>

PlaceHold(h) ==
    /\ phase[h] = "unplaced"
    /\ free >= Quantity[h]
    /\ phase' = [phase EXCEPT ![h] = "held"]
    /\ free' = free - Quantity[h]
    /\ UNCHANGED <<capacity, sold>>

GiveBack(B) ==
    /\ \A h \in B : phase[h] = "held"
    /\ phase' = [h \in Holds |-> IF h \in B THEN "ended" ELSE phase[h]]
    /\ free' = free + Cardinality(UNION {{h} \X (1..Quantity[h]) : h \in B})
    /\ UNCHANGED <<capacity, sold>>

SellHold(h) ==
    /\ phase[h] = "held"
    /\ phase' = [phase EXCEPT ![h] = "ended"]
    /\ sold' = sold + Quantity[h]
    /\ UNCHANGED <<capacity, free>>

SellFree(q) ==
    /\ free >= q
    /\ free' = free - q
    /\ sold' = sold + q
    /\ UNCHANGED <<capacity, phase>>

Release ==
    /\ sold' \in Nat /\ sold' < sold
    /\ free' = free + (sold - sold')
    /\ UNCHANGED <<capacity, phase>>

InventoryNext ==
    \/ Widen \/ Release
    \/ \E h \in Holds : PlaceHold(h) \/ SellHold(h) \/ SellFree(Quantity[h])
    \/ \E B \in SUBSET Holds : GiveBack(B)

InventorySpec == InventoryInit /\ [][InventoryNext]_inventoryVars
=============================================================================
