---------------------------- MODULE OwedIntents ----------------------------
(***************************************************************************)
(* The orders' rows as a cancellation's relay and worker see them, and     *)
(* their intents at the provider: which intents are owed a cancellation    *)
(* (apps/ticketing/src/orders/seat-order.entity.ts,                        *)
(* payments/owed-calls.ts).                                                *)
(***************************************************************************)

CONSTANT Orders

VARIABLES
    order,   \* seat_order: its state and its cancellation's columns
    intent   \* the intent at the provider

SeatOrderRow ==
    [state : {"awaiting", "failed", "paid"},
     settled : BOOLEAN,   \* its payment was confirmed, with a seat or owed back
     declined : BOOLEAN,  \* its payment failed, its intent not reported waiting since
     intentKnown : BOOLEAN,
     owed : BOOLEAN, dead : BOOLEAN,
     enqueued : {"never", "recently", "stale"}]

NewOrder == [state |-> "awaiting", settled |-> FALSE, declined |-> FALSE,
             intentKnown |-> FALSE, owed |-> FALSE, dead |-> FALSE, enqueued |-> "never"]

(* intentCancellationOf: owed, and neither made nor given up on.           *)
Owed(o) == order[o].owed /\ ~order[o].dead

(* An intent a failed order knows of and the provider still has waiting is *)
(* owed its cancellation, given up on or not: the mark is cleared only by  *)
(* a payment or once the provider cancelled, through retries, stalls, lost *)
(* answers and marks owed again (intent-cancellation.processor.ts).  Save  *)
(* where the order failed by its payment's failure: failUnpaidOrder owes   *)
(* nothing, and such an intent waits until it is reported again.           *)
LeftIntentOwed ==
    \A o \in Orders :
        order[o].state = "failed" /\ order[o].intentKnown /\ intent[o] = "waiting"
            => order[o].owed \/ order[o].declined
=============================================================================
