--------------------------- MODULE MCSeatPurchase ---------------------------
(***************************************************************************)
(* Instances of SeatPurchase, each on a date of one seat.                  *)
(*                                                                         *)
(* Purchase: one order, two attempts under its key, every status its       *)
(* intent may take and the date's cancellation.                            *)
(*                                                                         *)
(* Rivals: three attempts under one key race another order for the seat,   *)
(* both paying, and the bank may dispute the first one's payment.          *)
(*                                                                         *)
(* Once: one order asked for once.                                         *)
(***************************************************************************)
EXTENDS SeatPurchase, TLC

CONSTANTS o1, o2, a1, a2, a3, a4

OneOrder == {o1}
OneSeat == o1 :> 1
OneKey == a1 :> o1 @@ a2 :> o1
AnyScenario == o1 :> IntentStatus

TwoOrders == {o1, o2}
TwoSeats == o1 :> 1 @@ o2 :> 1
TwoKeys == a1 :> o1 @@ a2 :> o1 @@ a3 :> o1 @@ a4 :> o2
RivalScenarios == o1 :> {"declined", "succeeded"} @@ o2 :> {"succeeded"}

SingleKey == a1 :> o1

\* The attempts under o1's key are interchangeable.
SameKey == Permutations({a1, a2, a3})
=============================================================================
