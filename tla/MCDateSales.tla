----------------------------- MODULE MCDateSales -----------------------------
(***************************************************************************)
(* An instance of DateSales: up to three seats opened tier by tier, two    *)
(* accounts on and off the list, one of them buying two seats, the end of  *)
(* sales moved by a postponement, then a closing outcome.                  *)
(***************************************************************************)
EXTENDS DateSales, TLC

CONSTANTS h1, a1, a2

OneBuyer == h1 :> a1
TwoSeats == h1 :> 2
Tiers == {1, 2}
MovedSalesEnds == <<1, 3>>
PostponedThenCancelled == <<"postponed", "cancelled">>
=============================================================================
