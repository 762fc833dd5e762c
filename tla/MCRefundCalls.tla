--------------------------- MODULE MCRefundCalls ---------------------------
(***************************************************************************)
(* An instance of RefundCalls: two attempts, small enough to check         *)
(* liveness with an outage.                                                *)
(***************************************************************************)
EXTENDS RefundCalls, TLC

CallsWaits == <<{1}>>
CallsLatest == (0 :> 0) @@ (1 :> 1)
=============================================================================
