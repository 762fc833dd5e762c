--------------------------- MODULE MCOrderLedger ---------------------------
(* Small instances of OrderLedger for TLC.                                 *)
EXTENDS OrderLedger, TLC

(* Two seats for three minor units, so that their shares differ, and one   *)
(* seat for two.                                                           *)
MCQuantity == (1 :> 2) @@ (2 :> 1)
MCTotal == (1 :> 3) @@ (2 :> 2)
=============================================================================
