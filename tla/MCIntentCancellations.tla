----------------------- MODULE MCIntentCancellations -----------------------
(* Small instances of IntentCancellations for TLC.                         *)
EXTENDS IntentCancellations

(* The waits themselves are left out.                                      *)
MCWaits == [k \in 1 .. Attempts - 1 |-> {}]
=============================================================================
