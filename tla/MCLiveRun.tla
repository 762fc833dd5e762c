----------------------------- MODULE MCLiveRun -----------------------------
(***************************************************************************)
(* An instance of LiveRun: two replicas, a feed published twice, one fault *)
(* between the replicas.                                                   *)
(***************************************************************************)
EXTENDS LiveRun

CONSTANTS w1, w2
=============================================================================
