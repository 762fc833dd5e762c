--------------------------- MODULE MCReplayAssets ---------------------------
(***************************************************************************)
(* An instance of ReplayAssets.                                            *)
(*                                                                         *)
(* Two replicas, two attempts per call and one fault between them: an      *)
(* attempt that fails is made again, and is given up if its second attempt *)
(* fails too; a call is also repeated because its lease ended, its process *)
(* stopped or its outcome was not written, or not known to be.             *)
(***************************************************************************)
EXTENDS ReplayAssets

CONSTANTS r1, r2
=============================================================================
