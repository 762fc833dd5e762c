----------------------------- MODULE MCPlayback -----------------------------
(***************************************************************************)
(* An instance of Playback: two devices and two seats, two requests at     *)
(* once, two sessions whose lease lasts two instants.                      *)
(***************************************************************************)
EXTENDS Playback, TLC

CONSTANTS d1, d2, p1, s1, s2, c1, c2

Symmetry == Permutations(Devices) \cup Permutations(Seats) \cup Permutations(Calls)
=============================================================================
