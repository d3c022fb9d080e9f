------------------------------- MODULE MCBans -------------------------------
(* Model values for the run of Bans. *)
EXTENDS Bans, TLC

CONSTANTS p1, alice, clan, r1
=============================================================================
