---------------------------- MODULE MCModeration ----------------------------
(* Model values and bounds for the run of Moderation. *)
EXTENDS Moderation, TLC

CONSTANTS p1, p2, alice, rita

MCSymmetry == Permutations(Handlers)
=============================================================================
