------------------------------ MODULE MCForum -------------------------------
(* Two requests at once on two threads and three messages. *)
EXTENDS Forum

CONSTANTS viewer, other
=============================================================================
