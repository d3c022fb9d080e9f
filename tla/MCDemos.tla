------------------------------ MODULE MCDemos -------------------------------
(* Model values and bounds for the runs of Demos. *)
EXTENDS Demos

CONSTANTS x1, host, cron
=============================================================================
