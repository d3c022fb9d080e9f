------------------------------ MODULE MCEvents ------------------------------
(* Model values and bounds for the runs of Events. *)
EXTENDS Events

CONSTANTS s1, s2, a, v1, v2, v3

\* v1 and v2 are held on one server, v3 on another, all of them against one player.
MCServerOf == [v \in Votes |-> IF v = v3 THEN s2 ELSE s1]
MCPairOf   == [v \in Votes |-> a]
=============================================================================
