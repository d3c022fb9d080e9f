----------------------------- MODULE MCBrowser ------------------------------
(* Every screen of the catalogue, with a table of two rows. *)
EXTENDS Browser, Catalogue

CONSTANTS r1, r2, v1, v2

MCStart == [r \in {r1, r2} |-> IF r = r1 THEN v1 ELSE Absent]
=============================================================================
