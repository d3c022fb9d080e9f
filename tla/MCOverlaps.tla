----------------------------- MODULE MCOverlaps -----------------------------
(***************************************************************************)
(* Two of a kind at once: two callers of the report table, two clients of  *)
(* the asset store, two tabs of one browser, kick votes whose lines mix on *)
(* their way.  These parts do not meet: each behaviour works one of them,  *)
(* and the states are the sum of theirs.                                   *)
(***************************************************************************)
EXTENDS MCSession, MCEvents, Reports, AssetStore

VARIABLE part
overlapsVars == <<sessionVars, vars, rvars, avars, part>>

OverlapsInit ==
    /\ part \in {"reports", "assets", "session", "votes"}
    /\ ReportsInit /\ AInit /\ SessionInit /\ Init

Works(p) == part = p /\ UNCHANGED part

OverlapsNext ==
    \/ Works("reports") /\ ReportsNext /\ UNCHANGED <<avars, sessionVars, vars>>
    \/ Works("assets")  /\ ANext       /\ UNCHANGED <<rvars, sessionVars, vars>>
    \/ Works("session") /\ SessionNext /\ UNCHANGED <<rvars, avars, vars>>
    \/ Works("votes")   /\ Next        /\ UNCHANGED <<rvars, avars, sessionVars>>

OverlapsSpec == OverlapsInit /\ [][OverlapsNext]_overlapsVars

MCSymmetry == Permutations(Tabs) \cup Permutations(Codes)
=============================================================================
