----------------------------- MODULE MCSession ------------------------------
(***************************************************************************)
(* Of the pages that ask for something, and are not in Misplaced, one of   *)
(* every kind: the others of its kind differ only in name.  Of the pages   *)
(* that ask for nothing the two that layouts send people to.               *)
(***************************************************************************)
EXTENDS Session

Kind(n)   == <<Site[n].layout, Site[n].needs, Site[n].page.asks>>
Asking    == {n \in DOMAIN Site \ Misplaced : Site[n].page.asks # Anyone}
MCVisited == {CHOOSE n \in Asking : Kind(n) = k : k \in {Kind(n) : n \in Asking}} \cup {"index", "permission"}
MCRanks   == {Guest, User, Moderator, Admin}
MCFew     == {"index", "permission"}
MCOneRank == {User}
MCSome    == {"index", "permission", "notifications"}
=============================================================================
