----------------------------- MODULE MCSettings -----------------------------
(* Settings of three kinds: typed and ended with a slash, secret, and        *)
(* without an input.  The values stand for "" and "/".                       *)
EXTENDS Settings, TLC

CONSTANTS s1, s2

MCSymmetry == Permutations(Slots)
MCFields   == {AssetUrl, <<"discord", "token">>, <<"ssh", "hostKeyStrategy">>}
MCSlash    == [v \in Values |-> 1]
=============================================================================
