---------------------------- MODULE MCDepotTokens ----------------------------
(***************************************************************************)
(* Small instances of DepotTokens for TLC.                                 *)
(***************************************************************************)
EXTENDS DepotTokens, TLC

CONSTANTS s1, s2, t1, t2

TwoServers == {s1, s2}
OneToken == {t1}
TwoTokens == {t1, t2}

\* Servers are alike, and so are tokens.
Alike == Permutations(TwoServers) \cup Permutations(TwoTokens)

=============================================================================
