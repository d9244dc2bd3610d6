-------------------------- MODULE MCFixtureSharing --------------------------
(* Small instances of FixtureSharing for TLC.                               *)
EXTENDS FixtureSharing, TLC

CONSTANTS a, b, s1, s2, f1

MCClients    == {a, b}
OneClient    == {a}
MCSessions   == {s1, s2}
MCForeignIds == {f1}
ClientSymmetry == Permutations(MCClients)
=============================================================================
