----------------------------- MODULE MCSimLedger -----------------------------
(***************************************************************************)
(* Three nodes and the default rates of config.go.  A file of 60 chunks    *)
(* costs 60 credits a relay, so that one file over the slow channel makes  *)
(* a relay rich enough to transfer.                                        *)
(***************************************************************************)
EXTENDS SimLedger

CONSTANTS a, b, c

MCNodes == {a, b, c}
MCLimits == {200, 6000}
MCFiles == {60}
MCConfirmNs == {2}
MCShares == {10, 30}
MCThreads == {"ticker", "handler"}
MCMultipliers == {100}
Symmetry == Permutations(MCNodes)
=============================================================================
