-------------------------- MODULE MCProofOfHistory --------------------------
(***************************************************************************)
(* Two generators, two types of events, two kinds of data, a log of three  *)
(* entries.                                                                *)
(***************************************************************************)
EXTENDS ProofOfHistory

CONSTANTS g, h, e1, e2, d1, d2

MCGenerators == {g, h}
MCEvents == {e1, e2}
MCData == {d1, d2}
=============================================================================
