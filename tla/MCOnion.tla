------------------------------- MODULE MCOnion -------------------------------
(***************************************************************************)
(* Three nodes, circuits of up to three hops, also over one node twice,    *)
(* and two plaintexts of different length.                                 *)
(***************************************************************************)
EXTENDS Onion

CONSTANTS a, b, c, short, long

MCNodes == {a, b, c}
MCTexts == {short, long}
MCTextSize == [t \in MCTexts |-> IF t = short THEN 0 ELSE 14]
=============================================================================
