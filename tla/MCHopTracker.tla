---------------------------- MODULE MCHopTracker ----------------------------
(***************************************************************************)
(* Two packets: the sender of a never retransmits, that of b may once.     *)
(***************************************************************************)
EXTENDS HopTracker

CONSTANTS a, b

MCIds == {a, b}
MCMaxSends == [id \in MCIds |-> IF id = a THEN 1 ELSE 2]
=============================================================================
