---------------------------- MODULE MCRelayQueue ----------------------------
(***************************************************************************)
(* Four packets, two of them of the highest priority, in a queue of three. *)
(***************************************************************************)
EXTENDS RelayQueue

CONSTANTS h1, h2, n1, l1

MCPackets == {h1, h2, n1, l1}

MCPriorityOf ==
  [p \in MCPackets |-> IF p \in {h1, h2} THEN 0 ELSE IF p = n1 THEN 1 ELSE 2]
=============================================================================
