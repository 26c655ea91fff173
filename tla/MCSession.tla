----------------------------- MODULE MCSession -----------------------------
(***************************************************************************)
(* Alice with two goroutines, as in main, and Bob with one.  The           *)
(* transports are named by the PeerIDs, or otherwise, as main names them.  *)
(***************************************************************************)
EXTENDS Session

CONSTANTS alice, bob, test, console, reply

MCNodes == {alice, bob}
MCCallers == {test, console, reply}
MCHome == [c \in MCCallers |-> IF c = reply THEN bob ELSE alice]
MCMisread == [n \in MCNodes |-> 2]
=============================================================================
