---------------------------- MODULE MCSimServer ----------------------------
(***************************************************************************)
(* The ticker and two handlers; two grids, two sets of rates, and a field  *)
(* that no update copies.                                                  *)
(***************************************************************************)
EXTENDS SimServer

CONSTANTS h1, h2

MCHandlers == {h1, h2}
MCDefault == [grid |-> "small", rates |-> "low", fixed |-> "weak"]
MCConfigs == {[grid |-> "small", rates |-> "high", fixed |-> "strong"],
              [grid |-> "large", rates |-> "low", fixed |-> "weak"]}
MCSpeeds == {0, 1}
=============================================================================
