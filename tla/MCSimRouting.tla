---------------------------- MODULE MCSimRouting ----------------------------
(***************************************************************************)
(* Five nodes: a, b and c in reach of each other, then d and e in a row,   *)
(* so that a pair can have common neighbours, neighbours of one end only,  *)
(* or two relays between them.                                             *)
(***************************************************************************)
EXTENDS SimRouting

CONSTANTS a, b, c, d, e

MCNodes == {a, b, c, d, e}
MCNear == {{a, b}, {b, c}, {a, c}, {c, d}, {d, e}}
MCUnstable == {b}
MCRegions == {{b, c}, {d, e}}
=============================================================================
