----------------------------- MODULE MCSimWorld -----------------------------
(***************************************************************************)
(* Three nodes in a row: a message from a to b is given c as its relay.    *)
(* LoRa carries farther than a connection.                                 *)
(***************************************************************************)
EXTENDS SimWorld

CONSTANTS a, b, c, sf7, sf9

MCNodes == {a, b, c}
MCNear == {{a, b}, {b, c}}
MCInLoRaRange == {{a, b}, {b, c}, {a, c}}
MCUnstable == {c}
MCRegions == {{b, c}}
MCFactors == {sf7, sf9}
MCLegs == {1, 3}
=============================================================================
