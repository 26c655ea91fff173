----------------------------- MODULE MCDhtRpc -----------------------------
(***************************************************************************)
(* Keys of three bits, buckets of two.  The keys 100, 101 and 110 compete  *)
(* for one bucket of s, the table of 000; c1 and c4 are two objects for    *)
(* one key.  The table r, of 101, shares the objects.                      *)
(***************************************************************************)
EXTENDS DhtRpc, TLC

CONSTANTS k1, k2, v1, s, r, c1, c2, c3, c4

MCKeys == {k1, k2}
MCValues == {v1}

\* The keys of the store are alike.
MCSymmetry == Permutations(MCKeys)
MCTtls == {0}

MCTables == {s, r}
MCContacts == {c1, c2, c3, c4}

MCIdOf ==
  [c \in MCContacts |-> CASE c \in {c1, c4} -> <<1, 0, 0>>
                          [] c = c2 -> <<1, 0, 1>>
                          [] c = c3 -> <<1, 1, 0>>]

MCSelfId == [t \in MCTables |-> IF t = s THEN <<0, 0, 0>> ELSE <<1, 0, 1>>]
=============================================================================
