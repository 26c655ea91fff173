---------------------------- MODULE ExpiringMap ----------------------------
(***************************************************************************)
(* What the value store of a DHT node promises: a map whose entries live   *)
(* for the time they were given and are then gone.  Collecting garbage is  *)
(* no operation of it: nobody can tell.                                    *)
(***************************************************************************)
EXTENDS Integers

CONSTANTS Keys, Values, Ttls, Nothing

VARIABLES cell,         \* cell[k]: [value, left], or Nothing
          reply         \* what the last call answered

vars == <<cell, reply>>

Init == /\ cell = [k \in Keys |-> Nothing]
        /\ reply = Nothing

Put(k, v, ttl) == /\ cell' = [cell EXCEPT ![k] = [value |-> v, left |-> ttl]]
                  /\ reply' \in {reply, [type |-> "pong"]}

Find(k) == /\ reply' = IF cell[k] = Nothing THEN [type |-> "nodes"]
                       ELSE [type |-> "value", value |-> cell[k].value]
           /\ UNCHANGED cell

Delete(k) == /\ cell' = [cell EXCEPT ![k] = Nothing]
             /\ UNCHANGED reply

Ping == /\ reply' = [type |-> "pong"]
        /\ UNCHANGED cell

Older(c) == IF c = Nothing \/ c.left = 0 THEN Nothing
            ELSE [c EXCEPT !.left = @ - 1]

Tick == /\ cell' = [k \in Keys |-> Older(cell[k])]
        /\ UNCHANGED reply

Next == \/ \E k \in Keys :
             \/ \E v \in Values, ttl \in Ttls : Put(k, v, ttl)
             \/ Find(k)
             \/ Delete(k)
        \/ Ping
        \/ Tick

Spec == Init /\ [][Next]_vars
=============================================================================
