------------------------------ MODULE DhtStore ------------------------------
(***************************************************************************)
(* The value store of a DHT node and the RPC handlers on it, from          *)
(* pkg/dht/store.go.  Every Store method holds s.mu and every handler      *)
(* makes one call of it, so a message handled is one step.  The routing    *)
(* table that answers FIND_NODE, and FIND_VALUE on a miss, is DhtTable.    *)
(***************************************************************************)
EXTENDS Integers

CONSTANTS Keys, Values,
          RpcTtl,       \* the 24 hours HandleStore gives, in ticks
          Ttls,         \* lifetimes other callers of Put choose
          Nothing

ASSUME TtlAssumption == RpcTtl \in Nat /\ Ttls \subseteq Nat

\* What the map holds for a key: the value, and the time left to ExpiresAt, or
\* -1 once past it.
Entries == [value : Values, left : {-1} \cup (0..RpcTtl) \cup
                                   UNION {0..ttl : ttl \in Ttls}]

ASSUME NothingAssumption == Nothing \notin Entries

VARIABLES values,       \* s.values: an entry for each key in the map
          reply         \* the answer to the last message

vars == <<values, reply>>

Stored == DOMAIN values

Init == /\ values = [k \in {} |-> Nothing]
        /\ reply = Nothing

\* Mutant of Expired: a value is gone at the very moment it expires.
ExpiredAtOnce(k) == values[k].left <= 0

\* time.Now().After(ExpiresAt)
Expired(k) == values[k].left < 0

\* Store.Get
Get(k) == IF k \in Stored /\ ~ Expired(k) THEN values[k] ELSE Nothing

\* Store.Put overwrites, whatever is there and however long it would last.
PutValue(k, v, ttl) ==
  values' = [x \in Stored \cup {k} |->
               IF x = k THEN [value |-> v, left |-> ttl] ELSE values[x]]

Put(k, v, ttl) == PutValue(k, v, ttl) /\ UNCHANGED reply

HandleStore(k, v) == PutValue(k, v, RpcTtl) /\ reply' = [type |-> "pong"]

\* The value, or else the nearest contacts.
HandleFindValue(k) ==
  /\ reply' = IF Get(k) = Nothing THEN [type |-> "nodes"]
              ELSE [type |-> "value", value |-> Get(k).value]
  /\ UNCHANGED values

HandlePing == /\ reply' = [type |-> "pong"]
              /\ UNCHANGED values

Without(gone) == values' = [k \in Stored \ gone |-> values[k]]

Delete(k) == Without({k}) /\ UNCHANGED reply

Collectable == {k \in Stored : Expired(k)}

Cleanup == Without(Collectable) /\ UNCHANGED reply

Aged(left) == IF left < 0 THEN left ELSE left - 1

\* Time passes.
Tick == /\ values' = [k \in Stored |-> [values[k] EXCEPT !.left = Aged(@)]]
        /\ UNCHANGED reply

Next == \/ \E k \in Keys :
             \/ \E v \in Values : HandleStore(k, v)
             \/ \E v \in Values, ttl \in Ttls : Put(k, v, ttl)
             \/ HandleFindValue(k)
             \/ Delete(k)
        \/ HandlePing
        \/ Cleanup
        \/ Tick

Spec == Init /\ [][Next]_vars

-----------------------------------------------------------------------------
TypeOK == /\ Stored \subseteq Keys
          /\ \A k \in Stored : values[k] \in Entries

\* Callers see a map whose entries vanish when their time is over, to the
\* instant: neither an expired value that Cleanup has not reached nor a
\* Cleanup at any moment can be noticed.
Map == INSTANCE ExpiringMap
         WITH cell <- [k \in Keys |-> Get(k)], Ttls <- Ttls \cup {RpcTtl}

ImplementsExpiringMap == Map!Spec
=============================================================================
