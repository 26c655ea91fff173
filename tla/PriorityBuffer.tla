--------------------------- MODULE PriorityBuffer ---------------------------
(***************************************************************************)
(* What the relay queue of pkg/relay promises to its callers: a bounded    *)
(* store with one first-in first-out lane per priority level.  A push      *)
(* joins the tail of its own lane or is refused because the store is full; *)
(* a pop serves the head of the most urgent lane that is not empty, level  *)
(* 0 being the most urgent.  RelayQueue implements it with one sorted      *)
(* slice.                                                                  *)
(***************************************************************************)
EXTENDS Integers, Sequences, FiniteSetsExt

CONSTANTS Packets,      \* the packets callers may push
          PriorityOf,   \* the Priority field of each packet
          MaxSize       \* capacity of the store

VARIABLES lanes,        \* lanes[k]: the packets of level k, oldest first
          reply         \* what the last completed call returned

vars == <<lanes, reply>>

Levels == {PriorityOf[p] : p \in Packets}

Held == MapThenSumSet(LAMBDA k : Len(lanes[k]), Levels)

Occupied == {k \in Levels : lanes[k] # << >>}

Init == /\ lanes = [k \in Levels |-> << >>]
        /\ reply = [call |-> "none"]

Push(p) == /\ Held < MaxSize
           /\ lanes' = [lanes EXCEPT ![PriorityOf[p]] = Append(@, p)]
           /\ reply' = [call |-> "push", packet |-> p, accepted |-> TRUE]

Refuse(p) == /\ Held = MaxSize
             /\ reply' = [call |-> "push", packet |-> p, accepted |-> FALSE]
             /\ UNCHANGED lanes

Pop == /\ Occupied # {}
       /\ LET k == Min(Occupied)
          IN  /\ lanes' = [lanes EXCEPT ![k] = Tail(@)]
              /\ reply' = [call |-> "pop", packet |-> Head(lanes[k]),
                           accepted |-> TRUE]

PopNothing == /\ Occupied = {}
              /\ reply' = [call |-> "popEmpty"]
              /\ UNCHANGED lanes

Next == \/ \E p \in Packets : Push(p) \/ Refuse(p)
        \/ Pop
        \/ PopNothing

Spec == Init /\ [][Next]_vars
=============================================================================
