----------------------------- MODULE RelayQueue -----------------------------
(***************************************************************************)
(* The Queue of pkg/relay/queue.go: a slice of packets kept sorted by      *)
(* priority, bounded by maxSize.  Every method holds q.mu from its first   *)
(* to its last statement, so each call is one step, and any number of      *)
(* goroutines calling the queue is an interleaving of these steps.  A      *)
(* packet is what the pointer refers to: nothing in the code keeps the     *)
(* same packet from being pushed again while it is queued, and the model   *)
(* lets it happen.                                                         *)
(***************************************************************************)
EXTENDS Integers, Sequences, FiniteSets

CONSTANTS Packets,      \* the packets callers may push
          PriorityOf,   \* the Priority field of each packet (a smaller number
                        \* is more urgent: High 0, Normal 1, Low 2)
          MaxSize       \* the maxSize given to NewQueue

ASSUME PriorityAssumption == PriorityOf \in [Packets -> 0..255]
ASSUME MaxSizeAssumption == MaxSize \in Nat

VARIABLES packets,      \* q.packets
          stamped,      \* packets whose ID and CreatedAt a Push has set
          reply         \* what the last completed call returned

vars == <<packets, stamped, reply>>

Init == /\ packets = << >>
        /\ stamped = {}
        /\ reply = [call |-> "none"]

\* Mutant of Full: one packet too many.
FullOffByOne == Len(packets) > MaxSize

Full == Len(packets) >= MaxSize

MoreUrgent(p, q) == PriorityOf[p] < PriorityOf[q]

\* Mutants of IsInsertIndex: the comparison reversed; a packet put in front of
\* its equals.
IsInsertIndexReversed(i, p) ==
  /\ i \in 1..(Len(packets) + 1)
  /\ \A j \in 1..(i - 1) : ~ MoreUrgent(packets[j], p)
  /\ i <= Len(packets) => MoreUrgent(packets[i], p)

IsInsertIndexBeforeEquals(i, p) ==
  /\ i \in 1..(Len(packets) + 1)
  /\ \A j \in 1..(i - 1) : MoreUrgent(packets[j], p)
  /\ i <= Len(packets) => ~ MoreUrgent(packets[i], p)

\* i is the index Push inserts at: that of the first queued packet p is more
\* urgent than, or the one after the last when there is none.
IsInsertIndex(i, p) ==
  /\ i \in 1..(Len(packets) + 1)
  /\ \A j \in 1..(i - 1) : ~ MoreUrgent(p, packets[j])
  /\ i <= Len(packets) => MoreUrgent(p, packets[i])

\* The slice s with p inserted at index i, the rest moved one up.
Inserted(s, i, p) ==
  [j \in 1..(Len(s) + 1) |-> IF j < i THEN s[j]
                             ELSE IF j = i THEN p
                             ELSE s[j - 1]]

Push(p) ==
  /\ ~ Full
  /\ \E i \in 1..(Len(packets) + 1) :
       /\ IsInsertIndex(i, p)
       /\ packets' = Inserted(packets, i, p)
  /\ stamped' = stamped \cup {p}
  /\ reply' = [call |-> "push", packet |-> p, accepted |-> TRUE]

\* ErrQueueFull: neither the queue nor the packet is touched.
PushFull(p) ==
  /\ Full
  /\ reply' = [call |-> "push", packet |-> p, accepted |-> FALSE]
  /\ UNCHANGED <<packets, stamped>>

Pop ==
  /\ packets # << >>
  /\ packets' = Tail(packets)
  /\ reply' = [call |-> "pop", packet |-> Head(packets), accepted |-> TRUE]
  /\ UNCHANGED stamped

\* Pop on an empty queue returns nil; IsEmpty and Len only read.
PopEmpty ==
  /\ packets = << >>
  /\ reply' = [call |-> "popEmpty"]
  /\ UNCHANGED <<packets, stamped>>

Next == \/ \E p \in Packets : Push(p) \/ PushFull(p)
        \/ Pop
        \/ PopEmpty

Spec == Init /\ [][Next]_vars

\* A relay loop that keeps calling Pop: the only scheduling assumed.
FairSpec == Spec /\ WF_vars(Pop)

-----------------------------------------------------------------------------
Replies ==
  {[call |-> "none"], [call |-> "popEmpty"]}
    \cup [call : {"push", "pop"}, packet : Packets, accepted : BOOLEAN]

\* Type invariant.  It includes the capacity: no sequence of calls makes the
\* queue longer than the maxSize it was created with (Push's length check), and
\* every queued packet carries the ID that Push computed for it.
TypeOK == /\ packets \in Seq(Packets)
          /\ Len(packets) <= MaxSize
          /\ stamped \subseteq Packets
          /\ \A i \in 1..Len(packets) : packets[i] \in stamped
          /\ reply \in Replies

\* Push's early exit from its scan finds the right place only in a sorted
\* slice: no packet ever stands in front of a more urgent one.
SortedByPriority ==
  \A i, j \in 1..Len(packets) :
    i < j => ~ MoreUrgent(packets[j], packets[i])

\* What one step may do to a queued packet: it is served (only from the
\* front), keeps its place, moves up because the front was served, or moves
\* back one place because a strictly more urgent packet entered before it.
Undisturbed ==
  \A i \in 1..Len(packets) :
    \/ i <= Len(packets') /\ packets'[i] = packets[i]
    \/ i = 1 /\ packets' = Tail(packets)
    \/ i > 1 /\ packets' = Tail(packets) /\ packets'[i - 1] = packets[i]
    \/ /\ i + 1 <= Len(packets') /\ packets'[i + 1] = packets[i]
       /\ \E j \in 1..i : /\ MoreUrgent(packets'[j], packets[i])
                          /\ reply'.packet = packets'[j]

\* A queued packet is overtaken only by a strictly more urgent one, whatever
\* calls are made: Push keeps the order of arrival within a priority.
OvertakenOnlyByMoreUrgent == [][Undisturbed]_vars

-----------------------------------------------------------------------------
\* The packets of level k in a slice, in their order.
LaneOf(s, k) ==
  LET lane[i \in 0..Len(s)] ==
        IF i = 0 THEN << >>
        ELSE IF PriorityOf[s[i]] = k THEN Append(lane[i - 1], s[i])
        ELSE lane[i - 1]
  IN  lane[Len(s)]

Lane(k) == LaneOf(packets, k)

Buffer == INSTANCE PriorityBuffer
            WITH lanes <- [k \in {PriorityOf[p] : p \in Packets} |-> Lane(k)]

\* One sorted slice behaves as one first-in first-out lane per priority: Push
\* and Pop return what the lanes would return, for every history of calls.
ImplementsPriorityBuffer == Buffer!Spec

\* A packet of the highest priority that is accepted is eventually handed out,
\* whatever other callers keep pushing, as long as somebody keeps popping: a
\* later packet never gets in front of it.
Urgent(p) == \A q \in Packets : ~ MoreUrgent(q, p)

UrgentIsServed ==
  \A p \in Packets :
    Urgent(p) => ((\E i \in 1..Len(packets) : packets[i] = p)
                    ~> (reply.call = "pop" /\ reply.packet = p))
=============================================================================
