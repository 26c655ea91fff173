----------------------------- MODULE HopTracker -----------------------------
(***************************************************************************)
(* The HopTracker of pkg/relay/queue.go: which hop of its path a packet is *)
(* on and whether that hop acknowledged it.  Every method runs under       *)
(* ht.mu, so each call is one step.                                        *)
(*                                                                         *)
(* The code around it is the sender the hop-by-hop protocol of             *)
(* modules/24-qos-multipath.md describes: it tracks a packet at hop 0,     *)
(* transmits it, moves to the next hop once the current one has            *)
(* acknowledged, and may transmit again while it has not.  Transmissions   *)
(* and acknowledgements may be lost or late.  An acknowledgement names the *)
(* packet only, because that is all ACK takes.                             *)
(***************************************************************************)
EXTENDS Integers, FiniteSets

CONSTANTS Ids,          \* packet identifiers
          TotalHops,    \* length of a path
          MaxSends,     \* MaxSends[id]: transmissions of a packet over one hop
                        \* (1: its sender never retransmits)
          Keep          \* the largest olderThan Cleanup is called with

ASSUME HopsAssumption == TotalHops \in Nat \ {0}
ASSUME SendsAssumption == MaxSends \in [Ids -> Nat \ {0}]
ASSUME KeepAssumption == Keep \in Nat

VARIABLES hops,         \* ht.hops: a HopState for each tracked packet
          started,      \* packets that have been tracked at least once
          sends,        \* transmissions made over the current hop
          flights,      \* transmissions on their way to a hop
          acks,         \* acknowledgements on their way back
          confirmed,    \* history, <<id, hop>>: the hop has received the packet
                        \* on its present journey
          reached       \* history: packets some hop has received on any journey

received == <<confirmed, reached>>
trackerVars == <<hops, started, sends, flights, acks, received>>

HopIndexes == 0..(TotalHops - 1)

\* ACKedAt as the time since then; Keep + 1 stands for every longer time, and
\* for the zero time.Time of a state that was never ACKed.
Ages == 0..(Keep + 1)

Tracked == DOMAIN hops

Messages == [id : Ids, hop : HopIndexes, n : Nat]

\* HopTracker.IsACKed
IsACKed(id) == id \in Tracked /\ hops[id].acked

TrackerInit ==
  /\ hops = [id \in {} |-> 0]
  /\ started = {}
  /\ sends = [id \in Ids |-> 0]
  /\ flights = {}
  /\ acks = {}
  /\ confirmed = {} /\ reached = {}

\* Mutant of NewState: an overwritten entry keeps its ACKed flag.
NewStateKeepsFlag(id, h) == [hop |-> h, acked |-> IsACKed(id), age |-> Keep + 1]

\* The HopState that Track stores.
NewState(id, h) == [hop |-> h, acked |-> FALSE, age |-> Keep + 1]

\* HopTracker.Track: overwrites whatever was stored for the packet.
Track(id, h) ==
  hops' = [x \in Tracked \cup {id} |-> IF x = id THEN NewState(id, h)
                                      ELSE hops[x]]

Transmit(id, h, n) ==
  /\ flights' = flights \cup {[id |-> id, hop |-> h, n |-> n]}
  /\ sends' = [sends EXCEPT ![id] = n]

\* A packet starts on its journey, or on another: its ID is the hash of its
\* data, so that the same data sent again, after the last journey is over, is
\* the same packet.
Start(id) ==
  /\ id \in Tracked => hops[id].acked /\ hops[id].hop = TotalHops - 1
  /\ Track(id, 0)
  /\ Transmit(id, 0, 1)
  /\ started' = started \cup {id}
  /\ confirmed' = {r \in confirmed : r[1] # id}
  /\ UNCHANGED <<acks, reached>>

\* The current hop acknowledged: on to the next one.
Advance(id) ==
  /\ IsACKed(id)
  /\ hops[id].hop < TotalHops - 1
  /\ Track(id, hops[id].hop + 1)
  /\ Transmit(id, hops[id].hop + 1, 1)
  /\ UNCHANGED <<started, acks, received>>

\* No acknowledgement so far: transmit again.
Resend(id) ==
  /\ id \in Tracked /\ ~ hops[id].acked
  /\ sends[id] < MaxSends[id]
  /\ Transmit(id, hops[id].hop, sends[id] + 1)
  /\ UNCHANGED <<hops, started, acks, received>>

\* A hop receives a transmission and acknowledges it.
Receive(m) ==
  /\ flights' = flights \ {m}
  /\ acks' = acks \cup {m}
  /\ confirmed' = confirmed \cup {<<m.id, m.hop>>}
  /\ reached' = reached \cup {m.id}
  /\ UNCHANGED <<hops, started, sends>>

Lose(m) ==
  /\ m \in flights \/ m \in acks
  /\ flights' = flights \ {m}
  /\ acks' = acks \ {m}
  /\ UNCHANGED <<hops, started, sends, received>>

\* HopTracker.ACK, called with the packet ID of an arriving acknowledgement:
\* unknown packets are ignored; a known one is marked, again if it already was.
ACK(m) ==
  /\ acks' = acks \ {m}
  /\ hops' = IF m.id \in Tracked
             THEN [hops EXCEPT ![m.id] = [@ EXCEPT !.acked = TRUE, !.age = 0]]
             ELSE hops
  /\ UNCHANGED <<started, sends, flights, received>>

\* Mutant of Expired: the ACKed test dropped.
ExpiredAnyway(id, olderThan) == hops[id].age > olderThan

\* What Cleanup deletes: ACKedAt strictly before now - olderThan, in a state
\* that has been ACKed.
Expired(id, olderThan) == hops[id].acked /\ hops[id].age > olderThan

Cleanup(olderThan) ==
  /\ hops' = [id \in {x \in Tracked : ~ Expired(x, olderThan)} |-> hops[id]]
  /\ UNCHANGED <<started, sends, flights, acks, received>>

\* Time passes.
Tick ==
  /\ hops' = [id \in Tracked |->
               [hops[id] EXCEPT !.age = IF @ > Keep THEN @ ELSE @ + 1]]
  /\ UNCHANGED <<started, sends, flights, acks, received>>

Clean == \E olderThan \in 0..Keep : Cleanup(olderThan)

TrackerNext ==
  \/ \E id \in Ids : Start(id) \/ Advance(id) \/ Resend(id)
  \/ \E m \in flights : Receive(m)
  \/ \E m \in acks : ACK(m)
  \/ \E m \in flights \cup acks : Lose(m)
  \/ Clean
  \/ Tick

TrackerSpec == TrackerInit /\ [][TrackerNext]_trackerVars

-----------------------------------------------------------------------------
TrackerTypeOK ==
  /\ Tracked \subseteq Ids
  /\ \A id \in Tracked :
       hops[id] \in [hop : HopIndexes, acked : BOOLEAN, age : Ages]
  /\ started \subseteq Ids
  /\ sends \in [Ids -> Nat] /\ \A id \in Ids : sends[id] <= MaxSends[id]
  /\ flights \subseteq Messages /\ acks \subseteq Messages
  /\ confirmed \subseteq (Ids \X HopIndexes) /\ reached \subseteq Ids

\* The hop-by-hop acknowledgement: when IsACKed says yes, the hop the packet is
\* tracked at has really received it, however late or lost messages are, if its
\* sender never retransmits.  Otherwise some hop has received it, at some time:
\* ACK is not told which hop acknowledges.
AckedHopConfirmed ==
  \A id \in Ids : IsACKed(id) =>
    /\ id \in reached
    /\ MaxSends[id] = 1 => <<id, hops[id].hop>> \in confirmed

\* Cleanup forgets no packet that is still waiting: one that was tracked and is
\* no longer has been received, and on this journey if its sender never
\* retransmits.
ForgottenOnlyWhenConfirmed ==
  \A id \in started \ Tracked :
    /\ id \in reached
    /\ MaxSends[id] = 1 => \E h \in HopIndexes : <<id, h>> \in confirmed
=============================================================================
