------------------------------ MODULE SimWorld ------------------------------
(***************************************************************************)
(* The simulated world of simulation/world.go: messages under way, LoRa    *)
(* transmissions and their collisions, hop acknowledgements and the        *)
(* counters, tick by tick.  Which way a message goes is SimRouting, which  *)
(* this module composes with.                                              *)
(*                                                                         *)
(* One turn of the second loop of RunSteps goes through three phases:      *)
(* collisions, then status changes and delivery, then traffic.  RunSteps   *)
(* does not take w.mu, so scenario handlers act between the phases and     *)
(* between the steps of a message's sending, and LoadTest sends its own    *)
(* meanwhile.  Races within one step are left out.                         *)
(***************************************************************************)
EXTENDS SimRouting

CONSTANTS InLoRaRange,  \* pairs {a, b} that hear each other's LoRa signals
          SpreadingFactors,
          Legs,         \* ticks one leg of a path can take
          MaxTicks,     \* the 3000 ticks no delivery exceeds
          MaxAir,       \* the 20 ticks no recorded transmission exceeds
          Gap,          \* the 500 ticks between two sends of a node
          Retry,        \* the 250 ticks before a node tries again, at the least
          MaxSent,      \* bound: messages sent
          MaxScenarios  \* bound: calls of scenario handlers, and sends of LoadTest

ASSUME RangeAssumption == InLoRaRange \subseteq SUBSET Nodes
ASSUME TimesAssumption == /\ Legs \subseteq Nat \ {0}
                          /\ MaxTicks \in Nat /\ MaxTicks >= 3
                          /\ MaxTicks >= MinRelayHops + 2
                          /\ MaxAir \in 0..(MaxTicks - 1)
                          /\ Gap \in Nat \ {0} /\ Retry \in 1..Gap
ASSUME BoundsAssumption == MaxSent \in Nat /\ MaxScenarios \in Nat

VARIABLES phase,        \* what RunSteps does next
          messages,     \* w.ActiveMessages
          transmissions,\* w.ActiveTransmissions
          wait,         \* ticks until a node may send again
          sent,         \* the IDs of all messages sendMsg has made
          delivered,    \* messages counted in w.TotalReceived
          failed,       \* w.TotalFailed
          scenarios,    \* calls so far
          dropped,      \* history: messages given up because of a collision
          hit,          \* history: messages whose transmission collided
          unlisted      \* history: those that did in the hands of their thread

places == <<up, jammed, online>>
traffic == <<messages, transmissions, sent>>
results == <<delivered, failed, dropped, hit, unlisted>>
worldVars == <<places, search, phase, traffic, wait, results, scenarios>>

WorldInit == /\ Init
             /\ phase = "collisions"
             /\ messages = << >> /\ transmissions = << >> /\ sent = << >>
             /\ wait = [n \in Nodes |-> 0]
             /\ delivered = {} /\ failed = 0 /\ dropped = {}
             /\ hit = {} /\ unlisted = {}
             /\ scenarios = 0

-----------------------------------------------------------------------------
(* checkCollisions.  Two transmissions that are both still in the air have *)
(* begun before now, so the overlap test of the code never rejects a pair. *)

\* What becomes of a transmission when the tick advances.
Aged(tx) == [tx EXCEPT !.left = @ - 1]

InTheAir(tx) == tx.left > 0

Audible(a, b) == a = b \/ {a, b} \in InLoRaRange

Clashes(tx, other) == /\ InTheAir(tx) /\ InTheAir(other)
                      /\ tx.sf = other.sf
                      /\ Audible(tx.id[1], other.id[1])

Later(i) == {j \in (i + 1)..Len(transmissions) :
               Clashes(transmissions[i], transmissions[j])}

\* The inner loop stops at the first later transmission that clashes.
Pairs == {<<i, Min(Later(i))>> : i \in {k \in DOMAIN transmissions : Later(k) # {}}}

\* The members of s at the places in kept, in their order.
At(s, kept) ==
  [k \in 1..Cardinality(kept) |->
     s[CHOOSE i \in kept : Cardinality({j \in kept : j <= i}) = k]]

\* Mutant of Kept: the transmission stays for another collision.
KeptAll == {i \in DOMAIN transmissions : InTheAir(transmissions[i])}

\* The first of a pair is taken off the air; the second stays.
Kept == {i \in DOMAIN transmissions : InTheAir(transmissions[i])}
          \ {pair[1] : pair \in Pairs}

\* markMsgCollided: the first active message that has the ID.
Marked(ids) ==
  [i \in DOMAIN messages |->
     [messages[i] EXCEPT !.collided =
        \/ @
        \/ /\ messages[i].id \in ids
           /\ \A j \in 1..(i - 1) : messages[j].id # messages[i].id]]

\* A failure is counted for each of the two senders.
Losses == 2 * Cardinality(Pairs)

\* Mutant of Involved: the first of a pair is not marked.
InvolvedSecond == {pair[2] : pair \in Pairs}

\* The places of the transmissions whose message is marked.
Involved == UNION {{pair[1], pair[2]} : pair \in Pairs}

ActiveNumbers == {m.n : m \in ToSet(messages)}

\* A message has been made and is still in the hands of a thread.
Made(t) == search[t].at = "made"
HeldNumbers == {search[t].message.n : t \in {u \in Threads : Made(u)}}

CheckCollisions ==
  LET collided == {transmissions[i].n : i \in UNION {{pair[1], pair[2]} : pair \in Pairs}}
  IN  /\ phase = "collisions"
      /\ phase' = "delivery"
      /\ transmissions' = At([i \in DOMAIN transmissions |-> Aged(transmissions[i])],
                             Kept)
      /\ messages' = Marked({transmissions[i].id : i \in Involved})
      /\ failed' = failed + Losses
      /\ hit' = hit \cup collided
      /\ unlisted' = unlisted \cup (collided \cap HeldNumbers)
      /\ wait' = [n \in Nodes |-> IF wait[n] > 0 THEN wait[n] - 1 ELSE 0]
      /\ UNCHANGED <<places, search, sent, delivered, dropped, scenarios>>

-----------------------------------------------------------------------------
(* Delivery. *)

Hops(m) == Len(m.path) - 1

\* The hop acknowledged when this many ticks remain, from 1.
HopIndex(m, remaining) == Hops(m) - (remaining * Hops(m)) \div m.total

\* Mutant of Moved: a message waits for its receiver.
MovedWhileUp(m) ==
  IF Last(m.path) \in up
  THEN [m EXCEPT !.remaining = @ - 1,
                 !.acks = [i \in DOMAIN @ |->
                             @[i] \/ i = HopIndex(m, m.remaining - 1)]]
  ELSE m

\* One tick of a message.
Moved(m) ==
  LET hop == HopIndex(m, m.remaining - 1)
  IN  [m EXCEPT !.remaining = @ - 1,
                !.acks = [i \in DOMAIN @ |-> @[i] \/ i = hop]]

\* Mutant of Going: collided messages are not removed.
GoingAll == DOMAIN messages

\* The places of the messages that are not lost.
Going == {i \in DOMAIN messages : ~ messages[i].collided}

UnderWay(m) == m.remaining > 0

\* Unstable nodes change status first; a message whose time is over counts as
\* received, whatever became of its receiver.
Deliver(turned) ==
  LET moved == [i \in DOMAIN messages |-> Moved(messages[i])]
      staying == {i \in Going : UnderWay(moved[i])}
  IN  /\ phase = "delivery"
      /\ phase' = "traffic"
      /\ StatusPhase(turned)
      /\ messages' = At(moved, staying)
      /\ delivered' = delivered \cup {messages[i].n : i \in Going \ staying}
      /\ dropped' = dropped \cup {m.n : m \in {x \in ToSet(messages) : x.collided}}
      /\ UNCHANGED <<transmissions, wait, sent, failed, hit, unlisted, scenarios>>

-----------------------------------------------------------------------------
(* Traffic. *)

\* Mutant of Ticks: the time of one leg, however long the path is.
TicksOfOneLeg(leg, path) == IF leg > MaxTicks THEN MaxTicks ELSE leg

\* deliveryTicks, and the cap of sendMsg.
Ticks(leg, path) == LET all == leg * (Len(path) - 1)
                    IN  IF all > MaxTicks THEN MaxTicks ELSE all

\* The end of sendMsg.  Over WiFi, and when it is longer than MaxAir ticks, no
\* transmission is recorded (air = 0); one that is recorded ends before the first
\* leg does, because of the duty cycle.  The message is in its sender's hands.
Transmit(t) ==
  \E leg \in Legs, sf \in SpreadingFactors, air \in 0..MaxAir :
    LET n == Len(sent) + 1
        id == <<search[t].from, search[t].to>>
        path == search[t].path
        ticks == Ticks(leg, path)
    IN  /\ Found(t)
        /\ air < leg
        /\ sent' = Append(sent, id)
        /\ Continue(t, [at |-> "made", message |->
             [n |-> n, id |-> id, path |-> path,
              remaining |-> ticks, total |-> ticks, collided |-> FALSE,
              acks |-> [i \in 1..(Len(path) - 1) |-> FALSE]]])
        /\ transmissions' = IF air = 0 THEN transmissions
                            ELSE Append(transmissions,
                                   [n |-> n, id |-> id, sf |-> sf, left |-> air])
        /\ UNCHANGED <<places, phase, messages, wait, results, scenarios>>

\* What RunSteps and SendFileInternal do with it.
Enqueue(t) ==
  LET m == search[t].message
  IN  /\ search[t].at = "made"
      /\ messages' = Append(messages, m)
      /\ wait' = [wait EXCEPT ![m.id[1]] = Gap]
      /\ Continue(t, Idle)
      /\ UNCHANGED <<places, phase, transmissions, sent, results, scenarios>>

\* sendMsg up to there.  A node of RunSteps for which it returns nil tries again
\* later.
Search(t) ==
  LET from == search[t].from
      later == IF wait[from] < Retry THEN Retry ELSE wait[from]
  IN  /\ SendMsg(t) \/ AddRelay(t) \/ Return(t)
      /\ wait' = IF t = "ticker" /\ search'[t] = Idle THEN [wait EXCEPT ![from] = later]
                 ELSE wait
      /\ UNCHANGED <<phase, traffic, results, scenarios>>

\* The bound on messages: each thread that has begun may send one.
MaySend == Len(sent) + Cardinality({t \in Threads : Busy(t) /\ ~ Made(t)}) < MaxSent

\* A node whose time has come; nodes may be taken in any order.
SendMessage(from, to) == /\ phase = "traffic" /\ wait[from] = 0 /\ MaySend
                         /\ Send(from, to)
                         /\ UNCHANGED <<phase, traffic, wait, results, scenarios>>

EndTraffic == /\ phase = "traffic" /\ ~ Busy("ticker")
              /\ phase' = "collisions"
              /\ UNCHANGED <<places, search, traffic, wait, results, scenarios>>

\* LoadTest lifts the limit of one send per Gap, but not what the node has
\* scheduled for itself.
LoadMessage(from, to) ==
  /\ scenarios < MaxScenarios /\ MaySend
  /\ scenarios' = scenarios + 1
  /\ LoadSend(from, to)
  /\ \E w \in {0, wait[from]} : wait' = [wait EXCEPT ![from] = w]
  /\ UNCHANGED <<phase, traffic, results>>

CallScenario == /\ scenarios < MaxScenarios
                /\ scenarios' = scenarios + 1
                /\ Scenario
                /\ UNCHANGED <<phase, traffic, wait, results>>

RunSteps == \/ CheckCollisions
            \/ \E turned \in SUBSET Unstable : Deliver(turned)
            \/ EndTraffic

Sending(t) == Search(t) \/ Transmit(t) \/ Enqueue(t)

WorldNext == \/ RunSteps
             \/ \E t \in Threads : Sending(t)
             \/ \E from, to \in Nodes :
                  SendMessage(from, to) \/ LoadMessage(from, to)
             \/ CallScenario

WorldSpec == WorldInit /\ [][WorldNext]_worldVars

\* The ticker goes on calling RunSteps (its speed is not 0), whose phases do not
\* block, and a handler that sends goes on too.  Nobody has to send.
FairSpec == /\ WorldSpec
            /\ WF_worldVars(RunSteps \/ Sending("ticker"))
            /\ WF_worldVars(Sending("handler"))

-----------------------------------------------------------------------------
Ids == Nodes \X Nodes

MessageOK(m) ==
  /\ m.n \in 1..Len(sent) /\ m.id = sent[m.n] /\ m.collided \in BOOLEAN
  /\ m.remaining \in 1..m.total /\ m.total \in 1..MaxTicks
  /\ m.acks \in [1..Hops(m) -> BOOLEAN]

WorldTypeOK ==
  /\ up \subseteq Nodes /\ jammed \subseteq Nodes /\ online \subseteq Nodes
  /\ phase \in {"collisions", "delivery", "traffic"}
  /\ \A m \in ToSet(messages) : MessageOK(m)
  /\ \A t \in Threads : Made(t) => MessageOK(search[t].message)
  /\ \A tx \in ToSet(transmissions) :
       tx.n \in 1..Len(sent) /\ tx.left \in Nat /\ tx.sf \in SpreadingFactors
  /\ wait \in [Nodes -> 0..Gap]
  /\ sent \in Seq(Ids)
  /\ failed \in Nat
  /\ scenarios \in 0..MaxScenarios

\* Every message made is in exactly one place: in the hands of its thread, under way
\* once, received, or given up.  None is lost silently, delivered twice, or both
\* lost and counted as received, whatever handlers do in between.
EachInOnePlace ==
  /\ WorldTypeOK
  /\ Cardinality(ActiveNumbers) = Len(messages)
  /\ HeldNumbers \cap ActiveNumbers = {}
  /\ (HeldNumbers \cup ActiveNumbers) \cap delivered = {}
  /\ (HeldNumbers \cup ActiveNumbers \cup delivered) \cap dropped = {}
  /\ HeldNumbers \cup ActiveNumbers \cup delivered \cup dropped = 1..Len(sent)

\* Hop acknowledgements follow the path, however the ticks divide among the hops:
\* only the last one is missing when the message arrives.
AckedBeforeDelivered ==
  [][\A m \in ToSet(messages) :
       m.n \in delivered' => \A i \in 1..(Hops(m) - 1) : m.acks[i]]_worldVars

\* A message is given up only if a transmission between the same two nodes was
\* hit, and no more are given up than failures are counted.  Of a group that hit
\* each other all but one are taken off the air, so that no pair is counted in
\* two ticks.
CollisionsCounted ==
  /\ \A n \in dropped : \E k \in hit : sent[k] = sent[n]
  /\ Cardinality(dropped) <= failed
  /\ hit # {} => failed <= 2 * (Cardinality(hit) - 1)

\* A message whose transmission was hit arrives only if another one between the same
\* nodes was given up in its place, as the collision is marked on the first active
\* message with the ID; or if LoadTest had it in its hands when it was hit.  Those of
\* RunSteps are active by the time it looks for collisions.
HitTakesNamesake ==
  /\ \A n \in hit \cap delivered :
       \/ n \in unlisted
       \/ \E k \in dropped : k # n /\ sent[k] = sent[n]
  /\ Made("ticker") => search["ticker"].message.n \notin hit

\* No message stays in a thread's hands or under way for ever.
EverySentSettles ==
  \A n \in 1..MaxSent : n <= Len(sent) ~> n \in delivered \cup dropped
=============================================================================
