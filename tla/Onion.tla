-------------------------------- MODULE Onion --------------------------------
(***************************************************************************)
(* Onion packets, pkg/onion/onion.go: BuildCircuit wraps a plaintext in a  *)
(* sealed box for each hop, UnwrapLayer opens one box, GetNextHop reads    *)
(* whom to pass the rest on to.                                            *)
(*                                                                         *)
(* A sealed box is a record that its key alone opens.  The package leaves  *)
(* the passing on to its callers; here nodes do what the tests do, over a  *)
(* network in which every node can hear a packet, and packets get lost or  *)
(* arrive more than once.                                                  *)
(***************************************************************************)
EXTENDS Integers, Sequences, SequencesExt

CONSTANTS Nodes,        \* peer IDs; each has a key pair of its own
          Texts,        \* plaintexts
          TextSize,     \* their length in bytes
          MaxHops,      \* bound: the length of a circuit
          MaxCircuits   \* bound: packets built

Overhead == 48          \* box.AnonymousOverhead
NextHopSize == 32

ASSUME TextAssumption == TextSize \in [Texts -> Nat]
ASSUME CircuitBoundsAssumption == MaxHops \in Nat \ {0} /\ MaxCircuits \in Nat

VARIABLES circuits,     \* history: the circuits built, [hops, text]
          air,          \* the packets in the air
          read          \* history: the plaintexts read, [node, circuit, text]

onionVars == <<circuits, air, read>>

-----------------------------------------------------------------------------
\* What is put in a box: a plaintext, or the next hop and the box for it.
Final(text) == [flag |-> "final", text |-> text, size |-> 1 + TextSize[text]]

Relay(next, box) == [flag |-> "relay", next |-> next, box |-> box,
                     size |-> NextHopSize + 1 + box.size]

Seal(key, content) == [key |-> key, content |-> content,
                       size |-> content.size + Overhead]

\* Mutant of BuildCircuit: a layer names its own hop.
BuildCircuitToSelf(hops, text) ==
  LET box[i \in DOMAIN hops] ==
        Seal(hops[i], IF i = Len(hops) THEN Final(text) ELSE Relay(hops[i], box[i + 1]))
  IN  box[1]

\* The layers from the last hop to the first.
BuildCircuit(hops, text) ==
  LET box[i \in DOMAIN hops] ==
        Seal(hops[i], IF i = Len(hops) THEN Final(text)
                      ELSE Relay(hops[i + 1], box[i + 1]))
  IN  box[1]

\* UnwrapLayer returns no error.
Opens(key, box) == box.size >= Overhead /\ box.key = key

\* Mutant of OnionSize: a flag byte for the plaintext only.
OnionSizeOneFlag(plaintextSize, hopCount) ==
  plaintextSize + hopCount * Overhead + (hopCount - 1) * NextHopSize + 1

OnionSize(plaintextSize, hopCount) ==
  plaintextSize + hopCount * Overhead + (hopCount - 1) * (NextHopSize + 1) + 1

-----------------------------------------------------------------------------
OnionInit == circuits = << >> /\ air = {} /\ read = {}

\* A packet remembers, for the properties, its circuit and who has opened it.
Packet(circuit, to, box, by) == [circuit |-> circuit, to |-> to, box |-> box, by |-> by]

Build(hops, text) ==
  /\ Len(circuits) < MaxCircuits
  /\ circuits' = Append(circuits, [hops |-> hops, text |-> text])
  /\ air' = air \cup {Packet(Len(circuits) + 1, hops[1], BuildCircuit(hops, text), << >>)}
  /\ UNCHANGED read

\* A node hears a packet, whoever it is for, and opens it if it can.
Open(n, p) ==
  /\ Opens(n, p.box)
  /\ LET content == p.box.content
     IN  IF content.flag = "final"
         THEN /\ read' = read \cup {[node |-> n, circuit |-> p.circuit,
                                     text |-> content.text]}
              /\ UNCHANGED air
         ELSE /\ air' = air \cup {Packet(p.circuit, content.next, content.box,
                                         Append(p.by, n))}
              /\ UNCHANGED read
  /\ UNCHANGED circuits

Lose(p) == air' = air \ {p} /\ UNCHANGED <<circuits, read>>

OnionNext ==
  \/ \E hops \in BoundedSeq(Nodes, MaxHops) \ {<< >>}, text \in Texts :
       Build(hops, text)
  \/ \E p \in air : Lose(p) \/ \E n \in Nodes : Open(n, p)

OnionSpec == OnionInit /\ [][OnionNext]_onionVars

-----------------------------------------------------------------------------
OnionTypeOK ==
  /\ \A c \in ToSet(circuits) : c.hops \in Seq(Nodes) /\ c.text \in Texts
  /\ \A p \in air : /\ p.circuit \in DOMAIN circuits /\ p.to \in Nodes
                    /\ Len(p.by) < Len(circuits[p.circuit].hops)
  /\ \A r \in read : r.node \in Nodes /\ r.circuit \in DOMAIN circuits

\* The hops of a packet's circuit that have not opened it.
Left(p) == LET hops == circuits[p.circuit].hops
           IN  SubSeq(hops, Len(p.by) + 1, Len(hops))

\* However often a packet is heard, and by whomever, the boxes are opened by the
\* hops of the circuit, one after the other, each names the one after it, and
\* what was sent is read by the last hop and by no other.
FollowsCircuit ==
  /\ OnionTypeOK
  /\ \A p \in air : /\ IsPrefix(p.by, circuits[p.circuit].hops)
                    /\ p.to = Left(p)[1]
  /\ \A r \in read : /\ r.node = Last(circuits[r.circuit].hops)
                     /\ r.text = circuits[r.circuit].text

\* At every hop a packet is as large as OnionSize says of the hops it has left:
\* what the layers add and what the code's own formula counts agree.  Both are 211
\* bytes for three hops and 49 for one, and neither is what modules/02 promises and
\* the simulation reckons with, which are 185 and 65.
SizeAsCounted ==
  \A p \in air :
    p.box.size = OnionSize(TextSize[circuits[p.circuit].text], Len(Left(p)))
=============================================================================
