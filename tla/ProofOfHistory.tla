--------------------------- MODULE ProofOfHistory ---------------------------
(***************************************************************************)
(* The hash-chain clock of pkg/poh/poh.go: generators that hash their last *)
(* hash over and over, records of events bound to a tick of the chain,     *)
(* checkpoints, and their verification by somebody who knows a checkpoint  *)
(* only.  Every method holds g.mu, so each call is one step and goroutines *)
(* interleave by steps.                                                    *)
(*                                                                         *)
(* SHA-256 is a free function: the hash [seed, depth] is what depth        *)
(* applications make of a seed, and different hashes never meet.           *)
(***************************************************************************)
EXTENDS Integers, Sequences

CONSTANTS Generators,   \* one per node; each is its own seed and signing key
          Events,       \* the types of events
          Data,         \* the data hashes of events
          Unsigned,     \* the signature of a record made without signFunc
          MaxTick,      \* bound of the clocks
          MaxLog        \* bound: records and checkpoints made

ASSUME BoundsAssumption == MaxTick \in Nat /\ MaxLog \in Nat

VARIABLES tickIndex,    \* g.tickIndex
          lastHash,     \* g.lastHash
          log           \* history: the records and checkpoints, in the order
                        \* in which they were made

vars == <<tickIndex, lastHash, log>>

Hashes == [seed : Generators, depth : Nat]

\* SHA-256 applied n times.
Hashed(hash, n) == [hash EXCEPT !.depth = @ + n]

Init == /\ tickIndex = [g \in Generators |-> 0]
        /\ lastHash = [g \in Generators |-> [seed |-> g, depth |-> 0]]
        /\ log = << >>

\* n turns of the chain.
Advance(g, n) == /\ tickIndex' = [tickIndex EXCEPT ![g] = @ + n]
                 /\ lastHash' = [lastHash EXCEPT ![g] = Hashed(@, n)]

\* Tick is TickN of one; TickN of zero does nothing.
TickN(g, n) == /\ tickIndex[g] + n <= MaxTick
               /\ Advance(g, n)
               /\ UNCHANGED log

\* What signFunc signs, and with whose key: the type of the event is not in it.
Signed(g, tick, hash, data) ==
  [key |-> g, tick |-> tick, hash |-> hash, data |-> data]

Entry(kind, g, tick, hash, event, data, signature) ==
  [kind |-> kind, by |-> g, tick |-> tick, hash |-> hash, event |-> event,
   data |-> data, signature |-> signature]

\* Mutant of RecordEvent: the event is recorded before the chain moves on.
RecordEventFirst(g, event, data, signing) ==
  /\ tickIndex[g] < MaxTick /\ Len(log) < MaxLog
  /\ Advance(g, 1)
  /\ log' = Append(log,
       Entry("record", g, tickIndex[g], lastHash[g], event, data,
             IF signing THEN Signed(g, tickIndex[g], lastHash[g], data)
             ELSE Unsigned))

\* An event takes a turn of the chain of its own.
RecordEvent(g, event, data, signing) ==
  /\ tickIndex[g] < MaxTick /\ Len(log) < MaxLog
  /\ Advance(g, 1)
  /\ log' = Append(log,
       Entry("record", g, tickIndex'[g], lastHash'[g], event, data,
             IF signing THEN Signed(g, tickIndex'[g], lastHash'[g], data)
             ELSE Unsigned))

CreateCheckpoint(g) ==
  /\ Len(log) < MaxLog
  /\ log' = Append(log, Entry("checkpoint", g, tickIndex[g], lastHash[g],
                              Unsigned, Unsigned, Unsigned))
  /\ UNCHANGED <<tickIndex, lastHash>>

Next == \E g \in Generators :
          \/ \E n \in 0..MaxTick : TickN(g, n)
          \/ \E event \in Events, data \in Data, signing \in BOOLEAN :
               RecordEvent(g, event, data, signing)
          \/ CreateCheckpoint(g)

Spec == Init /\ [][Next]_vars

-----------------------------------------------------------------------------
(* Verification: pure functions of what they are given. *)

\* Mutant of VerifyChain: the end may be the start.
VerifyChainOrEqual(startHash, startTick, endHash, endTick) ==
  /\ endTick >= startTick
  /\ Hashed(startHash, endTick - startTick) = endHash

VerifyChain(startHash, startTick, endHash, endTick) ==
  /\ endTick > startTick
  /\ Hashed(startHash, endTick - startTick) = endHash

\* Mutant of SignatureHolds: the data are not looked at.
SignatureHoldsForTick(record, key) ==
  record.signature = Unsigned
    \/ /\ record.signature.key = key /\ record.signature.tick = record.tick
       /\ record.signature.hash = record.hash

\* A signature is checked only if there is one.
SignatureHolds(record, key) ==
  record.signature = Unsigned
    \/ record.signature = Signed(key, record.tick, record.hash, record.data)

\* VerifyRecord with a verifyFunc for the key.
VerifyRecord(record, checkpoint, key) ==
  /\ VerifyChain(checkpoint.hash, checkpoint.tick, record.hash, record.tick)
  /\ SignatureHolds(record, key)

-----------------------------------------------------------------------------
Entries ==
  [kind : {"record", "checkpoint"}, by : Generators, tick : 0..MaxTick,
   hash : Hashes, event : Events \cup {Unsigned}, data : Data \cup {Unsigned},
   signature : {Unsigned} \cup [key : Generators, tick : 0..MaxTick,
                                hash : Hashes, data : Data]]

TypeOK == /\ tickIndex \in [Generators -> 0..MaxTick]
          /\ lastHash \in [Generators -> Hashes]
          /\ log \in Seq(Entries)

IsRecord(i) == log[i].kind = "record"

IsCheckpoint(i) == log[i].kind = "checkpoint"

\* A record verifies against the checkpoints of its own generator that were made
\* before it, and against no other: verification tells the order in which the
\* two were made, though no clock but the chain is in them.
VerifiedMeansLater ==
  \A i, j \in 1..Len(log) :
    IsRecord(i) /\ IsCheckpoint(j) =>
      (VerifyRecord(log[i], log[j], log[i].by)
         <=> log[j].by = log[i].by /\ j < i)

\* The chain between two records proves which of them was made first, whatever
\* goroutines recorded them: no two events share a tick.
ChainOrdersRecords ==
  \A i, j \in 1..Len(log) :
    IsRecord(i) /\ IsRecord(j) =>
      (VerifyChain(log[i].hash, log[i].tick, log[j].hash, log[j].tick)
         <=> log[i].by = log[j].by /\ i < j)

\* What somebody who cannot sign may show as a record of g: anything at all, with
\* a signature that he has seen, or none.
Shown(g, tick, seed, depth, event, data, signature) ==
  Entry("record", g, tick, [seed |-> seed, depth |-> depth], event, data, signature)

\* A record that carries a signature verifies only if it was recorded, with this
\* tick, hash and data, by the generator it is said to be of, and after the
\* checkpoint.  The type of its event is not covered; and of a record shown without
\* a signature, which verifies too, this says nothing: it is placed in the chain,
\* whatever its data.
SignedWasRecorded ==
  \A i, j \in 1..Len(log) :
    IsCheckpoint(j) /\ log[i].signature # Unsigned =>
      \A g, seed \in Generators, tick, depth \in 0..MaxTick,
         event \in Events, data \in Data :
        LET shown == Shown(g, tick, seed, depth, event, data, log[i].signature)
        IN  VerifyRecord(shown, log[j], g) =>
              \E k \in (j + 1)..Len(log) :
                /\ IsRecord(k) /\ {log[k].by, log[j].by} = {g}
                /\ log[k].tick = shown.tick /\ log[k].hash = shown.hash
                /\ log[k].data = shown.data
=============================================================================
