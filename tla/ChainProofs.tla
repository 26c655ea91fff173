---------------------------- MODULE ChainProofs -----------------------------
(***************************************************************************)
(* Theorems about what is made by doing one thing over and over: the chain *)
(* of hashes of ProofOfHistory, for any generators, data and bounds, and   *)
(* the boxes within boxes of Onion, for any nodes, texts and circuits.     *)
(*                                                                         *)
(* Verification compares hashes, so the invariant of ProofOfHistory ties   *)
(* every hash to the tick it was made at (ClockHolds, LogHolds) and the    *)
(* order of the log to the order of the ticks (Chronological).  That of    *)
(* Onion ties the box of every packet to its place in the circuit.         *)
(***************************************************************************)
EXTENDS ProofOfHistory, Onion, SequenceTheorems, WellFoundedInduction,
        TLAPS

HashAt(g, tick) == [seed |-> g, depth |-> tick]

ClockHolds == \A g \in Generators : lastHash[g] = HashAt(g, tickIndex[g])

\* What an entry says is true of the generator that made it, and not ahead of
\* its clock.
EntryHolds(e, clock) ==
  /\ e \in Entries
  /\ e.hash = HashAt(e.by, e.tick)
  /\ e.tick <= clock[e.by]
  /\ e.signature # Unsigned => /\ e.kind = "record"
                               /\ e.signature = Signed(e.by, e.tick, e.hash, e.data)

LogHolds == \A i \in 1..Len(log) : EntryHolds(log[i], tickIndex)

\* Entries of one generator are in the order of their ticks, and a record
\* has a tick that no entry before it has.
Chronological ==
  \A i, j \in 1..Len(log) :
    i < j /\ log[i].by = log[j].by =>
      /\ log[i].tick <= log[j].tick
      /\ IsRecord(j) => log[i].tick < log[j].tick

IInv == TypeOK /\ ClockHolds /\ LogHolds /\ Chronological

-----------------------------------------------------------------------------
\* The generators of NewGenerator, before anything is recorded.
LEMMA InitInv == Init => IInv
<1> SUFFICES ASSUME Init PROVE IInv
  OBVIOUS
<1>1. log \in Seq(Entries) /\ Len(log) = 0
  BY EmptySeq DEF Init
<1>2. TypeOK
  <2>1. tickIndex \in [Generators -> 0..MaxTick]
    BY BoundsAssumption DEF Init
  <2>2. lastHash \in [Generators -> Hashes]
    BY DEF Init, Hashes
  <2> QED BY <1>1, <2>1, <2>2 DEF TypeOK
<1>3. ClockHolds
  BY DEF Init, ClockHolds, HashAt
<1>4. LogHolds /\ Chronological
  BY <1>1 DEF LogHolds, Chronological
<1> QED BY <1>2, <1>3, <1>4 DEF IInv

\* n turns keep clock and hash in step and leave no entry ahead of the clock.
LEMMA AdvanceInv ==
  ASSUME IInv, NEW g \in Generators, NEW n \in Nat, Advance(g, n),
         tickIndex[g] + n <= MaxTick
  PROVE  /\ tickIndex' \in [Generators -> 0..MaxTick]
         /\ lastHash' \in [Generators -> Hashes]
         /\ tickIndex'[g] = tickIndex[g] + n
         /\ ClockHolds'
         /\ \A e : EntryHolds(e, tickIndex) => EntryHolds(e, tickIndex')
<1>1. /\ tickIndex \in [Generators -> 0..MaxTick]
      /\ lastHash \in [Generators -> Hashes]
      /\ \A k \in Generators : lastHash[k] = HashAt(k, tickIndex[k])
  BY DEF IInv, TypeOK, ClockHolds
<1>2. /\ tickIndex' \in [Generators -> 0..MaxTick]
      /\ \A k \in Generators :
           tickIndex'[k] = IF k = g THEN tickIndex[g] + n ELSE tickIndex[k]
  BY <1>1, BoundsAssumption DEF Advance
<1>3. \A k \in Generators : lastHash'[k] = HashAt(k, tickIndex'[k])
  <2> SUFFICES ASSUME NEW k \in Generators
               PROVE  lastHash'[k] = HashAt(k, tickIndex'[k])
    OBVIOUS
  <2>1. CASE k # g
    <3>1. lastHash'[k] = lastHash[k]
      BY <1>1, <2>1 DEF Advance
    <3> QED BY <3>1, <2>1, <1>1, <1>2
  <2>2. CASE k = g
    <3>1. lastHash'[k] = Hashed(HashAt(g, tickIndex[g]), n)
      BY <1>1, <2>2 DEF Advance
    <3> QED BY <3>1, <2>2, <1>2 DEF Hashed, HashAt
  <2> QED BY <2>1, <2>2
<1>4. lastHash' \in [Generators -> Hashes]
  <2>1. \A k \in Generators : HashAt(k, tickIndex'[k]) \in Hashes
    BY <1>2, BoundsAssumption DEF HashAt, Hashes
  <2>2. lastHash' = [lastHash EXCEPT ![g] = Hashed(@, n)]
    BY DEF Advance
  <2> QED BY <1>1, <1>3, <2>1, <2>2
<1>5. ASSUME NEW e, EntryHolds(e, tickIndex)
      PROVE  EntryHolds(e, tickIndex')
  <2>1. e.by \in Generators /\ e.tick \in Nat
    BY <1>5, BoundsAssumption DEF EntryHolds, Entries
  <2>2. e.tick <= tickIndex'[e.by]
    BY <2>1, <1>1, <1>2, <1>5, BoundsAssumption DEF EntryHolds
  <2> QED BY <2>2, <1>5 DEF EntryHolds
<1> QED BY <1>2, <1>3, <1>4, <1>5 DEF ClockHolds

\* Appending an entry made at the generator's clock keeps the log in order, if
\* a record's tick is one that no entry had reached.
LEMMA AppendInv ==
  ASSUME IInv, NEW e, EntryHolds(e, tickIndex'), log' = Append(log, e),
         \A k \in 1..Len(log) : EntryHolds(log[k], tickIndex'),
         e.by \in Generators,
         e.tick >= tickIndex[e.by],
         e.kind = "record" => e.tick > tickIndex[e.by]
  PROVE  log' \in Seq(Entries) /\ LogHolds' /\ Chronological'
<1>1. log \in Seq(Entries) /\ Len(log) \in Nat /\ e \in Entries
  BY LenProperties DEF IInv, TypeOK, EntryHolds
<1>2. /\ log' \in Seq(Entries)
      /\ Len(log') = Len(log) + 1
      /\ \A k \in 1..Len(log) : log'[k] = log[k]
      /\ log'[Len(log) + 1] = e
  BY <1>1, AppendProperties
<1>3. LogHolds'
  BY <1>1, <1>2 DEF LogHolds
<1>4. ASSUME NEW i \in 1..Len(log'), NEW j \in 1..Len(log'),
             i < j, log'[i].by = log'[j].by
      PROVE  /\ log'[i].tick <= log'[j].tick
             /\ log'[j].kind = "record" => log'[i].tick < log'[j].tick
  <2>1. i \in 1..Len(log) /\ log'[i] = log[i] /\ EntryHolds(log[i], tickIndex)
    BY <1>1, <1>2, <1>4 DEF IInv, LogHolds
  <2>2. CASE j \in 1..Len(log)
    BY <2>1, <2>2, <1>2, <1>4 DEF IInv, Chronological, IsRecord
  <2>3. CASE j = Len(log) + 1
    <3>1. log'[j] = e
      BY <2>3, <1>2
    <3>2. /\ log[i].tick <= tickIndex[e.by]
          /\ log[i].tick \in Int /\ e.tick \in Int /\ tickIndex[e.by] \in Int
      BY <2>1, <3>1, <1>1, <1>4, BoundsAssumption
         DEF EntryHolds, Entries, IInv, TypeOK
    <3> QED BY <2>1, <3>1, <3>2
  <2> QED BY <2>2, <2>3, <1>1, <1>2
<1>5. Chronological'
  BY <1>4 DEF Chronological, IsRecord
<1> QED BY <1>2, <1>3, <1>5

\* Tick and TickN turn clock and chain together.
LEMMA TickInv ==
  ASSUME IInv, NEW g \in Generators, NEW n \in 0..MaxTick, TickN(g, n)
  PROVE  IInv'
<1>1. n \in Nat /\ Advance(g, n) /\ tickIndex[g] + n <= MaxTick /\ log' = log
  BY BoundsAssumption DEF TickN
<1>2. /\ tickIndex' \in [Generators -> 0..MaxTick]
      /\ lastHash' \in [Generators -> Hashes]
      /\ ClockHolds'
      /\ \A e : EntryHolds(e, tickIndex) => EntryHolds(e, tickIndex')
  BY <1>1, AdvanceInv
<1>3. TypeOK'
  BY <1>1, <1>2 DEF IInv, TypeOK
<1>4. LogHolds'
  BY <1>1, <1>2 DEF IInv, LogHolds
<1>5. Chronological'
  BY <1>1 DEF IInv, Chronological, IsRecord
<1> QED BY <1>2, <1>3, <1>4, <1>5 DEF IInv

\* RecordEvent makes an entry that is later than all of its generator.
LEMMA RecordInv ==
  ASSUME IInv, NEW g \in Generators, NEW event \in Events, NEW data \in Data,
         NEW signing \in BOOLEAN, RecordEvent(g, event, data, signing)
  PROVE  IInv'
<1> DEFINE signature == IF signing THEN Signed(g, tickIndex'[g], lastHash'[g], data)
                        ELSE Unsigned
           e == Entry("record", g, tickIndex'[g], lastHash'[g], event, data, signature)
<1>1. /\ tickIndex[g] \in 0..MaxTick /\ tickIndex[g] + 1 <= MaxTick
      /\ Advance(g, 1) /\ log' = Append(log, e)
  BY BoundsAssumption DEF RecordEvent, IInv, TypeOK
<1>2. /\ tickIndex' \in [Generators -> 0..MaxTick]
      /\ lastHash' \in [Generators -> Hashes]
      /\ tickIndex'[g] = tickIndex[g] + 1
      /\ ClockHolds'
      /\ \A x : EntryHolds(x, tickIndex) => EntryHolds(x, tickIndex')
  BY <1>1, AdvanceInv
<1>3. EntryHolds(e, tickIndex')
  <2>1. /\ tickIndex'[g] \in 0..MaxTick /\ lastHash'[g] \in Hashes
        /\ lastHash'[g] = HashAt(g, tickIndex'[g])
    BY <1>2 DEF ClockHolds
  <2>2. /\ signature \in {Unsigned} \cup [key : Generators, tick : 0..MaxTick,
                                          hash : Hashes, data : Data]
        /\ signature # Unsigned =>
             signature = Signed(g, tickIndex'[g], lastHash'[g], data)
    BY <2>1 DEF Signed
  <2> HIDE DEF signature
  <2>3. e \in Entries
    BY <2>1, <2>2 DEF Entry, Entries
  <2>4. /\ e.by = g /\ e.tick = tickIndex'[g] /\ e.hash = lastHash'[g]
        /\ e.data = data /\ e.signature = signature /\ e.kind = "record"
    BY DEF Entry
  <2> HIDE DEF e
  <2>5. e.tick <= tickIndex'[e.by]
    BY <2>1, <2>4, BoundsAssumption
  <2> QED BY <2>1, <2>2, <2>3, <2>4, <2>5 DEF EntryHolds
<1>4. /\ e.by = g
      /\ e.tick > tickIndex[g] /\ e.tick >= tickIndex[g]
  BY <1>1, <1>2 DEF Entry
<1>5. \A k \in 1..Len(log) : EntryHolds(log[k], tickIndex')
  BY <1>1, <1>2 DEF IInv, LogHolds
<1> HIDE DEF e
<1>6. log' \in Seq(Entries) /\ LogHolds' /\ Chronological'
  BY <1>1, <1>2, <1>3, <1>4, <1>5, AppendInv
<1> QED BY <1>2, <1>6 DEF IInv, TypeOK

\* CreateCheckpoint makes an entry as late as its generator is.
LEMMA CheckpointInv ==
  ASSUME IInv, NEW g \in Generators, CreateCheckpoint(g)
  PROVE  IInv'
<1> DEFINE e == Entry("checkpoint", g, tickIndex[g], lastHash[g],
                      Unsigned, Unsigned, Unsigned)
<1>1. log' = Append(log, e) /\ tickIndex' = tickIndex /\ lastHash' = lastHash
  BY DEF CreateCheckpoint
<1>2. /\ tickIndex[g] \in 0..MaxTick /\ lastHash[g] \in Hashes
      /\ lastHash[g] = HashAt(g, tickIndex[g])
  BY DEF IInv, TypeOK, ClockHolds
<1>3. /\ e \in Entries /\ e.by = g /\ e.tick = tickIndex[g]
      /\ e.hash = lastHash[g] /\ e.signature = Unsigned /\ e.kind = "checkpoint"
  BY <1>2 DEF Entry, Entries
<1> HIDE DEF e
<1>4. EntryHolds(e, tickIndex)
  BY <1>2, <1>3, BoundsAssumption DEF EntryHolds
<1>5. EntryHolds(e, tickIndex') /\ \A k \in 1..Len(log) : EntryHolds(log[k], tickIndex')
  BY <1>1, <1>4 DEF IInv, LogHolds
<1>6. e.tick >= tickIndex[e.by] /\ e.kind # "record" /\ e.by \in Generators
  BY <1>2, <1>3, BoundsAssumption
<1>7. log' \in Seq(Entries) /\ LogHolds' /\ Chronological'
  BY <1>1, <1>5, <1>6, AppendInv
<1> QED BY <1>1, <1>7 DEF IInv, TypeOK, ClockHolds

\* Every call keeps the invariant.
LEMMA NextInv == IInv /\ [Next]_vars => IInv'
<1> SUFFICES ASSUME IInv, [Next]_vars PROVE IInv'
  OBVIOUS
<1>1. ASSUME NEW g \in Generators, NEW n \in 0..MaxTick, TickN(g, n)
      PROVE  IInv'
  BY <1>1, TickInv
<1>2. ASSUME NEW g \in Generators, NEW event \in Events, NEW data \in Data,
             NEW signing \in BOOLEAN, RecordEvent(g, event, data, signing)
      PROVE  IInv'
  BY <1>2, RecordInv
<1>3. ASSUME NEW g \in Generators, CreateCheckpoint(g)
      PROVE  IInv'
  BY <1>3, CheckpointInv
<1>4. CASE UNCHANGED vars
  BY <1>4 DEF vars, IInv, TypeOK, ClockHolds, LogHolds, EntryHolds,
              Chronological, IsRecord
<1> QED BY <1>1, <1>2, <1>3, <1>4 DEF Next

\* The invariant holds in every state: hashes tell ticks, ticks tell the
\* order of the log.
THEOREM Invariance == Spec => []IInv
<1> QED BY InitInv, NextInv, PTL DEF Spec

-----------------------------------------------------------------------------
\* Hashing on from one tick of a chain ends at another tick of it, and at the
\* tick of no other chain.
LEMMA ChainMeansLater ==
  ASSUME NEW g \in Generators, NEW h \in Generators, NEW m \in Nat, NEW n \in Nat
  PROVE  VerifyChain(HashAt(g, m), m, HashAt(h, n), n) <=> g = h /\ m < n
<1>1. Hashed(HashAt(g, m), n - m) = HashAt(g, n)
  BY DEF Hashed, HashAt
<1>2. HashAt(g, n) = HashAt(h, n) <=> g = h
  BY DEF HashAt
<1> QED BY <1>1, <1>2 DEF VerifyChain

\* Two entries of one generator are in the order of the log if the later one
\* is a record, and only then does the chain lead from one to the other.
LEMMA OrderOfEntries ==
  ASSUME IInv, NEW i \in 1..Len(log), NEW j \in 1..Len(log), IsRecord(i)
  PROVE  /\ VerifyChain(log[j].hash, log[j].tick, log[i].hash, log[i].tick)
              <=> log[j].by = log[i].by /\ log[j].tick < log[i].tick
         /\ log[j].by = log[i].by /\ j < i => log[j].tick < log[i].tick
         /\ log[j].by = log[i].by /\ i <= j => log[i].tick <= log[j].tick
<1>1. \A k \in {i, j} : /\ log[k].by \in Generators /\ log[k].tick \in Nat
                        /\ log[k].hash = HashAt(log[k].by, log[k].tick)
  BY BoundsAssumption DEF IInv, LogHolds, EntryHolds, Entries
<1>2. VerifyChain(log[j].hash, log[j].tick, log[i].hash, log[i].tick)
        <=> log[j].by = log[i].by /\ log[j].tick < log[i].tick
  BY <1>1, ChainMeansLater
<1>3. i = j \/ i < j \/ j < i
  BY LenProperties DEF IInv, TypeOK
<1> QED BY <1>1, <1>2, <1>3 DEF IInv, Chronological

\* The types of the generators' state and of the history, for every run.
THEOREM TypeCorrect == Spec => []TypeOK
<1>1. IInv => TypeOK
  BY DEF IInv
<1> QED BY <1>1, Invariance, PTL

\* A record verifies exactly against its generator's earlier checkpoints, for
\* any number of generators, ticks and events.
THEOREM Verification == Spec => []VerifiedMeansLater
<1>1. ASSUME IInv, NEW i \in 1..Len(log), NEW j \in 1..Len(log),
             IsRecord(i), IsCheckpoint(j)
      PROVE  VerifyRecord(log[i], log[j], log[i].by)
               <=> log[j].by = log[i].by /\ j < i
  <2>1. SignatureHolds(log[i], log[i].by)
    BY <1>1 DEF IInv, LogHolds, EntryHolds, SignatureHolds
  <2>2. i # j /\ i \in Int /\ j \in Int
    BY <1>1 DEF IsRecord, IsCheckpoint
  <2>3. log[i].tick \in Nat /\ log[j].tick \in Nat
    BY <1>1, BoundsAssumption DEF IInv, LogHolds, EntryHolds, Entries
  <2> QED BY <1>1, <2>1, <2>2, <2>3, OrderOfEntries DEF VerifyRecord
<1>2. IInv => VerifiedMeansLater
  BY <1>1 DEF VerifiedMeansLater
<1> QED BY <1>2, Invariance, PTL

\* The chain leads from one record to another exactly if it was made before it.
THEOREM Ordering == Spec => []ChainOrdersRecords
<1>1. ASSUME IInv, NEW i \in 1..Len(log), NEW j \in 1..Len(log),
             IsRecord(i), IsRecord(j)
      PROVE  VerifyChain(log[i].hash, log[i].tick, log[j].hash, log[j].tick)
               <=> log[i].by = log[j].by /\ i < j
  <2>1. log[i].tick \in Nat /\ log[j].tick \in Nat /\ i \in Int /\ j \in Int
    BY <1>1, BoundsAssumption DEF IInv, LogHolds, EntryHolds, Entries
  <2> QED BY <1>1, <2>1, OrderOfEntries
<1>2. IInv => ChainOrdersRecords
  BY <1>1 DEF ChainOrdersRecords
<1> QED BY <1>2, Invariance, PTL

\* What verifies with a signature was recorded as it is shown, but for the type of
\* its event, and after the checkpoint.
THEOREM Integrity == Spec => []SignedWasRecorded
<1>1. ASSUME IInv PROVE SignedWasRecorded
  <2> SUFFICES
        ASSUME NEW i \in 1..Len(log), NEW j \in 1..Len(log), log[i].signature # Unsigned,
               NEW g \in Generators, NEW seed \in Generators, NEW tick \in 0..MaxTick,
               NEW depth \in 0..MaxTick, NEW event \in Events, NEW data \in Data,
               VerifyRecord(Shown(g, tick, seed, depth, event, data, log[i].signature),
                            log[j], g)
        PROVE  LET shown == Shown(g, tick, seed, depth, event, data, log[i].signature)
               IN  \E k \in (j + 1)..Len(log) :
                     /\ IsRecord(k) /\ {log[k].by, log[j].by} = {g}
                     /\ log[k].tick = shown.tick /\ log[k].hash = shown.hash
                     /\ log[k].data = shown.data
    BY DEF SignedWasRecorded
  <2> DEFINE shown == Shown(g, tick, seed, depth, event, data, log[i].signature)
  <2>1. /\ EntryHolds(log[i], tickIndex) /\ IsRecord(i)
        /\ log[i].signature = Signed(log[i].by, log[i].tick, log[i].hash, log[i].data)
    BY <1>1 DEF IInv, LogHolds, EntryHolds, IsRecord
  <2>2. log[i].signature = Signed(g, shown.tick, shown.hash, shown.data)
    BY DEF VerifyRecord, SignatureHolds, Shown, Entry
  <2>3. VerifyChain(log[j].hash, log[j].tick, shown.hash, shown.tick)
    BY DEF VerifyRecord
  <2> HIDE DEF shown
  <2>4. /\ log[i].by = g /\ log[i].tick = shown.tick
        /\ log[i].hash = shown.hash /\ log[i].data = shown.data
    BY <2>1, <2>2 DEF Signed
  <2>5. log[j].by = log[i].by /\ log[j].tick < log[i].tick
    BY <1>1, <2>1, <2>3, <2>4, OrderOfEntries
  <2>6. log[i].tick \in Nat /\ log[j].tick \in Nat
    BY <1>1, BoundsAssumption DEF IInv, LogHolds, EntryHolds, Entries
  <2>7. ~ (i <= j)
    BY <1>1, <2>1, <2>5, <2>6, OrderOfEntries
  <2>8. i \in (j + 1)..Len(log)
    BY <2>7
  <2>9. {log[i].by, log[j].by} = {g}
    BY <2>4, <2>5
  <2> QED BY <2>1, <2>4, <2>8, <2>9 DEF shown
<1> QED BY <1>1, Invariance, PTL

-----------------------------------------------------------------------------
(* Onion. *)

\* Some number is the least.
LEMMA LeastNat ==
  ASSUME NEW T \in SUBSET Nat, T # {}
  PROVE  \E x \in T : \A y \in T : x <= y
<1>1. PICK x \in T : \A y \in T : ~ (<<y, x>> \in OpToRel(<, Nat))
  BY WFMin, NatLessThanWellFounded
<1>2. \A y \in T : ~ y < x
  BY <1>1 DEF OpToRel
<1> QED BY <1>2

\* A set with 0 and, up to n, the successors of its members.
LEMMA UpTo ==
  ASSUME NEW n \in Nat, NEW T, 0 \in T,
         \A m \in 0..(n - 1) : m \in T => m + 1 \in T
  PROVE  \A m \in 0..n : m \in T
<1> DEFINE bad == {m \in 0..n : m \notin T}
<1> SUFFICES ASSUME bad # {} PROVE FALSE
  OBVIOUS
<1>1. PICK m \in bad : \A l \in bad : m <= l
  <2>1. bad \in SUBSET Nat
    OBVIOUS
  <2> HIDE DEF bad
  <2> QED BY <2>1, LeastNat
<1>2. m \in 0..n /\ m \notin T /\ m # 0
  OBVIOUS
<1>3. m - 1 \in 0..(n - 1) /\ (m - 1) + 1 = m /\ m - 1 \in 0..n /\ ~ m <= m - 1
  BY <1>2
<1>4. m - 1 \in T
  BY <1>1, <1>3
<1> QED BY <1>2, <1>3, <1>4

Circuits == [hops : Seq(Nodes) \ {<< >>}, text : Texts]

\* What the i-th hop's box holds, given the boxes of those after it.
Content(c, i, box) == IF i = Len(c.hops) THEN Final(c.text)
                      ELSE Relay(c.hops[i + 1], box[i + 1])

\* The boxes that BuildCircuit makes for a circuit.
Wraps(c, box) ==
  box = [i \in DOMAIN c.hops |->
           Seal(c.hops[i], IF i = Len(c.hops) THEN Final(c.text)
                           ELSE Relay(c.hops[i + 1], box[i + 1]))]

Boxes(c) == CHOOSE box : Wraps(c, box)

\* The last m boxes can be made, for every m.
LEMMA BoxesExist ==
  ASSUME NEW c \in Circuits
  PROVE  \E box : Wraps(c, box)
<1> DEFINE n == Len(c.hops)
           sealed(i, g) == Seal(c.hops[i], Content(c, i, g))
           Made(m, g) == /\ g = [i \in 1..n |-> g[i]]
                         /\ \A i \in 1..n : i > n - m => g[i] = sealed(i, g)
           T == {m \in Nat : \E g : Made(m, g)}
<1>1. n \in Nat /\ DOMAIN c.hops = 1..n
  BY DEF Circuits
<1> HIDE DEF n
<1>2. 0 \in T
  <2> DEFINE g == [i \in 1..n |-> 0]
  <2>1. g = [i \in 1..n |-> g[i]]
    OBVIOUS
  <2>2. \A i \in 1..n : ~ i > n - 0
    BY <1>1
  <2> HIDE DEF g, sealed
  <2>3. Made(0, g)
    BY <2>1, <2>2
  <2> QED BY <2>3
<1>3. ASSUME NEW m \in 0..(n - 1), m \in T PROVE m + 1 \in T
  <2>1. PICK g : Made(m, g)
    BY <1>3
  <2> DEFINE h == [i \in 1..n |-> IF i = n - m THEN sealed(i, g) ELSE g[i]]
  <2>2. \A i \in 1..n : h[i] = IF i = n - m THEN sealed(i, g) ELSE g[i]
    BY DEF Seal
  <2>3. h = [i \in 1..n |-> h[i]]
    OBVIOUS
  <2> HIDE DEF h
  <2>4. ASSUME NEW i \in 1..n, i > n - (m + 1) PROVE h[i] = sealed(i, g)
    <3>1. i = n - m \/ i > n - m
      BY <1>1, <2>4
    <3> HIDE DEF sealed
    <3> QED BY <1>1, <2>1, <2>2, <3>1
  <2>5. ASSUME NEW i \in 1..n, i > n - (m + 1) PROVE sealed(i, h) = sealed(i, g)
    <3>1. i # n => i + 1 \in 1..n /\ i + 1 # n - m
      BY <1>1, <2>5
    <3>2. i # n => h[i + 1] = g[i + 1]
      <4> HIDE DEF sealed
      <4> QED BY <2>2, <3>1
    <3> QED BY <3>2 DEF Content, n
  <2>6. Made(m + 1, h)
    <3> HIDE DEF sealed
    <3> QED BY <2>3, <2>4, <2>5
  <2>7. m + 1 \in Nat
    BY <1>1
  <2> HIDE DEF Made
  <2> QED BY <2>6, <2>7
<1>4. n \in T
  <2> HIDE DEF T
  <2>1. n \in 0..n
    BY <1>1
  <2> QED BY <1>1, <1>2, <1>3, <2>1, UpTo
<1>5. PICK g : Made(n, g)
  BY <1>4
<1>6. \A i \in 1..n : g[i] = sealed(i, g)
  <2> HIDE DEF sealed
  <2>1. \A i \in 1..n : i > n - n
    BY <1>1
  <2> QED BY <1>5, <2>1
<1>7. g = [i \in 1..n |-> sealed(i, g)]
  <2> HIDE DEF sealed
  <2>1. g = [i \in 1..n |-> g[i]]
    BY <1>5
  <2> DEFINE e == [i \in 1..n |-> sealed(i, g)]
  <2>2. e = [i \in 1..n |-> e[i]] /\ \A i \in 1..n : e[i] = g[i]
    BY <1>6
  <2> HIDE DEF e
  <2>3. g = e
    BY <2>1, <2>2
  <2> QED BY <2>3 DEF e
<1>8. Wraps(c, g)
  BY <1>1, <1>7 DEF Wraps, Content, n
<1> QED BY <1>8

\* What each box is, the packet that BuildCircuit returns being the first.
LEMMA BoxesFacts ==
  ASSUME NEW c \in Circuits
  PROVE  /\ BuildCircuit(c.hops, c.text) = Boxes(c)[1]
         /\ \A i \in 1..Len(c.hops) :
              Boxes(c)[i] = Seal(c.hops[i], Content(c, i, Boxes(c)))
<1>1. Wraps(c, Boxes(c))
  BY BoxesExist DEF Boxes
<1>2. BuildCircuit(c.hops, c.text) = Boxes(c)[1]
  BY DEF BuildCircuit, Boxes, Wraps
<1>3. DOMAIN c.hops = 1..Len(c.hops)
  BY DEF Circuits
<1> DEFINE b == Boxes(c)
<1>4. b = [i \in 1..Len(c.hops) |-> Seal(c.hops[i], Content(c, i, b))]
  <2> HIDE DEF b
  <2>1. Wraps(c, b)
    BY <1>1 DEF b
  <2> QED BY <1>3, <2>1 DEF Wraps, Content
<1>5. \A i \in 1..Len(c.hops) : b[i] = Seal(c.hops[i], Content(c, i, b))
  <2> DEFINE sealed(i) == Seal(c.hops[i], Content(c, i, b))
  <2>1. b = [i \in 1..Len(c.hops) |-> sealed(i)]
    BY <1>4
  <2> HIDE DEF b, sealed
  <2>2. \A i \in 1..Len(c.hops) : b[i] = sealed(i)
    BY <2>1
  <2> QED BY <2>2 DEF sealed
<1> QED BY <1>2, <1>5

\* The size of each box, from the last to the first.
LEMMA BoxSize ==
  ASSUME NEW c \in Circuits, NEW i \in 1..Len(c.hops)
  PROVE  Boxes(c)[i].size = OnionSize(TextSize[c.text], Len(c.hops) - i + 1)
<1> DEFINE n == Len(c.hops)
           t == TextSize[c.text]
           b == Boxes(c)
           T == {m \in 0..(n - 1) : b[n - m].size = OnionSize(t, m + 1)}
<1>1. n \in Nat \ {0} /\ t \in Nat
  BY TextAssumption DEF Circuits
<1>2. \A j \in 1..n : b[j].size = Content(c, j, b).size + Overhead
  <2>1. \A j \in 1..n : b[j] = Seal(c.hops[j], Content(c, j, b))
    BY BoxesFacts
  <2>2. \A key, content : Seal(key, content).size = content.size + Overhead
    BY DEF Seal
  <2> HIDE DEF b, n
  <2> QED BY <2>1, <2>2
<1>3. Content(c, n, b).size = 1 + t
  BY DEF Content, Final
<1>4. \A j \in 1..n : j # n => Content(c, j, b).size = NextHopSize + 1 + b[j + 1].size
  BY DEF Content, Relay
<1> HIDE DEF b, n, t
<1>5. 0 \in T
  <2>1. b[n - 0].size = 1 + t + Overhead
    BY <1>1, <1>2, <1>3
  <2> QED BY <1>1, <2>1 DEF OnionSize, Overhead, NextHopSize
<1>6. ASSUME NEW m \in 0..((n - 1) - 1), m \in T PROVE m + 1 \in T
  <2> DEFINE j == n - (m + 1)
  <2>1. j \in 1..n /\ j # n /\ j + 1 = n - m /\ m + 1 \in 0..(n - 1) /\ m \in Nat
    BY <1>1
  <2>2. b[j].size = NextHopSize + 1 + b[n - m].size + Overhead
    BY <1>2, <1>4, <2>1
  <2>3. b[n - m].size = OnionSize(t, m + 1)
    BY <1>6
  <2>4. NextHopSize + 1 + OnionSize(t, m + 1) + Overhead = OnionSize(t, (m + 1) + 1)
    BY <1>1, <2>1 DEF OnionSize, Overhead, NextHopSize
  <2> QED BY <2>1, <2>2, <2>3, <2>4
<1>7. n - i \in 0..(n - 1) /\ n - (n - i) = i /\ n - 1 \in Nat
  BY <1>1 DEF n
<1>8. n - i \in T
  <2> HIDE DEF T
  <2> QED BY <1>5, <1>6, <1>7, UpTo
<1> QED BY <1>7, <1>8 DEF n, t, b

\* A packet carries the box of the first hop that has not opened one, and is for it.
Travels(p) ==
  LET c == circuits[p.circuit]
  IN  /\ p.circuit \in 1..Len(circuits)
      /\ p.by \in Seq(Nodes) /\ Len(p.by) < Len(c.hops)
      /\ \A i \in 1..Len(p.by) : p.by[i] = c.hops[i]
      /\ p.to = c.hops[Len(p.by) + 1]
      /\ p.box = Boxes(c)[Len(p.by) + 1]

WasRead(r) ==
  /\ r.circuit \in 1..Len(circuits)
  /\ r.node \in Nodes
  /\ r.node = Last(circuits[r.circuit].hops)
  /\ r.text = circuits[r.circuit].text

OnionIInv == /\ circuits \in Seq(Circuits)
             /\ \A p \in air : Travels(p)
             /\ \A r \in read : WasRead(r)

\* Before anything is built.
LEMMA OnionInitInv == OnionInit => OnionIInv
BY EmptySeq DEF OnionInit, OnionIInv

\* A new circuit is numbered after all others, which stay as they are.
LEMMA BuildInv ==
  ASSUME OnionIInv,
         NEW hops \in BoundedSeq(Nodes, MaxHops) \ {<< >>}, NEW text \in Texts,
         Build(hops, text)
  PROVE  OnionIInv'
<1> DEFINE c == [hops |-> hops, text |-> text]
           n == Len(circuits)
<1>1. c \in Circuits /\ c.hops = hops /\ c.text = text
  <2>1. BoundedSeq(Nodes, MaxHops) \subseteq Seq(Nodes)
    BY CircuitBoundsAssumption DEF BoundedSeq, SeqOf
  <2> QED BY <2>1 DEF Circuits
<1> HIDE DEF c
<1>2. circuits \in Seq(Circuits) /\ circuits' = Append(circuits, c)
  BY DEF OnionIInv, Build, c
<1>3. /\ circuits' \in Seq(Circuits) /\ Len(circuits') = n + 1 /\ n \in Nat
      /\ circuits'[n + 1] = c
      /\ \A i \in 1..n : circuits'[i] = circuits[i] /\ i \in 1..(n + 1)
  BY <1>1, <1>2, AppendProperties
<1>4. ASSUME NEW p \in air' PROVE Travels(p)'
  <2>1. CASE p \in air
    <3>1. Travels(p)
      BY <2>1 DEF OnionIInv
    <3> QED BY <1>3, <3>1 DEF Travels
  <2>2. CASE p = Packet(n + 1, hops[1], BuildCircuit(hops, text), << >>)
    <3>1. p.circuit = n + 1 /\ p.to = hops[1] /\ p.by = << >>
          /\ p.box = BuildCircuit(hops, text)
      BY <2>2 DEF Packet
    <3>2. p.box = Boxes(c)[1]
      BY <1>1, <3>1, BoxesFacts
    <3>3. p.by \in Seq(Nodes) /\ Len(p.by) = 0 /\ Len(hops) \in Nat \ {0}
      BY <1>1, <3>1, EmptySeq DEF Circuits
    <3>4. p.circuit \in 1..Len(circuits') /\ circuits'[p.circuit] = c
      BY <1>3, <3>1
    <3> QED BY <1>1, <3>1, <3>2, <3>3, <3>4 DEF Travels
  <2> QED BY <2>1, <2>2 DEF Build
<1>5. ASSUME NEW r \in read' PROVE WasRead(r)'
  <2>1. WasRead(r)
    BY DEF Build, OnionIInv
  <2> QED BY <1>3, <2>1 DEF WasRead
<1> QED BY <1>3, <1>4, <1>5 DEF OnionIInv

\* Who opens a box is the hop it was sealed for, and finds in it the box of the
\* next one, or the text if there is none.
LEMMA OpenInv ==
  ASSUME OnionIInv, NEW n \in Nodes, NEW p \in air, Open(n, p)
  PROVE  OnionIInv'
<1> DEFINE c == circuits[p.circuit]
           k == Len(p.by) + 1
           content == p.box.content
<1>1. circuits' = circuits /\ circuits \in Seq(Circuits)
  BY DEF Open, OnionIInv
<1>2. Travels(p)
  BY DEF OnionIInv
<1>3. c \in Circuits
  BY <1>1, <1>2 DEF Travels
<1>4. k \in 1..Len(c.hops) /\ Len(c.hops) \in Nat /\ Len(p.by) \in Nat
  BY <1>2, <1>3 DEF Travels, Circuits
<1>5. p.box = Seal(c.hops[k], Content(c, k, Boxes(c)))
  <2>1. p.box = Boxes(c)[k]
    BY <1>2 DEF Travels
  <2> HIDE DEF c, k
  <2> QED BY <1>3, <1>4, <2>1, BoxesFacts
<1>6. p.box.key = c.hops[k] /\ content = Content(c, k, Boxes(c))
  <2> HIDE DEF c, k
  <2> QED BY <1>5 DEF Seal
<1>7. n = c.hops[k]
  BY <1>6 DEF Open, Opens
<1>8. CASE k = Len(c.hops)
  <2>1. content = Final(c.text)
    BY <1>6, <1>8 DEF Content
  <2>2. content.flag = "final" /\ content.text = c.text
    BY <2>1 DEF Final
  <2>3. air' = air
        /\ read' = read \cup {[node |-> n, circuit |-> p.circuit, text |-> c.text]}
    BY <2>2 DEF Open
  <2>4. n = Last(c.hops)
    BY <1>7, <1>8 DEF Last
  <2>5. \A r \in read' : WasRead(r)'
    BY <1>1, <1>2, <2>3, <2>4 DEF WasRead, Travels, OnionIInv
  <2> QED BY <1>1, <2>3, <2>5 DEF OnionIInv, Travels
<1>9. CASE k # Len(c.hops)
  <2>1. content = Relay(c.hops[k + 1], Boxes(c)[k + 1])
    BY <1>6, <1>9 DEF Content
  <2>2. /\ content.flag # "final"
        /\ content.next = c.hops[k + 1] /\ content.box = Boxes(c)[k + 1]
    BY <2>1 DEF Relay
  <2> DEFINE q == Packet(p.circuit, c.hops[k + 1], Boxes(c)[k + 1], Append(p.by, n))
  <2>3. air' = air \cup {q} /\ read' = read
    BY <2>2 DEF Open
  <2>4. /\ q.circuit = p.circuit /\ q.to = c.hops[k + 1]
        /\ q.box = Boxes(c)[k + 1] /\ q.by = Append(p.by, n)
    BY DEF Packet
  <2> HIDE DEF q
  <2>5. /\ q.by \in Seq(Nodes) /\ Len(q.by) = k /\ q.by[k] = n
        /\ \A i \in 1..Len(p.by) : q.by[i] = p.by[i]
    BY <1>2, <2>4, AppendProperties DEF Travels
  <2>6. \A i \in 1..k : q.by[i] = c.hops[i]
    <3>1. \A i \in 1..Len(p.by) : p.by[i] = c.hops[i]
      BY <1>2 DEF Travels
    <3>2. \A i \in 1..k : i \in 1..Len(p.by) \/ i = k
      BY <1>4
    <3> HIDE DEF c, k
    <3> QED BY <1>7, <2>5, <3>1, <3>2
  <2>7. Travels(q)
    <3>1. Len(q.by) < Len(c.hops) /\ circuits[q.circuit] = c
          /\ q.circuit \in 1..Len(circuits)
      BY <1>2, <1>4, <1>9, <2>4, <2>5 DEF Travels
    <3> HIDE DEF c, k
    <3> QED BY <2>4, <2>5, <2>6, <3>1 DEF Travels
  <2> QED BY <1>1, <2>3, <2>7 DEF OnionIInv, Travels, WasRead
<1> QED BY <1>8, <1>9

LEMMA OnionStepInv == OnionIInv /\ [OnionNext]_onionVars => OnionIInv'
<1> SUFFICES ASSUME OnionIInv, [OnionNext]_onionVars PROVE OnionIInv'
  OBVIOUS
<1>1. ASSUME NEW hops \in BoundedSeq(Nodes, MaxHops) \ {<< >>}, NEW text \in Texts,
             Build(hops, text)
      PROVE  OnionIInv'
  BY <1>1, BuildInv
<1>2. ASSUME NEW p \in air, Lose(p) PROVE OnionIInv'
  BY <1>2 DEF Lose, OnionIInv, Travels, WasRead
<1>3. ASSUME NEW p \in air, NEW n \in Nodes, Open(n, p) PROVE OnionIInv'
  BY <1>3, OpenInv
<1>4. CASE UNCHANGED onionVars
  BY <1>4 DEF onionVars, OnionIInv, Travels, WasRead
<1> QED BY <1>1, <1>2, <1>3, <1>4 DEF OnionNext

LEMMA OnionInvariance == OnionSpec => []OnionIInv
BY OnionInitInv, OnionStepInv, PTL DEF OnionSpec

\* What is left of a circuit, for a packet that travels on it.
LEMMA LeftFacts ==
  ASSUME OnionIInv, NEW p \in air
  PROVE  /\ IsPrefix(p.by, circuits[p.circuit].hops)
         /\ p.to = Left(p)[1] /\ p.to \in Nodes
         /\ Len(Left(p)) = Len(circuits[p.circuit].hops) - Len(p.by)
<1> DEFINE hops == circuits[p.circuit].hops
           n == Len(hops)
           l == Len(p.by)
<1>1. Travels(p) /\ circuits[p.circuit] \in Circuits
  BY DEF OnionIInv, Travels
<1>2. hops \in Seq(Nodes) /\ n \in Nat /\ l \in Nat /\ l < n /\ p.by \in Seq(Nodes)
  BY <1>1 DEF Travels, Circuits
<1>3. IsPrefix(p.by, hops)
  <2>1. \A i \in 1..l : p.by[i] = hops[i]
    BY <1>1 DEF Travels
  <2>2. SubSeq(p.by, 1, l) = [i \in 1..l |-> p.by[i]]
        /\ SubSeq(hops, 1, l) = [i \in 1..l |-> hops[i]]
    BY <1>2
  <2>3. SubSeq(p.by, 1, l) = SubSeq(hops, 1, l)
    <3> HIDE DEF hops, l
    <3> QED BY <2>1, <2>2
  <2> QED BY <1>2, <2>3 DEF IsPrefix
<1>4. /\ Len(SubSeq(hops, l + 1, n)) = n - l
      /\ SubSeq(hops, l + 1, n)[1] = hops[l + 1]
      /\ hops[l + 1] \in Nodes
  <2> HIDE DEF hops, l, n
  <2> QED BY <1>2, SubSeqProperties DEF n
<1> QED BY <1>1, <1>3, <1>4 DEF Left, Travels

\* The boxes of a packet are opened by the hops of its circuit, in their order,
\* and the last hop alone reads the text.
THEOREM CircuitsFollowed == OnionSpec => []FollowsCircuit
<1>1. ASSUME OnionIInv PROVE FollowsCircuit
  <2>1. OnionTypeOK
    <3>1. \A c \in ToSet(circuits) : c.hops \in Seq(Nodes) /\ c.text \in Texts
      <4>1. \A c \in ToSet(circuits) : c \in Circuits
        BY <1>1 DEF OnionIInv, ToSet
      <4> QED BY <4>1 DEF Circuits
    <3>2. DOMAIN circuits = 1..Len(circuits)
      BY <1>1 DEF OnionIInv
    <3> QED BY <1>1, <3>1, <3>2, LeftFacts DEF OnionTypeOK, OnionIInv, Travels, WasRead
  <2>2. \A r \in read : WasRead(r)
    BY <1>1 DEF OnionIInv
  <2> QED BY <1>1, <2>1, <2>2, LeftFacts DEF FollowsCircuit, WasRead
<1> QED BY <1>1, OnionInvariance, PTL

\* At every hop of every circuit the packet has the size that OnionSize gives
\* for the hops it has left.
THEOREM SizesAsCounted == OnionSpec => []SizeAsCounted
<1>1. ASSUME OnionIInv PROVE SizeAsCounted
  <2> SUFFICES ASSUME NEW p \in air
               PROVE  p.box.size = OnionSize(TextSize[circuits[p.circuit].text],
                                             Len(Left(p)))
    BY DEF SizeAsCounted
  <2> DEFINE c == circuits[p.circuit]
             i == Len(p.by) + 1
  <2>1. Travels(p) /\ c \in Circuits
    BY <1>1 DEF OnionIInv, Travels
  <2>2. /\ i \in 1..Len(c.hops) /\ p.box = Boxes(c)[i]
        /\ Len(c.hops) - i + 1 = Len(c.hops) - Len(p.by)
    BY <2>1 DEF Travels, Circuits
  <2>3. p.box.size = OnionSize(TextSize[c.text], Len(c.hops) - i + 1)
    <3> HIDE DEF c, i
    <3> QED BY <2>1, <2>2, BoxSize
  <2> QED BY <1>1, <2>2, <2>3, LeftFacts
<1> QED BY <1>1, OnionInvariance, PTL
=============================================================================
