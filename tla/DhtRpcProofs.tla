---------------------------- MODULE DhtRpcProofs ----------------------------
(***************************************************************************)
(* A DHT node, for any keys, values, lifetimes, sizes and clocks: its      *)
(* value store implements a map whose entries expire, its routing table    *)
(* keeps its shape, gives up only silent contacts, and answers with the    *)
(* nearest ones.                                                           *)
(***************************************************************************)
EXTENDS DhtRpc, SequenceTheorems, FunctionTheorems, FiniteSetTheorems,
        WellFoundedInduction, TLAPS

-----------------------------------------------------------------------------
(* The store.  The type invariant is the only fact about reachable states   *)
(* the proof of the refinement needs: the time left is a number.            *)

LifeTimes == {-1} \cup (0..RpcTtl) \cup UNION {0..ttl : ttl \in Ttls}

\* Lifetimes are integers, none below -1; a tick takes one to another.
LEMMA LifeTimesAreInts ==
  /\ LifeTimes \subseteq Int
  /\ RpcTtl \in LifeTimes
  /\ \A ttl \in Ttls : ttl \in LifeTimes
  /\ \A n \in LifeTimes : n >= -1
  /\ \A n \in LifeTimes : n >= 0 => n - 1 \in LifeTimes
<1>1. \A ttl \in Ttls : ttl \in Nat
  BY TtlAssumption
<1>2. RpcTtl \in Nat
  BY TtlAssumption
<1>3. ASSUME NEW n \in LifeTimes
      PROVE  n \in Int /\ n >= -1 /\ (n >= 0 => n - 1 \in LifeTimes)
  <2>1. CASE n = -1
    BY <2>1
  <2>2. CASE n \in 0..RpcTtl
    BY <2>2, <1>2 DEF LifeTimes
  <2>3. CASE n \in UNION {0..ttl : ttl \in Ttls}
    <3>1. PICK ttl \in Ttls : n \in 0..ttl
      BY <2>3
    <3>2. n \in Int /\ n >= -1 /\ (n >= 0 => n - 1 \in (0..ttl) \cup {-1})
      BY <3>1, <1>1
    <3> QED BY <3>1, <3>2 DEF LifeTimes
  <2> QED BY <2>1, <2>2, <2>3 DEF LifeTimes
<1>4. RpcTtl \in LifeTimes
  BY <1>2 DEF LifeTimes
<1>5. ASSUME NEW ttl \in Ttls PROVE ttl \in LifeTimes
  <2>1. ttl \in 0..ttl
    BY <1>1
  <2> QED BY <2>1 DEF LifeTimes
<1> QED BY <1>3, <1>4, <1>5

\* The type invariant, field by field.
LEMMA TypeFields ==
  TypeOK <=> /\ Stored \subseteq Keys
             /\ \A k \in Stored : values[k] \in [value : Values, left : LifeTimes]
BY DEF TypeOK, Entries, LifeTimes

\* The empty store of NewStore has the type.
LEMMA InitType == Init => TypeOK
BY DEF Init, TypeOK, Stored

\* Put, and HandleStore with its 24 hours, keep the type.
LEMMA PutType ==
  ASSUME TypeOK, NEW k \in Keys, NEW v \in Values, NEW ttl \in LifeTimes,
         PutValue(k, v, ttl)
  PROVE  TypeOK'
<1>1. /\ DOMAIN values' = DOMAIN values \cup {k}
      /\ \A x \in DOMAIN values' :
           values'[x] = IF x = k THEN [value |-> v, left |-> ttl] ELSE values[x]
  BY DEF PutValue, Stored
<1> QED BY <1>1 DEF TypeOK, Stored, Entries, LifeTimes

\* Delete and Cleanup, which only remove entries, keep the type.
LEMMA WithoutType ==
  ASSUME TypeOK, NEW gone, Without(gone)
  PROVE  TypeOK'
BY DEF TypeOK, Without, Stored

\* The passing of time keeps the type.
LEMMA TickType ==
  ASSUME TypeOK, Tick
  PROVE  TypeOK'
<1>1. /\ DOMAIN values' = DOMAIN values
      /\ \A k \in DOMAIN values :
           values'[k] = [values[k] EXCEPT !.left = IF @ < 0 THEN @ ELSE @ - 1]
  BY DEF Tick, Stored, Aged
<1>2. \A k \in DOMAIN values : values[k] \in [value : Values, left : LifeTimes]
  BY TypeFields DEF Stored
<1>3. ASSUME NEW k \in DOMAIN values
      PROVE  values'[k] \in [value : Values, left : LifeTimes]
  <2>1. values[k].left \in LifeTimes /\ values[k].left \in Int
    BY <1>2, LifeTimesAreInts
  <2>2. (IF values[k].left < 0 THEN values[k].left ELSE values[k].left - 1)
          \in LifeTimes
    BY <2>1, LifeTimesAreInts
  <2> QED BY <1>1, <1>2, <2>2
<1> QED BY <1>1, <1>3 DEF TypeOK, Stored, Entries, LifeTimes

\* Only keys of Keys are stored, with lifetimes that were given, run down to
\* the mark of an expired value.
LEMMA StoreTypes == Spec => []TypeOK
<1>1. TypeOK /\ [Next]_vars => TypeOK'
  <2> SUFFICES ASSUME TypeOK, [Next]_vars PROVE TypeOK'
    OBVIOUS
  <2>1. ASSUME NEW k \in Keys, NEW v \in Values, HandleStore(k, v) PROVE TypeOK'
    BY <2>1, PutType, LifeTimesAreInts DEF HandleStore
  <2>2. ASSUME NEW k \in Keys, NEW v \in Values, NEW ttl \in Ttls, Put(k, v, ttl)
        PROVE  TypeOK'
    BY <2>2, PutType, LifeTimesAreInts DEF Put
  <2>3. ASSUME NEW k \in Keys, Delete(k) PROVE TypeOK'
    BY <2>3, WithoutType DEF Delete
  <2>4. CASE Cleanup
    BY <2>4, WithoutType DEF Cleanup
  <2>5. CASE Tick
    BY <2>5, TickType
  <2>6. CASE UNCHANGED values
    BY <2>6 DEF TypeOK, Stored
  <2> QED BY <2>1, <2>2, <2>3, <2>4, <2>5, <2>6
          DEF Next, vars, HandleFindValue, HandlePing
<1> QED BY <1>1, InitType, PTL DEF Spec

-----------------------------------------------------------------------------
Cell == [k \in Keys |-> Get(k)]

\* What Get returns, by the entry that is there.
LEMMA GetCases ==
  ASSUME TypeOK, NEW k \in Keys
  PROVE  /\ k \notin Stored => Get(k) = Nothing
         /\ k \in Stored => /\ values[k].left \in Int /\ values[k].left >= -1
                            /\ values[k] = [value |-> values[k].value,
                                            left |-> values[k].left]
                            /\ values[k] # Nothing
                            /\ values[k].left < 0 => Get(k) = Nothing
                            /\ values[k].left >= 0 => Get(k) = values[k]
<1>1. CASE k \notin Stored
  BY <1>1 DEF Get
<1>2. CASE k \in Stored
  <2>1. values[k] \in [value : Values, left : LifeTimes]
    BY <1>2, TypeFields
  <2>2. values[k].left \in Int /\ values[k].left >= -1
    BY <2>1, LifeTimesAreInts
  <2>3. values[k] = [value |-> values[k].value, left |-> values[k].left]
    BY <2>1
  <2>4. values[k] # Nothing
    BY <1>2, NothingAssumption DEF TypeOK
  <2> QED BY <1>2, <2>2, <2>3, <2>4 DEF Get, Expired
<1> QED BY <1>1, <1>2

\* A Put of the store is a Put of the map, whatever entry it overwrites.
LEMMA PutMaps ==
  ASSUME TypeOK, TypeOK', NEW k \in Keys, NEW v \in Values, NEW ttl \in Nat,
         PutValue(k, v, ttl)
  PROVE  Cell' = [Cell EXCEPT ![k] = [value |-> v, left |-> ttl]]
<1>1. /\ DOMAIN values' = DOMAIN values \cup {k}
      /\ \A x \in DOMAIN values' :
           values'[x] = IF x = k THEN [value |-> v, left |-> ttl] ELSE values[x]
  BY DEF PutValue, Stored
<1>2. ASSUME NEW x \in Keys
      PROVE  Get(x)' = IF x = k THEN [value |-> v, left |-> ttl] ELSE Get(x)
  BY <1>1 DEF Get, Expired, Stored
<1> QED BY <1>2 DEF Cell

\* When time passes for the store it passes for the map: an entry that
\* expires now vanishes, one that expired before is gone already.
LEMMA TickMaps ==
  ASSUME TypeOK, TypeOK', Tick
  PROVE  Map!Tick
<1>1. /\ DOMAIN values' = DOMAIN values
      /\ \A k \in DOMAIN values :
           values'[k] = [values[k] EXCEPT !.left = IF @ < 0 THEN @ ELSE @ - 1]
  BY DEF Tick, Stored, Aged
<1>2. ASSUME NEW k \in Keys
      PROVE  Get(k)' = Map!Older(Get(k))
  <2>1. CASE k \notin Stored
    BY <2>1, <1>1 DEF Get, Stored, Map!Older
  <2>2. CASE k \in Stored
    <3> DEFINE e == values[k]
    <3>1. /\ e.left \in Int /\ e.left >= -1 /\ e # Nothing
          /\ e = [value |-> e.value, left |-> e.left]
          /\ e.left < 0 => Get(k) = Nothing
          /\ e.left >= 0 => Get(k) = e
      BY <2>2, GetCases
    <3>2. k \in Stored' /\ values'[k] = [e EXCEPT !.left = IF @ < 0 THEN @ ELSE @ - 1]
      BY <2>2, <1>1 DEF Stored
    <3>3. values'[k].left = IF e.left < 0 THEN e.left ELSE e.left - 1
      BY <3>1, <3>2
    <3>4. CASE e.left <= 0
      <4>1. Get(k)' = Nothing
        BY <3>4, <3>2, <3>3, <3>1 DEF Get, Expired
      <4>2. Map!Older(Get(k)) = Nothing
        BY <3>4, <3>1 DEF Map!Older
      <4> QED BY <4>1, <4>2
    <3>5. CASE e.left > 0
      <4>1. Get(k)' = values'[k]
        BY <3>5, <3>2, <3>3, <3>1 DEF Get, Expired
      <4>2. values'[k] = [e EXCEPT !.left = @ - 1]
        BY <3>5, <3>1, <3>2
      <4>3. Map!Older(e) = [e EXCEPT !.left = @ - 1]
        BY <3>5, <3>1 DEF Map!Older
      <4> QED BY <4>1, <4>2, <4>3, <3>1, <3>5
    <3> QED BY <3>4, <3>5, <3>1
  <2> QED BY <2>1, <2>2
<1>3. Cell' = [k \in Keys |-> Map!Older(Cell[k])]
  BY <1>2 DEF Cell
<1> QED BY <1>3 DEF Tick, Map!Tick, Cell

\* A Delete of the store is a Delete of the map.
LEMMA DeleteMaps ==
  ASSUME TypeOK, NEW k \in Keys, Delete(k)
  PROVE  Map!Delete(k)
<1>1. /\ DOMAIN values' = DOMAIN values \ {k}
      /\ \A x \in DOMAIN values' : values'[x] = values[x]
  BY DEF Delete, Without, Stored
<1>2. ASSUME NEW x \in Keys
      PROVE  Get(x)' = IF x = k THEN Nothing ELSE Get(x)
  BY <1>1 DEF Get, Expired, Stored
<1>3. Cell' = [Cell EXCEPT ![k] = Nothing]
  BY <1>2 DEF Cell
<1> QED BY <1>3 DEF Delete, Map!Delete, Cell

\* Cleanup is invisible.
LEMMA CleanupMaps ==
  ASSUME TypeOK, Cleanup
  PROVE  UNCHANGED Map!vars
<1>1. /\ DOMAIN values' = {k \in DOMAIN values : ~ Expired(k)}
      /\ \A x \in DOMAIN values' : values'[x] = values[x]
  BY DEF Cleanup, Without, Collectable, Stored
<1>2. ASSUME NEW x \in Keys
      PROVE  Get(x)' = Get(x)
  BY <1>1 DEF Get, Expired, Stored
<1>3. Cell' = Cell
  BY <1>2 DEF Cell
<1> QED BY <1>3 DEF Cleanup, Map!vars, Cell

\* What HandleFindValue answers is what the map holds.
LEMMA FindMaps ==
  ASSUME NEW k \in Keys, HandleFindValue(k)
  PROVE  Map!Find(k)
<1>1. Cell' = Cell
  BY DEF HandleFindValue, Cell, Get, Expired, Stored
<1> QED BY <1>1 DEF HandleFindValue, Map!Find, Cell

\* Every step of the store is a step of the map or changes nothing in it.
LEMMA StepMaps == TypeOK /\ TypeOK' /\ [Next]_vars => [Map!Next]_(Map!vars)
<1> SUFFICES ASSUME TypeOK, TypeOK', [Next]_vars
             PROVE  [Map!Next]_(Map!vars)
  OBVIOUS
<1> USE DEF Cell
<1>1. ASSUME NEW k \in Keys, NEW v \in Values, HandleStore(k, v)
      PROVE  Map!Next
  <2>1. Map!Put(k, v, RpcTtl)
    BY <1>1, PutMaps, TtlAssumption DEF HandleStore, Map!Put
  <2> QED BY <2>1 DEF Map!Next
<1>2. ASSUME NEW k \in Keys, NEW v \in Values, NEW ttl \in Ttls, Put(k, v, ttl)
      PROVE  Map!Next
  <2>1. Map!Put(k, v, ttl)
    BY <1>2, PutMaps, TtlAssumption DEF Put, Map!Put
  <2> QED BY <2>1 DEF Map!Next
<1>3. ASSUME NEW k \in Keys, HandleFindValue(k)
      PROVE  Map!Next
  BY <1>3, FindMaps DEF Map!Next
<1>4. ASSUME NEW k \in Keys, Delete(k)
      PROVE  Map!Next
  BY <1>4, DeleteMaps DEF Map!Next
<1>5. CASE HandlePing
  <2>1. Cell' = Cell
    BY <1>5 DEF HandlePing, Get, Expired, Stored
  <2>2. Map!Ping
    BY <1>5, <2>1 DEF HandlePing, Map!Ping
  <2> QED BY <2>2 DEF Map!Next
<1>6. CASE Cleanup
  BY <1>6, CleanupMaps
<1>7. CASE Tick
  BY <1>7, TickMaps DEF Map!Next
<1>8. CASE UNCHANGED vars
  BY <1>8 DEF vars, Map!vars, Get, Expired, Stored
<1> QED BY <1>1, <1>2, <1>3, <1>4, <1>5, <1>6, <1>7, <1>8 DEF Next

\* The store knows nothing of the table.
LEMMA StoreOfRpc == RpcSpec => Spec
<1>1. RpcInit => Init
  BY DEF RpcInit
<1>2. [RpcNext]_<<vars, tableVars>> => [Next]_vars
  BY DEF RpcNext
<1> QED BY <1>1, <1>2, PTL DEF RpcSpec, Spec

\* Only keys of Keys are stored, with lifetimes that were given, run down to
\* the mark of an expired value.
THEOREM TypeCorrect == RpcSpec => []TypeOK
BY StoreOfRpc, StoreTypes, PTL

\* Whatever is stored, asked, deleted and collected, and whenever: callers see
\* the map of ExpiringMap.
THEOREM Implementation == RpcSpec => ImplementsExpiringMap
<1>1. Init => Map!Init
  BY DEF Init, Map!Init, Get, Stored
<1>2. Spec => [][Map!Next]_(Map!vars)
  BY StepMaps, StoreTypes, PTL DEF Spec
<1> QED BY <1>1, <1>2, StoreOfRpc, PTL DEF Spec, ImplementsExpiringMap, Map!Spec

-----------------------------------------------------------------------------
(* The routing table. *)

\* Some number is the least.
LEMMA LeastNat ==
  ASSUME NEW T \in SUBSET Nat, T # {}
  PROVE  \E x \in T : \A y \in T : x <= y
<1>1. PICK x \in T : \A y \in T : ~ (<<y, x>> \in OpToRel(<, Nat))
  BY WFMin, NatLessThanWellFounded
<1>2. \A y \in T : ~ y < x
  BY <1>1 DEF OpToRel
<1> QED BY <1>2

\* The length of a shared prefix is at most that of a key,
LEMMA PrefixLength ==
  ASSUME NEW k \in Table!Bitstrings
  PROVE  /\ Table!LeadingZeros(k) \in 0..Bits
         /\ (\E i \in 1..Bits : k[i] # 0) => Table!LeadingZeros(k) < Bits
         /\ \A i \in 1..Table!LeadingZeros(k) : k[i] = 0
         /\ Table!LeadingZeros(k) < Bits => k[Table!LeadingZeros(k) + 1] = 1
<1>1. Bits \in Nat \ {0}
  BY TableAssumption DEF Table!SizesAssumption
<1>2. \E n \in 0..Bits : /\ \A i \in 1..n : k[i] = 0
                         /\ n < Bits => k[n + 1] = 1
  <2> DEFINE T == {i \in 1..Bits : k[i] # 0}
  <2>1. CASE T = {}
    BY <1>1, <2>1
  <2>2. CASE T # {}
    <3>0. T \in SUBSET Nat
      BY <1>1
    <3> HIDE DEF T
    <3>1. PICK m \in T : \A i \in T : m <= i
      BY <2>2, <3>0, LeastNat
    <3> USE DEF T
    <3>2. m \in 1..Bits /\ k[m] = 1
      BY <3>1 DEF Table!Bitstrings
    <3>3. m - 1 \in 0..Bits /\ (m - 1) + 1 = m
      BY <1>1, <3>2
    <3>4. \A i \in 1..(m - 1) : i \in 1..Bits /\ ~ m <= i
      BY <1>1, <3>2
    <3>5. \A i \in 1..(m - 1) : k[i] = 0
      BY <3>1, <3>4
    <3> QED BY <3>2, <3>3, <3>5
  <2> QED BY <2>1, <2>2
<1>3. /\ Table!LeadingZeros(k) \in 0..Bits
      /\ \A i \in 1..Table!LeadingZeros(k) : k[i] = 0
      /\ Table!LeadingZeros(k) < Bits => k[Table!LeadingZeros(k) + 1] = 1
  BY <1>2 DEF Table!LeadingZeros
<1> QED BY <1>1, <1>3

\* and less than that for two that differ: it is the number of a bucket.
LEMMA IndexOfKey ==
  ASSUME NEW t \in Tables, NEW id \in Table!Bitstrings
  PROVE  /\ Table!BucketIndex(t, id) \in Table!BucketIndexes
         /\ id # SelfId[t] =>
              Table!BucketIndex(t, id) = Table!LeadingZeros(Table!XOR(SelfId[t], id))
<1> DEFINE k == Table!XOR(SelfId[t], id)
<1>1. Bits \in Nat \ {0} /\ SelfId[t] \in Table!Bitstrings
  BY TableAssumption DEF Table!SizesAssumption, Table!IdsAssumption
<1>2. k \in Table!Bitstrings
  BY DEF Table!Bitstrings, Table!XOR
<1>3. ASSUME id # SelfId[t] PROVE \E i \in 1..Bits : k[i] # 0
  <2>1. PICK i \in 1..Bits : id[i] # SelfId[t][i]
    BY <1>1, <1>3 DEF Table!Bitstrings
  <2> QED BY <2>1 DEF Table!XOR
<1> HIDE DEF k
<1>4. /\ Table!LeadingZeros(k) \in 0..Bits
      /\ id # SelfId[t] => Table!LeadingZeros(k) < Bits
  BY <1>2, <1>3, PrefixLength
<1> QED BY <1>1, <1>4 DEF Table!BucketIndex, Table!BucketIndexes, Table!MaxBuckets, k

LEMMA OldestOf ==
  ASSUME NEW b \in Seq(Contacts), b # << >>, lastSeen \in [Contacts -> 0..MaxTime]
  PROVE  /\ Table!Oldest(b) \in DOMAIN b
         /\ \A j \in DOMAIN b : lastSeen[b[Table!Oldest(b)]] <= lastSeen[b[j]]
<1> DEFINE seen == [j \in DOMAIN b |-> lastSeen[b[j]]]
           S == {seen[j] : j \in DOMAIN b}
<1>1. /\ DOMAIN b = 1..Len(b) /\ 1 \in DOMAIN b /\ Len(b) \in Nat
      /\ \A j \in DOMAIN b : b[j] \in Contacts
  OBVIOUS
<1>2. \A j \in DOMAIN b : seen[j] = lastSeen[b[j]] /\ seen[j] \in Nat
  BY <1>1, TableAssumption DEF Table!SizesAssumption
<1> HIDE DEF seen
<1>3. S \in SUBSET Nat /\ S # {}
  BY <1>1, <1>2
<1>4. PICK m \in S : \A y \in S : m <= y
  <2> HIDE DEF S
  <2> QED BY <1>3, LeastNat
<1> DEFINE T == {j \in DOMAIN b : seen[j] = m}
<1>5. T \in SUBSET Nat /\ T # {}
  BY <1>1, <1>4
<1>6. PICK i \in T : \A j \in T : i <= j
  <2> HIDE DEF T
  <2> QED BY <1>5, LeastNat
<1>7. /\ i \in DOMAIN b
      /\ \A j \in DOMAIN b : seen[i] <= seen[j]
      /\ \A j \in 1..(i - 1) : seen[i] < seen[j]
  <2>1. i \in DOMAIN b /\ seen[i] = m
    BY <1>6
  <2>2. \A j \in DOMAIN b : m <= seen[j]
    BY <1>4
  <2>3. ASSUME NEW j \in 1..(i - 1) PROVE m < seen[j]
    <3>1. j \in DOMAIN b /\ ~ i <= j
      BY <1>1, <2>1
    <3>2. seen[j] # m
      BY <1>6, <3>1
    <3> QED BY <1>2, <1>3, <1>4, <2>2, <3>1, <3>2
  <2> QED BY <2>1, <2>2, <2>3
<1>8. \A j \in 1..(i - 1) : j \in DOMAIN b
  BY <1>1, <1>7
<1>9. \E o \in DOMAIN b :
        /\ \A j \in DOMAIN b : lastSeen[b[o]] <= lastSeen[b[j]]
        /\ \A j \in 1..(o - 1) : lastSeen[b[o]] < lastSeen[b[j]]
  BY <1>2, <1>7, <1>8
<1> QED BY <1>9 DEF Table!Oldest

\* What a bucket that is replaced has to show.
LEMMA BucketReplaced ==
  ASSUME WellPlaced, NEW t \in Tables, NEW i \in Table!BucketIndexes,
         NEW new \in Seq(Contacts), Len(new) <= BucketSize,
         buckets' = [buckets EXCEPT ![t][i] = new],
         \A x \in DOMAIN new :
           Table!LeadingZeros(Table!XOR(SelfId[t], IdOf[new[x]])) = i,
         \A x, y \in DOMAIN new : IdOf[new[x]] = IdOf[new[y]] => x = y,
         lastSeen' \in [Contacts -> 0..MaxTime], now' \in 0..MaxTime
  PROVE  WellPlaced'
<1>1. buckets \in [Tables -> [Table!BucketIndexes -> Seq(Contacts)]]
  BY DEF WellPlaced, Table!TypeOK
<1>2. buckets' \in [Tables -> [Table!BucketIndexes -> Seq(Contacts)]]
  BY <1>1
<1>3. \A u \in Tables, j \in Table!BucketIndexes :
        buckets'[u][j] = IF u = t /\ j = i THEN new ELSE buckets[u][j]
  BY <1>1
<1>4. Table!TypeOK'
  BY <1>2, <1>3 DEF WellPlaced, Table!TypeOK
<1>5. ASSUME NEW u \in Tables, NEW j \in Table!BucketIndexes,
             NEW x \in DOMAIN buckets'[u][j]
      PROVE  Table!LeadingZeros(Table!XOR(SelfId[u], IdOf[buckets'[u][j][x]])) = j
  BY <1>3, <1>5 DEF WellPlaced, Table!WellPlaced
<1>6. ASSUME NEW u \in Tables, NEW j \in Table!BucketIndexes,
             NEW x \in DOMAIN buckets'[u][j], NEW y \in DOMAIN buckets'[u][j],
             IdOf[buckets'[u][j][x]] = IdOf[buckets'[u][j][y]]
      PROVE  x = y
  BY <1>3, <1>6 DEF WellPlaced, Table!WellPlaced
<1>7. Table!WellPlaced'
  <2> SUFFICES ASSUME NEW u \in Tables,
                      NEW j \in Table!BucketIndexes, NEW k \in Table!BucketIndexes,
                      NEW x \in DOMAIN buckets'[u][j], NEW y \in DOMAIN buckets'[u][k]
               PROVE  /\ Table!LeadingZeros(Table!XOR(SelfId[u], IdOf[buckets'[u][j][x]]))
                           = j
                      /\ IdOf[buckets'[u][j][x]] = IdOf[buckets'[u][k][y]] =>
                           j = k /\ x = y
    BY DEF Table!WellPlaced
  <2>1. IdOf[buckets'[u][j][x]] = IdOf[buckets'[u][k][y]] => j = k
    BY <1>5
  <2> QED BY <1>5, <1>6, <2>1
<1> QED BY <1>4, <1>7 DEF WellPlaced

\* A bucket is well placed by itself.
LEMMA BucketFacts ==
  ASSUME WellPlaced, NEW t \in Tables, NEW i \in Table!BucketIndexes
  PROVE  LET b == buckets[t][i]
         IN  /\ b \in Seq(Contacts) /\ Len(b) <= BucketSize /\ Len(b) \in Nat
             /\ DOMAIN b = 1..Len(b) /\ \A x \in DOMAIN b : b[x] \in Contacts
             /\ \A x \in DOMAIN b :
                  Table!LeadingZeros(Table!XOR(SelfId[t], IdOf[b[x]])) = i
             /\ \A x, y \in DOMAIN b : IdOf[b[x]] = IdOf[b[y]] => x = y
<1> DEFINE b == buckets[t][i]
<1>1. b \in Seq(Contacts) /\ Len(b) <= BucketSize
  BY DEF WellPlaced, Table!TypeOK
<1>2. Len(b) \in Nat /\ DOMAIN b = 1..Len(b) /\ \A x \in DOMAIN b : b[x] \in Contacts
  BY <1>1
<1> QED BY <1>1, <1>2 DEF WellPlaced, Table!WellPlaced

\* The position of a key is one of the bucket.
LEMMA FirstPosition ==
  ASSUME NEW b \in Seq(Contacts), NEW id, Table!Known(b, id)
  PROVE  Table!Min(Table!Positions(b, id)) \in DOMAIN b
<1> DEFINE T == Table!Positions(b, id)
<1>1. T \in SUBSET Nat /\ T # {} /\ T \subseteq DOMAIN b
  BY DEF Table!Positions, Table!Known
<1> HIDE DEF T
<1>2. \E x \in T : \A y \in T : x <= y
  BY <1>1, LeastNat
<1>3. Table!Min(T) \in T
  BY <1>2 DEF Table!Min
<1> QED BY <1>1, <1>3 DEF T

LEMMA RefreshPlaced ==
  ASSUME WellPlaced, NEW t \in Tables, NEW c \in Contacts, Table!Refresh(t, c)
  PROVE  WellPlaced' /\ buckets' = buckets
<1>1. UNCHANGED <<buckets, now>>
  BY DEF Table!Refresh
<1>2. lastSeen' \in [Contacts -> 0..MaxTime]
  BY DEF Table!Refresh, WellPlaced, Table!TypeOK
<1>3. Table!TypeOK'
  BY <1>1, <1>2 DEF WellPlaced, Table!TypeOK
<1>4. Table!WellPlaced'
  BY <1>1 DEF WellPlaced, Table!WellPlaced
<1> QED BY <1>1, <1>3, <1>4 DEF WellPlaced

\* A contact that is added is appended, or takes the place of the oldest, which
\* has been silent; or nothing comes of it.
LEMMA InsertCases ==
  ASSUME WellPlaced, NEW t \in Tables, NEW c \in Contacts, Table!Insert(t, c)
  PROVE  LET i == Table!BucketIndex(t, IdOf[c])
             b == buckets[t][i] IN
         /\ i \in Table!BucketIndexes
         /\ Table!LeadingZeros(Table!XOR(SelfId[t], IdOf[c])) = i
         /\ \A x \in DOMAIN b : IdOf[b[x]] # IdOf[c]
         /\ lastSeen' \in [Contacts -> 0..MaxTime] /\ now' \in 0..MaxTime
         /\ \/ buckets' = buckets
            \/ /\ Len(b) < BucketSize
               /\ buckets' = [buckets EXCEPT ![t][i] = Append(b, c)]
            \/ \E o \in DOMAIN b :
                 /\ buckets' = [buckets EXCEPT ![t][i] = [b EXCEPT ![o] = c]]
                 /\ now - lastSeen[b[o]] > Silence
                 /\ \A j \in DOMAIN b : lastSeen[b[o]] <= lastSeen[b[j]]
<1> DEFINE i == Table!BucketIndex(t, IdOf[c])
           b == buckets[t][i]
<1>1. IdOf[c] \in Table!Bitstrings /\ BucketSize \in Nat \ {0}
  BY TableAssumption DEF Table!SizesAssumption, Table!IdsAssumption
<1>2. IdOf[c] # SelfId[t] /\ ~ Table!Known(b, IdOf[c])
  BY DEF Table!Insert
<1>3. /\ i \in Table!BucketIndexes
      /\ Table!LeadingZeros(Table!XOR(SelfId[t], IdOf[c])) = i
  BY <1>1, <1>2, IndexOfKey
<1>4. \A x \in DOMAIN b : IdOf[b[x]] # IdOf[c]
  BY <1>2 DEF Table!Known, Table!Positions
<1>5. /\ lastSeen \in [Contacts -> 0..MaxTime] /\ now \in 0..MaxTime
      /\ lastSeen' = [lastSeen EXCEPT ![c] = now] /\ now' = now
  BY DEF Table!Insert, WellPlaced, Table!TypeOK
<1>6. buckets' = IF Len(b) < BucketSize
                 THEN [buckets EXCEPT ![t][i] = Append(@, c)]
                 ELSE IF Table!Silent(b[Table!Oldest(b)])
                 THEN [buckets EXCEPT ![t][i][Table!Oldest(b)] = c]
                 ELSE buckets
  BY DEF Table!Insert, Table!HasSpace
<1>7. CASE Len(b) < BucketSize
  <2>1. buckets' = [buckets EXCEPT ![t][i] = Append(b, c)]
    BY <1>6, <1>7
  <2> QED BY <1>3, <1>4, <1>5, <1>7, <2>1
<1>8. CASE ~ Len(b) < BucketSize /\ Table!Silent(b[Table!Oldest(b)])
  <2>1. b \in Seq(Contacts) /\ b # << >>
    <3>1. b \in Seq(Contacts)
      BY <1>3, BucketFacts
    <3> QED BY <1>1, <1>8, <3>1
  <2>2. PICK o : o = Table!Oldest(b)
    OBVIOUS
  <2>3. o \in DOMAIN b /\ \A j \in DOMAIN b : lastSeen[b[o]] <= lastSeen[b[j]]
    BY <1>5, <2>1, <2>2, OldestOf
  <2>4. now - lastSeen[b[o]] > Silence
    BY <1>8, <2>2 DEF Table!Silent
  <2>5. buckets' = [buckets EXCEPT ![t][i] = [b EXCEPT ![o] = c]]
    BY <1>3, <1>6, <1>8, <2>2
  <2> QED BY <1>3, <1>4, <1>5, <2>3, <2>4, <2>5
<1>9. CASE ~ Len(b) < BucketSize /\ ~ Table!Silent(b[Table!Oldest(b)])
  BY <1>3, <1>4, <1>5, <1>6, <1>9
<1> QED BY <1>7, <1>8, <1>9

LEMMA InsertPlaced ==
  ASSUME WellPlaced, NEW t \in Tables, NEW c \in Contacts, Table!Insert(t, c)
  PROVE  WellPlaced'
<1> DEFINE i == Table!BucketIndex(t, IdOf[c])
           b == buckets[t][i]
<1>2. /\ i \in Table!BucketIndexes
      /\ Table!LeadingZeros(Table!XOR(SelfId[t], IdOf[c])) = i
      /\ \A x \in DOMAIN b : IdOf[b[x]] # IdOf[c]
      /\ lastSeen' \in [Contacts -> 0..MaxTime] /\ now' \in 0..MaxTime
  BY InsertCases
<1>3. /\ b \in Seq(Contacts) /\ Len(b) <= BucketSize /\ Len(b) \in Nat
      /\ DOMAIN b = 1..Len(b) /\ \A x \in DOMAIN b : b[x] \in Contacts
      /\ \A x \in DOMAIN b :
           Table!LeadingZeros(Table!XOR(SelfId[t], IdOf[b[x]])) = i
      /\ \A x, y \in DOMAIN b : IdOf[b[x]] = IdOf[b[y]] => x = y
  BY <1>2, BucketFacts
<1>7. \/ buckets' = buckets
      \/ Len(b) < BucketSize /\ buckets' = [buckets EXCEPT ![t][i] = Append(b, c)]
      \/ \E o \in DOMAIN b : buckets' = [buckets EXCEPT ![t][i] = [b EXCEPT ![o] = c]]
  BY InsertCases
<1> HIDE DEF i, b
<1>4. CASE buckets' = buckets
  BY <1>2, <1>4 DEF WellPlaced, Table!TypeOK, Table!WellPlaced
<1>5. CASE Len(b) < BucketSize /\ buckets' = [buckets EXCEPT ![t][i] = Append(b, c)]
  <2>1. PICK new : new = Append(b, c)
    OBVIOUS
  <2>2. /\ new \in Seq(Contacts) /\ Len(new) <= BucketSize
        /\ DOMAIN new = 1..(Len(b) + 1)
        /\ \A x \in DOMAIN new : x \in DOMAIN b \/ x = Len(b) + 1
        /\ \A x \in DOMAIN b : new[x] = b[x]
        /\ new[Len(b) + 1] = c
    <3>1. Len(b) + 1 <= BucketSize
      BY <1>3, <1>5, TableAssumption DEF Table!SizesAssumption
    <3> QED BY <1>3, <2>1, <3>1
  <2>3. \A x \in DOMAIN new :
          Table!LeadingZeros(Table!XOR(SelfId[t], IdOf[new[x]])) = i
    BY <1>2, <1>3, <2>2
  <2>4. \A x, y \in DOMAIN new : IdOf[new[x]] = IdOf[new[y]] => x = y
    BY <1>2, <1>3, <2>2
  <2>5. i \in Table!BucketIndexes /\ new \in Seq(Contacts) /\ Len(new) <= BucketSize
    BY <1>2, <2>2
  <2>6. buckets' = [buckets EXCEPT ![t][i] = new]
    BY <1>5, <2>1
  <2>7. lastSeen' \in [Contacts -> 0..MaxTime] /\ now' \in 0..MaxTime
    BY <1>2
  <2> QED BY <2>3, <2>4, <2>5, <2>6, <2>7, BucketReplaced
<1>6. ASSUME NEW o \in DOMAIN b,
             buckets' = [buckets EXCEPT ![t][i] = [b EXCEPT ![o] = c]]
      PROVE  WellPlaced'
  <2>1. PICK new : new = [b EXCEPT ![o] = c]
    OBVIOUS
  <2>2. /\ new \in Seq(Contacts) /\ Len(new) = Len(b) /\ DOMAIN new = DOMAIN b
        /\ \A x \in DOMAIN b : new[x] = IF x = o THEN c ELSE b[x]
    BY <1>3, <2>1
  <2>3. \A x \in DOMAIN new :
          Table!LeadingZeros(Table!XOR(SelfId[t], IdOf[new[x]])) = i
    BY <1>2, <1>3, <2>2
  <2>4. \A x, y \in DOMAIN new : IdOf[new[x]] = IdOf[new[y]] => x = y
    BY <1>2, <1>3, <2>2
  <2>5. Len(new) <= BucketSize
    BY <1>3, <2>2
  <2>6. buckets' = [buckets EXCEPT ![t][i] = new]
    BY <1>6, <2>1
  <2>7. lastSeen' \in [Contacts -> 0..MaxTime] /\ now' \in 0..MaxTime
    BY <1>2
  <2>8. i \in Table!BucketIndexes /\ new \in Seq(Contacts)
    BY <1>2, <2>2
  <2> QED BY <2>3, <2>4, <2>5, <2>6, <2>7, <2>8, BucketReplaced
<1> QED BY <1>4, <1>5, <1>6, <1>7

\* What is left when an entry is removed are the others.
LEMMA WithoutEntry ==
  ASSUME NEW b \in Seq(Contacts), NEW o \in DOMAIN b
  PROVE  LET new == Table!RemoveAt(b, o) IN
         /\ new \in Seq(Contacts) /\ Len(new) = Len(b) - 1
         /\ DOMAIN new = 1..(Len(b) - 1)
         /\ \A x \in DOMAIN new : /\ (IF x < o THEN x ELSE x + 1) \in DOMAIN b
                                  /\ new[x] = b[IF x < o THEN x ELSE x + 1]
<1> DEFINE new == Table!RemoveAt(b, o)
<1>1. /\ Len(b) \in Nat /\ DOMAIN b = 1..Len(b) /\ o \in 1..Len(b)
      /\ \A x \in 1..Len(b) : b[x] \in Contacts
  OBVIOUS
<1>2. PICK l, r : l = SubSeq(b, 1, o - 1) /\ r = SubSeq(b, o + 1, Len(b))
  OBVIOUS
<1>3. /\ l \in Seq(Contacts) /\ Len(l) = o - 1
      /\ \A x \in 1..(o - 1) : l[x] = b[x]
  BY <1>1, <1>2
<1>4. /\ r \in Seq(Contacts) /\ Len(r) = Len(b) - o
      /\ \A x \in 1..(Len(b) - o) : r[x] = b[o + x]
  BY <1>1, <1>2
<1>5. new = l \o r
  BY <1>2 DEF Table!RemoveAt
<1> HIDE DEF new
<1>6. /\ new \in Seq(Contacts) /\ Len(new) = Len(b) - 1
      /\ DOMAIN new = 1..(Len(b) - 1)
  <2>1. new \in Seq(Contacts) /\ Len(new) = Len(l) + Len(r)
    BY <1>3, <1>4, <1>5, ConcatProperties
  <2>2. Len(new) = Len(b) - 1
    BY <1>1, <1>3, <1>4, <2>1
  <2>3. DOMAIN new = 1..Len(new)
    BY <2>1
  <2> QED BY <2>1, <2>2, <2>3
<1>7. ASSUME NEW x \in 1..(Len(b) - 1), x < o
      PROVE  x \in DOMAIN b /\ new[x] = b[x]
  BY <1>1, <1>3, <1>4, <1>5, <1>7
<1>8. ASSUME NEW x \in 1..(Len(b) - 1), ~ x < o
      PROVE  x + 1 \in DOMAIN b /\ new[x] = b[x + 1]
  <2>1. x - (o - 1) \in 1..(Len(b) - o) /\ o + (x - (o - 1)) = x + 1
    BY <1>1, <1>8
  <2>2. new[x] = r[x - (o - 1)]
    <3>1. x \in 1..(Len(l) + Len(r)) /\ ~ x <= Len(l) /\ x - Len(l) = x - (o - 1)
      BY <1>1, <1>3, <1>4, <1>8
    <3>2. \A y \in 1..(Len(l) + Len(r)) :
            new[y] = IF y <= Len(l) THEN l[y] ELSE r[y - Len(l)]
      BY <1>3, <1>4, <1>5, ConcatProperties
    <3> QED BY <3>1, <3>2
  <2>3. x + 1 \in DOMAIN b
    BY <1>1, <1>8
  <2>4. r[x - (o - 1)] = b[o + (x - (o - 1))]
    BY <1>4, <2>1
  <2> QED BY <2>1, <2>2, <2>3, <2>4
<1>9. ASSUME NEW x \in DOMAIN new
      PROVE  /\ (IF x < o THEN x ELSE x + 1) \in DOMAIN b
             /\ new[x] = b[IF x < o THEN x ELSE x + 1]
  BY <1>6, <1>7, <1>8
<1> QED BY <1>6, <1>9 DEF new

LEMMA RemovePlaced ==
  ASSUME WellPlaced, NEW t \in Tables, NEW c \in Contacts, Table!RemoveKey(t, IdOf[c])
  PROVE  /\ WellPlaced'
         /\ \E i \in Table!BucketIndexes : \E new :
              /\ buckets' = [buckets EXCEPT ![t][i] = new]
              /\ Table!ToSet(new) \subseteq Table!ToSet(buckets[t][i])
<1> DEFINE i == Table!BucketIndex(t, IdOf[c])
           b == buckets[t][i]
<1>2. i \in Table!BucketIndexes
  <2>1. IdOf[c] \in Table!Bitstrings
    BY TableAssumption DEF Table!IdsAssumption
  <2> QED BY <2>1, IndexOfKey
<1>3. /\ b \in Seq(Contacts) /\ Len(b) <= BucketSize /\ Len(b) \in Nat
      /\ \A x \in DOMAIN b :
           Table!LeadingZeros(Table!XOR(SelfId[t], IdOf[b[x]])) = i
      /\ \A x, y \in DOMAIN b : IdOf[b[x]] = IdOf[b[y]] => x = y
  BY <1>2, BucketFacts
<1> DEFINE o == Table!Min(Table!Positions(b, IdOf[c]))
           new == Table!RemoveAt(b, o)
<1>5. /\ Table!Known(b, IdOf[c]) /\ UNCHANGED <<lastSeen, now>>
      /\ buckets' = [buckets EXCEPT ![t][i] = new]
  BY DEF Table!RemoveKey
<1>6. o \in DOMAIN b
  BY <1>3, <1>5, FirstPosition
<1>7. /\ new \in Seq(Contacts) /\ Len(new) = Len(b) - 1 /\ DOMAIN new = 1..(Len(b) - 1)
      /\ \A x \in DOMAIN new : /\ (IF x < o THEN x ELSE x + 1) \in DOMAIN b
                               /\ new[x] = b[IF x < o THEN x ELSE x + 1]
  BY <1>3, <1>6, WithoutEntry
<1> HIDE DEF new, o, i, b
<1>8. \A x \in DOMAIN new :
        Table!LeadingZeros(Table!XOR(SelfId[t], IdOf[new[x]])) = i
  BY <1>3, <1>7
<1>9. \A x, y \in DOMAIN new : IdOf[new[x]] = IdOf[new[y]] => x = y
  <2> SUFFICES ASSUME NEW x \in DOMAIN new, NEW y \in DOMAIN new,
                      IdOf[new[x]] = IdOf[new[y]]
               PROVE  x = y
    OBVIOUS
  <2>1. (IF x < o THEN x ELSE x + 1) = (IF y < o THEN y ELSE y + 1)
    BY <1>3, <1>7
  <2>2. x \in Nat /\ y \in Nat /\ o \in Nat
    BY <1>3, <1>6, <1>7
  <2> QED BY <2>1, <2>2
<1>10. Len(new) <= BucketSize
  BY <1>3, <1>7, TableAssumption DEF Table!SizesAssumption
<1>11. WellPlaced'
  <2>1. lastSeen' \in [Contacts -> 0..MaxTime] /\ now' \in 0..MaxTime
    BY <1>5 DEF WellPlaced, Table!TypeOK
  <2>2. new \in Seq(Contacts) /\ i \in Table!BucketIndexes
    BY <1>2, <1>7
  <2>3. buckets' = [buckets EXCEPT ![t][i] = new]
    BY <1>5
  <2> QED BY <1>8, <1>9, <1>10, <2>1, <2>2, <2>3, BucketReplaced
<1>12. Table!ToSet(new) \subseteq Table!ToSet(buckets[t][i])
  BY <1>7 DEF Table!ToSet, b
<1> QED BY <1>2, <1>5, <1>11, <1>12

LEMMA InitPlaced == Table!Init => WellPlaced
<1> SUFFICES ASSUME Table!Init PROVE WellPlaced
  OBVIOUS
<1>1. /\ buckets = [t \in Tables |-> [i \in Table!BucketIndexes |-> << >>]]
      /\ lastSeen = [c \in Contacts |-> 0] /\ now = 0
  BY DEF Table!Init
<1>2. BucketSize \in Nat \ {0} /\ 0 \in 0..MaxTime
  BY TableAssumption DEF Table!SizesAssumption
<1>3. << >> \in Seq(Contacts) /\ Len(<< >>) = 0
  OBVIOUS
<1>4. Table!TypeOK
  BY <1>1, <1>2, <1>3 DEF Table!TypeOK
<1>5. Table!WellPlaced
  BY <1>1 DEF Table!WellPlaced
<1> QED BY <1>4, <1>5 DEF WellPlaced

LEMMA TablePlaced == WellPlaced /\ [Table!Next]_tableVars => WellPlaced'
<1> SUFFICES ASSUME WellPlaced, [Table!Next]_tableVars PROVE WellPlaced'
  OBVIOUS
<1>1. ASSUME NEW t \in Tables, NEW c \in Contacts, Table!Add(t, c) PROVE WellPlaced'
  BY <1>1, RefreshPlaced, InsertPlaced DEF Table!Add
<1>2. ASSUME NEW t \in Tables, NEW c \in Contacts, Table!RemoveKey(t, IdOf[c])
      PROVE  WellPlaced'
  BY <1>2, RemovePlaced
<1>3. CASE Table!Tick
  <2>1. now' \in 0..MaxTime /\ UNCHANGED <<buckets, lastSeen>>
    BY <1>3, TableAssumption DEF Table!Tick, WellPlaced, Table!TypeOK, Table!SizesAssumption
  <2> QED BY <2>1 DEF WellPlaced, Table!TypeOK, Table!WellPlaced
<1>4. CASE UNCHANGED tableVars
  BY <1>4 DEF tableVars, WellPlaced, Table!TypeOK, Table!WellPlaced
<1> QED BY <1>1, <1>2, <1>3, <1>4 DEF Table!Next

\* Every contact is in the bucket of the prefix its key shares with the table's,
\* and no key is in a table twice, after any adds, evictions and removals.
THEOREM TablePlacesWell == RpcSpec => []WellPlaced
<1>1. RpcInit => WellPlaced
  BY InitPlaced DEF RpcInit
<1>2. WellPlaced /\ [RpcNext]_<<vars, tableVars>> => WellPlaced'
  BY TablePlaced DEF RpcNext
<1> QED BY <1>1, <1>2, PTL DEF RpcSpec

\* What an eviction has to show of a table.
SilentEvicted(t) ==
  buckets[t] # buckets'[t] =>
    \A c \in Table!InTable(t) : c \notin Table!InTable(t)' =>
      \/ Table!InTable(t)' \subseteq Table!InTable(t)
      \/ /\ now - lastSeen[c] > Silence
         /\ \A d \in Table!ToSet(Table!Bucket(t, IdOf[c])) : lastSeen[c] <= lastSeen[d]

LEMMA InsertEvicts ==
  ASSUME WellPlaced, NEW t \in Tables, NEW c \in Contacts, Table!Insert(t, c),
         NEW u \in Tables
  PROVE  SilentEvicted(u)
<1> DEFINE i == Table!BucketIndex(t, IdOf[c])
           b == buckets[t][i]
<1>1. i \in Table!BucketIndexes
  BY InsertCases
<1>2. /\ b \in Seq(Contacts) /\ DOMAIN b = 1..Len(b) /\ Len(b) \in Nat
      /\ \A x \in DOMAIN b : b[x] \in Contacts
      /\ \A x \in DOMAIN b :
           Table!LeadingZeros(Table!XOR(SelfId[t], IdOf[b[x]])) = i
  BY <1>1, BucketFacts
<1>3. \/ buckets' = buckets
      \/ buckets' = [buckets EXCEPT ![t][i] = Append(b, c)]
      \/ \E o \in DOMAIN b :
           /\ buckets' = [buckets EXCEPT ![t][i] = [b EXCEPT ![o] = c]]
           /\ now - lastSeen[b[o]] > Silence
           /\ \A j \in DOMAIN b : lastSeen[b[o]] <= lastSeen[b[j]]
  BY InsertCases
<1>4. b = buckets[t][i]
  OBVIOUS
<1>8. buckets \in [Tables -> [Table!BucketIndexes -> Seq(Contacts)]]
  BY DEF WellPlaced, Table!TypeOK
<1> HIDE DEF i, b
<1>5. CASE buckets' = buckets
  BY <1>5 DEF SilentEvicted
<1>6. CASE buckets' = [buckets EXCEPT ![t][i] = Append(b, c)]
  <2>1. /\ \A x \in Tables : x # t => buckets'[x] = buckets[x]
        /\ \A j \in Table!BucketIndexes :
             buckets'[t][j] = IF j = i THEN Append(b, c) ELSE buckets[t][j]
    BY <1>1, <1>6, <1>8
  <2>2. \A x \in DOMAIN b : x \in DOMAIN Append(b, c) /\ Append(b, c)[x] = b[x]
    BY <1>2
  <2>3. Table!ToSet(b) \subseteq Table!ToSet(Append(b, c))
    BY <2>2 DEF Table!ToSet
  <2>4. \A j \in Table!BucketIndexes :
          Table!ToSet(buckets[t][j]) \subseteq Table!ToSet(buckets'[t][j])
    BY <1>1, <1>4, <2>1, <2>3
  <2>5. Table!InTable(t) \subseteq Table!InTable(t)'
    BY <2>4 DEF Table!InTable, Table!ToSet
  <2> QED BY <2>1, <2>5 DEF SilentEvicted
<1>7. ASSUME NEW o \in DOMAIN b,
             buckets' = [buckets EXCEPT ![t][i] = [b EXCEPT ![o] = c]],
             now - lastSeen[b[o]] > Silence,
             \A j \in DOMAIN b : lastSeen[b[o]] <= lastSeen[b[j]]
      PROVE  SilentEvicted(u)
  <2>1. /\ \A x \in Tables : x # t => buckets'[x] = buckets[x]
        /\ \A j \in Table!BucketIndexes :
             buckets'[t][j] = IF j = i THEN [b EXCEPT ![o] = c] ELSE buckets[t][j]
    BY <1>1, <1>7, <1>8
  <2> SUFFICES ASSUME u = t, NEW e \in Table!InTable(t), e \notin Table!InTable(t)'
               PROVE  /\ now - lastSeen[e] > Silence
                      /\ \A d \in Table!ToSet(Table!Bucket(t, IdOf[e])) :
                           lastSeen[e] <= lastSeen[d]
    BY <2>1 DEF SilentEvicted
  <2>2. e = b[o]
    <3>1. PICK j \in Table!BucketIndexes : e \in Table!ToSet(buckets[t][j])
      BY DEF Table!InTable
    <3>2. e \in Contacts /\ e \notin Table!ToSet(buckets'[t][j])
      BY <3>1 DEF Table!InTable, Table!ToSet
    <3>3. j = i
      BY <2>1, <3>1, <3>2
    <3>4. PICK x \in DOMAIN b : e = b[x]
      BY <1>4, <3>1, <3>3 DEF Table!ToSet
    <3>5. /\ DOMAIN [b EXCEPT ![o] = c] = DOMAIN b
          /\ x # o => [b EXCEPT ![o] = c][x] = b[x]
      BY <1>2
    <3>6. x # o => e \in Table!ToSet([b EXCEPT ![o] = c])
      BY <3>4, <3>5 DEF Table!ToSet
    <3> QED BY <1>1, <2>1, <3>2, <3>3, <3>4, <3>6
  <2>3. Table!Bucket(t, IdOf[e]) = b
    <3>1. Table!LeadingZeros(Table!XOR(SelfId[t], IdOf[e])) = i
      BY <1>2, <2>2
    <3>2. Bits \in Nat \ {0}
      BY TableAssumption DEF Table!SizesAssumption
    <3>3. ~ i >= Bits
      BY <1>1, <3>2 DEF Table!BucketIndexes, Table!MaxBuckets
    <3>4. Table!BucketIndex(t, IdOf[e]) = i
      BY <3>1, <3>3 DEF Table!BucketIndex, Table!MaxBuckets
    <3> QED BY <1>4, <3>4 DEF Table!Bucket
  <2> QED BY <1>7, <2>2, <2>3 DEF Table!ToSet
<1> QED BY <1>3, <1>5, <1>6, <1>7

LEMMA RemoveEvicts ==
  ASSUME WellPlaced, NEW t \in Tables, NEW c \in Contacts, Table!RemoveKey(t, IdOf[c]),
         NEW u \in Tables
  PROVE  SilentEvicted(u)
<1>1. PICK i \in Table!BucketIndexes : \E new :
        /\ buckets' = [buckets EXCEPT ![t][i] = new]
        /\ Table!ToSet(new) \subseteq Table!ToSet(buckets[t][i])
  BY RemovePlaced
<1>2. PICK new : /\ buckets' = [buckets EXCEPT ![t][i] = new]
                 /\ Table!ToSet(new) \subseteq Table!ToSet(buckets[t][i])
  BY <1>1
<1>3. /\ \A x \in Tables : x # t => buckets'[x] = buckets[x]
      /\ \A j \in Table!BucketIndexes :
           buckets'[t][j] = IF j = i THEN new ELSE buckets[t][j]
  BY <1>2 DEF WellPlaced, Table!TypeOK
<1>4. Table!InTable(t)' \subseteq Table!InTable(t)
  BY <1>2, <1>3 DEF Table!InTable, Table!ToSet
<1> QED BY <1>3, <1>4 DEF SilentEvicted

\* A contact is evicted for a new one only when it has been silent, and then the
\* longest silent one of its bucket.
THEOREM SilentAreEvicted == RpcSpec => OnlySilentEvicted
<1> DEFINE Evictions == \A t \in Tables : SilentEvicted(t)
<1>1. ASSUME WellPlaced, [RpcNext]_<<vars, tableVars>> PROVE [Evictions]_tableVars
  <2>1. CASE UNCHANGED tableVars
    BY <2>1
  <2>2. CASE Table!Next
    <3>1. ASSUME NEW t \in Tables, NEW c \in Contacts, Table!Add(t, c) PROVE Evictions
      <4>1. CASE Table!Insert(t, c)
        BY <1>1, <4>1, InsertEvicts
      <4>2. CASE Table!Refresh(t, c)
        BY <1>1, <4>2, RefreshPlaced DEF SilentEvicted
      <4> QED BY <3>1, <4>1, <4>2 DEF Table!Add
    <3>2. ASSUME NEW t \in Tables, NEW c \in Contacts, Table!RemoveKey(t, IdOf[c])
          PROVE  Evictions
      BY <1>1, <3>2, RemoveEvicts
    <3>3. CASE Table!Tick
      BY <3>3 DEF Table!Tick, SilentEvicted
    <3> QED BY <2>2, <3>1, <3>2, <3>3 DEF Table!Next
  <2> QED BY <1>1, <2>1, <2>2 DEF RpcNext
<1>2. RpcSpec => [][Evictions]_tableVars
  BY <1>1, TablePlacesWell, PTL DEF RpcSpec
<1>3. [Evictions]_tableVars =>
        [\A t \in Tables : buckets[t] # buckets[t]' =>
           \A c \in Table!InTable(t) : c \notin Table!InTable(t)' =>
             \/ Table!InTable(t)' \subseteq Table!InTable(t)
             \/ /\ now - lastSeen[c] > Silence
                /\ \A d \in Table!ToSet(Table!Bucket(t, IdOf[c])) :
                     lastSeen[c] <= lastSeen[d]]_tableVars
  BY DEF SilentEvicted
<1> QED BY <1>2, <1>3, PTL DEF OnlySilentEvicted, Table!OnlySilentEvicted, Table!vars, tableVars

-----------------------------------------------------------------------------
(* Table.Closest. *)

\* In a strict order of n places each has a number before it of its own, and all
\* numbers up to n - 1 occur.
LEMMA Places ==
  ASSUME NEW n \in Nat, NEW R,
         \A i \in 1..n : <<i, i>> \notin R,
         \A i, j, k \in 1..n : <<i, j>> \in R /\ <<j, k>> \in R => <<i, k>> \in R,
         \A i, j \in 1..n : i = j \/ <<i, j>> \in R \/ <<j, i>> \in R
  PROVE  LET before(i) == {j \in 1..n : <<j, i>> \in R}
         IN  /\ \A i \in 1..n : Cardinality(before(i)) \in 0..(n - 1)
             /\ \A i, j \in 1..n :
                  <<i, j>> \in R => Cardinality(before(i)) < Cardinality(before(j))
             /\ \A k \in 1..n : \E i \in 1..n : Cardinality(before(i)) = k - 1
<1> DEFINE before(i) == {j \in 1..n : <<j, i>> \in R}
<1>1. IsFiniteSet(1..n) /\ Cardinality(1..n) = n
  <2>1. /\ IsFiniteSet(1..n)
        /\ Cardinality(1..n) = IF 1 > n THEN 0 ELSE n - 1 + 1
    BY FS_Interval
  <2> QED BY <2>1
<1>2. \A i \in 1..n : IsFiniteSet(before(i)) /\ Cardinality(before(i)) \in Nat
  <2>1. \A i \in 1..n : before(i) \subseteq 1..n
    OBVIOUS
  <2> HIDE DEF before
  <2> QED BY <1>1, <2>1, FS_Subset, FS_CardinalityType
<1>3. ASSUME NEW i \in 1..n
      PROVE  Cardinality(before(i)) \in 0..(n - 1)
  <2>1. before(i) \subseteq 1..n /\ before(i) # 1..n
    OBVIOUS
  <2>2. Cardinality(before(i)) <= n /\ Cardinality(before(i)) # n
    <3> HIDE DEF before
    <3> QED BY <1>1, <2>1, FS_Subset
  <2> HIDE DEF before
  <2> QED BY <1>2, <2>2
<1>4. ASSUME NEW i \in 1..n, NEW j \in 1..n, <<i, j>> \in R
      PROVE  Cardinality(before(i)) < Cardinality(before(j))
  <2>1. /\ before(i) \subseteq before(j) /\ i \in before(j) /\ i \notin before(i)
    BY <1>4
  <2>2. /\ Cardinality(before(i)) <= Cardinality(before(j))
        /\ Cardinality(before(i)) # Cardinality(before(j))
    <3> HIDE DEF before
    <3> QED BY <1>2, <2>1, FS_Subset
  <2> HIDE DEF before
  <2> QED BY <1>2, <2>2
<1> HIDE DEF before
<1>5. ASSUME NEW k \in 1..n
      PROVE  \E i \in 1..n : Cardinality(before(i)) = k - 1
  <2> DEFINE rank == [i \in 1..n |-> Cardinality(before(i)) + 1]
  <2>1. rank \in [1..n -> 1..n]
    BY <1>3
  <2>2. \A i, j \in 1..n : rank[i] = rank[j] => i = j
    <3> TAKE i \in 1..n, j \in 1..n
    <3>1. Cardinality(before(i)) \in Nat /\ Cardinality(before(j)) \in Nat
      BY <1>2
    <3>2. rank[i] = rank[j] => Cardinality(before(i)) = Cardinality(before(j))
      BY <3>1
    <3>3. <<i, j>> \in R => Cardinality(before(i)) # Cardinality(before(j))
      BY <1>4, <3>1
    <3>4. <<j, i>> \in R => Cardinality(before(i)) # Cardinality(before(j))
      BY <1>4, <3>1
    <3> HIDE DEF rank
    <3> QED BY <3>2, <3>3, <3>4
  <2>3. rank \in Injection(1..n, 1..n)
    <3> HIDE DEF rank
    <3> QED BY <2>1, <2>2 DEF Injection, IsInjective
  <2>4. rank \in Surjection(1..n, 1..n)
    <3> HIDE DEF rank
    <3> QED BY <1>1, <2>3, FS_Injection
  <2>5. PICK i \in 1..n : rank[i] = k
    <3> HIDE DEF rank
    <3> QED BY <2>4 DEF Surjection
  <2>6. Cardinality(before(i)) + 1 = k /\ Cardinality(before(i)) \in Nat
    BY <1>2, <2>5
  <2> QED BY <2>6
<1> QED BY <1>3, <1>4, <1>5 DEF before

-----------------------------------------------------------------------------
(* Distances. *)

\* A bit is 0 or 1.
LEMMA BitsFacts ==
  ASSUME NEW k \in Table!Bitstrings, NEW i \in 1..Bits
  PROVE  Bits \in Nat /\ k[i] \in {0, 1}
BY TableAssumption DEF Table!SizesAssumption, Table!Bitstrings

\* Bit strings are equal when their bits are.
LEMMA SameBits ==
  ASSUME NEW k \in Table!Bitstrings, NEW l \in Table!Bitstrings,
         \A i \in 1..Bits : k[i] = l[i]
  PROVE  k = l
<1>1. k = [i \in 1..Bits |-> k[i]] /\ l = [i \in 1..Bits |-> l[i]]
  BY DEF Table!Bitstrings
<1>2. [i \in 1..Bits |-> k[i]] = [i \in 1..Bits |-> l[i]]
  OBVIOUS
<1> QED BY <1>1, <1>2

\* Two bit strings that differ do so in a first place.
LEMMA FirstDifference ==
  ASSUME NEW k \in Table!Bitstrings, NEW l \in Table!Bitstrings, k # l
  PROVE  \E i \in 1..Bits : k[i] # l[i] /\ \A j \in 1..(i - 1) : k[j] = l[j]
<1>0. Bits \in Nat
  BY TableAssumption DEF Table!SizesAssumption
<1> DEFINE T == {i \in 1..Bits : k[i] # l[i]}
<1>1. T \in SUBSET Nat /\ T # {}
  <2>1. \E i \in 1..Bits : k[i] # l[i]
    BY SameBits
  <2> QED BY <1>0, <2>1
<1>2. PICK i \in T : \A j \in T : i <= j
  <2> HIDE DEF T
  <2> QED BY <1>1, LeastNat
<1>3. \A j \in 1..(i - 1) : j \in 1..Bits /\ ~ i <= j
  BY <1>0
<1> QED BY <1>2, <1>3

\* Less is a strict total order of the bit strings.
LEMMA LessOrders ==
  ASSUME NEW k \in Table!Bitstrings, NEW l \in Table!Bitstrings,
         NEW m \in Table!Bitstrings
  PROVE  /\ ~ Table!Less(k, k)
         /\ Table!Less(k, l) /\ Table!Less(l, m) => Table!Less(k, m)
         /\ k = l \/ Table!Less(k, l) \/ Table!Less(l, k)
<1>0. Bits \in Nat
  BY TableAssumption DEF Table!SizesAssumption
<1>1. ~ Table!Less(k, k)
  BY BitsFacts DEF Table!Less
<1>2. ASSUME Table!Less(k, l), Table!Less(l, m)
      PROVE  Table!Less(k, m)
  <2>1. PICK a \in 1..Bits : k[a] < l[a] /\ \A j \in 1..(a - 1) : k[j] = l[j]
    BY <1>2 DEF Table!Less
  <2>2. PICK b \in 1..Bits : l[b] < m[b] /\ \A j \in 1..(b - 1) : l[j] = m[j]
    BY <1>2 DEF Table!Less
  <2>3. CASE a < b
    <3>1. a \in 1..(b - 1) /\ \A j \in 1..(a - 1) : j \in 1..(b - 1)
      BY <1>0, <2>3
    <3>2. k[a] < m[a] /\ \A j \in 1..(a - 1) : k[j] = m[j]
      BY <2>1, <2>2, <3>1
    <3> QED BY <3>2 DEF Table!Less
  <2>4. CASE a = b
    <3>1. k[a] \in {0, 1} /\ l[a] \in {0, 1} /\ m[a] \in {0, 1}
      BY BitsFacts
    <3>2. k[a] < m[a] /\ \A j \in 1..(a - 1) : k[j] = m[j]
      BY <2>1, <2>2, <2>4, <3>1
    <3> QED BY <3>2 DEF Table!Less
  <2>5. CASE b < a
    <3>1. b \in 1..(a - 1) /\ \A j \in 1..(b - 1) : j \in 1..(a - 1)
      BY <1>0, <2>5
    <3>2. k[b] < m[b] /\ \A j \in 1..(b - 1) : k[j] = m[j]
      BY <2>1, <2>2, <3>1
    <3> QED BY <3>2 DEF Table!Less
  <2> QED BY <1>0, <2>3, <2>4, <2>5
<1>3. k = l \/ Table!Less(k, l) \/ Table!Less(l, k)
  <2> SUFFICES ASSUME k # l PROVE Table!Less(k, l) \/ Table!Less(l, k)
    OBVIOUS
  <2>1. PICK i \in 1..Bits : k[i] # l[i] /\ \A j \in 1..(i - 1) : k[j] = l[j]
    BY FirstDifference
  <2>2. k[i] \in {0, 1} /\ l[i] \in {0, 1}
    BY BitsFacts
  <2>3. k[i] < l[i] \/ l[i] < k[i]
    BY <2>1, <2>2
  <2> QED BY <2>1, <2>3 DEF Table!Less
<1> QED BY <1>1, <1>2, <1>3

\* Different keys have different distances to one target.
LEMMA Distances ==
  ASSUME NEW t \in Table!Bitstrings, NEW k \in Table!Bitstrings,
         NEW l \in Table!Bitstrings
  PROVE  /\ Table!XOR(t, k) \in Table!Bitstrings
         /\ Table!XOR(t, k) = Table!XOR(t, l) => k = l
<1>1. Table!XOR(t, k) \in Table!Bitstrings
  BY DEF Table!XOR, Table!Bitstrings
<1>2. ASSUME Table!XOR(t, k) = Table!XOR(t, l), NEW i \in 1..Bits
      PROVE  k[i] = l[i]
  <2>1. Table!XOR(t, k)[i] = Table!XOR(t, l)[i]
    BY <1>2
  <2>2. (IF t[i] = k[i] THEN 0 ELSE 1) = (IF t[i] = l[i] THEN 0 ELSE 1)
    BY <2>1 DEF Table!XOR
  <2>3. t[i] \in {0, 1} /\ k[i] \in {0, 1} /\ l[i] \in {0, 1}
    BY BitsFacts
  <2> QED BY <2>2, <2>3
<1> QED BY <1>1, <1>2, SameBits
-----------------------------------------------------------------------------
(* The contacts of a table, bucket by bucket. *)

\* Some number is the greatest of those up to b.
LEMMA GreatestNat ==
  ASSUME NEW b \in Nat, NEW T \in SUBSET (0..b), T # {}
  PROVE  \E x \in T : \A y \in T : x >= y
<1> DEFINE D == {b - x : x \in T}
<1>1. D \in SUBSET Nat /\ D # {}
  <2>1. \A x \in T : b - x \in Nat
    OBVIOUS
  <2> QED BY <2>1
<1>2. PICK d \in D : \A e \in D : d <= e
  <2> HIDE DEF D
  <2> QED BY <1>1, LeastNat
<1>3. PICK x \in T : d = b - x
  BY <1>2
<1>4. ASSUME NEW y \in T PROVE x >= y
  <2>1. b - y \in D
    OBVIOUS
  <2>2. d <= b - y
    BY <1>2, <2>1
  <2> QED BY <1>3, <2>2
<1> QED BY <1>4

Indexes == [i \in 1..Table!MaxBuckets |-> i]

\* How FoldLeft joins the buckets, set of indexes by set of indexes.
Joined(t, sets, g) ==
  g = [s \in sets |-> IF s = {} THEN << >>
                      ELSE LET x == Table!Max(s)
                           IN  g[s \ {x}] \o buckets[t][Indexes[x] - 1]]

\* The fold takes the greatest index off a set.
LEMMA LastIndex ==
  ASSUME NEW s \in SUBSET DOMAIN Indexes, s # {}
  PROVE  Table!Max(s) \in s /\ \A y \in s : Table!Max(s) >= y
<1>1. Bits \in Nat /\ DOMAIN Indexes = 1..Bits
  BY TableAssumption DEF Table!SizesAssumption, Indexes, Table!MaxBuckets
<1>2. s \in SUBSET (0..Bits)
  BY <1>1
<1>3. \E x \in s : \A y \in s : x >= y
  BY <1>1, <1>2, GreatestNat
<1> QED BY <1>3 DEF Table!Max

\* A function that joins them exists: otherwise there is a least size of sets
\* of indexes without one.
LEMMA JoinedExists ==
  ASSUME NEW t
  PROVE  \E g : Joined(t, SUBSET DOMAIN Indexes, g)
<1> DEFINE Upto(m) == {s \in SUBSET DOMAIN Indexes : Cardinality(s) <= m}
           bad == {m \in Nat : ~ \E g : Joined(t, Upto(m), g)}
           pick(s) == Table!Max(s)
           part(s) == buckets[t][Indexes[pick(s)] - 1]
<1>0. IsFiniteSet(DOMAIN Indexes)
  <2>1. Bits \in Nat /\ DOMAIN Indexes = 1..Bits
    BY TableAssumption DEF Table!SizesAssumption, Indexes, Table!MaxBuckets
  <2> QED BY <2>1, FS_Interval
<1>1. \A s \in SUBSET DOMAIN Indexes : IsFiniteSet(s) /\ Cardinality(s) \in Nat
  BY <1>0, FS_Subset, FS_CardinalityType
<1>2. \A s \in SUBSET DOMAIN Indexes :
        s # {} => /\ pick(s) \in s
                  /\ Cardinality(s \ {pick(s)}) = Cardinality(s) - 1
  BY <1>1, LastIndex, FS_RemoveElement
<1>3. \A s \in SUBSET DOMAIN Indexes : Cardinality(s) = 0 => s = {}
  BY <1>1, FS_EmptySet
<1>4. bad = {}
  <2> SUFFICES ASSUME bad # {} PROVE FALSE
    OBVIOUS
  <2>1. PICK m \in bad : \A l \in bad : m <= l
    <3>1. bad \in SUBSET Nat
      OBVIOUS
    <3> HIDE DEF bad
    <3> QED BY <3>1, LeastNat
  <2>2. \E g : \A s \in Upto(m) :
          s # {} => s \ {pick(s)} \in DOMAIN g
                    /\ \A h : h = [r \in Upto(m) |-> IF r = {} THEN << >>
                                    ELSE g[r \ {pick(r)}] \o part(r)]
                              => h[s \ {pick(s)}] = g[s \ {pick(s)}]
    <3>1. CASE m = 0
      <4>1. \A s \in Upto(m) : s = {}
        BY <1>1, <1>3, <3>1
      <4> QED BY <4>1
    <3>2. CASE m # 0
      <4>1. m \in Nat /\ m - 1 \in Nat
        BY <3>2
      <4>2. PICK g : Joined(t, Upto(m - 1), g)
        <5>1. m - 1 \notin bad
          <6> HIDE DEF bad
          <6> QED BY <2>1, <4>1
        <5> HIDE DEF Upto
        <5> QED BY <4>1, <5>1
      <4>3. \A s \in Upto(m) : s # {} => s \ {pick(s)} \in Upto(m - 1)
        BY <1>1, <1>2, <4>1
      <4>4. Upto(m - 1) \subseteq Upto(m)
        BY <1>1, <4>1
      <4> HIDE DEF Upto
      <4>5. DOMAIN g = Upto(m - 1)
        BY <4>2 DEF Joined
      <4>6. \A r \in Upto(m - 1) :
              g[r] = IF r = {} THEN << >> ELSE g[r \ {pick(r)}] \o part(r)
        BY <4>2 DEF Joined
      <4> HIDE DEF pick, part
      <4>7. ASSUME NEW s \in Upto(m), s # {},
                   NEW h, h = [r \in Upto(m) |-> IF r = {} THEN << >>
                                 ELSE g[r \ {pick(r)}] \o part(r)]
            PROVE  h[s \ {pick(s)}] = g[s \ {pick(s)}]
        <5> DEFINE q == s \ {pick(s)}
        <5>1. q \in Upto(m - 1) /\ q \in Upto(m)
          BY <4>3, <4>4, <4>7
        <5> HIDE DEF q
        <5>2. h[q] = IF q = {} THEN << >> ELSE g[q \ {pick(q)}] \o part(q)
          BY <4>7, <5>1
        <5>3. h[q] = g[q]
          BY <4>6, <5>1, <5>2
        <5> QED BY <5>3 DEF q
      <4> QED BY <4>3, <4>5, <4>7
    <3> QED BY <3>1, <3>2
  <2>3. PICK g : \A s \in Upto(m) :
          s # {} => s \ {pick(s)} \in DOMAIN g
                    /\ \A h : h = [r \in Upto(m) |-> IF r = {} THEN << >>
                                    ELSE g[r \ {pick(r)}] \o part(r)]
                              => h[s \ {pick(s)}] = g[s \ {pick(s)}]
    BY <2>2
  <2> DEFINE h == [r \in Upto(m) |-> IF r = {} THEN << >> ELSE g[r \ {pick(r)}] \o part(r)]
  <2>4. \A s \in Upto(m) : s # {} => h[s \ {pick(s)}] = g[s \ {pick(s)}]
    <3> HIDE DEF Upto, pick, part
    <3> QED BY <2>3
  <2>5. h = [r \in Upto(m) |-> IF r = {} THEN << >> ELSE h[r \ {pick(r)}] \o part(r)]
    <3> HIDE DEF Upto, pick, part
    <3> QED BY <2>4
  <2>6. Joined(t, Upto(m), h)
    <3> HIDE DEF Upto, h
    <3> QED BY <2>5 DEF Joined
  <2> HIDE DEF h, Upto
  <2> QED BY <2>1, <2>6
<1>5. Upto(Cardinality(DOMAIN Indexes)) = SUBSET DOMAIN Indexes /\ Cardinality(DOMAIN Indexes) \in Nat
  <2>1. \A s \in SUBSET DOMAIN Indexes : Cardinality(s) <= Cardinality(DOMAIN Indexes)
    BY <1>0, FS_Subset
  <2> QED BY <1>1, <2>1
<1>6. Cardinality(DOMAIN Indexes) \notin bad
  BY <1>4
<1> HIDE DEF Upto
<1> QED BY <1>5, <1>6

\* AllContacts is what it gives for all the indexes.
LEMMA AllContactsJoined ==
  ASSUME NEW t
  PROVE  \E g : /\ Joined(t, SUBSET DOMAIN Indexes, g)
               /\ Table!AllContacts(t) = g[DOMAIN Indexes]
<1> DEFINE g == CHOOSE g : Joined(t, SUBSET DOMAIN Indexes, g)
<1>1. Joined(t, SUBSET DOMAIN Indexes, g)
  BY JoinedExists
<1>2. Table!AllContacts(t) = g[DOMAIN Indexes]
  BY DEF Table!AllContacts, Table!FoldLeft, Table!MapThenFoldSet, Joined, Indexes
<1> QED BY <1>1, <1>2

\* It lists the contacts in the table, and no key twice.
LEMMA AllContactsFacts ==
  ASSUME WellPlaced, NEW t \in Tables
  PROVE  LET all == Table!AllContacts(t)
         IN  /\ all \in Seq(Contacts)
             /\ Table!ToSet(all) = Table!InTable(t)
             /\ \A x, y \in DOMAIN all : IdOf[all[x]] = IdOf[all[y]] => x = y
<1>0. Bits \in Nat \ {0} /\ Table!BucketIndexes = 0..(Bits - 1) /\ DOMAIN Indexes = 1..Bits
  BY TableAssumption
     DEF Table!SizesAssumption, Table!BucketIndexes, Table!MaxBuckets, Indexes
<1>1. PICK g : /\ Joined(t, SUBSET DOMAIN Indexes, g)
               /\ Table!AllContacts(t) = g[DOMAIN Indexes]
  BY AllContactsJoined
<1> DEFINE b(i) == buckets[t][i]
<1>2. ASSUME NEW i \in 0..(Bits - 1)
      PROVE  /\ b(i) \in Seq(Contacts) /\ Len(b(i)) \in Nat /\ DOMAIN b(i) = 1..Len(b(i))
             /\ \A x \in DOMAIN b(i) : b(i)[x] \in Contacts
             /\ \A x, y \in DOMAIN b(i) : IdOf[b(i)[x]] = IdOf[b(i)[y]] => x = y
  BY <1>0, BucketFacts
<1>3. \A i, j \in 0..(Bits - 1) : \A x \in DOMAIN b(i), y \in DOMAIN b(j) :
        IdOf[b(i)[x]] = IdOf[b(j)[y]] => i = j
  BY <1>0 DEF WellPlaced, Table!WellPlaced
<1>4. g[{}] = << >>
  BY <1>1 DEF Joined
<1>5. ASSUME NEW m \in 0..(Bits - 1)
      PROVE  g[1..(m + 1)] = g[1..m] \o b(m)
  <2> DEFINE s == 1..(m + 1)
  <2>1. s \in SUBSET DOMAIN Indexes /\ s # {} /\ m + 1 \in s
    <3>1. m \in Nat /\ m + 1 <= Bits /\ Bits \in Nat
      BY <1>0
    <3>2. s \subseteq 1..Bits /\ m + 1 \in s
      BY <3>1
    <3> QED BY <1>0, <3>2
  <2>2. Table!Max(s) = m + 1
    <3>1. Table!Max(s) \in s /\ \A y \in s : Table!Max(s) >= y
      <4> HIDE DEF s
      <4> QED BY <2>1, LastIndex
    <3>2. Table!Max(s) >= m + 1
      BY <2>1, <3>1
    <3> QED BY <3>1, <3>2
  <2>3. s \ {m + 1} = 1..m /\ Indexes[m + 1] - 1 = m
    BY <1>0 DEF Indexes, Table!MaxBuckets
  <2> HIDE DEF s
  <2>4. g[s] = g[s \ {Table!Max(s)}] \o buckets[t][Indexes[Table!Max(s)] - 1]
    BY <1>1, <2>1 DEF Joined
  <2> QED BY <2>2, <2>3, <2>4 DEF s
<1> HIDE DEF b
<1> DEFINE Good(m) ==
      /\ g[1..m] \in Seq(Contacts)
      /\ \A x \in DOMAIN g[1..m] :
           \E i \in 0..(m - 1) : \E y \in DOMAIN b(i) : g[1..m][x] = b(i)[y]
      /\ \A i \in 0..(m - 1) : \A y \in DOMAIN b(i) :
           \E x \in DOMAIN g[1..m] : g[1..m][x] = b(i)[y]
      /\ \A x, y \in DOMAIN g[1..m] : IdOf[g[1..m][x]] = IdOf[g[1..m][y]] => x = y
<1>6. Good(0)
  <2>1. 1..0 = {} /\ 0..(0 - 1) = {}
    OBVIOUS
  <2>2. g[1..0] = << >>
    BY <1>4, <2>1
  <2> QED BY <2>1, <2>2
<1>7. ASSUME NEW m \in 0..(Bits - 1), Good(m)
      PROVE  Good(m + 1)
  <2> DEFINE a == g[1..m]
             c == b(m)
             e == g[1..(m + 1)]
             k == Len(a)
  <2>1. /\ a \in Seq(Contacts) /\ DOMAIN a = 1..k /\ k \in Nat
        /\ c \in Seq(Contacts) /\ DOMAIN c = 1..Len(c) /\ Len(c) \in Nat
        /\ e = a \o c
    BY <1>2, <1>5, <1>7
  <2>2. /\ \A x \in DOMAIN a : \E i \in 0..(m - 1) : \E y \in DOMAIN b(i) : a[x] = b(i)[y]
        /\ \A i \in 0..(m - 1) : \A y \in DOMAIN b(i) : \E x \in DOMAIN a : a[x] = b(i)[y]
        /\ \A x, y \in DOMAIN a : IdOf[a[x]] = IdOf[a[y]] => x = y
    BY <1>7
  <2> HIDE DEF a, c, e, k
  <2>3. /\ e \in Seq(Contacts) /\ Len(e) = k + Len(c)
        /\ \A x \in 1..k : x \in DOMAIN e /\ e[x] = a[x]
        /\ \A y \in 1..Len(c) : k + y \in DOMAIN e /\ e[k + y] = c[y]
        /\ \A x \in DOMAIN e : \/ x \in 1..k
                               \/ x - k \in 1..Len(c) /\ k + (x - k) = x
    BY <2>1 DEF k
  <2>4. 0..((m + 1) - 1) = 0..m /\ m \in 0..m /\ \A i \in 0..m : i = m \/ i \in 0..(m - 1)
    OBVIOUS
  <2>5. 0..(m - 1) \subseteq 0..m /\ 0..m \subseteq 0..(Bits - 1)
    BY <1>0
  <2>6. ASSUME NEW x \in DOMAIN e
        PROVE  \E i \in 0..m : \E y \in DOMAIN b(i) : e[x] = b(i)[y]
    <3>1. CASE x \in 1..k
      BY <2>1, <2>2, <2>3, <2>5, <3>1
    <3>2. CASE x - k \in 1..Len(c) /\ k + (x - k) = x
      <4>1. e[x] = c[x - k] /\ x - k \in DOMAIN c
        BY <2>1, <2>3, <3>2
      <4> QED BY <2>4, <4>1 DEF c
    <3> QED BY <2>3, <3>1, <3>2
  <2>7. ASSUME NEW i \in 0..m, NEW y \in DOMAIN b(i)
        PROVE  \E x \in DOMAIN e : e[x] = b(i)[y]
    <3>1. CASE i = m
      <4>1. y \in 1..Len(c) /\ b(i)[y] = c[y]
        BY <2>1, <3>1 DEF c
      <4> QED BY <2>3, <4>1
    <3>2. CASE i \in 0..(m - 1)
      <4>1. PICK x \in DOMAIN a : a[x] = b(i)[y]
        BY <2>2, <3>2
      <4> QED BY <2>1, <2>3, <4>1
    <3> QED BY <2>4, <3>1, <3>2
  <2>8. ASSUME NEW x \in 1..k, NEW y \in 1..Len(c)
        PROVE  IdOf[a[x]] # IdOf[c[y]]
    <3>1. PICK i \in 0..(m - 1) : \E z \in DOMAIN b(i) : a[x] = b(i)[z]
      BY <2>1, <2>2
    <3>2. PICK z \in DOMAIN b(i) : a[x] = b(i)[z]
      BY <3>1
    <3>3. i # m
      OBVIOUS
    <3>4. i \in 0..(Bits - 1)
      BY <2>5
    <3> QED BY <1>3, <2>1, <3>2, <3>3, <3>4 DEF c
  <2>9. ASSUME NEW x \in DOMAIN e, NEW y \in DOMAIN e, IdOf[e[x]] = IdOf[e[y]]
        PROVE  x = y
    <3>1. CASE x \in 1..k /\ y \in 1..k
      <4>1. e[x] = a[x] /\ e[y] = a[y] /\ x \in DOMAIN a /\ y \in DOMAIN a
        BY <2>1, <2>3, <3>1
      <4>2. IdOf[a[x]] = IdOf[a[y]]
        BY <2>9, <4>1
      <4> QED BY <2>2, <4>1, <4>2
    <3>2. ASSUME NEW p \in DOMAIN e, NEW q \in DOMAIN e, p \in 1..k, q - k \in 1..Len(c),
                 k + (q - k) = q
          PROVE  IdOf[e[p]] # IdOf[e[q]]
      <4>1. e[p] = a[p] /\ e[q] = c[q - k]
        BY <2>3, <3>2
      <4> QED BY <2>8, <3>2, <4>1
    <3>3. CASE x \notin 1..k /\ y \notin 1..k
      <4>1. /\ x - k \in DOMAIN c /\ k + (x - k) = x /\ e[x] = c[x - k]
            /\ y - k \in DOMAIN c /\ k + (y - k) = y /\ e[y] = c[y - k]
        BY <2>1, <2>3, <3>3
      <4>2. x - k = y - k
        BY <1>2, <2>9, <4>1 DEF c
      <4> QED BY <4>1, <4>2
    <3> QED BY <2>3, <2>9, <3>1, <3>2, <3>3
  <2> QED BY <2>3, <2>4, <2>6, <2>7, <2>9 DEF e
<1>8. \A m \in 0..Bits : Good(m)
  <2> DEFINE bad == {m \in 0..Bits : ~ Good(m)}
  <2> SUFFICES ASSUME bad # {} PROVE FALSE
    OBVIOUS
  <2>1. PICK m \in bad : \A l \in bad : m <= l
    <3>1. bad \in SUBSET Nat
      BY <1>0
    <3> HIDE DEF bad
    <3> QED BY <3>1, LeastNat
  <2>2. m \in 0..Bits /\ ~ Good(m)
    OBVIOUS
  <2>3. m # 0
    <3> HIDE DEF Good
    <3> QED BY <1>6, <2>2
  <2>4. m - 1 \in 0..(Bits - 1) /\ m - 1 \in 0..Bits /\ (m - 1) + 1 = m /\ ~ m <= m - 1
    BY <1>0, <2>2, <2>3
  <2>5. Good(m - 1)
    <3> HIDE DEF Good
    <3> QED BY <2>1, <2>4
  <2> HIDE DEF Good, bad
  <2>6. Good((m - 1) + 1)
    BY <1>7, <2>4, <2>5
  <2> QED BY <2>2, <2>4, <2>6
<1>9. Good(Bits)
  <2> HIDE DEF Good
  <2> QED BY <1>0, <1>8
<1> DEFINE all == Table!AllContacts(t)
<1>10. all = g[1..Bits]
  BY <1>0, <1>1
<1>11. /\ all \in Seq(Contacts)
       /\ \A x \in DOMAIN all : \E i \in 0..(Bits - 1) : \E y \in DOMAIN b(i) : all[x] = b(i)[y]
       /\ \A i \in 0..(Bits - 1) : \A y \in DOMAIN b(i) : \E x \in DOMAIN all : all[x] = b(i)[y]
       /\ \A x, y \in DOMAIN all : IdOf[all[x]] = IdOf[all[y]] => x = y
  <2> HIDE DEF all
  <2> QED BY <1>9, <1>10
<1> HIDE DEF all, Good
<1>12. Table!ToSet(all) = Table!InTable(t)
  <2>1. \A i \in 0..(Bits - 1) : \A y \in DOMAIN b(i) : b(i)[y] \in Contacts
    BY <1>2 DEF b
  <2> QED BY <1>0, <1>11, <2>1 DEF Table!ToSet, Table!InTable, b
<1> QED BY <1>11, <1>12 DEF all

\* A sequence of contacts with different keys, sorted: the same contacts, each
\* nearer to the target than the next.
LEMMA SortedFacts ==
  ASSUME NEW s \in Seq(Contacts), NEW target \in Table!Bitstrings,
         \A x, y \in DOMAIN s : IdOf[s[x]] = IdOf[s[y]] => x = y
  PROVE  LET z == Table!Sorted(s, target)
             d(i) == Table!XOR(target, IdOf[z[i]])
         IN  /\ z \in Seq(Contacts) /\ Len(z) = Len(s)
             /\ Table!ToSet(z) = Table!ToSet(s)
             /\ \A i, j \in DOMAIN z : i < j => Table!Less(d(i), d(j))
<1> DEFINE n == Len(s)
           dist(i) == Table!XOR(target, IdOf[s[i]])
           Before(j, i) == \/ Table!Less(dist(j), dist(i))
                           \/ dist(j) = dist(i) /\ j < i
           R == {r \in (1..n) \X (1..n) : Before(r[1], r[2])}
           before(i) == {j \in DOMAIN s : \/ Table!Less(dist(j), dist(i))
                                          \/ dist(j) = dist(i) /\ j < i}
           rank(i) == Cardinality(before(i))
           pick(k) == CHOOSE i \in DOMAIN s : rank(i) = k - 1
           z == [k \in DOMAIN s |-> s[pick(k)]]
<1>0. Table!Sorted(s, target) = z
  BY DEF Table!Sorted, Table!Cardinality, Cardinality
<1>1. /\ n \in Nat /\ DOMAIN s = 1..n
      /\ \A i \in 1..n : s[i] \in Contacts /\ IdOf[s[i]] \in Table!Bitstrings
  BY TableAssumption DEF Table!IdsAssumption
<1>2. \A i, j \in 1..n : /\ dist(i) \in Table!Bitstrings
                         /\ dist(i) = dist(j) => i = j
  BY <1>1, Distances
<1> HIDE DEF n, dist
<1>3. \A i, j \in 1..n : <<i, j>> \in R <=> Before(i, j)
  OBVIOUS
<1>4. \A i \in 1..n : ~ Before(i, i)
  BY <1>1, <1>2, LessOrders
<1>5. \A i, j, k \in 1..n : Before(i, j) /\ Before(j, k) => Before(i, k)
  <2> TAKE i, j, k \in 1..n
  <2> HAVE Before(i, j) /\ Before(j, k)
  <2>1. dist(i) \in Table!Bitstrings /\ dist(j) \in Table!Bitstrings /\ dist(k) \in Table!Bitstrings
    BY <1>2
  <2>2. i \in Nat /\ j \in Nat /\ k \in Nat
    BY <1>1
  <2>3. Table!Less(dist(i), dist(j)) /\ Table!Less(dist(j), dist(k)) => Table!Less(dist(i), dist(k))
    BY <2>1, LessOrders
  <2> QED BY <2>2, <2>3
<1>6. \A i, j \in 1..n : i = j \/ Before(i, j) \/ Before(j, i)
  <2> TAKE i, j \in 1..n
  <2>1. dist(i) \in Table!Bitstrings /\ dist(j) \in Table!Bitstrings
    BY <1>2
  <2>2. dist(i) = dist(j) \/ Table!Less(dist(i), dist(j)) \/ Table!Less(dist(j), dist(i))
    BY <2>1, LessOrders
  <2> QED BY <1>2, <2>2
<1> HIDE DEF Before, R
<1>7. /\ \A i \in 1..n : rank(i) \in 0..(n - 1)
      /\ \A i, j \in 1..n : Before(i, j) => rank(i) < rank(j)
      /\ \A k \in 1..n : \E i \in 1..n : rank(i) = k - 1
  <2>1. /\ \A i \in 1..n : <<i, i>> \notin R
        /\ \A i, j, k \in 1..n : <<i, j>> \in R /\ <<j, k>> \in R => <<i, k>> \in R
        /\ \A i, j \in 1..n : i = j \/ <<i, j>> \in R \/ <<j, i>> \in R
    BY <1>3, <1>4, <1>5, <1>6
  <2> DEFINE below(i) == {j \in 1..n : <<j, i>> \in R}
  <2>2. /\ \A i \in 1..n : Cardinality(below(i)) \in 0..(n - 1)
        /\ \A i, j \in 1..n :
             <<i, j>> \in R => Cardinality(below(i)) < Cardinality(below(j))
        /\ \A k \in 1..n : \E i \in 1..n : Cardinality(below(i)) = k - 1
    BY <1>1, <2>1, Places
  <2>3. \A i \in 1..n : below(i) = before(i)
    BY <1>1, <1>3 DEF Before
  <2> HIDE DEF below, before
  <2>4. \A i \in 1..n : Cardinality(below(i)) = rank(i)
    BY <2>3
  <2> HIDE DEF rank
  <2> QED BY <1>3, <2>2, <2>4
<1> HIDE DEF before, rank
<1>9. \A k \in 1..n : pick(k) \in 1..n /\ rank(pick(k)) = k - 1
  BY <1>1, <1>7
<1>10. \A i \in 1..n : \E k \in 1..n : pick(k) = i
  <2> TAKE i \in 1..n
  <2>1. rank(i) + 1 \in 1..n /\ (rank(i) + 1) - 1 = rank(i)
    <3>1. rank(i) \in 0..(n - 1)
      BY <1>7
    <3>2. \A r \in 0..(n - 1) : r + 1 \in 1..n /\ (r + 1) - 1 = r
      BY <1>1
    <3> QED BY <3>1, <3>2
  <2>2. pick(rank(i) + 1) \in 1..n /\ rank(pick(rank(i) + 1)) = rank(i)
    BY <1>9, <2>1
  <2> HIDE DEF pick
  <2>3. pick(rank(i) + 1) = i
    <3> DEFINE p == pick(rank(i) + 1)
    <3>1. p \in 1..n /\ rank(p) = rank(i) /\ rank(i) \in Int
      BY <1>1, <1>7, <2>2
    <3> HIDE DEF p
    <3>2. /\ Before(i, p) => rank(i) < rank(p)
          /\ Before(p, i) => rank(p) < rank(i)
      BY <1>7, <3>1
    <3>3. ~ Before(i, p) /\ ~ Before(p, i)
      BY <3>1, <3>2
    <3> QED BY <1>6, <3>1, <3>3 DEF p
  <2> QED BY <2>1, <2>3
<1> HIDE DEF pick
<1>11. z \in Seq(Contacts) /\ Len(z) = n /\ DOMAIN z = 1..n
  BY <1>1, <1>9
<1>12. Table!ToSet(z) = Table!ToSet(s)
  <2>1. \A k \in 1..n : \E i \in 1..n : z[k] = s[i]
    BY <1>1, <1>9
  <2>2. \A i \in 1..n : \E k \in 1..n : z[k] = s[i]
    BY <1>1, <1>10
  <2> HIDE DEF z
  <2>3. ASSUME NEW k \in DOMAIN z PROVE z[k] \in Table!ToSet(s)
    <3>1. PICK i \in DOMAIN s : z[k] = s[i]
      BY <1>1, <1>11, <2>1
    <3> QED BY <3>1 DEF Table!ToSet
  <2>4. ASSUME NEW i \in DOMAIN s PROVE s[i] \in Table!ToSet(z)
    <3>1. PICK k \in DOMAIN z : z[k] = s[i]
      BY <1>1, <1>11, <2>2
    <3> QED BY <3>1 DEF Table!ToSet
  <2> QED BY <2>3, <2>4 DEF Table!ToSet
<1>13. ASSUME NEW i \in 1..n, NEW j \in 1..n, i < j
       PROVE  Table!Less(Table!XOR(target, IdOf[z[i]]), Table!XOR(target, IdOf[z[j]]))
  <2> DEFINE p == pick(i)
             q == pick(j)
  <2>1. p \in 1..n /\ q \in 1..n /\ rank(p) = i - 1 /\ rank(q) = j - 1
    BY <1>9
  <2>2. p # q /\ ~ Before(q, p)
    <3>1. i - 1 < j - 1 /\ ~ j - 1 < i - 1 /\ i - 1 # j - 1
      BY <1>1, <1>13
    <3>2. Before(q, p) => rank(q) < rank(p)
      BY <1>7, <2>1
    <3> HIDE DEF p, q, rank, Before
    <3> QED BY <2>1, <3>1, <3>2
  <2>3. Before(p, q) /\ dist(p) # dist(q)
    BY <1>2, <1>6, <2>1, <2>2
  <2>4. Table!Less(dist(p), dist(q)) /\ z[i] = s[p] /\ z[j] = s[q]
    BY <1>1, <2>3 DEF Before
  <2> QED BY <2>4 DEF dist
<1> HIDE DEF z
<1> QED BY <1>0, <1>11, <1>12, <1>13 DEF n

\* A table has as many contacts as its buckets list.
LEMMA AllContactsCount ==
  ASSUME WellPlaced, NEW t \in Tables
  PROVE  Len(Table!AllContacts(t)) = Table!Cardinality(Table!InTable(t))
<1> DEFINE all == Table!AllContacts(t)
           n == Len(all)
           f == [x \in 1..n |-> all[x]]
<1>1. /\ all \in Seq(Contacts) /\ Table!ToSet(all) = Table!InTable(t)
      /\ \A x, y \in DOMAIN all : IdOf[all[x]] = IdOf[all[y]] => x = y
  BY AllContactsFacts
<1> HIDE DEF all
<1>2. n \in Nat /\ DOMAIN all = 1..n
  BY <1>1
<1> HIDE DEF n
<1>3. IsFiniteSet(1..n) /\ Cardinality(1..n) = n
  <2>1. /\ IsFiniteSet(1..n)
        /\ Cardinality(1..n) = IF 1 > n THEN 0 ELSE n - 1 + 1
    BY <1>2, FS_Interval
  <2> QED BY <1>2, <2>1
<1>4. f \in Surjection(1..n, Table!InTable(t))
  <2>1. \A x \in 1..n : all[x] \in Table!InTable(t)
    BY <1>1, <1>2 DEF Table!ToSet
  <2>2. \A c \in Table!InTable(t) : \E x \in 1..n : all[x] = c
    BY <1>1, <1>2 DEF Table!ToSet
  <2> QED BY <2>1, <2>2 DEF Surjection
<1>5. f \in Injection(1..n, Table!InTable(t))
  <2>1. f \in [1..n -> Table!InTable(t)]
    BY <1>4 DEF Surjection
  <2>2. \A x, y \in 1..n : f[x] = f[y] => x = y
    BY <1>1, <1>2
  <2> HIDE DEF f
  <2> QED BY <2>1, <2>2 DEF Injection, IsInjective
<1>6. Cardinality(Table!InTable(t)) = n
  <2> HIDE DEF f
  <2> QED BY <1>3, <1>4, <1>5, FS_Surjection
<1>7. Table!Cardinality(Table!InTable(t)) = Cardinality(Table!InTable(t))
  BY DEF Table!Cardinality, Cardinality
<1> QED BY <1>6, <1>7 DEF n, all

\* Where a contact of a table is, and what its bucket says of its key.
LEMMA ContactFacts ==
  ASSUME WellPlaced, NEW t \in Tables, NEW c \in Table!InTable(t)
  PROVE  /\ c \in Contacts /\ IdOf[c] \in Table!Bitstrings
         /\ Table!LeadingZeros(Table!XOR(SelfId[t], IdOf[c])) \in Table!BucketIndexes
         /\ \A i \in Table!BucketIndexes :
              c \in Table!ToSet(buckets[t][i])
                <=> i = Table!LeadingZeros(Table!XOR(SelfId[t], IdOf[c]))
<1>1. c \in Contacts /\ IdOf[c] \in Table!Bitstrings
  BY TableAssumption DEF Table!InTable, Table!IdsAssumption
<1>2. ASSUME NEW i \in Table!BucketIndexes, c \in Table!ToSet(buckets[t][i])
      PROVE  i = Table!LeadingZeros(Table!XOR(SelfId[t], IdOf[c]))
  <2>1. PICK x \in DOMAIN buckets[t][i] : c = buckets[t][i][x]
    BY <1>2 DEF Table!ToSet
  <2> QED BY <2>1, BucketFacts
<1>3. PICK i \in Table!BucketIndexes : c \in Table!ToSet(buckets[t][i])
  BY DEF Table!InTable
<1> QED BY <1>1, <1>2, <1>3

\* A contact nearer to a key than one of the key's own bucket shares at least as
\* long a prefix with the key, and so is in that bucket too.
LEMMA NearerInBucket ==
  ASSUME WellPlaced, NEW t \in Tables, NEW target \in Table!Bitstrings,
         target # SelfId[t],
         NEW c \in Table!InTable(t), NEW d \in Table!InTable(t),
         c \in Table!ToSet(Table!Bucket(t, target)),
         Table!Less(Table!XOR(target, IdOf[d]), Table!XOR(target, IdOf[c]))
  PROVE  d \in Table!ToSet(Table!Bucket(t, target))
<1> DEFINE n == Table!BucketIndex(t, target)
           S == SelfId[t]
           C == IdOf[c]
           D == IdOf[d]
<1>1. /\ Bits \in Nat \ {0} /\ Table!BucketIndexes = 0..(Bits - 1)
      /\ S \in Table!Bitstrings
  BY TableAssumption
     DEF Table!SizesAssumption, Table!IdsAssumption, Table!BucketIndexes, Table!MaxBuckets
<1>2. C \in Table!Bitstrings /\ D \in Table!Bitstrings
  BY ContactFacts
<1>3. n \in 0..(Bits - 1) /\ n = Table!LeadingZeros(Table!XOR(S, target))
  BY <1>1, IndexOfKey
<1>4. n = Table!LeadingZeros(Table!XOR(S, C))
  BY <1>1, <1>3, ContactFacts DEF Table!Bucket
<1> HIDE DEF n, S, C, D
\* What it takes for a key to share n bits with the table's.
<1>5. ASSUME NEW k \in Table!Bitstrings
      PROVE  Table!LeadingZeros(Table!XOR(S, k)) = n
               <=> /\ \A i \in 1..n : k[i] = S[i]
                   /\ k[n + 1] # S[n + 1]
  <2> DEFINE x == Table!XOR(S, k)
             m == Table!LeadingZeros(x)
  <2>1. x \in Table!Bitstrings /\ \A i \in 1..Bits : x[i] = IF S[i] = k[i] THEN 0 ELSE 1
    BY <1>1 DEF Table!XOR, Table!Bitstrings
  <2> HIDE DEF x
  <2>2. /\ m \in 0..Bits /\ \A i \in 1..m : x[i] = 0
        /\ m < Bits => x[m + 1] = 1
    BY <2>1, PrefixLength
  <2> HIDE DEF m
  <2>3. /\ \A i \in 1..n : i \in 1..Bits
        /\ \A i \in 1..m : i \in 1..Bits
        /\ n + 1 \in 1..Bits /\ n < Bits /\ (m < Bits => m + 1 \in 1..Bits)
    BY <1>1, <1>3, <2>2
  <2>4. ASSUME m = n
        PROVE  (\A i \in 1..n : k[i] = S[i]) /\ k[n + 1] # S[n + 1]
    BY <2>1, <2>2, <2>3, <2>4
  <2>5. ASSUME \A i \in 1..n : k[i] = S[i], k[n + 1] # S[n + 1]
        PROVE  m = n
    <3>1. CASE m < n
      <4>1. m + 1 \in 1..n /\ m < Bits
        BY <1>1, <1>3, <2>2, <3>1
      <4>2. x[m + 1] = 1 /\ x[m + 1] = 0
        BY <2>1, <2>2, <2>3, <2>5, <4>1
      <4> QED BY <4>2
    <3>2. CASE n < m
      <4>1. n + 1 \in 1..m
        BY <1>1, <1>3, <2>2, <3>2
      <4>2. x[n + 1] = 1 /\ x[n + 1] = 0
        BY <2>1, <2>2, <2>3, <2>5, <4>1
      <4> QED BY <4>2
    <3> QED BY <1>1, <1>3, <2>2, <3>1, <3>2
  <2> QED BY <2>4, <2>5 DEF m, x
<1>6. /\ \A i \in 1..n : target[i] = S[i] /\ C[i] = S[i]
      /\ target[n + 1] # S[n + 1] /\ C[n + 1] # S[n + 1]
  BY <1>2, <1>3, <1>4, <1>5
<1>7. \A i \in 1..(n + 1) : i \in 1..Bits /\ (i \in 1..n \/ i = n + 1)
  BY <1>1, <1>3
<1>8. \A i \in 1..(n + 1) : C[i] = target[i]
  <2>1. C[n + 1] = target[n + 1]
    <3>1. n + 1 \in 1..Bits
      BY <1>1, <1>3
    <3>2. C[n + 1] \in {0, 1} /\ target[n + 1] \in {0, 1} /\ S[n + 1] \in {0, 1}
      BY <1>1, <1>2, <3>1, BitsFacts
    <3> QED BY <1>6, <3>2
  <2> QED BY <1>6, <1>7, <2>1
<1>9. \A i \in 1..(n + 1) : D[i] = target[i]
  <2> DEFINE dd == Table!XOR(target, D)
             dc == Table!XOR(target, C)
  <2>1. PICK i \in 1..Bits : dd[i] < dc[i] /\ \A j \in 1..(i - 1) : dd[j] = dc[j]
    BY DEF Table!Less, C, D
  <2>2. /\ \A j \in 1..Bits : dd[j] = IF target[j] = D[j] THEN 0 ELSE 1
        /\ \A j \in 1..Bits : dc[j] = IF target[j] = C[j] THEN 0 ELSE 1
    BY DEF Table!XOR
  <2> HIDE DEF dd, dc
  <2>3. dc[i] # 0
    <3>1. dd[i] \in {0, 1} /\ dc[i] \in {0, 1}
      BY <2>2
    <3> QED BY <2>1, <3>1
  <2>4. i \notin 1..(n + 1)
    BY <1>8, <2>2, <2>3
  <2>5. \A j \in 1..(n + 1) : j \in 1..(i - 1)
    BY <1>1, <1>3, <2>4
  <2>6. ASSUME NEW j \in 1..(n + 1) PROVE D[j] = target[j]
    <3>1. dd[j] = dc[j] /\ dc[j] = 0
      BY <1>7, <1>8, <2>1, <2>2, <2>5
    <3> QED BY <1>7, <2>2, <3>1
  <2> QED BY <2>6
<1>10. Table!LeadingZeros(Table!XOR(S, D)) = n
  <2>1. n + 1 \in 1..(n + 1) /\ \A i \in 1..n : i \in 1..(n + 1)
    BY <1>3
  <2>2. (\A i \in 1..n : D[i] = S[i]) /\ D[n + 1] # S[n + 1]
    BY <1>6, <1>9, <2>1
  <2> QED BY <1>2, <1>5, <2>2
<1>11. n \in Table!BucketIndexes
  BY <1>1, <1>3
<1> QED BY <1>10, <1>11, ContactFacts DEF Table!Bucket, S, D, n

\* A table that is well placed answers with its nearest contacts.
LEMMA NearestOfPlaced == WellPlaced => AnswersNearest
<1> SUFFICES ASSUME WellPlaced, NEW t \in Tables, NEW target \in Table!Bitstrings,
                    NEW count \in 1..BucketSize
             PROVE  LET answer == Table!Nearest(t, target, count)
                        dist == [c \in Contacts |-> Table!XOR(target, IdOf[c])]
                        many == Table!Cardinality(Table!InTable(t))
                    IN  /\ Len(answer) = IF many < count THEN many ELSE count
                        /\ \A i, j \in DOMAIN answer :
                             i < j => Table!Less(dist[answer[i]], dist[answer[j]])
                        /\ \A c \in Table!InTable(t) \ Table!ToSet(answer),
                              d \in Table!ToSet(answer) :
                             /\ Table!Less(dist[d], dist[c])
                             /\ (target # SelfId[t]
                                  /\ c \in Table!ToSet(Table!Bucket(t, target)))
                                  => d \in Table!ToSet(Table!Bucket(t, target))
  BY DEF AnswersNearest, Table!AnswersNearest
<1> DEFINE all == Table!AllContacts(t)
           z == Table!Sorted(all, target)
           answer == Table!Nearest(t, target, count)
           dist == [c \in Contacts |-> Table!XOR(target, IdOf[c])]
           n == Len(all)
           m == Len(answer)
<1>1. /\ all \in Seq(Contacts) /\ Table!ToSet(all) = Table!InTable(t)
      /\ \A x, y \in DOMAIN all : IdOf[all[x]] = IdOf[all[y]] => x = y
      /\ n = Table!Cardinality(Table!InTable(t))
  BY AllContactsFacts, AllContactsCount
<1>2. answer = Table!Cut(z, count)
  BY DEF Table!Nearest
<1> HIDE DEF all, answer
<1>3. /\ z \in Seq(Contacts) /\ Len(z) = n /\ Table!ToSet(z) = Table!InTable(t)
      /\ \A i, j \in DOMAIN z :
           i < j => Table!Less(Table!XOR(target, IdOf[z[i]]), Table!XOR(target, IdOf[z[j]]))
  BY <1>1, SortedFacts
<1>4. count \in Nat /\ BucketSize \in Nat
  BY TableAssumption DEF Table!SizesAssumption
<1>5. n \in Nat
  BY <1>3
<1> HIDE DEF z, n
<1>6. /\ m = IF n < count THEN n ELSE count
      /\ m \in Nat /\ DOMAIN answer = 1..m
      /\ \A i \in 1..m : answer[i] = z[i] /\ i \in DOMAIN z
  <2>1. CASE n > count
    <3>1. answer = SubSeq(z, 1, count)
      BY <1>2, <1>3, <2>1 DEF Table!Cut
    <3> QED BY <1>3, <1>4, <1>5, <2>1, <3>1
  <2>2. CASE ~ n > count
    <3>1. answer = z
      BY <1>2, <1>3, <2>2 DEF Table!Cut
    <3> QED BY <1>3, <1>4, <1>5, <2>2, <3>1
  <2> QED BY <2>1, <2>2
<1> HIDE DEF m
<1>7. \A i \in DOMAIN z : z[i] \in Contacts /\ i \in Nat
  BY <1>3
<1>8. \A i, j \in DOMAIN z : i < j => Table!Less(dist[z[i]], dist[z[j]])
  BY <1>3, <1>7
<1>9. \A i, j \in DOMAIN answer : i < j => Table!Less(dist[answer[i]], dist[answer[j]])
  BY <1>6, <1>8
<1>10. ASSUME NEW c \in Table!InTable(t) \ Table!ToSet(answer),
              NEW d \in Table!ToSet(answer)
       PROVE  /\ Table!Less(dist[d], dist[c])
              /\ (target # SelfId[t] /\ c \in Table!ToSet(Table!Bucket(t, target)))
                   => d \in Table!ToSet(Table!Bucket(t, target))
  <2>1. PICK q \in DOMAIN answer : d = answer[q]
    BY DEF Table!ToSet
  <2>2. q \in 1..m /\ q \in DOMAIN z /\ d = z[q]
    BY <1>6, <2>1
  <2>3. PICK p \in DOMAIN z : c = z[p]
    BY <1>3 DEF Table!ToSet
  <2>4. p \notin 1..m
    <3> SUFFICES ASSUME p \in 1..m PROVE FALSE
      OBVIOUS
    <3>1. p \in DOMAIN answer /\ c = answer[p]
      BY <1>6, <2>3
    <3> QED BY <3>1 DEF Table!ToSet
  <2>5. q < p
    <3>1. DOMAIN z = 1..n
      BY <1>3, <1>5
    <3> QED BY <1>5, <1>6, <2>2, <2>3, <2>4, <3>1
  <2>6. Table!Less(dist[d], dist[c])
    BY <1>8, <2>2, <2>3, <2>5
  <2>7. d \in Table!InTable(t) /\ d \in Contacts /\ c \in Contacts
    <3>1. d \in Table!ToSet(z)
      BY <2>2 DEF Table!ToSet
    <3> QED BY <1>3, <1>7, <2>2, <2>3, <3>1
  <2>8. Table!Less(Table!XOR(target, IdOf[d]), Table!XOR(target, IdOf[c]))
    BY <2>6, <2>7
  <2> QED BY <2>6, <2>7, <2>8, NearerInBucket
<1> HIDE DEF dist
<1>11. Len(answer) = IF Table!Cardinality(Table!InTable(t)) < count
                     THEN Table!Cardinality(Table!InTable(t)) ELSE count
  BY <1>1, <1>6 DEF m, n
<1> QED BY <1>9, <1>10, <1>11 DEF dist, answer

\* FIND_NODE is answered with the nearest contacts of the table, nearest first,
\* and with those of the key's own bucket before any other.
THEOREM AnswersAreNearest == RpcSpec => []AnswersNearest
BY TablePlacesWell, NearestOfPlaced, PTL

=============================================================================
