------------------------------ MODULE DhtTable ------------------------------
(***************************************************************************)
(* The routing tables of pkg/dht/table.go.  A table keeps contacts in      *)
(* buckets by the length of the prefix their key shares with its own; a    *)
(* full bucket gives up its least recently seen contact only when that one *)
(* has been silent for 15 minutes.  Table.Add and Table.Remove hold t.mu,  *)
(* so each is one step.                                                    *)
(*                                                                         *)
(* A contact is a Node object, and tables keep pointers: Closest hands out *)
(* the very objects of the table, so one object can be in several tables   *)
(* of a process, and its LastSeen is shared.  Two objects may have one ID  *)
(* (a peer seen at two addresses).                                         *)
(***************************************************************************)
EXTENDS Integers, Sequences, FiniteSets, SequencesExt

CONSTANTS Tables,
          Contacts,     \* the Node objects
          IdOf,         \* IdOf[c]: the key of a contact
          SelfId,       \* SelfId[t]: the key of a table's owner
          Bits,         \* length of a key (160 in the code)
          BucketSize,   \* 20 in the code
          Silence,      \* the 15 minutes, in ticks
          MaxTime       \* bound of the clock

Bitstrings == [1..Bits -> {0, 1}]

SizesAssumption ==
  /\ Bits \in Nat \ {0} /\ BucketSize \in Nat \ {0}
  /\ Silence \in Nat /\ MaxTime \in Nat
IdsAssumption ==
  IdOf \in [Contacts -> Bitstrings] /\ SelfId \in [Tables -> Bitstrings]

MaxBuckets == Bits

VARIABLES buckets,      \* buckets[t][i]: the contacts of bucket i of table t
          lastSeen,     \* lastSeen[c]: c.LastSeen
          now           \* the clock

vars == <<buckets, lastSeen, now>>

BucketIndexes == 0..(MaxBuckets - 1)

Init == /\ buckets = [t \in Tables |-> [i \in BucketIndexes |-> << >>]]
        /\ lastSeen = [c \in Contacts |-> 0]
        /\ now = 0

XOR(k, l) == [i \in 1..Bits |-> IF k[i] = l[i] THEN 0 ELSE 1]

\* Number of bits before the first 1; all of them for the zero key.
LeadingZeros(k) ==
  CHOOSE n \in 0..Bits : /\ \A i \in 1..n : k[i] = 0
                         /\ n < Bits => k[n + 1] = 1

\* Mutant of BucketIndex: the clamp one bucket too low.
BucketIndexClampedLow(t, id) ==
  LET n == LeadingZeros(XOR(SelfId[t], id))
  IN  IF n >= MaxBuckets - 1 THEN MaxBuckets - 2 ELSE n

\* The clamp only matters for the table's own key, which Add rejects.
BucketIndex(t, id) ==
  LET n == LeadingZeros(XOR(SelfId[t], id))
  IN  IF n >= MaxBuckets THEN MaxBuckets - 1 ELSE n

Bucket(t, id) == buckets[t][BucketIndex(t, id)]

-----------------------------------------------------------------------------
(* Table.Add and Bucket.Add. *)

Positions(b, id) == {i \in DOMAIN b : IdOf[b[i]] = id}

Known(b, id) == Positions(b, id) # {}

\* Mutant of Oldest: the most recently seen contact.
Newest(b) == CHOOSE i \in DOMAIN b :
               \A j \in DOMAIN b : lastSeen[b[j]] <= lastSeen[b[i]]

\* The first of the least recently seen.
Oldest(b) ==
  CHOOSE i \in DOMAIN b :
    /\ \A j \in DOMAIN b : lastSeen[b[i]] <= lastSeen[b[j]]
    /\ \A j \in 1..(i - 1) : lastSeen[b[i]] < lastSeen[b[j]]

Silent(c) == now - lastSeen[c] > Silence

HasSpace(b) == Len(b) < BucketSize

\* A key that is in the bucket: its object there is refreshed, the one given is
\* not kept.
Refresh(t, c) ==
  LET b == Bucket(t, IdOf[c])
  IN  /\ IdOf[c] # SelfId[t] /\ Known(b, IdOf[c])
      /\ lastSeen' = [lastSeen EXCEPT ![b[Min(Positions(b, IdOf[c]))]] = now]
      /\ UNCHANGED <<buckets, now>>

\* Otherwise the object given is stamped, wherever else it is in use, before
\* anything is decided.
Insert(t, c) ==
  LET i == BucketIndex(t, IdOf[c])
      b == buckets[t][i]
  IN  /\ IdOf[c] # SelfId[t] /\ ~ Known(b, IdOf[c])
      /\ lastSeen' = [lastSeen EXCEPT ![c] = now]
      /\ IF HasSpace(b)
         THEN buckets' = [buckets EXCEPT ![t][i] = Append(@, c)]
         ELSE IF Silent(b[Oldest(b)])
         THEN buckets' = [buckets EXCEPT ![t][i][Oldest(b)] = c]
         ELSE UNCHANGED buckets
      /\ UNCHANGED now

Add(t, c) == Refresh(t, c) \/ Insert(t, c)

\* Table.Remove and Bucket.Remove of a key that is there.
RemoveKey(t, id) ==
  LET i == BucketIndex(t, id)
      b == buckets[t][i]
  IN  /\ Known(b, id)
      /\ buckets' = [buckets EXCEPT ![t][i] = RemoveAt(b, Min(Positions(b, id)))]
      /\ UNCHANGED <<lastSeen, now>>

Tick == /\ now < MaxTime
        /\ now' = now + 1
        /\ UNCHANGED <<buckets, lastSeen>>

Next == \/ \E t \in Tables, c \in Contacts : Add(t, c)
        \/ \E t \in Tables, id \in {IdOf[c] : c \in Contacts} : RemoveKey(t, id)
        \/ Tick

Spec == Init /\ [][Next]_vars

-----------------------------------------------------------------------------
(* Table.Closest, which HandleFindNode and HandleFindValue answer with. *)

\* k < l, compared from the first bit on.
Less(k, l) == \E i \in 1..Bits : /\ k[i] < l[i]
                                 /\ \A j \in 1..(i - 1) : k[j] = l[j]

\* Every contact of the table, bucket by bucket.
AllContacts(t) ==
  FoldLeft(LAMBDA s, i : s \o buckets[t][i - 1], << >>,
           [i \in 1..MaxBuckets |-> i])

\* Sorted by the distance to target: at place k is the one with k - 1 before it.
\* Places decide between equal distances, which contacts of a table never have.
Sorted(s, target) ==
  LET dist(i) == XOR(target, IdOf[s[i]])
      before(i) == {j \in DOMAIN s : \/ Less(dist(j), dist(i))
                                     \/ dist(j) = dist(i) /\ j < i}
  IN  [k \in DOMAIN s |-> s[CHOOSE i \in DOMAIN s : Cardinality(before(i)) = k - 1]]

Cut(s, count) == IF Len(s) > count THEN SubSeq(s, 1, count) ELSE s

\* Mutant of Nearest: the table is cut off before it is sorted.
NearestOfFirst(t, target, count) == Sorted(Cut(AllContacts(t), count), target)

Nearest(t, target, count) == Cut(Sorted(AllContacts(t), target), count)

-----------------------------------------------------------------------------
InTable(t) == {c \in Contacts :
                 \E i \in BucketIndexes : c \in ToSet(buckets[t][i])}

TypeOK == /\ buckets \in [Tables -> [BucketIndexes -> Seq(Contacts)]]
          /\ \A t \in Tables, i \in BucketIndexes : Len(buckets[t][i]) <= BucketSize
          /\ lastSeen \in [Contacts -> 0..MaxTime]
          /\ now \in 0..MaxTime

\* A table never holds its own key or one key twice, and every contact is in
\* the bucket of its shared prefix, for any history of adds, evictions and
\* removals: Add and Remove look for a key in one bucket only.
WellPlaced ==
  \A t \in Tables, i, j \in BucketIndexes :
    \A x \in DOMAIN buckets[t][i], y \in DOMAIN buckets[t][j] :
      LET c == buckets[t][i][x]
          d == buckets[t][j][y]
      IN  /\ LeadingZeros(XOR(SelfId[t], IdOf[c])) = i
          /\ IdOf[c] = IdOf[d] => i = j /\ x = y

\* A contact seen in the last 15 minutes is never evicted for a new one, nor
\* one while a longer silent contact could go instead.
OnlySilentEvicted ==
  [][\A t \in Tables : buckets[t] # buckets[t]' =>
       \A c \in InTable(t) : c \notin InTable(t)' =>
           \/ InTable(t)' \subseteq InTable(t)     \* removed, not replaced
           \/ /\ now - lastSeen[c] > Silence
              /\ \A d \in ToSet(Bucket(t, IdOf[c])) : lastSeen[c] <= lastSeen[d]]_vars

\* The answer to FIND_NODE for a key, or to a caller that wants fewer: as many as
\* wanted if there are, the nearest first, no contact left out nearer than one
\* returned, and none of the target's own bucket left out for one of another.
AnswersNearest ==
  \A t \in Tables, target \in Bitstrings, count \in 1..BucketSize :
    LET answer == Nearest(t, target, count)
        dist == [c \in Contacts |-> XOR(target, IdOf[c])]
    IN  /\ Len(answer) = IF Cardinality(InTable(t)) < count
                         THEN Cardinality(InTable(t)) ELSE count
        /\ \A i, j \in DOMAIN answer :
             i < j => Less(dist[answer[i]], dist[answer[j]])
        /\ \A c \in InTable(t) \ ToSet(answer), d \in ToSet(answer) :
             /\ Less(dist[d], dist[c])
             /\ target # SelfId[t] /\ c \in ToSet(Bucket(t, target))
                  => d \in ToSet(Bucket(t, target))
=============================================================================
