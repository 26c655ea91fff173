---------------------------- MODULE RelayProofs -----------------------------
(***************************************************************************)
(* Theorems about the two parts of pkg/relay/queue.go: RelayQueue, for     *)
(* every set of packets, every assignment of priorities and every          *)
(* capacity, and HopTracker, for any packets, paths, numbers of            *)
(* retransmissions and ages.                                               *)
(*                                                                         *)
(* The inductive invariant of the queue is TypeOK with SortedByPriority:   *)
(* Push stops its scan at the first less urgent packet, which is the right *)
(* place only because the slice is sorted.  With it the slice implements   *)
(* the lanes of PriorityBuffer: a packet is pushed behind all of its level *)
(* and before all of the later ones, and the first is of the most urgent   *)
(* level there is.                                                         *)
(***************************************************************************)
EXTENDS RelayQueue, HopTracker, SequenceTheorems, FiniteSetTheorems,
        WellFoundedInduction, TLAPS

IInv == TypeOK /\ SortedByPriority

-----------------------------------------------------------------------------
\* Priorities are numbers, so they compare as numbers do.
LEMMA MoreUrgentOrder ==
  ASSUME NEW p \in Packets, NEW q \in Packets, NEW r \in Packets
  PROVE  /\ ~ MoreUrgent(p, p)
         /\ MoreUrgent(p, q) => ~ MoreUrgent(q, p)
         /\ MoreUrgent(p, q) /\ ~ MoreUrgent(r, q) => MoreUrgent(p, r)
         /\ ~ MoreUrgent(q, p) /\ ~ MoreUrgent(r, q) => ~ MoreUrgent(r, p)
<1>1. PriorityOf[p] \in Int /\ PriorityOf[q] \in Int /\ PriorityOf[r] \in Int
  BY PriorityAssumption
<1> QED BY <1>1 DEF MoreUrgent

\* Inserting in the middle of a slice gives a slice one longer.
LEMMA InsertedIsSeq ==
  ASSUME NEW s \in Seq(Packets), NEW p \in Packets, NEW i \in 1..(Len(s) + 1)
  PROVE  /\ Inserted(s, i, p) \in Seq(Packets)
         /\ Len(Inserted(s, i, p)) = Len(s) + 1
         /\ \A j \in 1..(Len(s) + 1) :
              Inserted(s, i, p)[j] = IF j < i THEN s[j]
                                     ELSE IF j = i THEN p
                                     ELSE s[j - 1]
<1> DEFINE n == Len(s) + 1
           t == Inserted(s, i, p)
<1>1. n \in Nat /\ DOMAIN s = 1..Len(s) /\ \A j \in 1..Len(s) : s[j] \in Packets
  BY LenProperties, ElementOfSeq
<1>2. ASSUME NEW j \in 1..n
      PROVE  (IF j < i THEN s[j] ELSE IF j = i THEN p ELSE s[j - 1]) \in Packets
  <2>1. CASE j < i
    BY <2>1, <1>1
  <2>2. CASE j = i
    BY <2>2
  <2>3. CASE j > i
    <3>1. j - 1 \in 1..Len(s)
      BY <2>3, <1>1
    <3> QED BY <3>1, <2>3, <1>1
  <2> QED BY <2>1, <2>2, <2>3, <1>1
<1>3. t \in [1..n -> Packets]
  BY <1>2 DEF Inserted
<1>4. t \in Seq(Packets) /\ Len(t) = n
  BY <1>1, <1>3, IsASeq, LenProperties
<1> QED BY <1>4 DEF Inserted

-----------------------------------------------------------------------------
\* The empty queue of NewQueue.
LEMMA InitInv == Init => IInv
<1> SUFFICES ASSUME Init PROVE IInv
  OBVIOUS
<1>1. packets \in Seq(Packets) /\ Len(packets) = 0
  BY EmptySeq DEF Init
<1>2. TypeOK
  BY <1>1, MaxSizeAssumption DEF Init, TypeOK, Replies
<1>3. SortedByPriority
  BY <1>1 DEF SortedByPriority
<1> QED BY <1>2, <1>3 DEF IInv

\* Push keeps the slice sorted: everything in front of the insertion index is
\* at least as urgent as the newcomer, and so is less urgent what follows it.
LEMMA PushInv ==
  ASSUME IInv, NEW p \in Packets, Push(p)
  PROVE  IInv'
<1>1. PICK i \in 1..(Len(packets) + 1) :
        IsInsertIndex(i, p) /\ packets' = Inserted(packets, i, p)
  BY DEF Push
<1>2. packets \in Seq(Packets) /\ Len(packets) \in Nat /\ Len(packets) < MaxSize
  BY MaxSizeAssumption, LenProperties DEF IInv, TypeOK, Push, Full
<1>3. /\ packets' \in Seq(Packets)
      /\ Len(packets') = Len(packets) + 1
      /\ \A j \in 1..Len(packets') :
           packets'[j] = IF j < i THEN packets[j]
                         ELSE IF j = i THEN p
                         ELSE packets[j - 1]
  <2> DEFINE t == Inserted(packets, i, p)
  <2>1. /\ t \in Seq(Packets)
        /\ Len(t) = Len(packets) + 1
        /\ \A j \in 1..(Len(packets) + 1) :
             t[j] = IF j < i THEN packets[j] ELSE IF j = i THEN p ELSE packets[j - 1]
    BY <1>2, InsertedIsSeq
  <2>2. packets' = t
    BY <1>1
  <2> HIDE DEF t
  <2> QED BY <2>1, <2>2
<1>4. \A j \in 1..Len(packets) : packets[j] \in Packets /\ packets[j] \in stamped
  BY <1>2, ElementOfSeq DEF IInv, TypeOK
<1>5. TypeOK'
  <2>1. \A j \in 1..Len(packets') : packets'[j] \in stamped'
    <3> SUFFICES ASSUME NEW j \in 1..Len(packets') PROVE packets'[j] \in stamped'
      OBVIOUS
    <3>1. stamped' = stamped \cup {p}
      BY DEF Push
    <3>2. CASE j < i
      BY <3>1, <3>2, <1>2, <1>3, <1>4
    <3>3. CASE j = i
      BY <3>1, <3>3, <1>3
    <3>4. CASE j > i
      <4>1. j - 1 \in 1..Len(packets) /\ packets'[j] = packets[j - 1]
        BY <3>4, <1>2, <1>3
      <4> QED BY <4>1, <3>1, <1>4
    <3> QED BY <3>2, <3>3, <3>4, <1>2, <1>3
  <2>2. Len(packets') <= MaxSize
    BY <1>2, <1>3, MaxSizeAssumption
  <2>3. stamped' \subseteq Packets /\ reply' \in Replies
    BY DEF IInv, TypeOK, Push, Replies
  <2> QED BY <2>1, <2>2, <2>3, <1>3 DEF TypeOK
<1>6. SortedByPriority'
  <2> SUFFICES ASSUME NEW j \in 1..Len(packets'), NEW k \in 1..Len(packets'), j < k
               PROVE  ~ MoreUrgent(packets'[k], packets'[j])
    BY DEF SortedByPriority, MoreUrgent
  <2> DEFINE old(x) == IF x < i THEN x ELSE x - 1
  <2>1. \A x, y \in 1..Len(packets) :
          x < y => ~ MoreUrgent(packets[y], packets[x])
    BY DEF IInv, SortedByPriority
  <2>2. CASE j # i /\ k # i
    <3>1. /\ old(j) \in 1..Len(packets) /\ old(k) \in 1..Len(packets)
          /\ old(j) < old(k)
      BY <2>2, <1>2, <1>3
    <3>2. packets'[j] = packets[old(j)] /\ packets'[k] = packets[old(k)]
      BY <2>2, <1>2, <1>3
    <3> QED BY <3>1, <3>2, <2>1
  <2>3. CASE k = i
    <3>1. packets'[k] = p /\ packets'[j] = packets[j] /\ j \in 1..(i - 1)
      BY <2>3, <1>2, <1>3
    <3> QED BY <3>1, <1>1 DEF IsInsertIndex
  <2>4. CASE j = i
    <3>1. /\ packets'[j] = p /\ packets'[k] = packets[k - 1]
          /\ k - 1 \in 1..Len(packets) /\ i <= k - 1 /\ i \in 1..Len(packets)
      BY <2>4, <1>2, <1>3
    <3>2. MoreUrgent(p, packets[i])
      BY <3>1, <1>1 DEF IsInsertIndex
    <3>3. ~ MoreUrgent(packets[k - 1], packets[i])
      <4>1. CASE i = k - 1
        BY <4>1, <3>1, <1>4, MoreUrgentOrder
      <4>2. CASE i < k - 1
        BY <4>2, <3>1, <2>1
      <4> QED BY <4>1, <4>2, <3>1
    <3>4. MoreUrgent(p, packets[k - 1])
      BY <3>1, <3>2, <3>3, <1>4, MoreUrgentOrder
    <3>5. ~ MoreUrgent(packets[k - 1], p)
      BY <3>1, <3>4, <1>4, MoreUrgentOrder
    <3> QED BY <3>1, <3>5
  <2> QED BY <2>2, <2>3, <2>4
<1> QED BY <1>5, <1>6 DEF IInv

\* Pop keeps what is left sorted.
LEMMA PopInv ==
  ASSUME IInv, Pop
  PROVE  IInv'
<1>1. packets \in Seq(Packets) /\ packets # << >> /\ packets' = Tail(packets)
  BY DEF IInv, TypeOK, Pop
<1>2. /\ packets' \in Seq(Packets) /\ Head(packets) \in Packets
      /\ Len(packets) \in Nat /\ Len(packets') = Len(packets) - 1
      /\ \A j \in 1..Len(packets') : packets'[j] = packets[j + 1]
  BY <1>1, HeadTailProperties, LenProperties
<1>3. TypeOK'
  <2>1. \A j \in 1..Len(packets') : packets'[j] \in stamped'
    <3> SUFFICES ASSUME NEW j \in 1..Len(packets') PROVE packets'[j] \in stamped'
      OBVIOUS
    <3>1. j + 1 \in 1..Len(packets)
      BY <1>2
    <3> QED BY <3>1, <1>2 DEF IInv, TypeOK, Pop
  <2>2. Len(packets') <= MaxSize
    BY <1>2, MaxSizeAssumption DEF IInv, TypeOK
  <2>3. stamped' \subseteq Packets /\ reply' \in Replies
    BY <1>2 DEF IInv, TypeOK, Pop, Replies
  <2> QED BY <2>1, <2>2, <2>3, <1>2 DEF TypeOK
<1>4. SortedByPriority'
  <2> SUFFICES ASSUME NEW j \in 1..Len(packets'), NEW k \in 1..Len(packets'), j < k
               PROVE  ~ MoreUrgent(packets'[k], packets'[j])
    BY DEF SortedByPriority, MoreUrgent
  <2>1. j + 1 \in 1..Len(packets) /\ k + 1 \in 1..Len(packets) /\ j + 1 < k + 1
    BY <1>2
  <2> QED BY <2>1, <1>2 DEF IInv, SortedByPriority
<1> QED BY <1>3, <1>4 DEF IInv

\* Every call keeps the invariant.
LEMMA StepInv == IInv /\ [Next]_vars => IInv'
<1> SUFFICES ASSUME IInv, [Next]_vars PROVE IInv'
  OBVIOUS
<1>1. ASSUME NEW p \in Packets, Push(p) PROVE IInv'
  BY <1>1, PushInv
<1>2. ASSUME NEW p \in Packets, PushFull(p) PROVE IInv'
  BY <1>2 DEF IInv, TypeOK, SortedByPriority, MoreUrgent, PushFull, Replies
<1>3. CASE Pop
  BY <1>3, PopInv
<1>4. CASE PopEmpty
  BY <1>4 DEF IInv, TypeOK, SortedByPriority, MoreUrgent, PopEmpty, Replies
<1>5. CASE UNCHANGED vars
  BY <1>5 DEF IInv, TypeOK, SortedByPriority, MoreUrgent, vars
<1> QED BY <1>1, <1>2, <1>3, <1>4, <1>5 DEF Next

\* The invariant holds in every state.
LEMMA Invariance == Spec => []IInv
BY InitInv, StepInv, PTL DEF Spec

-----------------------------------------------------------------------------
\* The queue never holds more than maxSize packets, and each has the ID Push
\* gave it: Spec implies TypeOK always.
THEOREM TypeCorrect == Spec => []TypeOK
<1>1. IInv => TypeOK
  BY DEF IInv
<1> QED BY <1>1, Invariance, PTL

\* No packet ever stands in front of a more urgent one, whatever calls were
\* made in whatever order.
THEOREM Sorted == Spec => []SortedByPriority
<1>1. IInv => SortedByPriority
  BY DEF IInv
<1> QED BY <1>1, Invariance, PTL

-----------------------------------------------------------------------------
\* Push moves back only packets that are less urgent than the new one.
LEMMA PushUndisturbed ==
  ASSUME IInv, NEW p \in Packets, Push(p)
  PROVE  Undisturbed
<1>1. PICK i \in 1..(Len(packets) + 1) :
        IsInsertIndex(i, p) /\ packets' = Inserted(packets, i, p)
  BY DEF Push
<1>2. packets \in Seq(Packets) /\ Len(packets) \in Nat
  BY LenProperties DEF IInv, TypeOK
<1>3. /\ Len(packets') = Len(packets) + 1
      /\ \A j \in 1..Len(packets') :
           packets'[j] = IF j < i THEN packets[j]
                         ELSE IF j = i THEN p
                         ELSE packets[j - 1]
  <2> DEFINE t == Inserted(packets, i, p)
  <2>1. /\ Len(t) = Len(packets) + 1
        /\ \A j \in 1..(Len(packets) + 1) :
             t[j] = IF j < i THEN packets[j] ELSE IF j = i THEN p ELSE packets[j - 1]
    BY <1>2, InsertedIsSeq
  <2>2. packets' = t
    BY <1>1
  <2> HIDE DEF t
  <2> QED BY <2>1, <2>2
<1>4. \A j \in 1..Len(packets) : packets[j] \in Packets
  BY <1>2, ElementOfSeq
<1>5. reply'.packet = p
  BY DEF Push
<1>6. ASSUME NEW k \in 1..Len(packets), k < i
      PROVE  k <= Len(packets') /\ packets'[k] = packets[k]
  BY <1>6, <1>2, <1>3
<1>7. ASSUME NEW k \in 1..Len(packets), ~ (k < i)
      PROVE  /\ k + 1 <= Len(packets') /\ packets'[k + 1] = packets[k]
             /\ \E j \in 1..k : /\ MoreUrgent(packets'[j], packets[k])
                                /\ reply'.packet = packets'[j]
  <2>1. i \in 1..k /\ i \in 1..Len(packets) /\ packets'[i] = p
    BY <1>7, <1>2, <1>3
  <2>2. packets'[k + 1] = packets[k] /\ k + 1 <= Len(packets')
    BY <1>7, <1>2, <1>3
  <2>3. MoreUrgent(p, packets[i])
    BY <2>1, <1>1 DEF IsInsertIndex
  <2>4. ~ MoreUrgent(packets[k], packets[i])
    <3>1. CASE i = k
      BY <3>1, <1>4, MoreUrgentOrder
    <3>2. CASE i < k
      BY <3>2, <2>1 DEF IInv, SortedByPriority
    <3> QED BY <3>1, <3>2, <2>1
  <2>5. MoreUrgent(p, packets[k])
    BY <2>1, <2>3, <2>4, <1>4, MoreUrgentOrder
  <2> QED BY <2>1, <2>2, <2>5, <1>5
<1> QED BY <1>6, <1>7 DEF Undisturbed

\* Pop moves every packet up by one.
LEMMA PopUndisturbed ==
  ASSUME IInv, Pop
  PROVE  Undisturbed
<1>1. packets \in Seq(Packets) /\ packets # << >> /\ packets' = Tail(packets)
  BY DEF IInv, TypeOK, Pop
<1>2. /\ Len(packets) \in Nat /\ Len(packets') = Len(packets) - 1
      /\ \A j \in 1..Len(packets') : packets'[j] = packets[j + 1]
  BY <1>1, HeadTailProperties, LenProperties
<1>3. ASSUME NEW k \in 1..Len(packets), k > 1
      PROVE  packets'[k - 1] = packets[k]
  <2>1. k - 1 \in 1..Len(packets')
    BY <1>3, <1>2
  <2> QED BY <2>1, <1>2
<1> QED BY <1>1, <1>2, <1>3 DEF Undisturbed

\* A call that leaves the slice alone disturbs nothing.
LEMMA SameUndisturbed ==
  ASSUME IInv, UNCHANGED packets
  PROVE  Undisturbed
<1>1. Len(packets) \in Nat
  BY LenProperties DEF IInv, TypeOK
<1> QED BY <1>1 DEF Undisturbed

\* A queued packet is overtaken only by a strictly more urgent one, and only
\* when that one is pushed: the order within one priority is first in, first
\* out, in every step of the queue.
THEOREM Overtaking == Spec => OvertakenOnlyByMoreUrgent
<1>1. IInv /\ [Next]_vars => [Undisturbed]_vars
  <2> SUFFICES ASSUME IInv, Next PROVE Undisturbed
    OBVIOUS
  <2>1. ASSUME NEW p \in Packets, Push(p) PROVE Undisturbed
    BY <2>1, PushUndisturbed
  <2>2. ASSUME NEW p \in Packets, PushFull(p) PROVE Undisturbed
    BY <2>2, SameUndisturbed DEF PushFull
  <2>3. CASE Pop
    BY <2>3, PopUndisturbed
  <2>4. CASE PopEmpty
    BY <2>4, SameUndisturbed DEF PopEmpty
  <2> QED BY <2>1, <2>2, <2>3, <2>4 DEF Next
<1>2. Spec => [][Undisturbed]_vars
  BY <1>1, Invariance, PTL DEF Spec
<1> QED BY <1>2 DEF OvertakenOnlyByMoreUrgent

-----------------------------------------------------------------------------
(* The lanes of a slice. *)

\* Some number is the least.
LEMMA LeastNat ==
  ASSUME NEW T \in SUBSET Nat, T # {}
  PROVE  \E x \in T : \A y \in T : x <= y
<1>1. PICK x \in T : \A y \in T : ~ (<<y, x>> \in OpToRel(<, Nat))
  BY WFMin, NatLessThanWellFounded
<1>2. \A y \in T : ~ y < x
  BY <1>1 DEF OpToRel
<1> QED BY <1>2

\* A set with 0 and, up to n, the successors of its members.
LEMMA UpTo ==
  ASSUME NEW n \in Nat, NEW T, 0 \in T,
         \A m \in 0..(n - 1) : m \in T => m + 1 \in T
  PROVE  \A m \in 0..n : m \in T
<1> DEFINE bad == {m \in 0..n : m \notin T}
<1> SUFFICES ASSUME bad # {} PROVE FALSE
  OBVIOUS
<1>1. PICK m \in bad : \A l \in bad : m <= l
  <2>1. bad \in SUBSET Nat
    OBVIOUS
  <2> HIDE DEF bad
  <2> QED BY <2>1, LeastNat
<1>2. m \in 0..n /\ m \notin T /\ m # 0
  OBVIOUS
<1>3. m - 1 \in 0..(n - 1) /\ (m - 1) + 1 = m /\ m - 1 \in 0..n /\ ~ m <= m - 1
  BY <1>2
<1>4. m - 1 \in T
  BY <1>1, <1>3
<1> QED BY <1>2, <1>3, <1>4

\* How LaneOf gathers a lane from the first n packets.
Gathers(s, k, n, g) ==
  g = [i \in 0..n |-> IF i = 0 THEN << >>
                      ELSE IF PriorityOf[s[i]] = k THEN Append(g[i - 1], s[i])
                      ELSE g[i - 1]]

\* A function that does exists, by one for a packet less.
LEMMA GathersExists ==
  ASSUME NEW s, NEW k, NEW n \in Nat
  PROVE  \E g : Gathers(s, k, n, g)
<1> DEFINE T == {m \in Nat : \E g : Gathers(s, k, m, g)}
<1>1. 0 \in T
  <2> DEFINE g == [i \in 0..0 |-> << >>]
  <2>1. g = [i \in 0..0 |-> IF i = 0 THEN << >>
                            ELSE IF PriorityOf[s[i]] = k THEN Append(g[i - 1], s[i])
                            ELSE g[i - 1]]
    <3>1. \A i \in 0..0 : i = 0
      OBVIOUS
    <3> QED BY <3>1
  <2>2. Gathers(s, k, 0, g)
    <3> HIDE DEF g
    <3> QED BY <2>1 DEF Gathers
  <2> HIDE DEF g
  <2> QED BY <2>2
<1>2. ASSUME NEW m \in 0..(n - 1), m \in T PROVE m + 1 \in T
  <2>1. PICK g : Gathers(s, k, m, g)
    BY <1>2
  <2> DEFINE part(i, f) == IF PriorityOf[s[i]] = k THEN Append(f[i - 1], s[i])
                           ELSE f[i - 1]
             h == [i \in 0..(m + 1) |-> IF i = 0 THEN << >> ELSE part(i, g)]
  <2>2. g = [i \in 0..m |-> IF i = 0 THEN << >> ELSE part(i, g)]
    BY <2>1 DEF Gathers
  <2>3. \A i \in 0..m : h[i] = g[i]
    <3> HIDE DEF part
    <3>1. \A i \in 0..m : i \in 0..(m + 1)
      OBVIOUS
    <3>2. \A i \in 0..m : g[i] = IF i = 0 THEN << >> ELSE part(i, g)
      BY <2>2
    <3> QED BY <3>1, <3>2
  <2>4. \A i \in 0..(m + 1) : i # 0 => h[i - 1] = g[i - 1]
    <3>1. \A i \in 0..(m + 1) : i # 0 => i - 1 \in 0..m
      OBVIOUS
    <3> HIDE DEF h
    <3> QED BY <2>3, <3>1
  <2> DEFINE e == [i \in 0..(m + 1) |-> IF i = 0 THEN << >> ELSE part(i, h)]
  <2>5. ASSUME NEW i \in 0..(m + 1) PROVE h[i] = e[i]
    <3>1. i # 0 => part(i, h) = part(i, g)
      <4> HIDE DEF h
      <4> QED BY <2>4
    <3> HIDE DEF part
    <3> QED BY <3>1
  <2>6. h = e
    <3>1. h = [i \in 0..(m + 1) |-> h[i]] /\ e = [i \in 0..(m + 1) |-> e[i]]
      OBVIOUS
    <3> HIDE DEF h, e
    <3> QED BY <2>5, <3>1
  <2>7. Gathers(s, k, m + 1, h)
    <3> HIDE DEF h
    <3> QED BY <2>6 DEF Gathers
  <2> HIDE DEF h
  <2> QED BY <2>7
<1>3. n \in 0..n
  OBVIOUS
<1> HIDE DEF T
<1>4. n \in T
  BY <1>1, <1>2, <1>3, UpTo
<1> QED BY <1>4 DEF T

\* The lanes of the beginnings of a slice.
Grows(s, k, g) ==
  /\ LaneOf(s, k) = g[Len(s)]
  /\ g[0] = << >>
  /\ \A i \in 1..Len(s) :
       g[i] = IF PriorityOf[s[i]] = k THEN Append(g[i - 1], s[i]) ELSE g[i - 1]
  /\ \A i \in 0..Len(s) : g[i] \in Seq(Packets)

LEMMA LaneGrows ==
  ASSUME NEW s \in Seq(Packets), NEW k
  PROVE  \E g : Grows(s, k, g)
<1> DEFINE n == Len(s)
           g == CHOOSE g : Gathers(s, k, n, g)
<1>1. n \in Nat /\ \A i \in 1..n : s[i] \in Packets
  BY LenProperties, ElementOfSeq
<1>2. Gathers(s, k, n, g)
  BY <1>1, GathersExists
<1>3. LaneOf(s, k) = g[n]
  BY DEF LaneOf, Gathers
<1> HIDE DEF g, n
<1>4. \A i \in 0..n : g[i] = IF i = 0 THEN << >>
                             ELSE IF PriorityOf[s[i]] = k THEN Append(g[i - 1], s[i])
                             ELSE g[i - 1]
  BY <1>2 DEF Gathers
<1>5. g[0] = << >>
  BY <1>1, <1>4
<1>6. \A i \in 1..n : g[i] = IF PriorityOf[s[i]] = k THEN Append(g[i - 1], s[i])
                             ELSE g[i - 1]
  <2>1. \A i \in 1..n : i \in 0..n /\ i # 0
    BY <1>1
  <2> QED BY <1>4, <2>1
<1> DEFINE T == {i \in Nat : g[i] \in Seq(Packets)}
<1>7. 0 \in T
  <2>1. << >> \in Seq(Packets)
    OBVIOUS
  <2> QED BY <1>5, <2>1
<1>8. ASSUME NEW m \in 0..(n - 1), m \in T PROVE m + 1 \in T
  <2>1. m + 1 \in 1..n /\ (m + 1) - 1 = m /\ m + 1 \in Nat
    BY <1>1
  <2>2. g[m + 1] = IF PriorityOf[s[m + 1]] = k THEN Append(g[m], s[m + 1]) ELSE g[m]
    BY <1>6, <2>1
  <2>3. s[m + 1] \in Packets /\ g[m] \in Seq(Packets)
    BY <1>1, <1>8, <2>1
  <2>4. g[m + 1] \in Seq(Packets)
    BY <2>2, <2>3
  <2> QED BY <2>1, <2>4
<1> HIDE DEF T
<1>9. \A m \in 0..n : m \in T
  BY <1>1, <1>7, <1>8, UpTo
<1>10. Grows(s, k, g)
  BY <1>3, <1>5, <1>6, <1>9 DEF Grows, n, T
<1> QED BY <1>10

\* A lane is empty when no packet of the slice is of its level.
LEMMA LaneEmpty ==
  ASSUME NEW s \in Seq(Packets), NEW k
  PROVE  /\ LaneOf(s, k) \in Seq(Packets)
         /\ LaneOf(s, k) = << >> <=> \A i \in 1..Len(s) : PriorityOf[s[i]] # k
<1> DEFINE n == Len(s)
<1>1. n \in Nat /\ \A i \in 1..n : s[i] \in Packets
  BY LenProperties, ElementOfSeq
<1>0. PICK g : Grows(s, k, g)
  BY LaneGrows
<1>2. /\ LaneOf(s, k) = g[n]
      /\ g[0] = << >>
      /\ \A i \in 1..n : g[i] = IF PriorityOf[s[i]] = k THEN Append(g[i - 1], s[i])
                               ELSE g[i - 1]
      /\ \A i \in 0..n : g[i] \in Seq(Packets)
  BY <1>0 DEF Grows
<1> HIDE DEF n
<1> DEFINE T == {m \in 0..n : g[m] = << >> <=> \A i \in 1..m : PriorityOf[s[i]] # k}
<1>3. 0 \in T
  BY <1>1, <1>2
<1>4. ASSUME NEW m \in 0..(n - 1), m \in T PROVE m + 1 \in T
  <2>1. /\ m + 1 \in 1..n /\ (m + 1) - 1 = m /\ m + 1 \in 0..n /\ m \in 0..n
        /\ \A i \in 1..(m + 1) : i \in 1..m \/ i = m + 1
        /\ \A i \in 1..m : i \in 1..(m + 1)
        /\ m + 1 \in 1..(m + 1)
    BY <1>1
  <2>2. g[m + 1] = IF PriorityOf[s[m + 1]] = k THEN Append(g[m], s[m + 1]) ELSE g[m]
    BY <1>2, <2>1
  <2>3. g[m] \in Seq(Packets) /\ s[m + 1] \in Packets
    BY <1>1, <1>2, <2>1
  <2>4. Append(g[m], s[m + 1]) # << >>
    BY <2>3
  <2>5. g[m] = << >> <=> \A i \in 1..m : PriorityOf[s[i]] # k
    BY <1>4
  <2>6. g[m + 1] = << >> <=> \A i \in 1..(m + 1) : PriorityOf[s[i]] # k
    <3>1. CASE PriorityOf[s[m + 1]] = k
      BY <2>1, <2>2, <2>4, <3>1
    <3>2. CASE PriorityOf[s[m + 1]] # k
      BY <2>1, <2>2, <2>5, <3>2
    <3> QED BY <3>1, <3>2
  <2> QED BY <2>1, <2>6
<1> HIDE DEF T
<1>5. n \in T
  <2>1. n \in 0..n
    BY <1>1
  <2> QED BY <1>1, <1>3, <1>4, <2>1, UpTo
<1> QED BY <1>1, <1>2, <1>5 DEF T, n

\* A packet put behind all those of its level joins the tail of its lane, and no
\* other lane changes.
LEMMA LaneOfInserted ==
  ASSUME NEW s \in Seq(Packets), NEW p \in Packets, NEW i \in 1..(Len(s) + 1), NEW k,
         \A j \in i..Len(s) : PriorityOf[s[j]] # PriorityOf[p]
  PROVE  LaneOf(Inserted(s, i, p), k) =
           IF PriorityOf[p] = k THEN Append(LaneOf(s, k), p) ELSE LaneOf(s, k)
<1> DEFINE n == Len(s)
           t == Inserted(s, i, p)
           With(lane) == IF PriorityOf[p] = k THEN Append(lane, p) ELSE lane
<1>1. /\ t \in Seq(Packets) /\ Len(t) = n + 1
      /\ \A j \in 1..(n + 1) : t[j] = IF j < i THEN s[j] ELSE IF j = i THEN p ELSE s[j - 1]
  <2> HIDE DEF With
  <2> QED BY InsertedIsSeq
<1>2. n \in Nat /\ i \in 1..(n + 1)
  BY LenProperties
<1>3. PICK g : Grows(s, k, g)
  BY LaneGrows
<1>g. /\ LaneOf(s, k) = g[n] /\ g[0] = << >>
      /\ \A j \in 1..n :
           g[j] = IF PriorityOf[s[j]] = k THEN Append(g[j - 1], s[j]) ELSE g[j - 1]
  BY <1>3 DEF Grows
<1>4. PICK h : Grows(t, k, h)
  <2> HIDE DEF t
  <2> QED BY <1>1, LaneGrows
<1>h. /\ LaneOf(t, k) = h[n + 1] /\ h[0] = << >>
      /\ \A j \in 1..(n + 1) :
           h[j] = IF PriorityOf[t[j]] = k THEN Append(h[j - 1], t[j]) ELSE h[j - 1]
  <2> HIDE DEF t, n
  <2> QED BY <1>1, <1>4 DEF Grows
<1>0. \A j \in i..n : PriorityOf[s[j]] # PriorityOf[p]
  OBVIOUS
<1> HIDE DEF n, t, With
<1> DEFINE T == {m \in 0..(i - 1) : h[m] = g[m]}
<1>5. i - 1 \in T
  <2>1. 0 \in T
    BY <1>2, <1>g, <1>h
  <2>2. ASSUME NEW m \in 0..((i - 1) - 1), m \in T PROVE m + 1 \in T
    <3>1. /\ m + 1 \in 1..n /\ m + 1 \in 1..(n + 1) /\ m + 1 < i /\ (m + 1) - 1 = m
          /\ m + 1 \in 0..(i - 1)
      BY <1>2
    <3>2. t[m + 1] = s[m + 1]
      BY <1>1, <3>1
    <3>3. h[m] = g[m]
      BY <2>2
    <3>4. h[m + 1] = g[m + 1]
      BY <1>g, <1>h, <3>1, <3>2, <3>3
    <3> QED BY <3>1, <3>4
  <2>3. i - 1 \in Nat /\ i - 1 \in 0..(i - 1)
    BY <1>2
  <2> HIDE DEF T
  <2> QED BY <2>1, <2>2, <2>3, UpTo
<1> DEFINE U == {m \in 0..(n + 1 - i) : h[i + m] = With(g[(i - 1) + m])}
<1>6. n + 1 - i \in U
  <2>1. 0 \in U
    <3>1. i \in 1..(n + 1) /\ t[i] = p /\ i + 0 = i /\ (i - 1) + 0 = i - 1
      BY <1>1, <1>2
    <3>2. h[i] = With(h[i - 1]) /\ h[i - 1] = g[i - 1]
      BY <1>h, <1>5, <3>1 DEF With
    <3>3. 0 \in 0..(n + 1 - i)
      BY <1>2
    <3> QED BY <3>1, <3>2, <3>3
  <2>2. ASSUME NEW m \in 0..((n + 1 - i) - 1), m \in U PROVE m + 1 \in U
    <3> DEFINE j == i + m
    <3>1. /\ j \in 1..n /\ j + 1 \in 1..(n + 1) /\ (j + 1) - 1 = j /\ ~ j + 1 < i
          /\ j + 1 # i /\ j \in i..n /\ i + (m + 1) = j + 1 /\ (i - 1) + (m + 1) = j
          /\ (i - 1) + m = j - 1 /\ m + 1 \in 0..(n + 1 - i)
      BY <1>2
    <3> HIDE DEF j
    <3>2. t[j + 1] = s[j]
      BY <1>1, <3>1
    <3>3. h[j] = With(g[j - 1])
      BY <2>2, <3>1 DEF j
    <3>4. /\ h[j + 1] = IF PriorityOf[s[j]] = k THEN Append(h[j], s[j]) ELSE h[j]
          /\ g[j] = IF PriorityOf[s[j]] = k THEN Append(g[j - 1], s[j]) ELSE g[j - 1]
          /\ PriorityOf[s[j]] # PriorityOf[p]
      BY <1>0, <1>g, <1>h, <3>1, <3>2
    <3>5. h[j + 1] = With(g[j])
      BY <3>3, <3>4 DEF With
    <3> QED BY <3>1, <3>5
  <2>3. n + 1 - i \in Nat /\ n + 1 - i \in 0..(n + 1 - i)
    BY <1>2
  <2> HIDE DEF U
  <2> QED BY <2>1, <2>2, <2>3, UpTo
<1>7. i + (n + 1 - i) = n + 1 /\ (i - 1) + (n + 1 - i) = n
  BY <1>2
<1>8. h[n + 1] = With(g[n])
  BY <1>6, <1>7
<1> QED BY <1>g, <1>h, <1>8 DEF With, t

\* Without its first packet a slice has the same lanes, but for the head of that
\* packet's own.
LEMMA LaneOfTail ==
  ASSUME NEW s \in Seq(Packets), s # << >>, NEW k
  PROVE  LaneOf(s, k) = IF PriorityOf[Head(s)] = k
                        THEN << Head(s) >> \o LaneOf(Tail(s), k) ELSE LaneOf(Tail(s), k)
<1> DEFINE n == Len(s)
           t == Tail(s)
           p == Head(s)
           With(lane) == IF PriorityOf[p] = k THEN << p >> \o lane ELSE lane
<1>1. /\ n \in Nat \ {0} /\ t \in Seq(Packets) /\ Len(t) = n - 1 /\ p = s[1] /\ p \in Packets
      /\ \A j \in 1..(n - 1) : t[j] = s[j + 1] /\ t[j] \in Packets
  BY EmptySeq, HeadTailProperties, LenProperties, ElementOfSeq
<1>2. PICK g : Grows(s, k, g)
  BY LaneGrows
<1>g. /\ LaneOf(s, k) = g[n] /\ g[0] = << >>
      /\ \A j \in 1..n :
           g[j] = IF PriorityOf[s[j]] = k THEN Append(g[j - 1], s[j]) ELSE g[j - 1]
  BY <1>2 DEF Grows
<1>3. PICK h : Grows(t, k, h)
  <2> HIDE DEF t
  <2> QED BY <1>1, LaneGrows
<1>h. /\ LaneOf(t, k) = h[n - 1] /\ h[0] = << >>
      /\ \A j \in 1..(n - 1) :
           h[j] = IF PriorityOf[t[j]] = k THEN Append(h[j - 1], t[j]) ELSE h[j - 1]
      /\ \A j \in 0..(n - 1) : h[j] \in Seq(Packets)
  <2> HIDE DEF t, n
  <2> QED BY <1>1, <1>3 DEF Grows
<1> HIDE DEF n, t, p, With
<1> DEFINE T == {m \in 0..(n - 1) : g[m + 1] = With(h[m])}
<1>4. n - 1 \in T
  <2>1. 0 \in T
    <3>1. 1 \in 1..n /\ 0 + 1 = 1 /\ 1 - 1 = 0 /\ 0 \in 0..(n - 1)
      BY <1>1
    <3>2. g[1] = IF PriorityOf[p] = k THEN Append(<< >>, p) ELSE << >>
      BY <1>1, <1>g, <3>1
    <3>3. Append(<< >>, p) = << p >> \o << >>
      OBVIOUS
    <3>4. g[1] = With(h[0])
      BY <1>h, <3>2, <3>3 DEF With
    <3> QED BY <3>1, <3>4
  <2>2. ASSUME NEW m \in 0..((n - 1) - 1), m \in T PROVE m + 1 \in T
    <3> DEFINE j == m + 1
    <3>1. /\ j \in 1..(n - 1) /\ j + 1 \in 1..n /\ (j + 1) - 1 = j /\ j - 1 = m
          /\ j \in 0..(n - 1) /\ m \in 0..(n - 1)
      BY <1>1
    <3>2. t[j] = s[j + 1] /\ t[j] \in Packets
      BY <1>1, <3>1
    <3>3. g[j] = With(h[m])
      BY <2>2
    <3> HIDE DEF j
    <3>4. /\ g[j + 1] = IF PriorityOf[t[j]] = k THEN Append(g[j], t[j]) ELSE g[j]
          /\ h[j] = IF PriorityOf[t[j]] = k THEN Append(h[m], t[j]) ELSE h[m]
      BY <1>g, <1>h, <3>1, <3>2
    <3>5. Append(<< p >> \o h[m], t[j]) = << p >> \o Append(h[m], t[j])
      <4>1. h[m] \in Seq(Packets) /\ << p >> \in Seq(Packets)
        BY <1>1, <1>h, <3>1
      <4>2. << p >> \o h[m] \in Seq(Packets)
        BY <4>1
      <4>3. Append(<< p >> \o h[m], t[j]) = (<< p >> \o h[m]) \o << t[j] >>
        BY <3>2, <4>2, AppendIsConcat
      <4>4. Append(h[m], t[j]) = h[m] \o << t[j] >>
        BY <3>2, <4>1, AppendIsConcat
      <4>5. << t[j] >> \in Seq(Packets)
        BY <3>2
      <4>6. (<< p >> \o h[m]) \o << t[j] >> = << p >> \o (h[m] \o << t[j] >>)
        <5> DEFINE a == << p >>
                   b == h[m]
                   c == << t[j] >>
        <5>1. a \in Seq(Packets) /\ b \in Seq(Packets) /\ c \in Seq(Packets)
          BY <4>1, <4>5
        <5> HIDE DEF a, b, c
        <5>2. (a \o b) \o c = a \o (b \o c)
          BY <5>1, ConcatAssociative
        <5> QED BY <5>2 DEF a, b, c
      <4> QED BY <4>3, <4>4, <4>6
    <3>6. g[j + 1] = With(h[j])
      BY <3>3, <3>4, <3>5 DEF With
    <3> QED BY <3>1, <3>6 DEF j
  <2>3. n - 1 \in Nat /\ n - 1 \in 0..(n - 1)
    BY <1>1
  <2> HIDE DEF T
  <2> QED BY <2>1, <2>2, <2>3, UpTo
<1>5. g[n] = With(h[n - 1])
  <2>1. (n - 1) + 1 = n
    BY <1>1
  <2> QED BY <1>4, <2>1
<1> QED BY <1>g, <1>h, <1>5 DEF With, t, p

-----------------------------------------------------------------------------
(* The number of packets in all lanes. *)

Levels == {PriorityOf[p] : p \in Packets}

\* There are at most 256 levels.
LEMMA LevelsFinite == IsFiniteSet(Levels) /\ Levels \subseteq 0..255
<1>1. Levels \subseteq 0..255
  BY PriorityAssumption DEF Levels
<1>2. IsFiniteSet(0..255)
  <2>1. 0 \in Int /\ 255 \in Int
    OBVIOUS
  <2> QED BY <2>1, FS_Interval, Zenon
<1> QED BY <1>1, <1>2, FS_Subset

\* How MapThenFoldSet adds the lanes up, set by set.
Summed(f, sets, g) ==
  g = [s \in sets |-> IF s = {} THEN 0
                      ELSE LET x == CHOOSE y \in s : TRUE
                           IN  Len(f[x]) + g[s \ {x}]]

\* A function that does exists: otherwise there is a least size of sets without.
LEMMA SumsExist ==
  ASSUME NEW f
  PROVE  \E g : Summed(f, SUBSET Levels, g)
<1> DEFINE Upto(m) == {s \in SUBSET Levels : Cardinality(s) <= m}
           bad == {m \in Nat : ~ \E g : Summed(f, Upto(m), g)}
           pick(s) == CHOOSE y \in s : TRUE
<1>1. \A s \in SUBSET Levels : IsFiniteSet(s) /\ Cardinality(s) \in Nat
  BY LevelsFinite, FS_Subset, FS_CardinalityType
<1>2. \A s \in SUBSET Levels :
        s # {} => /\ pick(s) \in s
                  /\ Cardinality(s \ {pick(s)}) = Cardinality(s) - 1
  BY <1>1, FS_RemoveElement
<1>3. \A s \in SUBSET Levels : Cardinality(s) = 0 => s = {}
  BY <1>1, FS_EmptySet
<1>4. bad = {}
  <2> SUFFICES ASSUME bad # {} PROVE FALSE
    OBVIOUS
  <2>1. PICK m \in bad : \A l \in bad : m <= l
    <3>1. bad \in SUBSET Nat
      OBVIOUS
    <3> HIDE DEF bad
    <3> QED BY <3>1, LeastNat
  <2>2. \E g : \A s \in Upto(m) :
          s # {} => s \ {pick(s)} \in DOMAIN g
                    /\ \A h : h = [t \in Upto(m) |-> IF t = {} THEN 0
                                    ELSE Len(f[pick(t)]) + g[t \ {pick(t)}]]
                              => h[s \ {pick(s)}] = g[s \ {pick(s)}]
    <3>1. CASE m = 0
      <4>1. \A s \in Upto(m) : s = {}
        BY <1>1, <1>3, <3>1
      <4> QED BY <4>1
    <3>2. CASE m # 0
      <4>1. m \in Nat /\ m - 1 \in Nat
        BY <3>2
      <4>2. PICK g : Summed(f, Upto(m - 1), g)
        <5>1. m - 1 \notin bad
          <6> HIDE DEF bad
          <6> QED BY <2>1, <4>1
        <5> HIDE DEF Upto
        <5> QED BY <4>1, <5>1
      <4>3. \A s \in Upto(m) : s # {} => s \ {pick(s)} \in Upto(m - 1)
        BY <1>1, <1>2, <4>1
      <4>4. Upto(m - 1) \subseteq Upto(m)
        BY <1>1, <4>1
      <4> HIDE DEF Upto
      <4>5. DOMAIN g = Upto(m - 1)
        BY <4>2 DEF Summed
      <4>6. \A t \in Upto(m - 1) :
              g[t] = IF t = {} THEN 0 ELSE Len(f[pick(t)]) + g[t \ {pick(t)}]
        BY <4>2 DEF Summed
      <4> HIDE DEF pick
      <4>7. ASSUME NEW s \in Upto(m), s # {},
                   NEW h, h = [t \in Upto(m) |-> IF t = {} THEN 0
                                 ELSE Len(f[pick(t)]) + g[t \ {pick(t)}]]
            PROVE  h[s \ {pick(s)}] = g[s \ {pick(s)}]
        <5> DEFINE r == s \ {pick(s)}
        <5>1. r \in Upto(m - 1) /\ r \in Upto(m)
          BY <4>3, <4>4, <4>7
        <5> HIDE DEF r
        <5>2. h[r] = IF r = {} THEN 0 ELSE Len(f[pick(r)]) + g[r \ {pick(r)}]
          BY <4>7, <5>1
        <5>3. h[r] = g[r]
          BY <4>6, <5>1, <5>2
        <5> QED BY <5>3 DEF r
      <4> QED BY <4>3, <4>5, <4>7
    <3> QED BY <3>1, <3>2
  <2>3. PICK g : \A s \in Upto(m) :
          s # {} => s \ {pick(s)} \in DOMAIN g
                    /\ \A h : h = [t \in Upto(m) |-> IF t = {} THEN 0
                                    ELSE Len(f[pick(t)]) + g[t \ {pick(t)}]]
                              => h[s \ {pick(s)}] = g[s \ {pick(s)}]
    BY <2>2
  <2> DEFINE h == [t \in Upto(m) |-> IF t = {} THEN 0 ELSE Len(f[pick(t)]) + g[t \ {pick(t)}]]
  <2>4. \A s \in Upto(m) : s # {} => h[s \ {pick(s)}] = g[s \ {pick(s)}]
    <3> HIDE DEF Upto, pick
    <3> QED BY <2>3
  <2>5. h = [t \in Upto(m) |-> IF t = {} THEN 0 ELSE Len(f[pick(t)]) + h[t \ {pick(t)}]]
    <3> HIDE DEF Upto, pick
    <3> QED BY <2>4
  <2>6. Summed(f, Upto(m), h)
    <3> HIDE DEF Upto, h
    <3> QED BY <2>5 DEF Summed
  <2> HIDE DEF h, Upto
  <2> QED BY <2>1, <2>6
<1>5. Upto(Cardinality(Levels)) = SUBSET Levels /\ Cardinality(Levels) \in Nat
  <2>1. \A s \in SUBSET Levels : Cardinality(s) <= Cardinality(Levels)
    BY LevelsFinite, FS_Subset
  <2> QED BY <1>1, <2>1
<1>6. Cardinality(Levels) \notin bad
  BY <1>4
<1> HIDE DEF Upto
<1> QED BY <1>5, <1>6

\* The number of packets in all lanes, as Held counts them.
Total(f) == Buffer!MapThenSumSet(LAMBDA k : Len(f[k]), Buffer!Levels)

\* The total is what it gives for all the levels.
LEMMA TotalIsSum ==
  ASSUME NEW f
  PROVE  \E g : Summed(f, SUBSET Levels, g) /\ Total(f) = g[Levels]
<1> DEFINE g == CHOOSE g : Summed(f, SUBSET Levels, g)
<1>1. Summed(f, SUBSET Levels, g)
  BY SumsExist
<1>2. Total(f) = g[Levels]
  BY DEF Total, Buffer!Levels, Levels, Buffer!MapThenSumSet, Buffer!MapThenFoldSet, Summed
<1> QED BY <1>1, <1>2

\* When one lane changes its length, the total changes as much.
LEMMA TotalChanges ==
  ASSUME NEW f \in [Levels -> Seq(Packets)], NEW e \in [Levels -> Seq(Packets)],
         NEW n \in Levels, NEW d \in Int,
         Len(e[n]) = Len(f[n]) + d, \A k \in Levels : k # n => e[k] = f[k]
  PROVE  Total(f) \in Int /\ Total(e) = Total(f) + d
<1> DEFINE pick(s) == CHOOSE y \in s : TRUE
<1>f. PICK g : Summed(f, SUBSET Levels, g) /\ Total(f) = g[Levels]
  BY TotalIsSum
<1>e. PICK h : Summed(e, SUBSET Levels, h) /\ Total(e) = h[Levels]
  BY TotalIsSum
<1>1. \A s \in SUBSET Levels :
        /\ g[s] = IF s = {} THEN 0 ELSE Len(f[pick(s)]) + g[s \ {pick(s)}]
        /\ h[s] = IF s = {} THEN 0 ELSE Len(e[pick(s)]) + h[s \ {pick(s)}]
  BY <1>f, <1>e DEF Summed
<1>2. \A s \in SUBSET Levels : s # {} => pick(s) \in s
  OBVIOUS
<1> DEFINE right(s) == g[s] \in Int /\ h[s] = g[s] + (IF n \in s THEN d ELSE 0)
           bad == {s \in SUBSET Levels : ~ right(s)}
<1>3. bad = {}
  <2> SUFFICES ASSUME bad # {} PROVE FALSE
    OBVIOUS
  <2>1. PICK s \in bad : \A r \in bad : ~ (<<r, s>> \in StrictSubsetOrdering(Levels))
    <3>1. bad \subseteq FiniteSubsetsOf(Levels)
      BY LevelsFinite, FS_Subset DEF FiniteSubsetsOf
    <3> HIDE DEF bad
    <3> QED BY <3>1, FS_StrictSubsetOrderingWellFounded, WFMin
  <2>2. s \in SUBSET Levels /\ ~ right(s)
    OBVIOUS
  <2>3. s # {}
    <3>1. g[{}] = 0 /\ h[{}] = 0
      BY <1>1
    <3>2. right({})
      BY <3>1
    <3> QED BY <2>2, <3>2
  <2> DEFINE x == pick(s)
             r == s \ {x}
  <2>4. x \in s /\ x \in Levels
    BY <1>2, <2>2, <2>3
  <2>5. right(r)
    <3>1. r \in SUBSET Levels /\ r \subseteq s /\ r # s
      BY <2>2, <2>4
    <3>2. <<r, s>> \in StrictSubsetOrdering(Levels)
      BY <2>2, <3>1 DEF StrictSubsetOrdering
    <3> HIDE DEF r, right
    <3> QED BY <2>1, <3>1, <3>2
  <2>6. g[s] = Len(f[x]) + g[r] /\ h[s] = Len(e[x]) + h[r]
    BY <1>1, <2>2, <2>3
  <2>7. Len(e[x]) = IF x = n THEN Len(f[x]) + d ELSE Len(f[x])
    <3> HIDE DEF x
    <3> QED BY <2>4
  <2>8. Len(f[x]) \in Int
    BY <2>4, LenProperties
  <2>9. CASE x = n
    <3>1. n \notin r /\ n \in s
      BY <2>4, <2>9
    <3> HIDE DEF r, x
    <3> QED BY <2>2, <2>5, <2>6, <2>7, <2>8, <2>9, <3>1
  <2>10. CASE x # n
    <3>1. n \in r <=> n \in s
      BY <2>10
    <3> HIDE DEF r, x
    <3> QED BY <2>2, <2>5, <2>6, <2>7, <2>8, <2>10, <3>1
  <2> QED BY <2>9, <2>10
<1>4. right(Levels)
  BY <1>3
<1> QED BY <1>f, <1>e, <1>4

\* The total of empty lanes.
LEMMA TotalOfEmpty ==
  ASSUME NEW f, \A k \in Levels : Len(f[k]) = 0
  PROVE  Total(f) = 0
<1> DEFINE pick(s) == CHOOSE y \in s : TRUE
<1>1. PICK g : Summed(f, SUBSET Levels, g) /\ Total(f) = g[Levels]
  BY TotalIsSum
<1>2. \A s \in SUBSET Levels :
        g[s] = IF s = {} THEN 0 ELSE Len(f[pick(s)]) + g[s \ {pick(s)}]
  BY <1>1 DEF Summed
<1> DEFINE bad == {s \in SUBSET Levels : g[s] # 0}
<1>3. bad = {}
  <2> SUFFICES ASSUME bad # {} PROVE FALSE
    OBVIOUS
  <2>1. PICK s \in bad : \A r \in bad : ~ (<<r, s>> \in StrictSubsetOrdering(Levels))
    <3>1. bad \subseteq FiniteSubsetsOf(Levels)
      BY LevelsFinite, FS_Subset DEF FiniteSubsetsOf
    <3> HIDE DEF bad
    <3> QED BY <3>1, FS_StrictSubsetOrderingWellFounded, WFMin
  <2>2. s \in SUBSET Levels /\ g[s] # 0
    OBVIOUS
  <2>3. s # {}
    BY <1>2, <2>2
  <2> DEFINE x == pick(s)
             r == s \ {x}
  <2>4. x \in s /\ x \in Levels
    BY <2>2, <2>3
  <2>5. r \in SUBSET Levels /\ <<r, s>> \in StrictSubsetOrdering(Levels)
    BY <2>2, <2>4 DEF StrictSubsetOrdering
  <2>6. g[r] = 0
    <3> HIDE DEF r
    <3> QED BY <2>1, <2>5
  <2>7. g[s] = Len(f[x]) + g[r]
    BY <1>2, <2>2, <2>3
  <2>8. Len(f[x]) = 0
    BY <2>4
  <2> HIDE DEF x, r
  <2> QED BY <2>2, <2>6, <2>7, <2>8
<1> QED BY <1>1, <1>3

-----------------------------------------------------------------------------
(* The slice implements the lanes. *)

Lanes == [k \in Levels |-> Lane(k)]

\* As many packets in the lanes as in the slice.
RInv == IInv /\ Total(Lanes) = Len(packets)

\* The lanes hold what the total says.
LEMMA HeldIsTotal == Buffer!Held = Total(Lanes)
BY DEF Buffer!Held, Total, Lanes, Levels

\* The lanes of a state of the invariant.
LEMMA LanesTyped ==
  ASSUME IInv
  PROVE  /\ packets \in Seq(Packets) /\ Len(packets) \in Nat
         /\ \A i \in 1..Len(packets) : packets[i] \in Packets
         /\ Lanes \in [Levels -> Seq(Packets)]
         /\ \A k \in Levels : Lanes[k] = LaneOf(packets, k)
         /\ \A p \in Packets : PriorityOf[p] \in Levels /\ PriorityOf[p] \in Int
<1>1. packets \in Seq(Packets)
  BY DEF IInv, TypeOK
<1>2. Len(packets) \in Nat /\ \A i \in 1..Len(packets) : packets[i] \in Packets
  BY <1>1, LenProperties, ElementOfSeq
<1>3. \A k \in Levels : Lanes[k] = LaneOf(packets, k)
  BY DEF Lanes, Lane
<1>4. \A k \in Levels : LaneOf(packets, k) \in Seq(Packets)
  BY <1>1, LaneEmpty
<1>5. Lanes \in [Levels -> Seq(Packets)]
  BY <1>3, <1>4 DEF Lanes, Lane
<1>6. \A p \in Packets : PriorityOf[p] \in Levels /\ PriorityOf[p] \in Int
  BY PriorityAssumption DEF Levels
<1> QED BY <1>1, <1>2, <1>3, <1>5, <1>6

\* No packets, no lanes.
LEMMA LaneOfNone ==
  ASSUME NEW k
  PROVE  LaneOf(<< >>, k) = << >> /\ Len(<< >>) = 0
<1>1. << >> \in Seq(Packets) /\ Len(<< >>) = 0
  BY EmptySeq
<1>2. 1..0 = {}
  OBVIOUS
<1>3. PICK s : s = << >>
  OBVIOUS
<1>4. s \in Seq(Packets) /\ 1..Len(s) = {}
  BY <1>1, <1>2, <1>3
<1>5. LaneOf(s, k) = << >>
  BY <1>4, LaneEmpty
<1> QED BY <1>1, <1>3, <1>5

\* Push joins the tail of one lane.
LEMMA PushLanes ==
  ASSUME IInv, IInv', NEW p \in Packets, Push(p)
  PROVE  /\ Lanes' = [Lanes EXCEPT ![PriorityOf[p]] = Append(@, p)]
         /\ Len(packets') = Len(packets) + 1
<1> DEFINE q == PriorityOf[p]
<1>1. PICK i \in 1..(Len(packets) + 1) :
        IsInsertIndex(i, p) /\ packets' = Inserted(packets, i, p)
  BY DEF Push
<1>2. /\ packets \in Seq(Packets) /\ Len(packets) \in Nat
      /\ \A j \in 1..Len(packets) : packets[j] \in Packets
      /\ Lanes \in [Levels -> Seq(Packets)]
      /\ \A k \in Levels : Lanes[k] = LaneOf(packets, k)
      /\ q \in Levels
  BY LanesTyped
<1>3. Len(packets') = Len(packets) + 1
  BY <1>1, <1>2, InsertedIsSeq
<1>4. ASSUME NEW j \in i..Len(packets)
      PROVE  PriorityOf[packets[j]] # q
  <2>1. /\ i \in 1..Len(packets) /\ j \in 1..Len(packets) /\ i <= j
        /\ packets[i] \in Packets /\ packets[j] \in Packets
    BY <1>2
  <2>2. MoreUrgent(p, packets[i])
    BY <1>1, <2>1 DEF IsInsertIndex
  <2>3. ~ MoreUrgent(packets[j], packets[i])
    <3>1. CASE i = j
      BY <2>1, <3>1, MoreUrgentOrder
    <3>2. CASE i # j
      <4>1. i < j
        BY <2>1, <3>2
      <4> QED BY <2>1, <4>1 DEF IInv, SortedByPriority
    <3> QED BY <3>1, <3>2
  <2>4. q \in Int /\ PriorityOf[packets[i]] \in Int /\ PriorityOf[packets[j]] \in Int
    BY <2>1, LanesTyped
  <2> HIDE DEF q
  <2>5. q < PriorityOf[packets[i]] /\ ~ PriorityOf[packets[j]] < PriorityOf[packets[i]]
    BY <2>2, <2>3 DEF MoreUrgent, q
  <2> QED BY <2>4, <2>5
<1>5. \A k \in Levels : LaneOf(packets', k) = IF q = k THEN Append(LaneOf(packets, k), p)
                                              ELSE LaneOf(packets, k)
  BY <1>1, <1>2, <1>4, LaneOfInserted
<1>6. Lanes' = [k \in Levels |-> LaneOf(packets', k)]
  BY DEF Lanes, Lane
<1>7. Lanes' = [Lanes EXCEPT ![q] = Append(@, p)]
  <2> HIDE DEF q
  <2> QED BY <1>2, <1>5, <1>6
<1> QED BY <1>3, <1>7

\* Pop serves the head of the most urgent lane that has packets.
LEMMA PopLanes ==
  ASSUME IInv, Pop
  PROVE  LET k == PriorityOf[Head(packets)]
         IN  /\ k \in Levels /\ Lanes[k] # << >> /\ Head(Lanes[k]) = Head(packets)
             /\ \A j \in Levels : Lanes[j] # << >> => k <= j
             /\ Lanes' = [Lanes EXCEPT ![k] = Tail(@)]
             /\ Len(packets') = Len(packets) - 1
<1> DEFINE p == Head(packets)
           k == PriorityOf[p]
<1>1. /\ packets \in Seq(Packets) /\ Len(packets) \in Nat
      /\ \A j \in 1..Len(packets) : packets[j] \in Packets
      /\ Lanes \in [Levels -> Seq(Packets)]
      /\ \A j \in Levels : Lanes[j] = LaneOf(packets, j)
  BY LanesTyped
<1>2. packets # << >> /\ packets' = Tail(packets)
  BY DEF Pop
<1>3. /\ p \in Packets /\ p = packets[1] /\ Tail(packets) \in Seq(Packets)
      /\ Len(packets') = Len(packets) - 1 /\ 1 \in 1..Len(packets)
  BY <1>1, <1>2, HeadTailProperties, EmptySeq
<1>4. k \in Levels /\ k \in Int
  BY <1>3, LanesTyped
<1>5. \A j \in Levels : LaneOf(packets, j) =
        IF k = j THEN << p >> \o LaneOf(packets', j) ELSE LaneOf(packets', j)
  BY <1>1, <1>2, LaneOfTail
<1>6. \A j \in Levels : LaneOf(packets', j) \in Seq(Packets)
  BY <1>2, <1>3, LaneEmpty
<1> HIDE DEF p
<1>7. \A l \in Seq(Packets) : /\ << p >> \o l # << >>
                              /\ Head(<< p >> \o l) = p /\ Tail(<< p >> \o l) = l
  BY <1>3
<1>8. /\ Lanes[k] # << >> /\ Head(Lanes[k]) = p /\ Tail(Lanes[k]) = LaneOf(packets', k)
  <2>1. Lanes[k] = << p >> \o LaneOf(packets', k)
    BY <1>1, <1>4, <1>5
  <2> HIDE DEF k
  <2> QED BY <1>4, <1>6, <1>7, <2>1
<1>9. ASSUME NEW j \in Levels, Lanes[j] # << >> PROVE k <= j
  <2>1. PICK i \in 1..Len(packets) : PriorityOf[packets[i]] = j
    BY <1>1, <1>9, LaneEmpty
  <2>2. packets[i] \in Packets /\ j \in Int
    BY <1>1, <2>1, LanesTyped
  <2>3. ~ MoreUrgent(packets[i], p)
    <3>1. CASE i = 1
      BY <1>3, <3>1, MoreUrgentOrder
    <3>2. CASE i # 1
      <4>1. 1 < i
        BY <1>1, <3>2
      <4> QED BY <1>3, <4>1 DEF IInv, SortedByPriority
    <3> QED BY <3>1, <3>2
  <2> HIDE DEF k
  <2>4. ~ j < k
    BY <2>1, <2>3 DEF MoreUrgent, k
  <2> QED BY <1>4, <2>2, <2>4
<1>10. Lanes' = [j \in Levels |-> LaneOf(packets', j)]
  BY DEF Lanes, Lane
<1>11. Lanes' = [Lanes EXCEPT ![k] = Tail(@)]
  <2> HIDE DEF k
  <2>1. \A j \in Levels : LaneOf(packets', j) = IF j = k THEN Tail(Lanes[k]) ELSE Lanes[j]
    BY <1>1, <1>4, <1>5, <1>8
  <2> QED BY <1>1, <1>4, <1>10, <2>1
<1> QED BY <1>3, <1>4, <1>8, <1>9, <1>11 DEF p

\* The invariant begins,
LEMMA InitCounts == Init => RInv
<1> SUFFICES ASSUME Init PROVE RInv
  OBVIOUS
<1>1. IInv /\ packets = << >> /\ Len(packets) = 0
  BY InitInv, EmptySeq DEF Init
<1>2. ASSUME NEW k \in Levels PROVE Len(Lanes[k]) = 0
  <2>1. Lanes[k] = LaneOf(packets, k)
    BY <1>1, LanesTyped
  <2> QED BY <1>1, <2>1, LaneOfNone
<1>3. Total(Lanes) = 0
  BY <1>2, TotalOfEmpty
<1> QED BY <1>1, <1>3 DEF RInv

\* and every call keeps it.
LEMMA StepCounts == RInv /\ [Next]_vars => RInv'
<1> SUFFICES ASSUME RInv, [Next]_vars PROVE RInv'
  OBVIOUS
<1>1. IInv /\ IInv'
  BY StepInv DEF RInv
<1>2. /\ Lanes \in [Levels -> Seq(Packets)] /\ Lanes' \in [Levels -> Seq(Packets)]
      /\ Len(packets) \in Nat
      /\ \A q \in Packets : PriorityOf[q] \in Levels
  <2>1. IInv => Lanes \in [Levels -> Seq(Packets)]
    BY LanesTyped
  <2>2. Lanes' \in [Levels -> Seq(Packets)]
    <3>1. packets' \in Seq(Packets)
      BY <1>1 DEF IInv, TypeOK
    <3>2. \A k \in Levels : LaneOf(packets', k) \in Seq(Packets)
      BY <3>1, LaneEmpty
    <3>3. Lanes' = [k \in Levels |-> LaneOf(packets', k)]
      BY DEF Lanes, Lane
    <3> QED BY <3>2, <3>3
  <2> QED BY <1>1, <2>1, <2>2, LanesTyped
<1>3. ASSUME NEW p \in Packets, Push(p) PROVE Total(Lanes)' = Len(packets')
  <2> DEFINE q == PriorityOf[p]
  <2>1. /\ Lanes' = [Lanes EXCEPT ![q] = Append(@, p)]
        /\ Len(packets') = Len(packets) + 1 /\ q \in Levels
    BY <1>1, <1>2, <1>3, PushLanes
  <2> HIDE DEF q
  <2>2. /\ Len(Lanes'[q]) = Len(Lanes[q]) + 1
        /\ \A k \in Levels : k # q => Lanes'[k] = Lanes[k]
    BY <1>2, <2>1, AppendProperties
  <2>3. PICK f, e : f = Lanes /\ e = Lanes'
    OBVIOUS
  <2>4. Total(e) = Total(f) + 1
    <3>1. /\ f \in [Levels -> Seq(Packets)] /\ e \in [Levels -> Seq(Packets)] /\ 1 \in Int
          /\ Len(e[q]) = Len(f[q]) + 1 /\ \A k \in Levels : k # q => e[k] = f[k]
      BY <1>2, <2>2, <2>3
    <3> QED BY <2>1, <3>1, TotalChanges
  <2> QED BY <2>1, <2>3, <2>4 DEF RInv
<1>4. ASSUME Pop PROVE Total(Lanes)' = Len(packets')
  <2> DEFINE q == PriorityOf[Head(packets)]
  <2>1. /\ Lanes' = [Lanes EXCEPT ![q] = Tail(@)] /\ Lanes[q] # << >>
        /\ Len(packets') = Len(packets) - 1 /\ q \in Levels
    BY <1>1, <1>4, PopLanes
  <2> HIDE DEF q
  <2>2. /\ Len(Lanes'[q]) = Len(Lanes[q]) + (-1)
        /\ \A k \in Levels : k # q => Lanes'[k] = Lanes[k]
    <3>1. Lanes[q] \in Seq(Packets) /\ Lanes'[q] = Tail(Lanes[q])
      BY <1>2, <2>1
    <3>2. Len(Tail(Lanes[q])) = Len(Lanes[q]) - 1 /\ Len(Lanes[q]) \in Nat
      BY <2>1, <3>1, HeadTailProperties, LenProperties
    <3> QED BY <1>2, <2>1, <3>1, <3>2
  <2>3. PICK f, e, d : f = Lanes /\ e = Lanes' /\ d = -1
    OBVIOUS
  <2>4. Total(e) = Total(f) + d
    <3>1. /\ f \in [Levels -> Seq(Packets)] /\ e \in [Levels -> Seq(Packets)] /\ d \in Int
          /\ Len(e[q]) = Len(f[q]) + d /\ \A k \in Levels : k # q => e[k] = f[k]
      BY <1>2, <2>2, <2>3
    <3> QED BY <2>1, <3>1, TotalChanges
  <2> QED BY <1>2, <2>1, <2>3, <2>4 DEF RInv
<1>5. ASSUME packets' = packets PROVE Total(Lanes)' = Len(packets')
  <2>1. Lanes' = Lanes
    BY <1>5 DEF Lanes, Lane
  <2> QED BY <1>5, <2>1 DEF RInv
<1>6. Total(Lanes)' = Len(packets')
  BY <1>3, <1>4, <1>5 DEF Next, PushFull, PopEmpty, vars
<1> QED BY <1>1, <1>6 DEF RInv

\* Each call is the call of the same name of the lanes.
LEMMA StepMaps ==
  ASSUME RInv, [Next]_vars
  PROVE  [Buffer!Next]_(Buffer!vars)
<1>1. /\ IInv /\ IInv' /\ Buffer!Held = Len(packets) /\ Len(packets) \in Nat
      /\ Len(packets) <= MaxSize /\ MaxSize \in Nat
  BY StepInv, HeldIsTotal, LanesTyped, MaxSizeAssumption DEF RInv, IInv, TypeOK
<1>2. /\ Lanes = [k \in {PriorityOf[p] : p \in Packets} |-> Lane(k)]
      /\ Lanes' = [k \in {PriorityOf[p] : p \in Packets} |-> Lane(k)']
      /\ Buffer!Levels = Levels
  BY DEF Lanes, Levels, Buffer!Levels
<1>3. ASSUME NEW p \in Packets, Push(p) PROVE Buffer!Push(p)
  <2>1. Lanes' = [Lanes EXCEPT ![PriorityOf[p]] = Append(@, p)]
    BY <1>1, <1>3, PushLanes
  <2>2. Buffer!Held < MaxSize
    BY <1>1, <1>3 DEF Push, Full
  <2> QED BY <1>2, <1>3, <2>1, <2>2 DEF Push, Buffer!Push
<1>4. ASSUME NEW p \in Packets, PushFull(p) PROVE Buffer!Refuse(p)
  <2>1. Buffer!Held = MaxSize
    BY <1>1, <1>4 DEF PushFull, Full
  <2>2. Lanes' = Lanes
    BY <1>4 DEF PushFull, Lanes, Lane
  <2> QED BY <1>2, <1>4, <2>1, <2>2 DEF PushFull, Buffer!Refuse
<1>5. Buffer!Occupied = {k \in Levels : Lanes[k] # << >>}
  BY <1>2 DEF Buffer!Occupied
<1>6. ASSUME Pop PROVE Buffer!Pop
  <2> DEFINE k == PriorityOf[Head(packets)]
  <2>1. /\ k \in Levels /\ Lanes[k] # << >> /\ Head(Lanes[k]) = Head(packets)
        /\ \A j \in Levels : Lanes[j] # << >> => k <= j
        /\ Lanes' = [Lanes EXCEPT ![k] = Tail(@)]
    BY <1>1, <1>6, PopLanes
  <2> HIDE DEF k
  <2>2. Buffer!Min(Buffer!Occupied) = k
    <3>1. k \in Buffer!Occupied /\ \A j \in Buffer!Occupied : k <= j
      BY <1>5, <2>1
    <3>2. \A j \in Buffer!Occupied : j \in Int
      <4>1. \A j \in Levels : j \in Int
        BY LevelsFinite
      <4> QED BY <1>5, <4>1
    <3>3. \A m \in Buffer!Occupied :
            (\A j \in Buffer!Occupied : m <= j) => m = k
      BY <3>1, <3>2
    <3> QED BY <3>1, <3>3 DEF Buffer!Min
  <2>3. Buffer!Occupied # {}
    BY <1>5, <2>1
  <2> QED BY <1>2, <1>6, <2>1, <2>2, <2>3 DEF Pop, Buffer!Pop
<1>7. ASSUME PopEmpty PROVE Buffer!PopNothing
  <2>1. \A k \in Levels : Lanes[k] = << >>
    <3>1. packets = << >> /\ packets \in Seq(Packets) /\ Len(packets) = 0
      BY <1>1, <1>7, LanesTyped, EmptySeq DEF PopEmpty
    <3>2. \A k \in Levels : LaneOf(packets, k) = << >>
      BY <3>1, LaneOfNone
    <3> QED BY <1>1, <3>2, LanesTyped
  <2>2. Lanes' = Lanes
    BY <1>7 DEF PopEmpty, Lanes, Lane
  <2> QED BY <1>2, <1>5, <1>7, <2>1, <2>2 DEF PopEmpty, Buffer!PopNothing
<1>8. ASSUME UNCHANGED vars PROVE UNCHANGED Buffer!vars
  BY <1>8 DEF vars, Buffer!vars, Lane
<1> QED BY <1>3, <1>4, <1>6, <1>7, <1>8 DEF Next, Buffer!Next

\* One sorted slice behaves as one first-in first-out lane per priority, for any
\* packets, priorities and capacity.
THEOREM Implementation == Spec => ImplementsPriorityBuffer
<1>1. Init => Buffer!Init
  <2> SUFFICES ASSUME Init PROVE Buffer!Init
    OBVIOUS
  <2>1. IInv /\ packets = << >> /\ Len(packets) = 0
    BY InitInv, EmptySeq DEF Init
  <2>2. \A k \in Levels : Lane(k) = << >>
    BY <2>1, LaneOfNone DEF Lane
  <2> QED BY <2>2 DEF Init, Buffer!Init, Buffer!Levels, Levels
<1>2. Spec => []RInv
  BY InitCounts, StepCounts, PTL DEF Spec
<1>3. RInv /\ [Next]_vars => [Buffer!Next]_(Buffer!vars)
  BY StepMaps
<1> QED BY <1>1, <1>2, <1>3, PTL DEF Spec, ImplementsPriorityBuffer, Buffer!Spec

(***************************************************************************)
(* The HopTracker.  The invariants say what an answer or a deletion means  *)
(* once it has happened; the strengthening says what is on its way before. *)
(* For a packet that is never retransmitted there is one message at most,  *)
(* it belongs to the hop tracked now, and it keeps that hop                *)
(* unacknowledged.                                                         *)
(***************************************************************************)
Once(id) == MaxSends[id] = 1

OnTheWay == flights \cup acks

\* Messages are of packets the sender has started, and acknowledgements of
\* packets some hop has received.
MessagesExplained ==
  /\ \A m \in OnTheWay : m.id \in started
  /\ \A m \in acks : m.id \in reached

\* Every packet that is tracked was started and transmitted.
TrackedWasSent == \A id \in Tracked : id \in started /\ sends[id] > 0

\* The one message of a packet that is never retransmitted.
OneMessage ==
  \A m \in OnTheWay : Once(m.id) =>
    /\ m.id \in Tracked /\ ~ hops[m.id].acked
    /\ m.hop = hops[m.id].hop /\ m.n = 1
    /\ m \in acks => m \notin flights /\ <<m.id, m.hop>> \in confirmed

TrackerIInv == /\ TrackerTypeOK
        /\ MessagesExplained
        /\ TrackedWasSent
        /\ OneMessage
        /\ AckedHopConfirmed
        /\ ForgottenOnlyWhenConfirmed

-----------------------------------------------------------------------------
\* What Track makes of the map, for the packet given and for the others.
LEMMA TrackFacts ==
  ASSUME TrackerTypeOK, NEW id \in Ids, NEW h \in HopIndexes, Track(id, h)
  PROVE  /\ Tracked' = Tracked \cup {id}
         /\ hops'[id] = [hop |-> h, acked |-> FALSE, age |-> Keep + 1]
         /\ hops'[id] \in [hop : HopIndexes, acked : BOOLEAN, age : Ages]
         /\ \A x \in Tracked \ {id} : hops'[x] = hops[x]
<1>1. Keep + 1 \in Ages
  BY KeepAssumption DEF Ages
<1> QED BY <1>1 DEF Track, NewState, Tracked, TrackerTypeOK

\* A new transmission of packet id over hop h is number n.
LEMMA TransmitFacts ==
  ASSUME TrackerTypeOK, NEW id \in Ids, NEW h \in HopIndexes,
         NEW n \in 1..MaxSends[id], Transmit(id, h, n)
  PROVE  /\ flights' = flights \cup {[id |-> id, hop |-> h, n |-> n]}
         /\ flights' \subseteq Messages
         /\ sends' \in [Ids -> Nat] /\ sends'[id] = n
         /\ \A x \in Ids : sends'[x] <= MaxSends[x]
         /\ \A x \in Ids \ {id} : sends'[x] = sends[x]
<1>1. MaxSends[id] \in Nat /\ n \in Nat
  BY SendsAssumption
<1> QED BY <1>1 DEF Transmit, TrackerTypeOK, Messages

\* Nothing is tracked or on its way at first.
LEMMA TrackerInitInv == TrackerInit => TrackerIInv
<1> SUFFICES ASSUME TrackerInit PROVE TrackerIInv
  OBVIOUS
<1>1. Tracked = {} /\ OnTheWay = {}
  BY DEF TrackerInit, Tracked, OnTheWay
<1>2. TrackerTypeOK
  BY <1>1, SendsAssumption DEF TrackerInit, TrackerTypeOK
<1> QED BY <1>1, <1>2 DEF TrackerInit, TrackerIInv, MessagesExplained,
           TrackedWasSent, OneMessage,
              AckedHopConfirmed, ForgottenOnlyWhenConfirmed, IsACKed

\* A journey begins when the last one is over: no message of a packet that is
\* never retransmitted is left from it.
LEMMA StartInv ==
  ASSUME TrackerIInv, NEW id \in Ids, Start(id)
  PROVE  TrackerIInv'
<1> USE DEF TrackerIInv
<1>1. 0 \in HopIndexes /\ 1 \in 1..MaxSends[id]
  BY HopsAssumption, SendsAssumption DEF HopIndexes
<1> DEFINE new == [id |-> id, hop |-> 0, n |-> 1]
<1>2. /\ Tracked' = Tracked \cup {id}
      /\ hops'[id] = [hop |-> 0, acked |-> FALSE, age |-> Keep + 1]
      /\ hops'[id] \in [hop : HopIndexes, acked : BOOLEAN, age : Ages]
      /\ \A x \in Tracked \ {id} : hops'[x] = hops[x]
  BY <1>1, TrackFacts DEF Start
<1>3. /\ flights' = flights \cup {new} /\ flights' \subseteq Messages
      /\ sends' \in [Ids -> Nat] /\ sends'[id] = 1
      /\ \A x \in Ids : sends'[x] <= MaxSends[x]
      /\ \A x \in Ids \ {id} : sends'[x] = sends[x]
  BY <1>1, TransmitFacts DEF Start
<1>4. /\ started' = started \cup {id} /\ acks' = acks /\ reached' = reached
      /\ confirmed' = {r \in confirmed : r[1] # id}
  BY DEF Start
<1>5. TrackerTypeOK'
  BY <1>2, <1>3, <1>4 DEF TrackerTypeOK
<1>6. MessagesExplained'
  BY <1>3, <1>4 DEF MessagesExplained, OnTheWay
<1>7. TrackedWasSent'
  BY <1>2, <1>3, <1>4 DEF TrackedWasSent, TrackerTypeOK
<1>8. OneMessage'
  <2> SUFFICES ASSUME NEW m \in OnTheWay', Once(m.id)
               PROVE  /\ m.id \in Tracked' /\ ~ hops'[m.id].acked
                      /\ m.hop = hops'[m.id].hop /\ m.n = 1
                      /\ m \in acks => m \notin flights' /\ <<m.id, m.hop>> \in confirmed'
    BY <1>4 DEF OneMessage, Once
  <2>1. ASSUME m \in OnTheWay PROVE m.id # id
    BY <2>1 DEF OneMessage, MessagesExplained, Start
  <2>2. CASE m = new
    BY <2>1, <2>2, <1>2 DEF OnTheWay
  <2>3. CASE m \in OnTheWay
    BY <2>1, <2>3, <1>2, <1>3, <1>4 DEF OneMessage, OnTheWay
  <2> QED BY <2>2, <2>3, <1>3, <1>4 DEF OnTheWay
<1>9. AckedHopConfirmed'
  BY <1>2, <1>4 DEF AckedHopConfirmed, IsACKed
<1>10. ForgottenOnlyWhenConfirmed'
  BY <1>2, <1>4 DEF ForgottenOnlyWhenConfirmed
<1> QED BY <1>5, <1>6, <1>7, <1>8, <1>9, <1>10

\* The next hop begins when the last one has acknowledged, which a packet that is
\* never retransmitted has no message left for.
LEMMA AdvanceInv ==
  ASSUME TrackerIInv, NEW id \in Ids, Advance(id)
  PROVE  TrackerIInv'
<1> USE DEF TrackerIInv
<1> DEFINE h == hops[id].hop + 1
           new == [id |-> id, hop |-> h, n |-> 1]
<1>1. h \in HopIndexes /\ 1 \in 1..MaxSends[id] /\ id \in Tracked /\ hops[id].acked
  BY HopsAssumption, SendsAssumption DEF Advance, IsACKed, TrackerTypeOK, HopIndexes
<1>2. /\ Tracked' = Tracked \cup {id}
      /\ hops'[id] = [hop |-> h, acked |-> FALSE, age |-> Keep + 1]
      /\ hops'[id] \in [hop : HopIndexes, acked : BOOLEAN, age : Ages]
      /\ \A x \in Tracked \ {id} : hops'[x] = hops[x]
  BY <1>1, TrackFacts DEF Advance
<1>3. /\ flights' = flights \cup {new} /\ flights' \subseteq Messages
      /\ sends' \in [Ids -> Nat] /\ sends'[id] = 1
      /\ \A x \in Ids : sends'[x] <= MaxSends[x]
      /\ \A x \in Ids \ {id} : sends'[x] = sends[x]
  BY <1>1, TransmitFacts DEF Advance
<1>4. /\ started' = started /\ acks' = acks
      /\ reached' = reached /\ confirmed' = confirmed
  BY DEF Advance, received
<1>5. TrackerTypeOK'
  BY <1>2, <1>3, <1>4 DEF TrackerTypeOK
<1>6. MessagesExplained'
  BY <1>1, <1>3, <1>4 DEF MessagesExplained, OnTheWay, TrackedWasSent
<1>7. TrackedWasSent'
  BY <1>1, <1>2, <1>3, <1>4 DEF TrackedWasSent, TrackerTypeOK
<1>8. OneMessage'
  <2> SUFFICES ASSUME NEW m \in OnTheWay', Once(m.id)
               PROVE  /\ m.id \in Tracked' /\ ~ hops'[m.id].acked
                      /\ m.hop = hops'[m.id].hop /\ m.n = 1
                      /\ m \in acks => m \notin flights' /\ <<m.id, m.hop>> \in confirmed'
    BY <1>4 DEF OneMessage, Once
  <2>1. ASSUME m \in OnTheWay PROVE m.id # id
    BY <2>1, <1>1 DEF OneMessage
  <2>2. CASE m = new
    BY <2>1, <2>2, <1>2 DEF OnTheWay
  <2>3. CASE m \in OnTheWay
    BY <2>1, <2>3, <1>2, <1>3, <1>4 DEF OneMessage, OnTheWay
  <2> QED BY <2>2, <2>3, <1>3, <1>4 DEF OnTheWay
<1>9. AckedHopConfirmed'
  BY <1>2, <1>4 DEF AckedHopConfirmed, IsACKed
<1>10. ForgottenOnlyWhenConfirmed'
  BY <1>2, <1>4 DEF ForgottenOnlyWhenConfirmed
<1> QED BY <1>5, <1>6, <1>7, <1>8, <1>9, <1>10

\* A packet that is never retransmitted was transmitted once: Resend is out of
\* the question for it.
LEMMA ResendInv ==
  ASSUME TrackerIInv, NEW id \in Ids, Resend(id)
  PROVE  TrackerIInv'
<1> USE DEF TrackerIInv
<1> DEFINE h == hops[id].hop
           n == sends[id] + 1
           new == [id |-> id, hop |-> h, n |-> n]
<1>1. /\ id \in Tracked /\ h \in HopIndexes
      /\ n \in 1..MaxSends[id] /\ ~ Once(id)
  BY SendsAssumption DEF Resend, TrackerTypeOK, TrackedWasSent, Once
<1>2. hops' = hops /\ Tracked' = Tracked
  BY DEF Resend, Tracked
<1>3. /\ flights' = flights \cup {new} /\ flights' \subseteq Messages
      /\ sends' \in [Ids -> Nat] /\ sends'[id] = n
      /\ \A x \in Ids : sends'[x] <= MaxSends[x]
      /\ \A x \in Ids \ {id} : sends'[x] = sends[x]
  BY <1>1, TransmitFacts DEF Resend
<1>4. /\ started' = started /\ acks' = acks
      /\ reached' = reached /\ confirmed' = confirmed
  BY DEF Resend, received
<1>5. TrackerTypeOK'
  BY <1>2, <1>3, <1>4 DEF TrackerTypeOK
<1>6. MessagesExplained'
  BY <1>1, <1>3, <1>4 DEF MessagesExplained, OnTheWay, TrackedWasSent
<1>7. TrackedWasSent'
  BY <1>1, <1>2, <1>3, <1>4 DEF TrackedWasSent, TrackerTypeOK
<1>8. OneMessage'
  BY <1>1, <1>2, <1>3, <1>4 DEF OneMessage, OnTheWay, Once
<1>9. AckedHopConfirmed' /\ ForgottenOnlyWhenConfirmed'
  BY <1>2, <1>4 DEF AckedHopConfirmed, ForgottenOnlyWhenConfirmed, IsACKed
<1> QED BY <1>5, <1>6, <1>7, <1>8, <1>9

\* The acknowledgement of a hop is for the hop tracked now, if it can only be
\* that of the one transmission.
LEMMA ReceiveInv ==
  ASSUME TrackerIInv, NEW m \in flights, Receive(m)
  PROVE  TrackerIInv'
<1> USE DEF TrackerIInv, Receive
<1>1. m \in Messages /\ m.id \in Ids /\ m.hop \in HopIndexes
  BY DEF TrackerTypeOK, Messages
<1>2. hops' = hops /\ Tracked' = Tracked
  BY DEF Tracked
<1>3. TrackerTypeOK'
  BY <1>1, <1>2 DEF TrackerTypeOK
<1>4. MessagesExplained' /\ TrackedWasSent'
  BY <1>2 DEF MessagesExplained, TrackedWasSent, OnTheWay
<1>5. OneMessage'
  <2> SUFFICES ASSUME NEW k \in OnTheWay', Once(k.id)
               PROVE  /\ k.id \in Tracked' /\ ~ hops'[k.id].acked
                      /\ k.hop = hops'[k.id].hop /\ k.n = 1
                      /\ k \in acks' => k \notin flights' /\ <<k.id, k.hop>> \in confirmed'
    BY DEF OneMessage, Once
  <2>1. k \in OnTheWay
    BY DEF OnTheWay
  <2> QED BY <2>1, <1>2 DEF OneMessage
<1>6. AckedHopConfirmed' /\ ForgottenOnlyWhenConfirmed'
  BY <1>2 DEF AckedHopConfirmed, ForgottenOnlyWhenConfirmed, IsACKed
<1> QED BY <1>3, <1>4, <1>5, <1>6

\* What ACK marks was confirmed before the acknowledgement set out; no other
\* message of a packet that is never retransmitted is left.
LEMMA ACKInv ==
  ASSUME TrackerIInv, NEW m \in acks, ACK(m)
  PROVE  TrackerIInv'
<1> USE DEF TrackerIInv
<1>1. m \in Messages /\ m.id \in Ids /\ m.hop \in HopIndexes /\ m \in OnTheWay
  BY DEF TrackerTypeOK, Messages, OnTheWay
<1>2. /\ started' = started /\ sends' = sends /\ flights' = flights
      /\ acks' = acks \ {m} /\ reached' = reached /\ confirmed' = confirmed
  BY DEF ACK, received
<1>3. /\ Tracked' = Tracked
      /\ \A x \in Tracked : x # m.id => hops'[x] = hops[x]
      /\ m.id \in Tracked =>
           /\ hops'[m.id].acked /\ hops'[m.id].hop = hops[m.id].hop
           /\ hops'[m.id] \in [hop : HopIndexes, acked : BOOLEAN, age : Ages]
  <2>1. CASE m.id \notin Tracked
    BY <2>1 DEF ACK, Tracked
  <2>2. CASE m.id \in Tracked
    <3> DEFINE state == [hops[m.id] EXCEPT !.acked = TRUE, !.age = 0]
    <3>1. hops[m.id] \in [hop : HopIndexes, acked : BOOLEAN, age : Ages]
      BY <2>2 DEF TrackerTypeOK
    <3>2. 0 \in Ages
      BY KeepAssumption DEF Ages
    <3>3. /\ state \in [hop : HopIndexes, acked : BOOLEAN, age : Ages]
          /\ state.acked /\ state.hop = hops[m.id].hop
      BY <3>1, <3>2
    <3>4. hops' = [hops EXCEPT ![m.id] = state]
      BY <2>2 DEF ACK
    <3> QED BY <2>2, <3>3, <3>4 DEF Tracked
  <2> QED BY <2>1, <2>2
<1>4. TrackerTypeOK'
  BY <1>2, <1>3 DEF TrackerTypeOK
<1>5. MessagesExplained' /\ TrackedWasSent'
  BY <1>2, <1>3 DEF MessagesExplained, TrackedWasSent, OnTheWay
<1>6. OneMessage'
  <2> SUFFICES ASSUME NEW k \in OnTheWay', Once(k.id)
               PROVE  /\ k.id \in Tracked' /\ ~ hops'[k.id].acked
                      /\ k.hop = hops'[k.id].hop /\ k.n = 1
                      /\ k \in acks' => k \notin flights' /\ <<k.id, k.hop>> \in confirmed'
    BY DEF OneMessage, Once
  <2>1. k \in OnTheWay /\ k \in Messages
    BY <1>2 DEF OnTheWay, TrackerTypeOK
  <2>2. k.id # m.id
    <3> SUFFICES ASSUME k.id = m.id PROVE FALSE
      OBVIOUS
    <3>1. k.hop = m.hop /\ k.n = m.n
      BY <1>1, <2>1 DEF OneMessage
    <3>2. k = m
      BY <3>1, <1>1, <2>1 DEF Messages
    <3> QED BY <3>2, <1>1, <1>2 DEF OneMessage, OnTheWay
  <2> QED BY <2>1, <2>2, <1>2, <1>3 DEF OneMessage
<1>7. AckedHopConfirmed'
  BY <1>1, <1>2, <1>3 DEF AckedHopConfirmed, IsACKed, MessagesExplained, OneMessage, Once
<1>8. ForgottenOnlyWhenConfirmed'
  BY <1>2, <1>3 DEF ForgottenOnlyWhenConfirmed
<1> QED BY <1>4, <1>5, <1>6, <1>7, <1>8

\* A message that is lost leaves less to explain.
LEMMA LoseInv ==
  ASSUME TrackerIInv, NEW m \in flights \cup acks, Lose(m)
  PROVE  TrackerIInv'
<1> USE DEF TrackerIInv
<1>1. /\ hops' = hops /\ Tracked' = Tracked /\ started' = started /\ sends' = sends
      /\ flights' = flights \ {m} /\ acks' = acks \ {m}
      /\ reached' = reached /\ confirmed' = confirmed
  BY DEF Lose, received, Tracked
<1>2. TrackerTypeOK' /\ MessagesExplained' /\ TrackedWasSent'
  BY <1>1 DEF TrackerTypeOK, MessagesExplained, TrackedWasSent, OnTheWay
<1>3. OneMessage'
  BY <1>1 DEF OneMessage, OnTheWay, Once
<1>4. AckedHopConfirmed' /\ ForgottenOnlyWhenConfirmed'
  BY <1>1 DEF AckedHopConfirmed, ForgottenOnlyWhenConfirmed, IsACKed
<1> QED BY <1>2, <1>3, <1>4

\* What Cleanup deletes was acknowledged, so that it is confirmed and nobody
\* waits for it.
LEMMA CleanupInv ==
  ASSUME TrackerIInv, NEW olderThan \in 0..Keep, Cleanup(olderThan)
  PROVE  TrackerIInv'
<1> USE DEF TrackerIInv
<1>1. /\ started' = started /\ sends' = sends /\ flights' = flights /\ acks' = acks
      /\ reached' = reached /\ confirmed' = confirmed
  BY DEF Cleanup, received
<1>2. /\ Tracked' \subseteq Tracked
      /\ \A x \in Tracked' : hops'[x] = hops[x]
      /\ \A x \in Tracked \ Tracked' : hops[x].acked
  BY DEF Cleanup, Tracked, Expired
<1>3. TrackerTypeOK' /\ MessagesExplained' /\ TrackedWasSent'
  BY <1>1, <1>2 DEF TrackerTypeOK, MessagesExplained, TrackedWasSent, OnTheWay
<1>4. OneMessage'
  BY <1>1, <1>2 DEF OneMessage, OnTheWay, Once
<1>5. AckedHopConfirmed'
  BY <1>1, <1>2 DEF AckedHopConfirmed, IsACKed
<1>6. ForgottenOnlyWhenConfirmed'
  BY <1>1, <1>2 DEF ForgottenOnlyWhenConfirmed, AckedHopConfirmed, IsACKed, TrackerTypeOK
<1> QED BY <1>3, <1>4, <1>5, <1>6

LEMMA TickInv ==
  ASSUME TrackerIInv, Tick
  PROVE  TrackerIInv'
<1> USE DEF TrackerIInv
<1>1. /\ started' = started /\ sends' = sends /\ flights' = flights /\ acks' = acks
      /\ reached' = reached /\ confirmed' = confirmed
  BY DEF Tick, received
<1>2. /\ Tracked' = Tracked
      /\ \A x \in Tracked :
           /\ hops'[x].acked = hops[x].acked /\ hops'[x].hop = hops[x].hop
           /\ hops'[x] \in [hop : HopIndexes, acked : BOOLEAN, age : Ages]
  BY KeepAssumption DEF Tick, Tracked, TrackerTypeOK, Ages
<1>3. TrackerTypeOK' /\ MessagesExplained' /\ TrackedWasSent'
  BY <1>1, <1>2 DEF TrackerTypeOK, MessagesExplained, TrackedWasSent, OnTheWay
<1>4. OneMessage'
  BY <1>1, <1>2 DEF OneMessage, OnTheWay, Once
<1>5. AckedHopConfirmed' /\ ForgottenOnlyWhenConfirmed'
  BY <1>1, <1>2 DEF AckedHopConfirmed, ForgottenOnlyWhenConfirmed, IsACKed
<1> QED BY <1>3, <1>4, <1>5

LEMMA TrackerStepInv == TrackerIInv /\ [TrackerNext]_trackerVars => TrackerIInv'
<1> SUFFICES ASSUME TrackerIInv, [TrackerNext]_trackerVars PROVE TrackerIInv'
  OBVIOUS
<1>1. CASE \E id \in Ids : Start(id) \/ Advance(id) \/ Resend(id)
  BY <1>1, StartInv, AdvanceInv, ResendInv
<1>2. CASE \E m \in flights : Receive(m)
  BY <1>2, ReceiveInv
<1>3. CASE \E m \in acks : ACK(m)
  BY <1>3, ACKInv
<1>4. CASE \E m \in flights \cup acks : Lose(m)
  BY <1>4, LoseInv
<1>5. CASE Clean
  BY <1>5, CleanupInv DEF Clean
<1>6. CASE Tick
  BY <1>6, TickInv
<1>7. CASE UNCHANGED trackerVars
  BY <1>7 DEF trackerVars, received, TrackerIInv, TrackerTypeOK, MessagesExplained, TrackedWasSent,
     OneMessage, AckedHopConfirmed, ForgottenOnlyWhenConfirmed, IsACKed, Tracked,
     OnTheWay, Once
<1> QED BY <1>1, <1>2, <1>3, <1>4, <1>5, <1>6, <1>7 DEF TrackerNext

LEMMA TrackerInvariance == TrackerSpec => []TrackerIInv
<1> QED BY TrackerInitInv, TrackerStepInv, PTL DEF TrackerSpec

-----------------------------------------------------------------------------
\* Every variable of the tracker and of the network keeps its type, for any
\* packets, paths, numbers of transmissions and ages.
THEOREM TrackerTypeCorrect == TrackerSpec => []TrackerTypeOK
<1>1. TrackerIInv => TrackerTypeOK
  BY DEF TrackerIInv
<1> QED BY <1>1, TrackerInvariance, PTL

\* IsACKed of queue.go tells the truth about the hop a packet is tracked at if
\* its sender never retransmits, and about some hop otherwise.
THEOREM Acknowledged == TrackerSpec => []AckedHopConfirmed
<1>1. TrackerIInv => AckedHopConfirmed
  BY DEF TrackerIInv
<1> QED BY <1>1, TrackerInvariance, PTL

\* Cleanup of queue.go forgets no packet whose sender is still waiting.
THEOREM Forgotten == TrackerSpec => []ForgottenOnlyWhenConfirmed
<1>1. TrackerIInv => ForgottenOnlyWhenConfirmed
  BY DEF TrackerIInv
<1> QED BY <1>1, TrackerInvariance, PTL
=============================================================================
