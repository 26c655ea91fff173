--------------------------- MODULE SimWorldProofs ---------------------------
(***************************************************************************)
(* Theorems about SimRouting and SimWorld, for any nodes, places, numbers  *)
(* of hops and times.                                                      *)
(***************************************************************************)
EXTENDS SimWorld, SequenceTheorems, FunctionTheorems, FiniteSetTheorems,
        WellFoundedInduction, TLAPS

(***************************************************************************)
(* Counting.                                                               *)
(***************************************************************************)

\* A set of naturals has a least member, and a finite one a greatest.
LEMMA LeastNat ==
  ASSUME NEW T \in SUBSET Nat, T # {}
  PROVE  \E x \in T : \A y \in T : x <= y
<1>1. PICK x \in T : \A y \in T : ~ (<<y, x>> \in OpToRel(<, Nat))
  BY WFMin, NatLessThanWellFounded
<1>2. \A y \in T : ~ y < x
  BY <1>1 DEF OpToRel
<1> QED BY <1>2

LEMMA GreatestNat ==
  ASSUME NEW b \in Nat, NEW T \in SUBSET (0..b), T # {}
  PROVE  \E x \in T : \A y \in T : y <= x
<1> DEFINE D == {b - x : x \in T}
<1>1. D \in SUBSET Nat /\ D # {}
  <2>1. \A x \in T : b - x \in Nat
    OBVIOUS
  <2> QED BY <2>1
<1>2. PICK d \in D : \A e \in D : d <= e
  <2> HIDE DEF D
  <2> QED BY <1>1, LeastNat
<1>3. PICK x \in T : d = b - x
  BY <1>2
<1>4. ASSUME NEW y \in T PROVE y <= x
  <2>1. b - y \in D
    OBVIOUS
  <2>2. d <= b - y
    BY <1>2, <2>1
  <2> QED BY <1>3, <2>2
<1> QED BY <1>4

LEMMA OneTo ==
  ASSUME NEW b \in Nat
  PROVE  IsFiniteSet(1..b) /\ Cardinality(1..b) = b
<1>1. /\ IsFiniteSet(1..b)
      /\ Cardinality(1..b) = IF 1 > b THEN 0 ELSE b - 1 + 1
  BY FS_Interval
<1> QED BY <1>1

\* A set that can be labelled with different members of T has no more than T.
LEMMA Labelled ==
  ASSUME NEW S, NEW T, IsFiniteSet(T), NEW f \in [S -> T],
         \A x, y \in S : f[x] = f[y] => x = y
  PROVE  IsFiniteSet(S) /\ Cardinality(S) <= Cardinality(T)
<1>1. f \in Injection(S, T)
  BY DEF Injection, IsInjective
<1> QED BY <1>1, FS_Injection

\* The values of a function are no more than its arguments, and as many if no
\* two are equal.
LEMMA Values ==
  ASSUME NEW S, IsFiniteSet(S), NEW f, DOMAIN f = S, f = [x \in S |-> f[x]]
  PROVE  LET T == {f[x] : x \in S}
         IN  /\ IsFiniteSet(T) /\ Cardinality(T) <= Cardinality(S)
             /\ (\A x, y \in S : f[x] = f[y] => x = y)
                  => Cardinality(T) = Cardinality(S)
<1> DEFINE T == {f[x] : x \in S}
<1>1. f \in Surjection(S, T)
  <2>1. f \in [S -> T]
    OBVIOUS
  <2> QED BY <2>1 DEF Surjection
<1>2. /\ IsFiniteSet(T) /\ Cardinality(T) <= Cardinality(S)
      /\ Cardinality(T) = Cardinality(S) <=> f \in Injection(S, T)
  <2> HIDE DEF T
  <2> QED BY <1>1, FS_Surjection
<1>3. ASSUME \A x, y \in S : f[x] = f[y] => x = y
      PROVE  f \in Injection(S, T)
  <2>1. f \in [S -> T]
    OBVIOUS
  <2> QED BY <1>3, <2>1 DEF Injection, IsInjective
<1> QED BY <1>2, <1>3

(***************************************************************************)
(* At: the members of a sequence at some of its places.                    *)
(***************************************************************************)
Rank(kept, i) == Cardinality({j \in kept : j <= i})

LEMMA Ranks ==
  ASSUME NEW b \in Nat, NEW kept \in SUBSET (1..b)
  PROVE  /\ IsFiniteSet(kept) /\ Cardinality(kept) \in Nat
         /\ \A i \in kept : Rank(kept, i) \in 1..Cardinality(kept)
         /\ \A i, j \in kept : i < j => Rank(kept, i) < Rank(kept, j)
         /\ \A k \in 1..Cardinality(kept) : \E i \in kept : Rank(kept, i) = k
<1> DEFINE c == Cardinality(kept)
           low(i) == {j \in kept : j <= i}
<1>1. IsFiniteSet(kept) /\ c \in Nat
  <2>1. IsFiniteSet(1..b)
    BY FS_Interval
  <2> QED BY <2>1, FS_Subset, FS_CardinalityType
<1>2. ASSUME NEW i \in kept
      PROVE  Rank(kept, i) \in 1..c
  <2>1. IsFiniteSet(low(i)) /\ Cardinality(low(i)) <= c /\ low(i) # {}
    <3>1. low(i) \in SUBSET kept /\ i \in low(i)
      OBVIOUS
    <3> HIDE DEF low
    <3> QED BY <1>1, <3>1, FS_Subset
  <2>2. Cardinality(low(i)) \in Nat /\ Cardinality(low(i)) # 0
    BY <2>1, FS_CardinalityType, FS_EmptySet
  <2> QED BY <1>1, <2>1, <2>2 DEF Rank
<1>3. ASSUME NEW i \in kept, NEW j \in kept, i < j
      PROVE  Rank(kept, i) < Rank(kept, j)
  <2>1. /\ low(i) \in SUBSET low(j)
        /\ j \in low(j) /\ j \notin low(i)
        /\ low(j) \in SUBSET kept
    <3>1. \A l \in kept : l <= i => l <= j
      BY <1>3
    <3>2. ~ j <= i
      BY <1>3
    <3>3. j \in low(j) /\ j \notin low(i)
      BY <3>2
    <3> QED BY <3>1, <3>3
  <2>2. /\ IsFiniteSet(low(j)) /\ IsFiniteSet(low(i))
        /\ Cardinality(low(i)) <= Cardinality(low(j))
        /\ Cardinality(low(i)) # Cardinality(low(j))
    <3> HIDE DEF low
    <3> QED BY <1>1, <2>1, FS_Subset
  <2>3. Cardinality(low(i)) \in Nat /\ Cardinality(low(j)) \in Nat
    BY <2>2, FS_CardinalityType
  <2> QED BY <2>2, <2>3 DEF Rank
<1>4. ASSUME NEW k \in 1..c
      PROVE  \E i \in kept : Rank(kept, i) = k
  <2> SUFFICES ASSUME \A i \in kept : Rank(kept, i) # k
               PROVE  FALSE
    OBVIOUS
  <2> DEFINE rest == (1..c) \ {k}
             f == [i \in kept |-> Rank(kept, i)]
  <2>1. IsFiniteSet(rest) /\ Cardinality(rest) = c - 1
    <3>1. IsFiniteSet(1..c) /\ Cardinality(1..c) = c
      BY <1>1, FS_Interval
    <3> HIDE DEF c
    <3> QED BY <3>1, FS_RemoveElement
  <2>2. f \in [kept -> rest]
    BY <1>2
  <2>3. \A x, y \in kept : f[x] = f[y] => x = y
    <3> TAKE x \in kept, y \in kept
    <3>1. x \in Int /\ y \in Int /\ Rank(kept, x) \in Int /\ Rank(kept, y) \in Int
      BY <1>2
    <3> QED BY <1>3, <3>1
  <2>4. Cardinality(kept) <= Cardinality(rest)
    <3> HIDE DEF f, rest
    <3> QED BY <2>1, <2>2, <2>3, Labelled
  <2> QED BY <1>1, <2>1, <2>4
<1> QED BY <1>1, <1>2, <1>3, <1>4

\* The k-th member of t is that of s at the k-th place in kept.
Enumerates(place, s, kept, t) ==
  LET c == Cardinality(kept)
  IN  /\ place \in [1..c -> kept]
      /\ t = [k \in 1..c |-> s[place[k]]]
      /\ \A k, l \in 1..c : k < l => place[k] < place[l]
      /\ \A i \in kept : \E k \in 1..c : place[k] = i

LEMMA AtPlaces ==
  ASSUME NEW b \in Nat, NEW kept \in SUBSET (1..b), NEW s
  PROVE  \E place : Enumerates(place, s, kept, At(s, kept))
<1> DEFINE c == Cardinality(kept)
           place == [k \in 1..c |-> CHOOSE i \in kept : Rank(kept, i) = k]
<1>1. ASSUME NEW k \in 1..c
      PROVE  place[k] \in kept /\ Rank(kept, place[k]) = k
  BY Ranks
<1>2. place \in [1..c -> kept]
  BY <1>1
<1>3. At(s, kept) = [k \in 1..c |-> s[place[k]]]
  BY DEF At, Rank
<1> HIDE DEF place
<1>4. ASSUME NEW k \in 1..c, NEW l \in 1..c, k < l
      PROVE  place[k] < place[l]
  <2>1. place[k] \in 1..b /\ place[l] \in 1..b
    BY <1>1
  <2>2. place[l] < place[k] => l < k
    BY <1>1, Ranks
  <2> QED BY <1>1, <1>4, <2>1, <2>2
<1>5. ASSUME NEW i \in kept
      PROVE  \E k \in 1..c : place[k] = i
  <2> DEFINE k == Rank(kept, i)
  <2>1. k \in 1..c
    BY Ranks
  <2>2. place[k] \in kept /\ Rank(kept, place[k]) = k
    BY <1>1, <2>1
  <2>3. place[k] \in 1..b /\ i \in 1..b
    BY <2>2
  <2>4. place[k] < i => k < k
    BY <2>2, Ranks
  <2>5. i < place[k] => k < k
    BY <2>2, Ranks
  <2> QED BY <2>1, <2>3, <2>4, <2>5
<1> QED BY <1>2, <1>3, <1>4, <1>5 DEF Enumerates

(***************************************************************************)
(* Routing.                                                                *)
(***************************************************************************)

\* The table of neighbours that findPath of world.go consults has no entry for
\* the sender and none for the receiver.
LEMMA EndsHaveNoNeighbors ==
  ASSUME NEW from, NEW to, NEW list
  PROVE  /\ NeighborsOf(from, from, to, list) = {}
         /\ NeighborsOf(to, from, to, list) = {}
BY DEF NeighborsOf, Neighbors

\* Hence neither the search for one relay nor that for two finds any: findPath
\* returns the direct path between two nodes that are connected, and nil for
\* any others, whatever the list of online nodes and DefaultHops.
THEOREM OnlyDirectPaths ==
  ASSUME NEW from, NEW to, NEW list
  PROVE  FindPath(from, to, list) =
           IF HasConnection(from, to) THEN {<<from, to>>} ELSE {}
<1>1. OneRelay(from, to, list) = {}
  BY EndsHaveNoNeighbors DEF OneRelay
<1>2. TwoRelays(from, to, list) = {}
  BY EndsHaveNoNeighbors DEF TwoRelays
<1> QED BY <1>1, <1>2 DEF FindPath

LEMMA ConnectedAreTwo ==
  ASSUME NEW x, NEW y, HasConnection(x, y)
  PROVE  x # y /\ x \in up \ jammed /\ y \in up \ jammed
<1>1. x # y
  <2> SUFFICES ASSUME x = y PROVE FALSE
    OBVIOUS
  <2>1. {x} \in Near
    BY DEF HasConnection
  <2>2. Cardinality({x}) = 2 /\ Cardinality({x}) = 1
    BY <2>1, NearAssumption, FS_Singleton
  <2> QED BY <2>2
<1> QED BY <1>1 DEF HasConnection
\* A path from one node to another, along none twice.
Path(from, to, p) ==
  /\ p \in Seq(Nodes) /\ Len(p) >= 2
  /\ p[1] = from /\ p[Len(p)] = to
  /\ \A i, j \in 1..Len(p) : p[i] = p[j] => i = j

LEMMA WithRelayIsPath ==
  ASSUME NEW from, NEW to, NEW list,
         NEW p, Path(from, to, p),
         NEW r \in FindRandomRelay(from, to, p, list), r \in Nodes
  PROVE  /\ Path(from, to, WithRelay(p, r))
         /\ Len(WithRelay(p, r)) = Len(p) + 1
         /\ \A i \in 1..(Len(p) + 1) :
              WithRelay(p, r)[i] = r \/ \E j \in 1..Len(p) : WithRelay(p, r)[i] = p[j]
<1> DEFINE n == Len(p)
           q == WithRelay(p, r)
<1>1. \A i \in 1..n : p[i] # r
  <2>1. r \notin ToSet(p)
    BY DEF FindRandomRelay
  <2> QED BY <2>1 DEF ToSet, Path
<1>2. n \in Nat /\ n >= 2 /\ p \in [1..n -> Nodes]
  BY DEF Path
<1> DEFINE f == Front(p)
           t == <<r, Last(p)>>
<1>3. f \in Seq(Nodes) /\ Len(f) = n - 1 /\ \A i \in 1..(n - 1) : f[i] = p[i]
  <2>1. f = SubSeq(p, 1, n - 1)
    BY DEF Front
  <2>2. 1 \in 1..n + 1 /\ n - 1 \in 0..n
    BY <1>2
  <2> HIDE DEF f
  <2> QED BY <1>2, <2>1, <2>2, SubSeqProperties DEF Path
<1>4. t \in Seq(Nodes) /\ Len(t) = 2 /\ t[1] = r /\ t[2] = to
  BY <1>1, <1>2 DEF Last, Path
<1>c. q = f \o t
  BY DEF WithRelay
<1> HIDE DEF q, f, t, n
<1>5. /\ q \in Seq(Nodes) /\ Len(q) = n + 1
      /\ \A i \in 1..(n + 1) : q[i] = IF i < n THEN p[i] ELSE IF i = n THEN r ELSE to
  <2>1. /\ q \in Seq(Nodes) /\ Len(q) = Len(f) + Len(t)
        /\ \A i \in 1 .. Len(f) + Len(t) :
             q[i] = IF i <= Len(f) THEN f[i] ELSE t[i - Len(f)]
    BY <1>3, <1>4, <1>c, ConcatProperties
  <2>2. /\ Len(q) = n + 1
        /\ \A i \in 1..(n + 1) : q[i] = IF i <= n - 1 THEN f[i] ELSE t[i - (n - 1)]
    BY <1>2, <1>3, <1>4, <2>1
  <2>3. ASSUME NEW i \in 1..(n + 1)
        PROVE  q[i] = IF i < n THEN p[i] ELSE IF i = n THEN r ELSE to
    <3>1. CASE i < n
      BY <1>2, <1>3, <2>2, <3>1
    <3>2. CASE i = n
      <4>1. i - (n - 1) = 1 /\ ~ i <= n - 1
        BY <1>2, <3>2
      <4>2. q[i] = t[1]
        BY <2>2, <4>1
      <4> QED BY <1>2, <1>4, <3>2, <4>2
    <3>3. CASE i = n + 1
      <4>1. i - (n - 1) = 2 /\ ~ i <= n - 1
        BY <1>2, <3>3
      <4>2. q[i] = t[2]
        BY <2>2, <4>1
      <4> QED BY <1>2, <1>4, <3>3, <4>2
    <3> QED BY <1>2, <3>1, <3>2, <3>3
  <2> QED BY <2>1, <2>2, <2>3
<1>g. /\ p[1] = from /\ p[n] = to
      /\ \A i, j \in 1..n : p[i] = p[j] => i = j
  BY DEF Path, n
<1>6. q[1] = from /\ q[n + 1] = to
  BY <1>2, <1>5, <1>g
<1>7. ASSUME NEW i \in 1..(n + 1), NEW j \in 1..(n + 1), q[i] = q[j]
      PROVE  i = j
  <2>1. \A k \in 1..(n + 1) : \/ k \in 1..(n - 1) /\ k \in 1..n /\ k # n /\ q[k] = p[k]
                              \/ k = n /\ q[k] = r
                              \/ k = n + 1 /\ q[k] = p[n]
    <3> TAKE k \in 1..(n + 1)
    <3>1. CASE k < n
      <4>1. k \in 1..(n - 1) /\ k \in 1..n /\ k # n
        BY <1>2, <3>1
      <4> QED BY <1>5, <3>1, <4>1
    <3>2. CASE k = n
      BY <1>2, <1>5, <3>2
    <3>3. CASE k = n + 1
      BY <1>2, <1>5, <1>g, <3>3
    <3> QED BY <1>2, <3>1, <3>2, <3>3
  <2>2. n \in 1..n
    BY <1>2
  <2> QED BY <1>1, <1>7, <1>g, <2>1, <2>2
<1>8. ASSUME NEW i \in 1..(n + 1)
      PROVE  q[i] = r \/ \E j \in 1..n : q[i] = p[j]
  <2>1. n \in 1..n /\ (i < n => i \in 1..n)
    BY <1>2
  <2> QED BY <1>5, <1>g, <2>1
<1>9. Len(q) >= 2
  BY <1>2, <1>5
<1>10. Path(from, to, q)
  BY <1>5, <1>6, <1>7, <1>9 DEF Path
<1> QED BY <1>5, <1>8, <1>10 DEF q, n

\* A path that is being made.  While the world is calm its nodes are live, and
\* a turn that has found no relay is followed by none that does; the handler sees
\* no changes but those of unstable nodes.
Relayed(t, s) ==
  /\ Path(s.from, s.to, s.path)
  /\ Len(s.path) + s.left <= 2 + MinRelayHops
  /\ s.calm => /\ \A i \in 1..Len(s.path) : s.path[i] \in up \ jammed
               /\ \/ Len(s.path) + s.left = 2 + MinRelayHops
                  \/ FindRandomRelay(s.from, s.to, s.path, s.list) = {}
  /\ t = "handler" =>
       \A i \in 1..Len(s.path) : s.path[i] \in (up \cup Unstable) \ jammed

Asked == [at : {"path"}, from : Nodes, to : Nodes, list : SUBSET Nodes]
Looking == [at : {"relays"}, from : Nodes, to : Nodes, list : SUBSET Nodes,
            path : Seq(Nodes), left : Nat, calm : BOOLEAN]

\* What a thread is doing; "made" is SimWorld's.
Doing(t, s) == \/ s = Idle
               \/ s.at = "made"
               \/ s \in Asked
               \/ s \in Looking /\ Relayed(t, s)

Placed == up \subseteq Nodes /\ jammed \subseteq Nodes /\ online \subseteq Nodes

Routed == /\ Placed
          /\ DOMAIN search = Threads
          /\ \A t \in Threads : Doing(t, search[t])

Still == UNCHANGED <<up, jammed, online>>

LEMMA AtOnce ==
  ASSUME NEW t, NEW s, Doing(t, s)
  PROVE  /\ s.at = "idle" <=> s = Idle
         /\ s.at = "path" <=> s \in Asked
         /\ s.at = "relays" <=> s \in Looking
         /\ s.at = "relays" => Relayed(t, s)
         /\ s.at \in {"idle", "path", "relays", "made"}
BY DEF Doing, Idle, Asked, Looking

LEMMA StillDoing ==
  ASSUME NEW t, NEW s, Doing(t, s), Still
  PROVE  Doing(t, s)'
<1>1. up' = up /\ jammed' = jammed
  BY DEF Still
<1>2. Relayed(t, s) => Relayed(t, s)'
  BY <1>1 DEF Relayed, FindRandomRelay, HasConnection
<1> QED BY <1>2 DEF Doing

\* One thread goes on, and nothing else happens.
LEMMA OneGoesOn ==
  ASSUME Routed, Still, NEW t \in Threads, NEW s, Continue(t, s), Doing(t, s)
  PROVE  Routed'
<1>1. Placed'
  BY DEF Still, Routed, Placed
<1>2. /\ DOMAIN search' = Threads
      /\ search'[t] = s
      /\ \A u \in Threads : u # t => search'[u] = search[u]
  BY DEF Continue, Routed
<1>3. ASSUME NEW u \in Threads
      PROVE  Doing(u, search[u])'
  <2>1. PICK r : r = search'[u]
    OBVIOUS
  <2>2. Doing(u, r)
    BY <1>2, <2>1 DEF Routed
  <2>3. Doing(u, r)'
    BY <2>2, StillDoing
  <2> QED BY <2>1, <2>3 DEF Doing, Relayed, FindRandomRelay, HasConnection
<1> QED BY <1>1, <1>2, <1>3 DEF Routed

LEMMA BeginStep ==
  ASSUME Routed, NEW t \in Threads, NEW from \in Nodes, NEW to \in Nodes,
         NEW list \in SUBSET Nodes, Begin(t, from, to, list)
  PROVE  Routed'
<1> DEFINE s == [at |-> "path", from |-> from, to |-> to, list |-> list]
<1>1. Continue(t, s) /\ Still
  BY DEF Begin, Still
<1>2. Doing(t, s)
  BY DEF Doing, Asked
<1> HIDE DEF s
<1> QED BY <1>1, <1>2, OneGoesOn

\* findPath gives a direct path, so that MinRelayHops turns follow.
LEMMA PathFound ==
  ASSUME NEW t \in Threads, NEW s \in Asked, up \subseteq Nodes,
         NEW path \in FindPath(s.from, s.to, s.list)
  PROVE  Doing(t, [at |-> "relays", from |-> s.from, to |-> s.to, list |-> s.list,
                   path |-> path, left |-> Missing(path), calm |-> TRUE])
<1> DEFINE d == [at |-> "relays", from |-> s.from, to |-> s.to, list |-> s.list,
                 path |-> path, left |-> Missing(path), calm |-> TRUE]
<1>1. HasConnection(s.from, s.to) /\ path = <<s.from, s.to>>
  BY OnlyDirectPaths
<1>2. s.from # s.to /\ s.from \in up \ jammed /\ s.to \in up \ jammed
  BY <1>1, ConnectedAreTwo
<1>3. path \in Seq(Nodes) /\ Len(path) = 2 /\ path[1] = s.from /\ path[2] = s.to
  BY <1>1, <1>2
<1>4. Missing(path) = MinRelayHops /\ MinRelayHops \in Nat
  BY <1>3, HopsAssumption DEF Missing
<1>5. Path(s.from, s.to, path)
  BY <1>2, <1>3 DEF Path
<1>6. \A i \in 1..Len(path) : path[i] \in up \ jammed
  BY <1>2, <1>3
<1>7. /\ d.at = "relays" /\ d.from = s.from /\ d.to = s.to /\ d.list = s.list
      /\ d.path = path /\ d.left = MinRelayHops /\ d.calm
  BY <1>4
<1>8. d \in Looking
  BY <1>3, <1>4 DEF Asked, Looking
<1> HIDE DEF d
<1>9. Relayed(t, d)
  <2>1. Len(path) + d.left = 2 + MinRelayHops /\ Len(path) + d.left <= 2 + MinRelayHops
    BY <1>3, <1>4, <1>7
  <2> QED BY <1>5, <1>6, <1>7, <2>1 DEF Relayed
<1>10. Doing(t, d)
  BY <1>8, <1>9 DEF Doing
<1> QED BY <1>10 DEF d

LEMMA SendMsgStep ==
  ASSUME Routed, NEW t \in Threads, SendMsg(t)
  PROVE  Routed'
<1>1. PICK s : s = search[t]
  OBVIOUS
<1>2. s \in Asked /\ up \subseteq Nodes /\ Still
  BY <1>1, AtOnce DEF Routed, Placed, SendMsg, Still
<1>3. CASE Continue(t, Idle)
  BY <1>2, <1>3, OneGoesOn DEF Doing
<1>4. ASSUME NEW path \in FindPath(s.from, s.to, s.list),
             Continue(t, [at |-> "relays", from |-> s.from, to |-> s.to,
                          list |-> s.list, path |-> path,
                          left |-> Missing(path), calm |-> TRUE])
      PROVE  Routed'
  BY <1>2, <1>4, PathFound, OneGoesOn
<1> QED BY <1>1, <1>3, <1>4 DEF SendMsg

\* A turn of the loop.  A relay it finds is live; when it finds none, neither will
\* the next turn, unless the world changes.
LEMMA TurnTaken ==
  ASSUME NEW t \in Threads, NEW s \in Looking, Relayed(t, s), s.left > 0,
         up \subseteq Nodes, NEW path \in Turn(s.from, s.to, s.path, s.list)
  PROVE  Doing(t, [s EXCEPT !.path = path, !.left = s.left - 1])
<1>1. PICK left : left = s.left - 1
  OBVIOUS
<1> DEFINE d == [s EXCEPT !.path = path, !.left = left]
<1>2. /\ d.at = "relays" /\ d.from = s.from /\ d.to = s.to /\ d.list = s.list
      /\ d.path = path /\ d.left = left /\ d.calm = s.calm
  BY DEF Looking
<1>3. /\ s.left \in Nat /\ Len(s.path) \in Nat /\ MinRelayHops \in Nat
      /\ s.path \in Seq(Nodes) /\ left \in Nat /\ left = s.left - 1
      /\ Len(s.path) + s.left <= 2 + MinRelayHops
  BY <1>1, HopsAssumption DEF Looking, Relayed
<1>4. path \in Seq(Nodes) => d \in Looking
  BY <1>3 DEF Looking
<1> HIDE DEF d
<1>5. CASE FindRandomRelay(s.from, s.to, s.path, s.list) = {}
  <2>1. path = s.path
    BY <1>5 DEF Turn
  <2>2. Len(s.path) + d.left <= 2 + MinRelayHops
    BY <1>2, <1>3 DEF Relayed
  <2>3. Relayed(t, d)
    BY <1>2, <1>5, <2>1, <2>2 DEF Relayed
  <2>4. Doing(t, d)
    BY <1>3, <1>4, <2>1, <2>3 DEF Doing
  <2> QED BY <1>1, <2>4 DEF d
<1>6. CASE FindRandomRelay(s.from, s.to, s.path, s.list) # {}
  <2>1. PICK r \in FindRandomRelay(s.from, s.to, s.path, s.list) :
               path = WithRelay(s.path, r)
    BY <1>6 DEF Turn
  <2>2. r \in up \ jammed
    BY <2>1, ConnectedAreTwo DEF FindRandomRelay
  <2>3. /\ Path(s.from, s.to, path) /\ Len(path) = Len(s.path) + 1
        /\ \A i \in 1..(Len(s.path) + 1) :
             path[i] = r \/ \E j \in 1..Len(s.path) : path[i] = s.path[j]
    BY <2>1, <2>2, WithRelayIsPath DEF Relayed
  <2>4. /\ Len(path) + d.left = Len(s.path) + s.left
        /\ Len(path) + d.left <= 2 + MinRelayHops
    <3> DEFINE l == Len(s.path)
               m == s.left
    <3>1. d.left = m - 1 /\ Len(path) = l + 1 /\ m \in Nat /\ l \in Nat
          /\ l + m <= 2 + MinRelayHops
      BY <1>2, <1>3, <2>3
    <3> HIDE DEF l, m
    <3>2. Len(path) + d.left = l + m /\ Len(path) + d.left <= 2 + MinRelayHops
      BY <1>3, <3>1
    <3> QED BY <3>2 DEF l, m
  <2>5. s.calm => Len(path) + d.left = 2 + MinRelayHops
    BY <1>6, <2>4 DEF Relayed
  <2>6. s.calm => \A i \in 1..Len(path) : path[i] \in up \ jammed
    BY <2>2, <2>3 DEF Relayed
  <2>7. t = "handler" => \A i \in 1..Len(path) : path[i] \in (up \cup Unstable) \ jammed
    BY <2>2, <2>3 DEF Relayed
  <2>8. Relayed(t, d)
    BY <1>2, <2>3, <2>4, <2>5, <2>6, <2>7 DEF Relayed
  <2>9. path \in Seq(Nodes)
    BY <2>3 DEF Path
  <2>10. Doing(t, d)
    BY <1>4, <2>8, <2>9 DEF Doing
  <2> QED BY <1>1, <2>10 DEF d
<1> QED BY <1>5, <1>6

LEMMA AddRelayStep ==
  ASSUME Routed, NEW t \in Threads, AddRelay(t)
  PROVE  Routed'
<1>1. PICK s : s = search[t]
  OBVIOUS
<1>2. s \in Looking /\ Relayed(t, s) /\ s.left > 0 /\ up \subseteq Nodes /\ Still
  BY <1>1, AtOnce DEF Routed, Placed, AddRelay, Still
<1>3. PICK path \in Turn(s.from, s.to, s.path, s.list) :
             Continue(t, [s EXCEPT !.path = path, !.left = @ - 1])
  BY <1>1 DEF AddRelay
<1> QED BY <1>2, <1>3, TurnTaken, OneGoesOn

\* A change of the world: what is being searched is no longer calm.
LEMMA DisturbedStep ==
  ASSUME Routed, Placed', search' = Disturbed,
         \/ ~ Busy("handler")
         \/ jammed' = jammed /\ up \subseteq up' \cup Unstable
  PROVE  Routed'
<1>1. DOMAIN search' = Threads
  BY DEF Disturbed
<1>2. ASSUME NEW t \in Threads
      PROVE  Doing(t, search[t])'
  <2>1. PICK s : s = search[t]
    OBVIOUS
  <2>2. Doing(t, s)
    BY <2>1 DEF Routed
  <2>3. CASE s.at # "relays"
    <3>1. search'[t] = s
      BY <2>1, <2>3 DEF Disturbed
    <3>2. s = Idle \/ s.at = "made" \/ s \in Asked
      BY <2>2, <2>3 DEF Doing, Looking
    <3> QED BY <3>1, <3>2 DEF Doing
  <2>4. CASE s.at = "relays"
    <3> DEFINE d == [at |-> "relays", from |-> s.from, to |-> s.to, list |-> s.list,
                     path |-> s.path, left |-> s.left, calm |-> FALSE]
    <3>1. s \in Looking /\ Relayed(t, s)
      BY <2>2, <2>4, AtOnce
    <3>2. search'[t] = [s EXCEPT !.calm = FALSE]
      BY <2>1, <2>4 DEF Disturbed
    <3>3. search'[t] = d
      BY <3>1, <3>2 DEF Looking
    <3>4. /\ d.from = s.from /\ d.to = s.to /\ d.path = s.path /\ d.left = s.left
          /\ ~ d.calm
      OBVIOUS
    <3>5. d \in Looking
      BY <3>1 DEF Looking
    <3> HIDE DEF d
    <3>6. t = "handler" =>
            \A i \in 1..Len(s.path) : s.path[i] \in (up' \cup Unstable) \ jammed'
      <4>1. t = "handler" => Busy("handler")
        BY <2>1, <2>4 DEF Busy
      <4> QED BY <3>1, <4>1 DEF Relayed
    <3>7. Relayed(t, d)'
      BY <3>1, <3>4, <3>6 DEF Relayed
    <3> QED BY <3>3, <3>5, <3>7 DEF Doing, Relayed, FindRandomRelay, HasConnection
  <2> QED BY <2>3, <2>4
<1> QED BY <1>1, <1>2 DEF Routed

LEMMA StatusStep ==
  ASSUME Routed, NEW turned, StatusPhase(turned)
  PROVE  Routed'
<1>1. /\ turned \subseteq Unstable /\ up' = (up \ turned) \cup (turned \ up)
      /\ online' = up' /\ search' = Disturbed /\ jammed' = jammed
  BY DEF StatusPhase
<1>2. Placed' /\ up \subseteq up' \cup Unstable
  BY <1>1, GroupsAssumption DEF Routed, Placed
<1> QED BY <1>1, <1>2, DisturbedStep

LEMMA ScenarioStep ==
  ASSUME Routed, Scenario
  PROVE  Routed'
<1>1. /\ up' \subseteq Nodes /\ jammed' \subseteq Nodes /\ online' = online
      /\ search' = Disturbed /\ ~ Busy("handler")
  BY GroupsAssumption
     DEF Scenario, Unlocked, ToggleNode, Partition, SetDayNight, SetJamming, Routed, Placed
<1>2. Placed'
  BY <1>1 DEF Routed, Placed
<1> QED BY <1>1, <1>2, DisturbedStep

LEMMA RoutingInit == Init => Routed
BY DEF Init, Routed, Placed, Doing

NoneMade == \A t \in Threads : search[t].at # "made"

\* In SimRouting alone nothing is made.
LEMMA RoutingStep ==
  ASSUME Routed, NoneMade, [Next]_vars
  PROVE  Routed' /\ NoneMade'
<1>1. CASE UNCHANGED vars
  BY <1>1 DEF vars, NoneMade, Routed, Placed, Doing, Relayed, FindRandomRelay, HasConnection
<1>2. ASSUME NEW t \in Threads, NEW from \in Nodes, NEW to \in Nodes,
             NEW list \in SUBSET Nodes, Begin(t, from, to, list)
      PROVE  Routed' /\ NoneMade'
  BY <1>2, BeginStep DEF Begin, Continue, Routed, NoneMade
<1>3. ASSUME NEW from \in Nodes, NEW to \in Nodes,
             Send(from, to) \/ LoadSend(from, to)
      PROVE  Routed' /\ NoneMade'
  BY <1>2, <1>3 DEF Send, LoadSend, Threads, Routed, Placed
<1>4. ASSUME NEW t \in Threads, SendMsg(t)
      PROVE  Routed' /\ NoneMade'
  <2>1. NoneMade'
    BY <1>4 DEF SendMsg, Continue, Idle, Routed, NoneMade
  <2> QED BY <1>4, <2>1, SendMsgStep
<1>5. ASSUME NEW t \in Threads, AddRelay(t)
      PROVE  Routed' /\ NoneMade'
  <2>1. PICK s : s = search[t]
    OBVIOUS
  <2>2. s \in Looking
    BY <1>5, <2>1, AtOnce DEF Routed, AddRelay
  <2>3. PICK path : Continue(t, [s EXCEPT !.path = path, !.left = @ - 1])
    BY <1>5, <2>1 DEF AddRelay
  <2>4. [s EXCEPT !.path = path, !.left = @ - 1].at = "relays"
    BY <2>2 DEF Looking
  <2>5. NoneMade'
    BY <2>3, <2>4 DEF Continue, Routed, NoneMade
  <2> QED BY <1>5, <2>5, AddRelayStep
<1>6. ASSUME NEW t \in Threads, Return(t)
      PROVE  Routed' /\ NoneMade'
  <2>1. Continue(t, Idle) /\ Still /\ Doing(t, Idle)
    BY <1>6 DEF Return, Still, Doing
  <2>2. NoneMade'
    BY <2>1 DEF Continue, Idle, Routed, NoneMade
  <2> QED BY <2>1, <2>2, OneGoesOn
<1>7. ASSUME search' = Disturbed
      PROVE  NoneMade'
  <2> SUFFICES ASSUME NEW u \in Threads PROVE search'[u].at # "made"
    BY DEF NoneMade
  <2>1. CASE search[u].at = "relays"
    <3>1. search[u] \in Looking
      BY <2>1, AtOnce DEF Routed
    <3>2. [search[u] EXCEPT !.calm = FALSE].at = "relays"
      BY <3>1 DEF Looking
    <3> QED BY <1>7, <2>1, <3>2 DEF Disturbed
  <2>2. CASE search[u].at # "relays"
    BY <1>7, <2>2 DEF Disturbed, NoneMade
  <2> QED BY <2>1, <2>2
<1>8. ASSUME NEW turned, StatusPhase(turned)
      PROVE  Routed' /\ NoneMade'
  <2>1. search' = Disturbed
    BY <1>8 DEF StatusPhase
  <2> QED BY <1>7, <1>8, <2>1, StatusStep
<1>9. CASE Scenario
  <2>1. search' = Disturbed
    BY <1>9 DEF Scenario
  <2> QED BY <1>7, <1>9, <2>1, ScenarioStep
<1> QED BY <1>1, <1>3, <1>4, <1>5, <1>6, <1>8, <1>9 DEF Next

LEMMA RoutingInvariant ==
  Spec => [](Routed /\ NoneMade)
<1>1. Init => Routed /\ NoneMade
  BY RoutingInit DEF Init, Idle, NoneMade
<1>2. Routed /\ NoneMade /\ [Next]_vars => Routed' /\ NoneMade'
  BY RoutingStep
<1> QED BY <1>1, <1>2, PTL DEF Spec

LEMMA RoutedTypes ==
  ASSUME Routed, NoneMade
  PROVE  TypeOK
<1>1. ASSUME NEW t \in Threads
      PROVE  \/ search[t] = Idle
             \/ /\ search[t].at \in {"path", "relays"}
                /\ {search[t].from, search[t].to} \subseteq Nodes
                /\ search[t].list \subseteq Nodes
                /\ search[t].at = "relays" =>
                     /\ search[t].path \in Seq(Nodes) /\ Len(search[t].path) >= 2
                     /\ search[t].left \in 0..MinRelayHops
                     /\ search[t].calm \in BOOLEAN
  <2>1. PICK s : s = search[t]
    OBVIOUS
  <2>2. Doing(t, s) /\ s.at # "made"
    BY <2>1 DEF Routed, NoneMade
  <2>3. CASE s = Idle
    BY <2>1, <2>3
  <2>4. CASE s \in Asked
    BY <2>1, <2>4 DEF Asked
  <2>5. CASE s \in Looking /\ Relayed(t, s)
    <3>1. /\ s.at = "relays" /\ {s.from, s.to} \subseteq Nodes /\ s.list \subseteq Nodes
          /\ s.path \in Seq(Nodes) /\ s.left \in Nat /\ s.calm \in BOOLEAN
      BY <2>5 DEF Looking
    <3>2. Len(s.path) >= 2 /\ Len(s.path) + s.left <= 2 + MinRelayHops
      BY <2>5 DEF Relayed, Path
    <3>3. s.left \in 0..MinRelayHops
      BY <3>1, <3>2, HopsAssumption
    <3> QED BY <2>1, <3>1, <3>2, <3>3
  <2> QED BY <2>2, <2>3, <2>4, <2>5 DEF Doing
<1> QED BY <1>1 DEF Routed, Placed, TypeOK

\* A path with too few relays has nobody to add: whoever is left of the list is
\* in reach of both ends or of neither.
LEMMA NobodyLeft ==
  ASSUME Routed, NEW t \in Threads, Found(t), search[t].calm,
         Len(search[t].path) - 2 < MinRelayHops,
         NEW n \in search[t].list \ ToSet(search[t].path)
  PROVE  HasConnection(search[t].from, n) <=> HasConnection(n, search[t].to)
<1>1. PICK s : s = search[t]
  OBVIOUS
<1>2. s \in Looking /\ Relayed(t, s) /\ s.left = 0
  BY <1>1, AtOnce DEF Found, Routed
<1>3. Len(s.path) \in Nat /\ DOMAIN s.path = 1..Len(s.path) /\ MinRelayHops \in Nat
  BY <1>2, HopsAssumption DEF Relayed, Path
<1>4. FindRandomRelay(s.from, s.to, s.path, s.list) = {}
  <2>1. Len(s.path) + s.left # 2 + MinRelayHops
    BY <1>1, <1>2, <1>3
  <2> QED BY <1>1, <1>2, <2>1 DEF Relayed
<1>5. s.from \in ToSet(s.path) /\ s.to \in ToSet(s.path)
  BY <1>2, <1>3 DEF Relayed, Path, ToSet
<1>6. n \in s.list \ (ToSet(s.path) \cup {s.from, s.to})
  BY <1>1, <1>5
<1> QED BY <1>1, <1>4, <1>6 DEF FindRandomRelay

\* The world's nodes, its list and what the threads search keep their types.
THEOREM RoutingTypeCorrect == Spec => []TypeOK
BY RoutingInvariant, RoutedTypes, PTL

\* For any nodes, places, lists and numbers of hops, and however the two threads
\* and the handlers interleave, sendMsg leaves a path short of relays in a world
\* that has stayed the same only when findRandomRelay has no candidate left.
THEOREM RelaysAdded == Spec => []RelaysWhilePossible
<1>1. ASSUME Routed, NoneMade
      PROVE  RelaysWhilePossible
  BY <1>1, RoutedTypes, NobodyLeft DEF RelaysWhilePossible
<1> QED BY <1>1, RoutingInvariant, PTL

\* However nodes fail and are jammed between OnlineNodes, findPath, each turn of
\* the loop and the end of sendMsg: no path goes along a node twice, a path along
\* a dead node comes of a change after findPath, and w.mu leaves LoadTest with none
\* but unstable nodes that went off meanwhile.
THEOREM LiveNodes == Spec => []SentOverLiveNodes
<1>1. ASSUME Routed
      PROVE  SentOverLiveNodes
  <2> SUFFICES ASSUME NEW t \in Threads, search[t].at = "relays"
               PROVE  LET dead == ToSet(search[t].path) \cap ((Nodes \ up) \cup jammed)
                      IN  /\ IsInjective(search[t].path)
                          /\ search[t].calm => dead = {}
                          /\ t = "handler" => dead \subseteq Unstable \ jammed
    BY DEF SentOverLiveNodes
  <2>1. PICK s : s = search[t]
    OBVIOUS
  <2>2. s \in Looking /\ Relayed(t, s)
    BY <1>1, <2>1, AtOnce DEF Routed
  <2>3. DOMAIN s.path = 1..Len(s.path) /\ ToSet(s.path) = {s.path[i] : i \in 1..Len(s.path)}
    BY <2>2 DEF Relayed, Path, ToSet
  <2>4. IsInjective(s.path)
    BY <2>2, <2>3 DEF Relayed, Path, IsInjective
  <2>5. s.calm => ToSet(s.path) \cap ((Nodes \ up) \cup jammed) = {}
    BY <2>2, <2>3 DEF Relayed
  <2>6. t = "handler" =>
          ToSet(s.path) \cap ((Nodes \ up) \cup jammed) \subseteq Unstable \ jammed
    BY <2>2, <2>3 DEF Relayed
  <2> QED BY <2>1, <2>4, <2>5, <2>6
<1> QED BY <1>1, RoutingInvariant, PTL

(***************************************************************************)
(* The inductive invariant of the world.                                   *)
(***************************************************************************)
Message == [n : Nat, id : Ids, path : Seq(Nodes), remaining : Nat, total : Nat,
            collided : BOOLEAN, acks : Seq(BOOLEAN)]

Transmission == [n : Nat, id : Ids, sf : SpreadingFactors, left : Nat]

\* The numbers are those of messages sent, and differ.
NumberedIn(s, ids) ==
  /\ \A i \in DOMAIN s : s[i].n \in 1..Len(ids) /\ s[i].id = ids[s[i].n]
  /\ \A i, j \in DOMAIN s : s[i].n = s[j].n => i = j

Numbered(s) == NumberedIn(s, sent)

\* Transmissions are kept in the order in which they began.  Messages need not be
\* in that order, as a thread may be late with its own.
InOrder(s) == \A i, j \in DOMAIN s : i < j => s[i].n < s[j].n

\* A path has no more hops than the message has ticks, and those behind it are
\* acknowledged.
Carried(m) ==
  /\ m.total \in 1..MaxTicks /\ m.remaining \in 1..m.total
  /\ Hops(m) \in 1..m.total
  /\ m.acks \in [1..Hops(m) -> BOOLEAN]
  /\ \A i \in 1..Hops(m) : i <= HopIndex(m, m.remaining) => m.acks[i]

Types ==
  /\ Routed
  /\ phase \in {"collisions", "delivery", "traffic"}
  /\ messages \in Seq(Message)
  /\ transmissions \in Seq(Transmission)
  /\ wait \in [Nodes -> 0..Gap]
  /\ sent \in Seq(Ids)
  /\ scenarios \in 0..MaxScenarios
  /\ Busy("ticker") => phase = "traffic"

\* A message that its thread has not enqueued is nowhere else.
InHand(m) ==
  /\ m \in Message /\ m.n \in 1..Len(sent) /\ m.id = sent[m.n]
  /\ Carried(m) /\ ~ m.collided
  /\ m.n \notin delivered \cup dropped
  /\ \A i \in DOMAIN messages : messages[i].n # m.n

Hands ==
  /\ \A t \in Threads : Made(t) => InHand(search[t].message)
  /\ \A t, u \in Threads :
       Made(t) /\ Made(u) /\ search[t].message.n = search[u].message.n => t = u

Flow ==
  /\ Types
  /\ Numbered(messages) /\ Numbered(transmissions) /\ InOrder(transmissions)
  /\ \A i \in DOMAIN messages : Carried(messages[i])
  /\ \A i \in DOMAIN messages : messages[i].collided => phase = "delivery"
  /\ delivered \subseteq 1..Len(sent) /\ dropped \subseteq 1..Len(sent)
  /\ delivered \cap dropped = {}
  /\ \A i \in DOMAIN messages : messages[i].n \notin delivered \cup dropped
  /\ Hands
  /\ \A n \in 1..Len(sent) : \/ n \in delivered \cup dropped
                             \/ \E i \in DOMAIN messages : messages[i].n = n
                             \/ \E t \in Threads : Made(t) /\ search[t].message.n = n

\* A transmission ends before its message arrives.
Airborne(tx) ==
  \/ tx.n \in dropped
  \/ tx.left = 0
  \/ \E i \in DOMAIN messages :
       /\ messages[i].n = tx.n
       /\ tx.left <= messages[i].remaining - (IF phase = "delivery" THEN 1 ELSE 0)
  \/ \E t \in Threads :
       /\ Made(t) /\ search[t].message.n = tx.n
       /\ tx.left <= search[t].message.remaining - 1

\* The messages given up, or marked to be.
Lost == dropped \cup {messages[i].n : i \in {j \in DOMAIN messages : messages[j].collided}}

\* A message that was hit and is not lost was in the hands of its thread, or
\* another one is lost for it.
Excused(n) ==
  \/ n \in unlisted
  \/ \E k \in Lost : k # n /\ sent[k] = sent[n] /\ (n \in delivered => k \in dropped)

Radio ==
  /\ failed \in Nat
  /\ hit \subseteq 1..Len(sent)
  /\ \A i \in DOMAIN transmissions : Airborne(transmissions[i])
  /\ \A n \in hit \ Lost : Excused(n)
  /\ Made("ticker") => search["ticker"].message.n \notin hit
  /\ \A n \in Lost : \E k \in hit : sent[k] = sent[n]
  /\ Cardinality(Lost) <= failed
  /\ \E off \in SUBSET hit :
       /\ failed = 2 * Cardinality(off)
       /\ \A i \in DOMAIN transmissions : transmissions[i].n \notin off
       /\ \A r \in off : \E h \in hit : r < h

\* What At keeps of a sequence, as members rather than places.
LEMMA AtMembers ==
  ASSUME NEW S, NEW s \in Seq(S), NEW kept \in SUBSET (1..Len(s))
  PROVE  LET t == At(s, kept)
         IN  /\ t \in Seq(S)
             /\ \A k \in 1..Len(t) : \E i \in kept : t[k] = s[i]
             /\ \A i \in kept : \E k \in 1..Len(t) : t[k] = s[i]
             /\ \A k, l \in 1..Len(t) :
                  k < l => \E i, j \in kept : i < j /\ t[k] = s[i] /\ t[l] = s[j]
<1> DEFINE t == At(s, kept)
           c == Cardinality(kept)
<1>b. PICK b \in Nat : b = Len(s)
  OBVIOUS
<1>k. kept \in SUBSET (1..b)
  BY <1>b
<1>1. c \in Nat
  BY <1>k, Ranks
<1>p. PICK place : Enumerates(place, s, kept, t)
  BY <1>k, AtPlaces
<1>2. /\ place \in [1..c -> kept]
      /\ t = [k \in 1..c |-> s[place[k]]]
      /\ \A k, l \in 1..c : k < l => place[k] < place[l]
      /\ \A i \in kept : \E k \in 1..c : place[k] = i
  BY <1>p DEF Enumerates
<1> HIDE DEF t, c
<1>3. \A k \in 1..c : place[k] \in kept /\ t[k] = s[place[k]]
  BY <1>2
<1>4. t \in Seq(S) /\ Len(t) = c
  <2>1. \A i \in 1..Len(s) : s[i] \in S
    OBVIOUS
  <2>2. \A k \in 1..c : t[k] \in S
    BY <1>3, <2>1
  <2>3. t \in [1..c -> S]
    BY <1>2, <1>3, <2>2
  <2> QED BY <1>1, <2>3
<1>5. \A i \in kept : \E k \in 1..c : t[k] = s[i]
  BY <1>2, <1>3
<1>6. \A k, l \in 1..c :
        k < l => \E i, j \in kept : i < j /\ t[k] = s[i] /\ t[l] = s[j]
  BY <1>2, <1>3
<1> QED BY <1>3, <1>4, <1>5, <1>6 DEF t

LEMMA StartsEmpty == WorldInit => Flow /\ Radio
<1> SUFFICES ASSUME WorldInit PROVE Flow /\ Radio
  OBVIOUS
<1>1. /\ phase = "collisions"
      /\ messages = << >> /\ transmissions = << >> /\ sent = << >>
      /\ wait = [n \in Nodes |-> 0]
      /\ delivered = {} /\ failed = 0 /\ dropped = {} /\ hit = {}
      /\ scenarios = 0
  BY DEF WorldInit
<1>2. DOMAIN messages = {} /\ DOMAIN transmissions = {} /\ 1..Len(sent) = {}
  BY <1>1
<1>i. \A t \in Threads : ~ Made(t) /\ ~ Busy(t)
  BY DEF WorldInit, Init, Idle, Made, Busy
<1>3. Types
  <2>1. Routed
    BY RoutingInit DEF WorldInit
  <2>2. 0 \in 0..Gap
    BY TimesAssumption
  <2>3. 0 \in 0..MaxScenarios
    BY BoundsAssumption
  <2>4. ~ Busy("ticker")
    BY <1>i DEF Threads
  <2> QED BY <1>1, <2>1, <2>2, <2>3, <2>4 DEF Types
<1>4. Flow
  BY <1>1, <1>2, <1>i, <1>3 DEF Flow, Hands, Numbered, NumberedIn, InOrder
<1>5. Lost = {}
  BY <1>1, <1>2 DEF Lost
<1>6. Cardinality({}) = 0
  BY FS_EmptySet
<1>7. ~ Made("ticker")
  BY <1>i DEF Threads
<1>8. Radio
  BY <1>1, <1>2, <1>5, <1>6, <1>7 DEF Radio
<1> QED BY <1>4, <1>8

(***************************************************************************)
(* Steps that make, enqueue, hit and move no message.                      *)
(***************************************************************************)
SameHands == \A t \in Threads : /\ Made(t)' <=> Made(t)
                                /\ Made(t) => search'[t] = search[t]

LEMMA OtherThread ==
  ASSUME Routed, NEW t \in Threads, NEW s, Continue(t, s)
  PROVE  /\ search'[t] = s
         /\ \A u \in Threads : u # t => search'[u] = search[u]
BY DEF Routed, Continue

LEMMA ContinueKeepsHands ==
  ASSUME Routed, NEW t \in Threads, ~ Made(t), NEW s, s.at # "made", Continue(t, s)
  PROVE  SameHands
BY OtherThread DEF SameHands, Made

LEMMA DisturbedKeepsHands ==
  ASSUME Routed, search' = Disturbed
  PROVE  SameHands /\ \A t \in Threads : Busy(t)' <=> Busy(t)
<1> SUFFICES ASSUME NEW t \in Threads
             PROVE  /\ search'[t].at = search[t].at
                    /\ Made(t) => search'[t] = search[t]
  BY DEF SameHands, Made, Busy
<1>1. CASE search[t].at = "relays"
  <2>1. search[t] \in Looking
    BY <1>1, AtOnce DEF Routed
  <2>2. [search[t] EXCEPT !.calm = FALSE].at = "relays"
    BY <2>1 DEF Looking
  <2> QED BY <1>1, <2>2 DEF Disturbed, Made
<1>2. CASE search[t].at # "relays"
  BY <1>2 DEF Disturbed
<1> QED BY <1>1, <1>2

LEMMA QuietStep ==
  ASSUME Flow, Radio, Types', SameHands, UNCHANGED <<traffic, results>>,
         \/ phase' = phase
         \/ phase = "traffic" /\ phase' = "collisions"
  PROVE  Flow' /\ Radio'
<1>1. /\ messages' = messages /\ transmissions' = transmissions /\ sent' = sent
      /\ delivered' = delivered /\ failed' = failed
      /\ dropped' = dropped /\ hit' = hit /\ unlisted' = unlisted
  BY DEF traffic, results
<1>2. (phase' = "delivery") <=> (phase = "delivery")
  OBVIOUS
<1>3. Numbered(messages)' /\ Numbered(transmissions)' /\ InOrder(transmissions)'
  BY <1>1 DEF Flow, Numbered, NumberedIn, InOrder
<1>4. \A i \in DOMAIN messages : Carried(messages[i])'
  BY <1>1 DEF Flow, Carried, Hops, HopIndex
<1>5. Hands'
  <2>1. ASSUME NEW t \in Threads, Made(t)'
        PROVE  InHand(search[t].message)'
    <3>1. InHand(search[t].message) /\ search'[t] = search[t]
      BY <2>1 DEF SameHands, Flow, Hands
    <3> QED BY <1>1, <3>1 DEF InHand, Carried, Hops, HopIndex
  <2>2. ASSUME NEW t \in Threads, NEW u \in Threads, Made(t)', Made(u)',
               search'[t].message.n = search'[u].message.n
        PROVE  t = u
    BY <2>2 DEF SameHands, Flow, Hands
  <2> QED BY <2>1, <2>2 DEF Hands
<1>6. ASSUME NEW n \in 1..Len(sent)
      PROVE  \/ n \in delivered' \cup dropped'
             \/ \E i \in DOMAIN messages' : messages'[i].n = n
             \/ \E t \in Threads : Made(t)' /\ search'[t].message.n = n
  BY <1>1 DEF Flow, SameHands
<1>7. Flow'
  BY <1>1, <1>2, <1>3, <1>4, <1>5, <1>6 DEF Flow
<1>8. Lost' = Lost
  BY <1>1 DEF Lost
<1>9. \A i \in DOMAIN transmissions : Airborne(transmissions[i])'
  BY <1>1, <1>2 DEF Radio, Airborne, SameHands
<1>10. \A n \in hit' \ Lost' : Excused(n)'
  BY <1>1, <1>8 DEF Radio, Excused
<1>11. Made("ticker")' => search'["ticker"].message.n \notin hit'
  BY <1>1 DEF Radio, SameHands, Threads
<1>12. Radio'
  BY <1>1, <1>8, <1>9, <1>10, <1>11 DEF Radio
<1> QED BY <1>7, <1>12

(***************************************************************************)
(* Sending.                                                                *)
(***************************************************************************)
LEMMA TicksBound ==
  ASSUME NEW leg \in Legs, NEW path, Len(path) - 1 \in 1..MaxTicks,
         NEW air \in 0..MaxAir, air < leg
  PROVE  /\ Ticks(leg, path) \in 1..MaxTicks
         /\ Len(path) - 1 <= Ticks(leg, path)
         /\ air <= Ticks(leg, path) - 1
<1> DEFINE h == Len(path) - 1
           all == leg * h
<1>1. leg \in Nat /\ leg >= 1 /\ h \in Nat /\ h >= 1 /\ h <= MaxTicks
  BY TimesAssumption
<1>2. air \in Nat /\ MaxTicks \in Nat /\ air <= MaxTicks - 1
  BY TimesAssumption
<1>3. Ticks(leg, path) = IF all > MaxTicks THEN MaxTicks ELSE all
  BY DEF Ticks
<1> HIDE DEF h
<1>4. all \in Nat /\ all >= h /\ all >= leg
  <2>1. all = h + (leg - 1) * h /\ all = leg + leg * (h - 1)
    BY <1>1
  <2>2. (leg - 1) * h \in Nat /\ leg * (h - 1) \in Nat
    BY <1>1
  <2> QED BY <1>1, <2>1, <2>2
<1> HIDE DEF all
<1>5. \A t : t = (IF all > MaxTicks THEN MaxTicks ELSE all)
               => t \in 1..MaxTicks /\ h <= t /\ air <= t - 1
  BY <1>1, <1>2, <1>4
<1>6. Ticks(leg, path) \in 1..MaxTicks /\ h <= Ticks(leg, path) /\ air <= Ticks(leg, path) - 1
  BY <1>3, <1>5
<1> QED BY <1>6 DEF h

LEMMA WholeQuotient ==
  ASSUME NEW t \in Nat, t >= 1, NEW h \in Nat
  PROVE  (t * h) \div t = h
<1>1. t * h \in Nat
  OBVIOUS
<1>2. \E r \in 0..(t - 1) : t * h = t * ((t * h) \div t) + r
  BY <1>1
<1> QED BY <1>1, <1>2

\* A sequence with one more member, whose number is new, is still numbered.
LEMMA NumberedAppend ==
  ASSUME NEW S, NEW s \in Seq(S), NEW ids \in Seq(Ids), NumberedIn(s, ids),
         NEW x \in S, x.n \in 1..Len(ids), x.id = ids[x.n],
         \A i \in DOMAIN s : s[i].n # x.n
  PROVE  NumberedIn(Append(s, x), ids)
<1> DEFINE t == Append(s, x)
<1>1. /\ t[Len(s) + 1] = x
      /\ \A i \in 1..Len(s) : t[i] = s[i]
      /\ DOMAIN t = 1..(Len(s) + 1) /\ Len(s) \in Nat /\ DOMAIN s = 1..Len(s)
  <2>1. t \in Seq(S) /\ Len(t) = Len(s) + 1
    BY AppendProperties
  <2>2. DOMAIN t = 1..Len(t)
    BY <2>1
  <2> QED BY <2>1, <2>2, AppendProperties
<1> HIDE DEF t
<1>2. \A i \in DOMAIN t : \/ i \in DOMAIN s /\ t[i] = s[i]
                          \/ i = Len(s) + 1 /\ t[i] = x
  BY <1>1
<1>3. NumberedIn(t, ids)
  BY <1>2 DEF NumberedIn
<1> QED BY <1>3 DEF t

\* So is a sequence when another message is sent.
LEMMA NumberedMore ==
  ASSUME NEW s, NEW ids \in Seq(Ids), NumberedIn(s, ids), NEW id \in Ids
  PROVE  NumberedIn(s, Append(ids, id))
<1>1. /\ Len(Append(ids, id)) = Len(ids) + 1 /\ Len(ids) \in Nat
      /\ \A n \in 1..Len(ids) : Append(ids, id)[n] = ids[n]
  BY AppendProperties
<1>2. \A n \in 1..Len(ids) : n \in 1..Len(Append(ids, id))
  BY <1>1
<1> QED BY <1>1, <1>2 DEF NumberedIn

\* The message that sendMsg makes.
NewMessage(number, id, path, ticks) ==
  [n |-> number, id |-> id, path |-> path,
   remaining |-> ticks, total |-> ticks, collided |-> FALSE,
   acks |-> [i \in 1..(Len(path) - 1) |-> FALSE]]

LEMMA NewMessageIsCarried ==
  ASSUME NEW number \in Nat, NEW id \in Ids, NEW path \in Seq(Nodes),
         NEW ticks \in 1..MaxTicks, Len(path) - 1 \in 1..ticks
  PROVE  LET m == NewMessage(number, id, path, ticks)
         IN  /\ m \in Message /\ Carried(m)
             /\ m.n = number /\ m.id = id
             /\ m.remaining = ticks /\ ~ m.collided
<1> DEFINE m == NewMessage(number, id, path, ticks)
           h == Len(path) - 1
<1>1. h \in Nat /\ ticks \in Nat /\ ticks >= 1
  BY TimesAssumption
<1> DEFINE acks == [i \in 1..h |-> FALSE]
<1>2. acks \in [1..h -> BOOLEAN] /\ acks \in Seq(BOOLEAN)
  <2>1. acks \in [1..h -> BOOLEAN]
    OBVIOUS
  <2> HIDE DEF acks, h
  <2> QED BY <1>1, <2>1
<1>3. /\ m.n = number /\ m.id = id /\ m.path = path
      /\ m.remaining = ticks /\ m.total = ticks /\ ~ m.collided
      /\ m.acks = acks
  BY DEF NewMessage
<1>4. m \in Message
  <2> HIDE DEF acks
  <2>1. m = [n |-> number, id |-> id, path |-> path,
             remaining |-> ticks, total |-> ticks, collided |-> FALSE, acks |-> acks]
    BY DEF NewMessage, acks
  <2> HIDE DEF m
  <2> QED BY <1>1, <1>2, <2>1 DEF Message
<1> HIDE DEF m, acks
<1>5. Hops(m) = h
  BY <1>3 DEF Hops
<1> HIDE DEF h
<1>6. HopIndex(m, m.remaining) = 0
  <2>1. (ticks * h) \div ticks = h
    BY <1>1, WholeQuotient
  <2> QED BY <1>1, <1>3, <1>5, <2>1 DEF HopIndex
<1>7. Carried(m)
  <2>1. h \in 1..ticks
    BY DEF h
  <2> QED BY <1>1, <1>2, <1>3, <1>5, <1>6, <2>1 DEF Carried
<1> QED BY <1>3, <1>4, <1>7 DEF m

LEMMA TransmitStep ==
  ASSUME Flow, Radio, NEW t \in Threads, Transmit(t)
  PROVE  Flow' /\ Radio'
<1> DEFINE l == Len(sent)
           id == <<search[t].from, search[t].to>>
           path == search[t].path
<1>1. /\ Routed /\ sent \in Seq(Ids) /\ messages \in Seq(Message)
      /\ transmissions \in Seq(Transmission) /\ l \in Nat /\ Types
  BY DEF Flow, Types
<1>2. /\ id \in Ids /\ path \in Seq(Nodes) /\ Len(path) - 1 \in 1..MaxTicks
      /\ search[t].at = "relays" /\ ~ Made(t) /\ Busy(t)
  <2>1. search[t].at = "relays" /\ search[t].left = 0
    BY DEF Transmit, Found
  <2>2. search[t] \in Looking /\ Relayed(t, search[t])
    BY <1>1, <2>1, AtOnce DEF Routed
  <2>3. id \in Ids /\ path \in Seq(Nodes)
    BY <2>2 DEF Looking, Ids
  <2>4. Len(path) \in Nat /\ Len(path) >= 2 /\ Len(path) + 0 <= 2 + MinRelayHops
    BY <2>1, <2>2, <2>3 DEF Relayed, Path
  <2>5. Len(path) - 1 \in 1..MaxTicks
    <3> HIDE DEF path
    <3> QED BY <2>4, HopsAssumption, TimesAssumption
  <2> QED BY <2>1, <2>3, <2>5 DEF Made, Busy
<1>3. PICK leg \in Legs, sf \in SpreadingFactors, air \in 0..MaxAir :
        /\ air < leg
        /\ sent' = Append(sent, id)
        /\ Continue(t, [at |-> "made",
                        message |-> NewMessage(l + 1, id, path, Ticks(leg, path))])
        /\ transmissions' = IF air = 0 THEN transmissions
                            ELSE Append(transmissions,
                                   [n |-> l + 1, id |-> id, sf |-> sf, left |-> air])
        /\ UNCHANGED <<places, phase, messages, wait, results, scenarios>>
  BY DEF Transmit, NewMessage
<1> DEFINE ticks == Ticks(leg, path)
           m == NewMessage(l + 1, id, path, ticks)
           tx == [n |-> l + 1, id |-> id, sf |-> sf, left |-> air]
<1>4. ticks \in 1..MaxTicks /\ Len(path) - 1 \in 1..ticks /\ air <= ticks - 1
  <2> HIDE DEF path
  <2> QED BY <1>2, <1>3, TicksBound
<1>5. /\ m \in Message /\ Carried(m) /\ m.n = l + 1 /\ m.id = id
      /\ m.remaining = ticks /\ ~ m.collided
  <2>1. l + 1 \in Nat
    BY <1>1
  <2> HIDE DEF ticks, id, path, l
  <2> QED BY <1>2, <1>4, <2>1, NewMessageIsCarried
<1>6. tx \in Transmission /\ tx.n = l + 1 /\ tx.id = id /\ tx.left = air /\ air \in Nat
  BY <1>1, <1>2, <1>3, TimesAssumption DEF Transmission
<1>7. /\ sent' = Append(sent, id)
      /\ Continue(t, [at |-> "made", message |-> m])
      /\ transmissions' = IF air = 0 THEN transmissions ELSE Append(transmissions, tx)
      /\ up' = up /\ jammed' = jammed /\ online' = online
      /\ messages' = messages /\ phase' = phase /\ wait' = wait /\ scenarios' = scenarios
      /\ delivered' = delivered /\ dropped' = dropped
      /\ failed' = failed /\ hit' = hit /\ unlisted' = unlisted
  BY <1>3 DEF results, places
<1> HIDE DEF ticks, m, tx, id, l, path
<1>8. /\ Len(sent') = l + 1 /\ sent' \in Seq(Ids)
      /\ sent'[l + 1] = id
      /\ \A n \in 1..l : sent'[n] = sent[n]
      /\ \A n \in 1..l : n \in 1..(l + 1) /\ n # l + 1
      /\ l + 1 \in 1..(l + 1)
      /\ \A n \in 1..(l + 1) : n \in 1..l \/ n = l + 1
  <2>1. /\ Len(sent') = l + 1 /\ sent' \in Seq(Ids) /\ sent'[l + 1] = id
        /\ \A n \in 1..l : sent'[n] = sent[n]
    BY <1>1, <1>2, <1>7, AppendProperties DEF l
  <2> QED BY <1>1, <2>1
<1>9. /\ search'[t] = [at |-> "made", message |-> m]
      /\ \A u \in Threads : u # t => search'[u] = search[u]
  BY <1>1, <1>7, OtherThread
<1>10. /\ search'[t].at = "made" /\ search'[t].message = m /\ Made(t)'
       /\ \A u \in Threads : u # t => (Made(u)' <=> Made(u))
  BY <1>9 DEF Made
<1>11. /\ transmissions' \in Seq(Transmission)
       /\ \A i \in DOMAIN transmissions' :
            \/ transmissions'[i] = tx
            \/ i \in DOMAIN transmissions /\ transmissions'[i] = transmissions[i]
       /\ Numbered(transmissions)' /\ InOrder(transmissions)'
  <2>1. NumberedIn(transmissions, sent') /\ InOrder(transmissions)
    BY <1>1, <1>2, <1>7, NumberedMore DEF Flow, Numbered
  <2>2. CASE air = 0
    BY <1>1, <1>7, <2>1, <2>2 DEF Numbered, InOrder
  <2>3. CASE air # 0
    <3>1. /\ transmissions' = Append(transmissions, tx)
          /\ transmissions' \in Seq(Transmission)
          /\ Len(transmissions') = Len(transmissions) + 1
      BY <1>1, <1>6, <1>7, <2>3, AppendProperties
    <3>2. /\ DOMAIN transmissions' = 1..(Len(transmissions) + 1)
          /\ DOMAIN transmissions = 1..Len(transmissions)
          /\ Len(transmissions) \in Nat
      BY <1>1, <3>1
    <3>3. /\ transmissions'[Len(transmissions) + 1] = tx
          /\ \A i \in 1..Len(transmissions) : transmissions'[i] = transmissions[i]
      BY <1>1, <1>6, <3>1, AppendProperties
    <3>4. ASSUME NEW i \in DOMAIN transmissions
          PROVE  transmissions[i].n \in 1..l
      BY DEF Flow, Numbered, NumberedIn, l
    <3>5. NumberedIn(transmissions', sent')
      <4>1. \A i \in DOMAIN transmissions : transmissions[i].n # tx.n
        BY <1>6, <1>8, <3>4
      <4>2. tx.n \in 1..Len(sent') /\ tx.id = sent'[tx.n]
        BY <1>6, <1>8
      <4>3. NumberedIn(Append(transmissions, tx), sent')
        <5>1. PICK ids : ids = sent'
          OBVIOUS
        <5>2. /\ ids \in Seq(Ids) /\ NumberedIn(transmissions, ids)
              /\ tx.n \in 1..Len(ids) /\ tx.id = ids[tx.n]
          BY <1>8, <2>1, <4>2, <5>1
        <5>3. NumberedIn(Append(transmissions, tx), ids)
          BY <1>1, <1>6, <4>1, <5>2, NumberedAppend
        <5> QED BY <5>1, <5>3
      <4> QED BY <3>1, <4>3
    <3>6. InOrder(transmissions')
      <4> SUFFICES ASSUME NEW i \in DOMAIN transmissions', NEW j \in DOMAIN transmissions',
                          i < j
                   PROVE  transmissions'[i].n < transmissions'[j].n
        BY DEF InOrder
      <4>1. i \in DOMAIN transmissions /\ transmissions'[i] = transmissions[i]
        BY <3>2, <3>3
      <4>2. CASE j \in DOMAIN transmissions
        BY <2>1, <3>2, <3>3, <4>1, <4>2 DEF InOrder
      <4>3. CASE j = Len(transmissions) + 1
        <5>1. transmissions'[j].n = l + 1 /\ transmissions[i].n \in 1..l
          BY <1>6, <3>3, <3>4, <4>1, <4>3
        <5> QED BY <1>1, <4>1, <5>1
      <4> QED BY <3>2, <4>2, <4>3
    <3> QED BY <3>1, <3>2, <3>3, <3>5, <3>6 DEF Numbered, InOrder
  <2> QED BY <2>2, <2>3
<1>12. Numbered(messages)'
  <2>1. NumberedIn(messages, sent')
    BY <1>1, <1>2, <1>7, NumberedMore DEF Flow, Numbered
  <2> QED BY <1>7, <2>1 DEF Numbered
<1>13. Routed'
  <2>1. Doing(t, [at |-> "made", message |-> m])
    BY DEF Doing
  <2> QED BY <1>1, <1>7, <2>1, OneGoesOn DEF Still
<1>14. Types'
  <2>1. Busy("ticker")' => Busy("ticker")
    BY <1>2, <1>9 DEF Busy, Threads
  <2> QED BY <1>1, <1>7, <1>8, <1>11, <1>13, <2>1 DEF Types
<1>15. /\ \A i \in DOMAIN messages : messages[i].n \in 1..l
       /\ delivered \subseteq 1..l /\ dropped \subseteq 1..l /\ hit \subseteq 1..l
       /\ \A u \in Threads : Made(u) => search[u].message.n \in 1..l
  BY DEF Flow, Radio, Numbered, NumberedIn, Hands, InHand, l
<1>16. Hands'
  <2>1. ASSUME NEW u \in Threads, Made(u)'
        PROVE  InHand(search[u].message)'
    <3>1. CASE u = t
      <4>1. m.n \notin delivered' \cup dropped' /\ \A i \in DOMAIN messages' : messages'[i].n # m.n
        BY <1>5, <1>7, <1>8, <1>15
      <4>2. m.n \in 1..Len(sent') /\ m.id = sent'[m.n]
        BY <1>5, <1>8
      <4> QED BY <1>5, <1>10, <3>1, <4>1, <4>2 DEF InHand, Carried, Hops, HopIndex
    <3>2. CASE u # t
      <4>1. InHand(search[u].message) /\ search'[u] = search[u]
        BY <1>9, <1>10, <2>1, <3>2 DEF Flow, Hands
      <4>2. /\ search[u].message.n \in 1..Len(sent')
            /\ search[u].message.id = sent'[search[u].message.n]
        BY <1>8, <4>1 DEF InHand, l
      <4> QED BY <1>7, <4>1, <4>2 DEF InHand, Carried, Hops, HopIndex
    <3> QED BY <3>1, <3>2
  <2>2. ASSUME NEW u \in Threads, NEW v \in Threads, Made(u)', Made(v)',
               search'[u].message.n = search'[v].message.n
        PROVE  u = v
    <3>1. \A x \in Threads : x # t /\ Made(x)' => search'[x].message.n # l + 1
      BY <1>8, <1>9, <1>10, <1>15
    <3>2. search'[t].message.n = l + 1
      BY <1>5, <1>10
    <3>3. u # t /\ v # t => u = v
      BY <1>9, <1>10, <2>2 DEF Flow, Hands
    <3> QED BY <2>2, <3>1, <3>2, <3>3
  <2> QED BY <2>1, <2>2 DEF Hands
<1>17. Flow'
  <2>1. \A i \in DOMAIN messages' : Carried(messages[i])'
    BY <1>7 DEF Flow, Carried, Hops, HopIndex
  <2>2. ASSUME NEW n \in 1..Len(sent')
        PROVE  \/ n \in delivered' \cup dropped'
               \/ \E i \in DOMAIN messages' : messages'[i].n = n
               \/ \E u \in Threads : Made(u)' /\ search'[u].message.n = n
    <3>1. CASE n = l + 1
      BY <1>5, <1>10, <3>1
    <3>2. CASE n # l + 1
      <4>1. n \in 1..l
        BY <1>8, <3>2
      <4>2. \/ n \in delivered \cup dropped
            \/ \E i \in DOMAIN messages : messages[i].n = n
            \/ \E u \in Threads : Made(u) /\ search[u].message.n = n
        BY <4>1 DEF Flow, l
      <4> QED BY <1>2, <1>7, <1>9, <1>10, <4>2
    <3> QED BY <3>1, <3>2
  <2>3. delivered' \subseteq 1..Len(sent') /\ dropped' \subseteq 1..Len(sent')
    BY <1>7, <1>8, <1>15
  <2> QED BY <1>7, <1>11, <1>12, <1>14, <1>16, <2>1, <2>2, <2>3 DEF Flow
<1>18. Lost' = Lost /\ Lost \subseteq 1..l
  BY <1>7, <1>15 DEF Lost
<1>19. ASSUME NEW i \in DOMAIN transmissions'
       PROVE  Airborne(transmissions[i])'
  <2>1. CASE transmissions'[i] = tx
    <3>1. tx.left <= m.remaining - 1
      BY <1>4, <1>5, <1>6
    <3>2. tx.n = m.n
      BY <1>5, <1>6
    <3> QED BY <1>10, <2>1, <3>1, <3>2 DEF Airborne
  <2>2. CASE i \in DOMAIN transmissions /\ transmissions'[i] = transmissions[i]
    <3>1. Airborne(transmissions[i])
      BY <2>2 DEF Radio
    <3> QED BY <1>2, <1>7, <1>9, <1>10, <2>2, <3>1 DEF Airborne
  <2> QED BY <1>11, <2>1, <2>2
<1>20. Radio'
  <2>1. hit' \subseteq 1..Len(sent')
    BY <1>7, <1>8, <1>15
  <2>2. \A n \in hit' \ Lost' : Excused(n)'
    BY <1>7, <1>8, <1>15, <1>18 DEF Radio, Excused
  <2>3. ASSUME NEW n \in Lost' PROVE \E j \in hit' : sent'[j] = sent'[n]
    <3>1. n \in Lost /\ hit' = hit /\ n \in 1..l
      BY <1>7, <1>18
    <3>2. PICK j \in hit : sent[j] = sent[n]
      BY <3>1 DEF Radio
    <3>3. sent'[j] = sent[j] /\ sent'[n] = sent[n]
      BY <1>8, <1>15, <3>1, <3>2
    <3> QED BY <3>1, <3>2, <3>3
  <2>4. \E off \in SUBSET hit' :
          /\ failed' = 2 * Cardinality(off)
          /\ \A i \in DOMAIN transmissions' : transmissions'[i].n \notin off
          /\ \A r \in off : \E h \in hit' : r < h
    <3>1. PICK off \in SUBSET hit :
            /\ failed = 2 * Cardinality(off)
            /\ \A i \in DOMAIN transmissions : transmissions[i].n \notin off
            /\ \A r \in off : \E h \in hit : r < h
      BY DEF Radio
    <3>2. l + 1 \notin off
      BY <1>8, <1>15
    <3>3. \A i \in DOMAIN transmissions' : transmissions'[i].n \notin off
      BY <1>6, <1>11, <3>1, <3>2
    <3> QED BY <1>7, <3>1, <3>3
  <2>5. Made("ticker")' => search'["ticker"].message.n \notin hit'
    <3>1. l + 1 \notin hit
      BY <1>8, <1>15
    <3> QED BY <1>5, <1>7, <1>9, <1>10, <3>1 DEF Radio, Threads
  <2> QED BY <1>7, <1>18, <1>19, <2>1, <2>2, <2>3, <2>4, <2>5 DEF Radio
<1> QED BY <1>17, <1>20

LEMMA EnqueueStep ==
  ASSUME Flow, Radio, NEW t \in Threads, Enqueue(t)
  PROVE  Flow' /\ Radio'
<1> DEFINE m == search[t].message
           k == Len(messages)
<1>1. /\ Routed /\ sent \in Seq(Ids) /\ messages \in Seq(Message)
      /\ k \in Nat /\ DOMAIN messages = 1..k /\ Types
  BY DEF Flow, Types
<1>2. /\ Made(t) /\ Busy(t) /\ m \in Message /\ m.n \in 1..Len(sent) /\ m.id = sent[m.n]
      /\ Carried(m) /\ ~ m.collided /\ m.n \notin delivered \cup dropped
      /\ \A i \in DOMAIN messages : messages[i].n # m.n
  <2>1. Made(t) /\ Busy(t)
    BY DEF Enqueue, Made, Busy
  <2>2. InHand(m)
    BY <2>1 DEF Flow, Hands
  <2> HIDE DEF m
  <2> QED BY <2>1, <2>2 DEF InHand
<1>3. /\ messages' = Append(messages, m)
      /\ wait' = [wait EXCEPT ![m.id[1]] = Gap]
      /\ Continue(t, Idle)
      /\ up' = up /\ jammed' = jammed /\ online' = online
      /\ transmissions' = transmissions /\ sent' = sent
      /\ phase' = phase /\ scenarios' = scenarios
      /\ delivered' = delivered /\ dropped' = dropped
      /\ failed' = failed /\ hit' = hit /\ unlisted' = unlisted
  BY DEF Enqueue, results, places
<1>4. /\ search'[t] = Idle
      /\ \A u \in Threads : u # t => search'[u] = search[u]
  BY <1>1, <1>3, OtherThread
<1>5. /\ ~ Made(t)'
      /\ \A u \in Threads : u # t => (Made(u)' <=> Made(u))
      /\ \A u \in Threads : Made(u)' => u # t /\ Made(u) /\ search'[u] = search[u]
  BY <1>4 DEF Made, Idle
<1>6. \A u \in Threads : u # t /\ Made(u) => search[u].message.n # m.n
  BY <1>2 DEF Flow, Hands
<1> HIDE DEF m, k
<1>7. /\ messages' \in Seq(Message) /\ DOMAIN messages' = 1..(k + 1)
      /\ messages'[k + 1] = m
      /\ \A i \in 1..k : messages'[i] = messages[i]
  <2>1. messages' \in Seq(Message) /\ Len(messages') = k + 1
    BY <1>1, <1>2, <1>3, AppendProperties DEF k
  <2> QED BY <1>1, <1>2, <1>3, <2>1, AppendProperties DEF k
<1>8. /\ \A i \in DOMAIN messages' : \/ i = k + 1 /\ messages'[i] = m
                                     \/ i \in DOMAIN messages /\ messages'[i] = messages[i]
      /\ \A i \in DOMAIN messages : i \in DOMAIN messages' /\ messages'[i] = messages[i]
      /\ k + 1 \in DOMAIN messages'
  BY <1>1, <1>7
<1>9. Numbered(messages)' /\ Numbered(transmissions)' /\ InOrder(transmissions)'
  <2>1. NumberedIn(messages, sent)
    BY DEF Flow, Numbered
  <2>2. /\ messages \in Seq(Message) /\ sent \in Seq(Ids)
        /\ m \in Message /\ m.n \in 1..Len(sent) /\ m.id = sent[m.n]
        /\ \A i \in DOMAIN messages : messages[i].n # m.n
    BY <1>1, <1>2
  <2>3. NumberedIn(Append(messages, m), sent)
    BY <2>1, <2>2, NumberedAppend
  <2>4. NumberedIn(messages', sent')
    BY <1>3, <2>3
  <2> QED BY <1>3, <2>4 DEF Flow, Numbered, NumberedIn, InOrder
<1>10. Types'
  <2>1. Routed'
    BY <1>1, <1>3, OneGoesOn DEF Still, Doing
  <2>2. wait' \in [Nodes -> 0..Gap]
    <3>1. Gap \in 0..Gap
      BY TimesAssumption
    <3> QED BY <1>1, <1>3, <3>1 DEF Types
  <2>3. Busy("ticker")' => Busy("ticker")
    BY <1>2, <1>4 DEF Busy, Threads
  <2> QED BY <1>1, <1>3, <1>7, <2>1, <2>2, <2>3 DEF Types
<1>11. Hands'
  <2>1. ASSUME NEW u \in Threads, Made(u)'
        PROVE  InHand(search[u].message)'
    <3>1. InHand(search[u].message) /\ u # t /\ search'[u] = search[u] /\ Made(u)
      BY <1>5, <2>1 DEF Flow, Hands
    <3>2. \A i \in DOMAIN messages' : messages'[i].n # search[u].message.n
      BY <1>6, <1>8, <3>1 DEF InHand
    <3> QED BY <1>3, <3>1, <3>2 DEF InHand, Carried, Hops, HopIndex
  <2>2. ASSUME NEW u \in Threads, NEW v \in Threads, Made(u)', Made(v)',
               search'[u].message.n = search'[v].message.n
        PROVE  u = v
    BY <1>5, <2>2 DEF Flow, Hands
  <2> QED BY <2>1, <2>2 DEF Hands
<1>12. Flow'
  <2>1. \A i \in DOMAIN messages' : Carried(messages[i])'
    <3>1. \A i \in DOMAIN messages' : Carried(messages'[i])
      BY <1>2, <1>8 DEF Flow
    <3> QED BY <3>1 DEF Carried, Hops, HopIndex
  <2>2. \A i \in DOMAIN messages' : messages'[i].collided => phase' = "delivery"
    BY <1>2, <1>3, <1>8 DEF Flow
  <2>3. \A i \in DOMAIN messages' : messages'[i].n \notin delivered' \cup dropped'
    BY <1>2, <1>3, <1>8 DEF Flow
  <2>4. ASSUME NEW n \in 1..Len(sent')
        PROVE  \/ n \in delivered' \cup dropped'
               \/ \E i \in DOMAIN messages' : messages'[i].n = n
               \/ \E u \in Threads : Made(u)' /\ search'[u].message.n = n
    <3>1. CASE n = m.n
      BY <1>7, <1>8, <3>1
    <3>2. CASE n # m.n
      <4>1. \/ n \in delivered \cup dropped
            \/ \E i \in DOMAIN messages : messages[i].n = n
            \/ \E u \in Threads : Made(u) /\ search[u].message.n = n
        BY <1>3 DEF Flow
      <4> QED BY <1>3, <1>4, <1>5, <1>8, <3>2, <4>1 DEF m
    <3> QED BY <3>1, <3>2
  <2> QED BY <1>3, <1>9, <1>10, <1>11, <2>1, <2>2, <2>3, <2>4 DEF Flow
<1>13. Lost' = Lost
  <2>1. \A x : x \in Lost' <=> \/ x \in dropped
                               \/ \E i \in DOMAIN messages' :
                                    messages'[i].collided /\ messages'[i].n = x
    BY <1>3 DEF Lost
  <2>2. \A x : x \in Lost <=> \/ x \in dropped
                              \/ \E i \in DOMAIN messages :
                                   messages[i].collided /\ messages[i].n = x
    BY DEF Lost
  <2>3. \A x : x \in Lost' <=> x \in Lost
    BY <1>2, <1>8, <2>1, <2>2
  <2> QED BY <2>3
<1>14. ASSUME NEW i \in DOMAIN transmissions
       PROVE  Airborne(transmissions[i])'
  <2> DEFINE tx == transmissions[i]
  <2>1. tx.left \in Nat /\ m.remaining \in Nat
    <3>1. tx \in Transmission
      BY <1>1 DEF Types
    <3> QED BY <1>2, <3>1 DEF Transmission, Message
  <2>2. Airborne(tx)
    BY DEF Radio
  <2>3. CASE \E u \in Threads : /\ Made(u) /\ search[u].message.n = tx.n
                                /\ tx.left <= search[u].message.remaining - 1
    <3>1. PICK u \in Threads : /\ Made(u) /\ search[u].message.n = tx.n
                               /\ tx.left <= search[u].message.remaining - 1
      BY <2>3
    <3>2. CASE u = t
      <4>1. /\ messages'[k + 1].n = tx.n
            /\ tx.left <= messages'[k + 1].remaining - (IF phase' = "delivery" THEN 1 ELSE 0)
        BY <1>7, <2>1, <3>1, <3>2 DEF m
      <4> QED BY <1>3, <1>8, <4>1 DEF Airborne
    <3>3. CASE u # t
      BY <1>3, <1>4, <1>5, <3>1, <3>3 DEF Airborne
    <3> QED BY <3>2, <3>3
  <2>4. CASE \E j \in DOMAIN messages :
                /\ messages[j].n = tx.n
                /\ tx.left <= messages[j].remaining - (IF phase = "delivery" THEN 1 ELSE 0)
    <3>1. \E j \in DOMAIN messages' :
             /\ messages'[j].n = tx.n
             /\ tx.left <= messages'[j].remaining - (IF phase' = "delivery" THEN 1 ELSE 0)
      BY <1>3, <1>8, <2>4
    <3> QED BY <1>3, <3>1 DEF Airborne
  <2>5. CASE tx.n \in dropped \/ tx.left = 0
    BY <1>3, <2>5 DEF Airborne
  <2> QED BY <2>2, <2>3, <2>4, <2>5 DEF Airborne
<1>15. Radio'
  <2>1. \A n \in hit' \ Lost' : Excused(n)'
    BY <1>3, <1>13 DEF Radio, Excused
  <2>2. Made("ticker")' => search'["ticker"].message.n \notin hit'
    BY <1>3, <1>5 DEF Radio, Threads
  <2> QED BY <1>3, <1>13, <1>14, <2>1, <2>2 DEF Radio
<1> QED BY <1>12, <1>15

(***************************************************************************)
(* Collisions.                                                             *)
(***************************************************************************)
Firsts == {i \in DOMAIN transmissions : Later(i) # {}}

\* The first transmission of a pair collides with one begun after it.
LEMMA LaterOne ==
  ASSUME NEW i \in Firsts, transmissions \in Seq(Transmission)
  PROVE  /\ Min(Later(i)) \in DOMAIN transmissions
         /\ i < Min(Later(i))
         /\ transmissions[i].left > 0 /\ transmissions[Min(Later(i))].left > 0
<1> DEFINE l == Later(i)
<1>1. DOMAIN transmissions = 1..Len(transmissions) /\ Len(transmissions) \in Nat
  OBVIOUS
<1>2. i \in 1..Len(transmissions) /\ l # {}
  BY <1>1 DEF Firsts
<1>3. l \in SUBSET Nat
  BY <1>2 DEF Later
<1>4. \E x \in l : \A y \in l : x <= y
  <2> HIDE DEF l
  <2> QED BY <1>2, <1>3, LeastNat
<1>5. Min(l) \in l
  BY <1>4 DEF Min
<1>6. ASSUME NEW j \in l
      PROVE  /\ j \in DOMAIN transmissions /\ i < j
             /\ transmissions[i].left > 0 /\ transmissions[j].left > 0
  BY <1>1, <1>2 DEF Later, Clashes, InTheAir
<1> HIDE DEF l
<1>7. /\ Min(l) \in DOMAIN transmissions /\ i < Min(l)
      /\ transmissions[i].left > 0 /\ transmissions[Min(l)].left > 0
  BY <1>5, <1>6
<1> QED BY <1>7 DEF l

\* Every pair has a first of its own, and involves two transmissions.
LEMMA PairsOf ==
  ASSUME transmissions \in Seq(Transmission)
  PROVE  /\ Firsts \subseteq Involved /\ Involved \subseteq DOMAIN transmissions
         /\ \A i \in Involved : transmissions[i].left > 0
         /\ \A i \in Firsts : \E j \in Involved : i < j
         /\ Kept = {i \in DOMAIN transmissions : transmissions[i].left > 0} \ Firsts
         /\ IsFiniteSet(Firsts) /\ IsFiniteSet(Involved)
         /\ Cardinality(Firsts) \in Nat /\ Cardinality(Involved) \in Nat
         /\ Losses = 2 * Cardinality(Firsts)
         /\ Cardinality(Involved) <= Losses
<1> DEFINE pairOf == [i \in Firsts |-> <<i, Min(Later(i))>>]
           secondOf == [i \in Firsts |-> Min(Later(i))]
           seconds == {secondOf[i] : i \in Firsts}
<1>1. Pairs = {pairOf[i] : i \in Firsts}
  BY DEF Pairs, Firsts
<1>2. \A i \in Firsts : pairOf[i][1] = i /\ pairOf[i][2] = secondOf[i]
  OBVIOUS
<1>3. {pair[1] : pair \in Pairs} = Firsts
  <2> HIDE DEF pairOf
  <2> QED BY <1>1, <1>2
<1>4. Involved = Firsts \cup seconds
  <2>1. \A x : x \in Involved <=> \E pair \in Pairs : x = pair[1] \/ x = pair[2]
    BY DEF Involved
  <2>2. \A x : x \in Firsts \cup seconds <=> \E i \in Firsts : x = i \/ x = secondOf[i]
    OBVIOUS
  <2> HIDE DEF pairOf, secondOf, seconds
  <2>3. \A x : x \in Involved <=> x \in Firsts \cup seconds
    BY <1>1, <1>2, <2>1, <2>2
  <2> QED BY <2>3
<1>5. Kept = {i \in DOMAIN transmissions : transmissions[i].left > 0} \ Firsts
  BY <1>3 DEF Kept, InTheAir
<1>6. /\ seconds \subseteq DOMAIN transmissions
      /\ \A i \in Firsts \cup seconds : transmissions[i].left > 0
      /\ \A i \in Firsts : secondOf[i] \in seconds /\ i < secondOf[i]
  BY LaterOne
<1>7. IsFiniteSet(Firsts) /\ Cardinality(Firsts) \in Nat
  <2>1. IsFiniteSet(DOMAIN transmissions)
    <3>1. DOMAIN transmissions = 1..Len(transmissions) /\ Len(transmissions) \in Nat
      OBVIOUS
    <3> QED BY <3>1, FS_Interval
  <2> QED BY <2>1, FS_Subset, FS_CardinalityType DEF Firsts
<1>8. Cardinality(Pairs) = Cardinality(Firsts)
  <2>1. DOMAIN pairOf = Firsts /\ pairOf = [i \in Firsts |-> pairOf[i]]
    OBVIOUS
  <2>2. \A x, y \in Firsts : pairOf[x] = pairOf[y] => x = y
    BY <1>2
  <2> HIDE DEF pairOf
  <2>3. Cardinality({pairOf[i] : i \in Firsts}) = Cardinality(Firsts)
    BY <1>7, <2>1, <2>2, Values
  <2> QED BY <1>1, <2>3
<1>9. IsFiniteSet(seconds) /\ Cardinality(seconds) <= Cardinality(Firsts)
  <2>1. DOMAIN secondOf = Firsts /\ secondOf = [i \in Firsts |-> secondOf[i]]
    OBVIOUS
  <2> HIDE DEF secondOf
  <2> QED BY <1>7, <2>1, Values
<1> HIDE DEF seconds, secondOf, pairOf
<1>10. /\ IsFiniteSet(Involved) /\ Cardinality(Involved) \in Nat
       /\ Cardinality(Involved) <= 2 * Cardinality(Firsts)
  <2>1. /\ IsFiniteSet(Firsts \cup seconds)
        /\ Cardinality(Firsts \cup seconds)
             = Cardinality(Firsts) + Cardinality(seconds) - Cardinality(Firsts \cap seconds)
    BY <1>7, <1>9, FS_Union
  <2>2. Cardinality(seconds) \in Nat /\ Cardinality(Firsts \cap seconds) \in Nat
    BY <1>7, <1>9, FS_Intersection, FS_CardinalityType
  <2>3. Cardinality(Firsts \cup seconds) \in Nat
    BY <2>1, FS_CardinalityType
  <2> QED BY <1>4, <1>7, <1>9, <2>1, <2>2, <2>3
<1>11. Losses = 2 * Cardinality(Firsts)
  BY <1>8 DEF Losses
<1>12. \A i \in Firsts : \E j \in Involved : i < j
  BY <1>4, <1>6
<1>13. Firsts \subseteq DOMAIN transmissions
  BY DEF Firsts
<1> QED BY <1>4, <1>5, <1>6, <1>7, <1>10, <1>11, <1>12, <1>13

\* The message at this place is the first with the ID of a transmission that has
\* collided.
MarkedNow(i) ==
  /\ \E j \in Involved : messages[i].id = transmissions[j].id
  /\ \A j \in 1..(i - 1) : messages[j].id # messages[i].id

SameBut(t, m, collided) ==
  /\ t.n = m.n /\ t.id = m.id /\ t.path = m.path
  /\ t.remaining = m.remaining /\ t.total = m.total /\ t.acks = m.acks
  /\ t.collided = collided

\* The transmission at place i, one tick later.
Older(t, i) ==
  /\ i \in DOMAIN transmissions /\ i \notin Firsts /\ transmissions[i].left > 0
  /\ t.n = transmissions[i].n /\ t.id = transmissions[i].id
  /\ t.left = transmissions[i].left - 1

LEMMA CollisionEffect ==
  ASSUME Types, CheckCollisions
  PROVE  /\ messages' \in Seq(Message) /\ DOMAIN messages' = DOMAIN messages
         /\ \A i \in DOMAIN messages :
              SameBut(messages'[i], messages[i], messages[i].collided \/ MarkedNow(i))
         /\ transmissions' \in Seq(Transmission)
         /\ \A k \in DOMAIN transmissions' : \E i : Older(transmissions'[k], i)
         /\ \A k, l \in DOMAIN transmissions' :
              k < l => \E i, j : /\ i < j /\ Older(transmissions'[k], i)
                                 /\ Older(transmissions'[l], j)
<1>1. messages \in Seq(Message) /\ transmissions \in Seq(Transmission)
  BY DEF Types
<1> DEFINE ids == {transmissions[i].id : i \in Involved}
           older == [i \in DOMAIN transmissions |-> Aged(transmissions[i])]
           t == At(older, Kept)
<1>2. messages' = Marked(ids) /\ transmissions' = t
  BY DEF CheckCollisions, Involved
<1>3. ASSUME NEW i \in DOMAIN messages
      PROVE  /\ messages'[i] \in Message
             /\ SameBut(messages'[i], messages[i], messages[i].collided \/ MarkedNow(i))
  <2> DEFINE b == \/ messages[i].collided
                  \/ /\ messages[i].id \in ids
                     /\ \A j \in 1..(i - 1) : messages[j].id # messages[i].id
  <2>1. messages'[i] = [messages[i] EXCEPT !.collided = b]
    BY <1>2 DEF Marked
  <2>2. b = (messages[i].collided \/ MarkedNow(i))
    BY DEF MarkedNow
  <2>3. messages[i] \in Message
    BY <1>1
  <2>4. b \in BOOLEAN
    OBVIOUS
  <2> HIDE DEF b
  <2> QED BY <2>1, <2>2, <2>3, <2>4 DEF SameBut, Message
<1>4. messages' \in Seq(Message) /\ DOMAIN messages' = DOMAIN messages
  <2>1. DOMAIN messages' = DOMAIN messages
    BY <1>2 DEF Marked
  <2>2. DOMAIN messages = 1..Len(messages) /\ Len(messages) \in Nat
    BY <1>1
  <2>3. messages' = [i \in 1..Len(messages) |-> messages'[i]]
    BY <1>2, <2>2 DEF Marked
  <2>4. \A i \in 1..Len(messages) : messages'[i] \in Message
    BY <1>3, <2>2
  <2>5. messages' \in [1..Len(messages) -> Message]
    BY <2>3, <2>4
  <2> QED BY <2>1, <2>2, <2>5
<1>5. ASSUME NEW i \in Kept
      PROVE  /\ i \in DOMAIN transmissions /\ Older(older[i], i)
             /\ older[i] \in Transmission
  <2>1. /\ i \in DOMAIN transmissions /\ i \notin Firsts /\ transmissions[i].left > 0
        /\ transmissions[i] \in Transmission
    BY <1>1, PairsOf
  <2>2. older[i] = [transmissions[i] EXCEPT !.left = transmissions[i].left - 1]
    BY <2>1 DEF Aged
  <2> QED BY <2>1, <2>2 DEF Older, Transmission
<1> DEFINE Timed == [n : Nat, id : Ids, sf : SpreadingFactors, left : Int]
<1>6. older \in Seq(Timed) /\ Len(older) = Len(transmissions)
  <2>1. \A i \in DOMAIN transmissions : Aged(transmissions[i]) \in Timed
    <3> TAKE i \in DOMAIN transmissions
    <3>1. transmissions[i] \in Transmission
      BY <1>1
    <3>2. Aged(transmissions[i]) = [transmissions[i] EXCEPT !.left = transmissions[i].left - 1]
      BY DEF Aged
    <3>3. transmissions[i].left - 1 \in Int
      BY <3>1 DEF Transmission
    <3> QED BY <3>1, <3>2, <3>3 DEF Transmission
  <2>2. DOMAIN transmissions = 1..Len(transmissions) /\ Len(transmissions) \in Nat
    BY <1>1
  <2>3. older \in [1..Len(transmissions) -> Timed]
    BY <2>1, <2>2
  <2> HIDE DEF older, Timed
  <2> QED BY <2>2, <2>3
<1>7. Kept \in SUBSET (1..Len(older))
  <2>1. DOMAIN transmissions = 1..Len(transmissions)
    BY <1>1
  <2> QED BY <1>5, <1>6, <2>1
<1> HIDE DEF older, Timed
<1>8. /\ t \in Seq(Timed)
      /\ \A k \in 1..Len(t) : \E i \in Kept : t[k] = older[i]
      /\ \A k, l \in 1..Len(t) :
           k < l => \E i, j \in Kept : i < j /\ t[k] = older[i] /\ t[l] = older[j]
  BY <1>6, <1>7, AtMembers
<1> HIDE DEF t
<1>9. DOMAIN t = 1..Len(t) /\ Len(t) \in Nat
  BY <1>8
<1>10. t \in Seq(Transmission)
  <2>1. \A k \in 1..Len(t) : t[k] \in Transmission
    BY <1>5, <1>8
  <2>2. t \in [1..Len(t) -> Timed]
    BY <1>8
  <2>3. t \in [1..Len(t) -> Transmission]
    BY <2>1, <2>2
  <2> QED BY <1>9, <2>3
<1>11. \A k \in DOMAIN t : \E i : Older(t[k], i)
  BY <1>5, <1>8, <1>9
<1>12. \A k, l \in DOMAIN t :
         k < l => \E i, j : i < j /\ Older(t[k], i) /\ Older(t[l], j)
  BY <1>5, <1>8, <1>9
<1> QED BY <1>2, <1>3, <1>4, <1>10, <1>11, <1>12

\* While collisions are looked for, the ticker has nothing in its hands.
LEMMA TickerIdle ==
  ASSUME Flow, phase # "traffic"
  PROVE  ~ Busy("ticker") /\ ~ Made("ticker")
BY DEF Flow, Types, Busy, Made

LEMMA CollisionKeepsFlow ==
  ASSUME Flow, CheckCollisions
  PROVE  Flow'
<1>1. /\ phase' = "delivery" /\ sent' = sent /\ delivered' = delivered
      /\ dropped' = dropped /\ scenarios' = scenarios /\ search' = search
      /\ up' = up /\ jammed' = jammed /\ online' = online /\ phase = "collisions"
      /\ wait' = [n \in Nodes |-> IF wait[n] > 0 THEN wait[n] - 1 ELSE 0]
  BY DEF CheckCollisions, places
<1>2. Types
  BY DEF Flow
<1>3. /\ messages' \in Seq(Message) /\ DOMAIN messages' = DOMAIN messages
      /\ \A i \in DOMAIN messages :
           SameBut(messages'[i], messages[i], messages[i].collided \/ MarkedNow(i))
      /\ transmissions' \in Seq(Transmission)
      /\ \A k \in DOMAIN transmissions' : \E i : Older(transmissions'[k], i)
      /\ \A k, l \in DOMAIN transmissions' :
           k < l => \E i, j : /\ i < j /\ Older(transmissions'[k], i)
                              /\ Older(transmissions'[l], j)
  BY <1>2, CollisionEffect
<1>4. Types'
  <2>1. wait' \in [Nodes -> 0..Gap]
    <3>1. \A w \in 0..Gap : (IF w > 0 THEN w - 1 ELSE 0) \in 0..Gap
      BY TimesAssumption
    <3> QED BY <1>1, <1>2, <3>1 DEF Types
  <2>2. Routed'
    BY <1>1, <1>2 DEF Types, Routed, Placed, Doing, Relayed, FindRandomRelay, HasConnection
  <2>3. ~ Busy("ticker")'
    BY <1>1, TickerIdle DEF Busy
  <2> QED BY <1>1, <1>2, <1>3, <2>1, <2>2, <2>3 DEF Types
<1>5. Numbered(messages)'
  <2>1. NumberedIn(messages, sent)
    BY DEF Flow, Numbered
  <2>2. NumberedIn(messages', sent)
    BY <1>3, <2>1 DEF NumberedIn, SameBut
  <2> QED BY <1>1, <2>2 DEF Numbered
<1>6. Numbered(transmissions)' /\ InOrder(transmissions)'
  <2>1. NumberedIn(transmissions, sent) /\ InOrder(transmissions)
    BY DEF Flow, Numbered
  <2>2. InOrder(transmissions')
    BY <1>3, <2>1 DEF InOrder, Older
  <2>3. \A k \in DOMAIN transmissions' :
          /\ transmissions'[k].n \in 1..Len(sent)
          /\ transmissions'[k].id = sent[transmissions'[k].n]
    BY <1>3, <2>1 DEF NumberedIn, Older
  <2>4. ASSUME NEW k \in DOMAIN transmissions', NEW l \in DOMAIN transmissions',
               transmissions'[k].n = transmissions'[l].n
        PROVE  k = l
    <3>1. k \in Nat /\ l \in Nat
      BY <1>3
    <3>2. transmissions'[k].n \in Nat
      BY <2>3
    <3>3. ~ k < l /\ ~ l < k
      BY <2>2, <2>4, <3>2 DEF InOrder
    <3> QED BY <3>1, <3>3
  <2>5. NumberedIn(transmissions', sent)
    BY <2>3, <2>4 DEF NumberedIn
  <2> QED BY <1>1, <2>2, <2>5 DEF Numbered, InOrder
<1>7. \A i \in DOMAIN messages' : Carried(messages'[i])
  <2> TAKE i \in DOMAIN messages'
  <2>1. Carried(messages[i])
    BY <1>3 DEF Flow
  <2>2. SameBut(messages'[i], messages[i], messages[i].collided \/ MarkedNow(i))
    BY <1>3
  <2>3. Hops(messages'[i]) = Hops(messages[i])
    BY <2>2 DEF SameBut, Hops
  <2>4. HopIndex(messages'[i], messages'[i].remaining)
          = HopIndex(messages[i], messages[i].remaining)
    BY <2>2, <2>3 DEF SameBut, HopIndex
  <2> QED BY <2>1, <2>2, <2>3, <2>4 DEF SameBut, Carried
<1>8. \A i \in DOMAIN messages' : messages'[i].n = messages[i].n
  BY <1>3 DEF SameBut
<1>9. Hands'
  <2>1. ASSUME NEW t \in Threads, Made(t)'
        PROVE  InHand(search[t].message)'
    <3>1. InHand(search[t].message) /\ search'[t] = search[t]
      BY <1>1, <2>1 DEF Flow, Hands, Made
    <3>2. \A i \in DOMAIN messages' : messages'[i].n # search[t].message.n
      BY <1>3, <1>8, <3>1 DEF InHand
    <3> QED BY <1>1, <3>1, <3>2 DEF InHand, Carried, Hops, HopIndex
  <2>2. ASSUME NEW t \in Threads, NEW u \in Threads, Made(t)', Made(u)',
               search'[t].message.n = search'[u].message.n
        PROVE  t = u
    BY <1>1, <2>2 DEF Flow, Hands, Made
  <2> QED BY <2>1, <2>2 DEF Hands
<1>10. ASSUME NEW n \in 1..Len(sent')
       PROVE  \/ n \in delivered' \cup dropped'
              \/ \E i \in DOMAIN messages' : messages'[i].n = n
              \/ \E t \in Threads : Made(t)' /\ search'[t].message.n = n
  BY <1>1, <1>3, <1>8 DEF Flow, Made
<1>11. /\ delivered' \subseteq 1..Len(sent') /\ dropped' \subseteq 1..Len(sent')
       /\ delivered' \cap dropped' = {}
       /\ \A i \in DOMAIN messages' : messages'[i].n \notin delivered' \cup dropped'
  BY <1>1, <1>3, <1>8 DEF Flow
<1>12. \A i \in DOMAIN messages' : Carried(messages[i])'
  BY <1>7 DEF Carried, Hops, HopIndex
<1> QED BY <1>1, <1>4, <1>5, <1>6, <1>9, <1>10, <1>11, <1>12 DEF Flow

\* The messages marked in this tick.
NewlyLost == {messages[i].n : i \in {j \in DOMAIN messages : MarkedNow(j)}}

\* The numbers of the transmissions taken off the air.
OffNow == {transmissions[i].n : i \in Firsts}

\* Marking a message takes a transmission with its ID, and no two messages that
\* are marked have one ID.
LEMMA MarkedAreFew ==
  ASSUME Flow
  PROVE  /\ IsFiniteSet(NewlyLost) /\ Cardinality(NewlyLost) \in Nat
         /\ Cardinality(NewlyLost) <= Losses
<1>1. /\ messages \in Seq(Message) /\ transmissions \in Seq(Transmission)
      /\ NumberedIn(messages, sent)
  BY DEF Flow, Types, Numbered
<1>2. ASSUME NEW n \in NewlyLost
      PROVE  \E i \in DOMAIN messages : messages[i].n = n /\ MarkedNow(i)
  BY DEF NewlyLost
<1>3. ASSUME NEW i \in DOMAIN messages
      PROVE  messages[i].id = sent[messages[i].n]
  BY <1>1 DEF NumberedIn
<1> DEFINE f == [n \in NewlyLost |-> CHOOSE j \in Involved : sent[n] = transmissions[j].id]
<1>4. ASSUME NEW n \in NewlyLost
      PROVE  f[n] \in Involved /\ sent[n] = transmissions[f[n]].id
  <2>1. PICK i \in DOMAIN messages : messages[i].n = n /\ MarkedNow(i)
    BY <1>2
  <2>2. \E j \in Involved : sent[n] = transmissions[j].id
    BY <1>3, <2>1 DEF MarkedNow
  <2> QED BY <2>2
<1>5. f \in [NewlyLost -> Involved]
  BY <1>4
<1> HIDE DEF f
<1>6. ASSUME NEW x \in NewlyLost, NEW y \in NewlyLost, f[x] = f[y]
      PROVE  x = y
  <2>1. sent[x] = sent[y]
    BY <1>4, <1>6
  <2>2. PICK i \in DOMAIN messages : messages[i].n = x /\ MarkedNow(i)
    BY <1>2
  <2>3. PICK j \in DOMAIN messages : messages[j].n = y /\ MarkedNow(j)
    BY <1>2
  <2>4. messages[i].id = messages[j].id
    BY <1>3, <2>1, <2>2, <2>3
  <2>5. i \in Nat /\ j \in Nat /\ i >= 1 /\ j >= 1
    BY <1>1
  <2>6. ~ i < j /\ ~ j < i
    BY <2>2, <2>3, <2>4, <2>5 DEF MarkedNow
  <2>7. i = j
    BY <2>5, <2>6
  <2> QED BY <2>2, <2>3, <2>7
<1>7. IsFiniteSet(NewlyLost) /\ Cardinality(NewlyLost) <= Cardinality(Involved)
  BY <1>1, <1>5, <1>6, PairsOf, Labelled
<1>8. Cardinality(NewlyLost) \in Nat
  BY <1>7, FS_CardinalityType
<1>9. Cardinality(Involved) <= Losses /\ Cardinality(Involved) \in Nat /\ Losses \in Nat
  BY <1>1, PairsOf
<1> QED BY <1>7, <1>8, <1>9

\* As many transmissions are taken off the air as there are pairs, and each has a
\* later one that collided with it.
LEMMA OffTheAir ==
  ASSUME Flow
  PROVE  /\ IsFiniteSet(OffNow) /\ Losses = 2 * Cardinality(OffNow)
         /\ Cardinality(OffNow) \in Nat
         /\ \A r \in OffNow : \E j \in Involved : r < transmissions[j].n
         /\ \A i \in DOMAIN transmissions : i \notin Firsts => transmissions[i].n \notin OffNow
<1>1. /\ transmissions \in Seq(Transmission) /\ NumberedIn(transmissions, sent)
      /\ sent \in Seq(Ids) /\ InOrder(transmissions)
  BY DEF Flow, Types, Numbered
<1>2. /\ Firsts \subseteq DOMAIN transmissions /\ Involved \subseteq DOMAIN transmissions
      /\ IsFiniteSet(Firsts) /\ Losses = 2 * Cardinality(Firsts)
      /\ \A i \in Firsts : \E j \in Involved : i < j
  BY <1>1, PairsOf DEF Firsts
<1> DEFINE number == [i \in Firsts |-> transmissions[i].n]
<1>3. OffNow = {number[i] : i \in Firsts}
  BY DEF OffNow
<1>4. \A i, j \in Firsts : number[i] = number[j] => i = j
  BY <1>1, <1>2 DEF NumberedIn
<1>5. IsFiniteSet(OffNow) /\ Cardinality(OffNow) = Cardinality(Firsts)
  <2>1. DOMAIN number = Firsts /\ number = [i \in Firsts |-> number[i]]
    OBVIOUS
  <2> HIDE DEF number
  <2>2. /\ IsFiniteSet({number[i] : i \in Firsts})
        /\ Cardinality({number[i] : i \in Firsts}) = Cardinality(Firsts)
    BY <1>2, <1>4, <2>1, Values
  <2> QED BY <1>3, <2>2
<1>6. \A r \in OffNow : \E j \in Involved : r < transmissions[j].n
  BY <1>1, <1>2 DEF OffNow, InOrder
<1>7. ASSUME NEW i \in DOMAIN transmissions, i \notin Firsts
      PROVE  transmissions[i].n \notin OffNow
  <2> SUFFICES ASSUME NEW j \in Firsts, transmissions[j].n = transmissions[i].n
               PROVE  FALSE
    BY DEF OffNow
  <2>1. i = j
    BY <1>1, <1>2 DEF NumberedIn
  <2> QED BY <1>7, <2>1
<1>8. Cardinality(OffNow) \in Nat
  BY <1>5, FS_CardinalityType
<1> QED BY <1>2, <1>5, <1>6, <1>7, <1>8

\* Of the messages with the ID of a transmission that has collided, the first is
\* marked: the one sent over it, or another.
LEMMA MarkedOrNamesake ==
  ASSUME Flow, NEW j \in Involved, NEW i \in DOMAIN messages,
         messages[i].n = transmissions[j].n
  PROVE  \/ messages[i].n \in NewlyLost
         \/ \E k \in NewlyLost : k # messages[i].n /\ sent[k] = sent[messages[i].n]
<1>1. /\ messages \in Seq(Message) /\ transmissions \in Seq(Transmission)
      /\ NumberedIn(messages, sent) /\ NumberedIn(transmissions, sent)
  BY DEF Flow, Types, Numbered
<1>2. messages[i].id = transmissions[j].id
  BY <1>1, PairsOf DEF NumberedIn
<1> DEFINE same == {l \in DOMAIN messages : messages[l].id = messages[i].id}
<1>3. same \in SUBSET Nat /\ i \in same
  BY <1>1
<1>4. PICK l \in same : \A o \in same : l <= o
  <2> HIDE DEF same
  <2> QED BY <1>3, LeastNat
<1>5. l \in DOMAIN messages /\ messages[l].id = messages[i].id /\ l <= i
  BY <1>3, <1>4
<1>6. MarkedNow(l)
  <2>1. ASSUME NEW o \in 1..(l - 1)
        PROVE  messages[o].id # messages[l].id
    <3>1. o \in DOMAIN messages /\ ~ l <= o
      BY <1>1, <1>5
    <3>2. o \notin same
      <4> HIDE DEF same
      <4> QED BY <1>4, <3>1
    <3> QED BY <1>5, <3>1, <3>2
  <2> QED BY <1>2, <1>5, <2>1 DEF MarkedNow
<1>7. messages[l].n \in NewlyLost
  BY <1>5, <1>6 DEF NewlyLost
<1>8. l < i => messages[l].n # messages[i].n
  BY <1>1, <1>5 DEF NumberedIn
<1>9. sent[messages[l].n] = sent[messages[i].n]
  BY <1>1, <1>5 DEF NumberedIn
<1>10. l = i \/ l < i
  BY <1>1, <1>5
<1> QED BY <1>7, <1>8, <1>9, <1>10

LEMMA CollisionKeepsRadio ==
  ASSUME Flow, Radio, CheckCollisions
  PROVE  Radio'
<1> DEFINE now == {transmissions[i].n : i \in Involved}
<1>1. /\ phase = "collisions" /\ phase' = "delivery" /\ sent' = sent
      /\ delivered' = delivered /\ dropped' = dropped /\ search' = search
      /\ failed' = failed + Losses
      /\ hit' = hit \cup now
      /\ unlisted' = unlisted \cup (now \cap HeldNumbers)
  BY DEF CheckCollisions, Involved
<1>2. /\ messages \in Seq(Message) /\ transmissions \in Seq(Transmission)
      /\ NumberedIn(messages, sent) /\ NumberedIn(transmissions, sent)
      /\ Types
  BY DEF Flow, Types, Numbered
<1>3. /\ DOMAIN messages' = DOMAIN messages
      /\ \A i \in DOMAIN messages :
           SameBut(messages'[i], messages[i], messages[i].collided \/ MarkedNow(i))
      /\ \A k \in DOMAIN transmissions' : \E i : Older(transmissions'[k], i)
  BY <1>2, CollisionEffect
<1>4. \A i \in DOMAIN messages : ~ messages[i].collided
  BY <1>1 DEF Flow
<1>5. Lost = dropped
  BY <1>4 DEF Lost
<1>6. Lost' = dropped \cup NewlyLost
  <2>1. \A i \in DOMAIN messages : /\ messages'[i].n = messages[i].n
                                   /\ messages'[i].collided <=> MarkedNow(i)
    BY <1>3, <1>4 DEF SameBut
  <2>2. \A x : x \in Lost' <=> \/ x \in dropped
                               \/ \E i \in DOMAIN messages :
                                    messages'[i].collided /\ messages'[i].n = x
    BY <1>1, <1>3 DEF Lost
  <2>3. \A x : x \in NewlyLost <=> \E i \in DOMAIN messages :
                                     MarkedNow(i) /\ messages[i].n = x
    BY DEF NewlyLost
  <2>4. \A x : x \in Lost' <=> x \in dropped \cup NewlyLost
    BY <2>1, <2>2, <2>3
  <2> QED BY <2>4
<1>7. Involved \subseteq DOMAIN transmissions /\ \A j \in Involved : transmissions[j].left > 0
  BY <1>2, PairsOf
<1>8. hit' \subseteq 1..Len(sent')
  <2>1. \A i \in Involved : transmissions[i].n \in 1..Len(sent)
    BY <1>2, <1>7 DEF NumberedIn
  <2>2. now \subseteq 1..Len(sent)
    BY <2>1
  <2>3. hit \subseteq 1..Len(sent)
    BY DEF Radio
  <2> HIDE DEF now
  <2> QED BY <1>1, <2>2, <2>3
<1>9. failed' \in Nat /\ Losses \in Nat
  BY <1>1, <1>2, PairsOf DEF Radio
<1>10. ASSUME NEW k \in DOMAIN transmissions'
       PROVE  Airborne(transmissions[k])'
  <2>1. PICK i : Older(transmissions'[k], i)
    BY <1>3
  <2>2. /\ i \in DOMAIN transmissions /\ transmissions[i].left > 0
        /\ transmissions'[k].n = transmissions[i].n
        /\ transmissions'[k].left = transmissions[i].left - 1
        /\ transmissions[i].left \in Nat
    <3>1. /\ i \in DOMAIN transmissions /\ transmissions[i].left > 0
          /\ transmissions'[k].n = transmissions[i].n
          /\ transmissions'[k].left = transmissions[i].left - 1
      BY <2>1 DEF Older
    <3>2. transmissions[i] \in Transmission
      BY <1>2, <3>1
    <3>3. transmissions[i].left \in Nat
      BY <3>2 DEF Transmission
    <3> QED BY <3>1, <3>3
  <2>3. \/ transmissions[i].n \in dropped
        \/ \E j \in DOMAIN messages : /\ messages[j].n = transmissions[i].n
                                      /\ transmissions[i].left <= messages[j].remaining - 0
        \/ \E t \in Threads : /\ Made(t) /\ search[t].message.n = transmissions[i].n
                              /\ transmissions[i].left <= search[t].message.remaining - 1
    BY <1>1, <2>2 DEF Radio, Airborne
  <2>4. CASE transmissions[i].n \in dropped
    BY <1>1, <2>2, <2>4 DEF Airborne
  <2>5. ASSUME NEW j \in DOMAIN messages, messages[j].n = transmissions[i].n,
               transmissions[i].left <= messages[j].remaining - 0
        PROVE  Airborne(transmissions[k])'
    <3>1. messages[j].remaining \in Nat
      <4>1. messages[j] \in Message
        BY <1>2
      <4> QED BY <4>1 DEF Message
    <3>2. messages'[j].n = messages[j].n /\ messages'[j].remaining = messages[j].remaining
      BY <1>3 DEF SameBut
    <3>3. transmissions'[k].left <= messages'[j].remaining - 1
      BY <2>2, <2>5, <3>1, <3>2
    <3> QED BY <1>1, <1>3, <2>2, <2>5, <3>2, <3>3 DEF Airborne
  <2>6. ASSUME NEW t \in Threads, Made(t), search[t].message.n = transmissions[i].n,
               transmissions[i].left <= search[t].message.remaining - 1
        PROVE  Airborne(transmissions[k])'
    <3>1. search[t].message.remaining \in Nat
      <4>1. search[t].message \in Message
        BY <2>6 DEF Flow, Hands, InHand
      <4> QED BY <4>1 DEF Message
    <3>2. transmissions'[k].left <= search[t].message.remaining - 1
      BY <2>2, <2>6, <3>1
    <3> QED BY <1>1, <2>2, <2>6, <3>2 DEF Airborne, Made
  <2> QED BY <2>3, <2>4, <2>5, <2>6
<1>11. ASSUME NEW n \in hit' \ Lost'
       PROVE  Excused(n)'
  <2>1. CASE n \in hit
    <3>1. n \in hit \ Lost
      BY <1>5, <1>6, <2>1
    <3>2. \/ n \in unlisted
          \/ \E k \in Lost : /\ k # n /\ sent[k] = sent[n]
                             /\ n \in delivered => k \in dropped
      BY <3>1 DEF Radio, Excused
    <3> QED BY <1>1, <1>5, <1>6, <3>2 DEF Excused
  <2>2. CASE n \notin hit
    <3>1. PICK j \in Involved : n = transmissions[j].n
      BY <1>1, <2>2
    <3>2. transmissions[j].left # 0 /\ j \in DOMAIN transmissions
      BY <1>2, <1>7
    <3>3. n \notin dropped
      BY <1>6
    <3>4. \/ \E i \in DOMAIN messages : messages[i].n = n
          \/ \E t \in Threads : Made(t) /\ search[t].message.n = n
      BY <3>1, <3>2, <3>3 DEF Radio, Airborne
    <3>5. ASSUME NEW i \in DOMAIN messages, messages[i].n = n
          PROVE  Excused(n)'
      <4>1. PICK k \in NewlyLost : k # n /\ sent[k] = sent[n]
        BY <1>6, <3>1, <3>5, MarkedOrNamesake
      <4>2. n \notin delivered
        BY <3>5 DEF Flow
      <4> QED BY <1>1, <1>6, <4>1, <4>2 DEF Excused
    <3>6. ASSUME NEW t \in Threads, Made(t), search[t].message.n = n
          PROVE  Excused(n)'
      <4>1. n \in HeldNumbers
        BY <3>6 DEF HeldNumbers
      <4>2. n \in now
        BY <3>1
      <4> HIDE DEF now
      <4>3. n \in unlisted'
        BY <1>1, <4>1, <4>2
      <4> QED BY <4>3 DEF Excused
    <3> QED BY <3>4, <3>5, <3>6
  <2> QED BY <2>1, <2>2
<1>12. ASSUME NEW n \in Lost'
       PROVE  \E k \in hit' : sent'[k] = sent'[n]
  <2>1. CASE n \in dropped
    BY <1>1, <1>5, <2>1 DEF Radio
  <2>2. CASE n \in NewlyLost
    <3>1. PICK i \in DOMAIN messages : messages[i].n = n /\ MarkedNow(i)
      BY <2>2 DEF NewlyLost
    <3>2. PICK j \in Involved : messages[i].id = transmissions[j].id
      BY <3>1 DEF MarkedNow
    <3>3. transmissions[j].n \in hit'
      BY <1>1
    <3>4. sent[transmissions[j].n] = sent[n]
      BY <1>2, <1>7, <3>1, <3>2 DEF NumberedIn
    <3> QED BY <1>1, <3>3, <3>4
  <2> QED BY <1>6, <2>1, <2>2
<1>13. Cardinality(Lost') <= failed'
  <2>1. IsFiniteSet(dropped)
    <3>1. dropped \subseteq 1..Len(sent) /\ Len(sent) \in Nat
      BY DEF Flow, Types
    <3>2. IsFiniteSet(1..Len(sent))
      BY <3>1, FS_Interval
    <3> QED BY <3>1, <3>2, FS_Subset
  <2>2. /\ IsFiniteSet(NewlyLost) /\ Cardinality(NewlyLost) \in Nat
        /\ Cardinality(NewlyLost) <= Losses
    BY MarkedAreFew
  <2>3. /\ Cardinality(dropped \cup NewlyLost)
             = Cardinality(dropped) + Cardinality(NewlyLost)
                 - Cardinality(dropped \cap NewlyLost)
        /\ IsFiniteSet(dropped \cup NewlyLost)
    BY <2>1, <2>2, FS_Union
  <2>4. /\ Cardinality(dropped) \in Nat /\ Cardinality(dropped \cap NewlyLost) \in Nat
        /\ Cardinality(dropped \cup NewlyLost) \in Nat
    BY <2>1, <2>3, FS_Intersection, FS_CardinalityType
  <2>5. Cardinality(dropped) <= failed /\ failed \in Nat
    BY <1>5 DEF Radio
  <2>6. Cardinality(dropped \cup NewlyLost) <= failed + Losses
    BY <1>9, <2>2, <2>3, <2>4, <2>5
  <2> QED BY <1>1, <1>6, <2>6
<1>14. \E off \in SUBSET hit' :
         /\ failed' = 2 * Cardinality(off)
         /\ \A i \in DOMAIN transmissions' : transmissions'[i].n \notin off
         /\ \A r \in off : \E h \in hit' : r < h
  <2>1. PICK off \in SUBSET hit :
          /\ failed = 2 * Cardinality(off)
          /\ \A i \in DOMAIN transmissions : transmissions[i].n \notin off
          /\ \A r \in off : \E h \in hit : r < h
    BY DEF Radio
  <2>2. /\ IsFiniteSet(OffNow) /\ Losses = 2 * Cardinality(OffNow)
        /\ Cardinality(OffNow) \in Nat
        /\ \A r \in OffNow : \E j \in Involved : r < transmissions[j].n
        /\ \A i \in DOMAIN transmissions : i \notin Firsts => transmissions[i].n \notin OffNow
    BY OffTheAir
  <2> DEFINE more == off \cup OffNow
  <2>3. Firsts \subseteq Involved
    BY <1>2, PairsOf
  <2>4. more \in SUBSET hit'
    BY <1>1, <2>3 DEF OffNow
  <2>5. IsFiniteSet(off) /\ Cardinality(off) \in Nat
    <3>1. hit \subseteq 1..Len(sent) /\ Len(sent) \in Nat
      BY <1>2 DEF Radio, Types
    <3>2. IsFiniteSet(1..Len(sent)) /\ off \subseteq 1..Len(sent)
      BY <3>1, FS_Interval
    <3> QED BY <3>2, FS_Subset, FS_CardinalityType
  <2>6. off \cap OffNow = {}
    BY <2>1 DEF OffNow, Firsts
  <2>7. Cardinality(more) = Cardinality(off) + Cardinality(OffNow)
    <3>1. Cardinality(more) = Cardinality(off) + Cardinality(OffNow)
                                - Cardinality(off \cap OffNow)
      BY <2>2, <2>5, FS_Union
    <3>2. Cardinality(off \cap OffNow) = 0
      BY <2>6, FS_EmptySet
    <3> QED BY <2>2, <2>5, <3>1, <3>2
  <2>8. failed' = 2 * Cardinality(more)
    BY <1>1, <2>1, <2>2, <2>5, <2>7
  <2>9. \A k \in DOMAIN transmissions' : transmissions'[k].n \notin more
    BY <1>3, <2>1, <2>2 DEF Older
  <2>10. \A r \in more : \E h \in hit' : r < h
    BY <1>1, <2>1, <2>2
  <2> QED BY <2>4, <2>8, <2>9, <2>10
<1>15. ~ Made("ticker")'
  BY <1>1, TickerIdle DEF Made
<1> QED BY <1>8, <1>9, <1>10, <1>11, <1>12, <1>13, <1>14, <1>15 DEF Radio

(***************************************************************************)
(* Delivery.                                                               *)
(***************************************************************************)

\* When a path has no more hops than the message has ticks, one tick takes the
\* message past one hop at most.
LEMMA OneHopATick ==
  ASSUME NEW t \in Nat, NEW h \in 1..t, NEW r \in Nat
  PROVE  /\ (r * h) \div t \in Nat /\ ((r + 1) * h) \div t \in Nat
         /\ ((r + 1) * h) \div t <= (r * h) \div t + 1
<1> DEFINE a == r * h
           b == (r + 1) * h
<1>1. t >= 1 /\ h \in Nat /\ h <= t
  OBVIOUS
<1>2. a \in Nat /\ b \in Nat /\ b = a + h
  BY <1>1
<1> HIDE DEF a, b
<1>3. /\ a \div t \in Nat /\ b \div t \in Nat
      /\ t * (a \div t) <= a /\ a < t * (a \div t) + t
      /\ t * (b \div t) <= b /\ b < t * (b \div t) + t
  BY <1>1, <1>2
<1>4. b \div t <= a \div t + 1
  <2> DEFINE p == a \div t
             q == b \div t
  <2>1. p \in Nat /\ q \in Nat /\ t * q <= b /\ a < t * p + t
    BY <1>3
  <2> HIDE DEF p, q
  <2> SUFFICES ASSUME q >= p + 2 PROVE FALSE
    BY <2>1 DEF p, q
  <2>2. t * q >= t * (p + 2)
    <3>1. t * q = t * (p + 2) + t * (q - (p + 2))
      BY <2>1
    <3>2. q - (p + 2) \in Nat
      BY <2>1
    <3>3. t * (q - (p + 2)) \in Nat
      BY <3>2
    <3>4. t * (p + 2) \in Nat
      BY <2>1
    <3> QED BY <3>1, <3>3, <3>4
  <2>3. t * (p + 2) = t * p + 2 * t
    BY <2>1
  <2>4. t * p \in Nat /\ t * q \in Nat
    BY <2>1
  <2> QED BY <1>1, <1>2, <2>1, <2>2, <2>3, <2>4
<1> QED BY <1>3, <1>4 DEF a, b

\* A message one tick on has the hops behind it acknowledged.
LEMMA MovedIsCarried ==
  ASSUME NEW m \in Message, Carried(m)
  PROVE  /\ Moved(m).n = m.n /\ Moved(m).id = m.id /\ Moved(m).collided = m.collided
         /\ Moved(m).remaining = m.remaining - 1
         /\ m.remaining > 1 => Moved(m) \in Message /\ Carried(Moved(m))
         /\ m.remaining = 1 => \A i \in 1..(Hops(m) - 1) : m.acks[i]
<1> DEFINE h == Hops(m)
           r == m.remaining - 1
           acks == [i \in DOMAIN m.acks |-> m.acks[i] \/ i = HopIndex(m, r)]
<1>1. /\ m.total \in Nat /\ h \in 1..m.total /\ r \in Nat /\ r + 1 = m.remaining
      /\ m.remaining \in 1..m.total /\ m.total \in 1..MaxTicks
      /\ DOMAIN m.acks = 1..h /\ m.acks \in [1..h -> BOOLEAN]
      /\ \A i \in 1..h : i <= HopIndex(m, m.remaining) => m.acks[i]
  BY TimesAssumption DEF Carried, Message
<1>2. Moved(m) = [m EXCEPT !.remaining = r, !.acks = acks]
  BY DEF Moved
<1>3. /\ Moved(m).n = m.n /\ Moved(m).id = m.id /\ Moved(m).collided = m.collided
      /\ Moved(m).remaining = r /\ Moved(m).total = m.total
      /\ Moved(m).path = m.path /\ Moved(m).acks = acks
  <2> HIDE DEF r, acks
  <2> QED BY <1>2 DEF Message
<1>4. /\ (r * h) \div m.total \in Nat /\ ((r + 1) * h) \div m.total \in Nat
      /\ ((r + 1) * h) \div m.total <= (r * h) \div m.total + 1
  <2> HIDE DEF h, r
  <2> QED BY <1>1, OneHopATick
<1>5. /\ HopIndex(m, r) \in Int /\ HopIndex(m, m.remaining) \in Int
      /\ HopIndex(m, r) <= HopIndex(m, m.remaining) + 1
  <2>1. /\ HopIndex(m, r) = h - (r * h) \div m.total
        /\ HopIndex(m, m.remaining) = h - ((r + 1) * h) \div m.total
    BY <1>1 DEF HopIndex
  <2> HIDE DEF h, r
  <2> DEFINE x == (r * h) \div m.total
             y == ((r + 1) * h) \div m.total
  <2>2. x \in Nat /\ y \in Nat /\ y <= x + 1 /\ h \in Int
    <3> HIDE DEF h, r
    <3> QED BY <1>1, <1>4
  <2>3. HopIndex(m, r) = h - x /\ HopIndex(m, m.remaining) = h - y
    BY <2>1
  <2> HIDE DEF x, y
  <2> QED BY <2>2, <2>3
<1>6. ASSUME m.remaining > 1
      PROVE  Moved(m) \in Message /\ Carried(Moved(m))
  <2>1. acks \in [1..h -> BOOLEAN] /\ acks \in Seq(BOOLEAN)
    <3>1. acks \in [1..h -> BOOLEAN]
      BY <1>1
    <3>2. h \in Nat
      BY <1>1
    <3> HIDE DEF h, acks
    <3> QED BY <3>1, <3>2
  <2>2. Moved(m) \in Message
    <3> HIDE DEF r, acks
    <3> QED BY <1>1, <1>2, <2>1 DEF Message
  <2>3. Hops(Moved(m)) = h /\ HopIndex(Moved(m), Moved(m).remaining) = HopIndex(m, r)
    BY <1>3 DEF Hops, HopIndex
  <2>4. ASSUME NEW i \in 1..h, i <= HopIndex(m, r)
        PROVE  acks[i]
    <3>1. i \in Int /\ (i = HopIndex(m, r) \/ i <= HopIndex(m, m.remaining))
      <4> HIDE DEF h, r
      <4> QED BY <1>1, <1>5, <2>4
    <3> QED BY <1>1, <3>1
  <2>5. r \in 1..m.total
    BY <1>1, <1>6
  <2> HIDE DEF h, r, acks
  <2> QED BY <1>1, <1>3, <2>1, <2>2, <2>3, <2>4, <2>5 DEF Carried
<1>7. ASSUME m.remaining = 1, NEW i \in 1..(h - 1)
      PROVE  m.acks[i]
  <2>1. HopIndex(m, r) = h
    <3>1. r = 0 /\ h \in Nat /\ m.total >= 1
      BY <1>1, <1>7
    <3>2. r * h = 0 /\ (r * h) \div m.total = 0
      <4>1. r * h = 0
        BY <3>1
      <4>2. 0 \div m.total = 0
        <5>1. \A t \in Nat : t >= 1 => (t * 0) \div t = 0
          BY WholeQuotient
        <5>2. \A t \in Nat : t * 0 = 0
          OBVIOUS
        <5> QED BY <1>1, <3>1, <5>1, <5>2
      <4> QED BY <4>1, <4>2
    <3> QED BY <3>1, <3>2 DEF HopIndex
  <2>2. i \in 1..h /\ i <= HopIndex(m, m.remaining)
    <3>1. h \in Nat
      BY <1>1
    <3> HIDE DEF h, r
    <3> QED BY <1>5, <2>1, <3>1
  <2> QED BY <1>1, <2>2
<1> QED BY <1>3, <1>6, <1>7

Staying == {i \in Going : messages[i].remaining > 1}

\* What becomes of the messages in a tick: none of those that stay is lost, no
\* other is kept, and no two become one.
LEMMA DeliveryEffect ==
  ASSUME Flow, NEW turned, Deliver(turned)
  PROVE  /\ messages' \in Seq(Message)
         /\ \A k \in DOMAIN messages' : \E i \in Staying : messages'[k] = Moved(messages[i])
         /\ \A i \in Staying : \E k \in DOMAIN messages' : messages'[k] = Moved(messages[i])
         /\ \A k, l \in DOMAIN messages' :
              k < l => \E i, j \in Staying : /\ i # j /\ messages'[k] = Moved(messages[i])
                                             /\ messages'[l] = Moved(messages[j])
         /\ delivered' = delivered \cup {messages[i].n : i \in Going \ Staying}
         /\ dropped' = Lost
<1> DEFINE moved == [i \in DOMAIN messages |-> Moved(messages[i])]
           t == At(moved, Staying)
<1>1. /\ messages \in Seq(Message) /\ \A i \in DOMAIN messages : Carried(messages[i])
      /\ DOMAIN messages = 1..Len(messages) /\ Len(messages) \in Nat
  BY DEF Flow, Types
<1>2. Going \subseteq DOMAIN messages
  BY DEF Going
<1>3. ASSUME NEW i \in DOMAIN messages
      PROVE  /\ Moved(messages[i]).remaining = messages[i].remaining - 1
             /\ messages[i].remaining \in Nat
             /\ messages[i].remaining > 1 => Moved(messages[i]) \in Message
  <2>1. messages[i] \in Message /\ Carried(messages[i])
    BY <1>1
  <2>2. messages[i].remaining \in Nat
    BY <2>1 DEF Message
  <2> QED BY <2>1, <2>2, MovedIsCarried
<1>4. {i \in Going : UnderWay(moved[i])} = Staying
  <2>1. \A i \in Going : UnderWay(moved[i]) <=> messages[i].remaining > 1
    BY <1>2, <1>3 DEF UnderWay
  <2> QED BY <2>1 DEF Staying
<1>5. messages' = t /\ delivered' = delivered \cup {messages[i].n : i \in Going \ Staying}
  BY <1>4 DEF Deliver
<1>6. dropped' = Lost
  <2>1. {m.n : m \in {x \in ToSet(messages) : x.collided}}
          = {messages[i].n : i \in {j \in DOMAIN messages : messages[j].collided}}
    BY DEF ToSet
  <2> QED BY <2>1 DEF Deliver, Lost
<1> DEFINE all == {moved[i] : i \in DOMAIN messages}
<1>7. moved \in Seq(all) /\ Len(moved) = Len(messages)
  <2>1. moved \in [1..Len(messages) -> all]
    BY <1>1
  <2>2. DOMAIN moved = 1..Len(messages)
    BY <1>1
  <2> HIDE DEF moved, all
  <2> QED BY <1>1, <2>1, <2>2
<1>8. Staying \in SUBSET (1..Len(moved))
  <2> HIDE DEF moved
  <2> QED BY <1>1, <1>2, <1>7 DEF Staying
<1>9. \A i \in Staying : moved[i] = Moved(messages[i]) /\ moved[i] \in Message
  BY <1>2, <1>3 DEF Staying
<1> HIDE DEF moved, all
<1>10. /\ t \in Seq(all)
       /\ \A k \in 1..Len(t) : \E i \in Staying : t[k] = moved[i]
       /\ \A i \in Staying : \E k \in 1..Len(t) : t[k] = moved[i]
       /\ \A k, l \in 1..Len(t) :
            k < l => \E i, j \in Staying : i < j /\ t[k] = moved[i] /\ t[l] = moved[j]
  BY <1>7, <1>8, AtMembers
<1> HIDE DEF t
<1>11. DOMAIN t = 1..Len(t) /\ Len(t) \in Nat
  BY <1>10
<1>12. t \in Seq(Message)
  <2>1. \A k \in 1..Len(t) : t[k] \in Message
    BY <1>9, <1>10
  <2>2. t \in [1..Len(t) -> all]
    BY <1>10
  <2>3. t \in [1..Len(t) -> Message]
    BY <2>1, <2>2
  <2> QED BY <1>11, <2>3
<1>13. \A k \in DOMAIN messages' : \E i \in Staying : messages'[k] = Moved(messages[i])
  BY <1>5, <1>9, <1>10, <1>11
<1>e. messages' = t /\ DOMAIN messages' = 1..Len(t)
  BY <1>5, <1>11
<1>14. ASSUME NEW i \in Staying
       PROVE  \E k \in DOMAIN messages' : messages'[k] = Moved(messages[i])
  <2>1. PICK k \in 1..Len(t) : t[k] = moved[i]
    BY <1>10
  <2>2. moved[i] = Moved(messages[i])
    BY <1>9
  <2> QED BY <1>e, <2>1, <2>2
<1>15. ASSUME NEW k \in DOMAIN messages', NEW l \in DOMAIN messages', k < l
       PROVE  \E i, j \in Staying : /\ i # j /\ messages'[k] = Moved(messages[i])
                                    /\ messages'[l] = Moved(messages[j])
  <2>1. k \in 1..Len(t) /\ l \in 1..Len(t)
    BY <1>e
  <2>2. PICK i \in Staying, j \in Staying : i < j /\ t[k] = moved[i] /\ t[l] = moved[j]
    BY <1>10, <1>15, <2>1
  <2>3. moved[i] = Moved(messages[i]) /\ moved[j] = Moved(messages[j])
    BY <1>9
  <2>4. i # j
    BY <1>8, <2>2
  <2> QED BY <1>e, <2>2, <2>3, <2>4
<1> QED BY <1>5, <1>6, <1>12, <1>13, <1>14, <1>15

\* What Staying, Going and Lost say of one active message.
LEMMA EachMessage ==
  ASSUME Flow, NEW i \in DOMAIN messages
  PROVE  /\ messages[i] \in Message /\ Carried(messages[i])
         /\ messages[i].n \in 1..Len(sent) /\ messages[i].id = sent[messages[i].n]
         /\ messages[i].n \notin delivered \cup dropped
         /\ messages[i].remaining \in Nat /\ messages[i].remaining >= 1
         /\ i \in Going <=> ~ messages[i].collided
         /\ i \in Staying <=> ~ messages[i].collided /\ messages[i].remaining > 1
         /\ messages[i].n \in Lost <=> messages[i].collided
<1>1. /\ messages \in Seq(Message) /\ NumberedIn(messages, sent) /\ sent \in Seq(Ids)
  BY DEF Flow, Types, Numbered
<1>2. messages[i] \in Message /\ Carried(messages[i])
  BY <1>1 DEF Flow
<1>3. messages[i].remaining \in Nat /\ messages[i].remaining >= 1
  BY <1>2, TimesAssumption DEF Carried
<1>4. messages[i].n \in 1..Len(sent) /\ messages[i].id = sent[messages[i].n]
  BY <1>1 DEF NumberedIn
<1>5. messages[i].n \notin delivered \cup dropped
  BY DEF Flow
<1>6. i \in Going <=> ~ messages[i].collided
  BY DEF Going
<1>7. i \in Staying <=> ~ messages[i].collided /\ messages[i].remaining > 1
  BY <1>6 DEF Staying
<1>8. messages[i].n \in Lost <=> messages[i].collided
  <2>1. ASSUME messages[i].n \in Lost
        PROVE  messages[i].collided
    <3>1. PICK j \in DOMAIN messages : messages[j].collided /\ messages[j].n = messages[i].n
      BY <1>5, <2>1 DEF Lost
    <3>2. i = j
      BY <1>1, <3>1 DEF NumberedIn
    <3> QED BY <3>1, <3>2
  <2>2. ASSUME messages[i].collided
        PROVE  messages[i].n \in Lost
    BY <2>2 DEF Lost
  <2> QED BY <2>1, <2>2
<1> QED BY <1>2, <1>3, <1>4, <1>5, <1>6, <1>7, <1>8

LEMMA DeliveryKeepsFlow ==
  ASSUME Flow, NEW turned, Deliver(turned)
  PROVE  Flow'
<1>1. /\ phase' = "traffic" /\ sent' = sent /\ scenarios' = scenarios
      /\ wait' = wait /\ transmissions' = transmissions /\ StatusPhase(turned)
  BY DEF Deliver
<1>2. /\ messages' \in Seq(Message)
      /\ \A k \in DOMAIN messages' : \E i \in Staying : messages'[k] = Moved(messages[i])
      /\ \A i \in Staying : \E k \in DOMAIN messages' : messages'[k] = Moved(messages[i])
      /\ \A k, l \in DOMAIN messages' :
           k < l => \E i, j \in Staying : /\ i # j /\ messages'[k] = Moved(messages[i])
                                          /\ messages'[l] = Moved(messages[j])
      /\ delivered' = delivered \cup {messages[i].n : i \in Going \ Staying}
      /\ dropped' = Lost
  BY DeliveryEffect
<1>h. SameHands
  <2>1. search' = Disturbed
    BY <1>1 DEF StatusPhase
  <2> QED BY <2>1, DisturbedKeepsHands DEF Flow, Types
<1>3. Staying \subseteq DOMAIN messages /\ Going \subseteq DOMAIN messages
  BY DEF Staying, Going
<1>4. ASSUME NEW i \in Staying
      PROVE  /\ Moved(messages[i]).n = messages[i].n
             /\ Moved(messages[i]).id = messages[i].id
             /\ ~ Moved(messages[i]).collided
             /\ Carried(Moved(messages[i]))
  <2>1. /\ messages[i] \in Message /\ Carried(messages[i])
        /\ ~ messages[i].collided /\ messages[i].remaining > 1
    BY <1>3, EachMessage
  <2> QED BY <2>1, MovedIsCarried
<1>5. Types'
  <2>1. Routed'
    BY <1>1, StatusStep DEF Flow, Types
  <2> QED BY <1>1, <1>2, <2>1 DEF Flow, Types
<1>6. /\ NumberedIn(messages, sent) /\ Numbered(transmissions)
      /\ InOrder(transmissions)
  BY DEF Flow, Numbered
<1>7. Numbered(messages)'
  <2>1. \A k \in DOMAIN messages' : /\ messages'[k].n \in 1..Len(sent)
                                    /\ messages'[k].id = sent[messages'[k].n]
    BY <1>2, <1>3, <1>4, <1>6 DEF NumberedIn
  <2>2. ASSUME NEW k \in DOMAIN messages', NEW l \in DOMAIN messages', k < l
        PROVE  messages'[k].n # messages'[l].n
    <3>1. PICK i \in Staying, j \in Staying :
             i # j /\ messages'[k] = Moved(messages[i]) /\ messages'[l] = Moved(messages[j])
      BY <1>2, <2>2
    <3>2. messages[i].n # messages[j].n
      BY <1>3, <1>6, <3>1 DEF NumberedIn
    <3> QED BY <1>4, <3>1, <3>2
  <2>3. ASSUME NEW k \in DOMAIN messages', NEW l \in DOMAIN messages',
               messages'[k].n = messages'[l].n
        PROVE  k = l
    <3>1. k \in Nat /\ l \in Nat
      BY <1>2
    <3>2. ~ k < l /\ ~ l < k
      BY <2>2, <2>3
    <3> QED BY <3>1, <3>2
  <2> QED BY <1>1, <2>1, <2>3 DEF Numbered, NumberedIn
<1>8. Numbered(transmissions)' /\ InOrder(transmissions)'
  BY <1>1, <1>6 DEF Numbered, NumberedIn, InOrder
<1>9. /\ \A k \in DOMAIN messages' : Carried(messages'[k])
      /\ \A k \in DOMAIN messages' : messages'[k].collided => phase' = "delivery"
  BY <1>2, <1>4
<1>10. delivered' \subseteq 1..Len(sent') /\ dropped' \subseteq 1..Len(sent')
  <2>1. \A i \in DOMAIN messages : messages[i].n \in 1..Len(sent)
    BY EachMessage
  <2>2. delivered \subseteq 1..Len(sent) /\ dropped \subseteq 1..Len(sent)
    BY DEF Flow
  <2> QED BY <1>1, <1>2, <1>3, <2>1, <2>2 DEF Lost
<1>11. delivered' \cap dropped' = {}
  <2>1. ASSUME NEW n \in delivered
        PROVE  n \notin Lost
    <3>1. n \notin dropped
      BY DEF Flow
    <3>2. \A i \in DOMAIN messages : messages[i].n # n
      BY EachMessage
    <3> QED BY <3>1, <3>2 DEF Lost
  <2>2. ASSUME NEW i \in Going \ Staying
        PROVE  messages[i].n \notin Lost
    BY <1>3, EachMessage
  <2> QED BY <1>2, <2>1, <2>2
<1>12. ASSUME NEW k \in DOMAIN messages'
       PROVE  messages'[k].n \notin delivered' \cup dropped'
  <2>1. PICK i \in Staying : messages'[k] = Moved(messages[i])
    BY <1>2
  <2>2. messages[i].n \notin delivered /\ messages[i].n \notin Lost
    BY <1>3, EachMessage
  <2>3. ASSUME NEW j \in Going \ Staying
        PROVE  messages[j].n # messages[i].n
    <3>1. i # j
      OBVIOUS
    <3>2. messages \in Seq(Message) /\ sent \in Seq(Ids)
      BY DEF Flow, Types
    <3> QED BY <1>3, <1>6, <3>1, <3>2 DEF NumberedIn
  <2> QED BY <1>2, <1>4, <2>1, <2>2, <2>3
<1>13. ASSUME NEW n \in 1..Len(sent')
       PROVE  \/ n \in delivered' \cup dropped'
              \/ \E k \in DOMAIN messages' : messages'[k].n = n
              \/ \E t \in Threads : Made(t)' /\ search'[t].message.n = n
  <2>1. \/ n \in delivered \cup dropped
        \/ \E i \in DOMAIN messages : messages[i].n = n
        \/ \E t \in Threads : Made(t) /\ search[t].message.n = n
    BY <1>1 DEF Flow
  <2>2. CASE n \in delivered \cup dropped
    BY <1>2, <2>2 DEF Lost
  <2>3. ASSUME NEW i \in DOMAIN messages, messages[i].n = n
        PROVE  \/ n \in delivered' \cup dropped'
               \/ \E k \in DOMAIN messages' : messages'[k].n = n
    <3>1. i \in Staying \/ i \in Going \ Staying \/ n \in Lost
      BY <2>3, EachMessage
    <3>2. CASE i \in Staying
      BY <1>2, <1>4, <2>3, <3>2
    <3> QED BY <1>2, <2>3, <3>1, <3>2
  <2>4. CASE \E t \in Threads : Made(t) /\ search[t].message.n = n
    BY <1>h, <2>4 DEF SameHands
  <2> QED BY <2>1, <2>2, <2>3, <2>4
<1>14. Hands'
  <2>1. ASSUME NEW t \in Threads, Made(t)'
        PROVE  InHand(search[t].message)'
    <3>1. InHand(search[t].message) /\ search'[t] = search[t]
      BY <1>h, <2>1 DEF Flow, Hands, SameHands
    <3>2. /\ search[t].message.n \notin delivered \cup dropped
          /\ \A i \in DOMAIN messages : messages[i].n # search[t].message.n
      BY <3>1 DEF InHand
    <3>3. search[t].message.n \notin delivered' \cup dropped'
      BY <1>2, <1>3, <3>2 DEF Lost
    <3>4. \A k \in DOMAIN messages' : messages'[k].n # search[t].message.n
      BY <1>2, <1>3, <1>4, <3>2
    <3> QED BY <1>1, <3>1, <3>3, <3>4 DEF InHand, Carried, Hops, HopIndex
  <2>2. ASSUME NEW t \in Threads, NEW u \in Threads, Made(t)', Made(u)',
               search'[t].message.n = search'[u].message.n
        PROVE  t = u
    BY <1>h, <2>2 DEF SameHands, Flow, Hands
  <2> QED BY <2>1, <2>2 DEF Hands
<1>15. \A k \in DOMAIN messages' : Carried(messages[k])'
  BY <1>9 DEF Carried, Hops, HopIndex
<1> QED BY <1>5, <1>7, <1>8, <1>9, <1>10, <1>11, <1>12, <1>13, <1>14, <1>15 DEF Flow

LEMMA DeliveryKeepsRadio ==
  ASSUME Flow, Radio, NEW turned, Deliver(turned)
  PROVE  Radio'
<1>1. /\ phase = "delivery" /\ phase' = "traffic" /\ sent' = sent
      /\ transmissions' = transmissions /\ failed' = failed /\ hit' = hit
      /\ unlisted' = unlisted /\ search' = Disturbed
  BY DEF Deliver, StatusPhase
<1>h. SameHands /\ ~ Made("ticker")
  BY <1>1, DisturbedKeepsHands, TickerIdle DEF Flow, Types
<1>2. /\ \A k \in DOMAIN messages' : \E i \in Staying : messages'[k] = Moved(messages[i])
      /\ \A i \in Staying : \E k \in DOMAIN messages' : messages'[k] = Moved(messages[i])
      /\ delivered' = delivered \cup {messages[i].n : i \in Going \ Staying}
      /\ dropped' = Lost
  BY DeliveryEffect
<1>3. ASSUME NEW i \in Staying
      PROVE  /\ i \in DOMAIN messages
             /\ Moved(messages[i]).n = messages[i].n
             /\ Moved(messages[i]).remaining = messages[i].remaining - 1
             /\ ~ Moved(messages[i]).collided
  <2>1. i \in DOMAIN messages
    BY DEF Staying, Going
  <2>2. messages[i] \in Message /\ Carried(messages[i]) /\ ~ messages[i].collided
    BY <2>1, EachMessage
  <2> QED BY <2>1, <2>2, MovedIsCarried
<1>4. Lost' = Lost
  <2>1. \A k \in DOMAIN messages' : ~ messages'[k].collided
    BY <1>2, <1>3
  <2> QED BY <1>2, <2>1 DEF Lost
<1>5. ASSUME NEW k \in DOMAIN transmissions
      PROVE  Airborne(transmissions[k])'
  <2> DEFINE n == transmissions[k].n
             left == transmissions[k].left
  <2>1. left \in Nat
    <3>1. transmissions[k] \in Transmission
      BY DEF Flow, Types
    <3> QED BY <3>1 DEF Transmission
  <2>2. \/ n \in dropped \/ left = 0
        \/ \E i \in DOMAIN messages : messages[i].n = n /\ left <= messages[i].remaining - 1
        \/ \E t \in Threads : /\ Made(t) /\ search[t].message.n = n
                              /\ left <= search[t].message.remaining - 1
    BY <1>1 DEF Radio, Airborne
  <2> SUFFICES \/ n \in Lost \/ left = 0
               \/ \E j \in DOMAIN messages' :
                    messages'[j].n = n /\ left <= messages'[j].remaining - 0
               \/ \E t \in Threads : /\ Made(t) /\ search[t].message.n = n
                                     /\ left <= search[t].message.remaining - 1
    BY <1>1, <1>2, <1>h DEF Airborne, SameHands
  <2> HIDE DEF n, left
  <2>3. ASSUME NEW i \in DOMAIN messages, messages[i].n = n,
               left <= messages[i].remaining - 1
        PROVE  \/ n \in Lost \/ left = 0
               \/ \E j \in DOMAIN messages' :
                    messages'[j].n = n /\ left <= messages'[j].remaining - 0
    <3>1. CASE messages[i].collided
      BY <2>3, <3>1, EachMessage
    <3>2. CASE i \in Staying
      <4>1. PICK j \in DOMAIN messages' : messages'[j] = Moved(messages[i])
        BY <1>2, <3>2
      <4>2. messages[i].remaining \in Nat
        BY EachMessage
      <4>3. messages'[j].n = n /\ left <= messages'[j].remaining - 0
        BY <1>3, <2>1, <2>3, <3>2, <4>1, <4>2
      <4> QED BY <4>3
    <3>3. CASE ~ messages[i].collided /\ i \notin Staying
      <4>1. messages[i].remaining \in Nat /\ ~ messages[i].remaining > 1
        BY <3>3, EachMessage
      <4>2. left = 0
        BY <2>1, <2>3, <4>1
      <4> QED BY <4>2
    <3> QED BY <3>1, <3>2, <3>3
  <2>4. CASE n \in dropped
    BY <2>4 DEF Lost
  <2> QED BY <2>2, <2>3, <2>4
<1>6. \A n \in hit' \ Lost' : Excused(n)'
  BY <1>1, <1>2, <1>4 DEF Radio, Excused
<1>7. ~ Made("ticker")'
  BY <1>h DEF SameHands, Threads
<1> QED BY <1>1, <1>4, <1>5, <1>6, <1>7 DEF Radio

(***************************************************************************)
(* Every step of the world.                                                *)
(***************************************************************************)
LEMMA SearchStep ==
  ASSUME Flow, Radio, NEW t \in Threads, Search(t)
  PROVE  Flow' /\ Radio'
<1> DEFINE from == search[t].from
           later == IF wait[from] < Retry THEN Retry ELSE wait[from]
<1>1. /\ SendMsg(t) \/ AddRelay(t) \/ Return(t)
      /\ wait' = IF t = "ticker" /\ search'[t] = Idle THEN [wait EXCEPT ![from] = later]
                 ELSE wait
      /\ UNCHANGED <<phase, traffic, results, scenarios>>
  BY DEF Search
<1>2. Types /\ Routed
  BY DEF Flow, Types
<1>3. Busy(t) /\ ~ Made(t) /\ from \in Nodes
  <2>1. search[t].at = "path" \/ search[t].at = "relays"
    BY <1>1 DEF SendMsg, AddRelay, Return, Found
  <2>2. search[t] \in Asked \/ search[t] \in Looking
    BY <1>2, <2>1, AtOnce DEF Routed
  <2> QED BY <2>1, <2>2 DEF Busy, Made, Asked, Looking
<1>4. PICK s : Continue(t, s) /\ s.at # "made"
  <2>1. CASE SendMsg(t)
    <3>1. CASE Continue(t, Idle)
      BY <3>1 DEF Idle
    <3>2. CASE ~ Continue(t, Idle)
      <4>1. PICK path, r :
               Continue(t, [at |-> "relays", from |-> r.from, to |-> r.to,
                            list |-> r.list, path |-> path,
                            left |-> Missing(path), calm |-> TRUE])
        BY <2>1, <3>2 DEF SendMsg
      <4> QED BY <4>1
    <3> QED BY <3>1, <3>2
  <2>2. CASE AddRelay(t)
    <3>1. PICK r : r = search[t]
      OBVIOUS
    <3>2. r \in Looking
      BY <1>2, <2>2, <3>1, AtOnce DEF Routed, AddRelay
    <3>3. PICK path : Continue(t, [r EXCEPT !.path = path, !.left = @ - 1])
      BY <2>2, <3>1 DEF AddRelay
    <3>4. [r EXCEPT !.path = path, !.left = @ - 1].at = "relays"
      BY <3>2 DEF Looking
    <3> QED BY <3>3, <3>4
  <2>3. CASE Return(t)
    BY <2>3 DEF Return, Idle
  <2> QED BY <1>1, <2>1, <2>2, <2>3
<1>5. Routed'
  <2>1. Return(t) => Routed'
    BY <1>2, OneGoesOn DEF Return, Still, Doing
  <2> QED BY <1>1, <1>2, <2>1, SendMsgStep, AddRelayStep
<1>6. SameHands
  BY <1>2, <1>3, <1>4, ContinueKeepsHands
<1>7. wait' \in [Nodes -> 0..Gap]
  <2>1. wait \in [Nodes -> 0..Gap]
    BY <1>2 DEF Types
  <2>2. wait[from] \in 0..Gap /\ Retry \in 0..Gap
    BY <1>3, <2>1, TimesAssumption
  <2>3. later \in 0..Gap
    BY <2>2
  <2> HIDE DEF later, from
  <2> QED BY <1>1, <2>1, <2>3
<1>8. Types'
  <2>1. Busy("ticker")' => Busy("ticker")
    BY <1>2, <1>3, <1>4, OtherThread DEF Busy, Threads
  <2> QED BY <1>1, <1>2, <1>5, <1>7, <2>1 DEF Types, traffic
<1> QED BY <1>1, <1>6, <1>8, QuietStep

LEMMA BeginsStep ==
  ASSUME Flow, Radio, NEW from \in Nodes, NEW to \in Nodes,
         SendMessage(from, to) \/ LoadMessage(from, to)
  PROVE  Flow' /\ Radio'
<1>1. Types /\ Routed
  BY DEF Flow, Types
<1>2. /\ UNCHANGED <<phase, traffic, results>>
      /\ scenarios' \in 0..MaxScenarios
      /\ wait' \in [Nodes -> 0..Gap]
  <2>1. wait \in [Nodes -> 0..Gap] /\ scenarios \in 0..MaxScenarios /\ 0 \in 0..Gap
    BY <1>1, TimesAssumption DEF Types
  <2>2. CASE SendMessage(from, to)
    BY <2>1, <2>2 DEF SendMessage
  <2>3. CASE LoadMessage(from, to)
    <3>1. scenarios' \in 0..MaxScenarios
      BY <2>1, <2>3, BoundsAssumption DEF LoadMessage
    <3>2. PICK w \in {0, wait[from]} : wait' = [wait EXCEPT ![from] = w]
      BY <2>3 DEF LoadMessage
    <3>3. w \in 0..Gap
      BY <2>1, <3>2
    <3> QED BY <2>1, <2>3, <3>1, <3>2, <3>3 DEF LoadMessage
  <2> QED BY <2>2, <2>3
<1>3. PICK t \in Threads, list \in SUBSET Nodes :
        Begin(t, from, to, list) /\ (t = "ticker" => phase = "traffic")
  BY <1>1 DEF SendMessage, LoadMessage, Send, LoadSend, Threads, Routed, Placed
<1>4. Routed'
  BY <1>1, <1>3, BeginStep
<1>5. /\ Continue(t, [at |-> "path", from |-> from, to |-> to, list |-> list])
      /\ ~ Made(t)
  BY <1>3 DEF Begin, Busy, Made
<1>6. SameHands
  BY <1>1, <1>5, ContinueKeepsHands
<1>7. Types'
  <2>1. Busy("ticker")' => phase = "traffic"
    BY <1>1, <1>3, <1>5, OtherThread DEF Types, Busy, Threads
  <2> QED BY <1>1, <1>2, <1>4, <2>1 DEF Types, traffic
<1> QED BY <1>2, <1>6, <1>7, QuietStep

LEMMA WorldStep ==
  ASSUME Flow, Radio, [WorldNext]_worldVars
  PROVE  Flow' /\ Radio'
<1>t. Types /\ Routed
  BY DEF Flow, Types
<1>s. ASSUME Still, search' = search
      PROVE  Routed' /\ SameHands /\ (Busy("ticker")' <=> Busy("ticker"))
  <2>1. Routed'
    BY <1>t, <1>s DEF Still, Routed, Placed, Doing, Relayed, FindRandomRelay,
                      HasConnection
  <2> QED BY <1>s, <2>1 DEF SameHands, Made, Busy
<1>1. CASE UNCHANGED worldVars
  <2>1. Still /\ search' = search /\ UNCHANGED <<traffic, results>> /\ phase' = phase
    BY <1>1 DEF worldVars, places, Still
  <2>2. Types'
    BY <1>t, <1>s, <1>1, <2>1 DEF worldVars, traffic, Types
  <2> QED BY <1>s, <2>1, <2>2, QuietStep
<1>2. CASE CheckCollisions
  BY <1>2, CollisionKeepsFlow, CollisionKeepsRadio
<1>3. ASSUME NEW turned \in SUBSET Unstable, Deliver(turned)
      PROVE  Flow' /\ Radio'
  BY <1>3, DeliveryKeepsFlow, DeliveryKeepsRadio
<1>4. CASE EndTraffic
  <2>1. /\ Still /\ search' = search /\ UNCHANGED <<traffic, results>>
        /\ phase = "traffic" /\ phase' = "collisions" /\ ~ Busy("ticker")
    BY <1>4 DEF EndTraffic, places, Still
  <2>2. Types'
    BY <1>t, <1>s, <1>4, <2>1 DEF EndTraffic, traffic, Types
  <2> QED BY <1>s, <2>1, <2>2, QuietStep
<1>5. ASSUME NEW t \in Threads, Sending(t)
      PROVE  Flow' /\ Radio'
  BY <1>5, SearchStep, TransmitStep, EnqueueStep DEF Sending
<1>6. ASSUME NEW from \in Nodes, NEW to \in Nodes,
             SendMessage(from, to) \/ LoadMessage(from, to)
      PROVE  Flow' /\ Radio'
  BY <1>6, BeginsStep
<1>7. CASE CallScenario
  <2>1. /\ UNCHANGED <<phase, traffic, wait, results>> /\ scenarios' = scenarios + 1
        /\ Scenario /\ search' = Disturbed
    BY <1>7 DEF CallScenario, Scenario
  <2>2. scenarios' \in 0..MaxScenarios
    BY <1>t, <1>7, BoundsAssumption DEF CallScenario, Types
  <2>3. SameHands /\ (Busy("ticker")' <=> Busy("ticker"))
    BY <1>t, <2>1, DisturbedKeepsHands DEF Threads
  <2>4. Types'
    BY <1>t, <2>1, <2>2, <2>3, ScenarioStep DEF traffic, Types
  <2> QED BY <2>1, <2>3, <2>4, QuietStep
<1> QED BY <1>1, <1>2, <1>3, <1>4, <1>5, <1>6, <1>7 DEF WorldNext, RunSteps

LEMMA WorldInvariant == WorldSpec => [](Flow /\ Radio)
BY StartsEmpty, WorldStep, PTL DEF WorldSpec

(***************************************************************************)
(* What the invariant says of messages and collisions.                     *)
(***************************************************************************)
LEMMA ActiveAreMembers ==
  ASSUME messages \in Seq(Message)
  PROVE  /\ ToSet(messages) = {messages[i] : i \in DOMAIN messages}
         /\ ActiveNumbers = {messages[i].n : i \in DOMAIN messages}
<1>1. ToSet(messages) = {messages[i] : i \in DOMAIN messages}
  BY DEF ToSet
<1> QED BY <1>1 DEF ActiveNumbers

LEMMA FlowTypes == Flow /\ Radio => WorldTypeOK
<1> SUFFICES ASSUME Flow, Radio PROVE WorldTypeOK
  OBVIOUS
<1>1. Types /\ Placed /\ failed \in Nat
  BY DEF Flow, Radio, Types, Routed
<1>2. ASSUME NEW m \in Message, Carried(m), m.n \in 1..Len(sent), m.id = sent[m.n]
      PROVE  MessageOK(m)
  <2>1. m.collided \in BOOLEAN
    BY DEF Message
  <2> QED BY <1>2, <2>1 DEF MessageOK, Carried
<1>m. ASSUME NEW m \in ToSet(messages)
      PROVE  MessageOK(m)
  <2>1. PICK i \in DOMAIN messages : m = messages[i]
    BY <1>1, ActiveAreMembers DEF Types
  <2> QED BY <1>2, <2>1, EachMessage
<1>h. ASSUME NEW t \in Threads, Made(t)
      PROVE  MessageOK(search[t].message)
  BY <1>2, <1>h DEF Flow, Hands, InHand
<1>3. ASSUME NEW tx \in ToSet(transmissions)
      PROVE  tx.n \in 1..Len(sent) /\ tx.left \in Nat /\ tx.sf \in SpreadingFactors
  <2>1. PICK i \in DOMAIN transmissions : tx = transmissions[i]
    BY DEF ToSet
  <2>2. transmissions[i] \in Transmission
    BY <1>1 DEF Types
  <2>3. transmissions[i].n \in 1..Len(sent)
    BY DEF Flow, Numbered, NumberedIn
  <2> QED BY <2>1, <2>2, <2>3 DEF Transmission
<1> QED BY <1>1, <1>m, <1>h, <1>3 DEF Types, Placed, WorldTypeOK

\* Whatever the nodes, the times and the scenarios, and wherever collisions, status
\* changes and the other thread come between sendMsg and the append to
\* ActiveMessages, every message made is held by its thread, under way once,
\* counted as received once, or given up once.
THEOREM NoneLostSilently == WorldSpec => []EachInOnePlace
<1>1. ASSUME Flow, Radio
      PROVE  EachInOnePlace
  <2>1. messages \in Seq(Message) /\ NumberedIn(messages, sent) /\ sent \in Seq(Ids)
    BY <1>1 DEF Flow, Types, Numbered
  <2>2. ActiveNumbers = {messages[i].n : i \in DOMAIN messages}
    BY <2>1, ActiveAreMembers
  <2>3. Cardinality(ActiveNumbers) = Len(messages)
    <3> DEFINE D == 1..Len(messages)
               f == [i \in D |-> messages[i].n]
    <3>1. D = DOMAIN messages /\ Len(messages) \in Nat
      BY <2>1
    <3>2. IsFiniteSet(D) /\ Cardinality(D) = Len(messages)
      BY <3>1, OneTo
    <3>3. \A i, j \in D : f[i] = f[j] => i = j
      BY <2>1, <3>1 DEF NumberedIn
    <3>4. ActiveNumbers = {f[i] : i \in D}
      BY <2>2, <3>1
    <3>5. DOMAIN f = D /\ f = [i \in D |-> f[i]]
      OBVIOUS
    <3> HIDE DEF D, f
    <3> QED BY <3>2, <3>3, <3>4, <3>5, Values
  <2>4. ActiveNumbers \cap (delivered \cup dropped) = {}
    BY <1>1, <2>2 DEF Flow
  <2>5. delivered \cap dropped = {}
    BY <1>1 DEF Flow
  <2>6. ActiveNumbers \subseteq 1..Len(sent)
    BY <1>1, <2>2, EachMessage
  <2>7. /\ HeldNumbers \subseteq 1..Len(sent)
        /\ HeldNumbers \cap (delivered \cup dropped) = {}
        /\ HeldNumbers \cap ActiveNumbers = {}
    <3>1. ASSUME NEW n \in HeldNumbers
          PROVE  /\ n \in 1..Len(sent) /\ n \notin delivered \cup dropped
                 /\ n \notin ActiveNumbers
      <4>1. PICK t \in Threads : Made(t) /\ n = search[t].message.n
        BY DEF HeldNumbers
      <4>2. InHand(search[t].message)
        BY <1>1, <4>1 DEF Flow, Hands
      <4> QED BY <2>2, <4>1, <4>2 DEF InHand
    <3> QED BY <3>1
  <2>8. HeldNumbers \cup ActiveNumbers \cup delivered \cup dropped = 1..Len(sent)
    <3>1. ASSUME NEW n \in 1..Len(sent)
          PROVE  n \in HeldNumbers \cup ActiveNumbers \cup delivered \cup dropped
      BY <1>1, <2>2 DEF Flow, HeldNumbers
    <3>2. delivered \subseteq 1..Len(sent) /\ dropped \subseteq 1..Len(sent)
      BY <1>1 DEF Flow
    <3> QED BY <2>6, <2>7, <3>1, <3>2
  <2>9. WorldTypeOK
    BY <1>1, FlowTypes
  <2> QED BY <2>3, <2>4, <2>5, <2>7, <2>8, <2>9 DEF EachInOnePlace
<1> QED BY <1>1, WorldInvariant, PTL

\* For any transmissions, ranges and spreading factors: what is given up was hit,
\* is counted as a failure, and of those that hit each other one is left.
THEOREM FailuresCounted == WorldSpec => []CollisionsCounted
<1>1. ASSUME Flow, Radio
      PROVE  CollisionsCounted
  <2>1. dropped \subseteq Lost
    BY DEF Lost
  <2>2. \A n \in dropped : \E k \in hit : sent[k] = sent[n]
    BY <1>1, <2>1 DEF Radio
  <2>3. Lost \subseteq 1..Len(sent) /\ Len(sent) \in Nat
    <3>1. sent \in Seq(Ids) /\ dropped \subseteq 1..Len(sent)
      BY <1>1 DEF Flow, Types
    <3>2. \A i \in DOMAIN messages : messages[i].n \in 1..Len(sent)
      BY <1>1, EachMessage
    <3>3. Len(sent) \in Nat
      BY <3>1
    <3>4. Lost \subseteq 1..Len(sent)
      <4> DEFINE b == 1..Len(sent)
      <4>1. dropped \subseteq b /\ \A i \in DOMAIN messages : messages[i].n \in b
        BY <3>1, <3>2
      <4> HIDE DEF b
      <4>2. Lost \subseteq b
        BY <4>1 DEF Lost
      <4> QED BY <4>2 DEF b
    <3> QED BY <3>3, <3>4
  <2>4. IsFiniteSet(Lost) /\ IsFiniteSet(1..Len(sent))
    BY <2>3, OneTo, FS_Subset
  <2>5. /\ Cardinality(dropped) \in Nat /\ Cardinality(Lost) \in Nat
        /\ Cardinality(dropped) <= Cardinality(Lost)
    BY <2>1, <2>4, FS_Subset, FS_CardinalityType
  <2>6. Cardinality(dropped) <= failed
    BY <1>1, <2>5 DEF Radio
  <2>7. ASSUME hit # {}
        PROVE  failed <= 2 * (Cardinality(hit) - 1)
    <3>1. PICK off \in SUBSET hit :
            /\ failed = 2 * Cardinality(off)
            /\ \A r \in off : \E h \in hit : r < h
      BY <1>1 DEF Radio
    <3>2. hit \in SUBSET (1..Len(sent))
      BY <1>1 DEF Radio
    <3>3. PICK h \in hit : \A k \in hit : k <= h
      <4>1. hit \in SUBSET (0..Len(sent))
        BY <2>3, <3>2
      <4> QED BY <2>3, <2>7, <4>1, GreatestNat
    <3>4. h \notin off
      <4>1. \A k \in hit : k \in Nat
        BY <3>2
      <4> QED BY <3>1, <3>3, <4>1
    <3>5. IsFiniteSet(hit)
      BY <2>4, <3>2, FS_Subset
    <3>6. IsFiniteSet(hit \ {h}) /\ Cardinality(hit \ {h}) = Cardinality(hit) - 1
      BY <3>3, <3>5, FS_RemoveElement
    <3>7. off \subseteq hit \ {h}
      BY <3>1, <3>4
    <3>8. Cardinality(off) <= Cardinality(hit) - 1
      BY <3>6, <3>7, FS_Subset
    <3>9. Cardinality(off) \in Nat /\ Cardinality(hit) \in Nat
      BY <3>5, <3>6, <3>7, FS_Subset, FS_CardinalityType
    <3> QED BY <3>1, <3>8, <3>9
  <2> QED BY <2>2, <2>6, <2>7 DEF CollisionsCounted
<1> QED BY <1>1, WorldInvariant, PTL

\* A message that arrives though its transmission was hit has another one between
\* the same nodes given up for it, or was hit between addTransmission and the append
\* of LoadTest.  RunSteps never holds a message that was hit.
THEOREM NamesakesPay == WorldSpec => []HitTakesNamesake
<1>1. ASSUME Flow, Radio
      PROVE  HitTakesNamesake
  <2>1. ASSUME NEW n \in hit \cap delivered
        PROVE  n \in unlisted \/ \E k \in dropped : k # n /\ sent[k] = sent[n]
    <3>1. n \notin Lost
      <4>1. \A i \in DOMAIN messages : messages[i].n # n
        BY <1>1, <2>1 DEF Flow
      <4> QED BY <1>1, <2>1, <4>1 DEF Flow, Lost
    <3>2. Excused(n)
      BY <1>1, <2>1, <3>1 DEF Radio
    <3> QED BY <2>1, <3>2 DEF Excused
  <2>2. Made("ticker") => search["ticker"].message.n \notin hit
    BY <1>1 DEF Radio
  <2> QED BY <2>1, <2>2 DEF HitTakesNamesake
<1> QED BY <1>1, WorldInvariant, PTL

\* However the ticks divide among the hops, a message that is counted as received
\* has been acknowledged at each hop but the last.
THEOREM AcksFollowPath == WorldSpec => AckedBeforeDelivered
<1> DEFINE Acked == \A m \in ToSet(messages) :
                      m.n \in delivered' => \A i \in 1..(Hops(m) - 1) : m.acks[i]
<1>1. ASSUME Flow, Radio, [WorldNext]_worldVars
      PROVE  [Acked]_worldVars
  <2>1. messages \in Seq(Message)
    BY <1>1 DEF Flow, Types
  <2>2. CASE delivered' = delivered
    <3>1. \A m \in ToSet(messages) : m.n \notin delivered'
      BY <1>1, <2>1, <2>2, ActiveAreMembers, EachMessage
    <3> QED BY <3>1
  <2>3. ASSUME NEW turned \in SUBSET Unstable, Deliver(turned)
        PROVE  Acked
    <3>1. SUFFICES ASSUME NEW m \in ToSet(messages), m.n \in delivered'
                   PROVE  \A i \in 1..(Hops(m) - 1) : m.acks[i]
      OBVIOUS
    <3>2. PICK i \in DOMAIN messages : m = messages[i]
      BY <2>1, ActiveAreMembers
    <3>3. PICK j \in Going \ Staying : messages[j].n = m.n
      BY <1>1, <2>3, <3>1, <3>2, DeliveryEffect, EachMessage
    <3>4. j \in DOMAIN messages
      BY DEF Going
    <3>5. i = j
      BY <1>1, <3>2, <3>3, <3>4 DEF Flow, Numbered, NumberedIn
    <3>6. messages[i].remaining = 1
      BY <1>1, <3>3, <3>4, <3>5, EachMessage
    <3> QED BY <1>1, <3>2, <3>6, EachMessage, MovedIsCarried
  <2>4. \/ UNCHANGED worldVars \/ delivered' = delivered
        \/ \E turned \in SUBSET Unstable : Deliver(turned)
    BY <1>1 DEF WorldNext, RunSteps, CheckCollisions, EndTraffic, Sending, Search,
                Transmit, Enqueue, SendMessage, LoadMessage, CallScenario, results
  <2> HIDE DEF Acked
  <2> QED BY <2>2, <2>3, <2>4
<1> QED BY <1>1, WorldInvariant, PTL DEF WorldSpec, AckedBeforeDelivered
=============================================================================
