-------------------------- MODULE SimLedgerProofs ---------------------------
(***************************************************************************)
(* Theorems about SimLedger, for any nodes, rates, limits and numbers of   *)
(* messages.                                                               *)
(*                                                                         *)
(* The properties speak of balances; what makes them hold is what the      *)
(* threads are about to change.  The invariant adds it up: the balances    *)
(* with the changes still to be made are what the counters say, and no     *)
(* balance falls too low when what is owed is taken from it.               *)
(***************************************************************************)
EXTENDS SimLedger, FunctionTheorems, FiniteSetTheorems, WellFoundedInduction, TLAPS

(***************************************************************************)
(* Arithmetic.                                                             *)
(***************************************************************************)
LEMMA MaxOfTwo ==
  ASSUME NEW a \in Nat, NEW b \in Nat
  PROVE  /\ Max({a, b}) \in Nat
         /\ a <= Max({a, b}) /\ b <= Max({a, b})
<1>1. \E x \in {a, b} : \A y \in {a, b} : x >= y
  OBVIOUS
<1> QED BY <1>1 DEF Max

LEMMA Hundredths ==
  ASSUME NEW x \in Nat, NEW p \in 0..100
  PROVE  (x * p) \div 100 \in 0..x
<1>1. x * p \in Nat /\ x * p <= x * 100
  OBVIOUS
<1> DEFINE y == x * p
<1>2. y \in Nat /\ y <= 100 * x
  BY <1>1
<1> HIDE DEF y
<1>3. y \div 100 \in 0..x
  BY <1>2
<1> QED BY <1>3 DEF y

LEMMA BurnBound ==
  ASSUME NEW x \in Nat
  PROVE  Burn(x) \in 0..x
BY RatesAssumption, Hundredths DEF Burn

LEMMA RewardIsNat ==
  ASSUME NEW chunks \in Nat, NEW multiplier \in Nat
  PROVE  Reward(chunks, multiplier) \in Nat
<1> DEFINE x == (chunks * RelayReward * multiplier) \div 100
<1>1. chunks * RelayReward * multiplier \in Nat
  <2>1. chunks * RelayReward \in Nat
    BY RatesAssumption
  <2> DEFINE y == chunks * RelayReward
  <2> HIDE DEF y
  <2>2. y \in Nat => y * multiplier \in Nat
    OBVIOUS
  <2> QED BY <2>1, <2>2 DEF y
<1>2. x \in Nat
  BY <1>1
<1>3. Burn(x) \in 0..x
  BY <1>2, BurnBound
<1> HIDE DEF x
<1>4. x - Burn(x) \in Nat
  BY <1>2, <1>3
<1> QED BY <1>4 DEF Reward, x

LEMMA CostIsNat ==
  ASSUME NEW relays \in Seq(Nodes), NEW chunks \in Nat
  PROVE  Cost(relays, chunks) \in Nat
<1>1. Len(relays) \in Nat /\ SendCost \in Nat
  BY RatesAssumption
<1> DEFINE l == Len(relays)
           y == l * chunks
<1>2. y \in Nat
  BY <1>1
<1> HIDE DEF y
<1>3. y * SendCost \in Nat
  BY <1>1, <1>2
<1> QED BY <1>3 DEF y, Cost

LEMMA LeastNat ==
  ASSUME NEW T \in SUBSET Nat, T # {}
  PROVE  \E x \in T : \A y \in T : x <= y
<1>1. PICK x \in T : \A y \in T : ~ (<<y, x>> \in OpToRel(<, Nat))
  BY WFMin, NatLessThanWellFounded
<1>2. \A y \in T : ~ y < x
  BY <1>1 DEF OpToRel
<1> QED BY <1>2

\* The greatest of the limits: the one that most of the others do not exceed.
LEMMA MaxLimit ==
  /\ Max(Limits) \in Nat
  /\ \A l \in Limits : l <= Max(Limits)
<1> DEFINE above(x) == {y \in Limits : y > x}
           sizes == {Cardinality(above(x)) : x \in Limits}
<1>1. \A x \in Limits : IsFiniteSet(above(x)) /\ Cardinality(above(x)) \in Nat
  BY AmountsAssumption, FS_Subset, FS_CardinalityType
<1>2. PICK k \in sizes : \A j \in sizes : k <= j
  <2>1. sizes \in SUBSET Nat /\ sizes # {}
    BY <1>1, AmountsAssumption
  <2> HIDE DEF sizes
  <2> QED BY <2>1, LeastNat
<1>3. PICK x \in Limits : k = Cardinality(above(x))
  BY <1>2
<1>4. ASSUME NEW y \in Limits, ~ x >= y
      PROVE  FALSE
  <2>1. x \in Nat /\ y \in Nat /\ y > x
    BY <1>4, AmountsAssumption
  <2>2. above(y) \subseteq above(x) \ {y}
    <3>1. \A z \in Limits : z > y => z > x /\ z # y
      <4>1. \A z \in Limits : z \in Nat
        BY AmountsAssumption
      <4> QED BY <2>1, <4>1
    <3> QED BY <3>1
  <2>3. y \in above(x)
    BY <2>1
  <2>4. /\ IsFiniteSet(above(x) \ {y})
        /\ Cardinality(above(x) \ {y}) = Cardinality(above(x)) - 1
    <3> DEFINE s == above(x)
    <3>1. IsFiniteSet(s) /\ y \in s
      BY <1>1, <2>3
    <3> HIDE DEF s
    <3>2. IsFiniteSet(s \ {y}) /\ Cardinality(s \ {y}) = Cardinality(s) - 1
      BY <3>1, FS_RemoveElement
    <3> QED BY <3>2 DEF s
  <2>5. Cardinality(above(y)) <= Cardinality(above(x)) - 1
    <3> HIDE DEF above
    <3> QED BY <2>2, <2>4, FS_Subset
  <2>6. Cardinality(above(y)) \in sizes
    OBVIOUS
  <2>7. k <= Cardinality(above(y))
    <3> HIDE DEF sizes, above
    <3> QED BY <1>2, <2>6
  <2>8. Cardinality(above(x)) \in Nat /\ Cardinality(above(y)) \in Nat
    BY <1>1
  <2> HIDE DEF above, sizes
  <2> QED BY <1>3, <2>5, <2>7, <2>8
<1>5. \E z \in Limits : \A y \in Limits : z >= y
  BY <1>4
<1>6. Max(Limits) \in Limits /\ \A y \in Limits : Max(Limits) >= y
  BY <1>5 DEF Max
<1> QED BY <1>6, AmountsAssumption

(***************************************************************************)
(* The sum over the nodes.                                                 *)
(***************************************************************************)
\* How MapThenFoldSet adds a function up, set by set.
Summed(f, sets, g) ==
  g = [s \in sets |-> IF s = {} THEN 0
                      ELSE LET x == CHOOSE y \in s : TRUE
                           IN  f[x] + g[s \ {x}]]

LEMMA SumsExist ==
  ASSUME NEW f
  PROVE  \E g : Summed(f, SUBSET Nodes, g)
<1> DEFINE Upto(m) == {s \in SUBSET Nodes : Cardinality(s) <= m}
           bad == {m \in Nat : ~ \E g : Summed(f, Upto(m), g)}
           pick(s) == CHOOSE y \in s : TRUE
<1>1. \A s \in SUBSET Nodes : IsFiniteSet(s) /\ Cardinality(s) \in Nat
  BY NodesAssumption, FS_Subset, FS_CardinalityType
<1>2. \A s \in SUBSET Nodes :
        s # {} => /\ pick(s) \in s
                  /\ Cardinality(s \ {pick(s)}) = Cardinality(s) - 1
  BY <1>1, FS_RemoveElement
<1>3. \A s \in SUBSET Nodes : Cardinality(s) = 0 => s = {}
  BY <1>1, FS_EmptySet
<1>4. bad = {}
  <2> SUFFICES ASSUME bad # {} PROVE FALSE
    OBVIOUS
  <2>1. PICK m \in bad : \A l \in bad : m <= l
    <3>1. bad \in SUBSET Nat
      OBVIOUS
    <3> HIDE DEF bad
    <3> QED BY <3>1, LeastNat
  <2>2. \E g : \A s \in Upto(m) :
          s # {} => s \ {pick(s)} \in DOMAIN g
                    /\ \A h : h = [t \in Upto(m) |-> IF t = {} THEN 0
                                    ELSE f[pick(t)] + g[t \ {pick(t)}]]
                              => h[s \ {pick(s)}] = g[s \ {pick(s)}]
    <3>1. CASE m = 0
      <4>1. \A s \in Upto(m) : s = {}
        BY <1>1, <1>3, <3>1
      <4> QED BY <4>1
    <3>2. CASE m # 0
      <4>1. m \in Nat /\ m - 1 \in Nat
        BY <3>2
      <4>2. PICK g : Summed(f, Upto(m - 1), g)
        <5>1. m - 1 \notin bad
          <6> HIDE DEF bad
          <6> QED BY <2>1, <4>1
        <5> HIDE DEF Upto
        <5> QED BY <4>1, <5>1
      <4>3. \A s \in Upto(m) : s # {} => s \ {pick(s)} \in Upto(m - 1)
        BY <1>1, <1>2, <4>1
      <4>4. Upto(m - 1) \subseteq Upto(m)
        BY <1>1, <4>1
      <4> HIDE DEF Upto
      <4>5. DOMAIN g = Upto(m - 1)
        BY <4>2 DEF Summed
      <4>6. \A t \in Upto(m - 1) :
              g[t] = IF t = {} THEN 0 ELSE f[pick(t)] + g[t \ {pick(t)}]
        BY <4>2 DEF Summed
      <4> HIDE DEF pick
      <4>7. ASSUME NEW s \in Upto(m), s # {},
                   NEW h, h = [t \in Upto(m) |-> IF t = {} THEN 0
                                 ELSE f[pick(t)] + g[t \ {pick(t)}]]
            PROVE  h[s \ {pick(s)}] = g[s \ {pick(s)}]
        <5> DEFINE r == s \ {pick(s)}
        <5>1. r \in Upto(m - 1) /\ r \in Upto(m)
          BY <4>3, <4>4, <4>7
        <5> HIDE DEF r
        <5>2. h[r] = IF r = {} THEN 0 ELSE f[pick(r)] + g[r \ {pick(r)}]
          BY <4>7, <5>1
        <5>3. h[r] = g[r]
          BY <4>6, <5>1, <5>2
        <5> QED BY <5>3 DEF r
      <4> QED BY <4>3, <4>5, <4>7
    <3> QED BY <3>1, <3>2
  <2>3. PICK g : \A s \in Upto(m) :
          s # {} => s \ {pick(s)} \in DOMAIN g
                    /\ \A h : h = [t \in Upto(m) |-> IF t = {} THEN 0
                                    ELSE f[pick(t)] + g[t \ {pick(t)}]]
                              => h[s \ {pick(s)}] = g[s \ {pick(s)}]
    BY <2>2
  <2> DEFINE h == [t \in Upto(m) |-> IF t = {} THEN 0 ELSE f[pick(t)] + g[t \ {pick(t)}]]
  <2>4. \A s \in Upto(m) : s # {} => h[s \ {pick(s)}] = g[s \ {pick(s)}]
    <3> HIDE DEF Upto, pick
    <3> QED BY <2>3
  <2>5. h = [t \in Upto(m) |-> IF t = {} THEN 0 ELSE f[pick(t)] + h[t \ {pick(t)}]]
    <3> HIDE DEF Upto, pick
    <3> QED BY <2>4
  <2>6. Summed(f, Upto(m), h)
    <3> HIDE DEF Upto, h
    <3> QED BY <2>5 DEF Summed
  <2> HIDE DEF h, Upto
  <2> QED BY <2>1, <2>6
<1>5. Upto(Cardinality(Nodes)) = SUBSET Nodes /\ Cardinality(Nodes) \in Nat
  <2>1. \A s \in SUBSET Nodes : Cardinality(s) <= Cardinality(Nodes)
    BY NodesAssumption, FS_Subset
  <2> QED BY <1>1, <2>1
<1>6. Cardinality(Nodes) \notin bad
  BY <1>4
<1> HIDE DEF Upto
<1> QED BY <1>5, <1>6

Total(f) == MapThenSumSet(LAMBDA n : f[n], Nodes)

LEMMA TotalIsSum ==
  ASSUME NEW f
  PROVE  \E g : Summed(f, SUBSET Nodes, g) /\ Total(f) = g[Nodes]
<1> DEFINE g == CHOOSE g : Summed(f, SUBSET Nodes, g)
<1>1. Summed(f, SUBSET Nodes, g)
  BY SumsExist
<1>2. Total(f) = g[Nodes]
  BY DEF Total, MapThenSumSet, MapThenFoldSet, Summed
<1> QED BY <1>1, <1>2

\* Two functions that differ at one node, if at any: their totals differ as much.
LEMMA TotalChanges ==
  ASSUME NEW f \in [Nodes -> Int], NEW n \in Nodes, NEW d \in Int,
         NEW e, e = [f EXCEPT ![n] = f[n] + d]
  PROVE  Total(f) \in Int /\ Total(e) = Total(f) + d
<1> DEFINE pick(s) == CHOOSE y \in s : TRUE
<1>f. PICK g : Summed(f, SUBSET Nodes, g) /\ Total(f) = g[Nodes]
  BY TotalIsSum
<1>e. PICK h : Summed(e, SUBSET Nodes, h) /\ Total(e) = h[Nodes]
  BY TotalIsSum
<1>1. \A s \in SUBSET Nodes :
        /\ g[s] = IF s = {} THEN 0 ELSE f[pick(s)] + g[s \ {pick(s)}]
        /\ h[s] = IF s = {} THEN 0 ELSE e[pick(s)] + h[s \ {pick(s)}]
  BY <1>f, <1>e DEF Summed
<1>2. \A s \in SUBSET Nodes : s # {} => pick(s) \in s
  OBVIOUS
<1> DEFINE right(s) == g[s] \in Int /\ h[s] = g[s] + (IF n \in s THEN d ELSE 0)
           bad == {s \in SUBSET Nodes : ~ right(s)}
<1>3. bad = {}
  <2> SUFFICES ASSUME bad # {} PROVE FALSE
    OBVIOUS
  <2>1. PICK s \in bad : \A r \in bad : ~ (<<r, s>> \in StrictSubsetOrdering(Nodes))
    <3>1. bad \subseteq FiniteSubsetsOf(Nodes)
      BY NodesAssumption, FS_Subset DEF FiniteSubsetsOf
    <3> HIDE DEF bad
    <3> QED BY <3>1, FS_StrictSubsetOrderingWellFounded, WFMin
  <2>2. s \in SUBSET Nodes /\ ~ right(s)
    OBVIOUS
  <2>3. s # {}
    <3>1. g[{}] = 0 /\ h[{}] = 0
      BY <1>1
    <3>2. right({})
      BY <3>1
    <3> QED BY <2>2, <3>2
  <2> DEFINE x == pick(s)
             r == s \ {x}
  <2>4. x \in s /\ x \in Nodes
    BY <1>2, <2>2, <2>3
  <2>5. right(r)
    <3>1. r \in SUBSET Nodes /\ r \subseteq s /\ r # s
      BY <2>2, <2>4
    <3>2. <<r, s>> \in StrictSubsetOrdering(Nodes)
      BY <2>2, <3>1 DEF StrictSubsetOrdering
    <3> HIDE DEF r, right
    <3> QED BY <2>1, <3>1, <3>2
  <2>6. g[s] = f[x] + g[r] /\ h[s] = e[x] + h[r]
    BY <1>1, <2>2, <2>3
  <2>7. e[x] = IF x = n THEN f[x] + d ELSE f[x]
    BY <2>4
  <2>8. f[x] \in Int
    BY <2>4
  <2>9. CASE x = n
    <3>1. n \notin r /\ n \in s
      BY <2>4, <2>9
    <3> HIDE DEF r, x
    <3> QED BY <2>2, <2>5, <2>6, <2>7, <2>8, <2>9, <3>1
  <2>10. CASE x # n
    <3>1. n \in r <=> n \in s
      BY <2>10
    <3> HIDE DEF r, x
    <3> QED BY <2>2, <2>5, <2>6, <2>7, <2>8, <2>10, <3>1
  <2> QED BY <2>9, <2>10
<1>4. right(Nodes)
  BY <1>3
<1> QED BY <1>f, <1>e, <1>4

LEMMA TotalIsInt ==
  ASSUME NEW f \in [Nodes -> Int]
  PROVE  Total(f) \in Int
<1>1. CASE Nodes = {}
  <2>1. PICK g : Summed(f, SUBSET Nodes, g) /\ Total(f) = g[Nodes]
    BY TotalIsSum
  <2>2. g[{}] = 0
    BY <2>1 DEF Summed
  <2> QED BY <1>1, <2>1, <2>2
<1>2. ASSUME NEW n \in Nodes
      PROVE  Total(f) \in Int
  <2>1. [f EXCEPT ![n] = f[n] + 0] = [f EXCEPT ![n] = f[n] + 0]
    OBVIOUS
  <2> QED BY <2>1, TotalChanges
<1> QED BY <1>1, <1>2

\* Nobody has anything.
LEMMA TotalOfNothing == Total([n \in Nodes |-> 0]) = 0
<1> DEFINE f == [n \in Nodes |-> 0]
           pick(s) == CHOOSE y \in s : TRUE
<1>f. PICK g : Summed(f, SUBSET Nodes, g) /\ Total(f) = g[Nodes]
  <2> HIDE DEF f
  <2> QED BY TotalIsSum
<1>1. \A s \in SUBSET Nodes : g[s] = IF s = {} THEN 0 ELSE f[pick(s)] + g[s \ {pick(s)}]
  BY <1>f DEF Summed
<1> DEFINE bad == {s \in SUBSET Nodes : g[s] # 0}
<1>2. bad = {}
  <2> SUFFICES ASSUME bad # {} PROVE FALSE
    OBVIOUS
  <2>1. PICK s \in bad : \A r \in bad : ~ (<<r, s>> \in StrictSubsetOrdering(Nodes))
    <3>1. bad \subseteq FiniteSubsetsOf(Nodes)
      BY NodesAssumption, FS_Subset DEF FiniteSubsetsOf
    <3> HIDE DEF bad
    <3> QED BY <3>1, FS_StrictSubsetOrderingWellFounded, WFMin
  <2>2. s \in SUBSET Nodes /\ g[s] # 0
    OBVIOUS
  <2>3. s # {}
    BY <1>1, <2>2
  <2> DEFINE x == pick(s)
             r == s \ {x}
  <2>4. x \in s /\ x \in Nodes
    BY <2>2, <2>3
  <2>5. g[r] = 0
    <3>1. r \in SUBSET Nodes /\ r \subseteq s /\ r # s
      BY <2>2, <2>4
    <3>2. <<r, s>> \in StrictSubsetOrdering(Nodes)
      BY <2>2, <3>1 DEF StrictSubsetOrdering
    <3> HIDE DEF r
    <3> QED BY <2>1, <3>1, <3>2
  <2>6. g[s] = f[x] + g[r]
    BY <1>1, <2>2, <2>3
  <2>7. f[x] = 0
    BY <2>4
  <2> HIDE DEF f, r, x
  <2> QED BY <2>2, <2>5, <2>6, <2>7
<1> QED BY <1>f, <1>2

(***************************************************************************)
(* The inductive invariant.                                                *)
(***************************************************************************)
Changes == [node : Nodes, amount : Int]

Part(c, i) == IF i \in DOMAIN c THEN c[i].amount ELSE 0

\* A message has two relays at most, so that it makes three changes at most.
Sum(c) == Part(c, 1) + Part(c, 2) + Part(c, 3)

Pending(t) == IF t \in Threads THEN Sum(todo[t]) ELSE 0

\* What a thread is about to take from a node next.
Owed(t, n) == IF ~ Idle(t) /\ todo[t][1].node = n /\ todo[t][1].amount < 0
              THEN - todo[t][1].amount
              ELSE 0

Counted == emission + earned.file + earned.text - (relay + burn)

Types ==
  /\ balance \in [Nodes -> Int]
  /\ limit \in [Nodes -> Limits]
  /\ todo \in [Threads -> Seq(Changes)]
  /\ loaded \in [Threads -> Seq(Int)]
  /\ emission \in Nat /\ relay \in Nat /\ burn \in Nat
  /\ earned \in [file : Nat, text : Nat]
  /\ deals \in 0..MaxDeals /\ overlapped \in BOOLEAN /\ lost \in BOOLEAN
  /\ dearest \in Nat

\* What a thread has to do: only the first change of a message takes anything.
Work ==
  \A t \in Threads :
    /\ Len(todo[t]) <= 3
    /\ \A i \in 2..Len(todo[t]) : todo[t][i].amount >= 0
    /\ Len(loaded[t]) = 0 \/ Len(loaded[t]) = 1
    /\ Idle(t) => loaded[t] = Unread

\* Balances and pending changes are what the counters say.
Account ==
  ~ lost => Total(balance) + Pending("ticker") + Pending("handler") = Counted

Floor == - Max(Limits) - dearest

\* Not even both threads together can take a balance below the floor.
Debt ==
  /\ \A t \in Threads, n \in Nodes : Owed(t, n) <= dearest
  /\ ~ lost => \A n \in Nodes :
       /\ balance[n] >= Floor
       /\ \A t \in Threads : balance[n] - Owed(t, n) >= Floor
       /\ \A t, u \in Threads :
            t # u => balance[n] - Owed(t, n) - Owed(u, n) >= Floor

Within(n, amount) ==
  amount < 0 => balance[n] + amount >= 0 \/ balance[n] + amount >= - limit[n]

\* A thread that has never met the other finds the balances as it checked them.
Alone ==
  ~ overlapped =>
    /\ \A t, u \in Threads : t # u => Idle(t) \/ Idle(u)
    /\ \A t \in Threads : ~ Idle(t) =>
         /\ loaded[t] # Unread => loaded[t][1] = balance[todo[t][1].node]
         /\ Within(todo[t][1].node, todo[t][1].amount)

IInv == Types /\ Work /\ Account /\ Debt /\ Alone

-----------------------------------------------------------------------------
LEMMA InitInv == Init => IInv
<1> SUFFICES ASSUME Init PROVE IInv
  OBVIOUS
<1>1. /\ balance = [n \in Nodes |-> 0] /\ limit \in [Nodes -> Limits]
      /\ todo = [t \in Threads |-> << >>] /\ loaded = [t \in Threads |-> << >>]
      /\ emission = 0 /\ relay = 0 /\ burn = 0 /\ earned = [file |-> 0, text |-> 0]
      /\ deals = 0 /\ overlapped = FALSE /\ lost = FALSE /\ dearest = 0
  BY DEF Init, Unread
<1>2. \A t \in Threads : Idle(t) /\ todo[t] = << >> /\ loaded[t] = << >>
  BY <1>1 DEF Idle
<1>3. Types
  <2>1. todo \in [Threads -> Seq(Changes)] /\ loaded \in [Threads -> Seq(Int)]
    BY <1>1
  <2>2. earned \in [file : Nat, text : Nat]
    BY <1>1
  <2>3. deals \in 0..MaxDeals
    BY <1>1, BoundsAssumption
  <2>4. balance \in [Nodes -> Int]
    BY <1>1
  <2>5. /\ emission \in Nat /\ relay \in Nat /\ burn \in Nat /\ dearest \in Nat
        /\ overlapped \in BOOLEAN /\ lost \in BOOLEAN
    BY <1>1
  <2> QED BY <1>1, <2>1, <2>2, <2>3, <2>4, <2>5 DEF Types
<1>4. Work
  BY <1>2 DEF Work, Unread
<1>5. Account
  <2>1. Total(balance) = 0
    BY <1>1, TotalOfNothing
  <2>2. Sum(<< >>) = 0
    BY DEF Sum, Part
  <2>3. Pending("ticker") = 0 /\ Pending("handler") = 0
    BY <1>2, <2>2 DEF Pending
  <2> QED BY <1>1, <2>1, <2>3 DEF Account, Counted
<1>6. Debt
  <2>1. \A t \in Threads, n \in Nodes : Owed(t, n) = 0
    BY <1>2 DEF Owed
  <2>2. Floor \in Int /\ Floor <= 0
    BY <1>1, MaxLimit DEF Floor
  <2> QED BY <1>1, <2>1, <2>2 DEF Debt
<1>7. Alone
  BY <1>2 DEF Alone
<1> QED BY <1>3, <1>4, <1>5, <1>6, <1>7 DEF IInv

\* What the operators say of a thread that is not idle.
LEMMA Busy ==
  ASSUME Types, NEW t \in Threads
  PROVE  /\ todo[t] \in Seq(Changes) /\ Len(todo[t]) \in Nat
         /\ Idle(t) <=> Len(todo[t]) = 0
         /\ \A i \in 1..Len(todo[t]) : /\ todo[t][i] \in Changes
                                       /\ todo[t][i].node \in Nodes
                                       /\ todo[t][i].amount \in Int
         /\ \A n \in Nodes : Owed(t, n) \in Nat
         /\ Idle(t) => \A n \in Nodes : Owed(t, n) = 0
         /\ Pending(t) \in Int
<1>1. todo[t] \in Seq(Changes) /\ Len(todo[t]) \in Nat
  BY DEF Types
<1>2. Idle(t) <=> Len(todo[t]) = 0
  BY <1>1 DEF Idle
<1>3. \A i \in 1..Len(todo[t]) : todo[t][i] \in Changes
  BY <1>1
<1>4. \A i \in 1..Len(todo[t]) : todo[t][i].node \in Nodes /\ todo[t][i].amount \in Int
  BY <1>3 DEF Changes
<1>5. \A n \in Nodes : Owed(t, n) \in Nat /\ (Idle(t) => Owed(t, n) = 0)
  BY <1>1, <1>2, <1>4 DEF Owed
<1>6. Pending(t) \in Int
  BY <1>1, <1>4 DEF Pending, Sum, Part
<1> QED BY <1>1, <1>2, <1>3, <1>4, <1>5, <1>6

LEMMA StillAbove ==
  ASSUME NEW L \in Nat, NEW b \in Int, NEW d \in Nat, NEW e \in Nat, d <= e,
         b >= - L - d, NEW o \in Nat, o <= e, o > 0 => b - o >= - L
  PROVE  /\ b >= - L - e /\ b - o >= - L - e
         /\ \A q \in Nat : q <= d /\ b - q >= - L - d
              => /\ b - q >= - L - e /\ b - o - q >= - L - e
                 /\ b - q - o >= - L - e
OBVIOUS

(***************************************************************************)
(* Taking up a message or a transfer.                                      *)
(***************************************************************************)
\* What a thread may take up: of the changes only the first takes something, no
\* more than amount and no more than there is, and the counters say the same.
Fits(amount, changes) ==
  /\ amount \in Nat
  /\ changes \in Seq(Changes) /\ Len(changes) <= 3
  /\ \A i \in 2..Len(changes) : changes[i].amount >= 0
  /\ changes # << >> => /\ - changes[1].amount <= amount
                        /\ Within(changes[1].node, changes[1].amount)
  /\ Counted' = Counted + Sum(changes)
  /\ emission' \in Nat /\ relay' \in Nat /\ burn' \in Nat
  /\ earned' \in [file : Nat, text : Nat]

LEMMA DealStep ==
  ASSUME IInv, NEW t \in Threads, NEW amount, NEW changes,
         Fits(amount, changes), Deal(t, amount, changes)
  PROVE  IInv'
<1>1. /\ Types /\ Work /\ Account /\ Debt /\ Alone
      /\ amount \in Nat /\ changes \in Seq(Changes) /\ Len(changes) <= 3
      /\ emission' \in Nat /\ relay' \in Nat /\ burn' \in Nat
      /\ earned' \in [file : Nat, text : Nat]
  BY DEF IInv, Fits
<1>2. /\ Idle(t) /\ deals < MaxDeals /\ deals' = deals + 1
      /\ todo' = [todo EXCEPT ![t] = changes]
      /\ dearest' = Max({dearest, amount})
      /\ overlapped' = (overlapped \/ \E u \in Threads : ~ Idle(u))
      /\ balance' = balance /\ limit' = limit /\ loaded' = loaded /\ lost' = lost
  BY DEF Deal, Meet
<1>3. /\ dearest \in Nat /\ dearest' \in Nat /\ amount \in Nat
      /\ dearest <= dearest' /\ amount <= dearest'
  BY <1>1, <1>2, MaxOfTwo DEF Types
<1>4. /\ todo' \in [Threads -> Seq(Changes)] /\ todo'[t] = changes
      /\ \A u \in Threads \ {t} : todo'[u] = todo[u]
  BY <1>1, <1>2 DEF Types
<1>5. Types'
  <2>1. deals' \in 0..MaxDeals
    BY <1>1, <1>2, BoundsAssumption DEF Types
  <2>2. overlapped' \in BOOLEAN
    BY <1>1, <1>2 DEF Types
  <2> QED BY <1>1, <1>2, <1>3, <1>4, <2>1, <2>2 DEF Types
<1>6. \A u \in Threads \ {t} : Idle(u)' <=> Idle(u)
  BY <1>4 DEF Idle
<1>7. Work'
  <2>1. loaded[t] = Unread
    BY <1>1, <1>2 DEF Work
  <2>2. \A i \in 2..Len(changes) : changes[i].amount >= 0
    BY DEF Fits
  <2>3. \A u \in Threads :
          /\ Len(todo'[u]) <= 3
          /\ \A i \in 2..Len(todo'[u]) : todo'[u][i].amount >= 0
    BY <1>1, <1>4, <2>2 DEF Work
  <2>4. \A u \in Threads : /\ Len(loaded'[u]) = 0 \/ Len(loaded'[u]) = 1
                           /\ Idle(u)' => loaded'[u] = Unread
    BY <1>1, <1>2, <1>6, <2>1 DEF Work
  <2> QED BY <2>3, <2>4 DEF Work
<1>8. Account'
  <2>1. Pending(t) = 0
    <3>1. todo[t] = << >>
      BY <1>2 DEF Idle
    <3> QED BY <3>1 DEF Pending, Sum, Part
  <2>2. Pending(t)' = Sum(changes)
    BY <1>4 DEF Pending
  <2>3. \A u : u # t => Pending(u)' = Pending(u)
    BY <1>4 DEF Pending
  <2>4. Total(balance)' = Total(balance)
    BY <1>2
  <2>5. Counted' = Counted + Sum(changes)
    BY DEF Fits
  <2>6. t = "ticker" \/ t = "handler"
    BY ThreadsAssumption
  <2>7. Total(balance) \in Int /\ Pending("ticker") \in Int /\ Pending("handler") \in Int
        /\ Sum(changes) \in Int
    <3>1. \A i \in DOMAIN changes : changes[i].amount \in Int
      <4>1. \A i \in DOMAIN changes : changes[i] \in Changes
        BY <1>1
      <4> QED BY <4>1 DEF Changes
    <3>2. Sum(changes) \in Int
      BY <3>1 DEF Sum, Part
    <3>3. Pending("ticker") \in Int /\ Pending("handler") \in Int
      BY <1>1, Busy DEF Pending
    <3> QED BY <1>1, <3>2, <3>3, TotalIsInt DEF Types
  <2>8. Pending("ticker")' + Pending("handler")'
          = Pending("ticker") + Pending("handler") + Sum(changes)
    <3>1. CASE t = "ticker"
      <4>1. Pending("handler")' = Pending("handler")
        BY <2>3, <3>1
      <4> QED BY <2>1, <2>2, <2>7, <3>1, <4>1
    <3>2. CASE t = "handler"
      <4>1. Pending("ticker")' = Pending("ticker")
        BY <2>3, <3>2
      <4> QED BY <2>1, <2>2, <2>7, <3>2, <4>1
    <3> QED BY <2>6, <3>1, <3>2
  <2>9. Pending("ticker")' \in Int /\ Pending("handler")' \in Int /\ Counted \in Int
    <3>1. Pending("ticker")' \in Int /\ Pending("handler")' \in Int
      BY <2>2, <2>3, <2>6, <2>7
    <3>2. Counted \in Int
      BY <1>1 DEF Types, Counted
    <3> QED BY <3>1, <3>2
  <2>10. lost' = lost /\ Account
    BY <1>1, <1>2
  <2>11. ASSUME Total(balance) + Pending("ticker") + Pending("handler") = Counted
         PROVE  Total(balance)' + Pending("ticker")' + Pending("handler")' = Counted'
    <3>1. \A x, p, q, p2, q2, d, k \in Int :
            p2 + q2 = p + q + d /\ x + p + q = k => x + p2 + q2 = k + d
      OBVIOUS
    <3> HIDE DEF Sum
    <3> QED BY <2>4, <2>5, <2>7, <2>8, <2>9, <2>11, <3>1
  <2> QED BY <2>10, <2>11 DEF Account
<1>9. \/ /\ Within(changes[1].node, changes[1].amount)
         /\ - changes[1].amount <= amount
      \/ changes = << >>
  BY DEF Fits
<1>10. \A n \in Nodes : /\ Owed(t, n)' \in Nat /\ Owed(t, n)' <= amount
                        /\ Owed(t, n)' > 0 => Within(n, - Owed(t, n)')
  <2>1. CASE changes = << >>
    <3>1. Idle(t)'
      BY <1>4, <2>1 DEF Idle
    <3> QED BY <1>1, <3>1 DEF Owed
  <2>2. CASE changes # << >>
    <3>1. changes[1].amount \in Int /\ changes[1].node \in Nodes
      <4>1. changes[1] \in Changes
        BY <1>1, <2>2
      <4> QED BY <4>1 DEF Changes
    <3>2. ~ Idle(t)'
      BY <1>4, <2>2 DEF Idle
    <3> QED BY <1>1, <1>4, <1>9, <2>2, <3>1, <3>2 DEF Owed
  <2> QED BY <2>1, <2>2
<1>11. \A u \in Threads \ {t}, n \in Nodes : Owed(u, n)' = Owed(u, n)
  BY <1>4, <1>6 DEF Owed
<1>12. Debt'
  <2>1. \A u \in Threads, n \in Nodes : Owed(u, n) \in Nat /\ Owed(u, n) <= dearest
    BY <1>1, Busy DEF Debt
  <2>2. \A u \in Threads, n \in Nodes : Owed(u, n)' <= dearest'
    BY <1>3, <1>10, <1>11, <2>1
  <2>3. ASSUME ~ lost', NEW n \in Nodes
        PROVE  /\ balance'[n] >= Floor'
               /\ \A u \in Threads : balance'[n] - Owed(u, n)' >= Floor'
               /\ \A u, v \in Threads :
                    u # v => balance'[n] - Owed(u, n)' - Owed(v, n)' >= Floor'
    <3>1. /\ Max(Limits) \in Nat /\ balance[n] \in Int
          /\ limit[n] \in Nat /\ limit[n] <= Max(Limits)
      BY <1>1, MaxLimit, AmountsAssumption DEF Types
    <3>p. PICK L \in Nat, b \in Int, e \in Nat, d \in Nat :
            L = Max(Limits) /\ b = balance[n] /\ e = dearest' /\ d = dearest
      BY <1>3, <3>1
    <3>2. Floor = - L - d /\ Floor' = - L - e /\ balance'[n] = b /\ d <= e
      BY <1>2, <1>3, <3>p DEF Floor
    <3>o. PICK o \in Nat : o = Owed(t, n)'
      BY <1>10
    <3>3. o <= e /\ (o > 0 => b - o >= - L)
      <4>1. o > 0 => Within(n, - o)
        BY <1>10, <3>o
      <4>2. o > 0 => b - o >= 0 \/ b - o >= - limit[n]
        BY <3>p, <4>1 DEF Within
      <4>3. o <= e
        BY <1>3, <1>10, <3>o, <3>p
      <4> QED BY <3>1, <3>p, <4>2, <4>3
    <3>4. /\ b >= - L - d
          /\ \A u \in Threads : b - Owed(u, n) >= - L - d
      BY <1>1, <1>2, <2>3, <3>2, <3>p DEF Debt
    <3>5. \A u \in Threads \ {t} : /\ Owed(u, n)' = Owed(u, n)
                                   /\ Owed(u, n) \in Nat /\ Owed(u, n) <= d
      BY <1>11, <2>1, <3>p
    <3>6. \A u, v \in Threads : u # v => u = t \/ v = t
      BY ThreadsAssumption
    <3>7. /\ b >= - L - e /\ b - o >= - L - e
          /\ \A q \in Nat : q <= d /\ b - q >= - L - d
               => /\ b - q >= - L - e /\ b - o - q >= - L - e
                  /\ b - q - o >= - L - e
      BY <3>2, <3>3, <3>4, StillAbove
    <3>8. \A u \in Threads \ {t} : /\ b - Owed(u, n)' >= - L - e
                                   /\ b - o - Owed(u, n)' >= - L - e
                                   /\ b - Owed(u, n)' - o >= - L - e
      BY <3>4, <3>5, <3>7
    <3>9. \A u \in Threads : b - Owed(u, n)' >= - L - e
      BY <3>7, <3>8, <3>o
    <3>10. \A u, v \in Threads : u # v => b - Owed(u, n)' - Owed(v, n)' >= - L - e
      BY <3>6, <3>8, <3>o
    <3> QED BY <3>2, <3>7, <3>9, <3>10
  <2> QED BY <2>2, <2>3 DEF Debt
<1>13. Alone'
  <2> SUFFICES ASSUME ~ overlapped'
               PROVE  /\ \A u, v \in Threads : u # v => Idle(u)' \/ Idle(v)'
                      /\ \A u \in Threads : ~ Idle(u)' =>
                           /\ loaded'[u] # Unread =>
                                loaded'[u][1] = balance'[todo'[u][1].node]
                           /\ Within(todo[u][1].node, todo[u][1].amount)'
    BY DEF Alone
  <2>1. \A u \in Threads : Idle(u) /\ loaded'[u] = Unread
    BY <1>1, <1>2 DEF Work
  <2>2. \A u \in Threads \ {t} : Idle(u)'
    BY <1>6, <2>1
  <2>3. ~ Idle(t)' => Within(todo[t][1].node, todo[t][1].amount)'
    <3>1. ~ Idle(t)' => changes # << >>
      BY <1>4 DEF Idle
    <3> QED BY <1>2, <1>4, <1>9, <3>1 DEF Within
  <2> QED BY <2>1, <2>2, <2>3
<1> QED BY <1>5, <1>7, <1>8, <1>12, <1>13 DEF IInv

(***************************************************************************)
(* What messages and transfers come to.                                    *)
(***************************************************************************)
\* The parts of two sequences put together, if there are three at most.
LEMMA RewardsPaid ==
  ASSUME NEW relays \in Seq(Nodes), Len(relays) <= 2, NEW chunks \in Nat,
         NEW multiplier \in Nat,
         NEW first \in Seq(Changes), Len(first) <= 1
  PROVE  LET c == first \o Rewards(relays, chunks, multiplier)
         IN  /\ c \in Seq(Changes) /\ Len(c) <= 3
             /\ \A i \in 2..Len(c) : c[i].amount >= 0
             /\ Sum(c) = Part(first, 1) + Len(relays) * Reward(chunks, multiplier)
             /\ c # << >> => c[1].amount >= 0 \/ (first # << >> /\ c[1] = first[1])
<1> DEFINE r == Reward(chunks, multiplier)
           w == Rewards(relays, chunks, multiplier)
           c == first \o w
           l == Len(relays)
           k == Len(first)
<1>1. r \in Nat
  BY RewardIsNat
<1>2. l \in 0..2 /\ k \in 0..1 /\ \A i \in 1..l : relays[i] \in Nodes
  <2>1. l \in Nat /\ k \in Nat
    OBVIOUS
  <2>2. \A i \in 1..l : relays[i] \in Nodes
    OBVIOUS
  <2>3. l <= 2 /\ k <= 1
    OBVIOUS
  <2> HIDE DEF l, k
  <2> QED BY <2>1, <2>2, <2>3
<1>3. /\ w \in Seq(Changes) /\ Len(w) = l
      /\ \A i \in 1..l : w[i].amount = r
  <2>1. w = [i \in 1..l |-> [node |-> relays[i], amount |-> r]]
    BY DEF Rewards, Change
  <2>2. \A i \in 1..l : [node |-> relays[i], amount |-> r] \in Changes
    BY <1>1, <1>2 DEF Changes
  <2> HIDE DEF w, r, l
  <2>3. w \in [1..l -> Changes]
    BY <2>1, <2>2
  <2>4. w \in Seq(Changes) /\ Len(w) = l
    BY <1>2, <2>3
  <2> QED BY <2>1, <2>4
<1> HIDE DEF w, r, l, k
<1>4. /\ c \in Seq(Changes) /\ Len(c) = k + l
      /\ \A i \in 1..k : c[i] = first[i]
      /\ \A i \in 1..l : c[k + i] = w[i]
  BY <1>2, <1>3 DEF k
<1> HIDE DEF c
<1>5. \A i \in 1..k : Part(first, i) = first[i].amount /\ first[i].amount \in Int
  <2>1. \A i \in 1..k : first[i] \in Changes
    BY DEF k
  <2> QED BY <1>2, <2>1 DEF Part, Changes, k
<1>6. k = 0 => Part(first, 1) = 0
  BY DEF Part, k
<1>7. \A i \in 1..3 : i > k + l => Part(c, i) = 0
  BY <1>2, <1>4 DEF Part
<1>8. \A i \in 1..(k + l) : Part(c, i) = c[i].amount
  BY <1>2, <1>4 DEF Part
<1>9. \A i \in 1..(k + l) : i > k => c[i].amount = r
  <2>1. ASSUME NEW i \in 1..(k + l), i > k
        PROVE  c[i].amount = r
    <3>1. PICK j \in 1..l : i = k + j
      <4>1. i - k \in 1..l /\ i = k + (i - k)
        BY <1>2, <2>1
      <4> QED BY <4>1
    <3>2. c[i] = w[j]
      BY <1>4, <3>1
    <3> QED BY <1>3, <3>2
  <2> QED BY <2>1
<1>10. Sum(c) = Part(first, 1) + l * r
  <2>1. CASE k = 0
    <3>1. \A i \in 1..3 : Part(c, i) = IF i <= l THEN r ELSE 0
      BY <1>2, <1>7, <1>8, <1>9, <2>1
    <3>2. l = 0 \/ l = 1 \/ l = 2
      BY <1>2
    <3> QED BY <1>1, <1>6, <2>1, <3>1, <3>2 DEF Sum
  <2>2. CASE k = 1
    <3>1. \A i \in 2..3 : Part(c, i) = IF i <= l + 1 THEN r ELSE 0
      BY <1>2, <1>7, <1>8, <1>9, <2>2
    <3>2. Part(c, 1) = Part(first, 1) /\ Part(first, 1) \in Int
      BY <1>2, <1>4, <1>5, <1>8, <2>2
    <3>3. l = 0 \/ l = 1 \/ l = 2
      BY <1>2
    <3> QED BY <1>1, <2>2, <3>1, <3>2, <3>3 DEF Sum
  <2> QED BY <1>2, <2>1, <2>2
<1>11. \A i \in 2..Len(c) : c[i].amount >= 0
  BY <1>1, <1>2, <1>4, <1>9
<1>12. c # << >> => c[1].amount >= 0 \/ (first # << >> /\ c[1] = first[1])
  <2>1. CASE k = 0 /\ c # << >>
    <3>1. 1 \in 1..(k + l) /\ 1 > k
      BY <1>2, <1>4, <2>1
    <3> QED BY <1>1, <1>9, <3>1
  <2>2. CASE k = 1
    <3>1. c[1] = first[1]
      BY <1>4, <2>2
    <3>2. first # << >>
      BY <2>2 DEF k
    <3> QED BY <3>1, <3>2
  <2> QED BY <1>2, <2>1, <2>2
<1> QED BY <1>2, <1>4, <1>10, <1>11, <1>12 DEF c, w, r, l

\* The relays of a message are nodes, two at most.
LEMMA RelaysOf ==
  ASSUME NEW from \in Nodes, NEW relays \in RelaysFrom(from)
  PROVE  relays \in Seq(Nodes) /\ Len(relays) <= 2
<1>1. relays \in BoundedSeq(Nodes \ {from}, MaxRelays)
  BY DEF RelaysFrom
<1>2. PICK n \in 0..MaxRelays : relays \in [1..n -> Nodes \ {from}]
  BY <1>1 DEF BoundedSeq, SeqOf
<1>3. n \in Nat /\ n <= 2
  BY BoundsAssumption
<1>4. relays \in [1..n -> Nodes]
  BY <1>2
<1>5. relays \in Seq(Nodes) /\ Len(relays) = n
  BY <1>3, <1>4
<1> QED BY <1>3, <1>5

LEMMA SendFileStep ==
  ASSUME IInv, NEW t \in Threads, NEW from \in Nodes, NEW relays \in RelaysFrom(from),
         NEW chunks \in Files, NEW multiplier \in Multipliers,
         SendFile(t, from, relays, chunks, multiplier)
  PROVE  IInv'
<1> DEFINE cost == Cost(relays, chunks)
           charge == IF cost > 0 THEN <<Change(from, - cost)>> ELSE << >>
           changes == charge \o Rewards(relays, chunks, multiplier)
           work == Len(relays) * Reward(chunks, multiplier)
<1>1. /\ relays \in Seq(Nodes) /\ Len(relays) <= 2
      /\ chunks \in Nat /\ multiplier \in Nat
  BY RelaysOf, AmountsAssumption
<1>2. cost \in Nat /\ Burn(cost) \in 0..cost /\ work \in Nat
  <2>1. Len(relays) \in Nat /\ Reward(chunks, multiplier) \in Nat
    BY <1>1, RewardIsNat
  <2>2. \A x, y \in Nat : x * y \in Nat
    OBVIOUS
  <2> QED BY <1>1, <2>1, <2>2, CostIsNat, BurnBound
<1>3. /\ cost > 0 => Affordable(from, cost)
      /\ Deal(t, cost, changes)
      /\ relay' = relay + cost - Burn(cost) /\ burn' = burn + Burn(cost)
      /\ earned' = [earned EXCEPT !.file = earned.file + work]
      /\ emission' = emission
  BY DEF SendFile
<1> HIDE DEF cost, work
<1>4. Types
  BY DEF IInv
<1>5. /\ charge \in Seq(Changes) /\ Len(charge) <= 1
      /\ Part(charge, 1) = - cost
      /\ charge # << >> => charge[1] = Change(from, - cost) /\ cost > 0
  <2>1. CASE cost > 0
    <3>1. charge = <<Change(from, - cost)>> /\ Change(from, - cost) \in Changes
      BY <1>2, <2>1 DEF Change, Changes
    <3> HIDE DEF charge
    <3>2. charge \in Seq(Changes) /\ Len(charge) = 1 /\ charge[1] = Change(from, - cost)
      BY <3>1
    <3> QED BY <2>1, <3>2 DEF Part, Change
  <2>2. CASE ~ cost > 0
    <3>1. charge = << >> /\ cost = 0
      BY <1>2, <2>2
    <3>2. << >> \in Seq(Changes) /\ Len(<< >>) = 0 /\ Part(<< >>, 1) = 0
      BY DEF Part
    <3> HIDE DEF charge
    <3> QED BY <3>1, <3>2
  <2> QED BY <2>1, <2>2
<1> HIDE DEF charge
<1>6. /\ changes \in Seq(Changes) /\ Len(changes) <= 3
      /\ \A i \in 2..Len(changes) : changes[i].amount >= 0
      /\ Sum(changes) = - cost + work
      /\ changes # << >> => changes[1].amount >= 0
                            \/ (charge # << >> /\ changes[1] = charge[1])
  <2>1. /\ changes \in Seq(Changes) /\ Len(changes) <= 3
        /\ \A i \in 2..Len(changes) : changes[i].amount >= 0
        /\ Sum(changes) = Part(charge, 1) + Len(relays) * Reward(chunks, multiplier)
        /\ changes # << >> => changes[1].amount >= 0
                              \/ (charge # << >> /\ changes[1] = charge[1])
    BY <1>1, <1>5, RewardsPaid
  <2>2. Sum(changes) = - cost + work
    BY <1>5, <2>1 DEF work
  <2> HIDE DEF changes
  <2> QED BY <2>1, <2>2
<1> HIDE DEF changes
<1>7. /\ emission \in Nat /\ relay \in Nat /\ burn \in Nat
      /\ earned \in [file : Nat, text : Nat]
  BY <1>4 DEF Types
<1>8. /\ emission' \in Nat /\ relay' \in Nat /\ burn' \in Nat
      /\ earned' \in [file : Nat, text : Nat]
      /\ earned'.file = earned.file + work /\ earned'.text = earned.text
  BY <1>2, <1>3, <1>7
<1>9. Counted' = Counted + Sum(changes)
  <2>1. earned.file \in Nat /\ earned.text \in Nat
    BY <1>7
  <2>2. Counted' = emission + (earned.file + work) + earned.text
                     - ((relay + cost - Burn(cost)) + (burn + Burn(cost)))
    BY <1>3, <1>8 DEF Counted
  <2>3. \A b \in 0..cost : emission + (earned.file + work) + earned.text
                             - ((relay + cost - b) + (burn + b))
                           = emission + earned.file + earned.text - (relay + burn)
                               + (- cost + work)
    BY <1>2, <1>7, <2>1
  <2> QED BY <1>2, <1>6, <2>2, <2>3 DEF Counted
<1>10. changes # << >> => /\ - changes[1].amount <= cost
                          /\ Within(changes[1].node, changes[1].amount)
  <2>1. ASSUME changes # << >>, changes[1].amount >= 0
        PROVE  - changes[1].amount <= cost /\ Within(changes[1].node, changes[1].amount)
    <3>1. changes[1] \in Changes
      BY <1>6, <2>1
    <3>2. changes[1].amount \in Int
      BY <3>1 DEF Changes
    <3> QED BY <1>2, <2>1, <3>2 DEF Within
  <2>2. ASSUME charge # << >>, changes[1] = charge[1]
        PROVE  - changes[1].amount <= cost /\ Within(changes[1].node, changes[1].amount)
    <3>1. changes[1].node = from /\ changes[1].amount = - cost /\ cost > 0
      BY <1>5, <2>2 DEF Change
    <3>2. Affordable(from, cost)
      BY <1>3, <3>1
    <3>3. balance[from] \in Int
      BY <1>4 DEF Types
    <3> QED BY <1>2, <3>1, <3>2, <3>3 DEF Affordable, Within
  <2> QED BY <1>6, <2>1, <2>2
<1>11. Fits(cost, changes)
  BY <1>2, <1>6, <1>8, <1>9, <1>10 DEF Fits
<1> QED BY <1>3, <1>11, DealStep

LEMMA SendTextStep ==
  ASSUME IInv, NEW t \in Threads, NEW from \in Nodes,
         NEW relays \in RelaysFrom(from), NEW n \in ConfirmNs, NEW emitting \in BOOLEAN,
         NEW multiplier \in Multipliers,
         SendText(t, from, relays, n, emitting, multiplier)
  PROVE  IInv'
<1> DEFINE amount == IF emitting THEN n * EmissionRate ELSE 0
           emitted == IF emitting THEN <<Change(from, amount)>> ELSE << >>
           changes == emitted \o Rewards(relays, 1, multiplier)
           work == Len(relays) * Reward(1, multiplier)
<1>1. relays \in Seq(Nodes) /\ Len(relays) <= 2 /\ multiplier \in Nat
  BY RelaysOf, AmountsAssumption
<1>2. amount \in Nat /\ work \in Nat
  <2>1. Len(relays) \in Nat /\ Reward(1, multiplier) \in Nat
    BY <1>1, RewardIsNat
  <2>2. \A x, y \in Nat : x * y \in Nat
    OBVIOUS
  <2>3. n \in Nat /\ EmissionRate \in Nat
    BY AmountsAssumption, RatesAssumption
  <2> QED BY <2>1, <2>2, <2>3
<1>3. /\ Deal(t, 0, changes)
      /\ emission' = emission + amount
      /\ earned' = [earned EXCEPT !.text = earned.text + work]
      /\ relay' = relay /\ burn' = burn
  BY DEF SendText
<1>4. Types
  BY DEF IInv
<1>5. /\ emitted \in Seq(Changes) /\ Len(emitted) <= 1
      /\ Part(emitted, 1) = amount
      /\ emitted # << >> => emitted[1].amount >= 0
  <2>1. CASE emitting
    <3>1. emitted = <<Change(from, amount)>> /\ Change(from, amount) \in Changes
      BY <1>2, <2>1 DEF Change, Changes
    <3> HIDE DEF emitted, amount
    <3>2. emitted \in Seq(Changes) /\ Len(emitted) = 1 /\ emitted[1] = Change(from, amount)
      BY <3>1
    <3> QED BY <1>2, <2>1, <3>2 DEF Part, Change
  <2>2. CASE ~ emitting
    <3>1. emitted = << >> /\ amount = 0
      BY <1>2, <2>2
    <3>2. << >> \in Seq(Changes) /\ Len(<< >>) = 0 /\ Part(<< >>, 1) = 0
      BY DEF Part
    <3> HIDE DEF emitted, amount
    <3> QED BY <3>1, <3>2
  <2> QED BY <2>1, <2>2
<1> HIDE DEF emitted, amount
<1>6. /\ changes \in Seq(Changes) /\ Len(changes) <= 3
      /\ \A i \in 2..Len(changes) : changes[i].amount >= 0
      /\ Sum(changes) = amount + work
      /\ changes # << >> => changes[1].amount >= 0
  <2>1. /\ changes \in Seq(Changes) /\ Len(changes) <= 3
        /\ \A i \in 2..Len(changes) : changes[i].amount >= 0
        /\ Sum(changes) = Part(emitted, 1) + Len(relays) * Reward(1, multiplier)
        /\ changes # << >> => changes[1].amount >= 0
                              \/ (emitted # << >> /\ changes[1] = emitted[1])
    BY <1>1, <1>5, RewardsPaid
  <2>2. Sum(changes) = amount + work
    BY <1>5, <2>1 DEF work
  <2> HIDE DEF changes
  <2> QED BY <1>5, <2>1, <2>2
<1> HIDE DEF changes, work
<1>7. /\ emission \in Nat /\ relay \in Nat /\ burn \in Nat
      /\ earned \in [file : Nat, text : Nat] /\ earned.file \in Nat /\ earned.text \in Nat
  BY <1>4 DEF Types
<1>8. /\ emission' \in Nat /\ relay' \in Nat /\ burn' \in Nat
      /\ earned' \in [file : Nat, text : Nat]
      /\ earned'.file = earned.file /\ earned'.text = earned.text + work
  BY <1>2, <1>3, <1>7
<1>9. Counted' = Counted + Sum(changes)
  <2>1. Counted' = (emission + amount) + earned.file + (earned.text + work) - (relay + burn)
    BY <1>3, <1>8 DEF Counted
  <2> QED BY <1>2, <1>6, <1>7, <2>1 DEF Counted
<1>10. changes # << >> => /\ - changes[1].amount <= 0
                          /\ Within(changes[1].node, changes[1].amount)
  <2>1. ASSUME changes # << >>
        PROVE  - changes[1].amount <= 0 /\ Within(changes[1].node, changes[1].amount)
    <3>1. changes[1] \in Changes
      BY <1>6, <2>1
    <3>2. changes[1].amount \in Int
      BY <3>1 DEF Changes
    <3> QED BY <1>6, <2>1, <3>2 DEF Within
  <2> QED BY <2>1
<1>11. Fits(0, changes)
  BY <1>6, <1>8, <1>9, <1>10 DEF Fits
<1> QED BY <1>3, <1>11, DealStep

LEMMA TransferStep ==
  ASSUME IInv, "ticker" \in Threads, NEW from \in Nodes, NEW to \in Nodes,
         NEW share \in Shares, Transfer(from, to, share)
  PROVE  IInv'
<1> DEFINE amount == (balance[from] * share) \div 100
           changes == Transferred(from, to, amount)
<1>1. Types
  BY DEF IInv
<1>2. balance[from] \in Nat
  BY <1>1 DEF Transfer, Types
<1>3. amount \in 0..balance[from]
  BY <1>2, AmountsAssumption, Hundredths
<1>4. Deal("ticker", amount, changes) /\ UNCHANGED totals
  BY DEF Transfer
<1> HIDE DEF amount
<1>5. /\ changes \in Seq(Changes) /\ Len(changes) = 2
      /\ changes[1] = Change(from, - amount) /\ changes[2] = Change(to, amount)
  <2>1. Change(from, - amount) \in Changes /\ Change(to, amount) \in Changes
    BY <1>2, <1>3 DEF Change, Changes
  <2> QED BY <2>1 DEF Transferred
<1> HIDE DEF changes
<1>6. /\ changes[1].node = from /\ changes[1].amount = - amount
      /\ changes[2].amount = amount
  BY <1>5 DEF Change
<1>7. Sum(changes) = 0
  BY <1>2, <1>3, <1>5, <1>6 DEF Sum, Part
<1>8. Counted' = Counted + Sum(changes)
  <2>1. Counted' = Counted
    BY <1>4 DEF totals, Counted
  <2>2. Counted \in Int
    BY <1>1 DEF Types, Counted
  <2> QED BY <1>7, <2>1, <2>2
<1>9. /\ emission' \in Nat /\ relay' \in Nat /\ burn' \in Nat
      /\ earned' \in [file : Nat, text : Nat]
  BY <1>1, <1>4 DEF totals, Types
<1>10. - changes[1].amount <= amount /\ Within(changes[1].node, changes[1].amount)
  BY <1>2, <1>3, <1>6 DEF Within
<1>11. Fits(amount, changes)
  <2>1. amount \in Nat
    BY <1>2, <1>3
  <2>2. \A i \in 2..Len(changes) : changes[i].amount >= 0
    BY <1>5, <1>6, <2>1
  <2> QED BY <1>5, <1>8, <1>9, <1>10, <2>1, <2>2 DEF Fits
<1> QED BY <1>4, <1>11, DealStep

(***************************************************************************)
(* Changing a balance, and the other steps.                                *)
(***************************************************************************)
LEMMA ReadStep ==
  ASSUME IInv, NEW t \in Threads, Read(t)
  PROVE  IInv'
<1>1. /\ ~ Idle(t) /\ loaded[t] = Unread
      /\ loaded' = [loaded EXCEPT ![t] = <<balance[todo[t][1].node]>>]
      /\ balance' = balance /\ limit' = limit /\ todo' = todo
      /\ emission' = emission /\ relay' = relay /\ burn' = burn /\ earned' = earned
      /\ deals' = deals /\ overlapped' = overlapped /\ lost' = lost
      /\ dearest' = dearest
  <2>1. Head(todo[t]) = todo[t][1]
    OBVIOUS
  <2> QED BY <2>1 DEF Read, totals
<1>2. Types /\ Work /\ Account /\ Debt /\ Alone
  BY DEF IInv
<1>3. balance[todo[t][1].node] \in Int
  BY <1>1, <1>2, Busy DEF Types
<1>4. /\ loaded' \in [Threads -> Seq(Int)]
      /\ loaded'[t] = <<balance[todo[t][1].node]>>
      /\ \A u \in Threads \ {t} : loaded'[u] = loaded[u]
  BY <1>1, <1>2, <1>3 DEF Types
<1>5. \A u : Idle(u)' = Idle(u)
  BY <1>1 DEF Idle
<1>6. Types'
  BY <1>1, <1>2, <1>4 DEF Types
<1>7. Work'
  BY <1>1, <1>2, <1>4, <1>5 DEF Work
<1>8. Account'
  BY <1>1, <1>2 DEF Account, Pending, Counted
<1>9. Debt'
  BY <1>1, <1>2, <1>5 DEF Debt, Owed, Floor
<1>10. Alone'
  BY <1>1, <1>2, <1>4, <1>5 DEF Alone, Within
<1> QED BY <1>6, <1>7, <1>8, <1>9, <1>10 DEF IInv

LEMMA UpdateReputationStep ==
  ASSUME IInv, NEW n \in Nodes, NEW l \in Limits, UpdateReputation(n, l)
  PROVE  IInv'
<1>1. /\ limit' = [limit EXCEPT ![n] = l]
      /\ overlapped' = (overlapped \/ \E u \in Threads : ~ Idle(u))
      /\ balance' = balance /\ todo' = todo /\ loaded' = loaded
      /\ emission' = emission /\ relay' = relay /\ burn' = burn /\ earned' = earned
      /\ deals' = deals /\ lost' = lost /\ dearest' = dearest
  BY DEF UpdateReputation, Meet, totals
<1>2. Types /\ Work /\ Account /\ Debt /\ Alone
  BY DEF IInv
<1>3. \A u : Idle(u)' = Idle(u)
  BY <1>1 DEF Idle
<1>4. Types'
  <2>1. overlapped' \in BOOLEAN
    BY <1>1, <1>2 DEF Types
  <2> QED BY <1>1, <1>2, <2>1 DEF Types
<1>5. Work'
  BY <1>1, <1>2, <1>3 DEF Work
<1>6. Account'
  BY <1>1, <1>2 DEF Account, Pending, Counted
<1>7. Debt'
  BY <1>1, <1>2, <1>3 DEF Debt, Owed, Floor
<1>8. Alone'
  BY <1>1, <1>3 DEF Alone
<1> QED BY <1>4, <1>5, <1>6, <1>7, <1>8 DEF IInv

\* What is left of the changes of a thread when the first is made.
LEMMA RestOfWork ==
  ASSUME NEW c \in Seq(Changes), Len(c) <= 3, c # << >>,
         \A i \in 2..Len(c) : c[i].amount >= 0
  PROVE  /\ Tail(c) \in Seq(Changes) /\ Len(Tail(c)) <= 3
         /\ \A i \in 1..Len(Tail(c)) : Tail(c)[i].amount \in Nat
         /\ c[1].amount \in Int /\ Sum(c) \in Int /\ Sum(Tail(c)) = Sum(c) - c[1].amount
<1> DEFINE r == Tail(c)
           l == Len(c)
<1>1. l \in 1..3 /\ \A i \in 1..l : c[i] \in Changes
  <2>1. l \in Nat /\ l # 0 /\ l <= 3
    OBVIOUS
  <2>2. \A i \in 1..l : c[i] \in Changes
    OBVIOUS
  <2> HIDE DEF l
  <2> QED BY <2>1, <2>2
<1>2. /\ r \in Seq(Changes) /\ Len(r) = l - 1
      /\ \A i \in 1..(l - 1) : r[i] = c[i + 1]
  OBVIOUS
<1>3. DOMAIN c = 1..l /\ DOMAIN r = 1..(l - 1)
  BY <1>2
<1> HIDE DEF r, l
<1>4. \A i \in 1..l : c[i].amount \in Int
  BY <1>1 DEF Changes
<1>5. \A i \in 1..Len(r) : r[i].amount \in Nat
  <2>1. \A i \in 1..(l - 1) : i + 1 \in 2..l /\ i + 1 \in 1..l
    BY <1>1
  <2>2. \A i \in 2..l : c[i].amount >= 0
    BY DEF l
  <2>3. \A i \in 1..(l - 1) : c[i + 1].amount \in Int /\ c[i + 1].amount >= 0
    BY <1>4, <2>1, <2>2
  <2> QED BY <1>2, <2>3
<1>6. \A i \in 1..3 : Part(c, i) \in Int
  BY <1>3, <1>4 DEF Part
<1>7. Part(r, 1) = Part(c, 2) /\ Part(r, 2) = Part(c, 3) /\ Part(r, 3) = 0
  <2>1. \A i \in 1..2 : Part(r, i) = Part(c, i + 1)
    <3>1. \A i \in 1..2 : i \in 1..(l - 1) <=> i + 1 \in 1..l
      BY <1>1
    <3> QED BY <1>2, <1>3, <3>1 DEF Part
  <2>2. 3 \notin 1..(l - 1)
    BY <1>1
  <2> QED BY <1>3, <2>1, <2>2 DEF Part
<1>8. Part(c, 1) = c[1].amount
  BY <1>1, <1>3 DEF Part
<1>9. Sum(r) = Sum(c) - c[1].amount /\ Sum(c) \in Int /\ c[1].amount \in Int
  BY <1>6, <1>7, <1>8 DEF Sum
<1> QED BY <1>1, <1>2, <1>5, <1>9 DEF r

LEMMA WriteStep ==
  ASSUME IInv, NEW t \in Threads, Write(t)
  PROVE  IInv'
<1> DEFINE m == todo[t][1].node
           a == todo[t][1].amount
<1>1. /\ ~ Idle(t) /\ loaded[t] # Unread
      /\ balance' = [balance EXCEPT ![m] = loaded[t][1] + a]
      /\ lost' = (lost \/ loaded[t][1] # balance[m])
      /\ todo' = [todo EXCEPT ![t] = Tail(todo[t])]
      /\ loaded' = [loaded EXCEPT ![t] = Unread]
      /\ limit' = limit
      /\ emission' = emission /\ relay' = relay /\ burn' = burn /\ earned' = earned
      /\ deals' = deals /\ overlapped' = overlapped /\ dearest' = dearest
  <2>1. Head(todo[t]) = todo[t][1]
    OBVIOUS
  <2> QED BY <2>1 DEF Write, totals
<1>2. Types /\ Work /\ Account /\ Debt /\ Alone
  BY DEF IInv
<1>3. m \in Nodes /\ a \in Int /\ todo[t] \in Seq(Changes) /\ todo[t] # << >>
  BY <1>1, <1>2, Busy DEF Idle
<1>4. loaded[t][1] \in Int
  <2>1. loaded[t] \in Seq(Int) /\ Len(loaded[t]) = 1
    BY <1>1, <1>2 DEF Types, Work, Unread
  <2> QED BY <2>1
<1>5. /\ Tail(todo[t]) \in Seq(Changes) /\ Len(Tail(todo[t])) <= 3
      /\ \A i \in 1..Len(Tail(todo[t])) : Tail(todo[t])[i].amount \in Nat
      /\ Sum(todo[t]) \in Int /\ Sum(Tail(todo[t])) = Sum(todo[t]) - a
  BY <1>2, <1>3, RestOfWork DEF Work
<1> HIDE DEF m, a
<1>6. /\ todo' \in [Threads -> Seq(Changes)] /\ todo'[t] = Tail(todo[t])
      /\ \A u \in Threads \ {t} : todo'[u] = todo[u]
      /\ loaded' \in [Threads -> Seq(Int)] /\ loaded'[t] = Unread
      /\ \A u \in Threads \ {t} : loaded'[u] = loaded[u]
  BY <1>1, <1>2, <1>5 DEF Types, Unread
<1>7. /\ balance' \in [Nodes -> Int] /\ balance'[m] = loaded[t][1] + a
      /\ \A n \in Nodes \ {m} : balance'[n] = balance[n]
  BY <1>1, <1>2, <1>3, <1>4 DEF Types
<1>8. \A u \in Threads \ {t} : Idle(u)' <=> Idle(u)
  BY <1>6 DEF Idle
<1>9. ~ lost' => ~ lost /\ balance'[m] = balance[m] + a
                 /\ balance' = [balance EXCEPT ![m] = balance[m] + a]
  BY <1>1, <1>7
<1>10. Types'
  <2>1. lost' \in BOOLEAN
    BY <1>1, <1>2 DEF Types
  <2> QED BY <1>1, <1>2, <1>6, <1>7, <2>1 DEF Types
<1>11. Work'
  <2>1. \A i \in 2..Len(todo'[t]) : i \in 1..Len(todo'[t])
    BY <1>5, <1>6
  <2>2. Len(todo'[t]) <= 3 /\ \A i \in 2..Len(todo'[t]) : todo'[t][i].amount >= 0
    BY <1>5, <1>6, <2>1
  <2>3. Len(loaded'[t]) = 0
    BY <1>6 DEF Unread
  <2>4. ASSUME NEW u \in Threads, u # t
        PROVE  todo'[u] = todo[u] /\ loaded'[u] = loaded[u] /\ (Idle(u)' <=> Idle(u))
    BY <1>6, <1>8, <2>4
  <2>5. loaded'[t] = Unread
    BY <1>6
  <2> QED BY <1>2, <2>2, <2>3, <2>4, <2>5 DEF Work
<1>12. Account'
  <2> SUFFICES ASSUME ~ lost'
               PROVE  Total(balance)' + Pending("ticker")' + Pending("handler")' = Counted'
    BY DEF Account
  <2>1. Total(balance) \in Int /\ Total(balance)' = Total(balance) + a
    <3>1. balance \in [Nodes -> Int] /\ m \in Nodes /\ a \in Int
      BY <1>2, <1>3 DEF Types
    <3>2. PICK e : e = balance'
      OBVIOUS
    <3>3. e = [balance EXCEPT ![m] = balance[m] + a]
      BY <1>9, <3>2
    <3>4. Total(e) = Total(balance) + a /\ Total(balance) \in Int
      BY <3>1, <3>3, TotalChanges
    <3> QED BY <3>2, <3>4
  <2>2. Pending(t) \in Int /\ Pending(t)' = Pending(t) - a
    BY <1>5, <1>6 DEF Pending
  <2>3. \A u : u # t => Pending(u)' = Pending(u)
    BY <1>6 DEF Pending
  <2>4. Pending("ticker") \in Int /\ Pending("handler") \in Int
    BY <1>2, Busy DEF Pending
  <2>5. Pending("ticker")' + Pending("handler")' = Pending("ticker") + Pending("handler") - a
    <3>1. CASE t = "ticker"
      <4>1. Pending("handler")' = Pending("handler")
        BY <2>3, <3>1
      <4> QED BY <1>3, <2>2, <2>4, <3>1, <4>1
    <3>2. CASE t = "handler"
      <4>1. Pending("ticker")' = Pending("ticker")
        BY <2>3, <3>2
      <4> QED BY <1>3, <2>2, <2>4, <3>2, <4>1
    <3> QED BY <3>1, <3>2, ThreadsAssumption
  <2>6. Pending("ticker")' \in Int /\ Pending("handler")' \in Int
    BY <1>3, <2>2, <2>3, <2>4, ThreadsAssumption
  <2>7. Total(balance) + Pending("ticker") + Pending("handler") = Counted
    BY <1>2, <1>9 DEF Account
  <2>8. Counted' = Counted
    BY <1>1 DEF Counted
  <2>9. \A x, p, q, p2, q2, d \in Int :
          p2 + q2 = p + q - d => (x + d) + p2 + q2 = x + p + q
    OBVIOUS
  <2> QED BY <1>3, <2>1, <2>4, <2>5, <2>6, <2>7, <2>8, <2>9
<1>13. /\ \A n \in Nodes : Owed(t, n)' = 0
       /\ \A u \in Threads \ {t}, n \in Nodes : Owed(u, n)' = Owed(u, n)
  <2>1. \A n \in Nodes : Owed(t, n)' = 0
    <3>1. ~ Idle(t)' => 1 \in 1..Len(Tail(todo[t]))
      BY <1>5, <1>6 DEF Idle
    <3>2. ~ Idle(t)' => todo'[t][1].amount \in Nat
      BY <1>5, <1>6, <3>1
    <3> QED BY <3>2 DEF Owed
  <2> QED BY <1>6, <1>8, <2>1 DEF Owed
<1>14. Debt'
  <2>1. \A u \in Threads, n \in Nodes : Owed(u, n) \in Nat /\ Owed(u, n) <= dearest
    BY <1>2, Busy DEF Debt
  <2>2. \A u \in Threads, n \in Nodes : Owed(u, n)' <= dearest'
    <3>1. dearest' = dearest /\ dearest >= 0
      BY <1>1, <1>2 DEF Types
    <3>2. \A n \in Nodes : Owed(t, n)' <= dearest'
      BY <1>13, <3>1
    <3>3. \A u \in Threads \ {t}, n \in Nodes : Owed(u, n)' <= dearest'
      BY <1>13, <2>1, <3>1
    <3> QED BY <3>2, <3>3
  <2>3. ASSUME ~ lost', NEW n \in Nodes
        PROVE  /\ balance'[n] >= Floor'
               /\ \A u \in Threads : balance'[n] - Owed(u, n)' >= Floor'
               /\ \A u, v \in Threads :
                    u # v => balance'[n] - Owed(u, n)' - Owed(v, n)' >= Floor'
    <3>1. Floor' = Floor /\ Floor \in Int
      BY <1>1, <1>2, MaxLimit DEF Floor, Types
    <3>2. balance[n] \in Int /\ balance'[n] \in Int
      BY <1>2, <1>7 DEF Types
    <3>3. balance'[n] >= balance[n] - Owed(t, n)
      <4>1. CASE n # m
        BY <1>7, <2>1, <3>2, <4>1
      <4>2. CASE n = m
        <5>1. balance'[n] = balance[n] + a
          BY <1>9, <2>3, <4>2
        <5>2. Owed(t, n) = IF a < 0 THEN - a ELSE 0
          BY <1>1, <4>2 DEF Owed, a, m
        <5> QED BY <1>3, <3>2, <5>1, <5>2
      <4> QED BY <4>1, <4>2
    <3>4. /\ \A u \in Threads : balance[n] - Owed(u, n) >= Floor
          /\ \A u, v \in Threads :
               u # v => balance[n] - Owed(u, n) - Owed(v, n) >= Floor
      BY <1>2, <1>9, <2>3 DEF Debt
    <3>5. balance'[n] >= Floor
      BY <2>1, <3>1, <3>2, <3>3, <3>4
    <3>6. \A u \in Threads \ {t} : balance'[n] - Owed(u, n) >= Floor
      <4>1. ASSUME NEW u \in Threads \ {t}
            PROVE  balance'[n] - Owed(u, n) >= Floor
        <5>1. balance[n] - Owed(t, n) - Owed(u, n) >= Floor
          BY <3>4
        <5> QED BY <2>1, <3>1, <3>2, <3>3, <5>1
      <4> QED BY <4>1
    <3>7. \A u \in Threads : balance'[n] - Owed(u, n)' >= Floor
      BY <1>13, <3>2, <3>5, <3>6
    <3>8. \A u, v \in Threads :
            u # v => balance'[n] - Owed(u, n)' - Owed(v, n)' >= Floor
      <4>1. ASSUME NEW u \in Threads, NEW v \in Threads, u # v
            PROVE  balance'[n] - Owed(u, n)' - Owed(v, n)' >= Floor
        <5>1. CASE u = t
          BY <1>13, <2>1, <3>2, <3>6, <4>1, <5>1
        <5>2. CASE v = t
          BY <1>13, <2>1, <3>2, <3>6, <4>1, <5>2
        <5> QED BY <4>1, <5>1, <5>2, ThreadsAssumption
      <4> QED BY <4>1
    <3> QED BY <3>1, <3>5, <3>7, <3>8
  <2> QED BY <2>2, <2>3 DEF Debt
<1>15. Alone'
  <2> SUFFICES ASSUME ~ overlapped'
               PROVE  /\ \A u, v \in Threads : u # v => Idle(u)' \/ Idle(v)'
                      /\ \A u \in Threads : ~ Idle(u)' =>
                           /\ loaded'[u] # Unread =>
                                loaded'[u][1] = balance'[todo'[u][1].node]
                           /\ Within(todo[u][1].node, todo[u][1].amount)'
    BY DEF Alone
  <2>1. \A u, v \in Threads : u # v => Idle(u) \/ Idle(v)
    BY <1>1, <1>2 DEF Alone
  <2>2. \A u \in Threads \ {t} : Idle(u)'
    BY <1>1, <1>8, <2>1
  <2>3. ~ Idle(t)' => Within(todo[t][1].node, todo[t][1].amount)'
    <3>1. ~ Idle(t)' => 1 \in 1..Len(Tail(todo[t]))
      BY <1>5, <1>6 DEF Idle
    <3>2. ~ Idle(t)' => todo'[t][1].amount \in Nat
      BY <1>5, <1>6, <3>1
    <3> QED BY <3>2 DEF Within
  <2> QED BY <1>6, <2>2, <2>3
<1> QED BY <1>10, <1>11, <1>12, <1>14, <1>15 DEF IInv

LEMMA StepInv == IInv /\ [Next]_vars => IInv'
<1> SUFFICES ASSUME IInv, [Next]_vars PROVE IInv'
  OBVIOUS
<1>1. CASE UNCHANGED vars
  <2>1. /\ balance' = balance /\ limit' = limit /\ todo' = todo /\ loaded' = loaded
        /\ emission' = emission /\ relay' = relay /\ burn' = burn /\ earned' = earned
        /\ deals' = deals /\ overlapped' = overlapped /\ lost' = lost
        /\ dearest' = dearest
    BY <1>1 DEF vars, totals
  <2> QED BY <2>1 DEF IInv, Types, Work, Account, Debt, Alone, Within, Owed, Floor,
                      Pending, Counted, Idle
<1>2. CASE Traffic
  <2>1. "ticker" \in Threads
    BY <1>2 DEF Traffic
  <2>2. ASSUME NEW from \in Nodes, NEW relays \in RelaysFrom(from), NEW k \in Multipliers,
               NEW chunks \in Files, SendFile("ticker", from, relays, chunks, k)
        PROVE  IInv'
    BY <2>1, <2>2, SendFileStep
  <2>3. ASSUME NEW from \in Nodes, NEW relays \in RelaysFrom(from), NEW k \in Multipliers,
               NEW n \in ConfirmNs, NEW emitting \in BOOLEAN,
               SendText("ticker", from, relays, n, emitting, k)
        PROVE  IInv'
    BY <2>1, <2>3, SendTextStep
  <2>4. ASSUME NEW from \in Nodes, NEW to \in Nodes, NEW share \in Shares,
               Transfer(from, to, share)
        PROVE  IInv'
    BY <2>1, <2>4, TransferStep
  <2> QED BY <1>2, <2>2, <2>3, <2>4 DEF Traffic
<1>3. CASE LoadTest
  <2>1. ASSUME NEW from \in Nodes, NEW relays \in RelaysFrom(from), NEW k \in Multipliers,
               NEW chunks \in Files, SendFile("handler", from, relays, chunks, k)
        PROVE  IInv'
    BY <1>3, <2>1, SendFileStep DEF LoadTest
  <2>2. ASSUME NEW from \in Nodes, NEW relays \in RelaysFrom(from), NEW k \in Multipliers,
               NEW n \in ConfirmNs, NEW emitting \in BOOLEAN,
               SendText("handler", from, relays, n, emitting, k)
        PROVE  IInv'
    BY <1>3, <2>2, SendTextStep DEF LoadTest
  <2> QED BY <1>3, <2>1, <2>2 DEF LoadTest
<1>4. ASSUME NEW t \in Threads, Read(t) \/ Write(t)
      PROVE  IInv'
  BY <1>4, ReadStep, WriteStep
<1>5. ASSUME NEW n \in Nodes, NEW l \in Limits, UpdateReputation(n, l)
      PROVE  IInv'
  BY <1>5, UpdateReputationStep
<1> QED BY <1>1, <1>2, <1>3, <1>4, <1>5 DEF Next

LEMMA Invariance == Spec => []IInv
BY InitInv, StepInv, PTL DEF Spec

(***************************************************************************)
(* What the invariant says of the money.                                   *)
(***************************************************************************)
\* For any nodes, rates and interleaving of two threads: as long as no change has
\* been overwritten, the counters explain the balances.
THEOREM NothingLostOrMade == Spec => []CountersExplainBalances
<1>1. ASSUME IInv
      PROVE  CountersExplainBalances
  <2>1. Types /\ Work /\ Account
    BY <1>1 DEF IInv
  <2>2. TypeOK
    <3>1. ASSUME NEW t \in Threads, NEW c \in ToSet(todo[t])
          PROVE  c.node \in Nodes /\ c.amount \in Int
      <4>1. PICK i \in 1..Len(todo[t]) : c = todo[t][i]
        BY <2>1, <3>1 DEF Types, ToSet
      <4> QED BY <2>1, <4>1, Busy
    <3>2. ASSUME NEW t \in Threads
          PROVE  loaded[t] = Unread \/ loaded[t][1] \in Int
      <4>1. loaded[t] \in Seq(Int) /\ (Len(loaded[t]) = 0 \/ Len(loaded[t]) = 1)
        BY <2>1 DEF Types, Work
      <4> QED BY <4>1 DEF Unread
    <3> QED BY <2>1, <3>1, <3>2 DEF Types, TypeOK
  <2>3. ASSUME ~ lost, \A t \in Threads : Idle(t)
        PROVE  TotalBalance = emission + earned.file + earned.text - (relay + burn)
    <3>1. \A t : Pending(t) = 0
      <4>1. Sum(<< >>) = 0
        BY DEF Sum, Part
      <4> QED BY <2>3, <4>1 DEF Pending, Idle
    <3>2. Total(balance) + 0 + 0 = Counted
      BY <2>1, <2>3, <3>1 DEF Account
    <3>3. Total(balance) \in Int
      BY <2>1, TotalIsInt DEF Types
    <3>4. TotalBalance = Total(balance)
      BY DEF TotalBalance, Total
    <3> QED BY <3>2, <3>3, <3>4 DEF Counted
  <2> QED BY <2>2, <2>3 DEF CountersExplainBalances
<1> QED BY <1>1, Invariance, PTL

\* For any limits and amounts: two threads overdraw a node by no more than one
\* message or transfer takes.
THEOREM OverdrawnByOne == Spec => []OverdraftBounded
<1>1. IInv => OverdraftBounded
  BY DEF IInv, Debt, Floor, OverdraftBounded
<1> QED BY <1>1, Invariance, PTL

\* For any limits and amounts, and however reputation changes: a thread that has
\* the balances to itself never spends more than the limit allows.
THEOREM NeverBeyondLimit == Spec => SpendingWithinLimit
<1> DEFINE Kept == ~ overlapped =>
                     \A n \in Nodes : balance'[n] < balance[n] =>
                       balance'[n] >= 0 \/ balance'[n] >= - limit[n]
<1>1. ASSUME IInv, [Next]_vars
      PROVE  [Kept]_vars
  <2>1. Types /\ Work /\ Alone
    BY <1>1 DEF IInv
  <2>2. CASE balance' = balance
    <3>1. \A n \in Nodes : balance[n] \in Int
      BY <2>1 DEF Types
    <3> QED BY <2>2, <3>1
  <2>3. ASSUME NEW t \in Threads, Write(t)
        PROVE  Kept
    <3>1. SUFFICES ASSUME ~ overlapped, NEW n \in Nodes, balance'[n] < balance[n]
                   PROVE  balance'[n] >= 0 \/ balance'[n] >= - limit[n]
      OBVIOUS
    <3> DEFINE m == todo[t][1].node
               a == todo[t][1].amount
    <3>2. /\ ~ Idle(t) /\ loaded[t] # Unread
          /\ balance' = [balance EXCEPT ![m] = loaded[t][1] + a]
      <4>1. Head(todo[t]) = todo[t][1]
        OBVIOUS
      <4> QED BY <2>3, <4>1 DEF Write
    <3>3. m \in Nodes /\ a \in Int
      BY <2>1, <3>2, Busy
    <3>4. loaded[t][1] = balance[m] /\ Within(m, a)
      BY <2>1, <3>1, <3>2 DEF Alone
    <3> HIDE DEF m, a
    <3>5. balance[n] \in Int /\ balance[m] \in Int /\ balance \in [Nodes -> Int]
      BY <2>1, <3>3 DEF Types
    <3>6. n = m /\ balance'[n] = balance[n] + a
      BY <3>1, <3>2, <3>3, <3>4, <3>5
    <3> QED BY <3>1, <3>3, <3>4, <3>5, <3>6 DEF Within
  <2>4. \/ UNCHANGED vars \/ balance' = balance
        \/ \E t \in Threads : Write(t)
    <3>1. CASE Traffic
      <4>1. \A t, amount, changes : Deal(t, amount, changes) => balance' = balance
        BY DEF Deal
      <4>2. \A t, from, relays, chunks, k :
              SendFile(t, from, relays, chunks, k) => balance' = balance
        BY <4>1 DEF SendFile
      <4>3. \A t, from, relays, n, emitting, k :
              SendText(t, from, relays, n, emitting, k) => balance' = balance
        BY <4>1 DEF SendText
      <4>4. \A from, to, share : Transfer(from, to, share) => balance' = balance
        BY <4>1 DEF Transfer
      <4> QED BY <3>1, <4>2, <4>3, <4>4 DEF Traffic
    <3>2. CASE LoadTest
      BY <3>2 DEF LoadTest, SendFile, SendText, Deal
    <3>3. ASSUME NEW t \in Threads, Read(t)
          PROVE  balance' = balance
      BY <3>3 DEF Read
    <3>4. ASSUME NEW n \in Nodes, NEW l \in Limits, UpdateReputation(n, l)
          PROVE  balance' = balance
      BY <3>4 DEF UpdateReputation
    <3> QED BY <1>1, <3>1, <3>2, <3>3, <3>4 DEF Next
  <2> HIDE DEF Kept
  <2> QED BY <2>2, <2>3, <2>4
<1> QED BY <1>1, Invariance, PTL DEF Spec, SpendingWithinLimit
=============================================================================
