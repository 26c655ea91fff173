------------------------------ MODULE SimLedger ------------------------------
(***************************************************************************)
(* The money of the simulation: what sendMsg charges and emits, what       *)
(* AddRelayWork pays, and the transfers of RunSteps.  Amounts are in       *)
(* hundredths of a credit.                                                 *)
(*                                                                         *)
(* Node.Balance is an unprotected float.  The ticker's goroutine changes   *)
(* it in RunSteps, which takes no lock, a handler's goroutine in LoadTest, *)
(* which holds w.mu: so the affordability check, the read and the write of *)
(* a change are steps of their own.  The counters are atomic and decide    *)
(* nothing; they are changed with the check.                               *)
(***************************************************************************)
EXTENDS Integers, Sequences, FiniteSetsExt, SequencesExt

CONSTANTS Nodes,
          Threads,      \* a subset of {"ticker", "handler"}
          Limits,       \* the credit limits reputation can give
          Files,        \* chunks of the messages too long for confirm-N
          ConfirmNs,    \* values of confirm-N of the others
          Multipliers,  \* relay multipliers of the channels, in percent
          Shares,       \* the part of a balance that is transferred, in percent
          SendCost, RelayReward, EmissionRate,
          BurnRate,     \* in percent
          MaxRelays,    \* bound: relays of a message, at most two
          MaxDeals      \* bound: messages and transfers

ASSUME NodesAssumption == IsFiniteSet(Nodes)
ASSUME ThreadsAssumption == Threads \subseteq {"ticker", "handler"}
ASSUME AmountsAssumption == /\ Limits \subseteq Nat /\ Limits # {}
                            /\ IsFiniteSet(Limits)
                            /\ Files \subseteq Nat \ {0}
                            /\ ConfirmNs \subseteq Nat \ {0, 1}
                            /\ Multipliers \subseteq Nat /\ Shares \subseteq 1..100
ASSUME RatesAssumption == /\ SendCost \in Nat /\ RelayReward \in Nat
                          /\ EmissionRate \in Nat /\ BurnRate \in 0..100
ASSUME BoundsAssumption == MaxRelays \in 0..2 /\ MaxDeals \in Nat

VARIABLES balance,      \* Node.Balance; LockedOut is 0, nothing ever sets it
          limit,        \* CreditLimit(), which follows Node.Reputation
          todo,         \* the changes of balances each thread is about to make
          loaded,       \* the balance a thread has read for the next of them
          emission,     \* w.TotalEmission
          relay,        \* w.TotalRELAY
          burn,         \* w.TotalBurn
          earned,       \* history: what relays were given, for files and for texts
          deals,        \* messages and transfers so far
          overlapped,   \* history: two threads have been busy at one time
          lost,         \* history: a change has been overwritten by another
          dearest       \* history: the most a message or transfer has taken

totals == <<emission, relay, burn, earned>>
vars == <<balance, limit, todo, loaded, totals, deals, overlapped, lost, dearest>>

Unread == << >>

Idle(t) == todo[t] = << >>

Init == /\ balance = [n \in Nodes |-> 0]
        /\ limit \in [Nodes -> Limits]
        /\ todo = [t \in Threads |-> << >>]
        /\ loaded = [t \in Threads |-> Unread]
        /\ emission = 0 /\ relay = 0 /\ burn = 0
        /\ earned = [file |-> 0, text |-> 0]
        /\ deals = 0 /\ overlapped = FALSE /\ lost = FALSE /\ dearest = 0

-----------------------------------------------------------------------------
Change(n, amount) == [node |-> n, amount |-> amount]

Cost(relays, chunks) == Len(relays) * chunks * SendCost

Burn(amount) == (amount * BurnRate) \div 100

\* AddRelayWork: the reward of one relay, net of its burn.
Reward(chunks, multiplier) ==
  LET reward == (chunks * RelayReward * multiplier) \div 100
  IN  reward - Burn(reward)

Rewards(relays, chunks, multiplier) ==
  [i \in DOMAIN relays |-> Change(relays[i], Reward(chunks, multiplier))]

\* Mutant of Affordable: the debt before the message is looked at.
AffordableBefore(n, cost) == balance[n] >= cost \/ balance[n] >= - limit[n]

Affordable(n, cost) == balance[n] >= cost \/ balance[n] - cost >= - limit[n]

Meet == overlapped' = (overlapped \/ \E t \in Threads : ~ Idle(t))

\* A thread takes up something new, with the changes it entails, the one that
\* takes an amount from a balance first.
Deal(t, amount, changes) == /\ Idle(t) /\ deals < MaxDeals
                            /\ deals' = deals + 1
                            /\ todo' = [todo EXCEPT ![t] = changes]
                            /\ dearest' = Max({dearest, amount})
                            /\ Meet
                            /\ UNCHANGED <<balance, limit, loaded, lost>>

\* sendMsg of a file, over relays that are all paid alike.  Without relays it
\* costs nothing.
SendFile(t, from, relays, chunks, multiplier) ==
  LET cost == Cost(relays, chunks)
      charge == IF cost > 0 THEN <<Change(from, - cost)>> ELSE << >>
  IN  /\ cost > 0 => Affordable(from, cost)
      /\ Deal(t, cost, charge \o Rewards(relays, chunks, multiplier))
      /\ relay' = relay + cost - Burn(cost)
      /\ burn' = burn + Burn(cost)
      /\ earned' = [earned EXCEPT !.file =
                      @ + Len(relays) * Reward(chunks, multiplier)]
      /\ UNCHANGED emission

\* sendMsg of a text, or of a file no longer than ConfirmThreshold: it costs
\* nothing, four senders of five are given an emission, and the relays are paid as
\* for one chunk.
SendText(t, from, relays, n, emitting, multiplier) ==
  LET amount == IF emitting THEN n * EmissionRate ELSE 0
      emitted == IF emitting THEN <<Change(from, amount)>> ELSE << >>
  IN  /\ Deal(t, 0, emitted \o Rewards(relays, 1, multiplier))
      /\ emission' = emission + amount
      /\ earned' = [earned EXCEPT !.text =
                      @ + Len(relays) * Reward(1, multiplier)]
      /\ UNCHANGED <<relay, burn>>

\* Mutant of Transferred: the giver keeps what is given.
TransferredOnly(from, to, amount) == <<Change(to, amount)>>

Transferred(from, to, amount) == <<Change(from, - amount), Change(to, amount)>>

\* A rich node gives some of its balance to a poor one.
Transfer(from, to, share) ==
  LET amount == (balance[from] * share) \div 100
  IN  /\ from # to
      /\ balance[from] > 5000 /\ balance[to] < 1000
      /\ Deal("ticker", amount, Transferred(from, to, amount))
      /\ UNCHANGED totals

\* Balance += amount: a read and a write.
Read(t) == /\ ~ Idle(t) /\ loaded[t] = Unread
           /\ loaded' = [loaded EXCEPT ![t] = <<balance[Head(todo[t]).node]>>]
           /\ UNCHANGED <<balance, limit, todo, totals, deals, overlapped,
                          lost, dearest>>

Write(t) == /\ ~ Idle(t) /\ loaded[t] # Unread
            /\ LET change == Head(todo[t])
               IN  /\ balance' = [balance EXCEPT ![change.node] =
                                    loaded[t][1] + change.amount]
                   /\ lost' = (lost \/ loaded[t][1] # balance[change.node])
            /\ todo' = [todo EXCEPT ![t] = Tail(@)]
            /\ loaded' = [loaded EXCEPT ![t] = Unread]
            /\ UNCHANGED <<limit, totals, deals, overlapped, dearest>>

\* Node.Tick and UpdateReputation, in the ticker's goroutine.
UpdateReputation(n, l) == /\ "ticker" \in Threads /\ Idle("ticker")
                          /\ limit' = [limit EXCEPT ![n] = l]
                          /\ Meet
                          /\ UNCHANGED <<balance, todo, loaded, totals, deals,
                                         lost, dearest>>

\* The relays of a message, in the order of its path.
RelaysFrom(from) ==
  {relays \in BoundedSeq(Nodes \ {from}, MaxRelays) : IsInjective(relays)}

\* The ticker sends files and texts and makes transfers.
Traffic ==
  /\ "ticker" \in Threads
  /\ \/ \E from \in Nodes : \E relays \in RelaysFrom(from), m \in Multipliers :
          \/ \E chunks \in Files : SendFile("ticker", from, relays, chunks, m)
          \/ \E n \in ConfirmNs, emitting \in BOOLEAN :
               SendText("ticker", from, relays, n, emitting, m)
     \/ \E from, to \in Nodes, share \in Shares : Transfer(from, to, share)

\* A handler sends files, long or short.
LoadTest ==
  /\ "handler" \in Threads
  /\ \E from \in Nodes : \E relays \in RelaysFrom(from), m \in Multipliers :
       \/ \E chunks \in Files : SendFile("handler", from, relays, chunks, m)
       \/ \E n \in ConfirmNs, emitting \in BOOLEAN :
            SendText("handler", from, relays, n, emitting, m)

Next == \/ Traffic
        \/ LoadTest
        \/ \E t \in Threads : Read(t) \/ Write(t)
        \/ \E n \in Nodes, l \in Limits : UpdateReputation(n, l)

Spec == Init /\ [][Next]_vars

-----------------------------------------------------------------------------
TypeOK ==
  /\ balance \in [Nodes -> Int]
  /\ limit \in [Nodes -> Limits]
  /\ \A t \in Threads : /\ \A c \in ToSet(todo[t]) : c.node \in Nodes /\ c.amount \in Int
                        /\ loaded[t] = Unread \/ loaded[t][1] \in Int
  /\ emission \in Nat /\ relay \in Nat /\ burn \in Nat
  /\ earned \in [file : Nat, text : Nat]
  /\ deals \in 0..MaxDeals /\ overlapped \in BOOLEAN /\ lost \in BOOLEAN
  /\ dearest \in Nat

TotalBalance == MapThenSumSet(LAMBDA n : balance[n], Nodes)

\* As long as no change of a balance has been overwritten, the counters and what
\* relays earned account for every hundredth on the balances when no change is
\* half done, however the steps of the threads interleave: nothing is lost or
\* made on the way, in transfers and with and without relays.
CountersExplainBalances ==
  /\ TypeOK
  /\ ~ lost /\ (\A t \in Threads : Idle(t)) =>
       TotalBalance = emission + earned.file + earned.text - (relay + burn)

\* "A node can go into the red within its credit limit": as long as the threads
\* have not been busy at one time, no payment takes a balance below both zero and
\* the limit at that moment, though reputation changes between messages.
SpendingWithinLimit ==
  [][~ overlapped =>
       \A n \in Nodes : balance'[n] < balance[n] =>
         balance'[n] >= 0 \/ balance'[n] >= - limit[n]]_vars

\* Two threads that check before either pays can overdraw a node beyond its
\* limit, but by no more than one message or transfer takes, unless a change is
\* overwritten as well.
OverdraftBounded ==
  ~ lost => \A n \in Nodes : balance[n] >= - Max(Limits) - dearest
=============================================================================
