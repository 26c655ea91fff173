----------------------------- MODULE SimRouting -----------------------------
(***************************************************************************)
(* How the simulated mesh of simulation/world.go routes: which nodes are   *)
(* up and connected, and the path findPath, findRandomRelay and sendMsg    *)
(* give a message.  Random choices are choices among all that can be       *)
(* drawn.                                                                  *)
(*                                                                         *)
(* Two threads send: RunSteps in the ticker's goroutine, without w.mu and  *)
(* with a list of online nodes it took earlier, and LoadTest in a          *)
(* handler's, which holds w.mu all along.  The other scenario handlers,    *)
(* which take w.mu, change the world in the middle of RunSteps' search,    *)
(* and RunSteps' status changes come in the middle of LoadTest's.  One     *)
(* call of findPath or findRandomRelay is one step.                        *)
(***************************************************************************)
EXTENDS Integers, Sequences, FiniteSets, SequencesExt

CONSTANTS Nodes,
          Near,         \* pairs {a, b} whose distance WiFi or LoRa bridges
          Unstable,     \* the nodes of ProfileUnstable
          Regions,      \* the sets of nodes Partition is called with
          DefaultHops,
          MinRelayHops

ASSUME NearAssumption == /\ Near \subseteq SUBSET Nodes
                         /\ \A pair \in Near : Cardinality(pair) = 2
ASSUME GroupsAssumption == /\ Unstable \subseteq Nodes
                           /\ Regions \subseteq SUBSET Nodes
ASSUME HopsAssumption == DefaultHops \in Nat /\ MinRelayHops \in Nat

VARIABLES up,           \* the nodes with StatusOnline
          jammed,       \* the nodes in jammed cells
          online,       \* the list RunSteps took with OnlineNodes
          search        \* what each thread is sending

vars == <<up, jammed, online, search>>

Threads == {"ticker", "handler"}
Idle == [at |-> "idle"]

Init == /\ up \in SUBSET Nodes
        /\ jammed = {}
        /\ online = up
        /\ search = [t \in Threads |-> Idle]

HasConnection(a, b) ==
  /\ {a, b} \subseteq up
  /\ {a, b} \cap jammed = {}
  /\ {a, b} \in Near

-----------------------------------------------------------------------------
(* findPath: a direct path, else one over one relay, else over two. *)

\* The map of cached neighbours, which has no entry for the two ends.
Neighbors(from, to, list) ==
  [n \in list \ {from, to} |-> {m \in list \ {n} : HasConnection(n, m)}]

\* Go's lookup: a missing key gives an empty list.
NeighborsOf(n, from, to, list) ==
  LET table == Neighbors(from, to, list)
  IN  IF n \in DOMAIN table THEN table[n] ELSE {}

OneRelay(from, to, list) ==
  {<<from, r, to>> : r \in NeighborsOf(from, from, to, list)
                             \cap NeighborsOf(to, from, to, list)}

TwoRelays(from, to, list) ==
  LET next(n) == NeighborsOf(n, from, to, list)
  IN  UNION {{<<from, r1, r2, to>> :
                r2 \in {r \in next(r1) \ {from, to} : to \in next(r)}} :
             r1 \in next(from)}

\* The paths findPath can return; none stands for nil.
FindPath(from, to, list) ==
  IF HasConnection(from, to) THEN {<<from, to>>}
  ELSE IF OneRelay(from, to, list) # {} THEN OneRelay(from, to, list)
  ELSE IF DefaultHops >= 3 THEN TwoRelays(from, to, list)
  ELSE {}

-----------------------------------------------------------------------------
(* sendMsg: relays are added until there are MinRelayHops of them. *)

\* Mutant of FindRandomRelay: a relay that is on the path already.
FindRandomRelayAgain(from, to, path, list) ==
  {n \in list \ {from, to} : /\ ~ (HasConnection(from, n) /\ HasConnection(n, to))
                             /\ HasConnection(from, n) \/ HasConnection(n, to)}

\* The candidates of findRandomRelay: connected to one end, but not to both.
FindRandomRelay(from, to, path, list) ==
  {n \in list \ (ToSet(path) \cup {from, to}) :
     /\ ~ (HasConnection(from, n) /\ HasConnection(n, to))
     /\ HasConnection(from, n) \/ HasConnection(n, to)}

WithRelay(path, r) == Front(path) \o <<r, Last(path)>>

\* Mutant of Missing: one relay fewer.
MissingOneFewer(path) ==
  IF Len(path) - 2 < MinRelayHops THEN MinRelayHops - (Len(path) - 2) - 1 ELSE 0

Missing(path) ==
  IF Len(path) - 2 < MinRelayHops THEN MinRelayHops - (Len(path) - 2) ELSE 0

\* One turn of the loop; one that finds no relay changes nothing.
Turn(from, to, path, list) ==
  LET relays == FindRandomRelay(from, to, path, list)
  IN  IF relays = {} THEN {path} ELSE {WithRelay(path, r) : r \in relays}

-----------------------------------------------------------------------------
(* Sending, step by step. *)

Busy(t) == search[t].at # "idle"
Continue(t, s) == search' = [search EXCEPT ![t] = s]

\* A thread has found two nodes that are connected.
Begin(t, from, to, list) ==
  /\ ~ Busy(t)
  /\ Continue(t, [at |-> "path", from |-> from, to |-> to, list |-> list])
  /\ UNCHANGED <<up, jammed, online>>

\* A node of the list, in the traffic phase of RunSteps, finds a target in it.
Send(from, to) ==
  /\ from \in online /\ to \in online \ {from}
  /\ FindPath(from, to, online) # {}
  /\ Begin("ticker", from, to, online)

\* LoadTest takes a list of its own and sends to connected nodes.
LoadSend(from, to) ==
  /\ from # to /\ HasConnection(from, to)
  /\ Begin("handler", from, to, up)

\* sendMsg looks again: at the statuses of the two, then for a path.  The number
\* of turns is fixed before the first.  calm is history: whether the world has
\* stayed the same since.
SendMsg(t) ==
  LET s == search[t]
      paths == IF {s.from, s.to} \subseteq up
               THEN FindPath(s.from, s.to, s.list) ELSE {}
  IN  /\ s.at = "path"
      /\ \/ paths = {} /\ Continue(t, Idle)
         \/ \E path \in paths :
              Continue(t, [at |-> "relays", from |-> s.from, to |-> s.to,
                           list |-> s.list, path |-> path,
                           left |-> Missing(path), calm |-> TRUE])
      /\ UNCHANGED <<up, jammed, online>>

AddRelay(t) ==
  LET s == search[t]
  IN  /\ s.at = "relays" /\ s.left > 0
      /\ \E path \in Turn(s.from, s.to, s.path, s.list) :
           Continue(t, [s EXCEPT !.path = path, !.left = @ - 1])
      /\ UNCHANGED <<up, jammed, online>>

\* The path is complete.
Found(t) == search[t].at = "relays" /\ search[t].left = 0

\* The message is sent along it, or refused to a sender who cannot pay.
Return(t) == /\ Found(t)
             /\ Continue(t, Idle)
             /\ UNCHANGED <<up, jammed, online>>

-----------------------------------------------------------------------------
(* Changes of the world. *)

Disturbed == [t \in Threads |-> IF search[t].at = "relays"
                               THEN [search[t] EXCEPT !.calm = FALSE]
                               ELSE search[t]]

\* Unstable nodes whose time has come change their status, and RunSteps takes
\* a new list.
StatusPhase(turned) ==
  /\ ~ Busy("ticker")
  /\ turned \subseteq Unstable
  /\ up' = (up \ turned) \cup (turned \ up)
  /\ online' = up'
  /\ search' = Disturbed
  /\ UNCHANGED jammed

ToggleNode(n) == /\ up' = IF n \in up THEN up \ {n} ELSE up \cup {n}
                 /\ UNCHANGED jammed

Partition(region, blocked) ==
  /\ up' = IF blocked THEN up \ region ELSE up \cup region
  /\ UNCHANGED jammed

\* Each node that is not unstable is turned on or off at random.
SetDayNight(lit) == /\ lit \subseteq Nodes \ Unstable
                    /\ up' = lit \cup (up \cap Unstable)
                    /\ UNCHANGED jammed

SetJamming(cells) == jammed' = cells /\ UNCHANGED up

\* Mutant of Unlocked: the handlers do not take w.mu.
NeverLocked == TRUE

\* LoadTest holds w.mu while it sends.
Unlocked == ~ Busy("handler")

Scenario == /\ Unlocked
            /\ \/ \E n \in Nodes : ToggleNode(n)
               \/ \E region \in Regions, blocked \in BOOLEAN :
                    Partition(region, blocked)
               \/ \E lit \in SUBSET (Nodes \ Unstable) : SetDayNight(lit)
               \/ \E cells \in Regions \cup {{}} : SetJamming(cells)
            /\ search' = Disturbed
            /\ UNCHANGED online

Next == \/ \E from, to \in Nodes : Send(from, to) \/ LoadSend(from, to)
        \/ \E t \in Threads : SendMsg(t) \/ AddRelay(t) \/ Return(t)
        \/ \E turned \in SUBSET Unstable : StatusPhase(turned)
        \/ Scenario

Spec == Init /\ [][Next]_vars

-----------------------------------------------------------------------------
TypeOK ==
  /\ up \subseteq Nodes /\ jammed \subseteq Nodes /\ online \subseteq Nodes
  /\ \A t \in Threads :
       \/ search[t] = Idle
       \/ /\ search[t].at \in {"path", "relays"}
          /\ {search[t].from, search[t].to} \subseteq Nodes
          /\ search[t].list \subseteq Nodes
          /\ search[t].at = "relays" =>
               /\ search[t].path \in Seq(Nodes) /\ Len(search[t].path) >= 2
               /\ search[t].left \in 0..MinRelayHops /\ search[t].calm \in BOOLEAN

\* However old its list is, a message goes along no node twice, and along a node
\* that is off or jammed only if the world changed after findPath.  LoadTest's
\* w.mu keeps all changes out but those of unstable nodes, which RunSteps makes
\* without it.
SentOverLiveNodes ==
  \A t \in Threads : search[t].at = "relays" =>
    LET dead == ToSet(search[t].path) \cap ((Nodes \ up) \cup jammed)
    IN  /\ IsInjective(search[t].path)
        /\ search[t].calm => dead = {}
        /\ t = "handler" => dead \subseteq Unstable \ jammed

\* If the world has not changed after findPath, a path has fewer than MinRelayHops
\* relays only when every other node of the list is out of reach of both ends, or
\* in reach of both.
RelaysWhilePossible ==
  /\ TypeOK
  /\ \A t \in Threads :
       LET s == search[t]
       IN  Found(t) /\ s.calm /\ Len(s.path) - 2 < MinRelayHops =>
             \A n \in s.list \ ToSet(s.path) :
               HasConnection(s.from, n) <=> HasConnection(n, s.to)

\* A comment of findPath: "1 relay: a node that connects from and to".  Where
\* there is such a node, a path is found.
RelayIsFound ==
  \A from, to \in online : \A r \in online :
    from # to /\ HasConnection(from, r) /\ HasConnection(r, to)
      => FindPath(from, to, online) # {}
=============================================================================
