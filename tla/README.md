# RelayMeshNet in TLA+

A specification of the concurrent and stateful core of RelayMeshNet (Go packages under `src/pkg`, the simulation under
`src/simulation`, the node under `src/cmd/rmn-node`), checked with TLC and, but for onions, proved with TLAPS.
`src/modules/*.md` and the architecture overview describe far more than the code does; these modules follow the code, and
use the documents only as the other side of a finding.

Contents: [inventory](#inventory) · [modules](#modules) · [runs](#runs) · [fairness](#fairness) · [theorems](#theorems) ·
[findings](#findings) · [not modelled](#not-modelled) · [plan](#plan)

To check: `tlc -config MCRelayQueue.cfg MCRelayQueue`, and so on for every run in `PROJECT.json`;
`tlapm RelayProofs.tla` and so on for the proofs (eight modules).

## Inventory

| component | state | operations | who touches it |
|---|---|---|---|
| `pkg/relay` Queue | a slice sorted by priority, `maxSize`, a mutex | Push, Pop, Len, IsEmpty | any goroutine |
| `pkg/relay` HopTracker | packet ID → hop, acknowledged?, when | Track, ACK, IsACKed, Cleanup | a sender and the receiver of acknowledgements |
| `pkg/transport` MockTransport | per transport: RWMutex, map of peers, inbox channel, handler | Connect, Disconnect, Send, Broadcast, Recv, SetHandler, Close | any goroutine; transports lock each other |
| `pkg/dht` Table | buckets of pointers to contacts, each with LastSeen | Add, Remove, Closest | RPC handlers; contacts are shared between tables |
| `pkg/dht` Store, RPC | key → value with an expiry | Put, Get, Delete, Cleanup, HandleStore, HandleFindNode, HandleFindValue, HandlePing | RPC handlers |
| `pkg/poh` | last hash, tick index, a mutex | Tick, TickN, RecordEvent, CreateCheckpoint; VerifyRecord, VerifyChain | any goroutine; verifiers know checkpoints only |
| `pkg/onion` | none (packets carry it) | BuildCircuit, UnwrapLayer, GetNextHop, OnionSize | sender, then each hop |
| simulation: routing | node status, jammed cells, a list of online nodes | findPath, findRandomRelay, sendMsg; Partition, SetJamming, SetDayNight, ToggleNode | ticker goroutine; HTTP handlers |
| simulation: delivery | active messages and transmissions, counters | RunSteps' phases, checkCollisions, markMsgCollided, LoadTest | ticker goroutine; HTTP handlers |
| simulation: money | balances, reputation, counters | the charges of sendMsg, AddRelayWork, transfers | ticker goroutine; LoadTest's goroutine |
| simulation: server | the global `world`, each World's mutex, speed and configuration, `configMu` | the ticker's turn, handleConfig, handleSpeed, handlers of one method | ticker goroutine; HTTP handlers |
| `pkg/economy` | credits, locked credits, reputation | Add, Subtract, Lock, Unlock | the demo only |
| `pkg/crypto` | ratchet chains, prekey bundles | X3DHSend, X3DHReceive, Encrypt, Decrypt | the two ends of a session |
| `cmd/rmn-node` | sessions by peer | InitiateSession, handlers of packets | transport handlers and a receive loop |

How they meet: `cmd/rmn-node` gives MockTransport a handler and also reads its inbox, so that each packet is handled twice, and
keeps sessions of `pkg/crypto`. The RPC of `pkg/dht` answers from the Store and the Table. The simulation is a world of its own: one ticker goroutine
calls `RunSteps`, which takes no lock, while HTTP handlers change the same world under `w.mu`. The other packages are
libraries with tests and the demo as their only callers; their models put them under any callers their types allow.

What is hard, and which properties answer for it (every hazard with its line is in `PROJECT.json`):

* *Lock order.* Connect, Disconnect and Close hold two transports' locks, Broadcast reads one lock twice →
  `CallsReturn`.
* *State used after the lock is gone.* Send uses the peer it looked up while Close closes its inbox →
  `ClosedIsUnreachable`.
* *Lists that go stale.* RunSteps' list of online nodes; contacts shared between tables →
  `SentOverLiveNodes`, `RelaysWhilePossible`, `OnlySilentEvicted`.
* *A global variable exchanged under its readers*: the ticker and the handlers lock one World and unlock the next →
  `CrashNeedsExchange`, `SpeedInForce`, `TpsCountsTicks`, `ConfigInForce`, `RequestsReturn`.
* *Packets handled twice, late and in two goroutines; sessions that replace each other; ratchets without a lock* →
  `EndsAgree`, `KeyUsedOnce`, `IdentityKept`, `SkipsOnce`.
* *In-place filtering, repeated IDs, one-sided removal* in delivery and collisions → `EachInOnePlace`,
  `CollisionsCounted`, `HitTakesNamesake`.
* *Late and repeated acknowledgements* → `AckedHopConfirmed`, `ForgottenOnlyWhenConfirmed`.
* *Check, then act, then add to a plain float* from two goroutines → `CountersExplainBalances`, `SpendingWithinLimit`,
  `OverdraftBounded`.
* *Boundaries*: a full queue, expiry at the very instant, the bucket of the own key, integer division of ticks among
  hops, sizes of layers.

## Modules

**RelayQueue** (`pkg/relay/queue.go`). `packets` is the slice. Each method holds the mutex throughout, so each call is an
action; Push that finds the queue full and Pop that finds it empty are actions of their own. `IsInsertIndex` is Push's
scan with its early exit. **PriorityBuffer** is what a client wants, one FIFO lane per priority with a common capacity;
`ImplementsPriorityBuffer` is the refinement, each lane mapped to the packets of that priority in the slice (`Lane`, a recursive function
over the slice).

**HopTracker** (same file). `hops` is the map; ages stand for `ACKedAt`. The sender, the hops and the network around it
are external: packets are tracked hop by hop, transmitted up to `MaxSends[id]` times over each, lost and delayed. An
acknowledgement carries the packet ID only, as `ACK` does. A packet's ID is the hash of its data, so that the same data sent
again is the same packet: a journey may be followed by another.

**MockTransport** (`pkg/transport/mock.go`). Lock by lock: a goroutine's `pc` stands between two points where others
matter. Go's RWMutex is modelled as it is: a writer announces itself, which keeps new readers out, then waits for the
readers inside; that is what makes Broadcast's nested read lock dangerous. Panics (close of a closed channel, send on a closed
one, call of a nil handler) end the program and are a value of `crashed`.

**DhtTable** (`pkg/dht/table.go`). Contacts are objects; several tables may hold one object and share its LastSeen, and two
objects may have one key. Refresh and Insert are the two ways through `Bucket.Add`. Keys are short bit strings;
`Nearest` is `Closest`, checked as a function of each reachable table for every target and count; its sort gives each contact the place of
those before it.

**DhtStore** (`pkg/dht/store.go`) with **ExpiringMap** as its abstract specification: a map whose entries vanish at their
time. Expired entries stay in the Go map until Get hides or Cleanup deletes them; the refinement says nobody can tell.

**ProofOfHistory** (`pkg/poh/poh.go`). SHA-256 is free: a hash is a seed and how often it was hashed. `log` is a
history variable with all records and checkpoints in the order of their making, so that verification (pure functions)
can be compared with what really came first. A signature is the term of what was signed and by whom; the type of an event is not signed, and
a record without a signature is accepted, as in the code. `SignedWasRecorded` is about all that can be shown with a signature somebody has seen (`Shown`).

**Onion** (`pkg/onion/onion.go`). A sealed box is a record only its key opens. Packets are in the air, anybody hears
them, any number of times; the circuit and who has opened a packet are kept as history.

**SimRouting** (`simulation/world.go`): `HasConnection`, `findPath`, `findRandomRelay` and the routing half of `sendMsg`
as sets of possible results. Two threads send, RunSteps with the list of nodes it took earlier and LoadTest under `w.mu`, and each
searches step by step (`search`): the call of sendMsg (`Send`, `LoadSend`), its findPath (`SendMsg`), one turn of the relay loop (`AddRelay`), the end (`Return`).
One call of findPath or findRandomRelay is one step. Handlers that take `w.mu` change statuses and jamming between any two steps of RunSteps; between those of
LoadTest only the status changes of RunSteps come, which takes no lock. `calm` is history: whether the world has stayed the same since findPath.

**SimWorld** extends SimRouting with the rest of RunSteps: collisions, delivery with hop
acknowledgements, traffic, one phase per action but for the sending, which keeps SimRouting's steps (`Search`) and ends in two of its own: sendMsg records the
transmission and returns the message (`Transmit`), its caller appends it to the active messages (`Enqueue`). Every phase of RunSteps can come between these two in
LoadTest, and so can a collision of the very transmission (`unlisted`). Durations (`Legs`, how long a transmission is on the air) are sets, in place of
the radio formulas.

**SimLedger**: the balances under sendMsg, AddRelayWork and transfers. `b += x` is a read and a write, because
`Node.Balance` is a plain float that the ticker and LoadTest's goroutine share. Amounts are hundredths of a credit in
whole numbers: rounding of floats is not modelled. A message has no relay, or up to two, as `MaxRelays` allows; the handler sends long files and short ones, which are paid for as texts are.
History: `overlapped` says that both threads have been busy at one time, `lost` that a
change was written over a balance that had changed since it was read, `dearest` is the most that one message or transfer has taken.

The `MC*` modules hold the small instances. `*Proofs` modules hold the theorems.

Operators named as mutants in comments (`FullOffByOne`, …) are plausible bugs of the definition they follow. They are
used nowhere in the specifications; each property was seen to fail when a definition is exchanged for one of them.

**DhtRpc** is the node NewRPC puts together: DhtStore and DhtTable (by INSTANCE) side by side, each under its own lock. The
properties of the table are those of DhtTable, checked while values are stored and expire.

**Session** (`cmd/rmn-node/main.go`, `pkg/crypto/x3dh.go`, `ratchet.go`, and the transport's Send as one step). Keys are terms: a
Diffie-Hellman value is the set of the two key pairs, a chain key is where its chain starts and how often it was advanced.
A packet that is delivered is in the inbox and with the handler, which runs in the sender's goroutine, so it is handled twice.
Each handler is split where the code lets go of `Node.mu`, and Encrypt and Decrypt, which take no lock, where they read and where they write.
`ratchets` keeps every RatchetState: a goroutine may be inside one a newer session has replaced. What Decrypt is given starts
in the middle of the sender's PeerID, so that it reads a wrong number (`Misread`) and opens nothing: the model
follows the code in that. `named` says whether transports are named by the PeerIDs; main names them "alice" and "bob", and then nothing arrives.
The reads of sessions in SendChat and handleChat, and the goroutines of main and of its console, are the processes.

**SimServer** (`simulation/main.go`). The global `world` is a number in `worlds`. `world.mu.Lock(); …; world.mu.Unlock()` reads it
three times: `Enter` waits for the World found first, the body and `Leave` use the one of their own time. A method of World
has one receiver for good. `configMu`, the speed read without a lock in handleConfig, the exchange and the restored speed are steps of their own. A
configuration has three parts: what is compared (`grid`), the thirteen fields that an update copies (`rates`), those it does not (`fixed`). Go's
mutex does not know its owner: unlocking one that is not locked ends the program (`crashed`).

## Runs

| run | question | bounds and why they are enough |
|---|---|---|
| `relay_queue` | one slice = FIFO lanes? served? | 4 packets, 3 priorities, two equal; capacity 3, so the queue is full with one outside, and packets may be pushed again while queued |
| `hop_tracker` | can IsACKed lie? is anything forgotten early? | one packet that is never retransmitted, one that may be; 2 hops: the shortest path with a next hop to confuse |
| `transport` | links, closing, double delivery, deadlock | three connected transports, so that Close and Broadcast visit two peers and lock cycles of three exist; one goroutine makes any two calls, the other any one (of transport `a` with `b` as the other: at the start all transports are alike); inbox of one, full after one packet |
| `dht_rpc` | placement, answers, eviction; is the store an expiring map? | 3-bit keys, buckets of two with three competing keys, two objects for one key, two tables that share the objects, one of which has a contact's key as its own; clock to 2 with a silence of 0; two keys with lifetimes of 0 and 1 tick. The store is proved for all values, so that the run stays small |
| `proof_of_history` | does verification tell order? | two generators, 3 ticks, 3 entries, every record that can be shown within these; also proved for all |
| `onion` | who opens what, how large is it? | 3 nodes, circuits of up to 3 hops, also over one node twice, two packets at a time, two lengths |
| `sim_routing` | what paths come out of stale lists and a changing world? | 5 nodes in a triangle with a tail, 2 forced relays, two threads; all statuses as initial states; no bound on sends or handlers |
| `sim_routing_relay` | does findPath find a relay? | the same nodes |
| `sim_world` | does each message have one fate? | 3 nodes in a row, 2 messages (enough for a collision and for a repeated ID), two spreading factors, one call of a handler between any steps: a scenario, or a message of LoadTest; paths of one hop and, with the forced relay, of two; legs of 1 and 3 ticks capped at 3 in all: 3 ticks over 2 hops do not divide evenly, 2 over 2 do |
| `sim_ledger` | do the books balance, how far does a race overdraw? | two threads, 3 deals among 3 nodes: earn, transfer, spend; messages over no relay or one (two are allowed by the module and covered by the proofs); two credit limits |
| `session` | do both ends agree? is a key used twice? what does a misread message cost? | two goroutines of one node, one of the other, besides the two that empty inboxes; 3 calls, 2 of them handshakes: enough for an init handled after the next one, for both ends initiating, and for two chats in one ratchet; inboxes of 2, full after two packets |
| `sim_server` | what does exchanging the World break? | two handlers, two requests of any kind, two turns of the ticker: one exchange under any other section, or two handleConfig at a time; a third request makes the run longer without another pair of sections to meet |

`sim_routing_relay` checks what a comment says, and TLC shows a behaviour of the code that contradicts it: see
[findings](#findings). The other runs pass. Type invariants are the first conjunct of one of the
invariants where a run does not check them under their own name, and all of them are proved.

What they show, in short. *Queue*: the early exit of Push is right because the slice is always sorted, equals
are never reordered, and a high-priority packet that was accepted is served although others keep coming. *Tracker*: without
retransmission IsACKed tells the truth about the very hop. *Transport*:
whatever two goroutines do, the two ends of a link agree outside critical sections; packets can be dropped, but handler
and inbox never contradict each other; deadlocks exist, and only among calls that hold two locks or read one twice. *DHT*:
pointer sharing can postpone evictions but never evicts the wrong contact. *Store*: neither lazy expiry nor Cleanup can
be noticed. *Simulation*: a stale list is harmless by itself, because every hop is checked again with `HasConnection`; a change in the middle of the search is
not, and a message can go over a node that went off meanwhile, from LoadTest over an unstable one only. Every message settles, and one that was hit
arrives only in the place of another with the same ID, or if LoadTest had it in its hands when it was hit. *Money*: none is lost or made unless a change is
overwritten (`lost`), limits are kept while the ticker and LoadTest do not
meet (`overlapped`), and when they do a node is overdrawn by one message or transfer at most, unless a change is overwritten too.
*Server*: every request is answered and no mutex is unlocked that is not locked as long as no exchange falls into another goroutine's section (`crossed`); the
speed set last is in force unless it was set during an exchange (`overtaken`), the rate of ticks is right unless the World was exchanged since the last (`exchanged`), and
the configuration posted last is in force always, as far as an update copies it: the rest is what the World was made with. *History*: verification orders
records and checkpoints, and nothing signed verifies that was not recorded, but for its event type. *Sessions*: both ends are left with one handshake though each init is applied twice; no key seals two messages and
misread messages cost one gap, unless two goroutines are in one ratchet at a time (`raced`).

Deadlock is checked except where the system really may stop: in the transport run (goroutines have a bounded number of
calls, and may deadlock, which is one of the questions, or crash), in the server and the sessions (calls and turns are bounded, and the
program may crash), in the ledger (deals are bounded) and for onions (circuits are bounded and every packet may be lost).

Bounds in guards: `MaxCalls` (transport), `MaxTime` (table), `MaxTick` and `MaxLog` (history), `MaxCircuits` (onion),
`MaxSent` and `MaxScenarios` (world: messages begun or sent, and calls of handlers, each message of LoadTest counting as one; `MaxTicks`, `MaxAir`, `Gap` and `Retry` are
limits of the code, 3000, 20, 500 and 250 there), `MaxDeals` and `MaxRelays` (ledger), `MaxSends` (tracker), `MaxInits` and `MaxCalls` (session),
`MaxTurns` and `MaxRequests` (server). In `sim_ledger` the nodes and in `dht_rpc` the store's keys are a symmetry set: they are alike, no
definition picks one by CHOOSE, and no liveness is checked there.

## Fairness

* RelayQueue, `UrgentIsServed`: somebody keeps calling Pop, WF(Pop). Nobody has to push.
* MockTransport, `CallsReturn`: the Go scheduler runs every goroutine that can run, WF of the steps of a call that has begun. Nobody
  has to begin one. Calls are bounded, so no lock is contended for ever and weak fairness is enough.
* SimWorld, `EverySentSettles`: the ticker of `main.go` calls RunSteps for ever (its speed is not 0) and no phase blocks, WF of its phases and of
  the ticker's sending; a handler that is in LoadTest goes on, WF of the handler's sending. No node has to send.
* SimServer, `RequestsReturn`: each goroutine goes on, WF(Ticker) and SF of each handler's steps. Strong fairness is what Go's
  mutexes give: one that is unlocked again and again is handed to a goroutine that has waited for it (starvation mode). Nobody has to post a request.

Nothing in the repository calls the Cleanup of HopTracker or of Store. So no liveness is claimed of them: that expired
values or acknowledged packets ever leave memory is up to a caller that does not exist yet.

## Theorems

Proved for all values of the constants, from the named assumptions in the modules only. Each list of properties is followed by the invariant that makes
them hold, which says more than they do; those of SimWorld and SimLedger were checked on the runs' instances before they were proved.

* **RelayProofs**, about RelayQueue: `TypeCorrect`, `Sorted`, `Overtaking`, `Implementation`. The invariant is `TypeOK /\ SortedByPriority`: sortedness is
  inductive once the slice is known to be a sequence of packets with numeric priorities, and the step property needs it, because only
  in a sorted slice does every packet behind the insertion point yield to a more urgent one. For `Implementation` it is joined by the count: the lanes
  together hold as many packets as the slice, so that both are full, or empty, at once (`RInv`). Push puts a packet behind all of its level and before the later
  ones, so that it joins the end of its own lane and no other lane changes (`PushLanes`); the first of the slice heads the most urgent lane that is not
  empty (`PopLanes`). Lanes and the sum of their lengths are recursive; what is said of them for slices of any length is proved by a least
  length for which it would fail (`LeastNat`, `UpTo`).
  About HopTracker: `TrackerTypeCorrect`, `Acknowledged`, `Forgotten`. Of a packet that is sent once at most one message is anywhere:
  to be sent, under way, or its acknowledgement under way. That is the strengthening (`OneMessage`); with it an acknowledgement that arrives can only be
  that of the hop the tracker has noted.
* **DhtRpcProofs**, about the node with its store and tables. `TypeCorrect`, `Implementation`: the mapping sends each key to what Get would answer.
  Put, Delete, Find and the clock are steps of the map; Cleanup and everything the tables do are stutters. The type invariant is all the proof needs of reachability: the
  time left is a number not below -1, and only -1 means expired.
  `TablePlacesWell`: the property is inductive, with the types; Add looks for a key in one bucket only, which is enough because every contact is in
  the bucket its key leads to. `SilentAreEvicted`: the contact replaced is the one longest silent in a bucket, which by `WellPlaced` is the
  bucket its own key leads to. `AnswersAreNearest`: it follows from `WellPlaced` in every state. The fold that joins the buckets lists the contacts of the table, each
  once (`AllContactsFacts`, by a least number of buckets for which it would not); the places of a strict order of n things are the numbers up to n
  (`Places`), so the sort is a rearrangement; distances to one target are ordered and differ when keys do. A contact nearer to the target than one of
  the target's own bucket shares as long a prefix with it, and so is in that bucket too (`NearerInBucket`).
* **ChainProofs**, about ProofOfHistory: `TypeCorrect`, `Verification`, `Ordering`, `Integrity`. `VerifiedMeansLater` and the others are not
  inductive: they compare hashes and say nothing of clocks, and `SignedWasRecorded` compares a record with what was signed. The invariant adds that a generator's hash is its seed hashed `tickIndex`
  times (`ClockHolds`), that each entry says so of its own tick, which is not ahead of the clock (`LogHolds`), and that a
  generator's entries are in the order of their ticks, strictly before a record (`Chronological`).
  About Onion: `CircuitsFollowed`, `SizesAsCounted`. The properties say who opens boxes and how large they are, and nothing of what is in them; the
  invariant adds that a packet opened n times carries the very box that BuildCircuit made for the hop after that, and is for it (`Travels`). The boxes
  are a recursive function from the last hop to the first: the last m of them can be made for every m (`BoxesExist`), and have the size OnionSize counts (`BoxSize`).
* **SimWorldProofs**, about SimRouting: `OnlyDirectPaths` (for any nodes, links and list, findPath returns the direct path or nothing, which
  explains the run `sim_routing_relay`), `RoutingTypeCorrect`, `RelaysAdded`, `LiveNodes`. The invariant (`Routed`) says of each thread's path that it goes over different
  nodes from its sender to its receiver and, while the world is calm, that they are live and that the turns left are
  the relays missing, or findRandomRelay has no candidate any more (`Relayed`). LoadTest's path is over live or unstable nodes, as
  only RunSteps changes the world beside it.
  About SimWorld: `NoneLostSilently`, `FailuresCounted`, `NamesakesPay`, `AcksFollowPath`. The invariant has two halves. `Flow`: messages
  and transmissions have numbers of their own, transmissions in their order (messages need not be, since a thread may be late with its own), no message that arrived or was given up is on the
  active list or in the hands of a thread (`Hands`), a mark is there in the phase of
  delivery only, and a path has no more hops than its message has ticks, those behind it being acknowledged (`Carried`). `Radio`: a
  transmission ends before its message arrives (`Airborne`), so that a collision finds a message to mark, unless the message is in LoadTest's hands; and every transmission that was hit
  is excused (`Excused`): its message is marked or lost, or a namesake is, or it was not listed yet. The filters of the code, which keep some members of a slice in their order, are
  `At`, about which a few lemmas on ranks say all that is needed. That failures are fewer than twice the messages hit is a count of pairs:
  of the messages of a pair the first goes off the air and is never hit again.
* **SimLedgerProofs** `NothingLostOrMade`, `OverdrawnByOne`, `NeverBeyondLimit`. Balances with the changes still to be made are what the
  counters say (`Account`); the sum over the nodes is treated without induction theorems, by a least set for which the lemma would fail. `Debt`: not even
  both threads together can take a balance below the floor. The sum of two debts matters, since both may have been checked against one balance;
  the floor holds because that balance allowed for either, and the other is no more than `dearest`. `Alone`: a thread that has not met the other finds the
  balances as it checked them. The proof showed that `~ lost` is needed for `OverdraftBounded`: a charge written over another lets a node pay twice
  from one balance again and again, which three deals are too few to show.
* **SessionProofs** `TypeCorrect`, `KeysNotReused`, `IdentitySurvives`, `KeysSkippedOnce`, `HandshakesConclude`. A message key is the start of its chain and a number of steps. Two facts make it unique: each sending chain
  starts from a value that involves the ratchet key generated for it and no other ratchet key (`OwnStart`), and within a chain keys are used in order, by one goroutine at a time,
  unless the ratchet is `raced` (`KeysInOrder`). Keys are skipped once because a ratchet reads the messages of one peer only, whose number is always the same (`SkipInv`).
  Both ends agree because the last init sent is the last handled (`Handshakes`): of the init of the session the caller holds, one copy is still to be handled after all others, or the other
  side's session was made of it.
* **MockTransportProofs** `LinksAreSymmetric`, `ClosedIsForgotten`, `DeliveriesAgree`. A goroutine's point says which write locks it has or waits for
  (`LocksOwned`). Only Close lets go of its own lock half-way, so a link is known to one side only while that side is in Close and has passed the other
  (`OneSided`); what it has passed does not know it any more, unless that one is being closed too and was there before (`PassedForgets`). For the mail (`Mail`):
  a goroutine's packets carry the number of its call, and a transport that its call has yet to visit has none of that number.
* **SimServerProofs** `NoStrayUnlock`, `PostedIsInForce`, `SpeedSurvives`, `TicksPerSecond`. One handleConfig at a time (`OneConfigures`) is why an update finds the grid it compared
  (`Posted`), whatever the exchanges before it; `made` tells what it does not copy. For the mutexes: while no exchange fell into a section, each task says
  which World it has locked, at most one writes to it, and its count of readers is the number of tasks that read it (`LocksHeld`);
  the World an exchange makes has neither. Only the set of those who read is finite, not the handlers. `Settings`: the World has the speed set last or a handler is
  about to restore it, having read that very speed; and unless the World was exchanged its ticks are those at the last measurement and those since.

Only model-checked: liveness and everything that uses ENABLED (`CallsReturn`, `UrgentIsServed`, `EverySentSettles`, `RequestsReturn`),
which the prover cannot do, and `RelayIsFound`, which TLC refutes. Every other property of the runs is a theorem.

## Findings

Shown by a run: **findPath finds no relay** (`sim_routing_relay`, and `OnlyDirectPaths` for all values). The map of neighbours has
no entry for the two ends it is then asked about, so only direct paths come out of it; relays are added by findRandomRelay alone.

Visible in the models, where a property needs a condition or says less than a document does:

* *HopTracker*: `AckedHopConfirmed` needs `MaxSends[id] = 1`. ACK is given the packet and not the hop, so with retransmission the
  second acknowledgement of one hop confirms the next; `modules/24-qos-multipath.md:13-15` promises both acknowledgement by each hop and
  retransmission.
* *SimLedger*: `SpendingWithinLimit` needs `~ overlapped`, `CountersExplainBalances` and `OverdraftBounded` need `~ lost`. The ticker and LoadTest check and add to the same floats
  without a common lock; a comment at `simulation/world.go:216` calls the phase single-threaded. Once charges are overwritten nothing bounds what a node overdraws.
* *SimLedger*: what relays earn is paid by channel (`Reward`) and not out of what the sender is charged (`Cost`), unlike the comment at
  `simulation/world.go:378`.
* *SimRouting*: `RelaysWhilePossible` must except nodes connected to both ends, which findRandomRelay skips; with those alone a message goes
  out directly, though `README.md:34` of the repository says every message has a relay.
* *SimWorld*: IDs repeat, and the first active message with the ID is marked as collided (`simulation/world.go:400`): a message whose
  transmission was hit can arrive, in the place of a namesake (`HitTakesNamesake`).
* *SimRouting*: between findPath and the append nothing keeps RunSteps' world as it is: `SentOverLiveNodes` needs `calm`, and for LoadTest, which holds `w.mu`, excepts
  the unstable nodes that RunSteps turns off without it.
* *SimWorld*: LoadTest's transmission is recorded (`simulation/world.go:415`) before its message is on the list (`:585`); a collision in between finds no message to mark, and the one that
  was hit arrives with nothing given up for it (`unlisted`). RunSteps looks for collisions after its own appends only.
* *SimWorld*: hops are acknowledged by the clock, whether or not their node is up, and two failures are counted for a pair of which
  one transmission is removed, so that the failures of three messages can be four (the bound in `CollisionsCounted`).
* *Session*: the receiver of a handshake puts 32 zero bytes where the sender has DH1 (`pkg/crypto/x3dh.go:102`), while
  `modules/17-protocol-spec.md:305` lets it compute the same values: the two secrets never agree, and `EndsAgree` compares the others.
* *Session*: a packet is addressed by PeerID and found by the name of its transport. main names transports "alice" and "bob": nothing
  it sends arrives. The model also has transports named by PeerIDs, as the node's own code assumes.
* *Session*: SendChat puts the type and the PeerID before the message and the receiver cuts off the first 34 bytes of the whole (`raw[34:]`, `cmd/rmn-node/main.go:191`), which end within the PeerID, so that no chat of this node can be decrypted; `SkipsOnce` bounds
  what is stored for them, which `MaxSkip` does not.
* *ProofOfHistory*: `modules/17-protocol-spec.md:260-264` has the signature of a record verified; VerifyRecord does so only if there is one (`pkg/poh/poh.go:127`), so that a record
  stripped of its signature verifies with any data. The type of the event (`:66`) is not among the bytes signed (`:86-89`). `SignedWasRecorded` is about signed records and leaves out the type.
* *Onion*: layers and OnionSize agree on M+211 bytes for three hops and M+49 for one; `modules/02-onion-routing.md:44-49` and `:85` give M+185 and M+65, and
  `simulation/node.go:161` counts M+185. `SizeAsCounted` compares the layers with OnionSize only.
* *SimServer*: an update copies thirteen fields (`simulation/main.go:111-126`); EmissionRate, the bounds on relay hops, NoiseFloor, the TX powers and the jamming fields of a posted configuration are
  taken over by an exchange only. `ConfigInForce` says so.
* *SimServer*: `CrashNeedsExchange` and `RequestsReturn` need `crossed`, `SpeedInForce` `overtaken`, `TpsCountsTicks` `exchanged`; without them TLC shows an unlocked mutex
  unlocked, one locked for ever, a speed lost and a rate of ticks that is too small or negative.

## Not modelled

* `simulation/radio.go`: floating-point formulas. Models take reachability and durations as sets. `simulation/ui`: display only.
* `pkg/economy`: two structures under a lock each, with prices in floating point, that only the demo calls; the simulation keeps balances of its own
  (SimLedger). Its `Subtract` does not look at the locked part (`pkg/economy/economy.go:42`), a hazard no run can show of a program that has no caller.
* `pkg/protocol`: encoding and decoding without state, and without a caller. `pkg/identity`: one hash. `cmd/demo`: a straight line of calls.
* In `pkg/crypto`: signatures, which the node checks once on its own bundle; `dhRatchetStep` and the end of a successful Decrypt, which no packet of the node
  reaches; message numbers, which are 0 in every header.
* In `simulation/main.go`: the sweep, which makes Worlds of its own, and the CSV export, which formats.
* In the modelled parts: `SpawnSybil` (replaces node objects), `SendMulticast` and `SendFirmwareUpdate` (nothing calls them), the second
  demurrage of offline nodes (`simulation/world.go:211`, never reached), the configuration each node keeps a pointer to (`simulation/world.go:69`),
  data races inside one phase of RunSteps on the message lists (checkCollisions is one step, and so is each append), node profiles and their random intervals, values of reputation.
* Expired values stay in the store until Cleanup, which nobody calls: no property asks for them to go.
* `src/modules/*.md` describe features without code (pending queue, erasure coding, gossip, bridges, …).

## Plan

Done, in this order: RelayQueue and its proofs, HopTracker, MockTransport, DhtTable, DhtStore and its proofs,
ProofOfHistory and its proofs, SimRouting, SimWorld, SimLedger, Onion, Session, SimServer, DhtRpc, then the proofs about HopTracker,
SimRouting, Session, MockTransport and SimServer, those about DhtRpc with its tables, SimWorld and SimLedger and the remaining
properties of Session, MockTransport and SimServer, and last the refinement of RelayQueue to its lanes and the proofs about Onion.

Next:

1. checkCollisions and the delivery loop, split into their reads and writes of the two lists, beside LoadTest's appends.
2. **Balance** (`pkg/economy`), once something calls it: an account with reservations as its abstract specification.
3. Proofs: of the liveness properties what can be said without ENABLED, first that the goroutines of MockTransport never wait on each other in a circle.
