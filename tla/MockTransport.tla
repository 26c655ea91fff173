--------------------------- MODULE MockTransport ---------------------------
(***************************************************************************)
(* The in-memory transports of pkg/transport/mock.go, lock by lock.  Each  *)
(* transport has a sync.RWMutex, a map of peers, a bounded inbox channel   *)
(* and a handler; goroutines call its methods concurrently.                *)
(*                                                                         *)
(* A goroutine ("thread") is idle or inside one call, at the point its pc  *)
(* names.  A step is what happens between two points where another thread  *)
(* can matter: taking a lock, or touching shared state outside one.  A     *)
(* short read section is one step, possible when the lock can be read;     *)
(* releasing a lock is part of the step before it.                         *)
(*                                                                         *)
(* The lock is Go's: Lock first announces the writer, which keeps new      *)
(* readers out, and then waits for the readers it found.  Transports are   *)
(* identified with their peerIDs, which callers give them uniquely.        *)
(***************************************************************************)
EXTENDS Integers, Sequences, FiniteSets, SequencesExt

CONSTANTS Transports,
          Threads,
          Nobody,       \* no thread
          Cap,          \* capacity of an inbox (256 in the code)
          CallsOf,      \* CallsOf[t]: the calls thread t may make
          MaxCalls,     \* bound: MaxCalls[t] is how many calls thread t makes
          PeersAtStart  \* PeersAtStart[m]: peers connected beforehand

Operations == {"connect", "disconnect", "send", "broadcast", "close",
               "setHandler", "clearHandler"}

\* A call is a method of transport m; o is the other transport that Connect,
\* Disconnect and Send are given, and the loop variable of Broadcast and Close.
AllCalls == [op : Operations, m : Transports, o : Transports]

NoCall == [op |-> "none"]

ASSUME CapAssumption == Cap \in Nat
ASSUME NobodyAssumption == Nobody \notin Threads
ASSUME CallsAssumption == /\ CallsOf \in [Threads -> SUBSET AllCalls]
                          /\ MaxCalls \in [Threads -> Nat]
ASSUME PeersAssumption ==
  /\ PeersAtStart \in [Transports -> SUBSET Transports]
  /\ \A m, o \in Transports : o \in PeersAtStart[m] => m \in PeersAtStart[o]

VARIABLES peers,        \* peers[m]: the keys of m.peers
          closed,       \* transports whose inbox channel is closed
          inbox,        \* inbox[m]: the packets in the channel
          handled,      \* handled[m]: the packets m.handler was called with
          arrived,      \* arrived[m]: the packets read from m.Recv()
          handler,      \* transports whose handler is set
          writer,       \* writer[m]: the thread that announced itself on m.mu
          readers,      \* readers[m]: the threads that hold m.mu for reading
          pc,           \* pc[t]: where thread t is
          call,         \* call[t]: the call thread t is in
          todo,         \* todo[t]: the peers its range loop has yet to visit
          made,         \* made[t]: the calls t has begun
          crashed,      \* the panic that ended the program, or "no"
          relinked      \* history: transports Connect named after their Close

maps == <<peers, closed, relinked>>
mail == <<inbox, handled, arrived>>
locks == <<writer, readers>>
vars == <<maps, mail, handler, locks, pc, call, todo, made, crashed>>

Points == {"idle", "lockM", "waitM", "lockO", "waitO", "sweep", "waitPeer",
           "range", "lookup", "put", "checkHandler", "callHandler"}

Panics == {"no", "closeOfClosed", "sendOnClosed", "nilHandler"}

Packets == [from : Transports, by : Threads, n : Nat]

Init == /\ peers = PeersAtStart
        /\ closed = {} /\ relinked = {}
        /\ inbox = [m \in Transports |-> << >>]
        /\ handled = [m \in Transports |-> << >>]
        /\ arrived = [m \in Transports |-> << >>]
        /\ handler = {}
        /\ writer = [m \in Transports |-> Nobody]
        /\ readers = [m \in Transports |-> {}]
        /\ pc = [t \in Threads |-> "idle"]
        /\ call = [t \in Threads |-> NoCall]
        /\ todo = [t \in Threads |-> {}]
        /\ made = [t \in Threads |-> 0]
        /\ crashed = "no"

-----------------------------------------------------------------------------
(* Locks and control. *)

At(t, point) == crashed = "no" /\ pc[t] = point

\* The thread goes on with its call, or the call is over.
Goto(t, point) == /\ pc' = [pc EXCEPT ![t] = point]
                  /\ UNCHANGED call

Return(t) == /\ pc' = [pc EXCEPT ![t] = "idle"]
             /\ call' = [call EXCEPT ![t] = NoCall]

\* A panic nothing recovers from ends the program.
Panic(reason) == crashed' = reason /\ UNCHANGED <<pc, call>>

\* m.mu can be read: no writer holds it or waits for it.
CanRead(m) == writer[m] = Nobody

\* First half of m.mu.Lock(): one writer at a time announces itself.
Announce(t, m) == /\ writer[m] = Nobody
                  /\ writer' = [writer EXCEPT ![m] = t]
                  /\ UNCHANGED readers

\* Second half: the readers that were inside have left.
Acquired(m) == readers[m] = {}

\* Mutant of Release: an early return skips one of two Unlocks.
ReleaseOne(ms) ==
  /\ writer' = [writer EXCEPT ![CHOOSE m \in ms : TRUE] = Nobody]
  /\ UNCHANGED readers

Release(ms) == /\ writer' = [m \in Transports |-> IF m \in ms THEN Nobody
                                                 ELSE writer[m]]
               /\ UNCHANGED readers

-----------------------------------------------------------------------------
(* A thread begins a call. *)

FirstPoint(op) ==
  CASE op \in {"connect", "disconnect", "close"} -> "lockM"
    [] op = "send" -> "lookup"
    [] op = "broadcast" -> "range"

Enter(t) == /\ At(t, "idle") /\ made[t] < MaxCalls[t]
            /\ made' = [made EXCEPT ![t] = @ + 1]

Begin(t, c) ==
  /\ c.op \in {"connect", "disconnect", "close", "send"}
  /\ Enter(t)
  /\ pc' = [pc EXCEPT ![t] = FirstPoint(c.op)]
  /\ call' = [call EXCEPT ![t] = c]
  /\ UNCHANGED <<maps, mail, handler, locks, todo, crashed>>

\* Broadcast takes a read lock that it keeps for the whole call.
BeginBroadcast(t, c) ==
  /\ c.op = "broadcast"
  /\ Enter(t)
  /\ CanRead(c.m)
  /\ readers' = [readers EXCEPT ![c.m] = @ \cup {t}]
  /\ todo' = [todo EXCEPT ![t] = peers[c.m]]
  /\ pc' = [pc EXCEPT ![t] = FirstPoint(c.op)]
  /\ call' = [call EXCEPT ![t] = c]
  /\ UNCHANGED <<maps, mail, handler, writer, crashed>>

\* SetHandler, with a function or with nil, writes the field under no lock.
SetHandler(t, c) ==
  /\ c.op \in {"setHandler", "clearHandler"}
  /\ Enter(t)
  /\ handler' = IF c.op = "setHandler" THEN handler \cup {c.m}
                ELSE handler \ {c.m}
  /\ UNCHANGED <<maps, mail, locks, pc, call, todo, crashed>>

\* The method's own lock: m.mu.Lock().
LockM(t) ==
  /\ At(t, "lockM")
  /\ Announce(t, call[t].m)
  /\ Goto(t, "waitM")
  /\ UNCHANGED <<maps, mail, handler, todo, made, crashed>>

-----------------------------------------------------------------------------
(* Connect and Disconnect hold both locks while they edit both maps. *)

HaveM(t) ==
  /\ At(t, "waitM") /\ call[t].op # "close"
  /\ Acquired(call[t].m)
  /\ Goto(t, "lockO")
  /\ UNCHANGED <<maps, mail, handler, locks, todo, made, crashed>>

LockO(t) ==
  /\ At(t, "lockO")
  /\ Announce(t, call[t].o)
  /\ Goto(t, "waitO")
  /\ UNCHANGED <<maps, mail, handler, todo, made, crashed>>

\* Mutant of Linked: Connect forgets the entry in the other map.
LinkedOneWay(m, o) == [peers EXCEPT ![m] = @ \cup {o}]

Linked(m, o) == [peers EXCEPT ![m] = @ \cup {o}, ![o] = @ \cup {m}]

Unlinked(m, o) == [peers EXCEPT ![m] = @ \ {o}, ![o] = @ \ {m}]

Edit(t) ==
  LET m == call[t].m
      o == call[t].o
  IN  /\ At(t, "waitO")
      /\ Acquired(o)
      /\ IF call[t].op = "connect"
         THEN /\ peers' = Linked(m, o)
              /\ relinked' = relinked \cup ({m, o} \cap closed)
         ELSE /\ peers' = Unlinked(m, o)
              /\ UNCHANGED relinked
      /\ Release({m, o})
      /\ Return(t)
      /\ UNCHANGED <<closed, mail, handler, todo, made, crashed>>

-----------------------------------------------------------------------------
(* Close keeps m.mu while it locks its peers one after the other. *)

CloseInbox(t) ==
  LET m == call[t].m
  IN  /\ At(t, "waitM") /\ call[t].op = "close"
      /\ Acquired(m)
      /\ IF m \in closed
         THEN /\ Panic("closeOfClosed")
              /\ UNCHANGED <<closed, todo>>
         ELSE /\ closed' = closed \cup {m}
              /\ todo' = [todo EXCEPT ![t] = peers[m]]
              /\ Goto(t, "sweep")
              /\ UNCHANGED crashed
      /\ UNCHANGED <<peers, relinked, mail, handler, locks, made>>

\* The next peer p of the range loop: p.mu.Lock().
LockPeer(t) ==
  /\ At(t, "sweep")
  /\ \E p \in todo[t] : /\ Announce(t, p)
                        /\ call' = [call EXCEPT ![t].o = p]
                        /\ todo' = [todo EXCEPT ![t] = @ \ {p}]
  /\ pc' = [pc EXCEPT ![t] = "waitPeer"]
  /\ UNCHANGED <<maps, mail, handler, made, crashed>>

\* Mutant of Swept: the peer keeps its entry for the closed transport.
SweptNothing(m, p) == peers

Swept(m, p) == [peers EXCEPT ![p] = @ \ {m}]

SweepPeer(t) ==
  /\ At(t, "waitPeer")
  /\ Acquired(call[t].o)
  /\ peers' = Swept(call[t].m, call[t].o)
  /\ Release({call[t].o})
  /\ Goto(t, "sweep")
  /\ UNCHANGED <<closed, relinked, mail, handler, todo, made, crashed>>

CloseDone(t) ==
  /\ At(t, "sweep") /\ todo[t] = {}
  /\ peers' = [peers EXCEPT ![call[t].m] = {}]
  /\ Release({call[t].m})
  /\ Return(t)
  /\ UNCHANGED <<closed, relinked, mail, handler, todo, made, crashed>>

-----------------------------------------------------------------------------
(* Send, and Broadcast, which calls Send for each peer while it holds m.mu *)
(* for reading; Send takes m.mu for reading again.                         *)

BroadcastNext(t) ==
  /\ At(t, "range") /\ todo[t] # {}
  /\ \E p \in todo[t] : /\ call' = [call EXCEPT ![t].o = p]
                        /\ todo' = [todo EXCEPT ![t] = @ \ {p}]
  /\ pc' = [pc EXCEPT ![t] = "lookup"]
  /\ UNCHANGED <<maps, mail, handler, locks, made, crashed>>

BroadcastDone(t) ==
  /\ At(t, "range") /\ todo[t] = {}
  /\ readers' = [readers EXCEPT ![call[t].m] = @ \ {t}]
  /\ Return(t)
  /\ UNCHANGED <<maps, mail, handler, writer, todo, made, crashed>>

\* Send returns to the loop of Broadcast or to its caller.
SendReturns(t) == IF call[t].op = "broadcast" THEN Goto(t, "range")
                  ELSE Return(t)

\* RLock, read m.peers, RUnlock.  An unknown peer ends the call with nil.
Lookup(t) ==
  /\ At(t, "lookup")
  /\ CanRead(call[t].m)
  /\ IF call[t].o \in peers[call[t].m] THEN Goto(t, "put") ELSE SendReturns(t)
  /\ UNCHANGED <<maps, mail, handler, locks, todo, made, crashed>>

Message(t) == [from |-> call[t].m, by |-> t, n |-> made[t]]

HasRoom(p) == Len(inbox[p]) < Cap

\* The select: a closed channel panics, a full one drops the packet.
Put(t) ==
  /\ At(t, "put")
  /\ call[t].o \notin closed
  /\ HasRoom(call[t].o)
  /\ inbox' = [inbox EXCEPT ![call[t].o] = Append(@, Message(t))]
  /\ Goto(t, "checkHandler")
  /\ UNCHANGED <<maps, handled, arrived, handler, locks, todo, made, crashed>>

\* Mutant of Drop: the handler is called for a packet that was dropped.
DropButHandle(t) ==
  /\ At(t, "put")
  /\ call[t].o \notin closed /\ ~ HasRoom(call[t].o)
  /\ Goto(t, "checkHandler")
  /\ UNCHANGED <<maps, mail, handler, locks, todo, made, crashed>>

Drop(t) ==
  /\ At(t, "put")
  /\ call[t].o \notin closed /\ ~ HasRoom(call[t].o)
  /\ SendReturns(t)
  /\ UNCHANGED <<maps, mail, handler, locks, todo, made, crashed>>

PutPanics(t) ==
  /\ At(t, "put")
  /\ call[t].o \in closed
  /\ Panic("sendOnClosed")
  /\ UNCHANGED <<maps, mail, handler, locks, todo, made>>

\* peer.handler != nil ...
CheckHandler(t) ==
  /\ At(t, "checkHandler")
  /\ IF call[t].o \in handler THEN Goto(t, "callHandler") ELSE SendReturns(t)
  /\ UNCHANGED <<maps, mail, handler, locks, todo, made, crashed>>

\* ... and the call, which reads the field again, on the sender's goroutine.
CallHandler(t) ==
  LET p == call[t].o
  IN  /\ At(t, "callHandler")
      /\ IF p \in handler
         THEN /\ handled' = [handled EXCEPT ![p] = Append(@, Message(t))]
              /\ SendReturns(t)
              /\ UNCHANGED crashed
         ELSE /\ Panic("nilHandler")
              /\ UNCHANGED handled
      /\ UNCHANGED <<maps, inbox, arrived, handler, locks, todo, made>>

-----------------------------------------------------------------------------
\* Somebody reads a packet from m.Recv(); what is in a channel when it is
\* closed can still be read.
Receive(m) ==
  /\ crashed = "no"
  /\ inbox[m] # << >>
  /\ arrived' = [arrived EXCEPT ![m] = Append(@, Head(inbox[m]))]
  /\ inbox' = [inbox EXCEPT ![m] = Tail(@)]
  /\ UNCHANGED <<maps, handled, handler, locks, pc, call, todo, made, crashed>>

\* The steps of a call once it has begun.
Continue(t) ==
  \/ LockM(t) \/ HaveM(t) \/ LockO(t) \/ Edit(t)
  \/ CloseInbox(t) \/ LockPeer(t) \/ SweepPeer(t) \/ CloseDone(t)
  \/ BroadcastNext(t) \/ BroadcastDone(t)
  \/ Lookup(t) \/ Put(t) \/ Drop(t) \/ PutPanics(t)
  \/ CheckHandler(t) \/ CallHandler(t)

Next == \/ \E t \in Threads :
             \/ \E c \in CallsOf[t] :
                  Begin(t, c) \/ BeginBroadcast(t, c) \/ SetHandler(t, c)
             \/ Continue(t)
        \/ \E m \in Transports : Receive(m)

Spec == Init /\ [][Next]_vars

\* The Go scheduler runs every goroutine that can run.  Nobody has to begin
\* another call, and the calls are few enough for each lock to come free.
FairSpec == Spec /\ \A t \in Threads : WF_vars(Continue(t))

-----------------------------------------------------------------------------
TypeOK == /\ peers \in [Transports -> SUBSET Transports]
          /\ closed \subseteq Transports /\ relinked \subseteq closed
          /\ \A log \in {inbox, handled, arrived} :
               DOMAIN log = Transports
                 /\ \A m \in Transports : log[m] \in Seq(Packets)
          /\ \A m \in Transports : Len(inbox[m]) <= Cap
          /\ handler \subseteq Transports
          /\ writer \in [Transports -> Threads \cup {Nobody}]
          /\ readers \in [Transports -> SUBSET Threads]
          /\ pc \in [Threads -> Points]
          /\ call \in [Threads -> AllCalls \cup {NoCall}]
          /\ todo \in [Threads -> SUBSET Transports]
          /\ \A t \in Threads : made[t] \in 0..MaxCalls[t]
          /\ crashed \in Panics

\* Thread t waits in the second half of Lock for the readers of m to leave.
Waiting(t, m) == \/ pc[t] = "waitM" /\ call[t].m = m
                 \/ pc[t] \in {"waitO", "waitPeer"} /\ call[t].o = m

WriteHeld(m) == \E t \in Threads : writer[m] = t /\ ~ Waiting(t, m)

\* Outside the critical sections the two maps of a link agree: Connect,
\* Disconnect and Close of any number of goroutines never leave a transport
\* that knows another which does not know it.  (And TypeOK: among other things,
\* no inbox is ever overfull.)
SymmetricLinks ==
  /\ TypeOK
  /\ \A m, o \in Transports :
       ~ WriteHeld(m) /\ ~ WriteHeld(o) => (o \in peers[m] <=> m \in peers[o])

\* Once Close(m) has let go of m no lookup of a peer finds m any more, unless
\* somebody connects it again: a Send that panics on m's closed channel looked
\* m up before Close returned.
ClosedIsUnreachable ==
  \A m \in closed \ relinked, o \in Transports :
    ~ WriteHeld(m) /\ ~ WriteHeld(o) => m \notin peers[o]

\* The packets of one goroutine, in the order it sent them.
InSendingOrder(log) ==
  \A i, j \in 1..Len(log) : i < j /\ log[i].by = log[j].by => log[i].n < log[j].n

\* Each packet is delivered twice, to the handler and to the inbox.  For the
\* packets of one goroutine the two agree: the handler never sees a packet the
\* inbox dropped, neither sees one twice, and both see them as they were sent.
HandlerFollowsInbox ==
  \A m \in Transports :
    LET delivered == arrived[m] \o inbox[m]
    IN  /\ ToSet(handled[m]) \subseteq ToSet(delivered)
        /\ InSendingOrder(handled[m]) /\ InSendingOrder(delivered)

InCall(t, ops) == pc[t] # "idle" /\ call[t].op \in ops

TwoLockWriters == {"connect", "disconnect", "close"}

\* No thread can go on, and at least two are in calls that can deadlock: two
\* that each lock two transports, or a Broadcast, which reads its lock twice,
\* with a writer.
Deadlocked ==
  /\ \A t \in Threads : ~ ENABLED Continue(t)
  /\ \E t, u \in Threads : /\ t # u
                            /\ InCall(t, TwoLockWriters)
                            /\ InCall(u, TwoLockWriters \cup {"broadcast"})

\* Every call returns unless the program panics or two such calls deadlock.
\* Sends and calls that take one lock at a time never wait for ever on their
\* own account, and no early return leaves a lock behind.
CallsReturn ==
  \A t \in Threads :
    pc[t] # "idle" ~> pc[t] = "idle" \/ crashed # "no" \/ Deadlocked
=============================================================================
