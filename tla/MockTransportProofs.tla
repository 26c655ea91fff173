------------------------ MODULE MockTransportProofs ------------------------
(***************************************************************************)
(* Theorems about MockTransport: types, and that links are symmetric and   *)
(* closed transports out of reach, and that the handler is called for what *)
(* the inbox took, for any transports, any goroutines and any calls.       *)
(***************************************************************************)
EXTENDS MockTransport, SequenceTheorems, TLAPS

\* The points of a call, by the method; "idle" is outside of any.
PointsOf(op) ==
  CASE op \in {"connect", "disconnect"} -> {"lockM", "waitM", "lockO", "waitO"}
    [] op = "close" -> {"lockM", "waitM", "sweep", "waitPeer"}
    [] OTHER -> {"range", "lookup", "put", "checkHandler", "callHandler"}

InItsCall ==
  \A t \in Threads : pc[t] # "idle" => /\ call[t] \in AllCalls
                                       /\ pc[t] \in PointsOf(call[t].op)

\* A goroutine is the writer of the locks its point says it holds or waits for;
\* the second one is another than the first.
LocksOwned ==
  \A t \in Threads :
    /\ pc[t] \in {"waitM", "lockO", "waitO", "sweep", "waitPeer"} =>
         writer[call[t].m] = t
    /\ pc[t] \in {"waitO", "waitPeer"} =>
         writer[call[t].o] = t /\ call[t].m # call[t].o

Closing(t, m) == pc[t] \in {"sweep", "waitPeer"} /\ call[t].m = m

\* Close of m has been at o, or o was none of its peers.
Passed(t, m, o) == /\ Closing(t, m) /\ o \notin todo[t]
                   /\ pc[t] = "waitPeer" => call[t].o # o

NotTwice == \A t \in Threads : pc[t] = "waitPeer" => call[t].o \notin todo[t]

\* A link is known to one side only while that side is closed, and has taken
\* itself out of the other.
OneSided ==
  \A m, o \in Transports :
    o \in peers[m] /\ m \notin peers[o] => \E t \in Threads : Passed(t, m, o)

\* A transport that is closed is left in a peer it has passed only if that one
\* is closed too, and was there before.
PassedForgets ==
  \A t \in Threads, m, o \in Transports :
    Passed(t, m, o) /\ m \in peers[o] => \E u \in Threads : Passed(u, o, m)

\* Who knows a transport that was closed: who has yet to be told, and who is
\* closed itself.
ClosedKnown ==
  \A m \in closed \ relinked, o \in Transports :
    m \in peers[o] => \E t \in Threads : Closing(t, m) \/ Passed(t, o, m)

Links == OneSided /\ PassedForgets /\ ClosedKnown

\* TypeOK, with the three kinds of mail side by side.
MapsTyped == /\ peers \in [Transports -> SUBSET Transports]
             /\ closed \subseteq Transports /\ relinked \subseteq closed
MailTyped == /\ inbox \in [Transports -> Seq(Packets)]
             /\ handled \in [Transports -> Seq(Packets)]
             /\ arrived \in [Transports -> Seq(Packets)]
             /\ \A m \in Transports : Len(inbox[m]) <= Cap
LocksTyped == /\ writer \in [Transports -> Threads \cup {Nobody}]
              /\ readers \in [Transports -> SUBSET Threads]
ControlTyped == /\ pc \in [Threads -> Points]
                /\ call \in [Threads -> AllCalls \cup {NoCall}]
                /\ todo \in [Threads -> SUBSET Transports]
                /\ made \in [Threads -> Nat]
                /\ \A t \in Threads : made[t] <= MaxCalls[t]
                /\ handler \subseteq Transports
                /\ crashed \in Panics

Types == MapsTyped /\ MailTyped /\ LocksTyped /\ ControlTyped

Control == InItsCall /\ LocksOwned /\ NotTwice

IInv == Types /\ Control /\ Links

-----------------------------------------------------------------------------
LEMMA InitIInv == Init => IInv
<1> SUFFICES ASSUME Init PROVE IInv
  OBVIOUS
<1> USE DEF Init
<1>1. MapsTyped
  BY PeersAssumption DEF MapsTyped
<1>2. MailTyped
  BY CapAssumption DEF MailTyped
<1>3. LocksTyped
  BY DEF LocksTyped
<1>4. ControlTyped
  BY CallsAssumption DEF ControlTyped, Points, Panics
<1>5. Control
  BY DEF Control, InItsCall, LocksOwned, NotTwice
<1>6. OneSided
  BY PeersAssumption DEF OneSided
<1>7. PassedForgets /\ ClosedKnown
  BY DEF PassedForgets, ClosedKnown, Passed, Closing
<1> QED BY <1>1, <1>2, <1>3, <1>4, <1>5, <1>6, <1>7 DEF IInv, Types, Links

\* A step that neither changes what transports know of each other nor begins,
\* advances or ends a Close.
LEMMA LinksStay ==
  ASSUME IInv, UNCHANGED maps,
         \A u \in Threads, m \in Transports : Closing(u, m)' <=> Closing(u, m),
         \A u \in Threads, m, o \in Transports : Passed(u, m, o)' <=> Passed(u, m, o)
  PROVE  Links'
<1>1. OneSided'
  BY DEF IInv, Links, OneSided, maps
<1>2. PassedForgets'
  BY DEF IInv, Links, PassedForgets, maps
<1>3. ClosedKnown'
  <2> SUFFICES ASSUME NEW m \in closed \ relinked, NEW o \in Transports, m \in peers[o],
                      m \in Transports
               PROVE  \E t \in Threads : (Closing(t, m) \/ Passed(t, o, m))'
    BY DEF ClosedKnown, maps, IInv, Types, MapsTyped
  <2>1. PICK t \in Threads : Closing(t, m) \/ Passed(t, o, m)
    BY DEF IInv, Links, ClosedKnown
  <2> QED BY <2>1
<1> QED BY <1>1, <1>2, <1>3 DEF Links

\* No goroutine moves.
LEMMA NobodyMoves ==
  ASSUME IInv, UNCHANGED <<maps, locks, pc, call, todo>>, MailTyped', ControlTyped'
  PROVE  IInv'
<1>1. MapsTyped' /\ LocksTyped'
  BY DEF IInv, Types, MapsTyped, LocksTyped, maps, locks
<1>2. Control'
  BY DEF IInv, Control, InItsCall, LocksOwned, NotTwice, locks
<1>3. Links'
  BY LinksStay DEF Passed, Closing
<1> QED BY <1>1, <1>2, <1>3 DEF IInv, Types

\* One goroutine moves: its own point must be in order; the locks of the others
\* are theirs still, and what they have of a Close before them.
LEMMA ControlMoves ==
  ASSUME IInv, NEW t \in Threads, NEW point \in Points, NEW c \in AllCalls \cup {NoCall},
         NEW rest \in SUBSET Transports,
         pc' = [pc EXCEPT ![t] = point], call' = [call EXCEPT ![t] = c],
         todo' = [todo EXCEPT ![t] = rest],
         point # "idle" => c \in AllCalls /\ point \in PointsOf(c.op),
         MapsTyped', MailTyped', LocksTyped',
         \A u \in Threads, m \in Transports :
           u # t /\ writer[m] = u => writer'[m] = u,
         point \in {"waitM", "lockO", "waitO", "sweep", "waitPeer"} => writer'[c.m] = t,
         point \in {"waitO", "waitPeer"} => writer'[c.o] = t /\ c.m # c.o,
         point = "waitPeer" => c.o \notin rest,
         made' \in [Threads -> Nat], \A u \in Threads : made'[u] <= MaxCalls[u],
         handler' \subseteq Transports, crashed' \in Panics
  PROVE  /\ Types' /\ Control'
         /\ \A u \in Threads, m \in Transports : u # t =>
              /\ Closing(u, m)' <=> Closing(u, m)
              /\ \A o \in Transports : Passed(u, m, o)' <=> Passed(u, m, o)
<1>1. /\ pc \in [Threads -> Points] /\ call \in [Threads -> AllCalls \cup {NoCall}]
      /\ todo \in [Threads -> SUBSET Transports]
  BY DEF IInv, Types, ControlTyped
<1>2. /\ pc'[t] = point /\ call'[t] = c /\ todo'[t] = rest
      /\ \A u \in Threads : u # t =>
           pc'[u] = pc[u] /\ call'[u] = call[u] /\ todo'[u] = todo[u]
  BY <1>1
<1>3. Types'
  <2>1. ControlTyped'
    BY <1>1 DEF ControlTyped
  <2> QED BY <2>1 DEF Types
<1>4. InItsCall'
  BY <1>2 DEF IInv, Control, InItsCall
<1>5. LocksOwned'
  <2>1. ASSUME NEW u \in Threads, u # t
        PROVE  /\ pc[u] \in {"waitM", "lockO", "waitO", "sweep", "waitPeer"} =>
                    writer'[call[u].m] = u
               /\ pc[u] \in {"waitO", "waitPeer"} =>
                    writer'[call[u].o] = u /\ call[u].m # call[u].o
    <3>1. pc[u] # "idle" => call[u].m \in Transports /\ call[u].o \in Transports
      BY DEF IInv, Control, InItsCall, AllCalls
    <3> QED BY <2>1, <3>1 DEF IInv, Control, LocksOwned
  <2> QED BY <1>2, <2>1 DEF LocksOwned
<1>6. NotTwice'
  BY <1>2 DEF IInv, Control, NotTwice
<1>7. \A u \in Threads, m \in Transports : u # t =>
        /\ Closing(u, m)' <=> Closing(u, m)
        /\ \A o \in Transports : Passed(u, m, o)' <=> Passed(u, m, o)
  BY <1>2 DEF Closing, Passed
<1> QED BY <1>3, <1>4, <1>5, <1>6, <1>7 DEF Control

\* One goroutine moves, which is not in the loop of Close, before or after.
LEMMA OneMoves ==
  ASSUME IInv, NEW t \in Threads, NEW point \in Points, NEW c \in AllCalls \cup {NoCall},
         NEW rest \in SUBSET Transports,
         pc' = [pc EXCEPT ![t] = point], call' = [call EXCEPT ![t] = c],
         todo' = [todo EXCEPT ![t] = rest],
         pc[t] \notin {"sweep", "waitPeer"}, point \notin {"sweep", "waitPeer"},
         point # "idle" => c \in AllCalls /\ point \in PointsOf(c.op),
         UNCHANGED maps, MailTyped', LocksTyped',
         \A u \in Threads, m \in Transports :
           u # t /\ writer[m] = u => writer'[m] = u,
         point \in {"waitM", "lockO", "waitO"} => writer'[c.m] = t,
         point = "waitO" => writer'[c.o] = t /\ c.m # c.o,
         made' \in [Threads -> Nat], \A u \in Threads : made'[u] <= MaxCalls[u],
         handler' \subseteq Transports, crashed' \in Panics
  PROVE  IInv'
<1>1. MapsTyped'
  BY DEF IInv, Types, MapsTyped, maps
<1>2. /\ Types' /\ Control'
      /\ \A u \in Threads, m \in Transports : u # t =>
           /\ Closing(u, m)' <=> Closing(u, m)
           /\ \A o \in Transports : Passed(u, m, o)' <=> Passed(u, m, o)
  BY <1>1, ControlMoves
<1>3. pc' [t] = point
  BY DEF IInv, Types, ControlTyped
<1>4. \A m \in Transports : ~ Closing(t, m) /\ ~ Closing(t, m)'
  BY <1>3 DEF Closing
<1>5. /\ \A u \in Threads, m \in Transports : Closing(u, m)' <=> Closing(u, m)
      /\ \A u \in Threads, m, o \in Transports : Passed(u, m, o)' <=> Passed(u, m, o)
  BY <1>2, <1>4 DEF Passed
<1>6. Links'
  BY <1>5, LinksStay
<1> QED BY <1>2, <1>6 DEF IInv

-----------------------------------------------------------------------------
(* Beginning a call. *)

\* What Enter adds to made keeps its bound.
LEMMA EnterCounts ==
  ASSUME Types, NEW t \in Threads, Enter(t)
  PROVE  /\ made' \in [Threads -> Nat]
         /\ \A u \in Threads : made'[u] <= MaxCalls[u]
<1>1. made \in [Threads -> Nat] /\ MaxCalls \in [Threads -> Nat]
      /\ \A u \in Threads : made[u] <= MaxCalls[u]
  BY CallsAssumption DEF Types, ControlTyped
<1>2. made' = [made EXCEPT ![t] = @ + 1] /\ made[t] < MaxCalls[t]
  BY DEF Enter
<1> QED BY <1>1, <1>2

LEMMA BeginKeeps ==
  ASSUME IInv, NEW t \in Threads, NEW c \in CallsOf[t], Begin(t, c)
  PROVE  IInv'
<1>1. c \in AllCalls
  BY CallsAssumption
<1>2. Types
  BY DEF IInv
<1>3. /\ pc' = [pc EXCEPT ![t] = FirstPoint(c.op)] /\ call' = [call EXCEPT ![t] = c]
      /\ UNCHANGED <<maps, mail, handler, locks, todo, crashed>>
      /\ Enter(t) /\ pc[t] = "idle"
      /\ c.op \in {"connect", "disconnect", "close", "send"}
  BY DEF Begin, Enter, At
<1>4. /\ FirstPoint(c.op) \in Points /\ FirstPoint(c.op) \in PointsOf(c.op)
      /\ FirstPoint(c.op) \notin {"sweep", "waitPeer", "waitM", "lockO", "waitO"}
  BY <1>3 DEF FirstPoint, Points, PointsOf
<1>5. /\ made' \in [Threads -> Nat]
      /\ \A u \in Threads : made'[u] <= MaxCalls[u]
  BY <1>2, <1>3, EnterCounts
<1>6. /\ MailTyped' /\ LocksTyped' /\ handler' \subseteq Transports /\ crashed' \in Panics
      /\ writer' = writer
  BY <1>2, <1>3 DEF Types, MailTyped, LocksTyped, ControlTyped, mail, locks
<1>7. todo' = [todo EXCEPT ![t] = todo[t]] /\ todo[t] \in SUBSET Transports
  BY <1>2, <1>3 DEF Types, ControlTyped
<1> QED BY <1>1, <1>3, <1>4, <1>5, <1>6, <1>7, OneMoves

LEMMA BeginBroadcastKeeps ==
  ASSUME IInv, NEW t \in Threads, NEW c \in CallsOf[t], BeginBroadcast(t, c)
  PROVE  IInv'
<1>1. c \in AllCalls /\ c.m \in Transports
  BY CallsAssumption DEF AllCalls
<1>2. Types
  BY DEF IInv
<1>3. /\ pc' = [pc EXCEPT ![t] = "range"] /\ call' = [call EXCEPT ![t] = c]
      /\ todo' = [todo EXCEPT ![t] = peers[c.m]]
      /\ readers' = [readers EXCEPT ![c.m] = @ \cup {t}]
      /\ UNCHANGED <<maps, mail, handler, writer, crashed>>
      /\ Enter(t) /\ pc[t] = "idle" /\ c.op = "broadcast"
  BY DEF BeginBroadcast, FirstPoint, Enter, At
<1>4. "range" \in Points /\ "range" \in PointsOf(c.op)
  BY <1>3 DEF Points, PointsOf
<1>5. /\ made' \in [Threads -> Nat]
      /\ \A u \in Threads : made'[u] <= MaxCalls[u]
  BY <1>2, <1>3, EnterCounts
<1>6. MailTyped' /\ handler' \subseteq Transports /\ crashed' \in Panics
  BY <1>2, <1>3 DEF Types, MailTyped, ControlTyped, mail
<1>7. LocksTyped'
  BY <1>1, <1>2, <1>3 DEF Types, LocksTyped
<1>8. peers[c.m] \in SUBSET Transports
  BY <1>1, <1>2 DEF Types, MapsTyped
<1> QED BY <1>1, <1>3, <1>4, <1>5, <1>6, <1>7, <1>8, OneMoves

LEMMA SetHandlerKeeps ==
  ASSUME IInv, NEW t \in Threads, NEW c \in CallsOf[t], SetHandler(t, c)
  PROVE  IInv'
<1>1. c.m \in Transports
  BY CallsAssumption DEF AllCalls
<1>2. Types
  BY DEF IInv
<1>3. /\ UNCHANGED <<maps, mail, locks, pc, call, todo, crashed>>
      /\ Enter(t) /\ handler' \in {handler \cup {c.m}, handler \ {c.m}}
  BY DEF SetHandler
<1>4. ControlTyped'
  BY <1>1, <1>2, <1>3, EnterCounts DEF Types, ControlTyped
<1>5. MailTyped'
  BY <1>2, <1>3 DEF Types, MailTyped, mail
<1> QED BY <1>3, <1>4, <1>5, NobodyMoves

-----------------------------------------------------------------------------
(* Calls that hold locks. *)

\* A point of a call with what is known there.
LEMMA InCallFacts ==
  ASSUME IInv, NEW t \in Threads, pc[t] # "idle"
  PROVE  /\ call[t] \in AllCalls /\ call[t].m \in Transports
         /\ call[t].o \in Transports /\ pc[t] \in PointsOf(call[t].op)
BY DEF IInv, Control, InItsCall, AllCalls

LEMMA AnnounceFacts ==
  ASSUME IInv, NEW t \in Threads, NEW m \in Transports, Announce(t, m)
  PROVE  /\ LocksTyped' /\ writer'[m] = t /\ writer[m] \notin Threads
         /\ \A u \in Threads, o \in Transports : writer[o] = u => writer'[o] = u
BY NobodyAssumption DEF Announce, LocksTyped, IInv, Types

\* What a step leaves as it is keeps its type.
LEMMA TypesStay ==
  ASSUME Types
  PROVE  /\ UNCHANGED mail => MailTyped'
         /\ UNCHANGED locks => LocksTyped' /\ writer' = writer
         /\ UNCHANGED made => /\ made' \in [Threads -> Nat]
                              /\ \A u \in Threads : made'[u] <= MaxCalls[u]
         /\ UNCHANGED handler => handler' \subseteq Transports
         /\ UNCHANGED crashed => crashed' \in Panics
         /\ \A t \in Threads :
              /\ UNCHANGED todo => todo' = [todo EXCEPT ![t] = todo[t]]
              /\ UNCHANGED call => call' = [call EXCEPT ![t] = call[t]]
              /\ todo[t] \in SUBSET Transports /\ call[t] \in AllCalls \cup {NoCall}
BY DEF Types, MailTyped, LocksTyped, ControlTyped, mail, locks

LEMMA LockMKeeps == ASSUME IInv, NEW t \in Threads, LockM(t) PROVE IInv'
<1> DEFINE m == call[t].m
<1>1. /\ pc[t] = "lockM" /\ Announce(t, m)
      /\ pc' = [pc EXCEPT ![t] = "waitM"] /\ UNCHANGED call
      /\ UNCHANGED <<maps, mail, handler, todo, made, crashed>>
  BY DEF LockM, Goto, At
<1>2. /\ call[t] \in AllCalls /\ m \in Transports
      /\ "waitM" \in PointsOf(call[t].op) /\ "waitM" \in Points
  BY <1>1, InCallFacts DEF PointsOf, Points
<1>3. /\ LocksTyped' /\ writer'[m] = t
      /\ \A u \in Threads, o \in Transports : writer[o] = u => writer'[o] = u
  BY <1>1, <1>2, AnnounceFacts
<1>4. Types
  BY DEF IInv
<1>5. /\ MailTyped' /\ handler' \subseteq Transports /\ crashed' \in Panics
      /\ made' \in [Threads -> Nat] /\ \A u \in Threads : made'[u] <= MaxCalls[u]
      /\ todo' = [todo EXCEPT ![t] = todo[t]] /\ todo[t] \in SUBSET Transports
      /\ call' = [call EXCEPT ![t] = call[t]]
  BY <1>1, <1>4, TypesStay
<1>8. /\ pc' = [pc EXCEPT ![t] = "waitM"] /\ UNCHANGED maps
      /\ pc[t] \notin {"sweep", "waitPeer"}
  BY <1>1
<1> QED BY <1>8, <1>2, <1>3, <1>5, OneMoves

LEMMA HaveMKeeps == ASSUME IInv, NEW t \in Threads, HaveM(t) PROVE IInv'
<1>1. /\ pc[t] = "waitM" /\ call[t].op # "close"
      /\ pc' = [pc EXCEPT ![t] = "lockO"] /\ UNCHANGED call
      /\ UNCHANGED <<maps, mail, handler, locks, todo, made, crashed>>
  BY DEF HaveM, Goto, At
<1>2. /\ call[t] \in AllCalls
      /\ "lockO" \in PointsOf(call[t].op) /\ "lockO" \in Points
  BY <1>1, InCallFacts DEF PointsOf, Points
<1>3. writer[call[t].m] = t
  BY <1>1 DEF IInv, Control, LocksOwned
<1>4. Types
  BY DEF IInv
<1>5. /\ MailTyped' /\ handler' \subseteq Transports /\ crashed' \in Panics
      /\ made' \in [Threads -> Nat] /\ \A u \in Threads : made'[u] <= MaxCalls[u]
      /\ todo' = [todo EXCEPT ![t] = todo[t]] /\ todo[t] \in SUBSET Transports
      /\ call' = [call EXCEPT ![t] = call[t]]
  BY <1>1, <1>4, TypesStay
<1>6. LocksTyped' /\ writer' = writer
  BY <1>1, <1>4, TypesStay
<1>8. /\ pc' = [pc EXCEPT ![t] = "lockO"] /\ UNCHANGED maps
      /\ pc[t] \notin {"sweep", "waitPeer"}
  BY <1>1
<1> QED BY <1>8, <1>2, <1>3, <1>5, <1>6, OneMoves

LEMMA LockOKeeps == ASSUME IInv, NEW t \in Threads, LockO(t) PROVE IInv'
<1>1. /\ pc[t] = "lockO" /\ Announce(t, call[t].o)
      /\ pc' = [pc EXCEPT ![t] = "waitO"] /\ UNCHANGED call
      /\ UNCHANGED <<maps, mail, handler, todo, made, crashed>>
  BY DEF LockO, Goto, At
<1>2. /\ call[t] \in AllCalls /\ call[t].m \in Transports /\ call[t].o \in Transports
      /\ "waitO" \in PointsOf(call[t].op) /\ "waitO" \in Points
  BY <1>1, InCallFacts DEF PointsOf, Points
<1>3. /\ LocksTyped' /\ writer'[call[t].o] = t /\ writer[call[t].o] \notin Threads
      /\ \A u \in Threads, o \in Transports : writer[o] = u => writer'[o] = u
  BY <1>1, <1>2, AnnounceFacts
<1>4. writer[call[t].m] = t
  BY <1>1 DEF IInv, Control, LocksOwned
<1>5. call[t].m # call[t].o /\ writer'[call[t].m] = t
  BY <1>2, <1>3, <1>4
<1>6. Types
  BY DEF IInv
<1>7. /\ MailTyped' /\ handler' \subseteq Transports /\ crashed' \in Panics
      /\ made' \in [Threads -> Nat] /\ \A u \in Threads : made'[u] <= MaxCalls[u]
      /\ todo' = [todo EXCEPT ![t] = todo[t]] /\ todo[t] \in SUBSET Transports
      /\ call' = [call EXCEPT ![t] = call[t]]
  BY <1>1, <1>6, TypesStay
<1>8. /\ pc' = [pc EXCEPT ![t] = "waitO"] /\ UNCHANGED maps
      /\ pc[t] \notin {"sweep", "waitPeer"}
  BY <1>1
<1>9. /\ \A u \in Threads, m \in Transports : u # t /\ writer[m] = u => writer'[m] = u
      /\ LocksTyped' /\ writer'[call[t].m] = t
      /\ writer'[call[t].o] = t /\ call[t].m # call[t].o
  BY <1>3, <1>5
<1> QED BY <1>8, <1>2, <1>7, <1>9, OneMoves

-----------------------------------------------------------------------------
(* Send and Broadcast. *)

SendPoints == {"range", "lookup", "put", "checkHandler", "callHandler"}

LEMMA SendMoves ==
  ASSUME IInv, NEW t \in Threads, NEW point \in SendPoints \cup {"idle"},
         NEW c \in AllCalls \cup {NoCall}, NEW rest \in SUBSET Transports,
         pc[t] \in SendPoints,
         pc' = [pc EXCEPT ![t] = point], call' = [call EXCEPT ![t] = c],
         todo' = [todo EXCEPT ![t] = rest],
         point # "idle" => c \in AllCalls /\ c.op \notin {"connect", "disconnect", "close"},
         UNCHANGED <<maps, writer, made, handler>>,
         readers' \in [Transports -> SUBSET Threads], MailTyped', crashed' \in Panics
  PROVE  IInv'
<1>1. Types
  BY DEF IInv
<1>2. LocksTyped' /\ writer' = writer
  BY <1>1 DEF Types, LocksTyped
<1>3. /\ made' \in [Threads -> Nat] /\ \A u \in Threads : made'[u] <= MaxCalls[u]
      /\ handler' \subseteq Transports
  BY <1>1 DEF Types, ControlTyped
<1>4. /\ point \in Points /\ point \notin {"sweep", "waitPeer", "waitM", "lockO", "waitO"}
      /\ point # "idle" => c \in AllCalls /\ point \in PointsOf(c.op)
      /\ pc[t] \notin {"sweep", "waitPeer"}
  BY DEF Points, SendPoints, PointsOf
<1>5. UNCHANGED maps
  OBVIOUS
<1> QED BY <1>2, <1>3, <1>4, <1>5, OneMoves

\* The method of a goroutine that is at such a point.
LEMMA SendOps ==
  ASSUME IInv, NEW t \in Threads, pc[t] \in SendPoints
  PROVE  /\ call[t] \in AllCalls /\ call[t].op \notin {"connect", "disconnect", "close"}
         /\ call[t].m \in Transports /\ call[t].o \in Transports
         /\ todo[t] \in SUBSET Transports /\ Message(t) \in Packets
<1>1. pc[t] # "idle"
  BY DEF SendPoints
<1>2. call[t] \in AllCalls /\ pc[t] \in PointsOf(call[t].op)
      /\ call[t].m \in Transports /\ call[t].o \in Transports
  BY <1>1, InCallFacts
<1>3. call[t].op \notin {"connect", "disconnect", "close"}
  BY <1>2 DEF SendPoints, PointsOf
<1>4. todo[t] \in SUBSET Transports /\ made[t] \in Nat
  BY DEF IInv, Types, ControlTyped
<1>5. Message(t) \in Packets
  BY <1>2, <1>4 DEF Message, Packets
<1> QED BY <1>2, <1>3, <1>4, <1>5

LEMMA GotoKeeps ==
  ASSUME IInv, NEW t \in Threads, pc[t] \in SendPoints,
         NEW point \in SendPoints, Goto(t, point),
         UNCHANGED <<maps, locks, todo, made, handler>>, MailTyped', crashed' \in Panics
  PROVE  IInv'
<1>1. /\ call[t] \in AllCalls /\ call[t].op \notin {"connect", "disconnect", "close"}
      /\ todo[t] \in SUBSET Transports
  BY SendOps
<1>2. /\ pc' = [pc EXCEPT ![t] = point] /\ call' = [call EXCEPT ![t] = call[t]]
      /\ todo' = [todo EXCEPT ![t] = todo[t]]
      /\ readers' \in [Transports -> SUBSET Threads]
  BY DEF Goto, IInv, Types, ControlTyped, LocksTyped, locks
<1>3. UNCHANGED <<maps, writer, made, handler>>
  BY DEF locks
<1>4. point # "idle"
  BY DEF SendPoints
<1> QED BY <1>1, <1>2, <1>3, <1>4, SendMoves

LEMMA SendReturnsKeeps ==
  ASSUME IInv, NEW t \in Threads, pc[t] \in SendPoints, SendReturns(t),
         UNCHANGED <<maps, locks, todo, made, handler>>, MailTyped', crashed' \in Panics
  PROVE  IInv'
<1>1. CASE Goto(t, "range")
  BY <1>1, GotoKeeps DEF SendPoints
<1>2. CASE Return(t)
  <2>1. /\ pc' = [pc EXCEPT ![t] = "idle"] /\ call' = [call EXCEPT ![t] = NoCall]
        /\ todo' = [todo EXCEPT ![t] = todo[t]] /\ todo[t] \in SUBSET Transports
        /\ readers' \in [Transports -> SUBSET Threads]
    BY <1>2 DEF Return, IInv, Types, ControlTyped, LocksTyped, locks
  <2>2. UNCHANGED <<maps, writer, made, handler>>
    BY DEF locks
  <2> QED BY <2>1, <2>2, SendMoves
<1> QED BY <1>1, <1>2 DEF SendReturns

LEMMA BroadcastNextKeeps == ASSUME IInv, NEW t \in Threads, BroadcastNext(t) PROVE IInv'
<1>1. pc[t] = "range" /\ pc[t] \in SendPoints
  BY DEF BroadcastNext, At, SendPoints
<1>2. PICK p \in todo[t] : /\ call' = [call EXCEPT ![t].o = p]
                           /\ todo' = [todo EXCEPT ![t] = @ \ {p}]
  BY DEF BroadcastNext
<1>3. /\ call[t] \in AllCalls /\ call[t].op \notin {"connect", "disconnect", "close"}
      /\ todo[t] \in SUBSET Transports
  BY <1>1, SendOps
<1> DEFINE c == [call[t] EXCEPT !.o = p]
           rest == todo[t] \ {p}
<1>4. /\ c \in AllCalls /\ c.op \notin {"connect", "disconnect", "close"}
      /\ rest \in SUBSET Transports
  BY <1>2, <1>3 DEF AllCalls
<1>5. /\ pc' = [pc EXCEPT ![t] = "lookup"] /\ call' = [call EXCEPT ![t] = c]
      /\ todo' = [todo EXCEPT ![t] = rest]
      /\ UNCHANGED <<maps, mail, handler, locks, made, crashed>>
  BY <1>2 DEF BroadcastNext
<1>6. /\ MailTyped' /\ crashed' \in Panics /\ readers' \in [Transports -> SUBSET Threads]
      /\ UNCHANGED <<maps, writer, made, handler>>
  BY <1>5, TypesStay DEF IInv, Types, LocksTyped, locks
<1>7. "lookup" \in SendPoints
  BY DEF SendPoints
<1> HIDE DEF c, rest
<1> QED BY <1>1, <1>4, <1>5, <1>6, <1>7, SendMoves

LEMMA BroadcastDoneKeeps == ASSUME IInv, NEW t \in Threads, BroadcastDone(t) PROVE IInv'
<1>1. pc[t] = "range" /\ pc[t] \in SendPoints
  BY DEF BroadcastDone, At, SendPoints
<1>2. /\ pc' = [pc EXCEPT ![t] = "idle"] /\ call' = [call EXCEPT ![t] = NoCall]
      /\ readers' = [readers EXCEPT ![call[t].m] = @ \ {t}]
      /\ UNCHANGED <<maps, mail, handler, writer, todo, made, crashed>>
  BY DEF BroadcastDone, Return
<1>3. MailTyped' /\ crashed' \in Panics
  BY <1>2, TypesStay DEF IInv
<1>4. /\ todo' = [todo EXCEPT ![t] = todo[t]] /\ todo[t] \in SUBSET Transports
  BY <1>2 DEF IInv, Types, ControlTyped
<1>5. readers' \in [Transports -> SUBSET Threads]
  BY <1>2 DEF IInv, Types, LocksTyped
<1>6. UNCHANGED <<maps, writer, made, handler>>
  BY <1>2
<1> QED BY <1>1, <1>2, <1>3, <1>4, <1>5, <1>6, SendMoves

\* Steps of Send that leave the mail alone.
LEMMA SendStepsKeep ==
  ASSUME IInv, NEW t \in Threads, Lookup(t) \/ Drop(t) \/ CheckHandler(t)
  PROVE  IInv'
<1>1. /\ pc[t] \in SendPoints
      /\ UNCHANGED <<maps, mail, handler, locks, todo, made, crashed>>
      /\ \/ SendReturns(t) \/ Goto(t, "put") \/ Goto(t, "callHandler")
  BY DEF Lookup, Drop, CheckHandler, At, SendPoints
<1>2. MailTyped' /\ crashed' \in Panics /\ UNCHANGED <<maps, locks, todo, made, handler>>
  BY <1>1, TypesStay DEF IInv
<1>3. "put" \in SendPoints /\ "callHandler" \in SendPoints
  BY DEF SendPoints
<1> QED BY <1>1, <1>2, <1>3, SendReturnsKeeps, GotoKeeps

LEMMA PutKeeps == ASSUME IInv, NEW t \in Threads, Put(t) PROVE IInv'
<1> DEFINE o == call[t].o
<1>1. pc[t] \in SendPoints /\ "checkHandler" \in SendPoints
  BY DEF Put, At, SendPoints
<1>2. o \in Transports /\ Message(t) \in Packets
  BY <1>1, SendOps
<1>3. /\ Len(inbox[o]) < Cap /\ inbox' = [inbox EXCEPT ![o] = Append(@, Message(t))]
      /\ Goto(t, "checkHandler")
      /\ UNCHANGED <<maps, handled, arrived, handler, locks, todo, made, crashed>>
  BY DEF Put, HasRoom
<1>4. MailTyped
  BY DEF IInv, Types
<1>5. /\ Append(inbox[o], Message(t)) \in Seq(Packets)
      /\ Len(Append(inbox[o], Message(t))) <= Cap
  BY <1>2, <1>3, <1>4, CapAssumption DEF MailTyped
<1>6. MailTyped'
  BY <1>2, <1>3, <1>4, <1>5 DEF MailTyped
<1>7. crashed' \in Panics /\ UNCHANGED <<maps, locks, todo, made, handler>>
  BY <1>3 DEF IInv, Types, ControlTyped
<1> QED BY <1>1, <1>3, <1>6, <1>7, GotoKeeps

LEMMA PutPanicsKeeps == ASSUME IInv, NEW t \in Threads, PutPanics(t) PROVE IInv'
<1>1. /\ UNCHANGED <<maps, mail, handler, locks, pc, call, todo, made>>
      /\ crashed' = "sendOnClosed"
  BY DEF PutPanics, Panic
<1>2. MailTyped'
  BY <1>1, TypesStay DEF IInv
<1>3. ControlTyped'
  BY <1>1 DEF IInv, Types, ControlTyped, Panics
<1>4. UNCHANGED <<maps, locks, pc, call, todo>>
  BY <1>1
<1> QED BY <1>2, <1>3, <1>4, NobodyMoves

LEMMA CallHandlerKeeps == ASSUME IInv, NEW t \in Threads, CallHandler(t) PROVE IInv'
<1> DEFINE o == call[t].o
<1>1. /\ pc[t] \in SendPoints
      /\ UNCHANGED <<maps, inbox, arrived, handler, locks, todo, made>>
  BY DEF CallHandler, At, SendPoints
<1>2. o \in Transports /\ Message(t) \in Packets
  BY <1>1, SendOps
<1>3. MailTyped /\ ControlTyped
  BY DEF IInv, Types
<1>4. CASE o \in handler
  <2>1. /\ handled' = [handled EXCEPT ![o] = Append(@, Message(t))]
        /\ SendReturns(t) /\ UNCHANGED crashed
    BY <1>4 DEF CallHandler
  <2>2. Append(handled[o], Message(t)) \in Seq(Packets)
    BY <1>2, <1>3 DEF MailTyped
  <2>3. MailTyped' /\ crashed' \in Panics
    BY <1>1, <1>2, <1>3, <2>1, <2>2 DEF MailTyped, ControlTyped
  <2>4. UNCHANGED <<maps, locks, todo, made, handler>>
    BY <1>1
  <2> QED BY <1>1, <2>1, <2>3, <2>4, SendReturnsKeeps
<1>5. CASE o \notin handler
  <2>1. crashed' = "nilHandler" /\ UNCHANGED <<pc, call, handled>>
    BY <1>5 DEF CallHandler, Panic
  <2>2. MailTyped' /\ ControlTyped'
    BY <1>1, <1>3, <2>1 DEF MailTyped, ControlTyped, Panics
  <2>3. UNCHANGED <<maps, locks, pc, call, todo>>
    BY <1>1, <2>1
  <2> QED BY <2>2, <2>3, NobodyMoves
<1> QED BY <1>4, <1>5

LEMMA ReceiveKeeps == ASSUME IInv, NEW m \in Transports, Receive(m) PROVE IInv'
<1>1. /\ inbox[m] # << >> /\ inbox' = [inbox EXCEPT ![m] = Tail(@)]
      /\ arrived' = [arrived EXCEPT ![m] = Append(@, Head(inbox[m]))]
      /\ UNCHANGED <<maps, handled, handler, locks, pc, call, todo, made, crashed>>
  BY DEF Receive
<1>2. MailTyped /\ ControlTyped
  BY DEF IInv, Types
<1>3. /\ Head(inbox[m]) \in Packets /\ Tail(inbox[m]) \in Seq(Packets)
      /\ Len(Tail(inbox[m])) <= Cap
  BY <1>1, <1>2, CapAssumption DEF MailTyped
<1>4. Append(arrived[m], Head(inbox[m])) \in Seq(Packets)
  BY <1>2, <1>3 DEF MailTyped
<1>5. MailTyped'
  BY <1>1, <1>2, <1>3, <1>4 DEF MailTyped
<1>6. ControlTyped'
  BY <1>1, <1>2 DEF ControlTyped
<1>7. UNCHANGED <<maps, locks, pc, call, todo>>
  BY <1>1
<1> QED BY <1>5, <1>6, <1>7, NobodyMoves

-----------------------------------------------------------------------------
(* Edit, and Close. *)

LEMMA ReleaseFacts ==
  ASSUME IInv, NEW t \in Threads, NEW ms \in SUBSET Transports,
         \A m \in ms : writer[m] = t, Release(ms)
  PROVE  /\ LocksTyped'
         /\ \A u \in Threads, m \in Transports : u # t /\ writer[m] = u => writer'[m] = u
         /\ \A m \in Transports : m \notin ms => writer'[m] = writer[m]
BY DEF Release, LocksTyped, IInv, Types

\* Who closes a transport is its writer.
LEMMA CloserWrites ==
  ASSUME IInv, NEW t \in Threads, NEW m \in Transports, Closing(t, m)
  PROVE  writer[m] = t
BY DEF Closing, IInv, Control, LocksOwned

\* Connect and Disconnect change both sides, and nobody closes either meanwhile.
LEMMA EditKeeps == ASSUME IInv, NEW t \in Threads, Edit(t) PROVE IInv'
<1> DEFINE m == call[t].m
           o == call[t].o
<1>1. /\ pc[t] = "waitO" /\ Release({m, o}) /\ Return(t)
      /\ UNCHANGED <<closed, mail, handler, todo, made, crashed>>
      /\ \/ peers' = Linked(m, o) /\ relinked' = relinked \cup ({m, o} \cap closed)
         \/ peers' = Unlinked(m, o) /\ UNCHANGED relinked
  BY DEF Edit, At
<1>2. m \in Transports /\ o \in Transports
  BY <1>1, InCallFacts
<1>3. writer[m] = t /\ writer[o] = t /\ m # o
  BY <1>1 DEF IInv, Control, LocksOwned
<1>4. Types
  BY DEF IInv
<1>5. /\ LocksTyped'
      /\ \A u \in Threads, x \in Transports : u # t /\ writer[x] = u => writer'[x] = u
  BY <1>1, <1>2, <1>3, ReleaseFacts
<1>6. MapsTyped'
  BY <1>1, <1>2, <1>4 DEF Types, MapsTyped, Linked, Unlinked
<1>7. /\ MailTyped' /\ handler' \subseteq Transports /\ crashed' \in Panics
      /\ made' \in [Threads -> Nat] /\ \A u \in Threads : made'[u] <= MaxCalls[u]
      /\ todo' = [todo EXCEPT ![t] = todo[t]] /\ todo[t] \in SUBSET Transports
  BY <1>1, <1>4, TypesStay
<1>8. /\ pc' = [pc EXCEPT ![t] = "idle"] /\ call' = [call EXCEPT ![t] = NoCall]
      /\ "idle" \in Points
  BY <1>1 DEF Return, Points
<1>9. /\ Types' /\ Control'
      /\ \A u \in Threads, x \in Transports : u # t =>
           /\ Closing(u, x)' <=> Closing(u, x)
           /\ \A y \in Transports : Passed(u, x, y)' <=> Passed(u, x, y)
  BY <1>5, <1>6, <1>7, <1>8, ControlMoves
<1>10. \A x \in Transports : ~ Closing(t, x) /\ ~ Closing(t, x)'
  BY <1>1, <1>8 DEF Closing, Types, ControlTyped, IInv
<1>11. /\ \A u \in Threads, x \in Transports : Closing(u, x)' <=> Closing(u, x)
       /\ \A u \in Threads, x, y \in Transports : Passed(u, x, y)' <=> Passed(u, x, y)
  BY <1>9, <1>10 DEF Passed
<1>12. \A u \in Threads, x \in Transports : Closing(u, x) => x # m /\ x # o
  BY <1>3, <1>10, CloserWrites
<1>13. \A u \in Threads, x, y \in Transports : Passed(u, x, y) => x # m /\ x # o
  BY <1>12 DEF Passed
\* Only the two sides' entries for each other change, and both alike.
<1>14. /\ \A x, y \in Transports : ~ (x = m /\ y = o) /\ ~ (x = o /\ y = m) =>
            (y \in peers'[x] <=> y \in peers[x])
       /\ o \in peers'[m] <=> m \in peers'[o]
  BY <1>1, <1>2, <1>3, <1>4 DEF Types, MapsTyped, Linked, Unlinked
<1>15. OneSided'
  BY <1>11, <1>14 DEF IInv, Links, OneSided
<1>16. PassedForgets'
  BY <1>11, <1>13, <1>14 DEF IInv, Links, PassedForgets
<1>17. ClosedKnown'
  <2> SUFFICES ASSUME NEW x \in closed' \ relinked', NEW y \in Transports, x \in peers'[y],
                      x \in Transports
               PROVE  \E u \in Threads : (Closing(u, x) \/ Passed(u, y, x))'
    BY <1>6 DEF ClosedKnown, MapsTyped
  <2>1. x \in closed \ relinked
    BY <1>1
  <2>2. x \in peers[y]
    <3>1. CASE peers' = Linked(m, o) /\ relinked' = relinked \cup ({m, o} \cap closed)
      BY <1>1, <1>14, <3>1
    <3>2. CASE peers' = Unlinked(m, o)
      BY <1>2, <1>4, <3>2 DEF Unlinked, Types, MapsTyped
    <3> QED BY <1>1, <3>1, <3>2
  <2>3. PICK u \in Threads : Closing(u, x) \/ Passed(u, y, x)
    BY <2>1, <2>2 DEF IInv, Links, ClosedKnown
  <2> QED BY <1>11, <2>3
<1> QED BY <1>9, <1>15, <1>16, <1>17 DEF IInv, Links

\* Close notes the peers it has to tell.
LEMMA CloseInboxKeeps == ASSUME IInv, NEW t \in Threads, CloseInbox(t) PROVE IInv'
<1> DEFINE m == call[t].m
<1>1. /\ pc[t] = "waitM" /\ call[t].op = "close"
      /\ UNCHANGED <<peers, relinked, mail, handler, locks, made>>
  BY DEF CloseInbox, At
<1>2. /\ m \in Transports /\ call[t] \in AllCalls
  BY <1>1, InCallFacts
<1>3. Types
  BY DEF IInv
<1>4. CASE m \in closed
  <2>1. crashed' = "closeOfClosed" /\ UNCHANGED <<pc, call, closed, todo>>
    BY <1>4 DEF CloseInbox, Panic
  <2>2. MailTyped' /\ ControlTyped'
    BY <1>1, <1>3, <2>1, TypesStay DEF Types, ControlTyped, Panics
  <2>3. UNCHANGED <<maps, locks, pc, call, todo>>
    BY <1>1, <2>1 DEF maps
  <2> QED BY <2>2, <2>3, NobodyMoves
<1>5. CASE m \notin closed
  <2>1. /\ closed' = closed \cup {m} /\ todo' = [todo EXCEPT ![t] = peers[m]]
        /\ pc' = [pc EXCEPT ![t] = "sweep"] /\ UNCHANGED <<call, crashed>>
    BY <1>5 DEF CloseInbox, Goto
  <2>2. /\ "sweep" \in Points /\ "sweep" \in PointsOf(call[t].op)
    BY <1>1 DEF Points, PointsOf
  <2>3. MapsTyped' /\ peers[m] \in SUBSET Transports
    BY <1>1, <1>2, <1>3, <2>1 DEF Types, MapsTyped
  <2>4. /\ MailTyped' /\ handler' \subseteq Transports /\ crashed' \in Panics
        /\ made' \in [Threads -> Nat] /\ \A u \in Threads : made'[u] <= MaxCalls[u]
        /\ LocksTyped' /\ writer' = writer
        /\ call' = [call EXCEPT ![t] = call[t]]
    BY <1>1, <1>3, <2>1, TypesStay
  <2>5. writer'[m] = t
    BY <1>1, <2>4 DEF IInv, Control, LocksOwned
  <2>6. /\ pc' = [pc EXCEPT ![t] = "sweep"] /\ todo' = [todo EXCEPT ![t] = peers[m]]
    BY <2>1
  <2>7. /\ Types' /\ Control'
        /\ \A u \in Threads, x \in Transports : u # t =>
             /\ Closing(u, x)' <=> Closing(u, x)
             /\ \A y \in Transports : Passed(u, x, y)' <=> Passed(u, x, y)
    BY <1>2, <2>2, <2>3, <2>4, <2>5, <2>6, ControlMoves
  <2>8. /\ \A x \in Transports : ~ Closing(t, x)
        /\ \A x, y \in Transports : ~ Passed(t, x, y)
    BY <1>1 DEF Closing, Passed
  <2>9. /\ Closing(t, m)'
        /\ \A x, y \in Transports : Passed(t, x, y)' => x = m /\ y \notin peers[m]
    BY <1>3, <2>1 DEF Closing, Passed, Types, ControlTyped
  <2>10. /\ \A u \in Threads, x, y \in Transports : Passed(u, x, y) => Passed(u, x, y)'
         /\ \A u \in Threads, x \in Transports : Closing(u, x) => Closing(u, x)'
    BY <2>7, <2>8
  <2>11. OneSided'
    BY <1>1, <2>10 DEF IInv, Links, OneSided
  <2>12. PassedForgets'
    <3> SUFFICES ASSUME NEW u \in Threads, NEW x \in Transports, NEW y \in Transports,
                        Passed(u, x, y)', x \in peers[y]
                 PROVE  \E v \in Threads : Passed(v, y, x)'
      BY <1>1 DEF PassedForgets
    <3>1. CASE u # t
      BY <2>7, <2>10, <3>1 DEF IInv, Links, PassedForgets
    <3>2. CASE u = t
      BY <2>9, <2>10, <3>2 DEF IInv, Links, OneSided
    <3> QED BY <3>1, <3>2
  <2>13. ClosedKnown'
    <3> SUFFICES ASSUME NEW x \in closed' \ relinked, NEW y \in Transports, x \in peers[y],
                        x \in Transports
                 PROVE  \E u \in Threads : (Closing(u, x) \/ Passed(u, y, x))'
      BY <1>1, <2>3 DEF ClosedKnown, MapsTyped
    <3>1. CASE x = m
      BY <2>1, <2>9, <3>1
    <3>2. CASE x # m
      <4>1. PICK u \in Threads : Closing(u, x) \/ Passed(u, y, x)
        BY <2>1, <3>2 DEF IInv, Links, ClosedKnown
      <4> QED BY <2>10, <4>1
    <3> QED BY <3>1, <3>2
  <2> QED BY <2>7, <2>11, <2>12, <2>13 DEF IInv, Links
<1> QED BY <1>4, <1>5

\* The next peer is waited for: it is among those passed no more than before.
LEMMA LockPeerKeeps == ASSUME IInv, NEW t \in Threads, LockPeer(t) PROVE IInv'
<1> DEFINE m == call[t].m
<1>1. /\ pc[t] = "sweep" /\ pc' = [pc EXCEPT ![t] = "waitPeer"]
      /\ UNCHANGED <<maps, mail, handler, made, crashed>>
  BY DEF LockPeer, At
<1>2. PICK p \in todo[t] : /\ Announce(t, p) /\ call' = [call EXCEPT ![t].o = p]
                           /\ todo' = [todo EXCEPT ![t] = @ \ {p}]
  BY DEF LockPeer
<1> DEFINE c == [call[t] EXCEPT !.o = p]
           rest == todo[t] \ {p}
<1>3. Types
  BY DEF IInv
<1>4. /\ m \in Transports /\ call[t] \in AllCalls /\ "sweep" \in PointsOf(call[t].op)
  BY <1>1, InCallFacts
<1>5. p \in Transports /\ rest \in SUBSET Transports /\ p \notin rest
  BY <1>3 DEF Types, ControlTyped
<1>6. c \in AllCalls /\ c.m = m /\ c.o = p /\ c.op = call[t].op
  BY <1>4, <1>5 DEF AllCalls
<1>7. "waitPeer" \in Points /\ "waitPeer" \in PointsOf(c.op)
  BY <1>4, <1>6 DEF Points, PointsOf
<1>8. /\ LocksTyped' /\ writer'[p] = t /\ writer[p] \notin Threads
      /\ \A u \in Threads, o \in Transports : writer[o] = u => writer'[o] = u
  BY <1>2, <1>5, AnnounceFacts
<1>9. writer[m] = t
  BY <1>1 DEF IInv, Control, LocksOwned
<1>10. c.m # c.o /\ writer'[c.m] = t /\ writer'[c.o] = t
  BY <1>4, <1>6, <1>8, <1>9
<1>11. /\ MailTyped' /\ handler' \subseteq Transports /\ crashed' \in Panics
       /\ made' \in [Threads -> Nat] /\ \A u \in Threads : made'[u] <= MaxCalls[u]
  BY <1>1, <1>3, TypesStay
<1>12. MapsTyped'
  BY <1>1, <1>3 DEF Types, MapsTyped, maps
<1>13. /\ call' = [call EXCEPT ![t] = c] /\ todo' = [todo EXCEPT ![t] = rest]
  BY <1>2
<1>14. /\ call'[t] = c /\ todo'[t] = rest /\ pc'[t] = "waitPeer"
  BY <1>1, <1>3, <1>13 DEF Types, ControlTyped
<1>15. /\ \A x \in Transports : (Closing(t, x)' <=> x = m) /\ (Closing(t, x) <=> x = m)
  BY <1>1, <1>6, <1>14 DEF Closing
<1>16. \A x, o \in Transports : Passed(t, x, o)' <=> Passed(t, x, o)
  BY <1>1, <1>6, <1>14, <1>15 DEF Passed
<1> HIDE DEF c, rest
<1>17. /\ Types' /\ Control'
       /\ \A u \in Threads, x \in Transports : u # t =>
            /\ Closing(u, x)' <=> Closing(u, x)
            /\ \A o \in Transports : Passed(u, x, o)' <=> Passed(u, x, o)
  <2>1. /\ \A u \in Threads, x \in Transports : u # t /\ writer[x] = u => writer'[x] = u
        /\ pc' = [pc EXCEPT ![t] = "waitPeer"] /\ c.o \notin rest
    BY <1>1, <1>5, <1>6, <1>8
  <2> QED BY <1>5, <1>6, <1>7, <1>8, <1>10, <1>11, <1>12, <1>13, <2>1, ControlMoves
<1>18. Links'
  <2>1. /\ \A u \in Threads, x \in Transports : Closing(u, x)' <=> Closing(u, x)
        /\ \A u \in Threads, x, o \in Transports : Passed(u, x, o)' <=> Passed(u, x, o)
    BY <1>15, <1>16, <1>17
  <2> QED BY <1>1, <2>1, LinksStay
<1> QED BY <1>17, <1>18 DEF IInv

\* The peer forgets the transport that is closed, and now is passed.
LEMMA SweepPeerKeeps == ASSUME IInv, NEW t \in Threads, SweepPeer(t) PROVE IInv'
<1> DEFINE m == call[t].m
           p == call[t].o
<1>1. /\ pc[t] = "waitPeer" /\ pc' = [pc EXCEPT ![t] = "sweep"] /\ UNCHANGED call
      /\ Release({p}) /\ peers' = [peers EXCEPT ![p] = @ \ {m}]
      /\ UNCHANGED <<closed, relinked, mail, handler, todo, made, crashed>>
  BY DEF SweepPeer, At, Goto, Swept
<1>2. /\ m \in Transports /\ p \in Transports /\ call[t] \in AllCalls
      /\ "waitPeer" \in PointsOf(call[t].op)
  BY <1>1, InCallFacts
<1>3. Types
  BY DEF IInv
<1>4. writer[m] = t /\ writer[p] = t /\ m # p
  BY <1>1 DEF IInv, Control, LocksOwned
<1>5. /\ LocksTyped' /\ writer'[m] = t
      /\ \A u \in Threads, x \in Transports : u # t /\ writer[x] = u => writer'[x] = u
  BY <1>1, <1>2, <1>4, ReleaseFacts
<1>6. MapsTyped'
  BY <1>1, <1>2, <1>3 DEF Types, MapsTyped
<1>7. /\ MailTyped' /\ handler' \subseteq Transports /\ crashed' \in Panics
      /\ made' \in [Threads -> Nat] /\ \A u \in Threads : made'[u] <= MaxCalls[u]
      /\ todo' = [todo EXCEPT ![t] = todo[t]] /\ todo[t] \in SUBSET Transports
      /\ call' = [call EXCEPT ![t] = call[t]]
  BY <1>1, <1>3, TypesStay
<1>8. /\ "sweep" \in Points /\ "sweep" \in PointsOf(call[t].op)
      /\ pc' = [pc EXCEPT ![t] = "sweep"]
  BY <1>1, <1>2 DEF Points, PointsOf
<1>9. /\ Types' /\ Control'
      /\ \A u \in Threads, x \in Transports : u # t =>
           /\ Closing(u, x)' <=> Closing(u, x)
           /\ \A y \in Transports : Passed(u, x, y)' <=> Passed(u, x, y)
  BY <1>2, <1>5, <1>6, <1>7, <1>8, ControlMoves
<1>10. /\ \A x \in Transports : Closing(t, x)' <=> Closing(t, x)
       /\ \A x, y \in Transports : Passed(t, x, y)' <=> Closing(t, x) /\ y \notin todo[t]
       /\ \A x, y \in Transports : Passed(t, x, y) <=> Passed(t, x, y)' /\ y # p
       /\ \A x \in Transports : Closing(t, x) <=> x = m
  BY <1>1, <1>3 DEF Closing, Passed, Types, ControlTyped
<1>11. p \notin todo[t]
  BY <1>1 DEF IInv, Control, NotTwice
<1>12. /\ \A u \in Threads, x, y \in Transports : Passed(u, x, y) => Passed(u, x, y)'
       /\ \A u \in Threads, x \in Transports : Closing(u, x) => Closing(u, x)'
  BY <1>9, <1>10
<1>13. /\ \A x, y \in Transports : ~ (x = p /\ y = m) => (y \in peers'[x] <=> y \in peers[x])
       /\ m \notin peers'[p]
  BY <1>1, <1>2, <1>3 DEF Types, MapsTyped
<1>14. OneSided'
  <2> SUFFICES ASSUME NEW x \in Transports, NEW y \in Transports,
                      y \in peers'[x], x \notin peers'[y]
               PROVE  \E u \in Threads : Passed(u, x, y)'
    BY DEF OneSided
  <2>1. CASE x = m /\ y = p
    BY <1>10, <1>11, <2>1
  <2>2. CASE ~ (x = m /\ y = p)
    BY <1>12, <1>13, <2>2 DEF IInv, Links, OneSided
  <2> QED BY <2>1, <2>2
<1>15. PassedForgets'
  <2> SUFFICES ASSUME NEW u \in Threads, NEW x \in Transports, NEW y \in Transports,
                      Passed(u, x, y)', x \in peers'[y]
               PROVE  \E v \in Threads : Passed(v, y, x)'
    BY DEF PassedForgets
  <2>1. ~ (x = m /\ y = p) /\ x \in peers[y]
    BY <1>13
  <2>2. Passed(u, x, y)
    BY <1>9, <1>10, <2>1
  <2> QED BY <1>12, <2>1, <2>2 DEF IInv, Links, PassedForgets
<1>16. ClosedKnown'
  <2> SUFFICES ASSUME NEW x \in closed \ relinked, NEW y \in Transports, x \in peers'[y],
                      x \in Transports
               PROVE  \E u \in Threads : (Closing(u, x) \/ Passed(u, y, x))'
    BY <1>1, <1>6 DEF ClosedKnown, MapsTyped
  <2>1. x \in peers[y]
    BY <1>13
  <2>2. PICK u \in Threads : Closing(u, x) \/ Passed(u, y, x)
    BY <2>1 DEF IInv, Links, ClosedKnown
  <2> QED BY <1>12, <2>2
<1> QED BY <1>9, <1>14, <1>15, <1>16 DEF IInv, Links

\* All peers are passed: who still knows the transport is closed itself.
LEMMA CloseDoneKeeps == ASSUME IInv, NEW t \in Threads, CloseDone(t) PROVE IInv'
<1> DEFINE m == call[t].m
<1>1. /\ pc[t] = "sweep" /\ todo[t] = {} /\ Return(t)
      /\ Release({m}) /\ peers' = [peers EXCEPT ![m] = {}]
      /\ UNCHANGED <<closed, relinked, mail, handler, todo, made, crashed>>
  BY DEF CloseDone, At
<1>2. m \in Transports
  BY <1>1, InCallFacts
<1>3. Types
  BY DEF IInv
<1>4. writer[m] = t
  BY <1>1 DEF IInv, Control, LocksOwned
<1>5. /\ LocksTyped'
      /\ \A u \in Threads, x \in Transports : u # t /\ writer[x] = u => writer'[x] = u
  BY <1>1, <1>2, <1>4, ReleaseFacts
<1>6. MapsTyped'
  BY <1>1, <1>2, <1>3 DEF Types, MapsTyped
<1>7. /\ MailTyped' /\ handler' \subseteq Transports /\ crashed' \in Panics
      /\ made' \in [Threads -> Nat] /\ \A u \in Threads : made'[u] <= MaxCalls[u]
      /\ todo' = [todo EXCEPT ![t] = todo[t]] /\ todo[t] \in SUBSET Transports
  BY <1>1, <1>3, TypesStay
<1>8. /\ pc' = [pc EXCEPT ![t] = "idle"] /\ call' = [call EXCEPT ![t] = NoCall]
      /\ "idle" \in Points
  BY <1>1 DEF Return, Points
<1>9. /\ Types' /\ Control'
      /\ \A u \in Threads, x \in Transports : u # t =>
           /\ Closing(u, x)' <=> Closing(u, x)
           /\ \A y \in Transports : Passed(u, x, y)' <=> Passed(u, x, y)
  BY <1>5, <1>6, <1>7, <1>8, ControlMoves
<1>10. /\ \A x \in Transports : ~ Closing(t, x)' /\ (Closing(t, x) => x = m)
       /\ \A y \in Transports : Passed(t, m, y)
  BY <1>1, <1>3, <1>8 DEF Closing, Passed, Types, ControlTyped
<1>11. \A x, y \in Transports : /\ ~ Passed(t, x, y)'
                                /\ Passed(t, x, y) => x = m
  BY <1>10 DEF Passed
<1>12. /\ \A x, y \in Transports : x # m => (y \in peers'[x] <=> y \in peers[x])
       /\ \A y \in Transports : y \notin peers'[m]
  BY <1>1, <1>2, <1>3 DEF Types, MapsTyped
<1>13. OneSided'
  <2> SUFFICES ASSUME NEW x \in Transports, NEW y \in Transports,
                      y \in peers'[x], x \notin peers'[y]
               PROVE  \E u \in Threads : Passed(u, x, y)'
    BY DEF OneSided
  <2>1. x # m /\ y \in peers[x]
    BY <1>12
  <2>2. CASE y = m
    <3>1. PICK u \in Threads : Passed(u, x, m)
      BY <1>2, <1>10, <2>1, <2>2 DEF IInv, Links, PassedForgets
    <3> QED BY <1>2, <1>9, <1>11, <2>1, <2>2, <3>1
  <2>3. CASE y # m
    <3>1. x \notin peers[y]
      BY <1>12, <2>3
    <3>2. PICK u \in Threads : Passed(u, x, y)
      BY <2>1, <3>1 DEF IInv, Links, OneSided
    <3> QED BY <1>9, <1>11, <2>1, <3>2
  <2> QED BY <2>2, <2>3
<1>14. PassedForgets'
  <2> SUFFICES ASSUME NEW u \in Threads, NEW x \in Transports, NEW y \in Transports,
                      Passed(u, x, y)', x \in peers'[y]
               PROVE  \E v \in Threads : Passed(v, y, x)'
    BY DEF PassedForgets
  <2>1. u # t /\ y # m /\ x \in peers[y] /\ Passed(u, x, y)
    BY <1>9, <1>11, <1>12
  <2>2. PICK v \in Threads : Passed(v, y, x)
    BY <2>1 DEF IInv, Links, PassedForgets
  <2> QED BY <1>9, <1>11, <2>1, <2>2
<1>15. ClosedKnown'
  <2> SUFFICES ASSUME NEW x \in closed \ relinked, NEW y \in Transports, x \in peers'[y],
                      x \in Transports
               PROVE  \E u \in Threads : (Closing(u, x) \/ Passed(u, y, x))'
    BY <1>1, <1>6 DEF ClosedKnown, MapsTyped
  <2>1. y # m /\ x \in peers[y]
    BY <1>12
  <2>2. CASE x = m
    <3>1. PICK v \in Threads : Passed(v, y, m)
      BY <1>2, <1>10, <2>1, <2>2 DEF IInv, Links, PassedForgets
    <3> QED BY <1>2, <1>9, <1>11, <2>1, <2>2, <3>1
  <2>3. CASE x # m
    <3>1. PICK u \in Threads : Closing(u, x) \/ Passed(u, y, x)
      BY <2>1 DEF IInv, Links, ClosedKnown
    <3> QED BY <1>9, <1>10, <1>11, <2>1, <2>3, <3>1
  <2> QED BY <2>2, <2>3
<1> QED BY <1>9, <1>13, <1>14, <1>15 DEF IInv, Links

-----------------------------------------------------------------------------
LEMMA StepKeeps == IInv /\ [Next]_vars => IInv'
<1> SUFFICES ASSUME IInv, [Next]_vars PROVE IInv'
  OBVIOUS
<1>1. ASSUME NEW t \in Threads, NEW c \in CallsOf[t],
             Begin(t, c) \/ BeginBroadcast(t, c) \/ SetHandler(t, c)
      PROVE  IInv'
  BY <1>1, BeginKeeps, BeginBroadcastKeeps, SetHandlerKeeps
<1>2. ASSUME NEW t \in Threads, Continue(t) PROVE IInv'
  BY <1>2, LockMKeeps, HaveMKeeps, LockOKeeps, EditKeeps, CloseInboxKeeps, LockPeerKeeps,
     SweepPeerKeeps, CloseDoneKeeps, BroadcastNextKeeps, BroadcastDoneKeeps, SendStepsKeep,
     PutKeeps, PutPanicsKeeps, CallHandlerKeeps
  DEF Continue
<1>3. CASE UNCHANGED vars
  <2>1. UNCHANGED <<maps, mail, handler, locks, pc, call, todo, made, crashed>>
    BY <1>3 DEF vars
  <2>2. MailTyped' /\ ControlTyped'
    BY <2>1, TypesStay DEF IInv, Types, ControlTyped
  <2>3. UNCHANGED <<maps, locks, pc, call, todo>>
    BY <2>1
  <2> QED BY <2>2, <2>3, NobodyMoves
<1> QED BY <1>1, <1>2, <1>3, ReceiveKeeps DEF Next

LEMMA Inductive == Spec => []IInv
<1> QED BY InitIInv, StepKeeps, PTL DEF Spec

LEMMA TypesSuffice == Types => TypeOK
<1> SUFFICES ASSUME Types PROVE TypeOK
  OBVIOUS
<1>1. \A log \in {inbox, handled, arrived} :
        DOMAIN log = Transports /\ \A m \in Transports : log[m] \in Seq(Packets)
  BY DEF Types, MailTyped
<1>2. \A t \in Threads : made[t] \in 0..MaxCalls[t]
  BY CallsAssumption DEF Types, ControlTyped
<1> QED BY <1>1, <1>2 DEF Types, MapsTyped, MailTyped, LocksTyped, ControlTyped, TypeOK

\* While nobody is in a critical section of either, a transport knows another
\* exactly if that one knows it, whatever calls are made by however many
\* goroutines: so one of Connect, Disconnect and Close undoes all of another.
THEOREM LinksAreSymmetric == Spec => []SymmetricLinks
<1>1. IInv => SymmetricLinks
  <2> SUFFICES ASSUME IInv PROVE SymmetricLinks
    OBVIOUS
  <2>1. ASSUME NEW m \in Transports, NEW o \in Transports,
               o \in peers[m], m \notin peers[o]
        PROVE  WriteHeld(m)
    <3>1. PICK t \in Threads : Closing(t, m)
      BY <2>1 DEF IInv, Links, OneSided, Passed
    <3>2. writer[m] = t
      BY <3>1, CloserWrites
    <3>3. ~ Waiting(t, m)
      BY <3>1 DEF Closing, Waiting, IInv, Control, LocksOwned
    <3> QED BY <3>2, <3>3 DEF WriteHeld
  <2>2. TypeOK
    BY TypesSuffice DEF IInv
  <2> QED BY <2>1, <2>2 DEF SymmetricLinks
<1> QED BY <1>1, Inductive, PTL

\* A transport that was closed is found by no lookup that is not made from
\* within a Close, unless it was connected again: so a Send can panic only if
\* it looked its peer up before Close was through.
THEOREM ClosedIsForgotten == Spec => []ClosedIsUnreachable
<1>1. IInv => ClosedIsUnreachable
  <2> SUFFICES ASSUME IInv, NEW m \in closed \ relinked, NEW o \in Transports,
                      m \in peers[o]
               PROVE  WriteHeld(m) \/ WriteHeld(o)
    BY DEF ClosedIsUnreachable
  <2>1. m \in Transports
    BY DEF IInv, Types, MapsTyped
  <2>2. PICK t \in Threads : Closing(t, m) \/ Closing(t, o)
    BY DEF IInv, Links, ClosedKnown, Passed
  <2>3. ASSUME NEW x \in Transports, Closing(t, x) PROVE WriteHeld(x)
    <3>1. writer[x] = t
      BY <2>3, CloserWrites
    <3>2. ~ Waiting(t, x)
      BY <2>3 DEF Closing, Waiting, IInv, Control, LocksOwned
    <3> QED BY <3>1, <3>2 DEF WriteHeld
  <2> QED BY <2>1, <2>2, <2>3
<1> QED BY <1>1, Inductive, PTL

-----------------------------------------------------------------------------
(* The mail.  A goroutine numbers its calls, and a call reaches a transport *)
(* at most once.                                                           *)

Delivered(m) == arrived[m] \o inbox[m]

\* Thread t put into log what it has put there before its present call.
Before(t, log) == \A i \in 1..Len(log) : log[i].by = t => log[i].n < made[t]

MadeSoFar == \A m \in Transports : \A i \in 1..Len(Delivered(m)) :
               Delivered(m)[i].n <= made[Delivered(m)[i].by]

\* A broadcast has not been at the peers it has yet to visit, nor any call at
\* the one it is about to put a packet in; the handler is called for a packet
\* only after it is there.
InOrder(t) ==
  /\ pc[t] = "range" => call[t].op = "broadcast"
  /\ pc[t] \in SendPoints /\ call[t].op = "broadcast" =>
       \A p \in todo[t] : /\ Before(t, Delivered(p))
                          /\ pc[t] # "range" => call[t].o # p
  /\ pc[t] \in {"lookup", "put"} => Before(t, Delivered(call[t].o))
  /\ pc[t] \in {"checkHandler", "callHandler"} =>
       /\ Message(t) \in ToSet(Delivered(call[t].o))
       /\ Before(t, handled[call[t].o])

Mail == HandlerFollowsInbox /\ MadeSoFar /\ \A t \in Threads : InOrder(t)

\* Delivered is a sequence of packets.
LEMMA DeliveredTyped ==
  ASSUME IInv, NEW m \in Transports
  PROVE  /\ Delivered(m) \in Seq(Packets) /\ handled[m] \in Seq(Packets)
         /\ \A i \in 1..Len(Delivered(m)) : Delivered(m)[i] \in Packets
         /\ \A i \in 1..Len(handled[m]) : handled[m][i] \in Packets
<1>1. arrived[m] \in Seq(Packets) /\ inbox[m] \in Seq(Packets) /\ handled[m] \in Seq(Packets)
  BY DEF IInv, Types, MailTyped
<1>2. Delivered(m) \in Seq(Packets)
  BY <1>1, ConcatProperties DEF Delivered
<1> QED BY <1>1, <1>2, ElementOfSeq

LEMMA ConcatAppend ==
  ASSUME NEW a \in Seq(Packets), NEW b \in Seq(Packets), NEW k \in Packets
  PROVE  a \o Append(b, k) = Append(a \o b, k)
<1> DEFINE ab == a \o b
           bk == Append(b, k)
           l == a \o bk
           r == Append(ab, k)
<1>1. /\ ab \in Seq(Packets) /\ Len(ab) = Len(a) + Len(b)
      /\ \A i \in 1..Len(a) + Len(b) : ab[i] = IF i <= Len(a) THEN a[i] ELSE b[i - Len(a)]
  BY ConcatProperties
<1>2. /\ bk \in Seq(Packets) /\ Len(bk) = Len(b) + 1
      /\ \A i \in 1..Len(b) : bk[i] = b[i]
  BY AppendProperties
<1>3. bk[Len(b) + 1] = k /\ Len(a) \in Nat /\ Len(b) \in Nat
  BY AppendProperties, LenProperties
<1> HIDE DEF ab, bk
<1>4. /\ l \in Seq(Packets) /\ Len(l) = Len(a) + Len(bk)
      /\ \A i \in 1..Len(a) + Len(bk) : l[i] = IF i <= Len(a) THEN a[i] ELSE bk[i - Len(a)]
  BY <1>2, ConcatProperties
<1>5. /\ r \in Seq(Packets) /\ Len(r) = Len(ab) + 1
      /\ \A i \in 1..Len(ab) : r[i] = ab[i]
      /\ r[Len(ab) + 1] = k
  <2>1. ab \in Seq(Packets) /\ r = Append(ab, k)
    BY <1>1
  <2> HIDE DEF l, r
  <2> QED BY <2>1, AppendProperties
<1> HIDE DEF l, r
<1>6. Len(l) = Len(a) + Len(b) + 1 /\ Len(r) = Len(l)
  BY <1>1, <1>2, <1>3, <1>4, <1>5
<1>7. ASSUME NEW i \in 1..Len(l) PROVE l[i] = r[i]
  <2>1. CASE i <= Len(a)
    <3>1. l[i] = a[i]
      BY <1>2, <1>3, <1>4, <1>6, <2>1
    <3>2. r[i] = ab[i] /\ ab[i] = a[i]
      BY <1>1, <1>3, <1>5, <1>6, <2>1
    <3> QED BY <3>1, <3>2
  <2>2. CASE Len(a) < i /\ i <= Len(a) + Len(b)
    <3>1. l[i] = bk[i - Len(a)] /\ i - Len(a) \in 1..Len(b)
      BY <1>2, <1>3, <1>4, <1>6, <2>2
    <3>2. bk[i - Len(a)] = b[i - Len(a)]
      BY <1>2, <3>1
    <3>3. r[i] = ab[i] /\ ab[i] = b[i - Len(a)]
      BY <1>1, <1>3, <1>5, <1>6, <2>2
    <3> QED BY <3>1, <3>2, <3>3
  <2>3. CASE i = Len(a) + Len(b) + 1
    <3>1. l[i] = bk[i - Len(a)] /\ i - Len(a) = Len(b) + 1
      BY <1>2, <1>3, <1>4, <1>6, <2>3
    <3>2. r[i] = k
      BY <1>1, <1>3, <1>5, <1>6, <2>3
    <3> QED BY <1>3, <3>1, <3>2
  <2> QED BY <1>3, <1>6, <2>1, <2>2, <2>3
<1>8. l = r
  BY <1>4, <1>5, <1>6, <1>7, SeqEqual
<1> QED BY <1>8 DEF l, r, ab, bk

LEMMA ConcatHeadTail ==
  ASSUME NEW a \in Seq(Packets), NEW b \in Seq(Packets), b # << >>
  PROVE  Append(a, Head(b)) \o Tail(b) = a \o b
<1> DEFINE ah == Append(a, Head(b))
           bt == Tail(b)
           l == ah \o bt
           r == a \o b
<1>1. /\ Head(b) \in Packets /\ bt \in Seq(Packets) /\ Len(bt) = Len(b) - 1
      /\ Head(b) = b[1] /\ Len(a) \in Nat /\ Len(b) \in Nat
      /\ \A i \in 1..Len(bt) : bt[i] = b[i + 1]
  BY HeadTailProperties, LenProperties
<1>2. /\ ah \in Seq(Packets) /\ Len(ah) = Len(a) + 1 /\ ah[Len(a) + 1] = b[1]
      /\ \A i \in 1..Len(a) : ah[i] = a[i]
  BY <1>1, AppendProperties
<1> HIDE DEF ah, bt
<1>3. /\ l \in Seq(Packets) /\ Len(l) = Len(ah) + Len(bt)
      /\ \A i \in 1..Len(ah) + Len(bt) :
           l[i] = IF i <= Len(ah) THEN ah[i] ELSE bt[i - Len(ah)]
  BY <1>1, <1>2, ConcatProperties
<1>4. /\ r \in Seq(Packets) /\ Len(r) = Len(a) + Len(b)
      /\ \A i \in 1..Len(a) + Len(b) : r[i] = IF i <= Len(a) THEN a[i] ELSE b[i - Len(a)]
  BY ConcatProperties
<1> HIDE DEF l, r
<1>5. Len(l) = Len(a) + Len(b) /\ Len(r) = Len(l)
  BY <1>1, <1>2, <1>3, <1>4
<1>6. ASSUME NEW i \in 1..Len(l) PROVE l[i] = r[i]
  <2>1. CASE i <= Len(a)
    <3>1. l[i] = ah[i] /\ ah[i] = a[i]
      BY <1>1, <1>2, <1>3, <1>5, <2>1
    <3> QED BY <1>1, <1>4, <1>5, <2>1, <3>1
  <2>2. CASE i = Len(a) + 1
    <3>1. l[i] = b[1] /\ i - Len(a) = 1
      BY <1>1, <1>2, <1>3, <1>5, <2>2
    <3>2. r[i] = b[i - Len(a)]
      BY <1>1, <1>4, <1>5, <2>2
    <3> QED BY <3>1, <3>2
  <2>3. CASE i > Len(a) + 1
    <3>1. l[i] = bt[i - Len(ah)] /\ i - Len(ah) \in 1..Len(bt)
          /\ i - Len(ah) + 1 = i - Len(a)
      BY <1>1, <1>2, <1>3, <1>5, <2>3
    <3>2. l[i] = b[i - Len(a)]
      BY <1>1, <3>1
    <3> QED BY <1>1, <1>4, <1>5, <2>3, <3>2
  <2> QED BY <1>1, <1>5, <2>1, <2>2, <2>3
<1>7. l = r
  BY <1>3, <1>4, <1>5, <1>6, SeqEqual
<1> QED BY <1>7 DEF l, r, ah, bt

\* What a log that is in order becomes with a packet of the present call.
LEMMA AppendInOrder ==
  ASSUME NEW t \in Threads, NEW log \in Seq(Packets), NEW k \in Packets,
         k.by = t, k.n = made[t], Before(t, log), InSendingOrder(log)
  PROVE  /\ InSendingOrder(Append(log, k))
         /\ ToSet(Append(log, k)) = ToSet(log) \cup {k}
         /\ \A u \in Threads : u # t /\ Before(u, log) => Before(u, Append(log, k))
<1> DEFINE longer == Append(log, k)
<1>1. /\ longer \in Seq(Packets) /\ Len(longer) = Len(log) + 1 /\ Len(log) \in Nat
      /\ \A i \in 1..Len(log) : longer[i] = log[i]
      /\ longer[Len(log) + 1] = k
  BY AppendProperties, LenProperties
<1>2. DOMAIN longer = 1..Len(longer) /\ DOMAIN log = 1..Len(log)
  BY <1>1, LenProperties
<1> HIDE DEF longer
<1>3. InSendingOrder(longer)
  <2> SUFFICES ASSUME NEW i \in 1..Len(longer), NEW j \in 1..Len(longer), i < j,
                      longer[i].by = longer[j].by
               PROVE  longer[i].n < longer[j].n
    BY DEF InSendingOrder
  <2>1. i \in 1..Len(log)
    BY <1>1
  <2>2. CASE j \in 1..Len(log)
    BY <1>1, <2>1, <2>2 DEF InSendingOrder
  <2>3. CASE j = Len(log) + 1
    BY <1>1, <2>1, <2>3 DEF Before
  <2> QED BY <1>1, <2>2, <2>3
<1>4. ToSet(longer) = ToSet(log) \cup {k}
  BY <1>1, <1>2 DEF ToSet
<1>5. ASSUME NEW u \in Threads, u # t, Before(u, log) PROVE Before(u, longer)
  BY <1>1, <1>5 DEF Before
<1> QED BY <1>3, <1>4, <1>5 DEF longer

LEMMA InitMail == Init => Mail
<1> SUFFICES ASSUME Init PROVE Mail
  OBVIOUS
<1>1. \A m \in Transports : arrived[m] = << >> /\ inbox[m] = << >> /\ handled[m] = << >>
  BY DEF Init
<1>2. \A m \in Transports : Delivered(m) = << >> /\ Len(Delivered(m)) = 0
  <2>1. << >> \o << >> = << >> /\ Len(<< >>) = 0
    BY EmptySeq, ConcatEmptySeq
  <2> QED BY <1>1, <2>1 DEF Delivered
<1>3. HandlerFollowsInbox
  <2>1. ToSet(<< >>) = {} /\ InSendingOrder(<< >>)
    BY DEF ToSet, InSendingOrder
  <2> QED BY <1>1, <1>2, <2>1 DEF HandlerFollowsInbox, Delivered
<1>4. MadeSoFar
  BY <1>2 DEF MadeSoFar
<1>5. \A t \in Threads : InOrder(t)
  BY DEF Init, InOrder, SendPoints
<1> QED BY <1>3, <1>4, <1>5 DEF Mail

\* Who makes no step keeps to the order, as long as its own packets stay as
\* they are.
LEMMA OthersInOrder ==
  ASSUME IInv, NEW u \in Threads, InOrder(u), made'[u] = made[u],
         pc'[u] = pc[u], call'[u] = call[u], todo'[u] = todo[u],
         \A m \in Transports : /\ Before(u, Delivered(m)) => Before(u, Delivered(m))'
                               /\ Before(u, handled[m]) => Before(u, handled[m])'
                               /\ ToSet(Delivered(m)) \subseteq ToSet(Delivered(m))'
  PROVE  InOrder(u)'
<1>1. pc[u] \in SendPoints => call[u].o \in Transports /\ todo[u] \in SUBSET Transports
  BY SendOps
<1>2. ASSUME pc[u] \in SendPoints, call[u].op = "broadcast", NEW p \in todo[u]
      PROVE  Before(u, Delivered(p))' /\ (pc[u] # "range" => call[u].o # p)
  <2>1. p \in Transports
    BY <1>1, <1>2
  <2>2. Before(u, Delivered(p)) /\ (pc[u] # "range" => call[u].o # p)
    BY <1>2 DEF InOrder
  <2> QED BY <2>1, <2>2
<1>3. ASSUME pc[u] \in {"lookup", "put"}, NEW o \in Transports, o = call[u].o
      PROVE  Before(u, Delivered(o))'
  <2>1. Before(u, Delivered(o))
    BY <1>3 DEF InOrder
  <2> QED BY <2>1
<1>4. ASSUME pc[u] \in {"checkHandler", "callHandler"}, NEW o \in Transports, o = call[u].o
      PROVE  Message(u)' \in ToSet(Delivered(o))' /\ Before(u, handled[o])'
  <2>1. Message(u)' = Message(u)
    BY DEF Message
  <2>2. Message(u) \in ToSet(Delivered(o)) /\ Before(u, handled[o])
    BY <1>4 DEF InOrder
  <2> QED BY <2>1, <2>2
<1>5. pc[u] \in {"lookup", "put", "checkHandler", "callHandler"} => pc[u] \in SendPoints
  BY DEF SendPoints
<1>6. call'[u].o = call[u].o
  OBVIOUS
<1>7. pc'[u] \in {"lookup", "put"} => Before(u, Delivered(call[u].o))'
  <2> SUFFICES ASSUME pc[u] \in {"lookup", "put"} PROVE Before(u, Delivered(call[u].o))'
    OBVIOUS
  <2>1. PICK o \in Transports : o = call[u].o
    BY <1>1, <1>5
  <2>2. Before(u, Delivered(o))'
    BY <1>3, <2>1
  <2>3. o = call'[u].o
    BY <1>6, <2>1
  <2> QED BY <2>2, <2>3
<1>8. pc'[u] \in {"checkHandler", "callHandler"} =>
        /\ (Message(u) \in ToSet(Delivered(call[u].o)))'
        /\ Before(u, handled[call[u].o])'
  <2> SUFFICES ASSUME pc[u] \in {"checkHandler", "callHandler"}
               PROVE  /\ (Message(u) \in ToSet(Delivered(call[u].o)))'
                      /\ Before(u, handled[call[u].o])'
    OBVIOUS
  <2>1. PICK o \in Transports : o = call[u].o
    BY <1>1, <1>5
  <2>2. Message(u)' \in ToSet(Delivered(o))' /\ Before(u, handled[o])'
    BY <1>4, <2>1
  <2>3. o = call'[u].o
    BY <1>6, <2>1
  <2> QED BY <2>2, <2>3
<1>9. pc[u] = "range" => call[u].op = "broadcast"
  BY DEF InOrder
<1> QED BY <1>2, <1>7, <1>8, <1>9 DEF InOrder

\* One goroutine moves, and nothing is put or handled.
LEMMA MailStays ==
  ASSUME IInv, Mail, NEW t \in Threads, UNCHANGED <<mail, made>>,
         \A u \in Threads \ {t} : pc'[u] = pc[u] /\ call'[u] = call[u] /\ todo'[u] = todo[u],
         InOrder(t)'
  PROVE  Mail'
<1>1. UNCHANGED <<inbox, handled, arrived, made>>
  BY DEF mail
<1>2. HandlerFollowsInbox' /\ MadeSoFar'
  BY <1>1 DEF Mail, HandlerFollowsInbox, MadeSoFar, Delivered
<1>3. ASSUME NEW u \in Threads \ {t} PROVE InOrder(u)'
  <2>1. InOrder(u) /\ u \in Threads
    BY DEF Mail
  <2>2. \A m \in Transports : Delivered(m)' = Delivered(m)
    BY <1>1 DEF Delivered
  <2>3. ASSUME NEW m \in Transports
        PROVE  /\ Before(u, Delivered(m)) => Before(u, Delivered(m))'
               /\ Before(u, handled[m]) => Before(u, handled[m])'
    BY <1>1, <2>2 DEF Before
  <2> QED BY <1>1, <1>3, <2>1, <2>2, <2>3, OthersInOrder
<1> QED BY <1>2, <1>3 DEF Mail

\* It moves out of Send and Broadcast, or from one step of another call to the
\* next.
LEMMA AwayKeepsMail ==
  ASSUME IInv, Mail, NEW t \in Threads, NEW point, point \notin SendPoints,
         UNCHANGED <<mail, made>>, pc' = [pc EXCEPT ![t] = point],
         \A u \in Threads \ {t} : call'[u] = call[u] /\ todo'[u] = todo[u]
  PROVE  Mail'
<1>1. pc'[t] = point /\ \A u \in Threads \ {t} : pc'[u] = pc[u]
  BY DEF IInv, Types, ControlTyped
<1>2. InOrder(t)'
  BY <1>1 DEF InOrder, SendPoints
<1> QED BY <1>1, <1>2, MailStays

LEMMA OtherCallsMail ==
  ASSUME IInv, Mail, NEW t \in Threads,
         \/ LockM(t) \/ HaveM(t) \/ LockO(t) \/ Edit(t) \/ CloseInbox(t) \/ LockPeer(t)
         \/ SweepPeer(t) \/ CloseDone(t) \/ BroadcastDone(t) \/ PutPanics(t)
  PROVE  Mail'
<1>1. call \in [Threads -> AllCalls \cup {NoCall}] /\ todo \in [Threads -> SUBSET Transports]
  BY DEF IInv, Types, ControlTyped
<1>2. CASE UNCHANGED <<mail, made, pc, call, todo>>
  <2>1. InOrder(t)'
    BY <1>2 DEF Mail, InOrder, Before, Delivered, Message, mail
  <2> QED BY <1>2, <2>1, MailStays
<1>3. CASE LockM(t) \/ HaveM(t) \/ LockO(t) \/ SweepPeer(t)
  <2>1. /\ \E point \in {"waitM", "lockO", "waitO", "sweep"} : pc' = [pc EXCEPT ![t] = point]
        /\ UNCHANGED <<mail, made, call, todo>>
    BY <1>3 DEF LockM, HaveM, LockO, SweepPeer, Goto
  <2> QED BY <2>1, AwayKeepsMail DEF SendPoints
<1>4. CASE Edit(t) \/ CloseDone(t) \/ BroadcastDone(t)
  <2>1. /\ pc' = [pc EXCEPT ![t] = "idle"] /\ UNCHANGED <<mail, made, todo>>
        /\ call' = [call EXCEPT ![t] = NoCall]
    BY <1>4 DEF Edit, CloseDone, BroadcastDone, Return
  <2> QED BY <1>1, <2>1, AwayKeepsMail DEF SendPoints
<1>5. CASE LockPeer(t)
  <2>1. PICK p \in todo[t] : /\ call' = [call EXCEPT ![t].o = p]
                             /\ todo' = [todo EXCEPT ![t] = @ \ {p}]
    BY <1>5 DEF LockPeer
  <2>2. pc' = [pc EXCEPT ![t] = "waitPeer"] /\ UNCHANGED <<mail, made>>
    BY <1>5 DEF LockPeer
  <2> QED BY <1>1, <2>1, <2>2, AwayKeepsMail DEF SendPoints
<1>6. CASE CloseInbox(t)
  <2>1. CASE UNCHANGED <<mail, made, pc, call, todo>>
    BY <1>2, <2>1
  <2>2. CASE /\ todo' = [todo EXCEPT ![t] = peers[call[t].m]]
             /\ pc' = [pc EXCEPT ![t] = "sweep"] /\ UNCHANGED <<mail, made, call>>
    BY <1>1, <2>2, AwayKeepsMail DEF SendPoints
  <2> QED BY <1>6, <2>1, <2>2 DEF CloseInbox, Goto, Panic
<1>7. CASE PutPanics(t)
  BY <1>2, <1>7 DEF PutPanics, Panic
<1> QED BY <1>3, <1>4, <1>5, <1>6, <1>7

\* A call that begins has put nothing anywhere.
LEMMA EnterMail ==
  ASSUME IInv, Mail, NEW t \in Threads, Enter(t), UNCHANGED mail,
         \A u \in Threads \ {t} : pc'[u] = pc[u] /\ call'[u] = call[u] /\ todo'[u] = todo[u]
  PROVE  /\ HandlerFollowsInbox' /\ MadeSoFar'
         /\ \A u \in Threads \ {t} : InOrder(u)'
         /\ \A m \in Transports : Before(t, Delivered(m))'
<1>1. UNCHANGED <<inbox, handled, arrived>> /\ made \in [Threads -> Nat]
      /\ made' = [made EXCEPT ![t] = @ + 1]
  BY DEF mail, Enter, IInv, Types, ControlTyped
<1>2. \A m \in Transports : Delivered(m)' = Delivered(m)
  BY <1>1 DEF Delivered
<1>3. HandlerFollowsInbox'
  BY <1>1 DEF Mail, HandlerFollowsInbox, Delivered
<1>4. \A m \in Transports : \A i \in 1..Len(Delivered(m)) :
        /\ Delivered(m)[i].n \in Nat /\ Delivered(m)[i].by \in Threads
        /\ Delivered(m)[i].n <= made[Delivered(m)[i].by]
  BY DeliveredTyped DEF Packets, Mail, MadeSoFar
<1>5. MadeSoFar'
  BY <1>1, <1>2, <1>4 DEF MadeSoFar
<1>6. \A m \in Transports : Before(t, Delivered(m))'
  BY <1>1, <1>2, <1>4 DEF Before
<1>7. ASSUME NEW u \in Threads \ {t} PROVE InOrder(u)'
  <2>1. InOrder(u) /\ u \in Threads /\ made'[u] = made[u]
    BY <1>1 DEF Mail
  <2>2. ASSUME NEW m \in Transports
        PROVE  /\ Before(u, Delivered(m)) => Before(u, Delivered(m))'
               /\ Before(u, handled[m]) => Before(u, handled[m])'
    BY <1>1, <1>2, <2>1 DEF Before
  <2> QED BY <1>1, <1>2, <2>1, <2>2, OthersInOrder
<1> QED BY <1>3, <1>5, <1>6, <1>7

LEMMA BeginMail ==
  ASSUME IInv, Mail, NEW t \in Threads, NEW c \in CallsOf[t],
         Begin(t, c) \/ BeginBroadcast(t, c) \/ SetHandler(t, c)
  PROVE  Mail'
<1>1. /\ call \in [Threads -> AllCalls \cup {NoCall}] /\ todo \in [Threads -> SUBSET Transports]
      /\ pc \in [Threads -> Points]
      /\ c \in AllCalls /\ c.m \in Transports /\ c.o \in Transports
      /\ peers[c.m] \in SUBSET Transports
  BY CallsAssumption DEF IInv, Types, ControlTyped, MapsTyped, AllCalls
<1>2. Enter(t) /\ UNCHANGED mail /\ pc[t] = "idle"
  BY DEF Begin, BeginBroadcast, SetHandler, Enter, At
<1>3. ASSUME NEW point, NEW call2, NEW rest, 
             pc' = [pc EXCEPT ![t] = point], call' = [call EXCEPT ![t] = call2],
             todo' = [todo EXCEPT ![t] = rest],
             point \in SendPoints => \/ point = "lookup" /\ call2 = c /\ c.op = "send"
                                     \/ /\ point = "range" /\ call2.op = "broadcast"
                                        /\ rest \subseteq Transports
      PROVE  Mail'
  <2>1. /\ pc'[t] = point /\ call'[t] = call2 /\ todo'[t] = rest
        /\ \A u \in Threads \ {t} : pc'[u] = pc[u] /\ call'[u] = call[u] /\ todo'[u] = todo[u]
    BY <1>1, <1>3
  <2>2. /\ HandlerFollowsInbox' /\ MadeSoFar'
        /\ \A u \in Threads \ {t} : InOrder(u)'
        /\ \A m \in Transports : Before(t, Delivered(m))'
    BY <1>2, <2>1, EnterMail
  <2>3. CASE point \notin SendPoints
    BY <2>1, <2>2, <2>3 DEF Mail, InOrder, SendPoints
  <2>4. CASE point = "lookup" /\ call2 = c /\ c.op = "send"
    BY <1>1, <2>1, <2>2, <2>4 DEF Mail, InOrder
  <2>5. CASE point = "range" /\ call2.op = "broadcast" /\ rest \subseteq Transports
    BY <1>1, <2>1, <2>2, <2>5 DEF Mail, InOrder
  <2> QED BY <1>3, <2>3, <2>4, <2>5
<1>4. CASE Begin(t, c)
  <2>1. /\ pc' = [pc EXCEPT ![t] = FirstPoint(c.op)] /\ call' = [call EXCEPT ![t] = c]
        /\ todo' = [todo EXCEPT ![t] = todo[t]]
    BY <1>1, <1>4 DEF Begin
  <2>2. \/ FirstPoint(c.op) = "lookup" /\ c.op = "send"
        \/ FirstPoint(c.op) = "lockM"
    BY <1>4 DEF Begin, FirstPoint
  <2> QED BY <1>3, <2>1, <2>2 DEF SendPoints
<1>5. CASE BeginBroadcast(t, c)
  BY <1>1, <1>3, <1>5 DEF BeginBroadcast, FirstPoint
<1>6. CASE SetHandler(t, c)
  <2>1. /\ pc' = [pc EXCEPT ![t] = "idle"] /\ call' = [call EXCEPT ![t] = call[t]]
        /\ todo' = [todo EXCEPT ![t] = todo[t]]
    BY <1>1, <1>2, <1>6 DEF SetHandler
  <2> QED BY <1>3, <2>1 DEF SendPoints
<1> QED BY <1>4, <1>5, <1>6

-----------------------------------------------------------------------------
\* Send is over, for a peer of the loop or altogether.
LEMMA ReturnInOrder ==
  ASSUME IInv, NEW t \in Threads, InOrder(t), pc[t] \in SendPoints, SendReturns(t),
         UNCHANGED <<inbox, arrived, todo, made>>
  PROVE  /\ InOrder(t)'
         /\ \A u \in Threads \ {t} : pc'[u] = pc[u] /\ call'[u] = call[u] /\ todo'[u] = todo[u]
<1>1. pc \in [Threads -> Points] /\ call \in [Threads -> AllCalls \cup {NoCall}]
  BY DEF IInv, Types, ControlTyped
<1>2. CASE call[t].op = "broadcast"
  <2>1. /\ pc'[t] = "range" /\ call' = call
        /\ \A u \in Threads \ {t} : pc'[u] = pc[u]
    BY <1>1, <1>2 DEF SendReturns, Goto
  <2>2. ASSUME NEW p \in todo[t] PROVE Before(t, Delivered(p))'
    <3>1. Before(t, Delivered(p))
      BY <1>2 DEF InOrder
    <3>2. Delivered(p)' = Delivered(p)
      BY DEF Delivered
    <3> QED BY <3>1, <3>2 DEF Before
  <2> QED BY <1>2, <2>1, <2>2 DEF InOrder
<1>3. CASE call[t].op # "broadcast"
  <2>1. /\ pc'[t] = "idle"
        /\ \A u \in Threads \ {t} : pc'[u] = pc[u] /\ call'[u] = call[u]
    BY <1>1, <1>3 DEF SendReturns, Return
  <2> QED BY <2>1 DEF InOrder, SendPoints
<1> QED BY <1>2, <1>3

LEMMA SendStepsMail ==
  ASSUME IInv, Mail, NEW t \in Threads, Lookup(t) \/ Drop(t) \/ CheckHandler(t)
  PROVE  Mail'
<1>1. pc \in [Threads -> Points] /\ InOrder(t) /\ pc[t] \in SendPoints
      /\ UNCHANGED <<mail, todo, made>>
  BY DEF IInv, Types, ControlTyped, Mail, Lookup, Drop, CheckHandler, At, SendPoints
<1>2. UNCHANGED <<inbox, handled, arrived>>
  BY <1>1 DEF mail
<1>3. CASE SendReturns(t)
  BY <1>1, <1>2, <1>3, ReturnInOrder, MailStays
<1>4. CASE \/ pc[t] = "lookup" /\ Goto(t, "put")
           \/ pc[t] = "checkHandler" /\ Goto(t, "callHandler")
  <2>1. /\ call' = call /\ \A u \in Threads \ {t} : pc'[u] = pc[u]
        /\ \/ pc[t] = "lookup" /\ pc'[t] = "put"
           \/ pc[t] = "checkHandler" /\ pc'[t] = "callHandler"
    BY <1>1, <1>4 DEF Goto
  <2>2. \A m : Before(t, Delivered(m)) => Before(t, Delivered(m))'
    BY <1>1, <1>2 DEF Before, Delivered
  <2>3. ASSUME NEW p \in todo'[t], call'[t].op = "broadcast"
        PROVE  Before(t, Delivered(p))' /\ call'[t].o # p
    BY <1>1, <2>1, <2>2, <2>3 DEF InOrder
  <2> DEFINE o == call[t].o
  <2>4. o = call'[t].o /\ Delivered(o)' = Delivered(o) /\ Message(t)' = Message(t)
    BY <1>1, <1>2, <2>1 DEF Delivered, Message
  <2>5. ASSUME pc[t] = "lookup", pc'[t] = "put" PROVE InOrder(t)'
    <3>1. Before(t, Delivered(o))
      BY <1>1, <2>5 DEF InOrder
    <3>2. Before(t, Delivered(call[t].o))'
      BY <1>1, <2>4, <3>1 DEF Before
    <3> QED BY <2>1, <2>3, <2>5, <3>2 DEF InOrder, SendPoints
  <2>6. ASSUME pc[t] = "checkHandler", pc'[t] = "callHandler" PROVE InOrder(t)'
    <3>1. Message(t) \in ToSet(Delivered(o)) /\ Before(t, handled[o])
      BY <1>1, <2>6 DEF InOrder
    <3>2. /\ (Message(t) \in ToSet(Delivered(call[t].o)))'
          /\ Before(t, handled[call[t].o])'
      BY <1>1, <1>2, <2>4, <3>1 DEF Before
    <3> QED BY <2>1, <2>3, <2>6, <3>2 DEF InOrder, SendPoints
  <2>7. InOrder(t)'
    BY <2>1, <2>5, <2>6
  <2> QED BY <1>1, <2>1, <2>7, MailStays
<1> QED BY <1>3, <1>4 DEF Lookup, Drop, CheckHandler, At

LEMMA BroadcastNextMail ==
  ASSUME IInv, Mail, NEW t \in Threads, BroadcastNext(t) PROVE Mail'
<1>1. /\ pc \in [Threads -> Points] /\ InOrder(t) /\ pc[t] = "range"
      /\ call \in [Threads -> AllCalls \cup {NoCall}] /\ todo \in [Threads -> SUBSET Transports]
      /\ UNCHANGED <<mail, made>> /\ pc' = [pc EXCEPT ![t] = "lookup"]
  BY DEF IInv, Types, ControlTyped, Mail, BroadcastNext, At
<1>2. PICK p \in todo[t] : /\ call' = [call EXCEPT ![t].o = p]
                           /\ todo' = [todo EXCEPT ![t] = @ \ {p}]
  BY DEF BroadcastNext
<1>3. call[t].op = "broadcast" /\ \A q \in todo[t] : Before(t, Delivered(q))
  BY <1>1 DEF InOrder, SendPoints
<1>4. call[t] \in AllCalls
  BY <1>1, SendOps DEF SendPoints
<1>5. /\ pc'[t] = "lookup" /\ todo'[t] = todo[t] \ {p}
      /\ \A u \in Threads \ {t} : pc'[u] = pc[u] /\ call'[u] = call[u] /\ todo'[u] = todo[u]
  BY <1>1, <1>2
<1>6. call'[t].o = p
  BY <1>1, <1>2, <1>4 DEF AllCalls
<1>7. ASSUME NEW q \in todo[t] PROVE Before(t, Delivered(q))'
  <2>1. Delivered(q)' = Delivered(q)
    BY <1>1 DEF Delivered, mail
  <2> QED BY <1>1, <1>3, <2>1 DEF Before
<1>8. Before(t, Delivered(call[t].o))'
  <2>1. Before(t, Delivered(p))'
    BY <1>7
  <2> QED BY <1>6, <2>1
<1>9. InOrder(t)'
  BY <1>5, <1>6, <1>7, <1>8 DEF InOrder
<1> QED BY <1>1, <1>5, <1>9, MailStays

\* A packet goes into the inbox.
LEMMA PutMail == ASSUME IInv, Mail, NEW t \in Threads, Put(t) PROVE Mail'
<1> DEFINE o == call[t].o
           k == Message(t)
<1>1. /\ pc \in [Threads -> Points] /\ InOrder(t) /\ pc[t] = "put" /\ pc[t] \in SendPoints
      /\ MailTyped /\ UNCHANGED <<handled, arrived, todo, made>> /\ call' = call
      /\ pc' = [pc EXCEPT ![t] = "checkHandler"]
      /\ inbox' = [inbox EXCEPT ![o] = Append(@, k)]
  BY DEF IInv, Types, ControlTyped, Mail, Put, Goto, At, SendPoints
<1>2. o \in Transports /\ k \in Packets /\ k.by = t /\ k.n = made[t] /\ k' = k
  BY <1>1, SendOps DEF Message
<1>3. /\ inbox'[o] = Append(inbox[o], k)
      /\ \A m \in Transports \ {o} : inbox'[m] = inbox[m]
  BY <1>1, <1>2 DEF MailTyped
<1>4. /\ pc'[t] = "checkHandler"
      /\ \A u \in Threads \ {t} : pc'[u] = pc[u] /\ call'[u] = call[u] /\ todo'[u] = todo[u]
  BY <1>1
<1> HIDE DEF k
<1>5. \A m \in Transports :
        Delivered(m)' = IF m = o THEN Append(Delivered(m), k) ELSE Delivered(m)
  <2>1. \A m \in Transports \ {o} : Delivered(m)' = Delivered(m)
    BY <1>1, <1>3 DEF Delivered
  <2>2. arrived[o] \in Seq(Packets) /\ inbox[o] \in Seq(Packets)
    BY <1>1, <1>2 DEF MailTyped
  <2>3. arrived[o] \o Append(inbox[o], k) = Append(arrived[o] \o inbox[o], k)
    BY <1>2, <2>2, ConcatAppend
  <2>4. ASSUME NEW m \in Transports, m = o PROVE Delivered(m)' = Append(Delivered(m), k)
    BY <1>1, <1>3, <2>3, <2>4 DEF Delivered
  <2> QED BY <2>1, <2>4
<1>6. Before(t, Delivered(o)) /\ Delivered(o) \in Seq(Packets)
  BY <1>1, <1>2, DeliveredTyped DEF InOrder
<1>7. \A m \in Transports : /\ ToSet(handled[m]) \subseteq ToSet(Delivered(m))
                            /\ InSendingOrder(handled[m]) /\ InSendingOrder(Delivered(m))
  BY DEF Mail, HandlerFollowsInbox, Delivered
<1>8. /\ InSendingOrder(Append(Delivered(o), k))
      /\ ToSet(Append(Delivered(o), k)) = ToSet(Delivered(o)) \cup {k}
      /\ \A u \in Threads : u # t /\ Before(u, Delivered(o)) =>
           Before(u, Append(Delivered(o), k))
  BY <1>2, <1>6, <1>7, AppendInOrder
<1> HIDE DEF o
<1>9. HandlerFollowsInbox'
  <2>1. ASSUME NEW m \in Transports, NEW log, log = Delivered(m)'
        PROVE  ToSet(handled[m]) \subseteq ToSet(log) /\ InSendingOrder(log)
    <3>1. CASE m = o
      BY <1>5, <1>7, <1>8, <2>1, <3>1
    <3>2. CASE m # o
      BY <1>5, <1>7, <2>1, <3>2
    <3> QED BY <3>1, <3>2
  <2>2. \A m \in Transports : ToSet(handled[m]) \subseteq ToSet(Delivered(m)')
                              /\ InSendingOrder(Delivered(m)')
    BY <2>1
  <2> QED BY <1>1, <1>7, <2>2 DEF HandlerFollowsInbox, Delivered, InSendingOrder
<1>10. MadeSoFar'
  <2>1. \A i \in 1..Len(Delivered(o)) : Append(Delivered(o), k)[i] = Delivered(o)[i]
    BY <1>2, <1>6, AppendProperties
  <2>2. /\ Len(Append(Delivered(o), k)) = Len(Delivered(o)) + 1 /\ Len(Delivered(o)) \in Nat
        /\ Append(Delivered(o), k)[Len(Delivered(o)) + 1] = k
    BY <1>2, <1>6, AppendProperties, LenProperties
  <2>3. k.n <= made[k.by]
    BY <1>2 DEF Packets
  <2>4. ASSUME NEW i \in 1..Len(Append(Delivered(o), k))
        PROVE  Append(Delivered(o), k)[i].n <= made[Append(Delivered(o), k)[i].by]
    <3>1. CASE i \in 1..Len(Delivered(o))
      BY <1>2, <2>1, <3>1 DEF Mail, MadeSoFar
    <3>2. CASE i = Len(Delivered(o)) + 1
      BY <2>2, <2>3, <3>2
    <3> QED BY <2>2, <3>1, <3>2
  <2>5. ASSUME NEW m \in Transports, NEW log, log = Delivered(m)', NEW i \in 1..Len(log)
        PROVE  log[i].n <= made[log[i].by]
    <3>1. CASE m = o
      <4>1. log = Append(Delivered(o), k)
        BY <1>5, <2>5, <3>1
      <4> QED BY <2>4, <4>1
    <3>2. CASE m # o
      BY <1>5, <2>5, <3>2 DEF Mail, MadeSoFar
    <3> QED BY <3>1, <3>2
  <2> QED BY <1>1, <2>5 DEF MadeSoFar
<1>11. ASSUME NEW u \in Threads \ {t} PROVE InOrder(u)'
  <2>1. InOrder(u) /\ u \in Threads /\ made'[u] = made[u] /\ u # t
    BY <1>1 DEF Mail
  <2>2. ASSUME NEW m \in Transports, NEW log, log = Delivered(m)'
        PROVE  /\ Before(u, Delivered(m)) => Before(u, log)
               /\ ToSet(Delivered(m)) \subseteq ToSet(log)
    <3>1. CASE m = o
      BY <1>5, <1>8, <2>1, <2>2, <3>1
    <3>2. CASE m # o
      BY <1>5, <2>2, <3>2
    <3> QED BY <3>1, <3>2
  <2>3. ASSUME NEW m \in Transports
        PROVE  /\ Before(u, Delivered(m)) => Before(u, Delivered(m))'
               /\ Before(u, handled[m]) => Before(u, handled[m])'
               /\ ToSet(Delivered(m)) \subseteq ToSet(Delivered(m))'
    <3>1. Before(u, handled[m]) => Before(u, handled[m])'
      BY <1>1 DEF Before
    <3>2. Before(u, Delivered(m)) => Before(u, Delivered(m)')
      BY <2>2
    <3> QED BY <1>1, <2>2, <3>1, <3>2 DEF Before
  <2> QED BY <1>4, <2>1, <2>3, OthersInOrder
<1>12. InOrder(t)'
  <2>1. call'[t].o = o /\ call[t].o = o /\ Message(t)' = k
    BY <1>1, <1>2 DEF o, k
  <2>2. ASSUME NEW m \in Transports, m = o PROVE k \in ToSet(Delivered(m)')
    BY <1>5, <1>8, <2>2
  <2>3. (Message(t) \in ToSet(Delivered(call[t].o)))'
    BY <1>2, <2>1, <2>2 DEF Delivered
  <2>4. Before(t, handled[o])
    <3>1. handled[o] \in Seq(Packets) /\ DOMAIN handled[o] = 1..Len(handled[o])
          /\ DOMAIN Delivered(o) = 1..Len(Delivered(o))
      BY <1>2, <1>6, DeliveredTyped, LenProperties
    <3>2. \A i \in 1..Len(handled[o]) : \E j \in 1..Len(Delivered(o)) :
            handled[o][i] = Delivered(o)[j]
      BY <1>2, <1>7, <3>1 DEF ToSet
    <3> QED BY <1>6, <3>2 DEF Before
  <2>5. Before(t, handled[call[t].o])'
    BY <1>1, <2>1, <2>4 DEF Before
  <2>6. ASSUME NEW p \in todo'[t], call'[t].op = "broadcast"
        PROVE  Before(t, Delivered(p))' /\ call'[t].o # p
    <3>1. Before(t, Delivered(p)) /\ p # o
      BY <1>1, <2>1, <2>6 DEF InOrder
    <3>2. p \in Transports
      BY <1>1, SendOps
    <3>3. Delivered(p)' = Delivered(p)
      BY <1>5, <3>1, <3>2
    <3> QED BY <1>1, <2>1, <3>1, <3>3 DEF Before
  <2> QED BY <1>4, <2>3, <2>5, <2>6 DEF InOrder
<1> QED BY <1>9, <1>10, <1>11, <1>12 DEF Mail

\* The handler is called for a packet that was put into the inbox.
LEMMA CallHandlerMail == ASSUME IInv, Mail, NEW t \in Threads, CallHandler(t) PROVE Mail'
<1> DEFINE o == call[t].o
           k == Message(t)
<1>1. /\ InOrder(t) /\ pc[t] = "callHandler" /\ pc[t] \in SendPoints
      /\ MailTyped /\ UNCHANGED <<inbox, arrived, todo, made>>
  BY DEF IInv, Types, Mail, CallHandler, At, SendPoints
<1>2. o \in Transports /\ k \in Packets /\ k.by = t /\ k.n = made[t]
  BY <1>1, SendOps DEF Message
<1>3. \A m : Delivered(m)' = Delivered(m)
  BY <1>1 DEF Delivered
<1>4. CASE o \in handler
  <2>1. /\ SendReturns(t) /\ handled' = [handled EXCEPT ![o] = Append(@, k)]
    BY <1>4 DEF CallHandler
  <2>2. /\ InOrder(t)'
        /\ \A u \in Threads \ {t} :
             pc'[u] = pc[u] /\ call'[u] = call[u] /\ todo'[u] = todo[u]
    BY <1>1, <2>1, ReturnInOrder
  <2>3. \A m \in Transports :
          handled'[m] = IF m = o THEN Append(handled[m], k) ELSE handled[m]
    BY <1>1, <1>2, <2>1 DEF MailTyped
  <2> HIDE DEF k
  <2>4. k \in ToSet(Delivered(o)) /\ Before(t, handled[o]) /\ handled[o] \in Seq(Packets)
    BY <1>1, <1>2 DEF InOrder, k, MailTyped
  <2>5. \A m \in Transports : /\ ToSet(handled[m]) \subseteq ToSet(Delivered(m))
                              /\ InSendingOrder(handled[m]) /\ InSendingOrder(Delivered(m))
    BY DEF Mail, HandlerFollowsInbox, Delivered
  <2>6. /\ InSendingOrder(Append(handled[o], k))
        /\ ToSet(Append(handled[o], k)) = ToSet(handled[o]) \cup {k}
        /\ \A u \in Threads : u # t /\ Before(u, handled[o]) =>
             Before(u, Append(handled[o], k))
    BY <1>2, <2>4, <2>5, AppendInOrder
  <2> HIDE DEF o
  <2>7. HandlerFollowsInbox'
    <3>1. ASSUME NEW m \in Transports, NEW log, log = handled'[m]
          PROVE  ToSet(log) \subseteq ToSet(Delivered(m)) /\ InSendingOrder(log)
      BY <2>3, <2>4, <2>5, <2>6, <3>1
    <3>2. \A m \in Transports : /\ ToSet(handled'[m]) \subseteq ToSet(Delivered(m))
                                /\ InSendingOrder(handled'[m])
      BY <3>1
    <3>3. \A m \in Transports : InSendingOrder(handled[m])'
      BY <3>2 DEF InSendingOrder
    <3>4. \A m \in Transports : InSendingOrder(Delivered(m))'
      BY <1>3, <2>5 DEF InSendingOrder
    <3>5. \A m \in Transports : (ToSet(handled[m]) \subseteq ToSet(Delivered(m)))'
      BY <1>3, <3>2
    <3> QED BY <3>3, <3>4, <3>5 DEF HandlerFollowsInbox, Delivered
  <2>8. MadeSoFar'
    BY <1>1 DEF Mail, MadeSoFar, Delivered
  <2>9. ASSUME NEW u \in Threads \ {t} PROVE InOrder(u)'
    <3>1. InOrder(u) /\ u \in Threads /\ made'[u] = made[u] /\ u # t
      BY <1>1 DEF Mail
    <3>2. ASSUME NEW m \in Transports, NEW log, log = handled'[m], Before(u, handled[m])
          PROVE  Before(u, log)
      BY <2>3, <2>6, <3>1, <3>2
    <3>3. ASSUME NEW m \in Transports
          PROVE  /\ Before(u, Delivered(m)) => Before(u, Delivered(m))'
                 /\ Before(u, handled[m]) => Before(u, handled[m])'
                 /\ ToSet(Delivered(m)) \subseteq ToSet(Delivered(m))'
      <4>1. Before(u, Delivered(m)) => Before(u, Delivered(m))'
        BY <1>1, <1>3 DEF Before
      <4>2. Before(u, handled[m]) => Before(u, handled'[m])
        BY <3>2
      <4>3. Before(u, handled'[m]) => Before(u, handled[m])'
        BY <1>1 DEF Before
      <4> QED BY <1>3, <4>1, <4>2, <4>3
    <3> QED BY <2>2, <3>1, <3>3, OthersInOrder
  <2> QED BY <2>2, <2>7, <2>8, <2>9 DEF Mail
<1>5. CASE o \notin handler
  <2>1. UNCHANGED <<mail, made, pc, call, todo>>
    BY <1>1, <1>5 DEF CallHandler, Panic, mail
  <2>2. InOrder(t)'
    BY <2>1 DEF Mail, InOrder, Before, Delivered, Message, mail
  <2> QED BY <2>1, <2>2, MailStays
<1> QED BY <1>4, <1>5

\* A packet goes from the channel to its reader.
LEMMA ReceiveMail == ASSUME IInv, Mail, NEW r \in Transports, Receive(r) PROVE Mail'
<1>1. /\ inbox[r] # << >> /\ inbox' = [inbox EXCEPT ![r] = Tail(@)]
      /\ arrived' = [arrived EXCEPT ![r] = Append(@, Head(inbox[r]))]
      /\ UNCHANGED <<handled, pc, call, todo, made>> /\ MailTyped
  BY DEF Receive, IInv, Types
<1>2. arrived[r] \in Seq(Packets) /\ inbox[r] \in Seq(Packets)
  BY <1>1 DEF MailTyped
<1>3. Append(arrived[r], Head(inbox[r])) \o Tail(inbox[r]) = arrived[r] \o inbox[r]
  BY <1>1, <1>2, ConcatHeadTail
<1>4. \A m \in Transports : arrived'[m] \o inbox'[m] = arrived[m] \o inbox[m]
  BY <1>1, <1>3 DEF MailTyped
<1>5. HandlerFollowsInbox'
  BY <1>1, <1>4 DEF Mail, HandlerFollowsInbox
<1>6. \A m \in Transports : Delivered(m)' = Delivered(m)
  BY <1>4 DEF Delivered
<1>7. MadeSoFar'
  BY <1>1, <1>6 DEF Mail, MadeSoFar
<1>8. ASSUME NEW u \in Threads PROVE InOrder(u)'
  <2>1. ASSUME NEW m \in Transports
        PROVE  /\ Before(u, Delivered(m)) => Before(u, Delivered(m))'
               /\ Before(u, handled[m]) => Before(u, handled[m])'
    BY <1>1, <1>6 DEF Before
  <2>2. InOrder(u)
    BY DEF Mail
  <2> QED BY <1>1, <1>6, <2>1, <2>2, OthersInOrder
<1> QED BY <1>5, <1>7, <1>8 DEF Mail

LEMMA MailInvariant == Spec => [](IInv /\ Mail)
<1>1. IInv /\ Mail /\ [Next]_vars => (IInv /\ Mail)'
  <2> SUFFICES ASSUME IInv, Mail, [Next]_vars PROVE (IInv /\ Mail)'
    OBVIOUS
  <2>1. ASSUME NEW t \in Threads, Continue(t) PROVE Mail'
    BY <2>1, OtherCallsMail, SendStepsMail, BroadcastNextMail, PutMail, CallHandlerMail
    DEF Continue
  <2>2. ASSUME UNCHANGED vars PROVE Mail'
    <3>1. UNCHANGED <<inbox, handled, arrived, pc, call, todo, made>>
      BY <2>2 DEF vars, mail
    <3>2. ASSUME NEW u \in Threads PROVE InOrder(u)'
      BY <3>1 DEF Mail, InOrder, Before, Delivered, Message
    <3>3. HandlerFollowsInbox' /\ MadeSoFar'
      BY <3>1 DEF Mail, HandlerFollowsInbox, MadeSoFar, Delivered
    <3> QED BY <3>2, <3>3 DEF Mail
  <2>3. Mail'
    BY <2>1, <2>2, BeginMail, ReceiveMail DEF Next
  <2> QED BY <2>3, StepKeeps
<1> QED BY <1>1, InitIInv, InitMail, PTL DEF Spec

\* Send puts a packet into the inbox and only then calls the handler, on its own
\* goroutine: for the packets of one goroutine the two deliveries agree, whatever
\* the inboxes hold and however its calls mix with others.
THEOREM DeliveriesAgree == Spec => []HandlerFollowsInbox
<1>1. Mail => HandlerFollowsInbox
  BY DEF Mail
<1> QED BY <1>1, MailInvariant, PTL

=============================================================================
