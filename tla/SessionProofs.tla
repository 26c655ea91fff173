--------------------------- MODULE SessionProofs ---------------------------
(***************************************************************************)
(* Theorems about Session, for any nodes, goroutines and numbers of calls: *)
(* types; that keys are not used again; that what is known of a peer's     *)
(* identity survives; that the keys of one gap only are stored; and that   *)
(* the handshakes of one goroutine leave both ends with the same.          *)
(***************************************************************************)
EXTENDS Session, TLAPS

KeyPair == ({"identity", "signed", "one-time"} \X Nodes)
             \cup ({"ephemeral", "ratchet"} \X Nat)
Ephemeral == {"ephemeral"} \X Nat
Value == SUBSET KeyPair
Chain == [start : (Value \X Value \X Value \X Value) \X Value, step : Nat]
Ratchets ==
  [secret : Value \X Value \X Value \X Value, ad : KeyPair \X KeyPair \X KeyPair,
   send : Chain, recv : Chain, recvNum : Nat, skipped : Nat]

Sessions == {None} \cup [identity : BOOLEAN, ratchet : Nat]
Packets == [type : {"init"}, from : Nodes, ik : KeyPair, ek : Ephemeral]
             \cup [type : {"chat"}, from : Nodes]

\* What a goroutine keeps from one step to the next; made are the ratchets.
TaskOK(t, made) ==
  /\ t.at \in {"idle", "send", "handle", "store", "encrypt", "seal", "decrypt",
               "skip"}
  /\ t.at \in {"send", "encrypt", "seal"} => t.to \in Nodes
  /\ t.at \in {"send", "handle"} => t.packet \in Packets
  /\ t.at \in {"handle", "store"} => t.node \in Nodes
  /\ t.at = "store" => t.peer \in Nodes /\ t.seen \in Sessions
  /\ t.at \in {"store", "encrypt", "seal", "decrypt", "skip"} =>
       t.ratchet \in made
  /\ t.at = "seal" => t.key \in Chain
  /\ t.at \in {"decrypt", "skip"} => t.num \in Nat
  /\ t.at = "skip" => t.recvNum \in Nat

Types ==
  /\ named \in BOOLEAN /\ crashed \in BOOLEAN
  /\ ratchets \in Seq(Ratchets)
  /\ peers \in [Nodes -> [Nodes -> Sessions]]
  /\ \A n, m \in Nodes : peers[n][m] # None =>
       peers[n][m].ratchet \in DOMAIN ratchets
  /\ inbox \in [Nodes -> Seq(Packets)]
  /\ \A n \in Nodes : Len(inbox[n]) <= InboxSize
  /\ task = [p \in Procs |-> task[p]]
  /\ \A p \in Procs : TaskOK(task[p], DOMAIN ratchets)
  /\ seals \in Seq([key : Chain, ratchet : Nat])
  /\ \A i \in DOMAIN seals : seals[i].ratchet \in DOMAIN ratchets
  /\ raced \subseteq DOMAIN ratchets /\ initiators \subseteq Callers

\* Of the ratchet keys, the value a sending chain starts from involves the one
\* that was generated for it, and no other: so no two chains are the same.
OwnStart ==
  \A r \in DOMAIN ratchets : \A i \in Nat :
    RK(i) \in ratchets[r].send.start[2] <=> i = r

\* The keys of a chain come in order, unless two goroutines are in Encrypt.
KeysInOrder ==
  /\ \A i \in DOMAIN seals :
       /\ seals[i].key.start = ratchets[seals[i].ratchet].send.start
       /\ seals[i].ratchet \notin raced =>
            seals[i].key.step < ratchets[seals[i].ratchet].send.step
  /\ \A p \in Procs : task[p].at = "seal" =>
       /\ task[p].key.start = ratchets[task[p].ratchet].send.start
       /\ task[p].ratchet \notin raced => task[p].key = ratchets[task[p].ratchet].send
  /\ \A p, q \in Procs :
       p # q /\ task[p].at = "seal" /\ task[q].at = "seal"
         /\ task[p].ratchet = task[q].ratchet => task[p].ratchet \in raced

KeysDiffer ==
  \A i, j \in DOMAIN seals : i # j /\ seals[i].key = seals[j].key =>
    seals[i].ratchet = seals[j].ratchet /\ seals[i].ratchet \in raced

IInv == Types /\ OwnStart /\ KeysInOrder /\ KeysDiffer

-----------------------------------------------------------------------------
LEMMA InitIInv == Init => IInv
<1> SUFFICES ASSUME Init PROVE IInv
  OBVIOUS
<1> USE DEF Init
<1>1. ratchets \in Seq(Ratchets) /\ DOMAIN ratchets = {}
  OBVIOUS
<1>2. seals \in Seq([key : Chain, ratchet : Nat]) /\ DOMAIN seals = {}
  OBVIOUS
<1>3. \A p \in Procs : task[p].at = "idle"
  BY DEF Idle
<1>4. \A p \in Procs : TaskOK(task[p], DOMAIN ratchets)
  BY <1>3 DEF TaskOK
<1>5. peers \in [Nodes -> [Nodes -> Sessions]]
  BY DEF Sessions
<1>6. /\ inbox \in [Nodes -> Seq(Packets)]
      /\ \A n \in Nodes : Len(inbox[n]) <= InboxSize
  BY BoundsAssumption
<1>7. Types
  BY <1>1, <1>2, <1>4, <1>5, <1>6 DEF Types, None
<1>8. OwnStart /\ KeysDiffer
  BY <1>1, <1>2 DEF OwnStart, KeysDiffer
<1>9. KeysInOrder
  BY <1>2, <1>3 DEF KeysInOrder
<1> QED BY <1>7, <1>8, <1>9 DEF IInv

\* A goroutine goes on to do something else than to seal a message; sending
\* chains and what was sealed stay as they are.
LEMMA TaskGoesOn ==
  ASSUME IInv, NEW p \in Procs, NEW t, task' = [task EXCEPT ![p] = t],
         t.at # "seal",
         DOMAIN ratchets \subseteq DOMAIN ratchets',
         \A r \in DOMAIN ratchets : ratchets'[r].send = ratchets[r].send,
         seals' = seals, raced \subseteq raced'
  PROVE  KeysInOrder' /\ KeysDiffer'
<1>1. \A q \in Procs : task'[q].at = "seal" => q # p /\ task'[q] = task[q]
  BY DEF IInv, Types
<1>2. \A q \in Procs : task'[q].at = "seal" => task[q].ratchet \in DOMAIN ratchets
  BY <1>1 DEF IInv, Types, TaskOK
<1>3. \A i \in DOMAIN seals : seals[i].ratchet \in DOMAIN ratchets
  BY DEF IInv, Types
<1>4. \A i \in DOMAIN seals :
        /\ seals[i].key.start = ratchets'[seals[i].ratchet].send.start
        /\ seals[i].ratchet \notin raced' =>
             seals[i].key.step < ratchets'[seals[i].ratchet].send.step
  BY <1>3 DEF IInv, KeysInOrder
<1>5. \A q \in Procs : task'[q].at = "seal" =>
        /\ task'[q].key.start = ratchets'[task'[q].ratchet].send.start
        /\ task'[q].ratchet \notin raced' =>
             task'[q].key = ratchets'[task'[q].ratchet].send
  BY <1>1, <1>2 DEF IInv, KeysInOrder
<1>6. \A q, u \in Procs :
        q # u /\ task'[q].at = "seal" /\ task'[u].at = "seal"
          /\ task'[q].ratchet = task'[u].ratchet => task'[q].ratchet \in raced'
  BY <1>1 DEF IInv, KeysInOrder
<1>7. KeysInOrder'
  BY <1>4, <1>5, <1>6 DEF KeysInOrder
<1>8. KeysDiffer'
  BY DEF IInv, KeysDiffer
<1> QED BY <1>7, <1>8

\* The tasks of the other goroutines stay in order.
LEMMA TaskTypes ==
  ASSUME Types, NEW p \in Procs, NEW t, task' = [task EXCEPT ![p] = t],
         TaskOK(t, DOMAIN ratchets'), DOMAIN ratchets \subseteq DOMAIN ratchets'
  PROVE  /\ task' = [q \in Procs |-> task'[q]]
         /\ \A q \in Procs : TaskOK(task[q], DOMAIN ratchets)'
<1>1. task' = [q \in Procs |-> task'[q]] /\ task'[p] = t
  BY DEF Types
<1>2. ASSUME NEW q \in Procs, q # p PROVE TaskOK(task[q], DOMAIN ratchets)'
  <2>1. task'[q] = task[q] /\ TaskOK(task[q], DOMAIN ratchets)
    BY <1>2 DEF Types
  <2> QED BY <2>1 DEF TaskOK
<1>3. TaskOK(task[p], DOMAIN ratchets)'
  BY <1>1 DEF TaskOK
<1> QED BY <1>1, <1>2, <1>3

\* Steps that touch neither ratchets nor sessions.
LEMMA PacketsMove ==
  ASSUME IInv, NEW p \in Procs, NEW t, task' = [task EXCEPT ![p] = t],
         TaskOK(t, DOMAIN ratchets), t.at # "seal",
         UNCHANGED <<named, peers, ratchets, crashed, seals>>,
         raced \subseteq raced', raced' \subseteq DOMAIN ratchets,
         initiators' \subseteq Callers,
         inbox' \in [Nodes -> Seq(Packets)],
         \A n \in Nodes : Len(inbox'[n]) <= InboxSize
  PROVE  IInv'
<1>1. TaskOK(t, DOMAIN ratchets')
  BY DEF TaskOK
<1>2. Types'
  BY <1>1, TaskTypes DEF IInv, Types
<1>3. KeysInOrder' /\ KeysDiffer'
  BY TaskGoesOn DEF IInv
<1>4. OwnStart'
  BY DEF IInv, OwnStart
<1> QED BY <1>2, <1>3, <1>4 DEF IInv

LEMMA RatchetTypes ==
  ASSUME Types
  PROVE  /\ DOMAIN ratchets = 1..Len(ratchets) /\ Len(ratchets) \in Nat
         /\ \A r \in DOMAIN ratchets : ratchets[r] \in Ratchets
BY DEF Types

LEMMA SealTypes == ASSUME Types PROVE \A i \in DOMAIN seals : seals[i].key \in Chain
<1> DEFINE Seals == [key : Chain, ratchet : Nat]
<1>1. seals \in Seq(Seals)
  BY DEF Types
<1>2. \A s \in Seals : s.key \in Chain
  OBVIOUS
<1> HIDE DEF Seals
<1>3. \A i \in DOMAIN seals : seals[i] \in Seals
  BY <1>1
<1> QED BY <1>2, <1>3

\* A session that is made gets a ratchet of its own; what the other side adds
\* to the value its chain starts from is no ratchet key.
LEMMA RatchetAdded ==
  ASSUME Types, OwnStart,
         NEW secret \in Value \X Value \X Value \X Value,
         NEW ad \in KeyPair \X KeyPair \X KeyPair,
         NEW theirs \in KeyPair, theirs[1] # "ratchet",
         ratchets' = Append(ratchets, NewRatchet(secret, ad, RK(NextRatchet), theirs))
  PROVE  /\ ratchets' \in Seq(Ratchets)
         /\ DOMAIN ratchets' = DOMAIN ratchets \cup {NextRatchet}
         /\ \A r \in DOMAIN ratchets : ratchets'[r] = ratchets[r]
         /\ OwnStart'
<1> DEFINE new == NewRatchet(secret, ad, RK(NextRatchet), theirs)
<1>1. /\ ratchets \in Seq(Ratchets) /\ NextRatchet \in Nat
      /\ DOMAIN ratchets = 1..Len(ratchets)
  BY DEF Types, NextRatchet
<1>2. RK(NextRatchet) \in KeyPair
  BY <1>1 DEF RK, KeyPair
<1>3. DH(RK(NextRatchet), theirs) \in Value
  BY <1>2 DEF DH, Value
<1>4. [start |-> <<secret, DH(RK(NextRatchet), theirs)>>, step |-> 0] \in Chain
  BY <1>3 DEF Chain
<1>5. new \in Ratchets
  BY <1>4 DEF NewRatchet, Ratchets
<1>6. \A i \in Nat : RK(i) \in new.send.start[2] <=> i = NextRatchet
  <2>1. new.send.start[2] = {RK(NextRatchet), theirs}
    BY DEF NewRatchet, DH
  <2>2. \A i \in Nat : RK(i) # theirs
    BY DEF RK
  <2>3. \A i \in Nat : RK(i) = RK(NextRatchet) <=> i = NextRatchet
    BY DEF RK
  <2> QED BY <2>1, <2>2, <2>3
<1>7. ratchets' = Append(ratchets, new)
  OBVIOUS
<1> HIDE DEF new
<1>8. /\ ratchets' \in Seq(Ratchets)
      /\ DOMAIN ratchets' = DOMAIN ratchets \cup {NextRatchet}
      /\ \A r \in DOMAIN ratchets : ratchets'[r] = ratchets[r]
      /\ ratchets'[NextRatchet] = new
  BY <1>1, <1>5, <1>7 DEF NextRatchet
<1>9. OwnStart'
  BY <1>6, <1>8 DEF OwnStart
<1> QED BY <1>8, <1>9

\* What no step but those of Encrypt, and of the handlers that make sessions,
\* has to show.
LEMMA RatchetsKeepChains ==
  ASSUME IInv, NEW p \in Procs, NEW t, task' = [task EXCEPT ![p] = t],
         TaskOK(t, DOMAIN ratchets'), t.at # "seal",
         UNCHANGED <<named, crashed, inbox, seals, raced>>, initiators' \subseteq Callers,
         ratchets' \in Seq(Ratchets), OwnStart',
         DOMAIN ratchets \subseteq DOMAIN ratchets',
         \A r \in DOMAIN ratchets : ratchets'[r].send = ratchets[r].send,
         peers' \in [Nodes -> [Nodes -> Sessions]],
         \A n, m \in Nodes : peers'[n][m] # None =>
           peers'[n][m].ratchet \in DOMAIN ratchets'
  PROVE  IInv'
<1>1. /\ task' = [q \in Procs |-> task'[q]]
      /\ \A q \in Procs : TaskOK(task[q], DOMAIN ratchets)'
  BY TaskTypes DEF IInv
<1>2. Types'
  BY <1>1 DEF IInv, Types
<1>3. KeysInOrder' /\ KeysDiffer'
  BY TaskGoesOn
<1> QED BY <1>2, <1>3 DEF IInv

-----------------------------------------------------------------------------
(* One lemma per action. *)

LEMMA DeliverKeeps == ASSUME IInv, NEW c \in Callers, Deliver(c) PROVE IInv'
<1> DEFINE t == [at |-> "handle", node |-> task[c].to, packet |-> task[c].packet]
<1>1. c \in Procs /\ TaskOK(task[c], DOMAIN ratchets) /\ task[c].at = "send"
  BY DEF IInv, Types, Procs, Deliver
<1>2. task[c].to \in Nodes /\ task[c].packet \in Packets
  BY <1>1 DEF TaskOK
<1>3. TaskOK(t, DOMAIN ratchets)
  BY <1>2 DEF TaskOK
<1>4. inbox' = [inbox EXCEPT ![task[c].to] = Append(@, task[c].packet)]
      /\ Len(inbox[task[c].to]) < InboxSize
  BY DEF Deliver, CanDeliver
<1>5. inbox' \in [Nodes -> Seq(Packets)]
      /\ \A n \in Nodes : Len(inbox'[n]) <= InboxSize
  <2>1. inbox \in [Nodes -> Seq(Packets)]
        /\ \A n \in Nodes : Len(inbox[n]) <= InboxSize
    BY DEF IInv, Types
  <2>2. Append(inbox[task[c].to], task[c].packet) \in Seq(Packets)
        /\ Len(Append(inbox[task[c].to], task[c].packet)) <= InboxSize
    BY <1>2, <1>4, <2>1, BoundsAssumption
  <2> QED BY <1>2, <1>4, <2>1, <2>2
<1>6. /\ task' = [task EXCEPT ![c] = t]
      /\ UNCHANGED <<named, peers, ratchets, crashed, calls, history>>
  BY DEF Deliver, Continue
<1>7. UNCHANGED <<named, peers, ratchets, crashed, seals, raced, initiators>>
  BY <1>6 DEF history
<1>8. raced \subseteq DOMAIN ratchets /\ initiators \subseteq Callers
  BY DEF IInv, Types
<1>9. t.at # "seal"
  OBVIOUS
<1> HIDE DEF t
<1> QED BY <1>1, <1>3, <1>5, <1>6, <1>7, <1>8, <1>9, PacketsMove

LEMMA DropKeeps == ASSUME IInv, NEW c \in Callers, Drop(c) PROVE IInv'
<1>1. c \in Procs /\ TaskOK(Idle, DOMAIN ratchets) /\ Idle.at # "seal"
  BY DEF Procs, TaskOK, Idle
<1>2. /\ task' = [task EXCEPT ![c] = Idle]
      /\ UNCHANGED <<named, peers, ratchets, crashed, seals, raced, initiators, inbox>>
  BY DEF Drop, Return, Continue
<1>3. /\ raced \subseteq DOMAIN ratchets /\ initiators \subseteq Callers
      /\ inbox \in [Nodes -> Seq(Packets)]
      /\ \A n \in Nodes : Len(inbox[n]) <= InboxSize
  BY DEF IInv, Types
<1> QED BY <1>1, <1>2, <1>3, PacketsMove

LEMMA RecvKeeps == ASSUME IInv, NEW n \in Nodes, Recv(n) PROVE IInv'
<1> DEFINE t == [at |-> "handle", node |-> n, packet |-> Head(inbox[n])]
<1>1. /\ inbox \in [Nodes -> Seq(Packets)]
      /\ \A m \in Nodes : Len(inbox[m]) <= InboxSize
      /\ raced \subseteq DOMAIN ratchets /\ initiators \subseteq Callers
  BY DEF IInv, Types
<1>2. inbox[n] # << >> /\ inbox' = [inbox EXCEPT ![n] = Tail(@)]
  BY DEF Recv
<1>3. /\ Head(inbox[n]) \in Packets /\ Tail(inbox[n]) \in Seq(Packets)
      /\ Len(Tail(inbox[n])) <= InboxSize
  BY <1>1, <1>2, BoundsAssumption
<1>4. TaskOK(t, DOMAIN ratchets) /\ t.at # "seal"
  BY <1>3 DEF TaskOK
<1>5. inbox' \in [Nodes -> Seq(Packets)]
      /\ \A m \in Nodes : Len(inbox'[m]) <= InboxSize
  BY <1>1, <1>2, <1>3
<1>6. /\ task' = [task EXCEPT ![n] = t]
      /\ UNCHANGED <<named, peers, ratchets, crashed, seals, raced, initiators>>
  BY DEF Recv, Continue, history
<1>7. n \in Procs
  BY DEF Procs
<1> HIDE DEF t
<1> QED BY <1>1, <1>4, <1>5, <1>6, <1>7, PacketsMove

LEMMA SendChatKeeps ==
  ASSUME IInv, NEW c \in Callers, NEW m \in Nodes, SendChat(c, m) PROVE IInv'
<1> DEFINE t == [at |-> "encrypt", ratchet |-> peers[Home[c]][m].ratchet, to |-> m]
<1>1. Home[c] \in Nodes /\ peers[Home[c]][m] # None
  BY CallersAssumption DEF SendChat
<1>2. peers[Home[c]][m].ratchet \in DOMAIN ratchets
  BY <1>1 DEF IInv, Types
<1>3. TaskOK(t, DOMAIN ratchets) /\ t.at # "seal"
  BY <1>2 DEF TaskOK
<1>4. /\ task' = [task EXCEPT ![c] = t]
      /\ UNCHANGED <<named, peers, ratchets, crashed, seals, raced, initiators, inbox>>
  BY DEF SendChat, Continue, history
<1>5. /\ raced \subseteq DOMAIN ratchets /\ initiators \subseteq Callers
      /\ inbox \in [Nodes -> Seq(Packets)]
      /\ \A n \in Nodes : Len(inbox[n]) <= InboxSize
  BY DEF IInv, Types
<1>6. c \in Procs
  BY DEF Procs
<1> HIDE DEF t
<1> QED BY <1>3, <1>4, <1>5, <1>6, PacketsMove

LEMMA HandleChatKeeps ==
  ASSUME IInv, NEW p \in Procs, HandleChat(p) PROVE IInv'
<1> DEFINE session == peers[task[p].node][task[p].packet.from]
           read == [at |-> "decrypt", ratchet |-> session.ratchet,
                    num |-> Misread[task[p].packet.from]]
           t == IF session = None THEN Idle ELSE read
<1>1. TaskOK(task[p], DOMAIN ratchets) /\ task[p].at = "handle"
  BY DEF IInv, Types, HandleChat
<1>2. task[p].node \in Nodes /\ task[p].packet.from \in Nodes
  BY <1>1 DEF TaskOK, Packets
<1>3. session # None => session.ratchet \in DOMAIN ratchets
  BY <1>2 DEF IInv, Types
<1>4. Misread[task[p].packet.from] \in Nat
  BY <1>2, BoundsAssumption
<1>5. TaskOK(Idle, DOMAIN ratchets) /\ Idle.at # "seal"
  BY DEF TaskOK, Idle
<1>6. session # None => TaskOK(read, DOMAIN ratchets) /\ read.at # "seal"
  BY <1>3, <1>4 DEF TaskOK
<1>7. TaskOK(t, DOMAIN ratchets) /\ t.at # "seal"
  BY <1>5, <1>6
<1>8. /\ task' = [task EXCEPT ![p] = t]
      /\ UNCHANGED <<named, peers, ratchets, crashed, seals, raced, initiators, inbox>>
  BY DEF HandleChat, Return, Continue, history
<1>9. /\ raced \subseteq DOMAIN ratchets /\ initiators \subseteq Callers
      /\ inbox \in [Nodes -> Seq(Packets)]
      /\ \A n \in Nodes : Len(inbox[n]) <= InboxSize
  BY DEF IInv, Types
<1> HIDE DEF t
<1> QED BY <1>7, <1>8, <1>9, PacketsMove

LEMMA LoadNumberKeeps ==
  ASSUME IInv, NEW p \in Procs, LoadNumber(p) PROVE IInv'
<1> DEFINE t == [at |-> "skip", ratchet |-> task[p].ratchet, num |-> task[p].num,
                 recvNum |-> ratchets[task[p].ratchet].recvNum]
<1>1. TaskOK(task[p], DOMAIN ratchets) /\ task[p].at = "decrypt"
  BY DEF IInv, Types, LoadNumber
<1>2. task[p].ratchet \in DOMAIN ratchets /\ task[p].num \in Nat
  BY <1>1 DEF TaskOK
<1>3. ratchets[task[p].ratchet].recvNum \in Nat
  BY <1>2, RatchetTypes DEF IInv, Ratchets
<1>4. TaskOK(t, DOMAIN ratchets) /\ t.at # "seal"
  BY <1>2, <1>3 DEF TaskOK
<1>5. /\ task' = [task EXCEPT ![p] = t]
      /\ UNCHANGED <<named, peers, ratchets, crashed, seals, initiators, inbox>>
      /\ raced' = raced \/ raced' = raced \cup {task[p].ratchet}
  BY DEF LoadNumber, Continue
<1>6. raced \subseteq raced' /\ raced' \subseteq DOMAIN ratchets
  BY <1>2, <1>5 DEF IInv, Types
<1>7. /\ initiators \subseteq Callers
      /\ inbox \in [Nodes -> Seq(Packets)]
      /\ \A n \in Nodes : Len(inbox[n]) <= InboxSize
  BY DEF IInv, Types
<1> HIDE DEF t
<1> QED BY <1>4, <1>5, <1>6, <1>7, PacketsMove

LEMMA InitiateSessionKeeps ==
  ASSUME IInv, NEW c \in Callers, NEW m \in Nodes, InitiateSession(c, m)
  PROVE  IInv'
<1> DEFINE n == Home[c]
           ek == EK(NextRatchet)
           packet == [type |-> "init", from |-> n, ik |-> IK(n), ek |-> ek]
           t == [at |-> "send", to |-> m, packet |-> packet]
           session == [identity |-> TRUE, ratchet |-> NextRatchet]
<1>1. n \in Nodes /\ c \in Procs /\ NextRatchet \in Nat
  BY CallersAssumption, RatchetTypes DEF Procs, NextRatchet, IInv
<1>2. /\ \A k \in Nodes : IK(k) \in KeyPair /\ SPK(k) \in KeyPair /\ OTK(k) \in KeyPair
      /\ ek \in KeyPair /\ ek \in Ephemeral /\ SPK(m)[1] # "ratchet"
  BY <1>1 DEF KeyPair, Ephemeral, IK, SPK, OTK, EK
<1>3. SendSecret(n, m, ek) \in Value \X Value \X Value \X Value
  BY <1>1, <1>2 DEF SendSecret, DH, Value
<1>4. SendAD(n, m, ek) \in KeyPair \X KeyPair \X KeyPair
  BY <1>1, <1>2 DEF SendAD
<1>5. ratchets' = Append(ratchets, NewRatchet(SendSecret(n, m, ek), SendAD(n, m, ek),
                                              RK(NextRatchet), SPK(m)))
  BY DEF InitiateSession
<1>6. /\ ratchets' \in Seq(Ratchets) /\ OwnStart'
      /\ DOMAIN ratchets' = DOMAIN ratchets \cup {NextRatchet}
      /\ \A r \in DOMAIN ratchets : ratchets'[r] = ratchets[r]
  BY <1>2, <1>3, <1>4, <1>5, RatchetAdded DEF IInv
<1>7. /\ peers' = [peers EXCEPT ![n][m] = session]
      /\ task' = [task EXCEPT ![c] = t]
      /\ initiators' = initiators \cup {c}
      /\ UNCHANGED <<named, crashed, inbox, seals, raced>>
  BY DEF InitiateSession, Continue
<1>8. packet \in Packets
  BY <1>1, <1>2 DEF Packets
<1>9. TaskOK(t, DOMAIN ratchets') /\ t.at # "seal"
  BY <1>8 DEF TaskOK
<1>10. session \in Sessions /\ session.ratchet \in DOMAIN ratchets'
  BY <1>1, <1>6 DEF Sessions
<1> HIDE DEF session, t
<1>11. /\ peers' \in [Nodes -> [Nodes -> Sessions]]
       /\ \A k, l \in Nodes : peers'[k][l] # None =>
            peers'[k][l].ratchet \in DOMAIN ratchets'
  BY <1>1, <1>6, <1>7, <1>10 DEF IInv, Types
<1>12. initiators' \subseteq Callers
  BY <1>7 DEF IInv, Types
<1> QED BY <1>1, <1>6, <1>7, <1>9, <1>11, <1>12, RatchetsKeepChains

LEMMA HandleInitKeeps ==
  ASSUME IInv, NEW p \in Procs, HandleInit(p) PROVE IInv'
<1> DEFINE m == task[p].node
           packet == task[p].packet
           t == [at |-> "store", node |-> m, peer |-> packet.from,
                 ratchet |-> NextRatchet, seen |-> peers[m][packet.from]]
<1>1. TaskOK(task[p], DOMAIN ratchets) /\ task[p].at = "handle" /\ packet.type = "init"
  BY DEF IInv, Types, HandleInit
<1>2. m \in Nodes /\ packet \in Packets
  BY <1>1 DEF TaskOK
<1>3. packet.from \in Nodes /\ packet.ik \in KeyPair /\ packet.ek \in Ephemeral
  BY <1>1, <1>2 DEF Packets
<1>4. /\ IK(m) \in KeyPair /\ SPK(m) \in KeyPair /\ OTK(m) \in KeyPair
      /\ packet.ek \in KeyPair /\ packet.ek[1] # "ratchet"
  BY <1>2, <1>3 DEF KeyPair, Ephemeral, IK, SPK, OTK
<1>5. ReceiveSecret(m, packet.ek) \in Value \X Value \X Value \X Value
  BY <1>4 DEF ReceiveSecret, DH, Value
<1>6. ReceiveAD(m, packet) \in KeyPair \X KeyPair \X KeyPair
  BY <1>3, <1>4 DEF ReceiveAD
<1>7. ratchets' = Append(ratchets,
                    NewRatchet(ReceiveSecret(m, packet.ek), ReceiveAD(m, packet),
                               RK(NextRatchet), packet.ek))
  BY DEF HandleInit, RatchetKey
<1>8. /\ ratchets' \in Seq(Ratchets) /\ OwnStart'
      /\ DOMAIN ratchets' = DOMAIN ratchets \cup {NextRatchet}
      /\ \A r \in DOMAIN ratchets : ratchets'[r] = ratchets[r]
  BY <1>4, <1>5, <1>6, <1>7, RatchetAdded DEF IInv
<1>9. /\ task' = [task EXCEPT ![p] = t]
      /\ UNCHANGED <<named, peers, crashed, inbox, seals, raced, initiators>>
  BY DEF HandleInit, Continue, history
<1>10. peers[m][packet.from] \in Sessions
  BY <1>2, <1>3 DEF IInv, Types
<1>11. TaskOK(t, DOMAIN ratchets') /\ t.at # "seal"
  BY <1>2, <1>3, <1>8, <1>10 DEF TaskOK
<1> HIDE DEF t
<1>12. /\ peers' \in [Nodes -> [Nodes -> Sessions]]
       /\ \A k, l \in Nodes : peers'[k][l] # None =>
            peers'[k][l].ratchet \in DOMAIN ratchets'
       /\ initiators' \subseteq Callers
  BY <1>8, <1>9 DEF IInv, Types
<1> QED BY <1>8, <1>9, <1>11, <1>12, RatchetsKeepChains

LEMMA StoreSessionKeeps ==
  ASSUME IInv, NEW p \in Procs, StoreSession(p) PROVE IInv'
<1> DEFINE t == task[p]
<1>1. TaskOK(t, DOMAIN ratchets) /\ t.at = "store"
  BY DEF IInv, Types, StoreSession
<1>2. /\ t.node \in Nodes /\ t.peer \in Nodes /\ t.seen \in Sessions
      /\ t.ratchet \in DOMAIN ratchets
  BY <1>1 DEF TaskOK
<1>3. /\ Received(t).ratchet = t.ratchet
      /\ t.ratchet \in Nat /\ Received(t).identity \in BOOLEAN
  BY <1>2, RatchetTypes DEF Received, Identity, IInv, Sessions
<1>4. Received(t) \in Sessions
  BY <1>3 DEF Received, Sessions
<1>5. /\ peers' = [peers EXCEPT ![t.node][t.peer] = Received(t)]
      /\ task' = [task EXCEPT ![p] = Idle]
      /\ UNCHANGED <<named, ratchets, crashed, inbox, seals, raced, initiators>>
  BY DEF StoreSession, Return, Continue
<1>6. TaskOK(Idle, DOMAIN ratchets') /\ Idle.at # "seal"
  BY DEF TaskOK, Idle
<1>7. /\ peers' \in [Nodes -> [Nodes -> Sessions]]
      /\ \A k, l \in Nodes : peers'[k][l] # None =>
           peers'[k][l].ratchet \in DOMAIN ratchets'
  BY <1>2, <1>3, <1>4, <1>5 DEF IInv, Types
<1>8. /\ ratchets' \in Seq(Ratchets) /\ OwnStart' /\ initiators' \subseteq Callers
      /\ ratchets' = ratchets
  BY <1>5 DEF IInv, Types, OwnStart
<1> QED BY <1>5, <1>6, <1>7, <1>8, RatchetsKeepChains

LEMMA SkipKeeps == ASSUME IInv, NEW p \in Procs, Skip(p) PROVE IInv'
<1> DEFINE t == task[p]
           skips == IF t.recvNum < t.num THEN t.num - t.recvNum ELSE 0
           old == ratchets[t.ratchet]
           new == [old EXCEPT !.skipped = @ + skips, !.recv.step = @ + skips + 1,
                              !.recvNum = NextNumber(t)]
<1>1. TaskOK(t, DOMAIN ratchets) /\ t.at = "skip"
  BY DEF IInv, Types, Skip
<1>2. t.ratchet \in DOMAIN ratchets /\ t.num \in Nat /\ t.recvNum \in Nat
  BY <1>1 DEF TaskOK
<1>3. skips \in Nat /\ NextNumber(t) \in Nat
  BY <1>2 DEF NextNumber
<1>4. old \in Ratchets
  BY <1>2, RatchetTypes DEF IInv
<1> HIDE DEF skips
<1>5. new \in Ratchets /\ new.send = old.send
  <2>1. old.recv \in Chain /\ old.skipped \in Nat
    BY <1>4 DEF Ratchets
  <2>2. [old.recv EXCEPT !.step = @ + skips + 1] \in Chain
    BY <1>3, <2>1 DEF Chain
  <2>3. old.skipped + skips \in Nat
    BY <1>3, <2>1
  <2>4. new = [old EXCEPT !.skipped = old.skipped + skips,
                          !.recv = [old.recv EXCEPT !.step = @ + skips + 1],
                          !.recvNum = NextNumber(t)]
    BY <1>4 DEF Ratchets
  <2> QED BY <1>3, <1>4, <2>2, <2>3, <2>4 DEF Ratchets
<1>6. ratchets' = [ratchets EXCEPT ![t.ratchet] = new]
  BY DEF Skip, skips
<1>7. /\ task' = [task EXCEPT ![p] = Idle]
      /\ UNCHANGED <<named, peers, crashed, inbox, seals, raced, initiators>>
  BY DEF Skip, Return, Continue, history
<1> HIDE DEF new
<1>8. /\ ratchets' \in Seq(Ratchets) /\ DOMAIN ratchets' = DOMAIN ratchets
      /\ \A r \in DOMAIN ratchets : ratchets'[r].send = ratchets[r].send
  BY <1>2, <1>5, <1>6 DEF IInv, Types
<1>9. OwnStart'
  BY <1>8 DEF IInv, OwnStart
<1>10. TaskOK(Idle, DOMAIN ratchets') /\ Idle.at # "seal"
  BY DEF TaskOK, Idle
<1>11. /\ peers' \in [Nodes -> [Nodes -> Sessions]]
       /\ \A k, l \in Nodes : peers'[k][l] # None =>
            peers'[k][l].ratchet \in DOMAIN ratchets'
       /\ initiators' \subseteq Callers
  BY <1>7, <1>8 DEF IInv, Types
<1> QED BY <1>7, <1>8, <1>9, <1>10, <1>11, RatchetsKeepChains

\* The key is that of the chain; two goroutines that hold one are raced.
LEMMA LoadChainKeeps == ASSUME IInv, NEW c \in Callers, LoadChain(c) PROVE IInv'
<1> DEFINE r == task[c].ratchet
           t == [at |-> "seal", ratchet |-> r, to |-> task[c].to,
                 key |-> ratchets[r].send]
<1>1. c \in Procs /\ TaskOK(task[c], DOMAIN ratchets) /\ task[c].at = "encrypt"
  BY DEF IInv, Types, Procs, LoadChain
<1>2. r \in DOMAIN ratchets /\ task[c].to \in Nodes
  BY <1>1 DEF TaskOK
<1>3. ratchets[r].send \in Chain
  BY <1>2, RatchetTypes DEF IInv, Ratchets
<1>4. TaskOK(t, DOMAIN ratchets)
  BY <1>2, <1>3 DEF TaskOK
<1>5. /\ task' = [task EXCEPT ![c] = t]
      /\ raced' = IF Using(r, "seal") # {} THEN raced \cup {r} ELSE raced
      /\ UNCHANGED <<named, peers, ratchets, crashed, inbox, seals, initiators>>
  BY DEF LoadChain, Continue
<1>6. raced \subseteq raced' /\ raced' \subseteq DOMAIN ratchets
  BY <1>2, <1>5 DEF IInv, Types
<1>7. t.at = "seal" /\ t.ratchet = r /\ t.key = ratchets[r].send
  OBVIOUS
<1> HIDE DEF t
<1>8. Types'
  <2>1. TaskOK(t, DOMAIN ratchets') /\ DOMAIN ratchets \subseteq DOMAIN ratchets'
    BY <1>4, <1>5
  <2>2. /\ task' = [q \in Procs |-> task'[q]]
        /\ \A q \in Procs : TaskOK(task[q], DOMAIN ratchets)'
    BY <1>1, <1>5, <2>1, TaskTypes DEF IInv
  <2> QED BY <1>5, <1>6, <2>2 DEF IInv, Types
<1>9. OwnStart' /\ KeysDiffer'
  BY <1>5, <1>6 DEF IInv, OwnStart, KeysDiffer
<1>10. /\ task'[c] = t
       /\ \A q \in Procs : q # c => task'[q] = task[q]
  BY <1>1, <1>5 DEF IInv, Types
<1>11. \A i \in DOMAIN seals :
         /\ seals[i].key.start = ratchets[seals[i].ratchet].send.start
         /\ seals[i].ratchet \notin raced' =>
              seals[i].key.step < ratchets[seals[i].ratchet].send.step
  BY <1>6 DEF IInv, KeysInOrder
<1>12. \A q \in Procs : task'[q].at = "seal" =>
         /\ task'[q].key.start = ratchets[task'[q].ratchet].send.start
         /\ task'[q].ratchet \notin raced' =>
              task'[q].key = ratchets[task'[q].ratchet].send
  BY <1>6, <1>7, <1>10 DEF IInv, KeysInOrder
<1>13. \A q \in Procs : q # c /\ task[q].at = "seal" /\ task[q].ratchet = r =>
         r \in raced'
  BY <1>5 DEF Using
<1>14. \A q, u \in Procs :
         q # u /\ task'[q].at = "seal" /\ task'[u].at = "seal"
           /\ task'[q].ratchet = task'[u].ratchet => task'[q].ratchet \in raced'
  BY <1>6, <1>7, <1>10, <1>13 DEF IInv, KeysInOrder
<1>15. KeysInOrder'
  BY <1>5, <1>11, <1>12, <1>14 DEF KeysInOrder
<1> QED BY <1>8, <1>9, <1>15 DEF IInv

\* The key of the chain is used and the chain advanced: unless another
\* goroutine did both meanwhile, the key is later than all used before.
LEMMA SealKeeps == ASSUME IInv, NEW c \in Callers, Seal(c) PROVE IInv'
<1> DEFINE r == task[c].ratchet
           key == task[c].key
           new == [ratchets[r] EXCEPT !.send = Advanced(key)]
           seal == [key |-> key, ratchet |-> r]
           t == [at |-> "send", to |-> task[c].to,
                 packet |-> [type |-> "chat", from |-> Home[c]]]
           next == Len(seals) + 1
<1>1. c \in Procs /\ TaskOK(task[c], DOMAIN ratchets) /\ task[c].at = "seal"
  BY DEF IInv, Types, Procs, Seal
<1>2. r \in DOMAIN ratchets /\ task[c].to \in Nodes /\ key \in Chain
  BY <1>1 DEF TaskOK
<1>3. /\ key.start = ratchets[r].send.start
      /\ r \notin raced => key = ratchets[r].send
  BY <1>1 DEF IInv, KeysInOrder
<1>4. \A q \in Procs : q # c /\ task[q].at = "seal" /\ task[q].ratchet = r =>
        r \in raced
  BY <1>1 DEF IInv, KeysInOrder
<1>5. /\ Advanced(key) \in Chain /\ Advanced(key).start = key.start
      /\ Advanced(key).step = key.step + 1 /\ key.step \in Nat
  BY <1>2 DEF Advanced, Chain
<1>6. /\ new \in Ratchets /\ new.send = Advanced(key)
  <2>1. ratchets[r] \in Ratchets
    BY <1>2, RatchetTypes DEF IInv
  <2> QED BY <1>5, <2>1 DEF Ratchets
<1>7. /\ task' = [task EXCEPT ![c] = t]
      /\ ratchets' = [ratchets EXCEPT ![r] = new]
      /\ seals' = Append(seals, seal)
      /\ UNCHANGED <<named, peers, inbox, crashed, raced, initiators>>
  BY DEF Seal, Continue
<1>8. TaskOK(t, DOMAIN ratchets) /\ t.at # "seal"
  <2>1. Home[c] \in Nodes
    BY CallersAssumption
  <2>2. t.packet \in Packets
    BY <2>1 DEF Packets
  <2> QED BY <1>2, <2>2 DEF TaskOK
<1>9. seal \in [key : Chain, ratchet : Nat]
  BY <1>2, RatchetTypes DEF IInv
<1> HIDE DEF new, t
<1>10. /\ ratchets' \in Seq(Ratchets) /\ DOMAIN ratchets' = DOMAIN ratchets
       /\ ratchets'[r].send = Advanced(key)
       /\ \A s \in DOMAIN ratchets : s # r => ratchets'[s] = ratchets[s]
       /\ \A s \in DOMAIN ratchets : ratchets'[s].send.start = ratchets[s].send.start
  <2>1. /\ ratchets' \in Seq(Ratchets) /\ DOMAIN ratchets' = DOMAIN ratchets
        /\ ratchets'[r] = new
        /\ \A s \in DOMAIN ratchets : s # r => ratchets'[s] = ratchets[s]
    BY <1>2, <1>6, <1>7 DEF IInv, Types
  <2>2. ratchets'[r].send.start = ratchets[r].send.start
    BY <1>3, <1>5, <1>6, <2>1
  <2> QED BY <1>6, <2>1, <2>2
<1>11. /\ seals' \in Seq([key : Chain, ratchet : Nat])
       /\ DOMAIN seals' = DOMAIN seals \cup {next}
       /\ \A i \in DOMAIN seals : seals'[i] = seals[i] /\ i # next
       /\ seals'[next].key = key /\ seals'[next].ratchet = r
  BY <1>7, <1>9 DEF IInv, Types
<1>12. Types'
  <2>1. TaskOK(t, DOMAIN ratchets') /\ DOMAIN ratchets \subseteq DOMAIN ratchets'
    BY <1>8, <1>10
  <2>2. /\ task' = [q \in Procs |-> task'[q]]
        /\ \A q \in Procs : TaskOK(task[q], DOMAIN ratchets)'
    BY <1>1, <1>7, <2>1, TaskTypes DEF IInv
  <2>3. \A i \in DOMAIN seals' : seals'[i].ratchet \in DOMAIN ratchets'
    BY <1>2, <1>10, <1>11 DEF IInv, Types
  <2> QED BY <1>7, <1>10, <1>11, <2>2, <2>3 DEF IInv, Types
<1>13. OwnStart'
  BY <1>10 DEF IInv, OwnStart
<1>14. \A i \in DOMAIN seals :
         /\ seals[i].ratchet \in DOMAIN ratchets
         /\ seals[i].key.start = ratchets[seals[i].ratchet].send.start
         /\ seals[i].key.step \in Nat
         /\ seals[i].ratchet \notin raced =>
              seals[i].key.step < ratchets[seals[i].ratchet].send.step
  <2>1. \A i \in DOMAIN seals : seals[i].key \in Chain
    BY SealTypes DEF IInv
  <2>2. \A i \in DOMAIN seals : seals[i].key.step \in Nat
    BY <2>1 DEF Chain
  <2>3. \A i \in DOMAIN seals : seals[i].ratchet \in DOMAIN ratchets
    BY DEF IInv, Types
  <2> QED BY <2>2, <2>3 DEF IInv, KeysInOrder
<1>15. KeysInOrder'
  <2>1. \A i \in DOMAIN seals' :
          /\ seals'[i].key.start = ratchets'[seals'[i].ratchet].send.start
          /\ seals'[i].ratchet \notin raced =>
               seals'[i].key.step < ratchets'[seals'[i].ratchet].send.step
    <3>1. ASSUME NEW i \in DOMAIN seals
          PROVE  /\ seals'[i].key.start = ratchets'[seals'[i].ratchet].send.start
                 /\ seals'[i].ratchet \notin raced =>
                      seals'[i].key.step < ratchets'[seals'[i].ratchet].send.step
      <4>1. CASE seals[i].ratchet = r
        <5>1. seals'[i] = seals[i] /\ seals[i].ratchet \in DOMAIN ratchets
          BY <1>11, <1>14
        <5>2. seals[i].key.start = ratchets'[r].send.start
          BY <1>10, <1>14, <4>1
        <5>3. r \notin raced => seals[i].key.step < key.step
          BY <1>3, <1>14, <4>1
        <5>4. ratchets'[r].send.step = key.step + 1
          BY <1>5, <1>10
        <5>5. seals[i].key.step \in Nat
          BY <1>14
        <5> HIDE DEF key, r
        <5>6. r \notin raced => seals[i].key.step < ratchets'[r].send.step
          BY <1>5, <5>3, <5>4, <5>5
        <5> QED BY <4>1, <5>1, <5>2, <5>6
      <4>2. CASE seals[i].ratchet # r
        BY <1>10, <1>11, <1>14, <4>2
      <4> QED BY <4>1, <4>2
    <3>2. /\ seals'[next].key.start = ratchets'[seals'[next].ratchet].send.start
          /\ seals'[next].key.step < ratchets'[seals'[next].ratchet].send.step
      BY <1>3, <1>5, <1>10, <1>11
    <3> QED BY <1>11, <3>1, <3>2
  <2>2. \A q \in Procs : task'[q].at = "seal" => q # c /\ task'[q] = task[q]
    BY <1>1, <1>7, <1>8 DEF IInv, Types
  <2>3. ASSUME NEW q \in Procs, task'[q].at = "seal"
        PROVE  /\ task'[q].key.start = ratchets'[task'[q].ratchet].send.start
               /\ task'[q].ratchet \notin raced =>
                    task'[q].key = ratchets'[task'[q].ratchet].send
    <3>1. task'[q] = task[q] /\ task[q].at = "seal" /\ q # c
      BY <2>2, <2>3
    <3>2. task[q].ratchet \in DOMAIN ratchets
      BY <3>1 DEF IInv, Types, TaskOK
    <3>3. /\ task[q].key.start = ratchets[task[q].ratchet].send.start
          /\ task[q].ratchet \notin raced =>
               task[q].key = ratchets[task[q].ratchet].send
      BY <3>1 DEF IInv, KeysInOrder
    <3> QED BY <1>4, <1>10, <3>1, <3>2, <3>3
  <2>4. \A q, u \in Procs :
          q # u /\ task'[q].at = "seal" /\ task'[u].at = "seal"
            /\ task'[q].ratchet = task'[u].ratchet => task'[q].ratchet \in raced
    BY <2>2 DEF IInv, KeysInOrder
  <2> QED BY <1>7, <2>1, <2>3, <2>4 DEF KeysInOrder
<1>16. KeysDiffer'
  <2>1. ASSUME NEW i \in DOMAIN seals, seals[i].key = key
        PROVE  seals[i].ratchet = r /\ r \in raced
    <3>1. seals[i].ratchet = r
      <4>1. ratchets[seals[i].ratchet].send.start = ratchets[r].send.start
        BY <1>3, <1>14, <2>1
      <4>2. seals[i].ratchet \in Nat /\ r \in Nat
        BY <1>2, <1>14, RatchetTypes DEF IInv
      <4> QED BY <1>2, <1>14, <4>1, <4>2 DEF IInv, OwnStart
    <3>2. r \notin raced => seals[i].key.step < key.step
      BY <1>3, <1>14, <3>1
    <3> QED BY <1>5, <2>1, <3>1, <3>2
  <2> QED BY <1>7, <1>11, <2>1 DEF IInv, KeysDiffer
<1> QED BY <1>12, <1>13, <1>15, <1>16 DEF IInv

LEMMA StepKeeps == IInv /\ [Next]_vars => IInv'
<1> SUFFICES ASSUME IInv, [Next]_vars PROVE IInv'
  OBVIOUS
<1>1. CASE \E c \in Callers : Call(c)
  BY <1>1, InitiateSessionKeeps, SendChatKeeps, LoadChainKeeps, SealKeeps,
     DeliverKeeps, DropKeeps
  DEF Call
<1>2. CASE \E n \in Nodes : Recv(n)
  BY <1>2, RecvKeeps
<1>3. ASSUME NEW p \in Procs, HandleIncoming(p) PROVE IInv'
  <2>1. CASE ConcurrentMapWrites(p)
    <3>1. crashed' = TRUE
          /\ UNCHANGED <<named, peers, ratchets, inbox, task, seals, raced, initiators>>
      BY <2>1 DEF ConcurrentMapWrites, history
    <3> QED BY <3>1 DEF IInv, Types, TaskOK, OwnStart, KeysInOrder, KeysDiffer
  <2> QED BY <1>3, <2>1, HandleInitKeeps, StoreSessionKeeps, HandleChatKeeps,
             LoadNumberKeeps, SkipKeeps
          DEF HandleIncoming
<1>4. CASE UNCHANGED vars
  <2>1. UNCHANGED <<named, peers, ratchets, inbox, task, crashed, seals, raced,
                    initiators>>
    BY <1>4 DEF vars, history
  <2> QED BY <2>1 DEF IInv, Types, TaskOK, OwnStart, KeysInOrder, KeysDiffer
<1> QED BY <1>1, <1>2, <1>3, <1>4 DEF Next

LEMMA Inductive == Spec => []IInv
<1>1. Init => IInv
  BY InitIInv
<1>2. IInv /\ [Next]_vars => IInv'
  BY StepKeeps
<1> QED BY <1>1, <1>2, PTL DEF Spec

\* Sessions always have a ratchet, inboxes are never overfull, and what was
\* sealed was sealed by a ratchet there is, whatever the goroutines do.
THEOREM TypeCorrect == Spec => []TypeOK
<1>1. IInv => TypeOK
  <2> SUFFICES ASSUME IInv PROVE TypeOK
    OBVIOUS
  <2>1. ASSUME NEW n \in Nodes, NEW m \in Nodes, peers[n][m] # None
        PROVE  /\ peers[n][m].identity \in BOOLEAN
               /\ peers[n][m].ratchet \in DOMAIN ratchets
    BY <2>1 DEF IInv, Types, Sessions
  <2> QED BY <2>1 DEF IInv, Types, TypeOK
<1> QED BY <1>1, Inductive, PTL

\* Encrypt takes a key no message was encrypted with, by any node, in spite of
\* handshakes that are repeated, handled twice or overtaken: except in a
\* ratchet two goroutines were in at a time.
THEOREM KeysNotReused == Spec => []KeyUsedOnce
<1>1. IInv => KeysDiffer
  BY DEF IInv
<1>2. TypeOK /\ KeysDiffer => KeyUsedOnce
  BY DEF KeysDiffer, KeyUsedOnce
<1> QED BY <1>1, <1>2, Inductive, TypeCorrect, PTL

\* HandleIncoming takes the identity of a peer over from the session it read: it
\* is lost only if that session was another one by the time it is replaced.
THEOREM IdentitySurvives == Spec => IdentityKept
<1>1. IInv /\ [Next]_vars =>
        [\A n, m \in Nodes :
           Identity(peers[n][m]) => Identity(peers[n][m])' \/ overtaken']_vars
  <2> SUFFICES ASSUME IInv, [Next]_vars, NEW n \in Nodes, NEW m \in Nodes,
                      Identity(peers[n][m]), ~ overtaken'
               PROVE  Identity(peers[n][m])'
    OBVIOUS
  <2>1. peers \in [Nodes -> [Nodes -> Sessions]] /\ peers[n][m] # None
    BY DEF IInv, Types, Identity
  <2>2. CASE UNCHANGED peers
    BY <2>2 DEF Identity
  <2>3. ASSUME NEW c \in Callers, NEW k \in Nodes, InitiateSession(c, k)
        PROVE  Identity(peers[n][m])'
    <3>1. PICK session : /\ session = [identity |-> TRUE, ratchet |-> NextRatchet]
                         /\ peers' = [peers EXCEPT ![Home[c]][k] = session]
      BY <2>3 DEF InitiateSession
    <3>2. session.identity = TRUE /\ session # None
      <4>1. session \in [identity : {TRUE}, ratchet : {NextRatchet}]
        BY <3>1
      <4>2. session.identity = TRUE
        BY <4>1
      <4>3. DOMAIN session = {"identity", "ratchet"} /\ DOMAIN None = {}
        BY <4>1 DEF None
      <4> QED BY <4>1, <4>2, <4>3
    <3>3. peers'[n][m] = peers[n][m] \/ peers'[n][m] = session
      BY <2>1, <3>1, CallersAssumption
    <3> QED BY <3>2, <3>3 DEF Identity
  <2>4. ASSUME NEW p \in Procs, StoreSession(p) PROVE Identity(peers[n][m])'
    <3>1. /\ peers' = [peers EXCEPT ![task[p].node][task[p].peer] = Received(task[p])]
          /\ peers[task[p].node][task[p].peer] = task[p].seen
          /\ TaskOK(task[p], DOMAIN ratchets) /\ task[p].at = "store"
      BY <2>4 DEF StoreSession, IInv, Types
    <3>2. task[p].node \in Nodes /\ task[p].peer \in Nodes /\ task[p].ratchet \in Nat
      BY <3>1, RatchetTypes DEF TaskOK, IInv
    <3>3. \/ peers'[n][m] = peers[n][m]
          \/ peers'[n][m] = Received(task[p]) /\ peers[n][m] = task[p].seen
      BY <2>1, <3>1, <3>2
    <3>4. ASSUME peers[n][m] = task[p].seen
          PROVE  Received(task[p]).identity = TRUE /\ Received(task[p]) # None
      <4>1. Identity(task[p].seen) = TRUE
        BY <3>4 DEF Identity, IInv, Types, Sessions
      <4>2. Received(task[p]) \in [identity : {TRUE}, ratchet : Nat]
        BY <3>2, <4>1 DEF Received
      <4>3. DOMAIN Received(task[p]) = {"identity", "ratchet"} /\ DOMAIN None = {}
        BY DEF None, Received
      <4> QED BY <4>2, <4>3
    <3> QED BY <3>3, <3>4 DEF Identity
  <2> QED BY <2>2, <2>3, <2>4
          DEF Next, Call, HandleIncoming, vars, SendChat, LoadChain, Seal, Deliver, Drop,
              Recv, HandleInit, HandleChat, LoadNumber, Skip, ConcurrentMapWrites
<1> QED BY <1>1, Inductive, PTL DEF Spec, IdentityKept

-----------------------------------------------------------------------------
(* The keys of skipped messages.  A ratchet is of one session only, so that *)
(* all that is read of its messages is one number.                          *)

\* What is read of a message of m is Misread[m].
PeerOf(r, m) ==
  /\ \A x, y \in Nodes : peers[x][y] # None /\ peers[x][y].ratchet = r => y = m
  /\ \A p \in Procs :
       /\ task[p].at = "store" /\ task[p].ratchet = r => task[p].peer = m
       /\ task[p].at \in {"decrypt", "skip"} /\ task[p].ratchet = r =>
            task[p].num = Misread[m]

\* The number moves once, from 0 to behind the one that is read.
MovesOnce(r, m) ==
  /\ \/ ratchets[r].recvNum = 0 /\ ratchets[r].skipped = 0
     \/ ratchets[r].recvNum = Misread[m] + 1 /\ ratchets[r].skipped <= Misread[m]
  /\ \A p \in Procs : task[p].at = "skip" /\ task[p].ratchet = r =>
       /\ task[p].recvNum = ratchets[r].recvNum
       /\ \A q \in Procs : task[q].at = "skip" /\ task[q].ratchet = r => p = q

SkipInv == \A r \in DOMAIN ratchets :
             \E m \in Nodes : PeerOf(r, m) /\ (r \notin raced => MovesOnce(r, m))

\* Of two goroutines, who moves and who does not.
LEMMA TaskOf ==
  ASSUME IInv, NEW p \in Procs, NEW t, task' = [task EXCEPT ![p] = t]
  PROVE  task'[p] = t /\ \A q \in Procs : q # p => task'[q] = task[q]
BY DEF IInv, Types

\* A goroutine goes on; no session and no number is changed.
LEMMA SkipGoesOn ==
  ASSUME IInv, SkipInv, NEW p \in Procs, NEW t, task' = [task EXCEPT ![p] = t],
         UNCHANGED peers, DOMAIN ratchets' = DOMAIN ratchets, raced \subseteq raced',
         \A r \in DOMAIN ratchets : /\ ratchets'[r].recvNum = ratchets[r].recvNum
                                    /\ ratchets'[r].skipped = ratchets[r].skipped,
         t.at # "store",
         t.at \in {"decrypt", "skip"} =>
           \A m \in Nodes : PeerOf(t.ratchet, m) => t.num = Misread[m],
         t.at = "skip" =>
           \/ t.ratchet \in raced'
           \/ /\ t.recvNum = ratchets[t.ratchet].recvNum
              /\ \A q \in Procs : q # p /\ task[q].at = "skip" =>
                   task[q].ratchet # t.ratchet
  PROVE  SkipInv'
<1>1. task'[p] = t /\ \A q \in Procs : q # p => task'[q] = task[q]
  BY TaskOf
<1> SUFFICES ASSUME NEW r \in DOMAIN ratchets
             PROVE  \E m \in Nodes : PeerOf(r, m)' /\ (r \notin raced' => MovesOnce(r, m)')
  BY DEF SkipInv
<1>2. PICK m \in Nodes : PeerOf(r, m) /\ (r \notin raced => MovesOnce(r, m))
  BY DEF SkipInv
<1>3. PeerOf(r, m)'
  BY <1>1, <1>2 DEF PeerOf
<1>4. ASSUME r \notin raced' PROVE MovesOnce(r, m)'
  <2>1. MovesOnce(r, m)
    BY <1>2, <1>4
  <2>2. ASSUME NEW q \in Procs, task'[q].at = "skip", task'[q].ratchet = r
        PROVE  /\ task'[q].recvNum = ratchets'[r].recvNum
               /\ \A u \in Procs : task'[u].at = "skip" /\ task'[u].ratchet = r => q = u
    <3>1. CASE q = p
      BY <1>1, <1>4, <2>2, <3>1
    <3>2. CASE q # p
      BY <1>1, <1>4, <2>1, <2>2, <3>2 DEF MovesOnce
    <3> QED BY <3>1, <3>2
  <2> QED BY <2>1, <2>2 DEF MovesOnce
<1> QED BY <1>3, <1>4

LEMMA InitSkip == Init => SkipInv
BY DEF Init, SkipInv

LEMMA PacketsSkip ==
  ASSUME IInv, SkipInv, NEW p \in Procs,
         (p \in Callers /\ (Deliver(p) \/ Drop(p) \/ LoadChain(p) \/ Seal(p)
                             \/ \E m \in Nodes : SendChat(p, m)))
           \/ (p \in Nodes /\ Recv(p)) \/ HandleChat(p) \/ LoadNumber(p)
  PROVE  SkipInv'
<1>1. ASSUME NEW t, task' = [task EXCEPT ![p] = t], UNCHANGED <<peers, ratchets>>,
             raced \subseteq raced', t.at \notin {"store", "decrypt", "skip"}
      PROVE  SkipInv'
  BY <1>1, SkipGoesOn
<1>2. CASE p \in Callers /\ Deliver(p)
  BY <1>1, <1>2 DEF Deliver, Continue, history
<1>3. CASE p \in Callers /\ Drop(p)
  BY <1>1, <1>3 DEF Drop, Return, Continue, Idle
<1>4. CASE p \in Callers /\ LoadChain(p)
  BY <1>1, <1>4 DEF LoadChain, Continue
<1>5. CASE p \in Callers /\ \E m \in Nodes : SendChat(p, m)
  BY <1>1, <1>5 DEF SendChat, Continue, history
<1>6. CASE p \in Nodes /\ Recv(p)
  BY <1>1, <1>6 DEF Recv, Continue, history
<1>7. CASE p \in Callers /\ Seal(p)
  <2>1. PICK t, new : /\ task' = [task EXCEPT ![p] = t] /\ t.at = "send"
                      /\ new = Advanced(task[p].key)
                      /\ ratchets' = [ratchets EXCEPT ![task[p].ratchet].send = new]
                      /\ UNCHANGED <<peers, raced>>
    BY <1>7 DEF Seal, Continue
  <2>2. /\ DOMAIN ratchets' = DOMAIN ratchets
        /\ \A r \in DOMAIN ratchets : /\ ratchets'[r].recvNum = ratchets[r].recvNum
                                      /\ ratchets'[r].skipped = ratchets[r].skipped
    BY <2>1, RatchetTypes DEF IInv, Ratchets
  <2> QED BY <2>1, <2>2, SkipGoesOn
<1>8. CASE HandleChat(p)
  <2>1. /\ TaskOK(task[p], DOMAIN ratchets) /\ task[p].at = "handle"
        /\ task[p].packet.type = "chat" /\ UNCHANGED <<peers, ratchets, raced>>
    BY <1>8 DEF HandleChat, IInv, Types, history
  <2>2. task[p].node \in Nodes /\ task[p].packet.from \in Nodes
    BY <2>1 DEF TaskOK, Packets
  <2> DEFINE session == peers[task[p].node][task[p].packet.from]
             t == [at |-> "decrypt", ratchet |-> session.ratchet,
                   num |-> Misread[task[p].packet.from]]
  <2>3. CASE session = None
    BY <1>1, <1>8, <2>1, <2>3 DEF HandleChat, Return, Continue, Idle
  <2>4. CASE session # None
    <3>1. task' = [task EXCEPT ![p] = t]
      BY <1>8, <2>4 DEF HandleChat, Continue
    <3>2. ASSUME NEW m \in Nodes, PeerOf(t.ratchet, m) PROVE t.num = Misread[m]
      BY <2>2, <2>4, <3>2 DEF PeerOf
    <3>3. t.at = "decrypt"
      OBVIOUS
    <3> HIDE DEF t
    <3> QED BY <2>1, <3>1, <3>2, <3>3, SkipGoesOn
  <2> QED BY <2>3, <2>4
<1>9. CASE LoadNumber(p)
  <2> DEFINE r == task[p].ratchet
             t == [at |-> "skip", ratchet |-> r, num |-> task[p].num,
                   recvNum |-> ratchets[r].recvNum]
  <2>1. /\ task[p].at = "decrypt" /\ task' = [task EXCEPT ![p] = t]
        /\ raced' = IF Using(r, "skip") # {} THEN raced \cup {r} ELSE raced
        /\ UNCHANGED <<peers, ratchets>>
    BY <1>9 DEF LoadNumber, Continue
  <2>2. \/ r \in raced'
        \/ \A q \in Procs : q # p /\ task[q].at = "skip" => task[q].ratchet # r
    BY <2>1 DEF Using
  <2>3. ASSUME NEW m \in Nodes, PeerOf(r, m) PROVE task[p].num = Misread[m]
    BY <2>1, <2>3 DEF PeerOf
  <2>4. t.at = "skip" /\ t.ratchet = r /\ t.num = task[p].num
        /\ t.recvNum = ratchets[r].recvNum
    OBVIOUS
  <2> HIDE DEF t, r
  <2> QED BY <2>1, <2>2, <2>3, <2>4, SkipGoesOn
<1> QED BY <1>2, <1>3, <1>4, <1>5, <1>6, <1>7, <1>8, <1>9

LEMMA RatchetMade ==
  ASSUME IInv, NEW secret, NEW ad, NEW ours, NEW theirs, NEW new, new = NextRatchet,
         ratchets' = Append(ratchets, NewRatchet(secret, ad, ours, theirs))
  PROVE  /\ DOMAIN ratchets' = DOMAIN ratchets \cup {new} /\ new \notin DOMAIN ratchets
         /\ \A r \in DOMAIN ratchets : ratchets'[r] = ratchets[r]
         /\ ratchets'[new] = NewRatchet(secret, ad, ours, theirs)
BY DEF IInv, Types, NextRatchet

\* A ratchet that is made is of nobody else.
LEMMA MadeSkip ==
  ASSUME IInv, SkipInv, NEW p \in Procs, NEW m \in Nodes, NEW t, NEW new,
         task'[p] = t, \A q \in Procs : q # p => task'[q] = task[q],
         DOMAIN ratchets' = DOMAIN ratchets \cup {new}, new \notin DOMAIN ratchets,
         \A r \in DOMAIN ratchets : ratchets'[r] = ratchets[r],
         ratchets'[new].recvNum = 0, ratchets'[new].skipped = 0,
         raced' = raced,
         t.at \in {"send", "store"},
         t.at = "store" => t.ratchet = new /\ t.peer = m,
         \A x, y \in Nodes : peers'[x][y] # peers[x][y] =>
           peers'[x][y].ratchet = new /\ y = m
  PROVE  SkipInv'
<1>1. task'[p] = t /\ \A q \in Procs : q # p => task'[q] = task[q]
  OBVIOUS
<1>3. \A q \in Procs :
        task[q].at \in {"store", "decrypt", "skip"} => task[q].ratchet \in DOMAIN ratchets
  BY DEF IInv, Types, TaskOK
<1>4. \A x, y \in Nodes : peers[x][y] # None => peers[x][y].ratchet \in DOMAIN ratchets
  BY DEF IInv, Types
<1>5. ASSUME NEW r \in DOMAIN ratchets
      PROVE  \E k \in Nodes : PeerOf(r, k)' /\ (r \notin raced' => MovesOnce(r, k)')
  <2>1. PICK k \in Nodes : PeerOf(r, k) /\ (r \notin raced => MovesOnce(r, k))
    BY DEF SkipInv
  <2>2. PeerOf(r, k)'
    BY <1>1, <2>1 DEF PeerOf
  <2>3. r \notin raced' => MovesOnce(r, k)'
    BY <1>1, <2>1 DEF MovesOnce
  <2> QED BY <2>2, <2>3
<1>6. PeerOf(new, m)' /\ MovesOnce(new, m)'
  <2>1. \A q \in Procs : /\ task'[q].at = "store" /\ task'[q].ratchet = new =>
                              task'[q].peer = m
                         /\ task'[q].at \in {"decrypt", "skip"} => task'[q].ratchet # new
    BY <1>1, <1>3
  <2>2. \A x, y \in Nodes : peers'[x][y] # None /\ peers'[x][y].ratchet = new => y = m
    BY <1>4
  <2> QED BY <2>1, <2>2 DEF PeerOf, MovesOnce
<1> QED BY <1>5, <1>6 DEF SkipInv

LEMMA InitiateSessionSkip ==
  ASSUME IInv, SkipInv, NEW c \in Callers, NEW m \in Nodes, InitiateSession(c, m)
  PROVE  SkipInv'
<1>1. PICK ad, secret, t, new, session, ours, theirs :
        /\ ratchets' = Append(ratchets, NewRatchet(secret, ad, ours, theirs))
        /\ task' = [task EXCEPT ![c] = t] /\ t.at = "send" /\ raced' = raced
        /\ new = NextRatchet
        /\ session = [identity |-> TRUE, ratchet |-> NextRatchet]
        /\ peers' = [peers EXCEPT ![Home[c]][m] = session]
  BY DEF InitiateSession, Continue
<1>2. session.ratchet = new
  BY <1>1
<1>3. \A x, y \in Nodes : \/ peers'[x][y] = peers[x][y]
                          \/ peers'[x][y] = session /\ y = m
  BY <1>1, CallersAssumption DEF IInv, Types
<1>4. \A x, y \in Nodes : peers'[x][y] # peers[x][y] =>
        peers'[x][y].ratchet = new /\ y = m
  BY <1>2, <1>3
<1>5. c \in Procs
  BY DEF Procs
<1>6. /\ DOMAIN ratchets' = DOMAIN ratchets \cup {new} /\ new \notin DOMAIN ratchets
      /\ \A r \in DOMAIN ratchets : ratchets'[r] = ratchets[r]
      /\ ratchets'[new].recvNum = 0 /\ ratchets'[new].skipped = 0
  BY <1>1, RatchetMade DEF NewRatchet
<1>7. t.at \in {"send", "store"} /\ t.at # "store"
  BY <1>1
<1>8. task'[c] = t /\ \A q \in Procs : q # c => task'[q] = task[q]
  BY <1>1, <1>5, TaskOf
<1>9. raced' = raced
  BY <1>1
<1> QED BY <1>4, <1>5, <1>6, <1>7, <1>8, <1>9, MadeSkip

LEMMA HandleInitSkip == ASSUME IInv, SkipInv, NEW p \in Procs, HandleInit(p) PROVE SkipInv'
<1> DEFINE m == task[p].packet.from
<1>1. PICK ad, secret, t, new, ours :
        /\ ratchets' = Append(ratchets, NewRatchet(secret, ad, ours, task[p].packet.ek))
        /\ task' = [task EXCEPT ![p] = t] /\ t.at = "store"
        /\ t.ratchet = new /\ t.peer = m
        /\ raced' = raced /\ new = NextRatchet /\ peers' = peers
  BY DEF HandleInit, Continue, history, RatchetKey
<1>2. m \in Nodes
  BY DEF HandleInit, IInv, Types, TaskOK, Packets
<1>3. /\ DOMAIN ratchets' = DOMAIN ratchets \cup {new} /\ new \notin DOMAIN ratchets
      /\ \A r \in DOMAIN ratchets : ratchets'[r] = ratchets[r]
      /\ ratchets'[new].recvNum = 0 /\ ratchets'[new].skipped = 0
  <2> DEFINE made == NewRatchet(secret, ad, ours, task[p].packet.ek)
  <2>1. /\ DOMAIN ratchets' = DOMAIN ratchets \cup {new} /\ new \notin DOMAIN ratchets
        /\ \A r \in DOMAIN ratchets : ratchets'[r] = ratchets[r]
        /\ ratchets'[new] = made
    <3>1. new = NextRatchet /\ ratchets' = Append(ratchets, made)
      BY <1>1
    <3> QED BY <3>1, RatchetMade
  <2>2. made.recvNum = 0 /\ made.skipped = 0
    BY DEF NewRatchet
  <2> HIDE DEF made
  <2> QED BY <2>1, <2>2
<1>4. \A x, y \in Nodes : peers'[x][y] = peers[x][y]
  BY <1>1
<1>5. task'[p] = t /\ \A q \in Procs : q # p => task'[q] = task[q]
  BY <1>1, TaskOf
<1> HIDE DEF m
<1> QED BY <1>1, <1>2, <1>3, <1>4, <1>5, MadeSkip

LEMMA StoreSessionSkip ==
  ASSUME IInv, SkipInv, NEW p \in Procs, StoreSession(p) PROVE SkipInv'
<1> DEFINE t == task[p]
<1>1. /\ TaskOK(t, DOMAIN ratchets) /\ t.at = "store"
      /\ peers' = [peers EXCEPT ![t.node][t.peer] = Received(t)]
      /\ task' = [task EXCEPT ![p] = Idle] /\ UNCHANGED <<ratchets, raced>>
  BY DEF IInv, Types, StoreSession, Return, Continue
<1>2. t.node \in Nodes /\ t.peer \in Nodes /\ Received(t).ratchet = t.ratchet
  BY <1>1 DEF TaskOK, Received
<1>3. \A x, y \in Nodes : \/ peers'[x][y] = peers[x][y]
                          \/ peers'[x][y].ratchet = t.ratchet /\ y = t.peer
  BY <1>1, <1>2 DEF IInv, Types
<1>4. Idle.at = "idle" /\ task'[p] = Idle /\ \A q \in Procs : q # p => task'[q] = task[q]
  BY <1>1, TaskOf DEF Idle
<1> SUFFICES ASSUME NEW r \in DOMAIN ratchets
             PROVE  \E m \in Nodes : PeerOf(r, m)' /\ (r \notin raced' => MovesOnce(r, m)')
  BY <1>1 DEF SkipInv
<1>5. PICK m \in Nodes : PeerOf(r, m) /\ (r \notin raced => MovesOnce(r, m))
  BY DEF SkipInv
<1>6. PeerOf(r, m)'
  BY <1>1, <1>3, <1>4, <1>5 DEF PeerOf
<1>7. r \notin raced' => MovesOnce(r, m)'
  BY <1>1, <1>4, <1>5 DEF MovesOnce
<1> QED BY <1>6, <1>7

\* The keys of the gap before the number are stored by the first message handled,
\* and there is none before any later one.
LEMMA SkipSkip == ASSUME IInv, SkipInv, NEW p \in Procs, Skip(p) PROVE SkipInv'
<1> DEFINE t == task[p]
           s == t.ratchet
           skips == IF t.recvNum < t.num THEN t.num - t.recvNum ELSE 0
           old == ratchets[s]
           new == [old EXCEPT !.skipped = @ + skips, !.recv.step = @ + skips + 1,
                              !.recvNum = NextNumber(t)]
<1>1. /\ TaskOK(t, DOMAIN ratchets) /\ t.at = "skip"
      /\ task' = [task EXCEPT ![p] = Idle] /\ UNCHANGED <<peers, raced>>
  BY DEF IInv, Types, Skip, Return, Continue, history
<1>10. ratchets' = [ratchets EXCEPT ![s] = new]
  BY DEF Skip
<1>2. s \in DOMAIN ratchets /\ t.num \in Nat /\ t.recvNum \in Nat
  BY <1>1 DEF TaskOK
<1>3. old \in Ratchets
  BY <1>2, RatchetTypes DEF IInv
<1>4. new.skipped = old.skipped + skips /\ new.recvNum = t.num + 1 /\ old.skipped \in Nat
      /\ old.recvNum \in Nat
  BY <1>3 DEF Ratchets, NextNumber
<1> HIDE DEF new
<1>5. /\ DOMAIN ratchets' = DOMAIN ratchets /\ ratchets'[s] = new
      /\ \A r \in DOMAIN ratchets : r # s => ratchets'[r] = ratchets[r]
  BY <1>2, <1>10 DEF IInv, Types
<1>6. Idle.at = "idle" /\ task'[p] = Idle /\ \A q \in Procs : q # p => task'[q] = task[q]
  BY <1>1, TaskOf DEF Idle
<1> SUFFICES ASSUME NEW r \in DOMAIN ratchets
             PROVE  \E m \in Nodes : PeerOf(r, m)' /\ (r \notin raced' => MovesOnce(r, m)')
  BY <1>5 DEF SkipInv
<1>7. PICK m \in Nodes : PeerOf(r, m) /\ (r \notin raced => MovesOnce(r, m))
  BY DEF SkipInv
<1>8. PeerOf(r, m)'
  BY <1>1, <1>6, <1>7 DEF PeerOf
<1>9. ASSUME r \notin raced PROVE MovesOnce(r, m)'
  <2>1. MovesOnce(r, m)
    BY <1>7, <1>9
  <2>2. CASE r # s
    <3>1. ratchets'[r] = ratchets[r]
      BY <1>5, <2>2
    <3> QED BY <1>6, <2>1, <3>1 DEF MovesOnce
  <2>3. CASE r = s
    <3>1. /\ t.num = Misread[m] /\ t.recvNum = old.recvNum
          /\ \A q \in Procs : task[q].at = "skip" /\ task[q].ratchet = r => q = p
      BY <1>1, <1>7, <2>1, <2>3 DEF PeerOf, MovesOnce
    <3>2. Misread[m] \in Nat
      BY BoundsAssumption
    <3>3. \/ old.recvNum = 0 /\ old.skipped = 0
          \/ old.recvNum = Misread[m] + 1 /\ old.skipped <= Misread[m]
      BY <2>1, <2>3 DEF MovesOnce
    <3>4. new.recvNum = Misread[m] + 1 /\ new.skipped <= Misread[m]
      BY <1>2, <1>4, <3>1, <3>2, <3>3
    <3>5. \A q \in Procs : ~ (task'[q].at = "skip" /\ task'[q].ratchet = r)
      BY <1>6, <3>1
    <3>6. ratchets'[r] = new
      BY <1>5, <2>3
    <3> QED BY <3>4, <3>5, <3>6 DEF MovesOnce
  <2> QED BY <2>2, <2>3
<1> QED BY <1>1, <1>8, <1>9

LEMMA SkipInvariant == Spec => [](IInv /\ SkipInv)
<1>1. IInv /\ SkipInv /\ [Next]_vars => (IInv /\ SkipInv)'
  <2> SUFFICES ASSUME IInv, SkipInv, [Next]_vars PROVE SkipInv'
    BY StepKeeps
  <2>1. Callers \subseteq Procs /\ Nodes \subseteq Procs
    BY DEF Procs
  <2>2. ASSUME NEW c \in Callers, Call(c) PROVE SkipInv'
    BY <2>1, <2>2, InitiateSessionSkip, PacketsSkip DEF Call
  <2>3. ASSUME NEW n \in Nodes, Recv(n) PROVE SkipInv'
    BY <2>1, <2>3, PacketsSkip
  <2>4. ASSUME UNCHANGED <<peers, ratchets, task, raced>> PROVE SkipInv'
    BY <2>4 DEF SkipInv, PeerOf, MovesOnce
  <2>5. ASSUME NEW p \in Procs, HandleIncoming(p) PROVE SkipInv'
    BY <2>4, <2>5, HandleInitSkip, StoreSessionSkip, PacketsSkip, SkipSkip
    DEF HandleIncoming, ConcurrentMapWrites, history
  <2>6. ASSUME UNCHANGED vars PROVE SkipInv'
    BY <2>4, <2>6 DEF vars, history
  <2> QED BY <2>2, <2>3, <2>5, <2>6 DEF Next
<1> QED BY <1>1, InitIInv, InitSkip, PTL DEF Spec

\* Decrypt reads the same wrong number in every message of a peer: it stores the
\* keys of one gap, however many messages come and however often each is handled,
\* unless two goroutines are in one ratchet at a time.
THEOREM KeysSkippedOnce == Spec => []SkipsOnce
<1>1. IInv /\ SkipInv => SkipsOnce
  <2> SUFFICES ASSUME IInv, SkipInv, NEW r \in DOMAIN ratchets, r \notin raced
               PROVE  \E n \in Nodes : ratchets[r].skipped <= Misread[n]
    BY DEF SkipsOnce
  <2>1. PICK m \in Nodes : MovesOnce(r, m)
    BY DEF SkipInv
  <2>2. Misread[m] \in Nat
    BY BoundsAssumption
  <2> QED BY <2>1, <2>2 DEF MovesOnce
<1> QED BY <1>1, SkipInvariant, PTL

-----------------------------------------------------------------------------
(* The handshakes of one caller.  It handles each init itself before it goes *)
(* on, and the other side's goroutine handles them as they were sent: the    *)
(* last one to be handled is the last one sent.                              *)

InitTask(p) == \/ task[p].at \in {"send", "handle"} /\ task[p].packet.type = "init"
               \/ task[p].at = "store"

\* The node whose session it is about.
Target(p) == IF task[p].at = "send" THEN task[p].to ELSE task[p].node

\* A ratchet, of either side, of the handshake of n with m that began with ek.
Belongs(r, n, m, ek) == /\ ratchets[r].ad = SendAD(n, m, ek)
                        /\ Tail(ratchets[r].secret) = Tail(SendSecret(n, m, ek))

Carries(p, n, m, ek) ==
  /\ InitTask(p) /\ Target(p) = m
  /\ task[p].at \in {"send", "handle"} => task[p].packet.ek = ek
  /\ task[p].at = "store" => Belongs(task[p].ratchet, n, m, ek)

NoInits(x) == \A i \in 1..Len(inbox[x]) : inbox[x][i].type = "chat"

LastInit(x, ek) ==
  \E i \in 1..Len(inbox[x]) :
    /\ inbox[x][i].type = "init" /\ inbox[x][i].ek = ek
    /\ \A j \in 1..Len(inbox[x]) : j > i => inbox[x][j].type = "chat"

\* The init with ek is still to be handled by the goroutine of m after all
\* others, or has been.
OnItsWay(c, m, ek) ==
  \/ task[c].at = "send" /\ Carries(c, Home[c], m, ek)
  \/ LastInit(m, ek)
  \/ NoInits(m) /\ Carries(m, Home[c], m, ek)
  \/ /\ NoInits(m) /\ ~ InitTask(m) /\ peers[m][Home[c]] # None
     /\ Belongs(peers[m][Home[c]].ratchet, Home[c], m, ek)

InitFrom(packet, n) == packet.from = n /\ packet.ik = IK(n)

\* All inits are the caller's, and for other nodes.
CallersPacket(c, x, packet) ==
  packet.type = "init" =>
    x # Home[c] /\ InitFrom(packet, Home[c]) /\ initiators # {}

CallersTask(c, p) ==
  InitTask(p) =>
    /\ initiators # {} /\ Target(p) # Home[c]
    /\ p = c \/ (p \in Nodes /\ task[p].at # "send" /\ Target(p) = p)
    /\ task[p].at \in {"send", "handle"} => InitFrom(task[p].packet, Home[c])
    /\ task[p].at = "store" => task[p].peer = Home[c]

Initiates(c) ==
  /\ initiators = {} => \A x, y \in Nodes : peers[x][y] = None
  /\ \A x \in Nodes : \A i \in 1..Len(inbox[x]) : CallersPacket(c, x, inbox[x][i])
  /\ \A p \in Procs : CallersTask(c, p)

Concludes(c, m) ==
  \E ek \in Ephemeral :
    /\ Belongs(peers[Home[c]][m].ratchet, Home[c], m, ek)
    /\ OnItsWay(c, m, ek)
    /\ InitTask(c) /\ Target(c) = m => Carries(c, Home[c], m, ek)

Handshake(c) ==
  /\ Initiates(c)
  /\ \A m \in Nodes : peers[Home[c]][m] # None => m # Home[c] /\ Concludes(c, m)

Handshakes ==
  \A c \in Callers : initiators \subseteq {c} /\ ~ missed => Handshake(c)

LEMMA CallersAreNoNodes ==
  ASSUME NEW c \in Callers
  PROVE  Home[c] \in Nodes /\ c \notin Nodes /\ c \in Procs
BY CallersAssumption DEF Procs

LEMMA BelongsStays ==
  ASSUME \A r \in DOMAIN ratchets : /\ ratchets'[r].ad = ratchets[r].ad
                                    /\ ratchets'[r].secret = ratchets[r].secret
  PROVE  \A r \in DOMAIN ratchets : \A n, m, ek :
           Belongs(r, n, m, ek) => Belongs(r, n, m, ek)'
BY DEF Belongs

LEMMA InitTaskStays ==
  ASSUME IInv, NEW q \in Procs, task'[q] = task[q],
         \A r \in DOMAIN ratchets : /\ ratchets'[r].ad = ratchets[r].ad
                                    /\ ratchets'[r].secret = ratchets[r].secret
  PROVE  /\ InitTask(q)' <=> InitTask(q)
         /\ Target(q)' = Target(q)
         /\ \A n, m, ek : Carries(q, n, m, ek) => Carries(q, n, m, ek)'
<1>1. InitTask(q)' <=> InitTask(q)
  BY DEF InitTask
<1>2. Target(q)' = Target(q)
  BY DEF Target
<1>3. TaskOK(task[q], DOMAIN ratchets)
  BY DEF IInv, Types
<1>4. ASSUME NEW n, NEW m, NEW ek, Carries(q, n, m, ek) PROVE Carries(q, n, m, ek)'
  <2>1. task'[q].at \in {"send", "handle"} => task'[q].packet.ek = ek
    BY <1>4 DEF Carries
  <2>2. task'[q].at = "store" => Belongs(task[q].ratchet, n, m, ek)'
    BY <1>3, <1>4, BelongsStays DEF Carries, TaskOK
  <2> QED BY <1>1, <1>2, <1>4, <2>1, <2>2 DEF Carries
<1> QED BY <1>1, <1>2, <1>4

\* A step of p that is not about the inits for m leaves them on their way.
LEMMA StaysOnItsWay ==
  ASSUME IInv, NEW c \in Callers, NEW m \in Nodes, NEW ek, NEW p \in Procs,
         \A q \in Procs : q # p => task'[q] = task[q],
         \A r \in DOMAIN ratchets : /\ ratchets'[r].ad = ratchets[r].ad
                                    /\ ratchets'[r].secret = ratchets[r].secret,
         peers'[m][Home[c]] = peers[m][Home[c]],
         NoInits(m) => NoInits(m)', LastInit(m, ek) => LastInit(m, ek)',
         p = c => ~ (InitTask(c) /\ task[c].at = "send" /\ Target(c) = m),
         p = m => ~ InitTask(m) /\ ~ InitTask(m)',
         OnItsWay(c, m, ek)
  PROVE  OnItsWay(c, m, ek)'
<1>1. Home[c] \in Nodes /\ c # m /\ c \in Procs /\ m \in Procs
  BY CallersAreNoNodes DEF Procs
<1>2. CASE task[c].at = "send" /\ Carries(c, Home[c], m, ek)
  <2>1. p # c
    BY <1>2 DEF Carries
  <2>2. Carries(c, Home[c], m, ek)' /\ task'[c].at = "send"
    BY <1>1, <1>2, <2>1, InitTaskStays
  <2> QED BY <2>2 DEF OnItsWay
<1>3. CASE LastInit(m, ek)
  BY <1>3 DEF OnItsWay
<1>4. CASE NoInits(m) /\ Carries(m, Home[c], m, ek)
  <2>1. p # m
    BY <1>4 DEF Carries
  <2>2. Carries(m, Home[c], m, ek)'
    BY <1>1, <1>4, <2>1, InitTaskStays
  <2> QED BY <1>4, <2>2 DEF OnItsWay
<1>5. CASE /\ NoInits(m) /\ ~ InitTask(m) /\ peers[m][Home[c]] # None
           /\ Belongs(peers[m][Home[c]].ratchet, Home[c], m, ek)
  <2>1. ~ InitTask(m)'
    BY <1>1, <1>5, InitTaskStays
  <2>2. peers[m][Home[c]].ratchet \in DOMAIN ratchets
    BY <1>1, <1>5 DEF IInv, Types
  <2>3. Belongs(peers[m][Home[c]].ratchet, Home[c], m, ek)'
    BY <1>5, <2>2, BelongsStays DEF Belongs
  <2> QED BY <1>5, <2>1, <2>3 DEF OnItsWay
<1> QED BY <1>2, <1>3, <1>4, <1>5 DEF OnItsWay

\* What the step of one goroutine has to show for the inits to be the caller's.
LEMMA StaysTheCallers ==
  ASSUME IInv, NEW c \in Callers, NEW p \in Procs, Initiates(c),
         \A q \in Procs : q # p => task'[q] = task[q],
         initiators # {} => initiators' # {},
         initiators' = {} => peers' = peers,
         \A x \in Nodes : \A i \in 1..Len(inbox'[x]) :
           \/ \E j \in 1..Len(inbox[x]) : inbox'[x][i] = inbox[x][j]
           \/ inbox'[x][i].type = "init" =>
                x # Home[c] /\ InitFrom(inbox'[x][i], Home[c]) /\ initiators' # {},
         CallersTask(c, p)'
  PROVE  Initiates(c)'
<1>1. ASSUME initiators' = {} PROVE \A x, y \in Nodes : peers'[x][y] = None
  BY <1>1 DEF Initiates
<1>2. ASSUME NEW x \in Nodes, NEW i \in 1..Len(inbox'[x])
      PROVE  CallersPacket(c, x, inbox[x][i])'
  BY <1>2 DEF Initiates, CallersPacket, InitFrom, IK
<1>3. ASSUME NEW q \in Procs, q # p PROVE CallersTask(c, q)'
  <2>1. task'[q] = task[q] /\ CallersTask(c, q)
    BY <1>3 DEF Initiates
  <2> QED BY <2>1 DEF CallersTask, InitTask, Target, InitFrom, IK
<1> QED BY <1>1, <1>2, <1>3 DEF Initiates

\* And for a handshake that another one has nothing to do with.
LEMMA StaysConcluded ==
  ASSUME IInv, NEW c \in Callers, NEW m \in Nodes, NEW p \in Procs,
         \A q \in Procs : q # p => task'[q] = task[q],
         \A r \in DOMAIN ratchets : /\ ratchets'[r].ad = ratchets[r].ad
                                    /\ ratchets'[r].secret = ratchets[r].secret,
         peers[Home[c]][m] # None,
         peers'[Home[c]][m] = peers[Home[c]][m],
         peers'[m][Home[c]] = peers[m][Home[c]],
         NoInits(m) => NoInits(m)',
         \A ek : LastInit(m, ek) => LastInit(m, ek)',
         p = c => ~ (InitTask(c) /\ task[c].at = "send" /\ Target(c) = m),
         p = c => ~ (InitTask(c)' /\ Target(c)' = m),
         p = m => ~ InitTask(m) /\ ~ InitTask(m)',
         Concludes(c, m)
  PROVE  Concludes(c, m)'
<1>1. PICK ek \in Ephemeral :
        /\ Belongs(peers[Home[c]][m].ratchet, Home[c], m, ek)
        /\ OnItsWay(c, m, ek)
        /\ InitTask(c) /\ Target(c) = m => Carries(c, Home[c], m, ek)
  BY DEF Concludes
<1>2. Home[c] \in Nodes /\ c \in Procs
  BY CallersAreNoNodes
<1>3. peers[Home[c]][m].ratchet \in DOMAIN ratchets
  BY <1>2 DEF IInv, Types
<1>4. Belongs(peers[Home[c]][m].ratchet, Home[c], m, ek)'
  BY <1>1, <1>3, BelongsStays DEF Belongs
<1>5. OnItsWay(c, m, ek)'
  BY <1>1, StaysOnItsWay
<1>6. (InitTask(c) /\ Target(c) = m => Carries(c, Home[c], m, ek))'
  BY <1>1, <1>2, InitTaskStays
<1> QED BY <1>4, <1>5, <1>6 DEF Concludes

\* A step without an init: of a chat, or of Encrypt or Decrypt.
LEMMA ChatStays ==
  ASSUME IInv, NEW c \in Callers, Handshake(c), NEW p \in Procs,
         \A q \in Procs : q # p => task'[q] = task[q],
         ~ InitTask(p), ~ InitTask(p)',
         peers' = peers, initiators' = initiators,
         \A r \in DOMAIN ratchets : /\ ratchets'[r].ad = ratchets[r].ad
                                    /\ ratchets'[r].secret = ratchets[r].secret,
         \A x \in Nodes : NoInits(x) => NoInits(x)',
         \A x \in Nodes : \A ek : LastInit(x, ek) => LastInit(x, ek)',
         \A x \in Nodes : \A i \in 1..Len(inbox'[x]) :
           \/ \E j \in 1..Len(inbox[x]) : inbox'[x][i] = inbox[x][j]
           \/ inbox'[x][i].type = "chat"
  PROVE  Handshake(c)'
<1>1. CallersTask(c, p)'
  BY DEF CallersTask
<1>2. Initiates(c)'
  BY <1>1, StaysTheCallers DEF Handshake
<1>3. ASSUME NEW m \in Nodes, peers'[Home[c]][m] # None
      PROVE  m # Home[c] /\ Concludes(c, m)'
  BY <1>3, StaysConcluded DEF Handshake
<1> QED BY <1>2, <1>3 DEF Handshake

\* What a packet that is taken does to an inbox,
LEMMA InboxGrows ==
  ASSUME Types, NEW m \in Nodes, NEW packet,
         inbox' = [inbox EXCEPT ![m] = Append(@, packet)]
  PROVE  /\ \A x \in Nodes : x # m => inbox'[x] = inbox[x]
         /\ Len(inbox'[m]) = Len(inbox[m]) + 1 /\ Len(inbox[m]) \in Nat
         /\ inbox'[m][Len(inbox[m]) + 1] = packet
         /\ \A i \in 1..Len(inbox[m]) : inbox'[m][i] = inbox[m][i]
<1>1. inbox[m] \in Seq(Packets) /\ inbox'[m] = Append(inbox[m], packet)
  BY DEF Types
<1>2. \A x \in Nodes : x # m => inbox'[x] = inbox[x]
  BY DEF Types
<1> HIDE DEF Packets
<1> QED BY <1>1, <1>2

LEMMA ChatArrives ==
  ASSUME Types, NEW m \in Nodes, NEW packet, packet.type = "chat",
         inbox' = [inbox EXCEPT ![m] = Append(@, packet)]
  PROVE  \A x \in Nodes :
           /\ NoInits(x) => NoInits(x)'
           /\ \A ek : LastInit(x, ek) => LastInit(x, ek)'
           /\ \A i \in 1..Len(inbox'[x]) :
                \/ \E j \in 1..Len(inbox[x]) : inbox'[x][i] = inbox[x][j]
                \/ inbox'[x][i].type = "chat"
<1>1. /\ \A x \in Nodes : x # m => inbox'[x] = inbox[x]
      /\ Len(inbox'[m]) = Len(inbox[m]) + 1 /\ Len(inbox[m]) \in Nat
      /\ inbox'[m][Len(inbox[m]) + 1].type = "chat"
      /\ \A i \in 1..Len(inbox[m]) : inbox'[m][i] = inbox[m][i]
  BY InboxGrows
<1> SUFFICES ASSUME NEW x \in Nodes
             PROVE  /\ NoInits(x) => NoInits(x)'
                    /\ \A ek : LastInit(x, ek) => LastInit(x, ek)'
                    /\ \A i \in 1..Len(inbox'[x]) :
                         \/ \E j \in 1..Len(inbox[x]) : inbox'[x][i] = inbox[x][j]
                         \/ inbox'[x][i].type = "chat"
  OBVIOUS
<1>2. CASE x # m
  BY <1>1, <1>2 DEF NoInits, LastInit
<1>3. CASE x = m
  <2>1. \A i \in 1..Len(inbox'[m]) : i \in 1..Len(inbox[m]) \/ i = Len(inbox[m]) + 1
    BY <1>1
  <2>2. NoInits(m) => NoInits(m)'
    BY <1>1, <2>1 DEF NoInits
  <2>3. ASSUME NEW ek, LastInit(m, ek) PROVE LastInit(m, ek)'
    <3>1. PICK i \in 1..Len(inbox[m]) :
            /\ inbox[m][i].type = "init" /\ inbox[m][i].ek = ek
            /\ \A j \in 1..Len(inbox[m]) : j > i => inbox[m][j].type = "chat"
      BY <2>3 DEF LastInit
    <3>2. i \in 1..Len(inbox'[m]) /\ inbox'[m][i] = inbox[m][i]
      BY <1>1
    <3>3. \A j \in 1..Len(inbox'[m]) : j > i => inbox'[m][j].type = "chat"
      BY <1>1, <2>1, <3>1
    <3> QED BY <3>1, <3>2, <3>3 DEF LastInit
  <2> QED BY <1>1, <1>3, <2>1, <2>2, <2>3
<1> QED BY <1>2, <1>3

\* The packet and nothing else is put in the inbox of m, and no other inbox changes.
Joins(m, packet) ==
  /\ \A x \in Nodes : x # m => inbox'[x] = inbox[x]
  /\ \A x \in Nodes : \A i \in 1..Len(inbox'[x]) :
       \/ \E j \in 1..Len(inbox[x]) : inbox'[x][i] = inbox[x][j]
       \/ x = m /\ inbox'[x][i] = packet

LEMMA InitArrives ==
  ASSUME Types, NEW m \in Nodes, NEW packet, packet.type = "init",
         inbox' = [inbox EXCEPT ![m] = Append(@, packet)]
  PROVE  /\ LastInit(m, packet.ek)'
         /\ Joins(m, packet)
<1>1. /\ \A x \in Nodes : x # m => inbox'[x] = inbox[x]
      /\ Len(inbox'[m]) = Len(inbox[m]) + 1 /\ Len(inbox[m]) \in Nat
      /\ inbox'[m][Len(inbox[m]) + 1] = packet
      /\ \A i \in 1..Len(inbox[m]) : inbox'[m][i] = inbox[m][i]
  BY InboxGrows
<1>2. LastInit(m, packet.ek)'
  <2> DEFINE last == Len(inbox[m]) + 1
  <2>1. /\ last \in 1..Len(inbox'[m]) /\ inbox'[m][last] = packet
        /\ \A j \in 1..Len(inbox'[m]) : ~ j > last
    BY <1>1
  <2> QED BY <2>1 DEF LastInit
<1>3. ASSUME NEW x \in Nodes, NEW i \in 1..Len(inbox'[x])
      PROVE  \/ \E j \in 1..Len(inbox[x]) : inbox'[x][i] = inbox[x][j]
             \/ x = m /\ inbox'[x][i] = packet
  <2>1. CASE x # m
    BY <1>1, <2>1
  <2>2. CASE x = m
    <3>1. i \in 1..Len(inbox[m]) \/ i = Len(inbox[m]) + 1
      BY <1>1, <2>2
    <3> QED BY <1>1, <2>2, <3>1
  <2> QED BY <2>1, <2>2
<1> QED BY <1>1, <1>2, <1>3 DEF Joins

LEMMA TailOf ==
  ASSUME NEW S, NEW s \in Seq(S), s # << >>
  PROVE  /\ Len(s) \in Nat \ {0} /\ Len(Tail(s)) = Len(s) - 1 /\ Head(s) = s[1]
         /\ \A i \in 1..Len(Tail(s)) : Tail(s)[i] = s[i + 1]
<1>1. Len(s) \in Nat \ {0}
  OBVIOUS
<1>2. Len(Tail(s)) = Len(s) - 1
  BY <1>1
<1> QED BY <1>1, <1>2

\* and one that is taken out of it.
LEMMA InboxShrinks ==
  ASSUME Types, NEW m \in Nodes, inbox[m] # << >>,
         inbox' = [inbox EXCEPT ![m] = Tail(@)]
  PROVE  /\ \A x \in Nodes : x # m => inbox'[x] = inbox[x]
         /\ Len(inbox[m]) \in Nat \ {0} /\ Len(inbox'[m]) = Len(inbox[m]) - 1
         /\ \A i \in 1..Len(inbox'[m]) : inbox'[m][i] = inbox[m][i + 1]
         /\ Head(inbox[m]) = inbox[m][1]
         /\ \A x \in Nodes : \A i \in 1..Len(inbox'[x]) :
              \E j \in 1..Len(inbox[x]) : inbox'[x][i] = inbox[x][j]
<1>1. inbox[m] \in Seq(Packets) /\ inbox'[m] = Tail(inbox[m])
  BY DEF Types
<1>2. \A x \in Nodes : x # m => inbox'[x] = inbox[x]
  BY DEF Types
<1> HIDE DEF Packets
<1>3. /\ Len(inbox[m]) \in Nat \ {0} /\ Len(inbox'[m]) = Len(inbox[m]) - 1
      /\ \A i \in 1..Len(inbox'[m]) : inbox'[m][i] = inbox[m][i + 1]
      /\ Head(inbox[m]) = inbox[m][1]
  BY <1>1, TailOf
<1>4. ASSUME NEW x \in Nodes, NEW i \in 1..Len(inbox'[x])
      PROVE  \E j \in 1..Len(inbox[x]) : inbox'[x][i] = inbox[x][j]
  <2>1. CASE x # m
    BY <1>2, <2>1
  <2>2. CASE x = m
    <3>1. i + 1 \in 1..Len(inbox[m]) /\ inbox'[m][i] = inbox[m][i + 1]
      BY <1>3, <2>2
    <3> QED BY <2>2, <3>1
  <2> QED BY <2>1, <2>2
<1> QED BY <1>2, <1>3, <1>4

\* An init that another one comes after stays behind it.
LEMMA LastInitShrinks ==
  ASSUME Types, NEW m \in Nodes, inbox[m] # << >>, NEW ek,
         inbox' = [inbox EXCEPT ![m] = Tail(@)], LastInit(m, ek)
  PROVE  \/ LastInit(m, ek)'
         \/ NoInits(m)' /\ Head(inbox[m]).type = "init" /\ Head(inbox[m]).ek = ek
<1>1. /\ Len(inbox[m]) \in Nat \ {0} /\ Len(inbox'[m]) = Len(inbox[m]) - 1
      /\ \A i \in 1..Len(inbox'[m]) : inbox'[m][i] = inbox[m][i + 1]
      /\ Head(inbox[m]) = inbox[m][1]
  BY InboxShrinks
<1>2. PICK i \in 1..Len(inbox[m]) :
        /\ inbox[m][i].type = "init" /\ inbox[m][i].ek = ek
        /\ \A j \in 1..Len(inbox[m]) : j > i => inbox[m][j].type = "chat"
  BY DEF LastInit
<1>3. \A j \in 1..Len(inbox'[m]) : j + 1 \in 1..Len(inbox[m])
  BY <1>1
<1>4. CASE i = 1
  <2>1. \A j \in 1..Len(inbox'[m]) : j + 1 > i
    BY <1>1, <1>4
  <2>2. NoInits(m)'
    BY <1>1, <1>2, <1>3, <2>1 DEF NoInits
  <2> QED BY <1>1, <1>2, <1>4, <2>2
<1>5. CASE i # 1
  <2>1. i - 1 \in 1..Len(inbox'[m]) /\ i = (i - 1) + 1
    BY <1>1, <1>5
  <2>2. inbox'[m][i - 1] = inbox[m][i]
    BY <1>1, <2>1
  <2>3. \A j \in 1..Len(inbox'[m]) : j > i - 1 => j + 1 > i
    BY <1>1
  <2>4. \A j \in 1..Len(inbox'[m]) : j > i - 1 => inbox'[m][j].type = "chat"
    BY <1>1, <1>2, <1>3, <2>3
  <2> QED BY <1>2, <2>1, <2>2, <2>4 DEF LastInit
<1> QED BY <1>4, <1>5

-----------------------------------------------------------------------------
(* One lemma per action, for a caller that alone initiates sessions. *)

LEMMA EncryptShakes ==
  ASSUME IInv, NEW c \in Callers, Handshake(c), NEW p \in Callers,
         Seal(p) \/ LoadChain(p) \/ \E m \in Nodes : SendChat(p, m)
  PROVE  Handshake(c)'
<1>1. p \in Procs
  BY CallersAreNoNodes
<1>2. PICK t : /\ task' = [task EXCEPT ![p] = t]
               /\ t.at \in {"send", "encrypt", "seal"}
               /\ t.at = "send" => t.packet.type = "chat"
               /\ UNCHANGED <<peers, initiators, inbox>>
               /\ task[p].at \in {"idle", "encrypt", "seal"}
  <2>1. CASE Seal(p)
    BY <2>1 DEF Seal, Continue
  <2>2. CASE LoadChain(p)
    BY <2>2 DEF LoadChain, Continue
  <2>3. ASSUME NEW m \in Nodes, SendChat(p, m)
        PROVE  \E t : /\ task' = [task EXCEPT ![p] = t] /\ t.at = "encrypt"
                      /\ UNCHANGED <<peers, initiators, inbox>> /\ task[p].at = "idle"
    <3> DEFINE t == [at |-> "encrypt", ratchet |-> peers[Home[p]][m].ratchet, to |-> m]
    <3>1. /\ task' = [task EXCEPT ![p] = t] /\ t.at = "encrypt"
          /\ UNCHANGED <<peers, initiators, inbox>> /\ task[p].at = "idle"
      BY <2>3 DEF SendChat, Continue, Idle, history
    <3> QED BY <3>1
  <2> QED BY <2>1, <2>2, <2>3
<1>3. ~ InitTask(p) /\ ~ InitTask(p)'
  BY <1>1, <1>2, TaskOf DEF InitTask
<1>4. \A r \in DOMAIN ratchets : /\ ratchets'[r].ad = ratchets[r].ad
                                 /\ ratchets'[r].secret = ratchets[r].secret
  <2>1. CASE Seal(p)
    <3>1. PICK new : ratchets' = [ratchets EXCEPT ![task[p].ratchet].send = new]
      BY <2>1 DEF Seal
    <3> QED BY <3>1, RatchetTypes DEF IInv, Ratchets
  <2>2. CASE ~ Seal(p)
    BY <2>2 DEF LoadChain, SendChat
  <2> QED BY <2>1, <2>2
<1>5. \A q \in Procs : q # p => task'[q] = task[q]
  BY <1>1, <1>2, TaskOf
<1>6. /\ \A x \in Nodes : NoInits(x) => NoInits(x)'
      /\ \A x \in Nodes : \A ek : LastInit(x, ek) => LastInit(x, ek)'
      /\ \A x \in Nodes : \A i \in 1..Len(inbox'[x]) :
           \E j \in 1..Len(inbox[x]) : inbox'[x][i] = inbox[x][j]
  BY <1>2 DEF NoInits, LastInit
<1> QED BY <1>1, <1>2, <1>3, <1>4, <1>5, <1>6, ChatStays

LEMMA DecryptShakes ==
  ASSUME IInv, NEW c \in Callers, Handshake(c), NEW p \in Procs,
         HandleChat(p) \/ LoadNumber(p) \/ Skip(p)
  PROVE  Handshake(c)'
<1>1. /\ task'[p].at \in {"idle", "decrypt", "skip"}
      /\ \A q \in Procs : q # p => task'[q] = task[q]
  <2>1. CASE HandleChat(p)
    BY <2>1, TaskOf DEF HandleChat, Return, Continue, Idle
  <2>2. CASE LoadNumber(p)
    <3> DEFINE t == [at |-> "skip", ratchet |-> task[p].ratchet, num |-> task[p].num,
                     recvNum |-> ratchets[task[p].ratchet].recvNum]
    <3>1. task' = [task EXCEPT ![p] = t] /\ t.at = "skip"
      BY <2>2 DEF LoadNumber, Continue
    <3> HIDE DEF t
    <3> QED BY <3>1, TaskOf
  <2>3. CASE Skip(p)
    <3>1. task' = [task EXCEPT ![p] = Idle] /\ Idle.at = "idle"
      BY <2>3 DEF Skip, Return, Continue, Idle
    <3> QED BY <3>1, TaskOf
  <2> QED BY <2>1, <2>2, <2>3
<1>10. /\ peers' = peers /\ initiators' = initiators /\ inbox' = inbox
       /\ \/ task[p].at \in {"decrypt", "skip"}
          \/ task[p].at = "handle" /\ task[p].packet.type = "chat"
  BY DEF HandleChat, LoadNumber, Skip, history
<1>2. ~ InitTask(p) /\ ~ InitTask(p)'
  BY <1>1, <1>10 DEF InitTask
<1>3. \A r \in DOMAIN ratchets : /\ ratchets'[r].ad = ratchets[r].ad
                                 /\ ratchets'[r].secret = ratchets[r].secret
  <2>1. CASE Skip(p)
    <3> DEFINE t0 == task[p]
               skips == IF t0.recvNum < t0.num THEN t0.num - t0.recvNum ELSE 0
    <3>1. ratchets' = [ratchets EXCEPT ![t0.ratchet].skipped = @ + skips,
                                       ![t0.ratchet].recv.step = @ + skips + 1,
                                       ![t0.ratchet].recvNum = NextNumber(t0)]
      BY <2>1 DEF Skip
    <3> HIDE DEF skips
    <3> QED BY <3>1, RatchetTypes DEF IInv, Ratchets
  <2>2. CASE ~ Skip(p)
    BY <2>2 DEF HandleChat, LoadNumber
  <2> QED BY <2>1, <2>2
<1>4. \A q \in Procs : q # p => task'[q] = task[q]
  BY <1>1
<1>5. /\ \A x \in Nodes : NoInits(x) => NoInits(x)'
      /\ \A x \in Nodes : \A ek : LastInit(x, ek) => LastInit(x, ek)'
      /\ \A x \in Nodes : \A i \in 1..Len(inbox'[x]) :
           \E j \in 1..Len(inbox[x]) : inbox'[x][i] = inbox[x][j]
  BY <1>10 DEF NoInits, LastInit
<1> QED BY <1>2, <1>3, <1>4, <1>5, <1>10, ChatStays

\* The caller stores its session first: it is on its way with the packet.
LEMMA InitiateSessionShakes ==
  ASSUME IInv, NEW c \in Callers, Handshake(c), NEW m \in Nodes, InitiateSession(c, m)
  PROVE  Handshake(c)'
<1> DEFINE n == Home[c]
<1>1. PICK new, ek, t, session, ours :
        /\ new = NextRatchet /\ ek = EK(new)
        /\ ratchets' = Append(ratchets, NewRatchet(SendSecret(n, m, ek),
                                                   SendAD(n, m, ek), ours, SPK(m)))
        /\ session = [identity |-> TRUE, ratchet |-> new]
        /\ peers' = [peers EXCEPT ![n][m] = session]
        /\ task' = [task EXCEPT ![c] = t]
        /\ t = [at |-> "send", to |-> m,
                packet |-> [type |-> "init", from |-> n, ik |-> IK(n), ek |-> ek]]
        /\ task[c] = Idle /\ n # m /\ inbox' = inbox
        /\ initiators' = initiators \cup {c}
  BY DEF InitiateSession, Continue
<1>2. n \in Nodes /\ c \in Procs /\ c # m /\ c \notin Nodes
  BY CallersAreNoNodes
<1>3. task'[c] = t /\ \A q \in Procs : q # c => task'[q] = task[q]
  <2>1. task' = [task EXCEPT ![c] = t]
    BY <1>1
  <2> QED BY <1>2, <2>1, TaskOf
<1>4. /\ DOMAIN ratchets' = DOMAIN ratchets \cup {new}
      /\ \A r \in DOMAIN ratchets : ratchets'[r] = ratchets[r]
      /\ ratchets'[new] = NewRatchet(SendSecret(n, m, ek), SendAD(n, m, ek), ours, SPK(m))
  BY <1>1, RatchetMade
<1>5. Belongs(new, n, m, ek)'
  BY <1>4 DEF Belongs, NewRatchet, SendSecret, SendAD, IK, DH, SPK, OTK
<1>6. ek \in Ephemeral
  BY <1>1, RatchetTypes DEF IInv, NextRatchet, EK, Ephemeral
<1>7. Carries(c, n, m, ek)' /\ t.at = "send"
  BY <1>1, <1>3 DEF Carries, InitTask, Target
<1>8. /\ peers'[n][m] # None /\ peers'[n][m].ratchet = new
      /\ \A x, y \in Nodes : x # n \/ y # m => peers'[x][y] = peers[x][y]
  <2>1. session # None /\ session.ratchet = new
    BY <1>1 DEF None
  <2>2. /\ peers'[n][m] = session
        /\ \A x, y \in Nodes : x # n \/ y # m => peers'[x][y] = peers[x][y]
    BY <1>1, <1>2 DEF IInv, Types
  <2> QED BY <2>1, <2>2
<1>9. Initiates(c)'
  <2>1. CallersTask(c, c)'
    BY <1>1, <1>3 DEF CallersTask, InitTask, Target, InitFrom
  <2>2. /\ initiators' # {}
        /\ \A x \in Nodes : \A i \in 1..Len(inbox'[x]) :
             \E j \in 1..Len(inbox[x]) : inbox'[x][i] = inbox[x][j]
    BY <1>1
  <2> QED BY <1>2, <1>3, <2>1, <2>2, StaysTheCallers DEF Handshake
<1>10. Concludes(c, m)'
  <2>1. OnItsWay(c, m, ek)'
    BY <1>3, <1>7 DEF OnItsWay
  <2> QED BY <1>5, <1>6, <1>7, <1>8, <2>1 DEF Concludes, Belongs
<1>11. ASSUME NEW k \in Nodes, k # m, peers'[n][k] # None
       PROVE  k # n /\ Concludes(c, k)'
  <2>1. k # n /\ Concludes(c, k) /\ peers[n][k] # None /\ peers'[n][k] = peers[n][k]
    BY <1>2, <1>8, <1>11 DEF Handshake
  <2>2. peers'[k][n] = peers[k][n]
    BY <1>2, <1>8, <2>1
  <2>3. (NoInits(k) => NoInits(k)') /\ \A e : LastInit(k, e) => LastInit(k, e)'
    BY <1>1 DEF NoInits, LastInit
  <2>4. ~ (InitTask(c)' /\ Target(c)' = k) /\ ~ InitTask(c) /\ c # k
    BY <1>1, <1>2, <1>3, <1>11 DEF InitTask, Target, Idle
  <2> QED BY <1>2, <1>3, <1>4, <2>1, <2>2, <2>3, <2>4, StaysConcluded
<1> QED BY <1>1, <1>9, <1>10, <1>11 DEF Handshake

\* The packet is in the inbox of its target, and the caller handles it next.
LEMMA DeliverShakes ==
  ASSUME IInv, NEW c \in Callers, Handshake(c), NEW p \in Callers, Deliver(p)
  PROVE  Handshake(c)'
<1>0. PICK m, packet : m = task[p].to /\ packet = task[p].packet
  OBVIOUS
<1> DEFINE n == Home[c]
           t == [at |-> "handle", node |-> m, packet |-> packet]
<1>1. /\ task[p].at = "send" /\ task' = [task EXCEPT ![p] = t]
      /\ inbox' = [inbox EXCEPT ![m] = Append(@, packet)]
      /\ peers' = peers /\ ratchets' = ratchets /\ initiators' = initiators
  BY <1>0 DEF Deliver, Continue, history
<1>2. p \in Procs /\ p \notin Nodes /\ c \in Procs /\ c \notin Nodes /\ n \in Nodes
  BY CallersAreNoNodes
<1>3. m \in Nodes /\ packet \in Packets /\ Types
  BY <1>0, <1>1, <1>2 DEF IInv, Types, TaskOK
<1>4. /\ task'[p] = t /\ t.at = "handle" /\ t.node = m /\ t.packet = packet
      /\ \A q \in Procs : q # p => task'[q] = task[q]
  BY <1>1, <1>2, TaskOf
<1> HIDE DEF t
<1>5. CASE packet.type = "chat"
  <2>1. ~ InitTask(p) /\ ~ InitTask(p)'
    BY <1>0, <1>1, <1>4, <1>5 DEF InitTask
  <2> QED BY <1>1, <1>2, <1>3, <1>4, <1>5, <2>1, ChatArrives, ChatStays
<1>6. CASE packet.type = "init"
  <2>1. InitTask(p) /\ Target(p) = m
    BY <1>0, <1>1, <1>6 DEF InitTask, Target
  <2>2. /\ p = c /\ m # n /\ InitFrom(packet, n) /\ initiators # {}
    BY <1>0, <1>1, <1>2, <2>1 DEF Handshake, Initiates, CallersTask
  <2>3. InitTask(c)' /\ Target(c)' = m
    BY <1>4, <1>6, <2>2 DEF InitTask, Target
  <2>4. /\ LastInit(m, packet.ek)'
        /\ \A x \in Nodes : x # m => inbox'[x] = inbox[x]
        /\ \A x \in Nodes : \A i \in 1..Len(inbox'[x]) :
             \/ \E j \in 1..Len(inbox[x]) : inbox'[x][i] = inbox[x][j]
             \/ x = m /\ inbox'[x][i] = packet
    <3>1. inbox' = [inbox EXCEPT ![m] = Append(@, packet)]
      BY <1>1
    <3> HIDE DEF n
    <3>2. Types /\ m \in Nodes
      BY <1>3
    <3>3. LastInit(m, packet.ek)' /\ Joins(m, packet)
      BY <1>6, <3>1, <3>2, InitArrives
    <3> QED BY <3>3 DEF Joins
  <2>5. CallersTask(c, c)'
    BY <1>1, <1>4, <2>2, <2>3 DEF CallersTask, InitFrom, IK
  <2>6. Initiates(c)'
    BY <1>1, <1>2, <1>4, <2>2, <2>4, <2>5, StaysTheCallers DEF Handshake
  <2>7. ASSUME peers'[n][m] # None PROVE Concludes(c, m)'
    <3>1. PICK ek \in Ephemeral :
            /\ Belongs(peers[n][m].ratchet, n, m, ek)
            /\ InitTask(c) /\ Target(c) = m => Carries(c, n, m, ek)
      BY <1>1, <1>3, <2>7 DEF Handshake, Concludes
    <3>2. packet.ek = ek
      BY <1>0, <1>1, <2>1, <2>2, <3>1 DEF Carries
    <3>3. Carries(c, n, m, ek)'
      BY <1>4, <2>2, <2>3, <3>2 DEF Carries
    <3>4. OnItsWay(c, m, ek)'
      BY <2>4, <3>2 DEF OnItsWay
    <3>5. Belongs(peers[n][m].ratchet, n, m, ek)'
      BY <1>1, <3>1 DEF Belongs
    <3> QED BY <3>1, <3>3, <3>4, <3>5 DEF Concludes
  <2>8. ASSUME NEW k \in Nodes, k # m, peers'[n][k] # None
        PROVE  k # n /\ Concludes(c, k)'
    <3>1. k # n /\ Concludes(c, k) /\ peers[n][k] # None
      BY <1>1, <2>8 DEF Handshake
    <3>2. (NoInits(k) => NoInits(k)') /\ \A e : LastInit(k, e) => LastInit(k, e)'
      BY <2>4, <2>8 DEF NoInits, LastInit
    <3>3. Target(c) # k /\ Target(c)' # k /\ c # k
      BY <1>2, <2>1, <2>2, <2>3, <2>8
    <3> QED BY <1>1, <1>2, <1>4, <2>2, <3>1, <3>2, <3>3, StaysConcluded
  <2> QED BY <2>2, <2>6, <2>7, <2>8 DEF Handshake
<1> QED BY <1>3, <1>5, <1>6 DEF Packets

LEMMA DropShakes ==
  ASSUME IInv, NEW c \in Callers, Handshake(c), NEW p \in Callers, Drop(p), ~ missed'
  PROVE  Handshake(c)'
<1>1. /\ task[p].at = "send" /\ task[p].packet.type # "init"
      /\ task' = [task EXCEPT ![p] = Idle] /\ Idle.at = "idle"
      /\ peers' = peers /\ ratchets' = ratchets /\ initiators' = initiators
      /\ inbox' = inbox
  BY DEF Drop, Return, Continue, Idle
<1>2. p \in Procs
  BY CallersAreNoNodes
<1>3. task'[p] = Idle /\ \A q \in Procs : q # p => task'[q] = task[q]
  BY <1>1, <1>2, TaskOf
<1>4. ~ InitTask(p) /\ ~ InitTask(p)'
  BY <1>1, <1>3 DEF InitTask
<1>5. /\ \A x \in Nodes : NoInits(x) => NoInits(x)'
      /\ \A x \in Nodes : \A ek : LastInit(x, ek) => LastInit(x, ek)'
      /\ \A x \in Nodes : \A i \in 1..Len(inbox'[x]) :
           \E j \in 1..Len(inbox[x]) : inbox'[x][i] = inbox[x][j]
  BY <1>1 DEF NoInits, LastInit
<1> QED BY <1>1, <1>2, <1>3, <1>4, <1>5, ChatStays

\* The goroutine of the target takes the inits in the order they were sent.
LEMMA RecvShakes ==
  ASSUME IInv, NEW c \in Callers, Handshake(c), NEW m \in Nodes, Recv(m)
  PROVE  Handshake(c)'
<1> DEFINE n == Home[c]
           packet == Head(inbox[m])
           t == [at |-> "handle", node |-> m, packet |-> packet]
<1>1. /\ task[m] = Idle /\ inbox[m] # << >> /\ task' = [task EXCEPT ![m] = t]
      /\ inbox' = [inbox EXCEPT ![m] = Tail(@)]
      /\ peers' = peers /\ ratchets' = ratchets /\ initiators' = initiators
  BY DEF Recv, Continue, history
<1>2. m \in Procs /\ c \in Procs /\ c # m /\ n \in Nodes /\ Types
  BY CallersAreNoNodes DEF Procs, IInv
<1>3. /\ task'[m] = t /\ t.at = "handle" /\ t.node = m /\ t.packet = packet
      /\ \A q \in Procs : q # m => task'[q] = task[q]
  BY <1>1, <1>2, TaskOf
<1>4. ~ InitTask(m)
  BY <1>1 DEF InitTask, Idle
<1>5. /\ \A x \in Nodes : x # m => inbox'[x] = inbox[x]
      /\ Len(inbox[m]) \in Nat \ {0} /\ Len(inbox'[m]) = Len(inbox[m]) - 1
      /\ \A i \in 1..Len(inbox'[m]) : inbox'[m][i] = inbox[m][i + 1]
      /\ packet = inbox[m][1]
      /\ \A x \in Nodes : \A i \in 1..Len(inbox'[x]) :
           \E j \in 1..Len(inbox[x]) : inbox'[x][i] = inbox[x][j]
  BY <1>1, <1>2, InboxShrinks
<1>6. ASSUME NEW ek, LastInit(m, ek)
      PROVE  LastInit(m, ek)' \/ (NoInits(m)' /\ packet.type = "init" /\ packet.ek = ek)
  BY <1>1, <1>2, <1>6, LastInitShrinks
<1>7. packet \in Packets
  BY <1>1, <1>2 DEF Types
<1> HIDE DEF t, packet
<1>8. NoInits(m) => NoInits(m)' /\ packet.type = "chat"
  <2> SUFFICES ASSUME NoInits(m) PROVE NoInits(m)' /\ packet.type = "chat"
    OBVIOUS
  <2>1. \A i \in 1..Len(inbox'[m]) : i + 1 \in 1..Len(inbox[m])
    BY <1>5
  <2>2. NoInits(m)'
    BY <1>5, <2>1 DEF NoInits
  <2> QED BY <1>5, <2>2 DEF NoInits
<1>9. \A x \in Nodes : x # m =>
        (NoInits(x) => NoInits(x)') /\ \A ek : LastInit(x, ek) => LastInit(x, ek)'
  BY <1>5 DEF NoInits, LastInit
<1>10. CASE packet.type = "chat"
  <2>1. ~ InitTask(m)'
    BY <1>3, <1>10 DEF InitTask
  <2>2. \A x \in Nodes : /\ NoInits(x) => NoInits(x)'
                         /\ \A ek : LastInit(x, ek) => LastInit(x, ek)'
    BY <1>6, <1>8, <1>9, <1>10
  <2> QED BY <1>1, <1>2, <1>3, <1>4, <1>5, <2>1, <2>2, ChatStays
<1>11. CASE packet.type = "init"
  <2>1. m # n /\ InitFrom(packet, n) /\ initiators # {}
    <3>1. 1 \in 1..Len(inbox[m])
      BY <1>5
    <3> QED BY <1>5, <1>11, <3>1 DEF Handshake, Initiates, CallersPacket
  <2>2. InitTask(m)' /\ Target(m)' = m
    BY <1>3, <1>11 DEF InitTask, Target
  <2>3. CallersTask(c, m)'
    BY <1>1, <1>3, <2>1, <2>2 DEF CallersTask, InitFrom, IK
  <2>4. Initiates(c)'
    BY <1>1, <1>2, <1>3, <1>5, <2>3, StaysTheCallers DEF Handshake
  <2>5. ASSUME peers'[n][m] # None PROVE Concludes(c, m)'
    <3>1. PICK ek \in Ephemeral :
            /\ Belongs(peers[n][m].ratchet, n, m, ek)
            /\ OnItsWay(c, m, ek)
            /\ InitTask(c) /\ Target(c) = m => Carries(c, n, m, ek)
      BY <1>1, <2>5 DEF Handshake, Concludes
    <3>2. /\ InitTask(c)' <=> InitTask(c)
          /\ Target(c)' = Target(c)
          /\ Carries(c, n, m, ek) => Carries(c, n, m, ek)'
      BY <1>1, <1>2, <1>3, InitTaskStays
    <3>3. OnItsWay(c, m, ek)'
      <4>1. CASE task[c].at = "send" /\ Carries(c, n, m, ek)
        BY <1>2, <1>3, <3>2, <4>1 DEF OnItsWay
      <4>2. CASE LastInit(m, ek)'
        BY <4>2 DEF OnItsWay
      <4>3. CASE NoInits(m)' /\ packet.ek = ek
        <5>1. Carries(m, n, m, ek)'
          BY <1>3, <2>2, <4>3 DEF Carries
        <5> QED BY <4>3, <5>1 DEF OnItsWay
      <4> QED BY <1>6, <1>8, <1>11, <3>1, <4>1, <4>2, <4>3 DEF OnItsWay
    <3>4. Belongs(peers[n][m].ratchet, n, m, ek)'
      BY <1>1, <3>1 DEF Belongs
    <3> QED BY <3>1, <3>2, <3>3, <3>4 DEF Concludes
  <2>6. ASSUME NEW k \in Nodes, k # m, peers'[n][k] # None
        PROVE  k # n /\ Concludes(c, k)'
    <3>1. k # n /\ Concludes(c, k) /\ peers[n][k] # None
      BY <1>1, <2>6 DEF Handshake
    <3> QED BY <1>1, <1>2, <1>3, <1>9, <2>6, <3>1, StaysConcluded
  <2> QED BY <2>1, <2>4, <2>5, <2>6 DEF Handshake
<1> QED BY <1>7, <1>10, <1>11 DEF Packets

\* What the receiver computes from an init belongs to its handshake.
LEMMA HandleInitShakes ==
  ASSUME IInv, NEW c \in Callers, Handshake(c), NEW p \in Procs, HandleInit(p)
  PROVE  Handshake(c)'
<1>0. PICK m, packet, new, ours :
        /\ m = task[p].node /\ packet = task[p].packet /\ new = NextRatchet
        /\ ours = RatchetKey(m)
  OBVIOUS
<1> DEFINE t == [at |-> "store", node |-> m, peer |-> packet.from, ratchet |-> new,
                  seen |-> peers[m][packet.from]]
<1>1. /\ m = task[p].node /\ packet = task[p].packet /\ new = NextRatchet
      /\ task[p].at = "handle" /\ packet.type = "init"
      /\ ratchets' = Append(ratchets, NewRatchet(ReceiveSecret(m, packet.ek),
                                                 ReceiveAD(m, packet), ours, packet.ek))
      /\ task' = [task EXCEPT ![p] = t]
      /\ t.at = "store" /\ t.node = m /\ t.peer = packet.from /\ t.ratchet = new
      /\ peers' = peers /\ inbox' = inbox /\ initiators' = initiators
  BY <1>0 DEF HandleInit, Continue, history
<1> HIDE DEF t
<1> DEFINE n == Home[c]
<1>2. c \in Procs /\ c \notin Nodes /\ n \in Nodes
  BY CallersAreNoNodes
<1>3. task'[p] = t /\ \A q \in Procs : q # p => task'[q] = task[q]
  BY <1>1, TaskOf
<1>4. /\ DOMAIN ratchets' = DOMAIN ratchets \cup {new}
      /\ \A r \in DOMAIN ratchets : ratchets'[r] = ratchets[r]
      /\ ratchets'[new] = NewRatchet(ReceiveSecret(m, packet.ek),
                                     ReceiveAD(m, packet), ours, packet.ek)
  BY <1>1, RatchetMade
<1>5. InitTask(p) /\ Target(p) = m /\ InitTask(p)' /\ Target(p)' = m
  BY <1>1, <1>3 DEF InitTask, Target
<1>6. /\ initiators # {} /\ m # n /\ InitFrom(packet, n)
      /\ p = c \/ (p \in Nodes /\ m = p)
  BY <1>1, <1>5 DEF Handshake, Initiates, CallersTask
<1>7. Belongs(new, n, m, packet.ek)'
  <2>1. ratchets'[new].ad = SendAD(n, m, packet.ek)
    BY <1>4, <1>6 DEF NewRatchet, ReceiveAD, SendAD, InitFrom
  <2>2. Tail(ratchets'[new].secret) = Tail(SendSecret(n, m, packet.ek))
    <3>1. /\ DH(IK(m), packet.ek) = DH(packet.ek, IK(m))
          /\ DH(SPK(m), packet.ek) = DH(packet.ek, SPK(m))
          /\ DH(OTK(m), packet.ek) = DH(packet.ek, OTK(m))
      BY DEF DH
    <3>2. ratchets'[new].secret = ReceiveSecret(m, packet.ek)
      BY <1>4 DEF NewRatchet
    <3> QED BY <3>1, <3>2 DEF ReceiveSecret, SendSecret
  <2> QED BY <2>1, <2>2 DEF Belongs
<1>8. CallersTask(c, p)'
  BY <1>1, <1>3, <1>5, <1>6 DEF CallersTask, InitFrom
<1>9. Initiates(c)'
  <2>1. \A x \in Nodes : \A i \in 1..Len(inbox'[x]) :
          \E j \in 1..Len(inbox[x]) : inbox'[x][i] = inbox[x][j]
    BY <1>1
  <2> QED BY <1>1, <1>2, <1>3, <1>8, <2>1, StaysTheCallers DEF Handshake
<1>10. \A ek : Carries(p, n, m, ek) => Carries(p, n, m, ek)'
  <2> SUFFICES ASSUME NEW ek, Carries(p, n, m, ek) PROVE Carries(p, n, m, ek)'
    OBVIOUS
  <2>1. packet.ek = ek
    BY <1>1 DEF Carries
  <2>2. Belongs(new, n, m, ek)'
    BY <1>7, <2>1
  <2>3. task'[p].at = "store" => Belongs(task[p].ratchet, n, m, ek)'
    BY <1>1, <1>3, <2>2 DEF Belongs
  <2>4. task'[p].at = "store"
    BY <1>1, <1>3
  <2> QED BY <1>5, <2>3, <2>4 DEF Carries
<1>11. \A x \in Nodes : /\ NoInits(x)' <=> NoInits(x)
                        /\ \A ek : LastInit(x, ek)' <=> LastInit(x, ek)
  BY <1>1 DEF NoInits, LastInit
<1>12. ASSUME m \in Nodes, peers'[n][m] # None PROVE Concludes(c, m)'
  <2>1. PICK ek \in Ephemeral :
          /\ Belongs(peers[n][m].ratchet, n, m, ek)
          /\ OnItsWay(c, m, ek)
          /\ InitTask(c) /\ Target(c) = m => Carries(c, n, m, ek)
    BY <1>1, <1>12 DEF Handshake, Concludes
  <2>2. ASSUME NEW q \in Procs, q # p
        PROVE  /\ InitTask(q)' <=> InitTask(q)
               /\ Target(q)' = Target(q)
               /\ Carries(q, n, m, ek) => Carries(q, n, m, ek)'
    BY <1>3, <1>4, <2>2, InitTaskStays
  <2>3. InitTask(c)' /\ Target(c)' = m => Carries(c, n, m, ek)'
    <3>1. CASE c = p
      BY <1>5, <1>10, <2>1, <3>1
    <3>2. CASE c # p
      BY <1>2, <2>1, <2>2, <3>2
    <3> QED BY <3>1, <3>2
  <2>4. peers[n][m].ratchet \in DOMAIN ratchets
    BY <1>1, <1>2, <1>12 DEF IInv, Types
  <2>5. Belongs(peers[n][m].ratchet, n, m, ek)'
    BY <1>1, <1>4, <2>1, <2>4 DEF Belongs
  <2>6. OnItsWay(c, m, ek)'
    <3>1. m \in Procs
      BY <1>12 DEF Procs
    <3>2. CASE task[c].at = "send" /\ Carries(c, n, m, ek)
      <4>1. c # p
        BY <1>1, <3>2
      <4> QED BY <1>2, <1>3, <2>2, <3>2, <4>1 DEF OnItsWay
    <3>3. CASE LastInit(m, ek)
      BY <1>11, <1>12, <3>3 DEF OnItsWay
    <3>4. CASE NoInits(m) /\ Carries(m, n, m, ek)
      <4>1. Carries(m, n, m, ek)'
        BY <1>10, <2>2, <3>1, <3>4
      <4> QED BY <1>11, <1>12, <3>4, <4>1 DEF OnItsWay
    <3>5. CASE /\ NoInits(m) /\ ~ InitTask(m) /\ peers[m][n] # None
               /\ Belongs(peers[m][n].ratchet, n, m, ek)
      <4>1. ~ InitTask(m)'
        BY <1>5, <2>2, <3>1, <3>5
      <4>2. peers[m][n].ratchet \in DOMAIN ratchets
        BY <1>2, <1>12, <3>5 DEF IInv, Types
      <4>3. Belongs(peers[m][n].ratchet, n, m, ek)'
        BY <1>1, <1>4, <3>5, <4>2 DEF Belongs
      <4> QED BY <1>1, <1>11, <1>12, <3>5, <4>1, <4>3 DEF OnItsWay
    <3> QED BY <2>1, <3>2, <3>3, <3>4, <3>5 DEF OnItsWay
  <2> QED BY <2>1, <2>3, <2>5, <2>6 DEF Concludes
<1>13. ASSUME NEW k \in Nodes, k # m, peers'[n][k] # None
       PROVE  k # n /\ Concludes(c, k)'
  <2>1. k # n /\ Concludes(c, k) /\ peers[n][k] # None
    BY <1>1, <1>13 DEF Handshake
  <2>2. p # k /\ Target(p) # k /\ Target(p)' # k
    BY <1>2, <1>5, <1>6, <1>13
  <2> QED BY <1>1, <1>3, <1>4, <1>11, <2>1, <2>2, StaysConcluded
<1> QED BY <1>6, <1>9, <1>12, <1>13 DEF Handshake

\* The session that is stored belongs to the handshake the goroutine is about.
LEMMA StoreSessionShakes ==
  ASSUME IInv, NEW c \in Callers, Handshake(c), NEW p \in Procs, StoreSession(p)
  PROVE  Handshake(c)'
<1>1. PICK t, m, session :
        /\ t = task[p] /\ m = t.node /\ t.at = "store" /\ session = Received(t)
        /\ peers' = [peers EXCEPT ![m][t.peer] = session]
        /\ task' = [task EXCEPT ![p] = Idle] /\ Idle.at = "idle"
        /\ inbox' = inbox /\ ratchets' = ratchets /\ initiators' = initiators
  BY DEF StoreSession, Return, Continue, Idle
<1> DEFINE n == Home[c]
<1>2. /\ c \in Procs /\ c \notin Nodes /\ n \in Nodes
      /\ TaskOK(task[p], DOMAIN ratchets)
  BY CallersAreNoNodes DEF IInv, Types
<1>3. m \in Nodes /\ t.ratchet \in DOMAIN ratchets
  BY <1>1, <1>2 DEF TaskOK
<1>4. task'[p] = Idle /\ \A q \in Procs : q # p => task'[q] = task[q]
  BY <1>1, TaskOf
<1>5. InitTask(p) /\ Target(p) = m /\ ~ InitTask(p)'
  BY <1>1, <1>4 DEF InitTask, Target
<1>6. /\ initiators # {} /\ m # n /\ t.peer = n
      /\ p = c \/ (p \in Nodes /\ m = p)
  BY <1>1, <1>5 DEF Handshake, Initiates, CallersTask
<1>7. session # None /\ session.ratchet = t.ratchet
  BY <1>1 DEF Received, None
<1>8. /\ peers'[m][n] = session
      /\ \A x, y \in Nodes : x # m => peers'[x][y] = peers[x][y]
  BY <1>1, <1>2, <1>3, <1>6 DEF IInv, Types
<1>9. Initiates(c)'
  <2>1. \A x \in Nodes : \A i \in 1..Len(inbox'[x]) :
          \E j \in 1..Len(inbox[x]) : inbox'[x][i] = inbox[x][j]
    BY <1>1
  <2>2. CallersTask(c, p)'
    BY <1>5 DEF CallersTask
  <2> QED BY <1>1, <1>4, <1>6, <2>1, <2>2, StaysTheCallers DEF Handshake
<1>10. \A x \in Nodes : /\ NoInits(x)' <=> NoInits(x)
                        /\ \A ek : LastInit(x, ek)' <=> LastInit(x, ek)
  BY <1>1 DEF NoInits, LastInit
<1>11. ASSUME peers'[n][m] # None PROVE Concludes(c, m)'
  <2>0. peers'[n][m] = peers[n][m]
    BY <1>2, <1>3, <1>6, <1>8
  <2>1. PICK ek \in Ephemeral :
          /\ Belongs(peers[n][m].ratchet, n, m, ek)
          /\ OnItsWay(c, m, ek)
          /\ InitTask(c) /\ Target(c) = m => Carries(c, n, m, ek)
    BY <1>3, <1>11, <2>0 DEF Handshake, Concludes
  <2>2. ASSUME NEW q \in Procs, q # p
        PROVE  /\ InitTask(q)' <=> InitTask(q)
               /\ Target(q)' = Target(q)
               /\ Carries(q, n, m, ek) => Carries(q, n, m, ek)'
    BY <1>1, <1>4, <2>2, InitTaskStays
  <2>3. InitTask(c)' /\ Target(c)' = m => Carries(c, n, m, ek)'
    <3>1. CASE c = p
      BY <1>5, <3>1
    <3>2. CASE c # p
      BY <1>2, <2>1, <2>2, <3>2
    <3> QED BY <3>1, <3>2
  <2>4. Belongs(peers[n][m].ratchet, n, m, ek)'
    BY <1>1, <2>0, <2>1 DEF Belongs
  <2>5. Carries(p, n, m, ek) => Belongs(peers[m][n].ratchet, n, m, ek)'
    BY <1>1, <1>7, <1>8 DEF Carries, Belongs
  <2>6. OnItsWay(c, m, ek)'
    <3>1. m \in Procs
      BY <1>3 DEF Procs
    <3>2. CASE task[c].at = "send" /\ Carries(c, n, m, ek)
      <4>1. c # p
        BY <1>1, <3>2
      <4> QED BY <1>2, <1>4, <2>2, <3>2, <4>1 DEF OnItsWay
    <3>3. CASE LastInit(m, ek)
      BY <1>3, <1>10, <3>3 DEF OnItsWay
    <3>4. CASE NoInits(m) /\ Carries(m, n, m, ek) /\ m # p
      <4>1. Carries(m, n, m, ek)'
        BY <2>2, <3>1, <3>4
      <4> QED BY <1>3, <1>10, <3>4, <4>1 DEF OnItsWay
    <3>5. CASE NoInits(m) /\ Carries(m, n, m, ek) /\ m = p
      <4>1. ~ InitTask(m)' /\ peers'[m][n] # None
        BY <1>5, <1>7, <1>8, <3>5
      <4>2. Belongs(peers[m][n].ratchet, n, m, ek)'
        BY <2>5, <3>5
      <4> QED BY <1>3, <1>10, <3>5, <4>1, <4>2 DEF OnItsWay
    <3>6. CASE /\ NoInits(m) /\ ~ InitTask(m) /\ peers[m][n] # None
               /\ Belongs(peers[m][n].ratchet, n, m, ek)
      <4>1. p # m /\ p = c
        BY <1>5, <1>6, <3>6
      <4>2. Carries(p, n, m, ek)
        BY <1>5, <2>1, <4>1
      <4>3. ~ InitTask(m)' /\ peers'[m][n] # None
        BY <1>7, <1>8, <2>2, <3>1, <3>6, <4>1
      <4> QED BY <1>3, <1>10, <2>5, <3>6, <4>2, <4>3 DEF OnItsWay
    <3> QED BY <2>1, <3>2, <3>3, <3>4, <3>5, <3>6 DEF OnItsWay
  <2> QED BY <2>1, <2>3, <2>4, <2>6 DEF Concludes
<1>12. ASSUME NEW k \in Nodes, k # m, peers'[n][k] # None
       PROVE  k # n /\ Concludes(c, k)'
  <2>1. peers'[n][k] = peers[n][k] /\ peers'[k][n] = peers[k][n]
    BY <1>2, <1>6, <1>8, <1>12
  <2>2. k # n /\ Concludes(c, k) /\ peers[n][k] # None
    BY <1>12, <2>1 DEF Handshake
  <2>3. p # k /\ Target(p) # k /\ ~ InitTask(p)'
    BY <1>2, <1>5, <1>6, <1>12
  <2> QED BY <1>1, <1>4, <1>10, <2>1, <2>2, <2>3, StaysConcluded
<1> QED BY <1>6, <1>9, <1>11, <1>12 DEF Handshake

-----------------------------------------------------------------------------
LEMMA InitHandshakes == Init => Handshakes
<1> SUFFICES ASSUME Init, NEW c \in Callers PROVE Handshake(c)
  BY DEF Handshakes
<1>1. /\ \A p \in Procs : ~ InitTask(p)
      /\ \A x, y \in Nodes : peers[x][y] = None
      /\ \A x \in Nodes : inbox[x] = << >>
  BY DEF Init, InitTask, Idle
<1> QED BY <1>1, CallersAreNoNodes DEF Handshake, Initiates, CallersTask

LEMMA HandshakesInvariant == Spec => [](IInv /\ Handshakes)
<1>1. IInv /\ Handshakes /\ [Next]_vars => (IInv /\ Handshakes)'
  <2> SUFFICES ASSUME IInv, Handshakes, [Next]_vars,
                      NEW c \in Callers, initiators' \subseteq {c}, ~ missed'
               PROVE  Handshake(c)'
    BY StepKeeps DEF Handshakes
  <2>1. ASSUME initiators \subseteq {c}, ~ missed PROVE Handshake(c)
    BY <2>1 DEF Handshakes
  <2>2. ASSUME UNCHANGED <<peers, ratchets, inbox, task, initiators, missed>>
        PROVE  Handshake(c)'
    <3>1. Handshake(c)
      BY <2>1, <2>2
    <3>2. Initiates(c) => Initiates(c)'
      BY <2>2 DEF Initiates, CallersPacket, CallersTask, InitTask, Target, InitFrom, IK
    <3>3. ASSUME NEW m \in Nodes, Concludes(c, m) PROVE Concludes(c, m)'
      BY <2>2, <3>3 DEF Concludes, OnItsWay, Carries, Belongs, NoInits, LastInit,
                        InitTask, Target, InitFrom, IK
    <3> QED BY <2>2, <3>1, <3>2, <3>3 DEF Handshake
  <2>3. ASSUME NEW p \in Callers, Call(p) PROVE Handshake(c)'
    <3>1. ASSUME NEW m \in Nodes, InitiateSession(p, m) PROVE Handshake(c)'
      <4>1. initiators' = initiators \cup {p} /\ missed' = missed
        BY <3>1 DEF InitiateSession
      <4> QED BY <2>1, <3>1, <4>1, InitiateSessionShakes
    <3>2. CASE Seal(p) \/ LoadChain(p) \/ \E m \in Nodes : SendChat(p, m)
      <4>1. initiators' = initiators /\ missed' = missed
        BY <3>2 DEF Seal, LoadChain, SendChat, history
      <4> QED BY <2>1, <3>2, <4>1, EncryptShakes
    <3>3. CASE Deliver(p)
      <4>1. initiators' = initiators /\ missed' = missed
        BY <3>3 DEF Deliver, history
      <4> QED BY <2>1, <3>3, <4>1, DeliverShakes
    <3>4. CASE Drop(p)
      <4>1. initiators' = initiators /\ ~ missed
        BY <3>4 DEF Drop
      <4> QED BY <2>1, <3>4, <4>1, DropShakes
    <3> QED BY <2>3, <3>1, <3>2, <3>3, <3>4 DEF Call
  <2>4. ASSUME NEW m \in Nodes, Recv(m) PROVE Handshake(c)'
    <3>1. initiators' = initiators /\ missed' = missed
      BY <2>4 DEF Recv, history
    <3> QED BY <2>1, <2>4, <3>1, RecvShakes
  <2>5. ASSUME NEW p \in Procs, HandleIncoming(p) PROVE Handshake(c)'
    <3>1. CASE HandleInit(p)
      <4>1. initiators' = initiators /\ missed' = missed
        BY <3>1 DEF HandleInit, history
      <4> QED BY <2>1, <3>1, <4>1, HandleInitShakes
    <3>2. CASE StoreSession(p)
      <4>1. initiators' = initiators /\ missed' = missed
        BY <3>2 DEF StoreSession
      <4> QED BY <2>1, <3>2, <4>1, StoreSessionShakes
    <3>3. CASE HandleChat(p) \/ LoadNumber(p) \/ Skip(p)
      <4>1. initiators' = initiators /\ missed' = missed
        BY <3>3 DEF HandleChat, LoadNumber, Skip, history
      <4> QED BY <2>1, <3>3, <4>1, DecryptShakes
    <3>4. CASE ConcurrentMapWrites(p)
      BY <2>2, <3>4 DEF ConcurrentMapWrites, history
    <3> QED BY <2>5, <3>1, <3>2, <3>3, <3>4 DEF HandleIncoming
  <2>6. CASE UNCHANGED vars
    BY <2>2, <2>6 DEF vars, history
  <2> QED BY <2>3, <2>4, <2>5, <2>6 DEF Next
<1> QED BY <1>1, InitIInv, InitHandshakes, PTL DEF Spec

\* However often one goroutine initiates sessions, and though every init is
\* applied twice, the second time possibly after the next one: when all is
\* handled, both ends are left with what belongs to one handshake.
THEOREM HandshakesConclude == Spec => []EndsAgree
<1>1. IInv /\ Handshakes => EndsAgree
  <2> SUFFICES ASSUME IInv, Handshakes, NEW n \in Nodes, NEW m \in Nodes, Settled(n, m)
               PROVE  /\ peers[m][n] # None
                      /\ Ratchet(m, n).ad = Ratchet(n, m).ad
                      /\ Tail(Ratchet(m, n).secret) = Tail(Ratchet(n, m).secret)
    BY DEF EndsAgree
  <2>1. PICK c \in Callers : initiators = {c} /\ Home[c] = n
    BY DEF Settled
  <2>2. ~ missed /\ peers[n][m] # None
    BY DEF Settled
  <2>3. Concludes(c, m)
    BY <2>1, <2>2 DEF Handshakes, Handshake
  <2>4. PICK ek \in Ephemeral : Belongs(peers[n][m].ratchet, n, m, ek) /\ OnItsWay(c, m, ek)
    BY <2>1, <2>3 DEF Concludes
  <2>5. task[c].at # "send" /\ ~ InitTask(m) /\ inbox[m] = << >>
    BY CallersAreNoNodes DEF Settled, Quiet, InitTask, Idle, Procs
  <2>6. ~ LastInit(m, ek)
    BY <2>5 DEF LastInit
  <2>7. ~ Carries(m, n, m, ek)
    BY <2>5 DEF Carries
  <2>8. peers[m][n] # None /\ Belongs(peers[m][n].ratchet, n, m, ek)
    BY <2>1, <2>4, <2>5, <2>6, <2>7 DEF OnItsWay
  <2> QED BY <2>4, <2>8 DEF Belongs, Ratchet
<1> QED BY <1>1, HandshakesInvariant, PTL

=============================================================================
