------------------------------ MODULE Session ------------------------------
(***************************************************************************)
(* Encrypted sessions between nodes: cmd/rmn-node over the X3DH handshake  *)
(* and the ratchet of pkg/crypto.                                          *)
(*                                                                         *)
(* Keys are terms: a key pair is its name, DH of two pairs is the set of   *)
(* the two, a hash is the tuple of what is hashed.  A chain key is where   *)
(* its chain starts and how often it was advanced, and the message key     *)
(* derived from it is identified with it.                                  *)
(*                                                                         *)
(* Every packet a transport takes is handled twice: in the goroutine that  *)
(* sends it, by the handler main sets, and by the receiver's own goroutine *)
(* that empties the inbox.  Node.mu protects the map of sessions only, not *)
(* what is read in one critical section and used in a later one, and not   *)
(* the ratchets.                                                           *)
(***************************************************************************)
EXTENDS Integers, Sequences, FiniteSets

CONSTANTS Nodes,
          Callers,      \* goroutines that initiate sessions and send chats
          Home,         \* Home[c]: the node a caller uses
          Misread,      \* the number Decrypt reads in a chat of each node
          InboxSize,    \* 256 in the code
          MaxInits,     \* bound: calls of InitiateSession
          MaxCalls      \* bound: calls of InitiateSession and SendChat

ASSUME CallersAssumption ==
  Home \in [Callers -> Nodes] /\ Callers \cap Nodes = {}
ASSUME BoundsAssumption == /\ Misread \in [Nodes -> Nat]
                           /\ InboxSize \in Nat \ {0}
                           /\ MaxInits \in Nat /\ MaxCalls \in Nat

VARIABLES named,        \* the transports are named by the PeerIDs; main names
                        \* them otherwise
          peers,        \* peers[n][m]: n's session with m
          ratchets,     \* every RatchetState ever made: sessions point to them
          inbox,        \* of each transport
          task,         \* what each goroutine is doing
          crashed,      \* the runtime has found a Go map written and used
          inits, chats, \* calls of InitiateSession and of SendChat
          seals,        \* history: the key of every message encrypted
          raced,        \* history: ratchets two goroutines were in at a time
          initiators,   \* history: the callers that initiated
          missed,       \* history: an init was not delivered
          overtaken     \* history: a session changed between its two sections

calls == <<inits, chats>>
history == <<seals, raced, initiators, missed, overtaken>>
vars == <<named, peers, ratchets, inbox, task, crashed, calls, history>>

None == << >>
Idle == [at |-> "idle"]

\* The goroutines: callers, and for each node the one that empties its inbox.
Procs == Callers \cup Nodes

Init == /\ named \in BOOLEAN
        /\ peers = [n \in Nodes |-> [m \in Nodes |-> None]]
        /\ ratchets = << >>
        /\ inbox = [n \in Nodes |-> << >>]
        /\ task = [p \in Procs |-> Idle]
        /\ crashed = FALSE
        /\ inits = 0 /\ chats = 0
        /\ seals = << >> /\ raced = {} /\ initiators = {}
        /\ missed = FALSE /\ overtaken = FALSE

Continue(p, t) == task' = [task EXCEPT ![p] = t]
Return(p) == Continue(p, Idle)

-----------------------------------------------------------------------------
(* Keys. *)

IK(n) == <<"identity", n>>
SPK(n) == <<"signed", n>>
OTK(n) == <<"one-time", n>>     \* number 0: no other is ever used
\* The pairs generated for session number i: by X3DHSend, and for the ratchet.
EK(i) == <<"ephemeral", i>>
RK(i) == <<"ratchet", i>>

DH(k, l) == {k, l}

SendSecret(n, m, ek) ==
  <<DH(IK(n), SPK(m)), DH(ek, IK(m)), DH(ek, SPK(m)), DH(ek, OTK(m))>>

\* The first of the four is not computed by the receiver: 32 zero bytes.
ReceiveSecret(m, ek) ==
  <<{}, DH(IK(m), ek), DH(SPK(m), ek), DH(OTK(m), ek)>>

\* The associated data: what both ends authenticate.
SendAD(n, m, ek) == <<IK(n), IK(m), ek>>

ReceiveAD(m, packet) == <<packet.ik, IK(m), packet.ek>>

\* One chain serves both directions at first.
NewRatchet(secret, ad, ours, theirs) ==
  LET chain == [start |-> <<secret, DH(ours, theirs)>>, step |-> 0]
  IN  [secret |-> secret, ad |-> ad, send |-> chain, recv |-> chain,
       recvNum |-> 0, skipped |-> 0]

\* Mutant of Advanced: the chain stays where it is.
NotAdvanced(chain) == chain

Advanced(chain) == [chain EXCEPT !.step = @ + 1]

-----------------------------------------------------------------------------
(* InitiateSession and Transport.Send. *)

NextRatchet == Len(ratchets) + 1

\* The session is stored before anything is sent, and whatever becomes of it.
InitiateSession(c, m) ==
  LET n == Home[c]
      ek == EK(NextRatchet)
  IN  /\ task[c] = Idle /\ inits < MaxInits /\ inits + chats < MaxCalls
      /\ n # m
      /\ inits' = inits + 1
      /\ ratchets' = Append(ratchets,
                       NewRatchet(SendSecret(n, m, ek), SendAD(n, m, ek),
                                  RK(NextRatchet), SPK(m)))
      /\ peers' = [peers EXCEPT ![n][m] = [identity |-> TRUE,
                                           ratchet |-> NextRatchet]]
      /\ Continue(c, [at |-> "send", to |-> m,
                      packet |-> [type |-> "init", from |-> n,
                                  ik |-> IK(n), ek |-> ek]])
      /\ initiators' = initiators \cup {c}
      /\ UNCHANGED <<named, inbox, crashed, chats, seals, raced, missed, overtaken>>

\* Peers are addressed by PeerID and found by the name of their transport.
CanDeliver(m) == named /\ Len(inbox[m]) < InboxSize

Deliver(c) ==
  LET t == task[c]
  IN  /\ t.at = "send" /\ CanDeliver(t.to)
      /\ inbox' = [inbox EXCEPT ![t.to] = Append(@, t.packet)]
      /\ Continue(c, [at |-> "handle", node |-> t.to, packet |-> t.packet])
      /\ UNCHANGED <<named, peers, ratchets, crashed, calls, history>>

\* An unknown name and a full inbox lose the packet, and Send does not tell.
Drop(c) == /\ task[c].at = "send" /\ ~ CanDeliver(task[c].to)
           /\ missed' = (missed \/ task[c].packet.type = "init")
           /\ Return(c)
           /\ UNCHANGED <<named, peers, ratchets, inbox, crashed, calls,
                          seals, raced, initiators, overtaken>>

\* The goroutine of a node takes a packet from its inbox.
Recv(n) == /\ task[n] = Idle /\ inbox[n] # << >>
           /\ inbox' = [inbox EXCEPT ![n] = Tail(@)]
           /\ Continue(n, [at |-> "handle", node |-> n, packet |-> Head(inbox[n])])
           /\ UNCHANGED <<named, peers, ratchets, crashed, calls, history>>

-----------------------------------------------------------------------------
(* HandleIncoming: handleX3DHReceive. *)

Identity(session) == session # None /\ session.identity

\* Mutant of RatchetKey: the signed pre-key serves as the first ratchet key.
SignedAsRatchetKey(m) == SPK(m)

\* The pair generated for the session the receiver makes next.
RatchetKey(m) == RK(NextRatchet)

\* The keys are computed; what is known of the peer is read under the lock.
HandleInit(p) ==
  LET t == task[p]
      m == t.node
  IN  /\ t.at = "handle" /\ t.packet.type = "init"
      /\ ratchets' = Append(ratchets,
                       NewRatchet(ReceiveSecret(m, t.packet.ek),
                                  ReceiveAD(m, t.packet),
                                  RatchetKey(m), t.packet.ek))
      /\ Continue(p, [at |-> "store", node |-> m, peer |-> t.packet.from,
                      ratchet |-> NextRatchet,
                      seen |-> peers[m][t.packet.from]])
      /\ UNCHANGED <<named, peers, inbox, crashed, calls, history>>

\* Mutant of Received: what was known of the peer is forgotten.
ReceivedAfresh(t) == [identity |-> FALSE, ratchet |-> t.ratchet]

\* Mutant of Received: a session that is there stays.
ReceivedOnce(t) ==
  IF t.seen # None THEN t.seen ELSE [identity |-> FALSE, ratchet |-> t.ratchet]

Received(t) == [identity |-> Identity(t.seen), ratchet |-> t.ratchet]

\* The session replaces any other, in a critical section of its own.
StoreSession(p) ==
  LET t == task[p]
  IN  /\ t.at = "store"
      /\ peers' = [peers EXCEPT ![t.node][t.peer] = Received(t)]
      /\ overtaken' = (overtaken \/ peers[t.node][t.peer] # t.seen)
      /\ Return(p)
      /\ UNCHANGED <<named, ratchets, inbox, crashed, calls,
                     seals, raced, initiators, missed>>

-----------------------------------------------------------------------------
(* SendChat and RatchetState.Encrypt, which nothing protects.  The header  *)
(* sets the number of the message back to 0, in every call: it and the     *)
(* nonce made of it are left out.                                          *)

Using(r, at) == {p \in Procs : task[p].at = at /\ task[p].ratchet = r}

\* Without a session SendChat returns an error.
SendChat(c, m) ==
  LET session == peers[Home[c]][m]
  IN  /\ task[c] = Idle /\ inits + chats < MaxCalls
      /\ session # None
      /\ chats' = chats + 1
      /\ Continue(c, [at |-> "encrypt", ratchet |-> session.ratchet, to |-> m])
      /\ UNCHANGED <<named, peers, ratchets, inbox, crashed, inits, history>>

\* The sending chain is read,
LoadChain(c) ==
  LET t == task[c]
  IN  /\ t.at = "encrypt"
      /\ Continue(c, [at |-> "seal", ratchet |-> t.ratchet, to |-> t.to,
                      key |-> ratchets[t.ratchet].send])
      /\ raced' = IF Using(t.ratchet, "seal") # {} THEN raced \cup {t.ratchet}
                  ELSE raced
      /\ UNCHANGED <<named, peers, ratchets, inbox, crashed, calls,
                     seals, initiators, missed, overtaken>>

\* and written back advanced; the message is sealed with the key it gave.
Seal(c) ==
  LET t == task[c]
  IN  /\ t.at = "seal"
      /\ ratchets' = [ratchets EXCEPT ![t.ratchet].send = Advanced(t.key)]
      /\ seals' = Append(seals, [key |-> t.key, ratchet |-> t.ratchet])
      /\ Continue(c, [at |-> "send", to |-> t.to,
                      packet |-> [type |-> "chat", from |-> Home[c]]])
      /\ UNCHANGED <<named, peers, inbox, crashed, calls, raced, initiators, missed,
                     overtaken>>

-----------------------------------------------------------------------------
(* HandleIncoming: handleChat and RatchetState.Decrypt.                    *)
(*                                                                         *)
(* Decrypt is given the message without its first 34 bytes, which end in   *)
(* the sender's PeerID: what it takes for the number of the message are    *)
(* three characters of the PeerID, what it takes for the mark of a new     *)
(* ratchet key is another one, never the byte 1, and the rest is no        *)
(* ciphertext, so that no key opens it.                                    *)

\* Without a session the message is only reported.
HandleChat(p) ==
  LET t == task[p]
      session == peers[t.node][t.packet.from]
  IN  /\ t.at = "handle" /\ t.packet.type = "chat"
      /\ IF session = None THEN Return(p)
         ELSE Continue(p, [at |-> "decrypt", ratchet |-> session.ratchet,
                           num |-> Misread[t.packet.from]])
      /\ UNCHANGED <<named, peers, ratchets, inbox, crashed, calls, history>>

\* The number of the next message expected is read,
LoadNumber(p) ==
  LET t == task[p]
  IN  /\ t.at = "decrypt"
      /\ Continue(p, [at |-> "skip", ratchet |-> t.ratchet, num |-> t.num,
                      recvNum |-> ratchets[t.ratchet].recvNum])
      /\ raced' = IF Using(t.ratchet, "skip") # {} THEN raced \cup {t.ratchet}
                  ELSE raced
      /\ UNCHANGED <<named, peers, ratchets, inbox, crashed, calls,
                     seals, initiators, missed, overtaken>>

\* Mutant of NextNumber: the number is not moved.
SameNumber(t) == t.recvNum

NextNumber(t) == t.num + 1

\* and the keys up to the number in the message are stored, whatever MaxSkip
\* says, and the receiving chain moved past them, before anything is
\* authenticated.
Skip(p) ==
  LET t == task[p]
      skips == IF t.recvNum < t.num THEN t.num - t.recvNum ELSE 0
  IN  /\ t.at = "skip"
      /\ ratchets' = [ratchets EXCEPT ![t.ratchet].skipped = @ + skips,
                                      ![t.ratchet].recv.step = @ + skips + 1,
                                      ![t.ratchet].recvNum = NextNumber(t)]
      /\ Return(p)
      /\ UNCHANGED <<named, peers, inbox, crashed, calls, history>>

\* A goroutine stores skipped keys while another one stores or looks for some:
\* the runtime may notice that a map is written and used at one time.
ConcurrentMapWrites(p) ==
  LET t == task[p]
  IN  /\ t.at = "skip" /\ t.recvNum < t.num
      /\ Using(t.ratchet, "skip") \cup Using(t.ratchet, "decrypt") # {p}
      /\ crashed' = TRUE
      /\ UNCHANGED <<named, peers, ratchets, inbox, task, calls, history>>

-----------------------------------------------------------------------------
Call(c) == \/ \E m \in Nodes : InitiateSession(c, m) \/ SendChat(c, m)
           \/ LoadChain(c) \/ Seal(c)
           \/ Deliver(c) \/ Drop(c)

HandleIncoming(p) == \/ HandleInit(p) \/ StoreSession(p)
                     \/ HandleChat(p) \/ LoadNumber(p) \/ Skip(p)
                     \/ ConcurrentMapWrites(p)

Next == /\ ~ crashed
        /\ \/ \E c \in Callers : Call(c)
           \/ \E n \in Nodes : Recv(n)
           \/ \E p \in Procs : HandleIncoming(p)

Spec == Init /\ [][Next]_vars

-----------------------------------------------------------------------------
TypeOK ==
  /\ named \in BOOLEAN /\ crashed \in BOOLEAN
  /\ \A n, m \in Nodes : peers[n][m] # None =>
       /\ peers[n][m].identity \in BOOLEAN
       /\ peers[n][m].ratchet \in DOMAIN ratchets
  /\ \A n \in Nodes : Len(inbox[n]) <= InboxSize
  /\ \A i \in DOMAIN seals : seals[i].ratchet \in DOMAIN ratchets
  /\ raced \subseteq DOMAIN ratchets /\ initiators \subseteq Callers

Quiet == /\ \A p \in Procs : task[p] = Idle
         /\ \A n \in Nodes : inbox[n] = << >>

Ratchet(n, m) == ratchets[peers[n][m].ratchet]

\* The handshakes of n with m are over: one goroutine only has initiated
\* sessions, all its packets arrived, and all were handled.
Settled(n, m) == /\ Quiet /\ ~ missed /\ peers[n][m] # None
                 /\ \E c \in Callers : initiators = {c} /\ Home[c] = n

\* However often a session is initiated, and though each init is applied twice,
\* the second time possibly after the next one, both ends are left with what
\* belongs to one handshake: its associated data, and the Diffie-Hellman values
\* of its keys but for the first, which the receiver has no key for.
EndsAgree ==
  \A n, m \in Nodes : Settled(n, m) =>
    /\ peers[m][n] # None
    /\ Ratchet(m, n).ad = Ratchet(n, m).ad
    /\ Tail(Ratchet(m, n).secret) = Tail(Ratchet(n, m).secret)

\* No two messages are encrypted with one key, by anyone, though a handshake
\* handled again gives a session twice: except by two goroutines that are in
\* Encrypt of one ratchet at a time.
KeyUsedOnce ==
  /\ TypeOK
  /\ \A i, j \in DOMAIN seals : i # j /\ seals[i].key = seals[j].key =>
       seals[i].ratchet = seals[j].ratchet /\ seals[i].ratchet \in raced

\* What a node knows of its peer's identity survives the peer's handshakes,
\* unless the session changes between the two critical sections.
IdentityKept ==
  [][\A n, m \in Nodes :
       Identity(peers[n][m]) => Identity(peers[n][m])' \/ overtaken']_vars

\* The messages a ratchet cannot read make it store the keys of one gap only,
\* however many there are and though each is handled twice: unless two are
\* handled at one time.
SkipsOnce ==
  \A r \in DOMAIN ratchets : r \in raced
    \/ \E n \in Nodes : ratchets[r].skipped <= Misread[n]
=============================================================================
