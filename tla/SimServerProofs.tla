--------------------------- MODULE SimServerProofs ---------------------------
(***************************************************************************)
(* Theorems about SimServer: for any handlers, configurations and numbers  *)
(* of requests, only an exchange of the World makes a goroutine unlock     *)
(* what it does not hold, and the grid and the rates posted last are in    *)
(* force.                                                                  *)
(***************************************************************************)
EXTENDS SimServer, FiniteSetTheorems, TLAPS

Points == {"idle", "lock", "rlock", "unlock", "runlock", "speed", "run", "ran",
           "measure", "restart", "set speed", "read", "write", "done", "config",
           "refuse", "compare", "old speed", "exchange", "restore", "update", "answer"}

\* The critical sections there are: what is locked, the point of the body, and
\* the point after the section.
WriteSection(body, next) == \/ body = "measure" /\ next = "restart"
                            \/ body = "set speed" /\ next = "done"
                            \/ body \in {"restore", "update"} /\ next = "answer"
IsSection(lock, body, next) ==
  \/ lock = "lock" /\ WriteSection(body, next)
  \/ lock = "rlock" /\ body = "speed" /\ next = "ran"
  \/ lock = "lock" /\ body = "write" /\ next = "done"
  \/ lock = "rlock" /\ body = "read" /\ next = "done"

\* The bodies that write to the World the variable holds.
Bodies == {"measure", "set speed", "restore", "update"}

\* A task is at a point, or waits for the lock of a section with this body.
AtOrBefore(t, bodies) == t.at \in bodies \/ (t.at = "lock" /\ t.body \in bodies)

\* The fields a goroutine's task has at its point.
InSection(t) ==
  /\ t.at \in {"lock", "rlock"} =>
       {"w", "body", "next"} \subseteq DOMAIN t /\ IsSection(t.at, t.body, t.next)
  /\ t.at \in Bodies => WriteSection(t.at, t.next)
  /\ t.at = "unlock" => t.next \in {"restart", "done", "answer"}
  /\ t.at = "runlock" => t.next \in {"run", "ran"}
  /\ t.at \in Bodies \cup {"unlock", "runlock"} => "next" \in DOMAIN t
KnowsWorld(t, n) ==
  t.at \in {"lock", "rlock", "read", "write"} => "w" \in DOMAIN t /\ t.w \in 1..n
HasConfig(t) ==
  t.at \in {"config", "compare", "old speed", "exchange"} \/ AtOrBefore(t, {"update"}) =>
    "config" \in DOMAIN t /\ t.config \in Configs
HasSpeed(t) ==
  t.at = "exchange" \/ AtOrBefore(t, {"set speed", "restore"}) =>
    "speed" \in DOMAIN t /\ t.speed \in Nat

Shape(t, n) == /\ "at" \in DOMAIN t /\ t.at \in Points
               /\ InSection(t) /\ KnowsWorld(t, n) /\ HasConfig(t) /\ HasSpeed(t)

\* The configurations a World may have: an update mixes two of them.
Known == Configs \cup {Default}
Mixed == [grid : {c.grid : c \in Known}, rates : {c.rates : c \in Known},
          fixed : {c.fixed : c \in Known}]

Worlds == [config : Mixed, made : Known, speed : Nat, ticks : Nat, tps : Int,
           writing : BOOLEAN, readers : Nat]

Types == /\ worlds \in Seq(Worlds) /\ world \in 1..Len(worlds)
         /\ last \in Nat /\ turns \in 0..MaxTurns /\ requests \in 0..MaxRequests
         /\ DOMAIN task = Procs /\ posted \in Known

Shapes == \A p \in Procs : Shape(task[p], Len(worlds))

\* The points between configMu.Lock() and its unlock.
Configuring(t) ==
  \/ t.at \in {"compare", "refuse", "old speed", "exchange", "answer"}
  \/ AtOrBefore(t, {"restore", "update"})
  \/ t.at = "unlock" /\ t.next = "answer"

OneConfigures ==
  /\ \A p \in Procs : Configuring(task[p]) => configMu
  /\ \A p, q \in Procs : Configuring(task[p]) /\ Configuring(task[q]) => p = q

\* No other grid than the one in force is taken for the same.
Posted == /\ worlds[world].config = [posted EXCEPT !.fixed = worlds[world].made.fixed]
          /\ \A p \in Procs : AtOrBefore(task[p], {"update"}) =>
                                task[p].config.grid = posted.grid

\* What a task has locked.  Between two reads of the variable that is the World
\* it holds, as long as no exchange has come between.
Writes(t, w) == \/ t.at \in Bodies \cup {"unlock"} /\ w = world
                \/ t.at = "write" /\ w = t.w
Reads(t, w) == \/ t.at \in {"speed", "runlock"} /\ w = world
               \/ t.at = "read" /\ w = t.w
Readers(w) == {p \in Procs : Reads(task[p], w)}

\* Methods wait for the World they were called on, others for that of the variable.
WaitsRightly(t) ==
  t.at \in {"lock", "rlock"} /\ t.body \notin {"read", "write"} => t.w = world

OneWriter ==
  \A p \in Procs, w \in DOMAIN worlds :
    Writes(task[p], w) => /\ worlds[w].writing
                          /\ \A q \in Procs : Writes(task[q], w) => p = q
ReadersCounted ==
  \A w \in DOMAIN worlds : /\ IsFiniteSet(Readers(w))
                           /\ worlds[w].readers = Cardinality(Readers(w))

Locks == /\ ~ crashed
         /\ \A p \in Procs : WaitsRightly(task[p])
         /\ OneWriter /\ ReadersCounted

LocksHeld == ~ crossed => Locks

IInv == Types /\ Shapes /\ OneConfigures /\ Posted /\ LocksHeld

-----------------------------------------------------------------------------
\* A configuration is one of its own mixtures.
LEMMA KnownIsMixed ==
  ASSUME NEW c \in Known
  PROVE  /\ c \in Mixed /\ [c EXCEPT !.fixed = c.fixed] = c
         /\ \A f : [c EXCEPT !.fixed = f].grid = c.grid
<1>1. c = [grid |-> c.grid, rates |-> c.rates, fixed |-> c.fixed]
  BY ConfigsAssumption DEF Known
<1>2. c \in Mixed
  BY <1>1 DEF Mixed
<1>3. [c EXCEPT !.fixed = c.fixed] = c /\ \A f : [c EXCEPT !.fixed = f].grid = c.grid
  BY <1>2 DEF Mixed
<1> QED BY <1>2, <1>3

LEMMA MixedByFields ==
  ASSUME NEW c \in Mixed, NEW f \in {d.fixed : d \in Known}
  PROVE  /\ [c EXCEPT !.fixed = f] \in Mixed
         /\ [c EXCEPT !.fixed = f] = [grid |-> c.grid, rates |-> c.rates, fixed |-> f]
BY DEF Mixed

LEMMA InitIInv == Init => IInv
<1> SUFFICES ASSUME Init PROVE IInv
  OBVIOUS
<1> USE DEF Init
<1>0. Default \in Known /\ Default \in Mixed /\ [Default EXCEPT !.fixed = Default.fixed] = Default
  BY KnownIsMixed DEF Known
<1>1. worlds \in Seq(Worlds) /\ Len(worlds) = 1
  BY <1>0 DEF Worlds, NewWorld
<1>2. Types
  BY <1>0, <1>1, BoundsAssumption DEF Types
<1>3. Shapes
  BY DEF Shapes, Shape, Idle, Points, InSection, KnowsWorld, HasConfig, HasSpeed,
         AtOrBefore, Bodies
<1>4. OneConfigures /\ Posted
  BY <1>0 DEF OneConfigures, Posted, Configuring, AtOrBefore, Idle, NewWorld
<1>5. \A w : Readers(w) = {}
  BY DEF Readers, Reads, Idle
<1>6. ReadersCounted
  BY <1>5, FS_EmptySet DEF ReadersCounted, NewWorld
<1>7. LocksHeld
  BY <1>6 DEF LocksHeld, Locks, OneWriter, Writes, WaitsRightly, Idle, Bodies
<1> QED BY <1>2, <1>3, <1>4, <1>7 DEF IInv

LEMMA OneWorld ==
  ASSUME Types
  PROVE  /\ Len(worlds) \in Nat /\ DOMAIN worlds = 1..Len(worlds)
         /\ world \in DOMAIN worlds
         /\ \A w \in DOMAIN worlds :
              /\ worlds[w] \in Worlds
              /\ worlds[w].config \in Mixed /\ worlds[w].made \in Known
              /\ worlds[w].speed \in Nat
              /\ worlds[w].ticks \in Nat /\ worlds[w].tps \in Int
              /\ worlds[w].writing \in BOOLEAN /\ worlds[w].readers \in Nat
<1>1. /\ Len(worlds) \in Nat /\ DOMAIN worlds = 1..Len(worlds)
      /\ \A w \in DOMAIN worlds : worlds[w] \in Worlds
  BY DEF Types
<1>2. world \in DOMAIN worlds
  BY <1>1 DEF Types
<1> QED BY <1>1, <1>2 DEF Worlds

-----------------------------------------------------------------------------
(* What a step of one goroutine must see to, part by part. *)

LEMMA ShapesMove ==
  ASSUME Types, Shapes, NEW p \in Procs, NEW t, Continue(p, t),
         Len(worlds') \in Nat, Len(worlds) <= Len(worlds'), Shape(t, Len(worlds'))
  PROVE  Shapes' /\ DOMAIN task' = Procs
<1>1. Len(worlds) \in Nat
  BY DEF Types
<1>2. \A q \in Procs : q # p => KnowsWorld(task[q], Len(worlds'))
  BY <1>1 DEF Shapes, Shape, KnowsWorld
<1> QED BY <1>2 DEF Shapes, Shape, Types, Continue

LEMMA ConfiguringMoves ==
  ASSUME Types, OneConfigures, NEW p \in Procs, NEW t, Continue(p, t),
         UNCHANGED configMu, Configuring(t) => Configuring(task[p])
  PROVE  OneConfigures'
BY DEF OneConfigures, Types, Continue

LEMMA PostedStays ==
  ASSUME Types, Posted, NEW p \in Procs, NEW t, Continue(p, t),
         UNCHANGED <<posted, world>>, worlds'[world].config = worlds[world].config,
         worlds'[world].made = worlds[world].made,
         AtOrBefore(t, {"update"}) => t.config.grid = posted.grid
  PROVE  Posted'
BY DEF Posted, Types, Continue

\* What no lock is taken or given back for.
SameLocks(t, u) == \A w \in DOMAIN worlds : /\ Writes(t, w) <=> Writes(u, w)
                                            /\ Reads(t, w) <=> Reads(u, w)
LocksAlone == /\ DOMAIN worlds' = DOMAIN worlds
              /\ \A w \in DOMAIN worlds : /\ worlds'[w].writing = worlds[w].writing
                                          /\ worlds'[w].readers = worlds[w].readers

LEMMA NoLockMoves ==
  ASSUME Types, LocksHeld, NEW p \in Procs, NEW t, Continue(p, t), LocksAlone,
         UNCHANGED <<world, crashed, crossed>>, WaitsRightly(t), SameLocks(t, task[p])
  PROVE  LocksHeld'
<1> SUFFICES ASSUME ~ crossed PROVE Locks'
  BY DEF LocksHeld
<1>1. Locks
  BY DEF LocksHeld
<1>2. \A q \in Procs : task'[q] = IF q = p THEN t ELSE task[q]
  BY DEF Types, Continue
<1>3. \A q \in Procs : WaitsRightly(task[q])'
  BY <1>1, <1>2 DEF Locks, WaitsRightly
<1>4. \A q \in Procs, w \in DOMAIN worlds :
        /\ Writes(task[q], w)' <=> Writes(task[q], w)
        /\ Reads(task[q], w)' <=> Reads(task[q], w)
  BY <1>2 DEF SameLocks, Writes, Reads
<1>5. OneWriter'
  BY <1>1, <1>4 DEF Locks, OneWriter, LocksAlone
<1>6. \A w \in DOMAIN worlds : Readers(w)' = Readers(w)
  BY <1>4 DEF Readers
<1>7. ReadersCounted'
  BY <1>1, <1>6 DEF Locks, ReadersCounted, LocksAlone
<1> QED BY <1>1, <1>3, <1>5, <1>7 DEF Locks

LEMMA WriteLockTaken ==
  ASSUME Types, LocksHeld, NEW p \in Procs, NEW t, Continue(p, t), NEW v \in DOMAIN worlds,
         Lock(v), UNCHANGED <<world, crashed, crossed>>,
         ~ crossed => /\ WaitsRightly(t)
                      /\ \A w \in DOMAIN worlds : /\ ~ Writes(task[p], w)
                                                  /\ Writes(t, w) <=> w = v
                                                  /\ Reads(t, w) <=> Reads(task[p], w)
  PROVE  LocksHeld'
<1> SUFFICES ASSUME ~ crossed PROVE Locks'
  BY DEF LocksHeld
<1>1. Locks
  BY DEF LocksHeld
<1>2. \A q \in Procs : task'[q] = IF q = p THEN t ELSE task[q]
  BY DEF Types, Continue
<1>3. \A q \in Procs : WaitsRightly(task[q])'
  BY <1>1, <1>2 DEF Locks, WaitsRightly
<1>4. \A q \in Procs, w \in DOMAIN worlds :
        /\ Writes(task[q], w)' <=> Writes(task[q], w) \/ (q = p /\ w = v)
        /\ Reads(task[q], w)' <=> Reads(task[q], w)
  BY <1>2 DEF Writes, Reads
<1>5. /\ DOMAIN worlds' = DOMAIN worlds
      /\ \A w \in DOMAIN worlds :
           /\ worlds'[w].writing = (worlds[w].writing \/ w = v)
           /\ worlds'[w].readers = worlds[w].readers
  BY OneWorld DEF Lock, Worlds
<1>6. OneWriter'
  BY <1>1, <1>4, <1>5 DEF Locks, OneWriter, Lock
<1>7. \A w \in DOMAIN worlds : Readers(w)' = Readers(w)
  BY <1>4 DEF Readers
<1>8. ReadersCounted'
  BY <1>1, <1>5, <1>7 DEF Locks, ReadersCounted
<1> QED BY <1>1, <1>3, <1>6, <1>8 DEF Locks

LEMMA WriteLockGiven ==
  ASSUME Types, LocksHeld, NEW p \in Procs, NEW t, Continue(p, t), NEW v \in DOMAIN worlds,
         Unlock(v), UNCHANGED <<world, crossed>>,
         ~ crossed => /\ WaitsRightly(t)
                      /\ \A w \in DOMAIN worlds : /\ Writes(task[p], w) <=> w = v
                                                  /\ ~ Writes(t, w)
                                                  /\ Reads(t, w) <=> Reads(task[p], w)
  PROVE  LocksHeld'
<1> SUFFICES ASSUME ~ crossed PROVE Locks'
  BY DEF LocksHeld
<1>1. Locks
  BY DEF LocksHeld
<1>2. \A q \in Procs : task'[q] = IF q = p THEN t ELSE task[q]
  BY DEF Types, Continue
<1>3. \A q \in Procs : WaitsRightly(task[q])'
  BY <1>1, <1>2 DEF Locks, WaitsRightly
<1>4. \A q \in Procs, w \in DOMAIN worlds :
        /\ Writes(task[q], w)' <=> Writes(task[q], w) /\ q # p
        /\ Reads(task[q], w)' <=> Reads(task[q], w)
  BY <1>2 DEF Writes, Reads
<1>5. worlds[v].writing
  BY <1>1 DEF Locks, OneWriter
<1>6. /\ ~ crashed'
      /\ DOMAIN worlds' = DOMAIN worlds
      /\ \A w \in DOMAIN worlds :
           /\ w # v => worlds'[w].writing = worlds[w].writing
           /\ worlds'[w].readers = worlds[w].readers
  BY <1>1, <1>5, OneWorld DEF Unlock, Worlds, Locks
<1>7. OneWriter'
  BY <1>1, <1>4, <1>6 DEF Locks, OneWriter
<1>8. \A w \in DOMAIN worlds : Readers(w)' = Readers(w)
  BY <1>4 DEF Readers
<1>9. ReadersCounted'
  BY <1>1, <1>6, <1>8 DEF Locks, ReadersCounted
<1> QED BY <1>3, <1>6, <1>7, <1>9 DEF Locks

LEMMA ReadLockTaken ==
  ASSUME Types, LocksHeld, NEW p \in Procs, NEW t, Continue(p, t), NEW v \in DOMAIN worlds,
         RLock(v), UNCHANGED <<world, crashed, crossed>>,
         ~ crossed => /\ WaitsRightly(t)
                      /\ \A w \in DOMAIN worlds : /\ ~ Reads(task[p], w)
                                                  /\ Reads(t, w) <=> w = v
                                                  /\ Writes(t, w) <=> Writes(task[p], w)
  PROVE  LocksHeld'
<1> SUFFICES ASSUME ~ crossed PROVE Locks'
  BY DEF LocksHeld
<1>1. Locks
  BY DEF LocksHeld
<1>2. \A q \in Procs : task'[q] = IF q = p THEN t ELSE task[q]
  BY DEF Types, Continue
<1>3. \A q \in Procs : WaitsRightly(task[q])'
  BY <1>1, <1>2 DEF Locks, WaitsRightly
<1>4. \A q \in Procs, w \in DOMAIN worlds :
        /\ Writes(task[q], w)' <=> Writes(task[q], w)
        /\ Reads(task[q], w)' <=> Reads(task[q], w) \/ (q = p /\ w = v)
  BY <1>2 DEF Writes, Reads
<1>5. /\ DOMAIN worlds' = DOMAIN worlds
      /\ \A w \in DOMAIN worlds :
           /\ worlds'[w].writing = worlds[w].writing
           /\ worlds'[w].readers = IF w = v THEN worlds[w].readers + 1 ELSE worlds[w].readers
  BY OneWorld DEF RLock, Worlds
<1>6. OneWriter'
  BY <1>1, <1>4, <1>5 DEF Locks, OneWriter
<1>7. \A w \in DOMAIN worlds :
        /\ p \notin Readers(w)
        /\ Readers(w)' = IF w = v THEN Readers(w) \cup {p} ELSE Readers(w)
  BY <1>4 DEF Readers
<1>8. ReadersCounted'
  BY <1>1, <1>5, <1>7, FS_AddElement DEF Locks, ReadersCounted
<1> QED BY <1>1, <1>3, <1>6, <1>8 DEF Locks

LEMMA ReadLockGiven ==
  ASSUME Types, LocksHeld, NEW p \in Procs, NEW t, Continue(p, t), NEW v \in DOMAIN worlds,
         RUnlock(v), UNCHANGED <<world, crossed>>,
         ~ crossed => /\ WaitsRightly(t)
                      /\ \A w \in DOMAIN worlds : /\ Reads(task[p], w) <=> w = v
                                                  /\ ~ Reads(t, w)
                                                  /\ Writes(t, w) <=> Writes(task[p], w)
  PROVE  LocksHeld'
<1> SUFFICES ASSUME ~ crossed PROVE Locks'
  BY DEF LocksHeld
<1>1. Locks
  BY DEF LocksHeld
<1>2. \A q \in Procs : task'[q] = IF q = p THEN t ELSE task[q]
  BY DEF Types, Continue
<1>3. \A q \in Procs : WaitsRightly(task[q])'
  BY <1>1, <1>2 DEF Locks, WaitsRightly
<1>4. \A q \in Procs, w \in DOMAIN worlds :
        /\ Writes(task[q], w)' <=> Writes(task[q], w)
        /\ Reads(task[q], w)' <=> Reads(task[q], w) /\ q # p
  BY <1>2 DEF Writes, Reads
<1>5. /\ p \in Readers(v)
      /\ \A w \in DOMAIN worlds :
           Readers(w)' = IF w = v THEN Readers(w) \ {p} ELSE Readers(w)
  BY <1>4 DEF Readers
<1>6. worlds[v].readers \in Nat /\ worlds[v].readers > 0
  <2>1. worlds[v].readers \in Nat
    BY OneWorld
  <2>2. worlds[v].readers # 0
    BY <1>1, <1>5, FS_EmptySet DEF Locks, ReadersCounted
  <2> QED BY <2>1, <2>2
<1>7. /\ ~ crashed'
      /\ DOMAIN worlds' = DOMAIN worlds
      /\ \A w \in DOMAIN worlds :
           /\ worlds'[w].writing = worlds[w].writing
           /\ worlds'[w].readers = IF w = v THEN worlds[w].readers - 1 ELSE worlds[w].readers
  <2>1. /\ ~ crashed'
        /\ worlds' = [worlds EXCEPT ![v].readers = @ - 1]
    BY <1>1, <1>6 DEF RUnlock, Locks
  <2>2. \A w \in DOMAIN worlds : worlds[w] = [worlds[w] EXCEPT !.readers = @]
    BY OneWorld DEF Worlds
  <2> QED BY <2>1, <2>2, OneWorld DEF Worlds
<1>8. OneWriter'
  BY <1>1, <1>4, <1>7 DEF Locks, OneWriter
<1>9. ReadersCounted'
  BY <1>1, <1>5, <1>7, FS_RemoveElement DEF Locks, ReadersCounted
<1> QED BY <1>3, <1>7, <1>8, <1>9 DEF Locks

-----------------------------------------------------------------------------
(* Steps by what they change. *)

\* Nothing but the goroutine's task, and counters.
LEMMA TaskMoves ==
  ASSUME IInv, NEW p \in Procs, NEW t, Continue(p, t), Shape(t, Len(worlds)),
         UNCHANGED <<world, worlds, configMu, posted, crashed, crossed>>,
         last' \in Nat, turns' \in 0..MaxTurns, requests' \in 0..MaxRequests,
         Configuring(t) => Configuring(task[p]),
         AtOrBefore(t, {"update"}) => t.config.grid = posted.grid,
         WaitsRightly(t), SameLocks(t, task[p])
  PROVE  IInv'
<1>1. Types /\ Shapes /\ OneConfigures /\ Posted /\ LocksHeld
  BY DEF IInv
<1>2. Shapes' /\ DOMAIN task' = Procs
  BY <1>1, ShapesMove, OneWorld
<1>3. Types'
  BY <1>1, <1>2 DEF Types
<1>4. OneConfigures'
  BY <1>1, ConfiguringMoves
<1>5. Posted'
  BY <1>1, PostedStays
<1>6. LocksHeld'
  BY <1>1, NoLockMoves DEF LocksAlone
<1> QED BY <1>2, <1>3, <1>4, <1>5, <1>6 DEF IInv

\* One World.
LEMMA WorldChanges ==
  ASSUME Types, NEW v \in DOMAIN worlds, NEW x \in Worlds, worlds' = [worlds EXCEPT ![v] = x]
  PROVE  /\ worlds' \in Seq(Worlds) /\ Len(worlds') = Len(worlds)
         /\ DOMAIN worlds' = DOMAIN worlds
         /\ \A w \in DOMAIN worlds : worlds'[w] = IF w = v THEN x ELSE worlds[w]
BY OneWorld DEF Types

\* The World of the variable, but for its lock and its configuration.
LEMMA BodyMoves ==
  ASSUME IInv, NEW p \in Procs, NEW t, Continue(p, t), Shape(t, Len(worlds)),
         NEW x \in Worlds, worlds' = [worlds EXCEPT ![world] = x],
         x.writing = worlds[world].writing, x.readers = worlds[world].readers,
         x.config = worlds[world].config, x.made = worlds[world].made,
         UNCHANGED <<world, last, turns, requests, configMu, posted, crashed, crossed>>,
         Configuring(t) => Configuring(task[p]), ~ AtOrBefore(t, {"update"}),
         WaitsRightly(t), SameLocks(t, task[p])
  PROVE  IInv'
<1>1. Types /\ Shapes /\ OneConfigures /\ Posted /\ LocksHeld
  BY DEF IInv
<1>2. /\ worlds' \in Seq(Worlds) /\ Len(worlds') = Len(worlds)
      /\ DOMAIN worlds' = DOMAIN worlds
      /\ \A w \in DOMAIN worlds : worlds'[w] = IF w = world THEN x ELSE worlds[w]
  BY <1>1, OneWorld, WorldChanges
<1>3. Shapes' /\ DOMAIN task' = Procs
  BY <1>1, <1>2, ShapesMove, OneWorld
<1>4. Types'
  BY <1>1, <1>2, <1>3 DEF Types
<1>5. OneConfigures'
  BY <1>1, ConfiguringMoves
<1>6. Posted'
  BY <1>1, <1>2, PostedStays, OneWorld
<1>7. LocksHeld'
  BY <1>1, <1>2, NoLockMoves DEF LocksAlone
<1> QED BY <1>3, <1>4, <1>5, <1>6, <1>7 DEF IInv

\* Fields of a section, and of a task that goes on.
LEMMA SectionFields ==
  ASSUME NEW lock, NEW body, NEW next
  PROVE  LET t == Section(lock, body, next)
         IN  /\ DOMAIN t = {"at", "w", "body", "next"}
             /\ t.at = lock /\ t.w = world /\ t.body = body /\ t.next = next
BY DEF Section

LEMMA GoesTo ==
  ASSUME NEW p \in Procs, Shapes, NEW at
  PROVE  LET t == [task[p] EXCEPT !.at = at]
         IN  /\ DOMAIN t = DOMAIN task[p] /\ t.at = at
             /\ \A f \in DOMAIN task[p] : f # "at" => t[f] = task[p][f]
BY DEF Shapes, Shape

-----------------------------------------------------------------------------
(* The ticker. *)

LEMMA TurnKeeps == ASSUME IInv, Turn PROVE IInv'
<1> DEFINE t == Section("rlock", "speed", "ran")
<1>1. /\ Types /\ "ticker" \in Procs /\ Continue("ticker", t)
  BY DEF IInv, Turn, Procs
<1>2. /\ DOMAIN t = {"at", "w", "body", "next"}
      /\ t.at = "rlock" /\ t.w = world /\ t.body = "speed" /\ t.next = "ran"
  BY SectionFields
<1> HIDE DEF t
<1>3. Shape(t, Len(worlds))
  BY <1>1, <1>2 DEF Types, Shape, Points, InSection, IsSection, WriteSection, KnowsWorld,
       HasConfig, HasSpeed, AtOrBefore, Bodies
<1>4. /\ UNCHANGED <<world, worlds, configMu, posted, crashed, crossed>>
      /\ last' \in Nat /\ turns' \in 0..MaxTurns /\ requests' \in 0..MaxRequests
  BY <1>1, BoundsAssumption DEF Turn, Types, server, history
<1>5. ~ Configuring(t) /\ ~ AtOrBefore(t, {"update"}) /\ WaitsRightly(t)
  BY <1>2 DEF Configuring, AtOrBefore, WaitsRightly
<1>6. SameLocks(t, task["ticker"])
  BY <1>2 DEF Turn, At, SameLocks, Writes, Reads, Bodies
<1> QED BY <1>1, <1>3, <1>4, <1>5, <1>6, TaskMoves

\* A step to a point without fields of its own that holds no lock.
Plain(point) ==
  point \in {"idle", "run", "ran", "restart", "done", "refuse", "answer"}

LEMMA PlainPoint ==
  ASSUME NEW t, "at" \in DOMAIN t, Plain(t.at)
  PROVE  /\ Shape(t, Len(worlds)) /\ ~ AtOrBefore(t, {"update"}) /\ WaitsRightly(t)
         /\ \A w : ~ Writes(t, w) /\ ~ Reads(t, w)
<1>1. Shape(t, Len(worlds))
  BY DEF Plain, Points, Shape, InSection, KnowsWorld, HasConfig, HasSpeed, AtOrBefore, Bodies
<1>2. ~ AtOrBefore(t, {"update"}) /\ WaitsRightly(t)
  BY DEF Plain, AtOrBefore, WaitsRightly, Bodies
<1>3. \A w : ~ Writes(t, w) /\ ~ Reads(t, w)
  BY DEF Plain, Writes, Reads, Bodies
<1> QED BY <1>1, <1>2, <1>3

LEMMA ReadSpeedKeeps == ASSUME IInv, ReadSpeed PROVE IInv'
<1> DEFINE next == IF worlds[world].speed > 0 THEN "run" ELSE "ran"
           t == [at |-> "runlock", next |-> next]
<1>1. /\ Types /\ "ticker" \in Procs /\ Continue("ticker", t)
  BY DEF IInv, ReadSpeed, Procs
<1>2. DOMAIN t = {"at", "next"} /\ t.at = "runlock" /\ t.next \in {"run", "ran"}
  OBVIOUS
<1> HIDE DEF t
<1>3. Shape(t, Len(worlds))
  BY <1>2 DEF Shape, Points, InSection, KnowsWorld, HasConfig, HasSpeed, AtOrBefore, Bodies
<1>4. /\ UNCHANGED <<world, worlds, configMu, posted, crashed, crossed>>
      /\ last' \in Nat /\ turns' \in 0..MaxTurns /\ requests' \in 0..MaxRequests
  BY <1>1 DEF ReadSpeed, Types, server, history, bounds
<1>5. ~ Configuring(t) /\ ~ AtOrBefore(t, {"update"}) /\ WaitsRightly(t)
  BY <1>2 DEF Configuring, AtOrBefore, WaitsRightly
<1>6. SameLocks(t, task["ticker"])
  BY <1>2 DEF ReadSpeed, At, SameLocks, Writes, Reads, Bodies
<1> QED BY <1>1, <1>3, <1>4, <1>5, <1>6, TaskMoves

LEMMA RunStepsKeeps == ASSUME IInv, RunSteps PROVE IInv'
<1> DEFINE t == [task["ticker"] EXCEPT !.at = "ran"]
           x == [worlds[world] EXCEPT !.ticks = @ + 1]
<1>1. /\ Types /\ Shapes /\ "ticker" \in Procs /\ Continue("ticker", t)
  BY DEF IInv, RunSteps, Procs, GoTo
<1>2. DOMAIN t = DOMAIN task["ticker"] /\ "at" \in DOMAIN t /\ t.at = "ran"
  BY <1>1, GoesTo DEF Shapes, Shape
<1>3. /\ worlds' = [worlds EXCEPT ![world] = x] /\ x \in Worlds
      /\ x.writing = worlds[world].writing /\ x.readers = worlds[world].readers
      /\ x.config = worlds[world].config /\ x.made = worlds[world].made
  BY <1>1, OneWorld DEF RunSteps, Worlds
<1> HIDE DEF t, x
<1>4. /\ Shape(t, Len(worlds)) /\ ~ AtOrBefore(t, {"update"}) /\ WaitsRightly(t)
      /\ \A w : ~ Writes(t, w) /\ ~ Reads(t, w)
  BY <1>2, PlainPoint DEF Plain
<1>5. UNCHANGED <<world, last, turns, requests, configMu, posted, crashed, crossed>>
  BY DEF RunSteps, bounds
<1>6. ~ Configuring(t)
  BY <1>2, <1>4 DEF Configuring, AtOrBefore
<1>7. SameLocks(t, task["ticker"])
  BY <1>4 DEF RunSteps, At, SameLocks, Writes, Reads, Bodies
<1> QED BY <1>1, <1>3, <1>4, <1>5, <1>6, <1>7, BodyMoves

LEMMA EndTurnKeeps == ASSUME IInv, EndTurn PROVE IInv'
<1>1. /\ Types /\ "ticker" \in Procs
      /\ UNCHANGED <<world, worlds, configMu, posted, crashed, crossed>>
      /\ last' \in Nat /\ turns' \in 0..MaxTurns /\ requests' \in 0..MaxRequests
  BY DEF IInv, EndTurn, Procs, Types, server, history, bounds
<1>2. \A w : ~ Writes(task["ticker"], w) /\ ~ Reads(task["ticker"], w)
  BY DEF EndTurn, At, Writes, Reads, Bodies
<1>3. CASE Return("ticker")
  <2>1. Continue("ticker", Idle) /\ "at" \in DOMAIN Idle /\ Idle.at = "idle"
    BY <1>3 DEF Return, Idle
  <2>2. /\ Shape(Idle, Len(worlds)) /\ ~ AtOrBefore(Idle, {"update"}) /\ WaitsRightly(Idle)
        /\ \A w : ~ Writes(Idle, w) /\ ~ Reads(Idle, w)
    BY <2>1, PlainPoint DEF Plain
  <2>3. ~ Configuring(Idle)
    BY <2>1 DEF Configuring, AtOrBefore
  <2> QED BY <1>1, <1>2, <2>1, <2>2, <2>3, TaskMoves DEF SameLocks
<1>4. CASE Continue("ticker", Section("lock", "measure", "restart"))
  <2> DEFINE t == Section("lock", "measure", "restart")
  <2>1. /\ DOMAIN t = {"at", "w", "body", "next"}
        /\ t.at = "lock" /\ t.w = world /\ t.body = "measure" /\ t.next = "restart"
    BY SectionFields
  <2> HIDE DEF t
  <2>2. Shape(t, Len(worlds))
    BY <1>1, <2>1 DEF Types, Shape, Points, InSection, IsSection, WriteSection, KnowsWorld,
         HasConfig, HasSpeed, AtOrBefore, Bodies
  <2>3. /\ ~ Configuring(t) /\ ~ AtOrBefore(t, {"update"}) /\ WaitsRightly(t)
        /\ \A w : ~ Writes(t, w) /\ ~ Reads(t, w)
    BY <2>1 DEF Configuring, AtOrBefore, WaitsRightly, Writes, Reads, Bodies
  <2>4. Continue("ticker", t)
    BY <1>4 DEF t
  <2> QED BY <1>1, <1>2, <2>2, <2>3, <2>4, TaskMoves DEF SameLocks
<1> QED BY <1>3, <1>4 DEF EndTurn

LEMMA RestartKeeps == ASSUME IInv, Restart PROVE IInv'
<1>1. Types /\ "ticker" \in Procs /\ Continue("ticker", Idle)
  BY DEF IInv, Restart, Procs, Return
<1>2. /\ UNCHANGED <<world, worlds, configMu, posted, crashed, crossed>>
      /\ last' \in Nat /\ turns' \in 0..MaxTurns /\ requests' \in 0..MaxRequests
  BY <1>1, OneWorld DEF Restart, Types, bounds, Counted
<1>3. "at" \in DOMAIN Idle /\ Idle.at = "idle"
  BY DEF Idle
<1>4. /\ Shape(Idle, Len(worlds)) /\ ~ AtOrBefore(Idle, {"update"}) /\ WaitsRightly(Idle)
      /\ \A w : ~ Writes(Idle, w) /\ ~ Reads(Idle, w)
  BY <1>3, PlainPoint DEF Plain
<1>5. ~ Configuring(Idle)
  BY <1>3 DEF Configuring, AtOrBefore
<1>6. SameLocks(Idle, task["ticker"])
  BY <1>4 DEF Restart, At, SameLocks, Writes, Reads, Bodies
<1> QED BY <1>1, <1>2, <1>4, <1>5, <1>6, TaskMoves

LEMMA MeasureKeeps == ASSUME IInv, Measure PROVE IInv'
<1> DEFINE t == [task["ticker"] EXCEPT !.at = "unlock"]
           x == [worlds[world] EXCEPT !.tps = worlds[world].ticks - last]
<1>1. /\ Types /\ Shapes /\ "ticker" \in Procs /\ Continue("ticker", t)
      /\ task["ticker"].at = "measure"
  BY DEF IInv, Measure, Procs, GoTo, At
<1>2. /\ "at" \in DOMAIN t /\ "next" \in DOMAIN t
      /\ t.at = "unlock" /\ t.next = "restart"
  BY <1>1, GoesTo DEF Shapes, Shape, InSection, WriteSection, Bodies
<1>3. /\ worlds' = [worlds EXCEPT ![world] = x] /\ x \in Worlds
      /\ x.writing = worlds[world].writing /\ x.readers = worlds[world].readers
      /\ x.config = worlds[world].config /\ x.made = worlds[world].made
  <2>1. last \in Nat
    BY <1>1 DEF Types
  <2> QED BY <1>1, <2>1, OneWorld DEF Measure, Worlds
<1> HIDE DEF t, x
<1>4. Shape(t, Len(worlds))
  BY <1>2 DEF Shape, Points, InSection, KnowsWorld, HasConfig, HasSpeed, AtOrBefore, Bodies
<1>5. UNCHANGED <<world, last, turns, requests, configMu, posted, crashed, crossed>>
  BY DEF Measure, bounds, history
<1>6. ~ Configuring(t) /\ ~ AtOrBefore(t, {"update"}) /\ WaitsRightly(t)
  BY <1>2 DEF Configuring, AtOrBefore, WaitsRightly
<1>7. SameLocks(t, task["ticker"])
  BY <1>1, <1>2 DEF SameLocks, Writes, Reads, Bodies
<1> QED BY <1>1, <1>3, <1>4, <1>5, <1>6, <1>7, BodyMoves

-----------------------------------------------------------------------------
(* Critical sections. *)

SameButLock(v, w) == /\ v.config = w.config /\ v.made = w.made /\ v.speed = w.speed
                     /\ v.ticks = w.ticks /\ v.tps = w.tps

LEMMA LockChanges ==
  ASSUME Types, NEW v \in DOMAIN worlds, Lock(v) \/ Unlock(v) \/ RLock(v) \/ RUnlock(v)
  PROVE  /\ worlds' \in Seq(Worlds) /\ Len(worlds') = Len(worlds)
         /\ \A w \in DOMAIN worlds : SameButLock(worlds'[w], worlds[w])
<1>1. CASE UNCHANGED worlds
  BY <1>1 DEF Types, SameButLock
<1>2. CASE \E b \in BOOLEAN : worlds' = [worlds EXCEPT ![v].writing = b]
  <2>1. PICK b \in BOOLEAN : worlds' = [worlds EXCEPT ![v].writing = b]
    BY <1>2
  <2> DEFINE x == [worlds[v] EXCEPT !.writing = b]
  <2>2. x \in Worlds /\ SameButLock(x, worlds[v]) /\ worlds' = [worlds EXCEPT ![v] = x]
    BY <2>1, OneWorld DEF Worlds, SameButLock
  <2> HIDE DEF x
  <2> QED BY <2>2, WorldChanges DEF SameButLock
<1>3. CASE \E n \in Nat : worlds' = [worlds EXCEPT ![v].readers = n]
  <2>1. PICK n \in Nat : worlds' = [worlds EXCEPT ![v].readers = n]
    BY <1>3
  <2> DEFINE x == [worlds[v] EXCEPT !.readers = n]
  <2>2. x \in Worlds /\ SameButLock(x, worlds[v]) /\ worlds' = [worlds EXCEPT ![v] = x]
    BY <2>1, OneWorld DEF Worlds, SameButLock
  <2> HIDE DEF x
  <2> QED BY <2>2, WorldChanges DEF SameButLock
<1>4. CASE Lock(v) \/ Unlock(v)
  BY <1>1, <1>2, <1>4 DEF Lock, Unlock
<1>5. CASE RLock(v)
  <2>1. worlds[v].readers + 1 \in Nat
    BY OneWorld
  <2>2. worlds' = [worlds EXCEPT ![v].readers = worlds[v].readers + 1]
    BY <1>5 DEF RLock
  <2> QED BY <1>3, <2>1, <2>2
<1>6. CASE RUnlock(v)
  <2>1. CASE worlds[v].readers > 0
    <3>1. worlds[v].readers - 1 \in Nat
      BY <2>1, OneWorld
    <3>2. worlds' = [worlds EXCEPT ![v].readers = worlds[v].readers - 1]
      BY <1>6, <2>1 DEF RUnlock
    <3> QED BY <1>3, <3>1, <3>2
  <2>2. CASE ~ worlds[v].readers > 0
    BY <1>1, <1>6, <2>2 DEF RUnlock
  <2> QED BY <2>1, <2>2
<1> QED BY <1>4, <1>5, <1>6

\* A lock of World v is taken or given back.
LEMMA LockMoves ==
  ASSUME IInv, NEW p \in Procs, NEW t, Continue(p, t), Shape(t, Len(worlds)),
         NEW v \in DOMAIN worlds, Lock(v) \/ Unlock(v) \/ RLock(v) \/ RUnlock(v),
         UNCHANGED <<world, last, turns, requests, configMu, posted>>,
         Configuring(t) => Configuring(task[p]),
         AtOrBefore(t, {"update"}) => t.config.grid = posted.grid,
         LocksHeld'
  PROVE  IInv'
<1>1. Types /\ Shapes /\ OneConfigures /\ Posted /\ LocksHeld
  BY DEF IInv
<1>2. /\ worlds' \in Seq(Worlds) /\ Len(worlds') = Len(worlds)
      /\ \A w \in DOMAIN worlds : /\ worlds'[w].config = worlds[w].config
                                  /\ worlds'[w].made = worlds[w].made
  BY <1>1, LockChanges DEF SameButLock
<1>3. Shapes' /\ DOMAIN task' = Procs
  BY <1>1, <1>2, ShapesMove, OneWorld
<1>4. Types'
  BY <1>1, <1>2, <1>3 DEF Types
<1>5. OneConfigures'
  BY <1>1, ConfiguringMoves
<1>6. Posted'
  BY <1>1, <1>2, PostedStays, OneWorld
<1> QED BY <1>3, <1>4, <1>5, <1>6 DEF IInv

LEMMA EnterKeeps == ASSUME IInv, NEW p \in Procs, Enter(p) PROVE IInv'
<1> DEFINE t == [task[p] EXCEPT !.at = task[p].body]
           v == task[p].w
<1>1. Types /\ Shapes /\ Posted /\ LocksHeld /\ Shape(task[p], Len(worlds)) /\ Continue(p, t)
  BY DEF IInv, Enter, GoTo, Shapes
<1>2. /\ task[p].at \in {"lock", "rlock"}
      /\ task[p].at = "lock" => Lock(v)
      /\ task[p].at = "rlock" => RLock(v)
  BY DEF Enter, At
<1>3. /\ DOMAIN t = DOMAIN task[p] /\ t.at = task[p].body
      /\ \A f \in DOMAIN task[p] : f # "at" => t[f] = task[p][f]
  BY <1>1, GoesTo
<1> HIDE DEF t
<1>4. /\ {"at", "w", "body", "next"} \subseteq DOMAIN t
      /\ t.w = v /\ t.next = task[p].next
      /\ IsSection(task[p].at, t.at, t.next) /\ v \in 1..Len(worlds)
  BY <1>1, <1>2, <1>3 DEF Shape, InSection, KnowsWorld
<1>5. v \in DOMAIN worlds
  BY <1>1, <1>4, OneWorld
<1>6. t.at \in Bodies \cup {"speed", "read", "write"}
  BY <1>4 DEF IsSection, WriteSection, Bodies
<1>7. /\ AtOrBefore(t, {"update"}) => AtOrBefore(task[p], {"update"})
      /\ AtOrBefore(t, {"set speed", "restore"}) => AtOrBefore(task[p], {"set speed", "restore"})
      /\ Configuring(t) => Configuring(task[p])
  BY <1>3, <1>4, <1>6 DEF AtOrBefore, Configuring, IsSection, WriteSection, Bodies
<1>8. Shape(t, Len(worlds))
  <2>1. t.at \in Points
    BY <1>6 DEF Points, Bodies
  <2>2. InSection(t) /\ KnowsWorld(t, Len(worlds))
    BY <1>4, <1>6 DEF InSection, KnowsWorld, IsSection, Bodies, WriteSection
  <2>3. HasConfig(t) /\ HasSpeed(t)
    BY <1>1, <1>3, <1>6, <1>7 DEF Shape, HasConfig, HasSpeed, Bodies
  <2> QED BY <1>4, <2>1, <2>2, <2>3 DEF Shape
<1>9. AtOrBefore(t, {"update"}) => t.config.grid = posted.grid
  BY <1>1, <1>3, <1>7 DEF Posted, Shape, HasConfig
<1>10. UNCHANGED <<world, last, turns, requests, configMu, posted, crashed, crossed>>
  BY DEF Enter, bounds, history
<1>11. WaitsRightly(t)
  BY <1>6 DEF WaitsRightly, Bodies
<1>12. ~ crossed => t.at \in {"read", "write"} \/ v = world
  BY <1>1, <1>2, <1>3 DEF LocksHeld, Locks, WaitsRightly
<1>13. \A w : ~ Writes(task[p], w) /\ ~ Reads(task[p], w)
  BY <1>2 DEF Writes, Reads, Bodies
<1>14. CASE task[p].at = "lock"
  <2>1. ~ crossed => \A w \in DOMAIN worlds : (Writes(t, w) <=> w = v) /\ ~ Reads(t, w)
    BY <1>4, <1>12, <1>14 DEF IsSection, WriteSection, Writes, Reads, Bodies
  <2>2. LocksHeld'
    BY <1>1, <1>2, <1>5, <1>10, <1>11, <1>13, <1>14, <2>1, WriteLockTaken
  <2> QED BY <1>1, <1>2, <1>5, <1>7, <1>8, <1>9, <1>10, <1>14, <2>2, LockMoves
<1>15. CASE task[p].at = "rlock"
  <2>1. ~ crossed => \A w \in DOMAIN worlds : (Reads(t, w) <=> w = v) /\ ~ Writes(t, w)
    BY <1>4, <1>12, <1>15 DEF IsSection, WriteSection, Writes, Reads, Bodies
  <2>2. LocksHeld'
    BY <1>1, <1>2, <1>5, <1>10, <1>11, <1>13, <1>15, <2>1, ReadLockTaken
  <2> QED BY <1>1, <1>2, <1>5, <1>7, <1>8, <1>9, <1>10, <1>15, <2>2, LockMoves
<1> QED BY <1>2, <1>14, <1>15

LEMMA LeaveKeeps == ASSUME IInv, NEW p \in Procs, Leave(p) PROVE IInv'
<1> DEFINE t == [task[p] EXCEPT !.at = task[p].next]
<1>1. Types /\ Shapes /\ LocksHeld /\ Shape(task[p], Len(worlds)) /\ Continue(p, t)
  BY DEF IInv, Leave, GoTo, Shapes
<1>2. /\ task[p].at \in {"unlock", "runlock"}
      /\ task[p].at = "unlock" => Unlock(world)
      /\ task[p].at = "runlock" => RUnlock(world)
  BY DEF Leave, At
<1>3. "at" \in DOMAIN t /\ t.at = task[p].next
  BY <1>1, GoesTo DEF Shape
<1> HIDE DEF t
<1>4. /\ Plain(t.at)
      /\ task[p].at = "unlock" => t.at \in {"restart", "done", "answer"}
      /\ task[p].at = "runlock" => t.at \in {"run", "ran"}
  BY <1>1, <1>2, <1>3 DEF Shape, InSection, Plain
<1>5. /\ Shape(t, Len(worlds)) /\ ~ AtOrBefore(t, {"update"}) /\ WaitsRightly(t)
      /\ \A w : ~ Writes(t, w) /\ ~ Reads(t, w)
  BY <1>3, <1>4, PlainPoint
<1>6. Configuring(t) => Configuring(task[p])
  BY <1>2, <1>3, <1>4 DEF Configuring, AtOrBefore
<1>7. UNCHANGED <<world, last, turns, requests, configMu, posted, crossed>>
  BY DEF Leave, bounds, history
<1>8. world \in DOMAIN worlds
  BY <1>1, OneWorld
<1>9. CASE task[p].at = "unlock"
  <2>1. \A w : (Writes(task[p], w) <=> w = world) /\ ~ Reads(task[p], w)
    BY <1>9 DEF Writes, Reads, Bodies
  <2>2. LocksHeld'
    BY <1>1, <1>2, <1>5, <1>7, <1>8, <1>9, <2>1, WriteLockGiven
  <2> QED BY <1>1, <1>2, <1>5, <1>6, <1>7, <1>8, <1>9, <2>2, LockMoves
<1>10. CASE task[p].at = "runlock"
  <2>1. \A w : (Reads(task[p], w) <=> w = world) /\ ~ Writes(task[p], w)
    BY <1>10 DEF Writes, Reads, Bodies
  <2>2. LocksHeld'
    BY <1>1, <1>2, <1>5, <1>7, <1>8, <1>10, <2>1, ReadLockGiven
  <2> QED BY <1>1, <1>2, <1>5, <1>6, <1>7, <1>8, <1>10, <2>2, LockMoves
<1> QED BY <1>2, <1>9, <1>10

LEMMA IdlePoint ==
  /\ Shape(Idle, Len(worlds)) /\ ~ AtOrBefore(Idle, {"update"}) /\ WaitsRightly(Idle)
  /\ ~ Configuring(Idle)
  /\ \A w : ~ Writes(Idle, w) /\ ~ Reads(Idle, w)
<1>1. "at" \in DOMAIN Idle /\ Idle.at = "idle"
  BY DEF Idle
<1>2. ~ Configuring(Idle)
  BY <1>1 DEF Configuring, AtOrBefore
<1> QED BY <1>1, <1>2, PlainPoint DEF Plain

LEMMA MethodReturnsKeeps == ASSUME IInv, NEW h \in Handlers, MethodReturns(h) PROVE IInv'
<1> DEFINE v == task[h].w
<1>1. /\ Types /\ Shapes /\ LocksHeld /\ Shape(task[h], Len(worlds)) /\ Continue(h, Idle)
      /\ h \in Procs
  BY DEF IInv, MethodReturns, Return, Shapes, Procs
<1>2. /\ task[h].at \in {"read", "write"}
      /\ task[h].at = "read" => RUnlock(v)
      /\ task[h].at = "write" => Unlock(v)
  BY DEF MethodReturns, At
<1>3. v \in DOMAIN worlds
  BY <1>1, <1>2, OneWorld DEF Shape, KnowsWorld
<1>4. UNCHANGED <<world, last, turns, requests, configMu, posted, crossed>>
  BY DEF MethodReturns, bounds, history
<1>5. CASE task[h].at = "write"
  <2>1. \A w : (Writes(task[h], w) <=> w = v) /\ ~ Reads(task[h], w)
    BY <1>5 DEF Writes, Reads, Bodies
  <2>2. LocksHeld'
    BY <1>1, <1>2, <1>3, <1>4, <1>5, <2>1, IdlePoint, WriteLockGiven
  <2> QED BY <1>1, <1>2, <1>3, <1>4, <1>5, <2>2, IdlePoint, LockMoves
<1>6. CASE task[h].at = "read"
  <2>1. \A w : (Reads(task[h], w) <=> w = v) /\ ~ Writes(task[h], w)
    BY <1>6 DEF Writes, Reads, Bodies
  <2>2. LocksHeld'
    BY <1>1, <1>2, <1>3, <1>4, <1>6, <2>1, IdlePoint, ReadLockGiven
  <2> QED BY <1>1, <1>2, <1>3, <1>4, <1>6, <2>2, IdlePoint, LockMoves
<1> QED BY <1>2, <1>5, <1>6

\* SetSpeed and Restore.
LEMMA SpeedSet ==
  ASSUME IInv, NEW h \in Handlers, task[h].at \in {"set speed", "restore"},
         worlds' = [worlds EXCEPT ![world].speed = task[h].speed], GoTo(h, "unlock"),
         UNCHANGED <<world, last, turns, requests, configMu, posted, crashed, crossed>>
  PROVE  IInv'
<1> DEFINE t == [task[h] EXCEPT !.at = "unlock"]
           x == [worlds[world] EXCEPT !.speed = task[h].speed]
<1>1. /\ Types /\ Shapes /\ Shape(task[h], Len(worlds)) /\ h \in Procs
      /\ Continue(h, t)
  BY DEF IInv, Procs, GoTo, Shapes
<1>2. /\ "at" \in DOMAIN t /\ "next" \in DOMAIN t
      /\ t.at = "unlock" /\ t.next = task[h].next
      /\ WriteSection(task[h].at, task[h].next)
  BY <1>1, GoesTo DEF Shape, InSection, Bodies
<1>3. /\ worlds' = [worlds EXCEPT ![world] = x] /\ x \in Worlds
      /\ x.writing = worlds[world].writing /\ x.readers = worlds[world].readers
      /\ x.config = worlds[world].config /\ x.made = worlds[world].made
  <2>1. task[h].speed \in Nat
    BY <1>1 DEF Shape, HasSpeed, AtOrBefore
  <2> QED BY <1>1, <2>1, OneWorld DEF Worlds
<1> HIDE DEF t, x
<1>4. Shape(t, Len(worlds))
  BY <1>2 DEF Shape, Points, InSection, KnowsWorld, HasConfig, HasSpeed, AtOrBefore, Bodies,
       WriteSection
<1>5. ~ AtOrBefore(t, {"update"}) /\ WaitsRightly(t)
  BY <1>2 DEF AtOrBefore, WaitsRightly
<1>6. Configuring(t) => Configuring(task[h])
  BY <1>2 DEF Configuring, AtOrBefore, WriteSection
<1>7. SameLocks(t, task[h])
  BY <1>1, <1>2 DEF SameLocks, Writes, Reads, Bodies
<1> QED BY <1>1, <1>3, <1>4, <1>5, <1>6, <1>7, BodyMoves

LEMMA SetSpeedKeeps == ASSUME IInv, NEW h \in Handlers, SetSpeed(h) PROVE IInv'
BY SpeedSet DEF SetSpeed, At, bounds

LEMMA RestoreKeeps == ASSUME IInv, NEW h \in Handlers, Restore(h) PROVE IInv'
BY SpeedSet DEF Restore, At, bounds, history, Restored

LEMMA RespondKeeps == ASSUME IInv, NEW h \in Handlers, Respond(h) PROVE IInv'
<1>1. Types /\ h \in Procs /\ Continue(h, Idle)
  BY DEF IInv, Respond, Procs, Return
<1>2. /\ UNCHANGED <<world, worlds, configMu, posted, crashed, crossed>>
      /\ last' \in Nat /\ turns' \in 0..MaxTurns /\ requests' \in 0..MaxRequests
  BY <1>1 DEF Respond, Types, bounds, server, history
<1>3. SameLocks(Idle, task[h])
  BY IdlePoint DEF Respond, At, SameLocks, Writes, Reads, Bodies
<1> QED BY <1>1, <1>2, <1>3, IdlePoint, TaskMoves

-----------------------------------------------------------------------------
(* Requests. *)

LEMMA Requested ==
  ASSUME IInv, NEW h \in Handlers, NEW t, Request(h, t), Shape(t, Len(worlds)),
         ~ Configuring(t), WaitsRightly(t), t.at \in {"lock", "rlock", "config"}
  PROVE  IInv'
<1>1. Types /\ h \in Procs /\ Continue(h, t) /\ task[h].at = "idle"
  BY DEF IInv, Request, Procs, At
<1>2. /\ UNCHANGED <<world, worlds, configMu, posted, crashed, crossed>>
      /\ last' \in Nat /\ turns' \in 0..MaxTurns /\ requests' \in 0..MaxRequests
  BY <1>1, BoundsAssumption DEF Request, Types, server, history
<1>3. ~ AtOrBefore(t, {"update"})
  BY DEF Configuring, AtOrBefore
<1>4. SameLocks(t, task[h])
  BY <1>1 DEF SameLocks, Writes, Reads, Bodies
<1> QED BY <1>1, <1>2, <1>3, <1>4, TaskMoves

LEMMA AcceptKeeps == ASSUME IInv, NEW h \in Handlers, Accept(h) PROVE IInv'
<1>1. Types /\ world \in 1..Len(worlds)
  BY DEF IInv, Types
<1>2. ASSUME NEW v \in Speeds, PostSpeed(h, v) PROVE IInv'
  <2> DEFINE s == Section("lock", "set speed", "done")
             t == With(s, "speed", v)
  <2>1. /\ DOMAIN s = {"at", "w", "body", "next"}
        /\ s.at = "lock" /\ s.w = world /\ s.body = "set speed" /\ s.next = "done"
    BY DEF Section
  <2>2. Request(h, t)
    BY <1>2 DEF PostSpeed
  <2> HIDE DEF s
  <2>3. /\ {"at", "w", "body", "next", "speed"} \subseteq DOMAIN t /\ t.speed \in Nat
        /\ t.at = "lock" /\ t.w = world /\ t.body = "set speed" /\ t.next = "done"
    BY <2>1, SpeedsAssumption DEF With
  <2> HIDE DEF t
  <2>4. Shape(t, Len(worlds))
    BY <1>1, <2>3 DEF Shape, Points, InSection, IsSection, WriteSection, KnowsWorld,
         HasConfig, HasSpeed, AtOrBefore, Bodies
  <2>5. ~ Configuring(t) /\ WaitsRightly(t)
    BY <2>3 DEF Configuring, AtOrBefore, WaitsRightly
  <2> QED BY <2>2, <2>3, <2>4, <2>5, Requested
<1>3. ASSUME NEW lock, NEW body, CallMethod(h, lock, body),
             \/ lock = "rlock" /\ body = "read"
             \/ lock = "lock" /\ body = "write"
      PROVE  IInv'
  <2> DEFINE t == Section(lock, body, "done")
  <2>1. /\ DOMAIN t = {"at", "w", "body", "next"}
        /\ t.at = lock /\ t.w = world /\ t.body = body /\ t.next = "done"
    BY SectionFields
  <2>2. Request(h, t)
    BY <1>3 DEF CallMethod
  <2> HIDE DEF t
  <2>3. Shape(t, Len(worlds))
    BY <1>1, <1>3, <2>1 DEF Shape, Points, InSection, IsSection, WriteSection, KnowsWorld,
         HasConfig, HasSpeed, AtOrBefore, Bodies
  <2>4. ~ Configuring(t) /\ WaitsRightly(t)
    BY <1>3, <2>1 DEF Configuring, AtOrBefore, WaitsRightly
  <2> QED BY <1>3, <2>1, <2>2, <2>3, <2>4, Requested
<1>4. ASSUME NEW config \in Configs, NEW reset \in BOOLEAN, PostConfig(h, config, reset)
      PROVE  IInv'
  <2> DEFINE t == [at |-> "config", config |-> config, reset |-> reset]
  <2>1. DOMAIN t = {"at", "config", "reset"} /\ t.at = "config" /\ t.config = config
    OBVIOUS
  <2>2. Request(h, t)
    BY <1>4 DEF PostConfig
  <2> HIDE DEF t
  <2>3. Shape(t, Len(worlds))
    BY <2>1 DEF Shape, Points, InSection, KnowsWorld, HasConfig, HasSpeed, AtOrBefore, Bodies
  <2>4. ~ Configuring(t) /\ WaitsRightly(t)
    BY <2>1 DEF Configuring, AtOrBefore, WaitsRightly
  <2> QED BY <2>1, <2>2, <2>3, <2>4, Requested
<1>5. CallMethod(h, "rlock", "read") => IInv'
  BY <1>3
<1>6. CallMethod(h, "lock", "write") => IInv'
  BY <1>3
<1> QED BY <1>2, <1>4, <1>5, <1>6 DEF Accept

-----------------------------------------------------------------------------
(* handleConfig. *)

\* A point between configMu.Lock() and its unlock that has the request and no lock
\* of a World.
LEMMA ConfigPoint ==
  ASSUME NEW t, "at" \in DOMAIN t, t.at \in {"compare", "old speed"},
         "config" \in DOMAIN t, t.config \in Configs
  PROVE  /\ Shape(t, Len(worlds)) /\ ~ AtOrBefore(t, {"update"}) /\ WaitsRightly(t)
         /\ \A w : ~ Writes(t, w) /\ ~ Reads(t, w)
<1>1. ~ AtOrBefore(t, {"update"}) /\ WaitsRightly(t)
  BY DEF AtOrBefore, WaitsRightly
<1>2. \A w : ~ Writes(t, w) /\ ~ Reads(t, w)
  BY DEF Writes, Reads, Bodies
<1>3. Shape(t, Len(worlds))
  BY DEF Shape, Points, InSection, KnowsWorld, HasConfig, HasSpeed, AtOrBefore, Bodies
<1> QED BY <1>1, <1>2, <1>3

LEMMA LockConfigKeeps == ASSUME IInv, NEW h \in Handlers, LockConfig(h) PROVE IInv'
<1> SUFFICES ASSUME NEW point \in {"compare", "refuse"}, GoTo(h, point) PROVE IInv'
  BY DEF LockConfig
<1> DEFINE t == [task[h] EXCEPT !.at = point]
<1>1. /\ Types /\ Shapes /\ Posted /\ OneConfigures /\ LocksHeld
      /\ Shape(task[h], Len(worlds)) /\ h \in Procs /\ Continue(h, t)
      /\ task[h].at = "config"
  BY DEF IInv, Procs, GoTo, Shapes, LockConfig, At
<1>2. /\ "at" \in DOMAIN t /\ "config" \in DOMAIN t
      /\ t.at = point /\ t.config \in Configs
  BY <1>1, GoesTo DEF Shape, HasConfig
<1> HIDE DEF t
<1>3. /\ Shape(t, Len(worlds)) /\ ~ AtOrBefore(t, {"update"}) /\ WaitsRightly(t)
      /\ \A w : ~ Writes(t, w) /\ ~ Reads(t, w)
  BY <1>2, PlainPoint, ConfigPoint DEF Plain
<1>4. /\ UNCHANGED <<world, worlds, last, turns, requests, posted, crashed, crossed>>
      /\ ~ configMu /\ configMu'
  BY DEF LockConfig, CanConfigure, bounds, history
<1>5. \A q \in Procs : ~ Configuring(task[q]) /\ task'[q] = IF q = h THEN t ELSE task[q]
  BY <1>1, <1>4 DEF OneConfigures, Types, Continue
<1>6. OneConfigures'
  BY <1>4, <1>5 DEF OneConfigures
<1>7. Shapes' /\ DOMAIN task' = Procs
  BY <1>1, <1>3, <1>4, ShapesMove, OneWorld
<1>8. Types'
  BY <1>1, <1>4, <1>7 DEF Types
<1>9. Posted'
  BY <1>1, <1>3, <1>4, PostedStays
<1>10. SameLocks(t, task[h])
  BY <1>1, <1>3 DEF SameLocks, Writes, Reads, Bodies
<1>11. LocksHeld'
  BY <1>1, <1>3, <1>4, <1>10, NoLockMoves DEF LocksAlone
<1> QED BY <1>6, <1>7, <1>8, <1>9, <1>11 DEF IInv

LEMMA AnswerKeeps == ASSUME IInv, NEW h \in Handlers, Answer(h) PROVE IInv'
<1>1. /\ Types /\ Shapes /\ Posted /\ OneConfigures /\ LocksHeld
      /\ h \in Procs /\ Continue(h, Idle) /\ task[h].at \in {"refuse", "answer"}
  BY DEF IInv, Procs, Return, Answer, At
<1>2. UNCHANGED <<world, worlds, last, turns, requests, posted, crashed, crossed>>
  BY DEF Answer, bounds, history
<1>3. \A q \in Procs : q # h => ~ Configuring(task[q])
  BY <1>1 DEF OneConfigures, Configuring
<1>4. OneConfigures'
  BY <1>1, <1>3, IdlePoint DEF OneConfigures, Types, Continue
<1>5. Shapes' /\ DOMAIN task' = Procs
  BY <1>1, <1>2, IdlePoint, ShapesMove, OneWorld
<1>6. Types'
  BY <1>1, <1>2, <1>5 DEF Types
<1>7. Posted'
  BY <1>1, <1>2, IdlePoint, PostedStays
<1>8. SameLocks(Idle, task[h])
  BY <1>1, IdlePoint DEF SameLocks, Writes, Reads, Bodies
<1>9. LocksHeld'
  BY <1>1, <1>2, <1>8, IdlePoint, NoLockMoves DEF LocksAlone
<1> QED BY <1>4, <1>5, <1>6, <1>7, <1>9 DEF IInv

LEMMA CompareKeeps == ASSUME IInv, NEW h \in Handlers, Compare(h) PROVE IInv'
<1>1. /\ Types /\ Shapes /\ Posted /\ world \in 1..Len(worlds)
      /\ Shape(task[h], Len(worlds)) /\ h \in Procs /\ task[h].at = "compare"
      /\ task[h].config \in Configs /\ "config" \in DOMAIN task[h]
  BY DEF IInv, Procs, Shapes, Compare, At, Types, Shape, HasConfig
<1>2. Configuring(task[h]) /\ \A w : ~ Writes(task[h], w) /\ ~ Reads(task[h], w)
  BY <1>1 DEF Configuring, Writes, Reads, Bodies
<1>3. /\ UNCHANGED <<world, worlds, configMu, posted, crashed, crossed>>
      /\ last' \in Nat /\ turns' \in 0..MaxTurns /\ requests' \in 0..MaxRequests
  BY <1>1 DEF Compare, Types, bounds, server, history
<1>4. CASE GoTo(h, "old speed")
  <2> DEFINE t == [task[h] EXCEPT !.at = "old speed"]
  <2>1. Continue(h, t)
    BY <1>4 DEF GoTo
  <2>2. /\ "at" \in DOMAIN t /\ "config" \in DOMAIN t
        /\ t.at = "old speed" /\ t.config \in Configs
    BY <1>1, GoesTo DEF Shape
  <2> HIDE DEF t
  <2>3. /\ Shape(t, Len(worlds)) /\ ~ AtOrBefore(t, {"update"}) /\ WaitsRightly(t)
        /\ \A w : ~ Writes(t, w) /\ ~ Reads(t, w)
    BY <2>2, ConfigPoint
  <2> QED BY <1>1, <1>2, <1>3, <2>1, <2>3, TaskMoves DEF SameLocks
<1>5. CASE /\ task[h].config.grid = worlds[world].config.grid
           /\ Continue(h, With(Section("lock", "update", "answer"), "config", task[h].config))
  <2> DEFINE s == Section("lock", "update", "answer")
             t == With(s, "config", task[h].config)
  <2>1. Continue(h, t)
    BY <1>5
  <2>2. /\ DOMAIN s = {"at", "w", "body", "next"}
        /\ s.at = "lock" /\ s.w = world /\ s.body = "update" /\ s.next = "answer"
    BY DEF Section
  <2> HIDE DEF s
  <2>3. /\ {"at", "w", "body", "next", "config"} \subseteq DOMAIN t
        /\ t.config = task[h].config
        /\ t.at = "lock" /\ t.w = world /\ t.body = "update" /\ t.next = "answer"
    BY <2>2 DEF With
  <2> HIDE DEF t
  <2>4. Shape(t, Len(worlds))
    BY <1>1, <2>3 DEF Shape, Points, InSection, IsSection, WriteSection, KnowsWorld,
         HasConfig, HasSpeed, AtOrBefore, Bodies
  <2>5. WaitsRightly(t) /\ \A w : ~ Writes(t, w) /\ ~ Reads(t, w)
    BY <2>3 DEF WaitsRightly, Writes, Reads, Bodies
  <2>6. t.config.grid = posted.grid
    BY <1>1, <1>5, <2>3, KnownIsMixed DEF Posted, Types
  <2> QED BY <1>1, <1>2, <1>3, <2>1, <2>4, <2>5, <2>6, TaskMoves DEF SameLocks
<1> QED BY <1>4, <1>5 DEF Compare

LEMMA OldSpeedKeeps == ASSUME IInv, NEW h \in Handlers, OldSpeed(h) PROVE IInv'
<1> DEFINE t == [at |-> "exchange", config |-> task[h].config, speed |-> worlds[world].speed]
<1>1. /\ Types /\ Shapes /\ h \in Procs /\ task[h].at = "old speed" /\ Continue(h, t)
      /\ task[h].config \in Configs
  BY DEF IInv, Procs, Shapes, OldSpeed, At, Shape, HasConfig
<1>2. /\ DOMAIN t = {"at", "config", "speed"} /\ t.at = "exchange"
      /\ t.config \in Configs /\ t.speed \in Nat
  BY <1>1, OneWorld
<1> HIDE DEF t
<1>3. Shape(t, Len(worlds))
  BY <1>2 DEF Shape, Points, InSection, KnowsWorld, HasConfig, HasSpeed, AtOrBefore, Bodies
<1>4. /\ UNCHANGED <<world, worlds, configMu, posted, crashed, crossed>>
      /\ last' \in Nat /\ turns' \in 0..MaxTurns /\ requests' \in 0..MaxRequests
  BY <1>1 DEF OldSpeed, Types, bounds, server, history
<1>5. Configuring(task[h]) /\ ~ AtOrBefore(t, {"update"}) /\ WaitsRightly(t)
  BY <1>1, <1>2 DEF Configuring, AtOrBefore, WaitsRightly
<1>6. SameLocks(t, task[h])
  BY <1>1, <1>2 DEF SameLocks, Writes, Reads, Bodies
<1> QED BY <1>1, <1>3, <1>4, <1>5, <1>6, TaskMoves

\* Only the rates are taken over, where the grid is the same.
LEMMA UpdateKeeps == ASSUME IInv, NEW h \in Handlers, Update(h) PROVE IInv'
<1> DEFINE t == [task[h] EXCEPT !.at = "unlock"]
           c == [worlds[world].config EXCEPT !.rates = task[h].config.rates]
           x == [worlds[world] EXCEPT !.config = c]
<1>1. /\ Types /\ Shapes /\ Posted /\ OneConfigures /\ LocksHeld
      /\ Shape(task[h], Len(worlds)) /\ h \in Procs /\ task[h].at = "update"
      /\ Continue(h, t) /\ Configuring(task[h])
  BY DEF IInv, Procs, GoTo, Shapes, Update, At, Configuring, AtOrBefore
<1>2. /\ "at" \in DOMAIN t /\ "next" \in DOMAIN t /\ t.at = "unlock" /\ t.next = "answer"
  BY <1>1, GoesTo DEF Shape, InSection, WriteSection, Bodies
<1>3. /\ task[h].config \in Known /\ task[h].config.grid = posted.grid
      /\ posted \in Known
  BY <1>1 DEF Shape, HasConfig, AtOrBefore, Posted, Known, Types
<1>4. /\ c = [task[h].config EXCEPT !.fixed = worlds[world].made.fixed]
      /\ c \in Mixed
  <2> DEFINE f == worlds[world].made.fixed
             new == task[h].config
             old == worlds[world].config
  <2>1. /\ old = [posted EXCEPT !.fixed = f] /\ f \in {d.fixed : d \in Known}
        /\ posted \in Mixed /\ new \in Mixed
    BY <1>1, <1>3, OneWorld, KnownIsMixed DEF Posted
  <2>2. c = [old EXCEPT !.rates = new.rates] /\ posted.grid = new.grid
    BY <1>3
  <2> HIDE DEF c, f, new, old
  <2>3. old = [grid |-> posted.grid, rates |-> posted.rates, fixed |-> f]
    BY <2>1, MixedByFields
  <2>4. c = [grid |-> new.grid, rates |-> new.rates, fixed |-> f]
    BY <2>2, <2>3
  <2>5. /\ [new EXCEPT !.fixed = f] = [grid |-> new.grid, rates |-> new.rates, fixed |-> f]
        /\ [new EXCEPT !.fixed = f] \in Mixed
    BY <2>1, MixedByFields
  <2>6. c = [new EXCEPT !.fixed = f] /\ c \in Mixed
    BY <2>4, <2>5
  <2> QED BY <2>6 DEF new, f
<1>5. worlds' = [worlds EXCEPT ![world] = x] /\ world \in DOMAIN worlds
  BY <1>1, OneWorld DEF Update
<1>6. /\ x \in Worlds /\ x.made = worlds[world].made
      /\ x.config = [task[h].config EXCEPT !.fixed = x.made.fixed]
      /\ x.writing = worlds[world].writing /\ x.readers = worlds[world].readers
  <2> HIDE DEF c
  <2> QED BY <1>1, <1>4, OneWorld DEF Worlds
<1> HIDE DEF t, x, c
<1>7. /\ worlds' \in Seq(Worlds) /\ Len(worlds') = Len(worlds)
      /\ DOMAIN worlds' = DOMAIN worlds
      /\ \A w \in DOMAIN worlds : worlds'[w] = IF w = world THEN x ELSE worlds[w]
  BY <1>1, <1>5, <1>6, WorldChanges
<1>8. /\ UNCHANGED <<world, last, turns, requests, configMu, crashed, crossed>>
      /\ posted' = task[h].config
  BY DEF Update, bounds
<1>9. Shape(t, Len(worlds))
  BY <1>2 DEF Shape, Points, InSection, KnowsWorld, HasConfig, HasSpeed, AtOrBefore, Bodies
<1>10. ~ AtOrBefore(t, {"update"}) /\ WaitsRightly(t) /\ SameLocks(t, task[h])
  BY <1>1, <1>2 DEF AtOrBefore, WaitsRightly, SameLocks, Writes, Reads, Bodies
<1>11. Shapes' /\ DOMAIN task' = Procs
  BY <1>1, <1>7, <1>9, ShapesMove, OneWorld
<1>12. Types'
  BY <1>1, <1>3, <1>7, <1>8, <1>11 DEF Types
<1>13. OneConfigures'
  BY <1>1, <1>8, ConfiguringMoves
<1>14. \A q \in Procs : ~ AtOrBefore(task'[q], {"update"})
  <2>1. \A q \in Procs : AtOrBefore(task[q], {"update"}) => Configuring(task[q])
    BY DEF AtOrBefore, Configuring
  <2> QED BY <1>1, <1>10, <2>1 DEF OneConfigures, Types, Continue
<1>15. Posted'
  BY <1>5, <1>6, <1>7, <1>8, <1>14 DEF Posted
<1>16. LocksHeld'
  BY <1>1, <1>7, <1>6, <1>8, <1>10, NoLockMoves DEF LocksAlone
<1> QED BY <1>11, <1>12, <1>13, <1>15, <1>16 DEF IInv

\* Nobody has a lock of the new World; if nobody was between two reads of the
\* variable, those who have one of an older World will give back the same.
LEMMA ExchangeKeeps == ASSUME IInv, NEW h \in Handlers, Exchange(h) PROVE IInv'
<1> DEFINE s == [Section("lock", "restore", "answer") EXCEPT !.w = world']
           t == With(s, "speed", task[h].speed)
           x == NewWorld(task[h].config)
           n == Len(worlds) + 1
<1>1. /\ Types /\ Shapes /\ Posted /\ OneConfigures /\ LocksHeld
      /\ Shape(task[h], Len(worlds)) /\ h \in Procs /\ task[h].at = "exchange"
      /\ Continue(h, t) /\ Configuring(task[h])
  BY DEF IInv, Procs, Shapes, Exchange, At, Configuring
<1>2. task[h].config \in Configs /\ task[h].speed \in Nat
  BY <1>1 DEF Shape, HasConfig, HasSpeed
<1>3. worlds' = Append(worlds, x) /\ world' = n
  BY DEF Exchange
<1>4. /\ UNCHANGED <<last, turns, requests, configMu, crashed>>
      /\ posted' = task[h].config
      /\ crossed' = (crossed \/ Between # {})
  BY DEF Exchange, bounds
<1>5. /\ x \in Worlds /\ x.config = [task[h].config EXCEPT !.fixed = x.made.fixed]
      /\ x.writing = FALSE /\ x.readers = 0 /\ task[h].config \in Known
  <2>1. task[h].config \in Known /\ task[h].config \in Mixed
    BY <1>2, KnownIsMixed DEF Known
  <2>2. /\ x \in Worlds /\ x.config = task[h].config /\ x.made = task[h].config
        /\ x.writing = FALSE /\ x.readers = 0
    BY <2>1 DEF NewWorld, Worlds
  <2> QED BY <2>1, <2>2, KnownIsMixed
<1>6. /\ DOMAIN s = {"at", "w", "body", "next"}
      /\ s.at = "lock" /\ s.w = n /\ s.body = "restore" /\ s.next = "answer"
  BY <1>3 DEF Section
<1> HIDE DEF s, x
<1>7. /\ {"at", "w", "body", "next", "speed"} \subseteq DOMAIN t /\ t.speed \in Nat
      /\ t.at = "lock" /\ t.w = n /\ t.body = "restore" /\ t.next = "answer"
  BY <1>2, <1>6 DEF With
<1> HIDE DEF t
<1>8. /\ Len(worlds) \in Nat /\ DOMAIN worlds = 1..Len(worlds)
      /\ \A w \in DOMAIN worlds : worlds[w] \in Worlds
  BY <1>1, OneWorld
<1>9. /\ worlds' \in Seq(Worlds) /\ Len(worlds') = n /\ worlds'[n] = x
      /\ \A w \in DOMAIN worlds : worlds'[w] = worlds[w]
      /\ DOMAIN worlds' = DOMAIN worlds \cup {n}
  BY <1>1, <1>3, <1>5, <1>8 DEF Types
<1>10. Shape(t, n)
  BY <1>7, <1>8 DEF Shape, Points, InSection, IsSection, WriteSection, KnowsWorld, HasConfig,
       HasSpeed, AtOrBefore, Bodies
<1>11. Shapes' /\ DOMAIN task' = Procs
  BY <1>1, <1>8, <1>9, <1>10, ShapesMove
<1>12. Types'
  BY <1>1, <1>3, <1>4, <1>5, <1>8, <1>9, <1>11 DEF Types
<1>13. OneConfigures'
  BY <1>1, <1>4, ConfiguringMoves
<1>14. \A q \in Procs : task'[q] = IF q = h THEN t ELSE task[q]
  BY <1>1 DEF Types, Continue
<1>15. \A q \in Procs : ~ AtOrBefore(task'[q], {"update"})
  <2>1. \A q \in Procs : AtOrBefore(task[q], {"update"}) => Configuring(task[q])
    BY DEF AtOrBefore, Configuring
  <2>2. ~ AtOrBefore(t, {"update"})
    BY <1>7 DEF AtOrBefore
  <2> QED BY <1>1, <1>14, <2>1, <2>2 DEF OneConfigures, AtOrBefore
<1>16. Posted'
  BY <1>3, <1>4, <1>5, <1>9, <1>15 DEF Posted
<1>17. ASSUME ~ crossed' PROVE Locks'
  <2>1. Locks /\ Between = {}
    BY <1>1, <1>4, <1>17 DEF LocksHeld
  <2>2. \A q \in Procs : task[q].at \notin Bodies \cup {"unlock", "speed", "runlock"}
    <3>1. \A q \in Procs : task[q].at \notin {"restore", "update"}
      BY <1>1 DEF OneConfigures, Configuring, AtOrBefore
    <3>2. \A q \in Procs : task[q].at \notin {"speed", "runlock", "measure", "set speed", "unlock"}
      BY <2>1 DEF Between
    <3> QED BY <3>1, <3>2 DEF Bodies
  <2>3. \A q \in Procs : WaitsRightly(task[q])'
    BY <1>3, <1>7, <1>14, <2>1 DEF WaitsRightly, Between
  <2>4. \A q \in Procs, w \in DOMAIN worlds' :
          /\ Writes(task[q], w)' <=> Writes(task[q], w) /\ w \in DOMAIN worlds
          /\ Reads(task[q], w)' <=> Reads(task[q], w) /\ w \in DOMAIN worlds
    <3> SUFFICES ASSUME NEW q \in Procs, NEW w \in DOMAIN worlds'
                 PROVE  /\ Writes(task[q], w)' <=> Writes(task[q], w) /\ w \in DOMAIN worlds
                        /\ Reads(task[q], w)' <=> Reads(task[q], w) /\ w \in DOMAIN worlds
      OBVIOUS
    <3>1. CASE q = h
      BY <1>1, <1>7, <1>14, <3>1 DEF Writes, Reads, Bodies
    <3>2. CASE q # h
      <4>1. task'[q] = task[q]
        BY <1>14, <3>2
      <4>2. task[q].at \in {"read", "write"} => task[q].w \in DOMAIN worlds
        BY <1>1, <1>8 DEF Shapes, Shape, KnowsWorld
      <4> QED BY <2>2, <4>1, <4>2 DEF Writes, Reads
    <3> QED BY <3>1, <3>2
  <2>5. OneWriter'
    BY <1>9, <2>1, <2>4 DEF Locks, OneWriter
  <2>6. \A w \in DOMAIN worlds : Readers(w)' = Readers(w)
    BY <1>9, <2>4 DEF Readers
  <2>7. \A w \in DOMAIN worlds' : w \notin DOMAIN worlds => Readers(w)' = {}
    BY <2>4 DEF Readers
  <2>8. ReadersCounted'
    <3> SUFFICES ASSUME NEW w \in DOMAIN worlds'
                 PROVE  /\ IsFiniteSet(Readers(w)')
                        /\ worlds'[w].readers = Cardinality(Readers(w)')
      BY DEF ReadersCounted
    <3>1. CASE w \in DOMAIN worlds
      BY <1>9, <2>1, <2>6, <3>1 DEF Locks, ReadersCounted
    <3>2. CASE w \notin DOMAIN worlds
      BY <1>5, <1>9, <2>7, <3>2, FS_EmptySet
    <3> QED BY <3>1, <3>2
  <2> QED BY <1>4, <2>1, <2>3, <2>5, <2>8 DEF Locks
<1> QED BY <1>11, <1>12, <1>13, <1>16, <1>17 DEF IInv, LocksHeld

-----------------------------------------------------------------------------
LEMMA StepKeeps == IInv /\ [Step]_vars => IInv'
<1> SUFFICES ASSUME IInv, [Step]_vars PROVE IInv'
  OBVIOUS
<1>1. CASE Ticker
  <2>1. "ticker" \in Procs
    BY DEF Procs
  <2> QED BY <1>1, <2>1, TurnKeeps, EnterKeeps, ReadSpeedKeeps, LeaveKeeps, RunStepsKeeps,
             EndTurnKeeps, MeasureKeeps, RestartKeeps DEF Ticker
<1>2. ASSUME NEW h \in Handlers, Accept(h) PROVE IInv'
  BY <1>2, AcceptKeeps
<1>3. ASSUME NEW h \in Handlers, Serve(h) PROVE IInv'
  <2>1. h \in Procs
    BY DEF Procs
  <2> QED BY <1>3, <2>1, EnterKeeps, LeaveKeeps, SetSpeedKeeps, MethodReturnsKeeps,
             RespondKeeps, LockConfigKeeps, CompareKeeps, OldSpeedKeeps, ExchangeKeeps,
             RestoreKeeps, UpdateKeeps, AnswerKeeps DEF Serve
<1>4. CASE UNCHANGED vars
  <2>1. UNCHANGED <<world, worlds, configMu, last, task, crashed, turns, requests,
                    posted, crossed>>
    BY <1>4 DEF vars, server, history, bounds
  <2>2. (Types /\ Shapes /\ OneConfigures /\ Posted)'
    BY <2>1 DEF IInv, Types, Shapes, OneConfigures, Posted
  <2>3. OneWriter' <=> OneWriter
    BY <2>1 DEF OneWriter, Writes
  <2>4. ReadersCounted' <=> ReadersCounted
    BY <2>1 DEF ReadersCounted, Readers, Reads
  <2>5. LocksHeld'
    BY <2>1, <2>3, <2>4 DEF IInv, LocksHeld, Locks, WaitsRightly
  <2> QED BY <2>2, <2>5 DEF IInv
<1> QED BY <1>1, <1>2, <1>3, <1>4 DEF Step

LEMMA Invariant == Spec => []IInv
<1> QED BY InitIInv, StepKeeps, PTL DEF Spec

\* handleConfig, handleSpeed, the ticker and the methods of World: whatever they
\* do at the same time, nobody unlocks a mutex that is not locked, unless the
\* World was exchanged between two reads of the variable.
THEOREM NoStrayUnlock == Spec => []CrashNeedsExchange
<1>1. IInv => CrashNeedsExchange
  <2> SUFFICES ASSUME IInv PROVE TypeOK /\ (crashed => crossed)
    BY DEF CrashNeedsExchange
  <2>1. TypeOK
    BY OneWorld DEF IInv, Types, TypeOK
  <2>2. crashed => crossed
    BY DEF IInv, LocksHeld, Locks
  <2> QED BY <2>1, <2>2
<1> QED BY <1>1, Invariant, PTL

\* handleConfig: the World of the variable has the grid and the rates posted last,
\* for updates and exchanges in any order, and all else as when it was made.
THEOREM PostedIsInForce == Spec => []ConfigInForce
<1>1. IInv => ConfigInForce
  BY DEF IInv, Posted, ConfigInForce
<1> QED BY <1>1, Invariant, PTL

-----------------------------------------------------------------------------
(* The speed set last, and the ticks since the last measurement. *)

\* Handlers that have read the old World's speed keep it, unless another was set;
\* the World of the variable has it, or one of them is to set it.
Restoring(t) == AtOrBefore(t, {"restore"})
Carries(t) == t.at = "exchange" \/ Restoring(t)

SpeedsAgree ==
  /\ \A p \in Procs : Carries(task[p]) => p \in Handlers
  /\ ~ overtaken =>
       /\ worlds[world].speed = wanted \/ \E h \in Handlers : Restoring(task[h])
       /\ \A h \in Handlers : Carries(task[h]) => task[h].speed = wanted

TicksCounted == ran \in Int /\ (~ exchanged => worlds[world].ticks = last + ran)

Settings == SpeedsAgree /\ TicksCounted

\* Steps that measure nothing, run nothing and set nothing.
Quiet == /\ UNCHANGED <<world, last, ran, exchanged, wanted, overtaken>>
         /\ DOMAIN worlds \subseteq DOMAIN worlds'
         /\ \A w \in DOMAIN worlds : /\ worlds'[w].speed = worlds[w].speed
                                     /\ worlds'[w].ticks = worlds[w].ticks
                                     /\ worlds'[w].tps = worlds[w].tps

LEMMA QuietKeeps ==
  ASSUME IInv, Settings, Quiet, NEW p \in Procs, NEW t, Continue(p, t),
         Restoring(task[p]) => Restoring(t),
         Carries(t) => p \in Handlers /\ (~ overtaken => t.speed = wanted)
  PROVE  Settings'
<1>1. /\ world \in DOMAIN worlds /\ DOMAIN task = Procs
  BY OneWorld DEF IInv, Types
<1>2. \A q \in Procs : task'[q] = IF q = p THEN t ELSE task[q]
  BY <1>1 DEF Continue
<1>3. Handlers \subseteq Procs
  BY DEF Procs
<1>4. TicksCounted'
  BY <1>1 DEF Settings, TicksCounted, Quiet
<1>5. \A q \in Procs : Carries(task[q])' => q \in Handlers
  BY <1>2 DEF Settings, SpeedsAgree
<1>6. ASSUME ~ overtaken'
      PROVE  /\ worlds'[world'].speed = wanted' \/ \E h \in Handlers : Restoring(task[h])'
             /\ \A h \in Handlers : Carries(task[h])' => task'[h].speed = wanted'
  <2>1. worlds[world].speed = wanted \/ \E h \in Handlers : Restoring(task[h])
    BY <1>6 DEF Settings, SpeedsAgree, Quiet
  <2>2. worlds'[world'].speed = wanted' \/ \E h \in Handlers : Restoring(task[h])'
    BY <1>1, <1>2, <1>3, <2>1 DEF Quiet
  <2>3. \A h \in Handlers : Carries(task[h])' => task'[h].speed = wanted'
    BY <1>2, <1>3, <1>6 DEF Settings, SpeedsAgree, Quiet
  <2> QED BY <2>2, <2>3
<1> QED BY <1>4, <1>5, <1>6 DEF Settings, SpeedsAgree

\* Steps that leave every World alone.
LEMMA WorldsStay ==
  UNCHANGED <<world, worlds, last, ran, exchanged, wanted, overtaken>> => Quiet
BY DEF Quiet

LEMMA LocksQuiet ==
  ASSUME Types, NEW v \in DOMAIN worlds, Lock(v) \/ Unlock(v) \/ RLock(v) \/ RUnlock(v),
         UNCHANGED <<world, last, ran, exchanged, wanted, overtaken>>
  PROVE  Quiet
<1>1. /\ worlds' \in Seq(Worlds) /\ Len(worlds') = Len(worlds)
      /\ \A w \in DOMAIN worlds : SameButLock(worlds'[w], worlds[w])
  BY LockChanges
<1>2. DOMAIN worlds' = DOMAIN worlds
  BY <1>1, OneWorld
<1> QED BY <1>1, <1>2 DEF Quiet, SameButLock

LEMMA EnterSettings == ASSUME IInv, Settings, NEW p \in Procs, Enter(p)
                       PROVE  Settings' /\ Quiet
<1> DEFINE t == [task[p] EXCEPT !.at = task[p].body]
           v == task[p].w
<1>1. Types /\ Shapes /\ Shape(task[p], Len(worlds)) /\ Continue(p, t)
  BY DEF IInv, Enter, GoTo, Shapes
<1>2. task[p].at \in {"lock", "rlock"} /\ (Lock(v) \/ RLock(v))
  BY DEF Enter, At
<1>3. /\ DOMAIN t = DOMAIN task[p] /\ t.at = task[p].body
      /\ \A f \in DOMAIN task[p] : f # "at" => t[f] = task[p][f]
  BY <1>1, GoesTo
<1> HIDE DEF t
<1>4. v \in DOMAIN worlds /\ IsSection(task[p].at, task[p].body, task[p].next)
  BY <1>1, <1>2, OneWorld DEF Shape, KnowsWorld, InSection
<1>5. Quiet
  BY <1>1, <1>2, <1>4, LocksQuiet DEF Enter, history
<1>6. Carries(t) <=> Restoring(task[p])
  BY <1>2, <1>3, <1>4 DEF Carries, Restoring, AtOrBefore, IsSection, WriteSection
<1>7. Restoring(task[p]) => Carries(task[p]) /\ Restoring(t)
  BY <1>2, <1>3 DEF Carries, Restoring, AtOrBefore
<1>8. Restoring(task[p]) => t.speed = task[p].speed
  BY <1>1, <1>3 DEF Shape, HasSpeed, AtOrBefore, Restoring
<1>9. Carries(t) => p \in Handlers /\ (~ overtaken => t.speed = wanted)
  BY <1>6, <1>7, <1>8 DEF Settings, SpeedsAgree
<1> QED BY <1>1, <1>5, <1>7, <1>9, QuietKeeps

LEMMA LeaveSettings == ASSUME IInv, Settings, NEW p \in Procs, Leave(p)
                       PROVE  Settings' /\ Quiet
<1> DEFINE t == [task[p] EXCEPT !.at = task[p].next]
<1>1. /\ Types /\ Shapes /\ Shape(task[p], Len(worlds)) /\ Continue(p, t)
      /\ world \in DOMAIN worlds
  BY OneWorld DEF IInv, Leave, GoTo, Shapes
<1>2. task[p].at \in {"unlock", "runlock"} /\ (Unlock(world) \/ RUnlock(world))
  BY DEF Leave, At
<1>3. t.at = task[p].next
  BY <1>1, GoesTo
<1> HIDE DEF t
<1>4. ~ Carries(t) /\ ~ Restoring(task[p])
  <2>1. t.at \in {"restart", "done", "answer", "run", "ran"}
    BY <1>1, <1>2, <1>3 DEF Shape, InSection
  <2> QED BY <1>2, <2>1 DEF Carries, Restoring, AtOrBefore
<1>5. Quiet
  BY <1>1, <1>2, LocksQuiet DEF Leave, history
<1> QED BY <1>1, <1>4, <1>5, QuietKeeps

LEMMA TickerSettings == ASSUME IInv, Settings, Turn \/ ReadSpeed \/ EndTurn
                        PROVE  Settings' /\ Quiet
<1>1. "ticker" \in Procs /\ ~ Restoring(task["ticker"])
  BY DEF Turn, ReadSpeed, EndTurn, At, Restoring, AtOrBefore, Procs
<1>2. Quiet
  BY WorldsStay DEF Turn, ReadSpeed, EndTurn, server, history
<1>3. ASSUME NEW t, Continue("ticker", t), t.at = "lock" => t.body = "measure",
             t.at \in {"lock", "rlock", "runlock", "idle"}
      PROVE  Settings'
  <2>1. ~ Carries(t)
    BY <1>3 DEF Carries, Restoring, AtOrBefore
  <2> QED BY <1>1, <1>2, <1>3, <2>1, QuietKeeps
<1>4. ASSUME Turn PROVE Settings'
  BY <1>3, <1>4 DEF Turn, Section
<1>5. ASSUME ReadSpeed PROVE Settings'
  BY <1>3, <1>5 DEF ReadSpeed
<1>6. ASSUME EndTurn PROVE Settings'
  <2>1. CASE Return("ticker")
    BY <1>3, <2>1 DEF Return, Idle
  <2>2. CASE Continue("ticker", Section("lock", "measure", "restart"))
    <3> DEFINE t == Section("lock", "measure", "restart")
    <3>1. t.at = "lock" /\ t.body = "measure"
      BY DEF Section
    <3>2. Continue("ticker", t)
      BY <2>2
    <3> HIDE DEF t
    <3> QED BY <1>3, <3>1, <3>2
  <2> QED BY <1>6, <2>1, <2>2 DEF EndTurn
<1> QED BY <1>2, <1>4, <1>5, <1>6

LEMMA MethodReturnsSettings == ASSUME IInv, Settings, NEW h \in Handlers, MethodReturns(h)
                               PROVE  Settings' /\ Quiet
<1> DEFINE v == task[h].w
<1>1. /\ Types /\ Shape(task[h], Len(worlds)) /\ Continue(h, Idle) /\ h \in Procs
      /\ task[h].at \in {"read", "write"} /\ (Unlock(v) \/ RUnlock(v))
  BY DEF IInv, MethodReturns, Return, Shapes, Procs, At
<1>2. v \in DOMAIN worlds
  BY <1>1, OneWorld DEF Shape, KnowsWorld
<1>3. Quiet
  BY <1>1, <1>2, LocksQuiet DEF MethodReturns, history
<1>4. ~ Carries(Idle) /\ ~ Restoring(task[h])
  BY <1>1 DEF Carries, Restoring, AtOrBefore, Idle
<1> QED BY <1>1, <1>3, <1>4, QuietKeeps

LEMMA AcceptSettings == ASSUME IInv, Settings, NEW h \in Handlers, Accept(h)
                        PROVE  Settings' /\ Quiet
<1>1. ASSUME NEW t, Request(h, t),
             t.at \in {"lock", "rlock", "config"}, t.at = "lock" => t.body # "restore"
      PROVE  Settings' /\ Quiet
  <2>1. h \in Procs /\ Continue(h, t) /\ ~ Restoring(task[h])
    BY <1>1 DEF Request, At, Restoring, AtOrBefore, Procs
  <2>2. Quiet
    BY <1>1, WorldsStay DEF Request, server, history
  <2>3. ~ Carries(t)
    BY <1>1 DEF Carries, Restoring, AtOrBefore
  <2> QED BY <2>1, <2>2, <2>3, QuietKeeps
<1>2. ASSUME NEW v \in Speeds, PostSpeed(h, v) PROVE Settings' /\ Quiet
  <2> DEFINE t == With(Section("lock", "set speed", "done"), "speed", v)
  <2>1. t.at = "lock" /\ t.body = "set speed"
    BY DEF With, Section
  <2>2. Request(h, t)
    BY <1>2 DEF PostSpeed
  <2> HIDE DEF t
  <2> QED BY <1>1, <2>1, <2>2
<1>3. ASSUME NEW lock \in {"lock", "rlock"}, NEW body \in {"read", "write"},
             CallMethod(h, lock, body)
      PROVE  Settings' /\ Quiet
  <2> DEFINE t == Section(lock, body, "done")
  <2>1. t.at = lock /\ t.body = body
    BY DEF Section
  <2>2. Request(h, t)
    BY <1>3 DEF CallMethod
  <2> HIDE DEF t
  <2> QED BY <1>1, <2>1, <2>2
<1>4. ASSUME NEW config \in Configs, NEW reset \in BOOLEAN, PostConfig(h, config, reset)
      PROVE  Settings' /\ Quiet
  BY <1>1, <1>4 DEF PostConfig
<1> QED BY <1>2, <1>3, <1>4 DEF Accept

\* The steps of handleConfig and handleSpeed that lock no World and change none.
LEMMA HandlerSettings ==
  ASSUME IInv, Settings, NEW h \in Handlers,
         Respond(h) \/ LockConfig(h) \/ Answer(h) \/ Compare(h)
  PROVE  Settings' /\ Quiet
<1>1. h \in Procs /\ ~ Restoring(task[h])
  BY DEF Respond, LockConfig, Answer, Compare, At, Restoring, AtOrBefore, Procs
<1>2. Quiet
  BY WorldsStay DEF Respond, LockConfig, Answer, Compare, server, history
<1>3. ASSUME NEW t, Continue(h, t), ~ Carries(t) PROVE Settings'
  BY <1>1, <1>2, <1>3, QuietKeeps
<1>4. Shapes
  BY DEF IInv
<1>5. ASSUME NEW at \in {"compare", "refuse", "old speed"}, GoTo(h, at) PROVE Settings'
  <2> DEFINE t == [task[h] EXCEPT !.at = at]
  <2>1. Continue(h, t) /\ t.at = at
    BY <1>1, <1>4, <1>5, GoesTo DEF GoTo
  <2> HIDE DEF t
  <2>2. ~ Carries(t)
    BY <2>1 DEF Carries, Restoring, AtOrBefore
  <2> QED BY <1>3, <2>1, <2>2
<1>6. ASSUME Return(h) PROVE Settings'
  <2>1. Continue(h, Idle) /\ ~ Carries(Idle)
    BY <1>6 DEF Return, Idle, Carries, Restoring, AtOrBefore
  <2> QED BY <1>3, <2>1
<1>7. ASSUME Continue(h, With(Section("lock", "update", "answer"), "config", task[h].config))
      PROVE  Settings'
  <2> DEFINE t == With(Section("lock", "update", "answer"), "config", task[h].config)
  <2>1. t.at = "lock" /\ t.body = "update"
    BY DEF With, Section
  <2>2. Continue(h, t)
    BY <1>7
  <2> HIDE DEF t
  <2>3. ~ Carries(t)
    BY <2>1 DEF Carries, Restoring, AtOrBefore
  <2> QED BY <1>3, <2>2, <2>3
<1> QED BY <1>2, <1>5, <1>6, <1>7 DEF Respond, LockConfig, Answer, Compare

LEMMA OldSpeedSettings == ASSUME IInv, Settings, NEW h \in Handlers, OldSpeed(h)
                          PROVE  Settings' /\ Quiet
<1> DEFINE t == [at |-> "exchange", config |-> task[h].config, speed |-> worlds[world].speed]
<1>1. h \in Procs /\ task[h].at = "old speed" /\ Continue(h, t)
  BY DEF OldSpeed, At, Procs
<1>2. Quiet
  BY WorldsStay DEF OldSpeed, server, history
<1>3. t.at = "exchange" /\ t.speed = worlds[world].speed
  OBVIOUS
<1> HIDE DEF t
<1>4. Configuring(task[h]) /\ ~ Restoring(task[h])
  BY <1>1 DEF Configuring, Restoring, AtOrBefore
<1>5. \A g \in Handlers : ~ Restoring(task[g])
  <2>1. \A g \in Handlers : Restoring(task[g]) => Configuring(task[g]) /\ g \in Procs
    BY DEF Restoring, Configuring, AtOrBefore, Procs
  <2> QED BY <1>1, <1>4, <2>1 DEF IInv, OneConfigures
<1>6. ~ overtaken => t.speed = wanted
  BY <1>3, <1>5 DEF Settings, SpeedsAgree
<1> QED BY <1>1, <1>2, <1>4, <1>6, QuietKeeps

LEMMA UpdateSettings == ASSUME IInv, Settings, NEW h \in Handlers, Update(h)
                        PROVE  Settings' /\ Quiet
<1> DEFINE t == [task[h] EXCEPT !.at = "unlock"]
           c == [worlds[world].config EXCEPT !.rates = task[h].config.rates]
           x == [worlds[world] EXCEPT !.config = c]
<1>1. Types /\ Shapes /\ h \in Procs /\ task[h].at = "update" /\ Continue(h, t)
  BY DEF IInv, Procs, GoTo, Update, At
<1>2. t.at = "unlock"
  BY <1>1, GoesTo
<1>3. worlds' = [worlds EXCEPT ![world] = x] /\ world \in DOMAIN worlds
  BY <1>1, OneWorld DEF Update
<1>4. /\ x.speed = worlds[world].speed /\ x.ticks = worlds[world].ticks
      /\ x.tps = worlds[world].tps
  <2> HIDE DEF c
  <2> QED BY <1>1, OneWorld DEF Worlds
<1> HIDE DEF t, x, c
<1>5. Quiet
  BY <1>3, <1>4 DEF Quiet, Update
<1>6. ~ Carries(t) /\ ~ Restoring(task[h])
  BY <1>1, <1>2 DEF Carries, Restoring, AtOrBefore
<1> QED BY <1>1, <1>5, <1>6, QuietKeeps

TpsStep == \A w \in DOMAIN worlds : worlds[w].tps # worlds'[w].tps =>
             worlds'[w].tps = ran \/ exchanged

\* What the ticker does with the World and its count: no task carries a speed.
LEMMA TickerCounts ==
  ASSUME IInv, Settings, task["ticker"].at \in {"run", "measure", "restart"}, NEW t,
         Continue("ticker", t), t.at \in {"ran", "unlock", "idle"},
         UNCHANGED <<world, wanted, overtaken>>, worlds'[world].speed = worlds[world].speed
  PROVE  SpeedsAgree'
<1>1. "ticker" \in Procs /\ Handlers \subseteq Procs /\ DOMAIN task = Procs
  BY DEF IInv, Types, Procs
<1>2. \A q \in Procs : task'[q] = IF q = "ticker" THEN t ELSE task[q]
  BY <1>1 DEF Continue
<1>3. ~ Carries(t) /\ ~ Restoring(t) /\ ~ Restoring(task["ticker"])
  BY DEF Carries, Restoring, AtOrBefore
<1>4. \A q \in Procs : /\ Carries(task'[q]) => Carries(task[q]) /\ task'[q] = task[q]
                       /\ Restoring(task[q]) => Restoring(task'[q])
  BY <1>2, <1>3
<1> QED BY <1>1, <1>4 DEF Settings, SpeedsAgree, Carries, Restoring, AtOrBefore

LEMMA RunStepsSettings == ASSUME IInv, Settings, RunSteps PROVE Settings' /\ TpsStep
<1> DEFINE t == [task["ticker"] EXCEPT !.at = "ran"]
           x == [worlds[world] EXCEPT !.ticks = @ + 1]
<1>1. Types /\ Shapes /\ Continue("ticker", t) /\ "ticker" \in Procs /\ last \in Nat
  BY DEF IInv, RunSteps, GoTo, Procs, Types
<1>2. t.at = "ran"
  BY <1>1, GoesTo
<1>3. /\ worlds' = [worlds EXCEPT ![world] = x] /\ world \in DOMAIN worlds
      /\ x.speed = worlds[world].speed /\ x.tps = worlds[world].tps
      /\ x.ticks = worlds[world].ticks + 1 /\ worlds[world].ticks \in Nat
  BY <1>1, OneWorld DEF RunSteps, Worlds
<1> HIDE DEF t, x
<1>4. SpeedsAgree'
  BY <1>1, <1>2, <1>3, TickerCounts DEF RunSteps, At
<1>5. TicksCounted'
  BY <1>1, <1>3 DEF RunSteps, Settings, TicksCounted
<1>6. TpsStep
  BY <1>3 DEF TpsStep
<1> QED BY <1>4, <1>5, <1>6 DEF Settings

LEMMA MeasureSettings == ASSUME IInv, Settings, Measure PROVE Settings' /\ TpsStep
<1> DEFINE t == [task["ticker"] EXCEPT !.at = "unlock"]
           x == [worlds[world] EXCEPT !.tps = worlds[world].ticks - last]
<1>1. Types /\ Shapes /\ Continue("ticker", t) /\ "ticker" \in Procs /\ last \in Nat
  BY DEF IInv, Measure, GoTo, Procs, Types
<1>2. t.at = "unlock"
  BY <1>1, GoesTo
<1>3. /\ worlds' = [worlds EXCEPT ![world] = x] /\ world \in DOMAIN worlds
      /\ x.speed = worlds[world].speed /\ x.tps = worlds[world].ticks - last
      /\ x.ticks = worlds[world].ticks /\ worlds[world].ticks \in Nat
  BY <1>1, OneWorld DEF Measure, Worlds
<1> HIDE DEF t, x
<1>4. SpeedsAgree'
  BY <1>1, <1>2, <1>3, TickerCounts DEF Measure, At, history
<1>5. TicksCounted'
  BY <1>1, <1>3 DEF Measure, Settings, TicksCounted, history
<1>6. TpsStep
  BY <1>1, <1>3 DEF TpsStep, Settings, TicksCounted
<1> QED BY <1>4, <1>5, <1>6 DEF Settings

LEMMA RestartSettings == ASSUME IInv, Settings, Restart PROVE Settings' /\ TpsStep
<1>1. Types /\ Continue("ticker", Idle) /\ Idle.at = "idle"
  BY DEF IInv, Restart, Return, Idle
<1>2. SpeedsAgree'
  BY <1>1, TickerCounts DEF Restart, At
<1>3. TicksCounted'
  BY <1>1, OneWorld DEF Restart, TicksCounted, Counted
<1>4. TpsStep
  BY DEF Restart, TpsStep
<1> QED BY <1>2, <1>3, <1>4 DEF Settings

\* A speed that is set while another handler carries one overtakes it.
LEMMA SetSpeedSettings == ASSUME IInv, Settings, NEW h \in Handlers, SetSpeed(h)
                          PROVE  Settings' /\ TpsStep
<1> DEFINE t == [task[h] EXCEPT !.at = "unlock"]
           x == [worlds[world] EXCEPT !.speed = task[h].speed]
<1>1. /\ Types /\ Shapes /\ Shape(task[h], Len(worlds)) /\ Continue(h, t) /\ h \in Procs
      /\ task[h].at = "set speed" /\ DOMAIN task = Procs /\ Handlers \subseteq Procs
  BY DEF IInv, SetSpeed, GoTo, Procs, Types, Shapes, At
<1>2. t.at = "unlock"
  BY <1>1, GoesTo
<1>3. /\ worlds' = [worlds EXCEPT ![world] = x] /\ world \in DOMAIN worlds
      /\ x.speed = task[h].speed /\ x.tps = worlds[world].tps
      /\ x.ticks = worlds[world].ticks
  BY <1>1, OneWorld DEF SetSpeed, Worlds
<1>4. wanted' = task[h].speed /\ worlds'[world'].speed = wanted'
  BY <1>3 DEF SetSpeed
<1> HIDE DEF t, x
<1>5. \A q \in Procs : task'[q] = IF q = h THEN t ELSE task[q]
  BY <1>1 DEF Continue
<1>6. ~ Carries(t)
  BY <1>2 DEF Carries, Restoring, AtOrBefore
<1>7. \A q \in Procs : Carries(task'[q]) => q \in Handlers
  BY <1>5, <1>6 DEF Settings, SpeedsAgree
<1>8. ~ overtaken' => \A g \in Handlers : ~ Carries(task'[g])
  <2>1. \A g \in Handlers : Carries(task[g]) => g \in Exchanging
    BY DEF Exchanging, Carries, Restoring, AtOrBefore, At
  <2> QED BY <1>1, <1>5, <1>6, <2>1 DEF SetSpeed
<1>9. SpeedsAgree'
  BY <1>4, <1>7, <1>8 DEF SpeedsAgree, Carries, Restoring, AtOrBefore
<1>10. TicksCounted'
  BY <1>3 DEF SetSpeed, Settings, TicksCounted
<1>11. TpsStep
  BY <1>3 DEF TpsStep
<1> QED BY <1>9, <1>10, <1>11 DEF Settings

LEMMA RestoreSettings == ASSUME IInv, Settings, NEW h \in Handlers, Restore(h)
                         PROVE  Settings' /\ TpsStep
<1> DEFINE t == [task[h] EXCEPT !.at = "unlock"]
           x == [worlds[world] EXCEPT !.speed = task[h].speed]
<1>1. /\ Types /\ Shapes /\ Continue(h, t) /\ h \in Procs
      /\ task[h].at = "restore" /\ DOMAIN task = Procs /\ Handlers \subseteq Procs
  BY DEF IInv, Restore, GoTo, Procs, Types, At
<1>2. t.at = "unlock"
  BY <1>1, GoesTo
<1>3. /\ worlds' = [worlds EXCEPT ![world] = x] /\ world \in DOMAIN worlds
      /\ x.speed = task[h].speed /\ x.tps = worlds[world].tps
      /\ x.ticks = worlds[world].ticks
  BY <1>1, OneWorld DEF Restore, Restored, Worlds
<1>4. worlds'[world].speed = task[h].speed
  BY <1>3
<1> HIDE DEF t, x
<1>5. \A q \in Procs : task'[q] = IF q = h THEN t ELSE task[q]
  BY <1>1 DEF Continue
<1>6. ~ Carries(t) /\ Carries(task[h])
  BY <1>1, <1>2 DEF Carries, Restoring, AtOrBefore
<1>7. \A q \in Procs : Carries(task'[q]) => Carries(task[q]) /\ task'[q] = task[q]
  BY <1>5, <1>6
<1>8. UNCHANGED <<world, last, ran, exchanged, wanted, overtaken>>
  BY DEF Restore, history
<1>9. SpeedsAgree'
  BY <1>1, <1>4, <1>6, <1>7, <1>8 DEF Settings, SpeedsAgree, Carries, Restoring, AtOrBefore
<1>10. TicksCounted'
  BY <1>3, <1>8 DEF Settings, TicksCounted
<1>11. TpsStep
  BY <1>3 DEF TpsStep
<1> QED BY <1>9, <1>10, <1>11 DEF Settings

LEMMA ExchangeSettings == ASSUME IInv, Settings, NEW h \in Handlers, Exchange(h)
                          PROVE  Settings' /\ TpsStep
<1> DEFINE s == [Section("lock", "restore", "answer") EXCEPT !.w = world']
           t == With(s, "speed", task[h].speed)
<1>1. /\ Types /\ Continue(h, t) /\ h \in Procs /\ Carries(task[h])
      /\ DOMAIN task = Procs /\ Handlers \subseteq Procs
  BY DEF IInv, Exchange, Procs, Types, Carries, At
<1>2. DOMAIN s = {"at", "w", "body", "next"} /\ s.at = "lock" /\ s.body = "restore"
  BY DEF Section
<1> HIDE DEF s
<1>3. t.at = "lock" /\ t.body = "restore" /\ t.speed = task[h].speed
  BY <1>2 DEF With
<1> HIDE DEF t
<1>4. \A q \in Procs : task'[q] = IF q = h THEN t ELSE task[q]
  BY <1>1 DEF Continue
<1>5. Restoring(t) /\ Carries(t)
  BY <1>3 DEF Carries, Restoring, AtOrBefore
<1>6. \A q \in Procs : Carries(task'[q]) => Carries(task[q]) /\ task'[q].speed = task[q].speed
  BY <1>1, <1>3, <1>4
<1>7. Restoring(task'[h])
  BY <1>1, <1>4, <1>5
<1>8. UNCHANGED <<wanted, overtaken, ran>> /\ exchanged' = TRUE
  BY DEF Exchange
<1>9. SpeedsAgree'
  BY <1>1, <1>6, <1>7, <1>8 DEF Settings, SpeedsAgree, Carries, Restoring, AtOrBefore
<1>10. TicksCounted'
  BY <1>8 DEF Settings, TicksCounted
<1>11. TpsStep
  <2>1. \A w \in DOMAIN worlds : worlds'[w] = worlds[w]
    BY <1>1, OneWorld DEF Exchange, Types
  <2> QED BY <2>1 DEF TpsStep
<1> QED BY <1>9, <1>10, <1>11 DEF Settings

-----------------------------------------------------------------------------
LEMMA InitSettings == Init => Settings
<1> SUFFICES ASSUME Init PROVE Settings
  OBVIOUS
<1>1. /\ world = 1 /\ worlds[1] = NewWorld(Default) /\ last = 0 /\ ran = 0 /\ wanted = 10
      /\ ~ exchanged
  BY DEF Init
<1>2. worlds[world].speed = 10 /\ worlds[world].ticks = 0
  BY <1>1 DEF NewWorld
<1>3. \A p \in Procs : task[p].at = "idle"
  BY DEF Init, Idle
<1>4. \A p \in Procs : ~ Carries(task[p])
  BY <1>3 DEF Carries, Restoring, AtOrBefore
<1>5. TicksCounted
  BY <1>1, <1>2 DEF TicksCounted
<1>6. Handlers \subseteq Procs
  BY DEF Procs
<1>7. SpeedsAgree
  BY <1>1, <1>2, <1>4, <1>6 DEF SpeedsAgree
<1> QED BY <1>5, <1>7 DEF Settings

LEMMA StepSettings == ASSUME IInv, Settings, [Step]_vars PROVE Settings' /\ TpsStep
<1>1. Quiet => TpsStep
  BY DEF Quiet, TpsStep
<1>2. CASE Ticker
  <2>1. "ticker" \in Procs
    BY DEF Procs
  <2> QED BY <1>1, <1>2, <2>1, EnterSettings, LeaveSettings, TickerSettings,
             RunStepsSettings, MeasureSettings, RestartSettings DEF Ticker
<1>3. ASSUME NEW h \in Handlers, Accept(h) PROVE Settings' /\ TpsStep
  BY <1>1, <1>3, AcceptSettings
<1>4. ASSUME NEW h \in Handlers, Serve(h) PROVE Settings' /\ TpsStep
  <2>1. h \in Procs
    BY DEF Procs
  <2> QED BY <1>1, <1>4, <2>1, EnterSettings, LeaveSettings, SetSpeedSettings,
             MethodReturnsSettings, HandlerSettings, OldSpeedSettings, ExchangeSettings,
             RestoreSettings, UpdateSettings DEF Serve
<1>5. CASE UNCHANGED vars
  <2>1. UNCHANGED <<world, worlds, last, task, ran, exchanged, wanted, overtaken>>
    BY <1>5 DEF vars, server, history
  <2>2. Settings'
    BY <2>1 DEF Settings, SpeedsAgree, TicksCounted
  <2> QED BY <2>1, <2>2 DEF TpsStep
<1> QED BY <1>2, <1>3, <1>4, <1>5 DEF Step

LEMMA SettingsInvariant == Spec => [](IInv /\ Settings)
<1>1. IInv /\ Settings /\ [Step]_vars => (IInv /\ Settings)'
  BY StepKeeps, StepSettings
<1> QED BY <1>1, InitIInv, InitSettings, PTL DEF Spec

\* handleConfig reads the speed of the old World without a lock and sets it on the
\* new one: no other request is lost over it unless it came in between.
THEOREM SpeedSurvives == Spec => []SpeedInForce
<1>1. IInv /\ Settings => SpeedInForce
  <2> SUFFICES ASSUME IInv, Settings, ~ overtaken, ~ configMu
               PROVE  worlds[world].speed = wanted
    BY DEF SpeedInForce
  <2>1. \A h \in Handlers : h \in Procs /\ ~ Configuring(task[h])
    BY DEF IInv, OneConfigures, Procs
  <2>2. \A h \in Handlers : ~ Restoring(task[h])
    BY <2>1 DEF Restoring, Configuring, AtOrBefore
  <2> QED BY <2>2 DEF Settings, SpeedsAgree
<1> QED BY <1>1, SettingsInvariant, PTL

\* main's ticker: the rate it reports is that of the ticks it ran since the last
\* measurement, unless the World was exchanged since.
THEOREM TicksPerSecond == Spec => TpsCountsTicks
<1>1. IInv /\ Settings /\ [Step]_vars =>
        [\A w \in DOMAIN worlds : worlds[w].tps # worlds'[w].tps =>
           worlds'[w].tps = ran \/ exchanged]_vars
  BY StepSettings DEF TpsStep
<1> QED BY <1>1, SettingsInvariant, PTL DEF Spec, TpsCountsTicks
=============================================================================
