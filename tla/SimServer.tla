----------------------------- MODULE SimServer -----------------------------
(***************************************************************************)
(* The simulation's server, simulation/main.go: the ticker's goroutine and *)
(* the handlers of HTTP requests share the global variable world, which    *)
(* handleConfig exchanges for a new World.                                 *)
(*                                                                         *)
(* world.mu protects the fields of one World; nothing protects the         *)
(* variable.  Goroutines that write world.mu.Lock(), world.Speed = ...,    *)
(* world.mu.Unlock() read it three times and may meet two Worlds.  Unlike  *)
(* them, a method of World has one receiver for good.  configMu lets one   *)
(* handleConfig run at a time.                                             *)
(***************************************************************************)
EXTENDS Integers, Sequences

CONSTANTS Handlers,     \* goroutines that serve requests
          Configs,      \* what can be posted: the five fields that are compared
                        \* (grid), the thirteen that an update copies (rates),
                        \* and those it leaves alone (fixed): EmissionRate,
                        \* the relay hops, NoiseFloor and the TX powers.
                        \* The jamming fields, which it leaves to SetJamming,
                        \* are left out
          Default,      \* DefaultConfig()
          Speeds,       \* what can be set; 0 is a pause
          MaxTurns,     \* bound: turns of the ticker
          MaxRequests   \* bound: requests served

ASSUME ConfigsAssumption ==
  \A config \in Configs \cup {Default} :
    config = [grid |-> config.grid, rates |-> config.rates, fixed |-> config.fixed]
ASSUME SpeedsAssumption == Speeds \subseteq Nat
ASSUME BoundsAssumption ==
  MaxTurns \in Nat /\ MaxRequests \in Nat

VARIABLES world,        \* the variable: a number in worlds
          worlds,       \* every World made
          configMu,     \* TRUE: locked
          task,         \* what each goroutine is doing
          last,         \* lastTickCount
          crashed,      \* an unlocked mutex was unlocked: a fatal error
          turns, requests,
          posted,       \* history: the configuration posted last
          wanted,       \* history: the speed set last
          crossed,      \* history: world was exchanged during a section
          overtaken,    \* history: a speed was set while it was exchanged
          ran,          \* history: ticks since the last measurement
          exchanged     \* history: world was exchanged since

server == <<world, worlds, configMu, last>>
history == <<posted, wanted, crossed, overtaken, ran, exchanged>>
bounds == <<turns, requests>>
vars == <<server, task, crashed, bounds, history>>

Procs == {"ticker"} \cup Handlers
Idle == [at |-> "idle"]

\* made is history: the configuration the World was made with.
NewWorld(config) == [config |-> config, made |-> config, speed |-> 10, ticks |-> 0,
                     tps |-> 0, writing |-> FALSE, readers |-> 0]

Init == /\ world = 1 /\ worlds = <<NewWorld(Default)>>
        /\ configMu = FALSE
        /\ task = [p \in Procs |-> Idle]
        /\ last = 0 /\ crashed = FALSE
        /\ turns = 0 /\ requests = 0
        /\ posted = Default /\ wanted = 10
        /\ crossed = FALSE /\ overtaken = FALSE /\ ran = 0 /\ exchanged = FALSE

-----------------------------------------------------------------------------
(* Steps of a goroutine, and the sync.RWMutex of each World.  A mutex does *)
(* not know who holds it.                                                  *)

At(p, at) == task[p].at = at
Continue(p, t) == task' = [task EXCEPT ![p] = t]
GoTo(p, at) == Continue(p, [task[p] EXCEPT !.at = at])
Return(p) == Continue(p, Idle)

Lock(w) == /\ ~ worlds[w].writing /\ worlds[w].readers = 0
           /\ worlds' = [worlds EXCEPT ![w].writing = TRUE]

Unlock(w) == IF worlds[w].writing
             THEN /\ worlds' = [worlds EXCEPT ![w].writing = FALSE]
                  /\ UNCHANGED crashed
             ELSE crashed' = TRUE /\ UNCHANGED worlds

RLock(w) == /\ ~ worlds[w].writing
            /\ worlds' = [worlds EXCEPT ![w].readers = @ + 1]

RUnlock(w) == IF worlds[w].readers > 0
              THEN /\ worlds' = [worlds EXCEPT ![w].readers = @ - 1]
                   /\ UNCHANGED crashed
              ELSE crashed' = TRUE /\ UNCHANGED worlds

-----------------------------------------------------------------------------
(* Critical sections.  world.mu.Lock() keeps the World it has found while  *)
(* it waits; the body and world.mu.Unlock() each read the variable again.  *)

Section(lock, body, next) ==
  [at |-> lock, w |-> world, body |-> body, next |-> next]

\* A task with one field more.
With(t, field, v) ==
  [f \in DOMAIN t \cup {field} |-> IF f = field THEN v ELSE t[f]]

Enter(p) == /\ \/ At(p, "lock") /\ Lock(task[p].w)
               \/ At(p, "rlock") /\ RLock(task[p].w)
            /\ GoTo(p, task[p].body)
            /\ UNCHANGED <<world, configMu, last, crashed, bounds, history>>

Leave(p) == /\ \/ At(p, "unlock") /\ Unlock(world)
               \/ At(p, "runlock") /\ RUnlock(world)
            /\ GoTo(p, task[p].next)
            /\ UNCHANGED <<world, configMu, last, bounds, history>>

-----------------------------------------------------------------------------
(* The ticker. *)

Turn == /\ At("ticker", "idle") /\ turns < MaxTurns
        /\ turns' = turns + 1
        /\ Continue("ticker", Section("rlock", "speed", "ran"))
        /\ UNCHANGED <<server, crashed, requests, history>>

ReadSpeed == /\ At("ticker", "speed")
             /\ Continue("ticker", [at |-> "runlock", next |->
                  IF worlds[world].speed > 0 THEN "run" ELSE "ran"])
             /\ UNCHANGED <<server, crashed, bounds, history>>

\* A batch of steps, which takes no lock.
RunSteps == /\ At("ticker", "run")
            /\ worlds' = [worlds EXCEPT ![world].ticks = @ + 1]
            /\ ran' = ran + 1
            /\ GoTo("ticker", "ran")
            /\ UNCHANGED <<world, configMu, last, crashed, bounds,
                           posted, wanted, crossed, overtaken, exchanged>>

\* Five seconds have not passed since the last measurement, or they have.
EndTurn == /\ At("ticker", "ran")
           /\ \/ Return("ticker")
              \/ Continue("ticker", Section("lock", "measure", "restart"))
           /\ UNCHANGED <<server, crashed, bounds, history>>

Measure == /\ At("ticker", "measure")
           /\ worlds' = [worlds EXCEPT ![world].tps = worlds[world].ticks - last]
           /\ GoTo("ticker", "unlock")
           /\ UNCHANGED <<world, configMu, last, crashed, bounds, history>>

\* Mutant of Counted: lastTickCount stays.
NotCounted == last

Counted == worlds[world].ticks

Restart == /\ At("ticker", "restart")
           /\ last' = Counted
           /\ ran' = 0 /\ exchanged' = FALSE
           /\ Return("ticker")
           /\ UNCHANGED <<world, worlds, configMu, crashed, bounds,
                          posted, wanted, crossed, overtaken>>

Ticker == \/ Turn \/ Enter("ticker") \/ ReadSpeed \/ Leave("ticker")
          \/ RunSteps \/ EndTurn \/ Measure \/ Restart

-----------------------------------------------------------------------------
(* handleSpeed, and the handlers that call one method of world, which      *)
(* holds the lock of its receiver from beginning to end: worldToState for  *)
(* reading, ToggleNode and the scenarios for writing.                      *)

Request(h, t) == /\ At(h, "idle") /\ requests < MaxRequests
                 /\ requests' = requests + 1
                 /\ Continue(h, t)
                 /\ UNCHANGED <<server, crashed, turns, history>>

PostSpeed(h, v) == Request(h, With(Section("lock", "set speed", "done"), "speed", v))

\* Handlers that have read the old World's speed.
Exchanging == {h \in Handlers : \/ task[h].at \in {"exchange", "restore"}
                                \/ At(h, "lock") /\ task[h].body = "restore"}

SetSpeed(h) == /\ At(h, "set speed")
               /\ worlds' = [worlds EXCEPT ![world].speed = task[h].speed]
               /\ wanted' = task[h].speed
               /\ overtaken' = (overtaken \/ Exchanging # {})
               /\ GoTo(h, "unlock")
               /\ UNCHANGED <<world, configMu, last, crashed, bounds,
                              posted, crossed, ran, exchanged>>

CallMethod(h, lock, body) == Request(h, Section(lock, body, "done"))

MethodReturns(h) == /\ \/ At(h, "read") /\ RUnlock(task[h].w)
                       \/ At(h, "write") /\ Unlock(task[h].w)
                    /\ Return(h)
                    /\ UNCHANGED <<world, configMu, last, bounds, history>>

Respond(h) == /\ At(h, "done")
              /\ Return(h)
              /\ UNCHANGED <<server, crashed, bounds, history>>

-----------------------------------------------------------------------------
(* handleConfig.  It answers with the state, still under configMu.         *)

PostConfig(h, config, reset) ==
  Request(h, [at |-> "config", config |-> config, reset |-> reset])

\* Mutant of CanConfigure: configMu is missing.
AlwaysConfigure == TRUE

CanConfigure == ~ configMu

\* What cannot be decoded is refused, after configMu was taken.
LockConfig(h) == /\ At(h, "config") /\ CanConfigure
                 /\ configMu' = TRUE
                 /\ (GoTo(h, "compare") \/ GoTo(h, "refuse"))
                 /\ UNCHANGED <<world, worlds, last, crashed, bounds, history>>

\* Mutant of Released: a refused request returns without its deferred unlock.
ReleasedUnlessRefused(h) == At(h, "refuse")

Released(h) == FALSE

\* A refused request returns at once, another one when nobody writes to the
\* World it reports.
Answer(h) == /\ \/ At(h, "refuse")
                \/ At(h, "answer") /\ ~ worlds[world].writing
             /\ configMu' = Released(h)
             /\ Return(h)
             /\ UNCHANGED <<world, worlds, last, crashed, bounds, history>>

\* The grids are compared under the read lock.  If they are the same the World
\* there is takes over the rates, and its nodes keep the configuration they were
\* made with.  Otherwise the speed is read, without a lock,
Compare(h) ==
  LET t == task[h]
      exchange == t.reset \/ t.config.grid # worlds[world].config.grid
  IN  /\ At(h, "compare") /\ ~ worlds[world].writing
      /\ IF exchange THEN GoTo(h, "old speed")
         ELSE Continue(h, With(Section("lock", "update", "answer"), "config", t.config))
      /\ UNCHANGED <<server, crashed, bounds, history>>

OldSpeed(h) ==
  /\ At(h, "old speed")
  /\ Continue(h, [at |-> "exchange", config |-> task[h].config,
                  speed |-> worlds[world].speed])
  /\ UNCHANGED <<server, crashed, bounds, history>>

\* Goroutines in a section that has read world and will read it again: those of
\* methods do not.
Between == {p \in Procs :
              \/ task[p].at \in {"speed", "runlock", "measure", "set speed", "unlock"}
              \/ task[p].at \in {"lock", "rlock"} /\ task[p].body \notin {"read", "write"}}

\* the World is exchanged,
Exchange(h) ==
  LET t == task[h]
  IN  /\ At(h, "exchange")
      /\ worlds' = Append(worlds, NewWorld(t.config))
      /\ world' = Len(worlds) + 1
      /\ Continue(h, With([Section("lock", "restore", "answer") EXCEPT !.w = world'],
                          "speed", t.speed))
      /\ posted' = t.config
      /\ crossed' = (crossed \/ Between # {})
      /\ exchanged' = TRUE
      /\ UNCHANGED <<configMu, last, crashed, bounds, wanted, overtaken, ran>>

\* Mutant of Restored: the new World keeps its own speed.
NotRestored(h) == worlds[world].speed

Restored(h) == task[h].speed

\* and the speed set on the new one.
Restore(h) == /\ At(h, "restore")
              /\ worlds' = [worlds EXCEPT ![world].speed = Restored(h)]
              /\ GoTo(h, "unlock")
              /\ UNCHANGED <<world, configMu, last, crashed, bounds, history>>

\* An update copies thirteen fields and no other, even when others differ.
Update(h) == /\ At(h, "update")
             /\ worlds' = [worlds EXCEPT ![world].config.rates = task[h].config.rates]
             /\ posted' = task[h].config
             /\ GoTo(h, "unlock")
             /\ UNCHANGED <<world, configMu, last, crashed, bounds,
                            wanted, crossed, overtaken, ran, exchanged>>

-----------------------------------------------------------------------------
Serve(h) == \/ Enter(h) \/ Leave(h)
            \/ SetSpeed(h) \/ MethodReturns(h) \/ Respond(h)
            \/ LockConfig(h) \/ Compare(h) \/ OldSpeed(h) \/ Exchange(h)
            \/ Restore(h) \/ Update(h) \/ Answer(h)

Accept(h) == \/ \E v \in Speeds : PostSpeed(h, v)
             \/ CallMethod(h, "rlock", "read") \/ CallMethod(h, "lock", "write")
             \/ \E config \in Configs, reset \in BOOLEAN : PostConfig(h, config, reset)

Step == /\ ~ crashed
        /\ \/ Ticker
           \/ \E h \in Handlers : Accept(h) \/ Serve(h)

\* Every goroutine goes on, and Go hands a mutex to those that wait for it.
Fairness == /\ WF_vars(~ crashed /\ Ticker)
            /\ \A h \in Handlers : SF_vars(~ crashed /\ Serve(h))

Spec == Init /\ [][Step]_vars /\ Fairness

-----------------------------------------------------------------------------
TypeOK == /\ world \in DOMAIN worlds
          /\ \A w \in DOMAIN worlds : /\ worlds[w].readers \in Nat
                                      /\ worlds[w].ticks \in Nat
                                      /\ worlds[w].tps \in Int
          /\ last \in Nat /\ turns \in 0..MaxTurns /\ requests \in 0..MaxRequests

\* No goroutine unlocks a mutex it does not hold, which ends the program, unless
\* the World was exchanged while it was between two reads of the variable.
CrashNeedsExchange == TypeOK /\ (crashed => crossed)

\* Whenever no handleConfig runs, the World of the variable has the grid and the
\* rates of the configuration posted last, whatever else goes on; but what an
\* update leaves alone is still that of the configuration the World was made with.
ConfigInForce ==
  ~ configMu => worlds[world].config = [posted EXCEPT !.fixed = worlds[world].made.fixed]

\* The speed set last survives the exchange of the World, unless a request to
\* set it met the exchange.
SpeedInForce == ~ overtaken /\ ~ configMu => worlds[world].speed = wanted

\* Every measurement is of the ticks since the last one, unless the World was
\* exchanged: the new one's ticks start again, the count does not.
TpsCountsTicks ==
  [][\A w \in DOMAIN worlds : worlds[w].tps # worlds'[w].tps =>
       worlds'[w].tps = ran \/ exchanged]_vars

\* Every request is answered, unless the program ends, or the World was
\* exchanged under a goroutine, which may leave a mutex locked.
RequestsReturn == \A h \in Handlers : ~ At(h, "idle") ~> At(h, "idle") \/ crossed
=============================================================================
