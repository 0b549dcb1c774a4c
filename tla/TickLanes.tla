------------------------------ MODULE TickLanes ------------------------------
(***************************************************************************)
(* The main loop (orchestrator/rorch/__main__.py) and its tick lanes       *)
(* (lanes.py): each round resolves the configuration, submits a tick for   *)
(* every pool to a bounded executor, submits the maintenance chores to a   *)
(* second one, and sleeps. A lane is a pool's or a chore's name; it runs   *)
(* at most one job at a time. The operator edits the configuration while   *)
(* rounds and ticks are under way, and a signal stops the daemon.          *)
(***************************************************************************)
EXTENDS Integers, Sequences, FiniteSets
LOCAL Sets == INSTANCE FiniteSetsExt

CONSTANTS
  Pools,        \* pool names: config.yml's and those the operator may create
  StartupPools, \* the pools that exist when the daemon starts
  Cleanup,      \* CLEANUP_LANE
  Housekeeping, \* HOUSEKEEPING_LANE
  Copies,       \* how many futures of one lane the model tells apart
  None,         \* no job, no setting
  TickFloor,    \* DEFAULT_POOL_TICK_WORKERS, 8
  TickCeiling,  \* what POOL_TICK_WORKERS is clamped to, 64
  TickWorkers,  \* POOL_TICK_WORKERS; None if it is not set
  Edited,       \* pools the operator edits or has edited; bounds the model
  Edits,        \* what is edited: "pools", "states", "global"; bounds the model
  PruneEvery,   \* rounds between two housekeeping submissions
  Hangs,        \* lanes whose job may block in a call that never returns
  HangsIn,      \* the places where it may; bounds the model
  MainHangs,    \* whether a call of the main loop may never return
  DatabaseFails \* whether reading the configuration from the store may raise

Chores == {Cleanup, Housekeeping}
Lanes == Pools \cup Chores

\* Where a call may hang: under the scaler's _cap_lock (docker ps), under the
\* docker client's _build_lock (pull, build), under the store's lock (any
\* statement), or in a call that holds nothing others need.
Places == {"call", "cap", "build", "store"}

\* A submitted future: its lane, and a number. The number of a finished
\* future is used again.
Jobs == Lanes \X (1 .. Copies)

ASSUME LanesAssumption ==
  /\ Cleanup # Housekeeping /\ Pools \cap Chores = {}
  /\ None \notin Jobs
  /\ StartupPools \subseteq Pools /\ Hangs \subseteq Lanes /\ Edited \subseteq Pools
  /\ HangsIn \subseteq Places
  /\ IsFiniteSet(Pools)
  /\ TickFloor \in Nat \ {0} /\ TickCeiling \in Nat \ {0} /\ PruneEvery \in Nat \ {0}
  /\ TickWorkers # None => TickWorkers \in Int
  /\ DatabaseFails \in BOOLEAN /\ MainHangs \in BOOLEAN
  /\ Copies \in Nat \ {0}

VARIABLES
  stop,      \* the stop event
  loop,      \* where the main loop is
  round,     \* effective.pools of this round
  paused,    \* effective.paused of this round
  view,      \* effective.states of this round
  todo,      \* pools this round has still to submit
  count,     \* tick_count, modulo PruneEvery
  exists,    \* which pools the configuration in the store has
  mode,      \* pool_state rows: "on", or "held" if paused or draining
  allPaused, \* the global `paused` override
  queue,     \* executor -> futures waiting for a worker
  phase,     \* job -> where its future is
  held,      \* job -> whether the state captured at submit forbids spawning
  book,      \* _running: lane -> its last future
  late,      \* history: pool -> ticks that spawned although the operator forbids it
  afterStop  \* history: lane -> futures submitted since the stop event was set

loopVars == <<loop, round, paused, view, todo, count>>
storeVars == <<exists, mode, allPaused>>
jobVars == <<queue, phase, held, book>>
histories == <<late, afterStop>>
vars == <<stop, loopVars, storeVars, jobVars, histories>>

NothingResolved == [p \in Pools |-> "on"]
Executors == {"pool", "maintenance"}
LoopValues == {"top", "resolving", "submitting", "chores", "housekeeping",
               "waiting", "draining", "exited", "call", "store"}
PhaseValues == {"free", "queued", "running", "spawning", "done"} \cup Places

TypeOK ==
  /\ stop \in BOOLEAN
  /\ loop \in LoopValues
  /\ round \subseteq Pools /\ todo \subseteq Pools
  /\ paused \in BOOLEAN
  /\ view \in [Pools -> {"on", "held"}]
  /\ count \in 0 .. PruneEvery - 1
  /\ exists \in [Pools -> BOOLEAN]
  /\ mode \in [Pools -> {"on", "held"}]
  /\ allPaused \in BOOLEAN
  /\ queue \in [Executors -> Seq(Jobs)]
  /\ phase \in [Jobs -> PhaseValues]
  /\ held \in [Jobs -> BOOLEAN]
  /\ book \in [Lanes -> Jobs \cup {None}]
  /\ late \in [Pools -> Nat]
  /\ afterStop \in [Lanes -> Nat]

-----------------------------------------------------------------------------
InQueue(e) == {queue[e][i] : i \in DOMAIN queue[e]}
Unfinished == {j \in Jobs : phase[j] \notin {"free", "done"}}
Hung == {j \in Jobs : phase[j] \in Places}
InWorker == {j \in Jobs : phase[j] \in {"running", "spawning"}} \cup Hung

Executor(l) == IF l \in Pools THEN "pool" ELSE "maintenance"

\* POOL_TICK_WORKERS, by default a worker per pool of config.yml, clamped and
\* computed once at startup; two for maintenance.
Workers(e) ==
  LET wanted == IF TickWorkers # None THEN TickWorkers
                ELSE Sets!Max({TickFloor, Cardinality(StartupPools)})
  IN  IF e = "maintenance" THEN 2 ELSE Sets!Min({TickCeiling, Sets!Max({1, wanted})})

\* A call that will not return holds this lock.
Locked(place) == (\E j \in Jobs : phase[j] = place) \/ loop = place

\* Mutant: a lane counts as busy only once its job has a worker.
Busy_onlyRunning(l) == book[l] # None /\ phase[book[l]] \in {"running", "spawning"} \cup Places

\* Mutant: a finished future still blocks its lane.
Busy_booked(l) == book[l] # None

\* current is not None and not current.done()
Busy(l) == book[l] # None /\ phase[book[l]] # "done"

\* The operator does not want this pool to get new runners.
Forbidden(p) == ~exists[p] \/ allPaused \/ mode[p] = "held"

-----------------------------------------------------------------------------
Init ==
  /\ stop = FALSE
  /\ loop = "top"
  /\ round = {} /\ todo = {} /\ paused = FALSE /\ count = 0
  /\ view = NothingResolved
  /\ exists = [p \in Pools |-> p \in StartupPools]
  /\ mode \in {m \in [Pools -> {"on", "held"}] : \A p \in Pools \ Edited : m[p] = "on"}
  /\ allPaused \in BOOLEAN
  /\ queue = [e \in Executors |-> <<>>]
  /\ phase = [j \in Jobs |-> "free"]
  /\ held = [j \in Jobs |-> FALSE]
  /\ book = [l \in Lanes |-> None]
  /\ late = [p \in Pools |-> 0]
  /\ afterStop = [l \in Lanes |-> 0]

(* TickLanes.submit: skip a busy lane, otherwise queue a new future and    *)
(* book it in place of the finished one.                                   *)
NewJob(l) ==
  IF book[l] # None /\ ~Busy(l) THEN book[l]
  ELSE CHOOSE j \in Jobs :
    j[1] = l /\ phase[j] = "free" /\ \A n \in 1 .. j[2] - 1 : phase[<<l, n>>] # "free"

Submit(l, forbids) ==
  IF Busy(l) THEN UNCHANGED <<jobVars, afterStop>>
  ELSE LET j == NewJob(l)
       IN  /\ queue' = [queue EXCEPT ![Executor(l)] = Append(@, j)]
           /\ phase' = [phase EXCEPT ![j] = "queued"]
           /\ held' = [held EXCEPT ![j] = forbids]
           /\ book' = [book EXCEPT ![l] = j]
           /\ afterStop' = IF stop THEN [afterStop EXCEPT ![l] = @ + 1] ELSE afterStop

\* Mutant: the loop does not look at the stop event.
BeginRound_ignoresStop ==
  /\ loop = "top" /\ ~Locked("store")
  /\ loop' = "resolving"
  /\ round' = {p \in Pools : exists[p]}
  /\ paused' = allPaused
  /\ UNCHANGED <<stop, view, todo, count, storeVars, jobVars, histories>>

\* Mutant: a round waits for the ticks of the round before.
BeginRound_sequential ==
  /\ loop = "top" /\ ~stop /\ ~Locked("store")
  /\ \A j \in Unfinished : j[1] \in Chores
  /\ loop' = "resolving"
  /\ round' = {p \in Pools : exists[p]}
  /\ paused' = allPaused
  /\ UNCHANGED <<stop, view, todo, count, storeVars, jobVars, histories>>

(* resolve() reads pools and globals, then the pool states.                *)
BeginRound ==
  /\ loop = "top" /\ ~stop /\ ~Locked("store")
  /\ loop' = "resolving"
  /\ round' = {p \in Pools : exists[p]}
  /\ paused' = allPaused
  /\ UNCHANGED <<stop, view, todo, count, storeVars, jobVars, histories>>

ReadStates ==
  /\ loop = "resolving" /\ ~Locked("store")
  /\ loop' = "submitting"
  /\ view' = mode
  /\ todo' = IF paused THEN {} ELSE round
  /\ UNCHANGED <<stop, round, paused, count, storeVars, jobVars, histories>>

(* A read of the store raised: nothing catches it, and the loop's finally  *)
(* shuts the daemon down.                                                  *)
ResolveFails ==
  /\ DatabaseFails /\ ~Locked("store")
  /\ loop = "resolving" \/ (loop = "top" /\ ~stop)
  /\ loop' = "draining"
  /\ UNCHANGED <<stop, round, paused, view, todo, count, storeVars, jobVars, histories>>

(* A statement of the main thread, or the docker ps it makes for its       *)
(* peers, never returns.                                                   *)
LoopHangs ==
  /\ MainHangs /\ ~Locked("store")
  /\ loop = "resolving"
  /\ loop' \in HangsIn \cap {"call", "store"}
  /\ UNCHANGED <<stop, round, paused, view, todo, count, storeVars, jobVars, histories>>

(* One pool of the round: its tick captures the state the round resolved.  *)
SubmitTick(p) ==
  /\ loop = "submitting" /\ p \in todo
  /\ todo' = todo \ {p}
  /\ Submit(p, view[p] = "held")
  /\ UNCHANGED <<stop, loop, round, paused, view, count, storeVars, late>>

\* Mutant: bookkeeping is dropped for a removed pool whose tick still runs.
ForgetRemoved_unfinished ==
  /\ loop = "submitting" /\ todo = {}
  /\ LET gone == IF paused THEN {} ELSE {l \in Pools \ round : book[l] # None}
         ids  == {book[l] : l \in gone} \cap {j \in Jobs : phase[j] = "done"}
     IN  /\ book' = [l \in Lanes |-> IF l \in gone THEN None ELSE book[l]]
         /\ phase' = [j \in Jobs |-> IF j \in ids THEN "free" ELSE phase[j]]
  /\ loop' = "chores"
  /\ round' = {} /\ paused' = FALSE /\ view' = NothingResolved
  /\ UNCHANGED <<stop, todo, count, storeVars, queue, held, histories>>

(* forget_except: finished futures of pools that are gone. Not reached     *)
(* while everything is paused. Nothing looks at what this round resolved   *)
(* about pools after it.                                                   *)
ForgetRemoved ==
  /\ loop = "submitting" /\ todo = {}
  /\ LET gone == IF paused THEN {}
                 ELSE {l \in Pools \ round : book[l] # None /\ ~Busy(l)}
         ids  == {book[l] : l \in gone}
     IN  /\ book' = [l \in Lanes |-> IF l \in gone THEN None ELSE book[l]]
         /\ phase' = [j \in Jobs |-> IF j \in ids THEN "free" ELSE phase[j]]
  /\ loop' = "chores"
  /\ round' = {} /\ paused' = FALSE /\ view' = NothingResolved
  /\ UNCHANGED <<stop, todo, count, storeVars, queue, held, histories>>

(* The cleanup lane every round, then the housekeeping lane when its round *)
(* has come; the loop then sleeps.                                         *)
SubmitCleanup ==
  /\ loop = "chores"
  /\ Submit(Cleanup, FALSE)
  /\ count' = (count + 1) % PruneEvery
  /\ loop' = IF count' = 0 THEN "housekeeping" ELSE "waiting"
  /\ UNCHANGED <<stop, round, paused, view, todo, storeVars, late>>

SubmitHousekeeping ==
  /\ loop = "housekeeping"
  /\ Submit(Housekeeping, FALSE)
  /\ loop' = "waiting"
  /\ UNCHANGED <<stop, round, paused, view, todo, count, storeVars, late>>

\* stop.wait(poll) ended; the loop looks at the stop event again.
WakeUp ==
  /\ loop = "waiting"
  /\ loop' = "top"
  /\ UNCHANGED <<stop, round, paused, view, todo, count, storeVars, jobVars, histories>>

\* The loop ends; the executors take nothing new and are waited for.
BeginShutdown ==
  /\ loop = "top" /\ stop
  /\ loop' = "draining"
  /\ UNCHANGED <<stop, round, paused, view, todo, count, storeVars, jobVars, histories>>

EndShutdown ==
  /\ loop = "draining" /\ Unfinished = {}
  /\ loop' = "exited"
  /\ UNCHANGED <<stop, round, paused, view, todo, count, storeVars, jobVars, histories>>

-----------------------------------------------------------------------------
(* The executors' threads.                                                 *)

\* Mutant: the workers leave when the shutdown begins.
StartJob_untilDraining(e) ==
  /\ loop # "draining"
  /\ queue[e] # <<>>
  /\ Cardinality({j \in InWorker : Executor(j[1]) = e}) < Workers(e)
  /\ queue' = [queue EXCEPT ![e] = Tail(@)]
  /\ phase' = [phase EXCEPT ![Head(queue[e])] = "running"]
  /\ UNCHANGED <<stop, loopVars, storeVars, held, book, histories>>

\* A worker takes the oldest future.
StartJob(e) ==
  /\ queue[e] # <<>>
  /\ Cardinality({j \in InWorker : Executor(j[1]) = e}) < Workers(e)
  /\ queue' = [queue EXCEPT ![e] = Tail(@)]
  /\ phase' = [phase EXCEPT ![Head(queue[e])] = "running"]
  /\ UNCHANGED <<stop, loopVars, storeVars, held, book, histories>>

\* A pool's tick has looked around, which writes to the store, and asks for
\* new runners (PoolScaler): never if the state it captured was paused or
\* draining.
TickSpawns(j) ==
  /\ phase[j] = "running" /\ j[1] \in Pools /\ ~held[j] /\ ~Locked("store")
  /\ phase' = [phase EXCEPT ![j] = "spawning"]
  /\ late' = IF Forbidden(j[1]) THEN [late EXCEPT ![j[1]] = @ + 1] ELSE late
  /\ UNCHANGED <<stop, loopVars, storeVars, queue, held, book, afterStop>>

\* A call never returns: of any job, a call to docker or the forge or a
\* statement; of a tick that spawns, also the docker ps under the cap lock and
\* the pull or build under the build lock. A lock has one holder.
JobHangs(j, place) ==
  /\ j[1] \in Hangs /\ place \in HangsIn
  /\ \/ phase[j] = "running" /\ place \in {"call", "store"}
     \/ phase[j] = "spawning"
  /\ place # "call" => ~Locked(place)
  /\ phase' = [phase EXCEPT ![j] = place]
  /\ UNCHANGED <<stop, loopVars, storeVars, queue, held, book, histories>>

\* The job returned or raised; _run swallows what it raised. A tick that
\* spawns gives its reservations back under the cap lock and records what it
\* did; one that is paused or not due returns before it needs any lock.
FinishJob(j) ==
  /\ \/ phase[j] = "running"
     \/ phase[j] = "spawning" /\ ~Locked("cap") /\ ~Locked("store")
  /\ phase' = [phase EXCEPT ![j] = IF book[j[1]] = j THEN "done" ELSE "free"]
  /\ held' = [held EXCEPT ![j] = FALSE]
  /\ UNCHANGED <<stop, loopVars, storeVars, queue, book, histories>>

\* A job that may need a lock a hung call holds: it need not end.
Blocked(j) ==
  \/ Locked("store")
  \/ phase[j] = "spawning" /\ (Locked("cap") \/ Locked("build"))

-----------------------------------------------------------------------------
(* The operator and the host. `late` counts from the last edit.            *)

EditStore ==
  /\ ~Locked("store")
  /\ late' = [p \in Pools |-> 0]
  /\ UNCHANGED <<stop, loopVars, jobVars, afterStop>>

CreateOrRemovePool(p) ==
  /\ "pools" \in Edits
  /\ exists' = [exists EXCEPT ![p] = ~@]
  /\ UNCHANGED <<mode, allPaused>>
  /\ EditStore

SetPoolState(p) ==
  /\ "states" \in Edits
  /\ exists[p]
  /\ mode' = [mode EXCEPT ![p] = IF @ = "on" THEN "held" ELSE "on"]
  /\ UNCHANGED <<exists, allPaused>>
  /\ EditStore

GlobalPause ==
  /\ "global" \in Edits
  /\ allPaused' = ~allPaused
  /\ UNCHANGED <<exists, mode>>
  /\ EditStore

RequestStop ==
  /\ ~stop
  /\ stop' = TRUE
  /\ UNCHANGED <<loopVars, storeVars, jobVars, histories>>

-----------------------------------------------------------------------------
LoopStep ==
  \/ BeginRound \/ ReadStates \/ ForgetRemoved \/ SubmitCleanup
  \/ SubmitHousekeeping \/ WakeUp \/ BeginShutdown \/ EndShutdown
  \/ \E p \in Pools : SubmitTick(p)

JobStep(j) == TickSpawns(j) \/ FinishJob(j)

Operator ==
  \/ \E p \in Edited : CreateOrRemovePool(p) \/ SetPoolState(p)
  \/ GlobalPause

Next ==
  \/ LoopStep
  \/ ResolveFails \/ LoopHangs
  \/ \E e \in Executors : StartJob(e)
  \/ \E j \in Jobs : JobStep(j) \/ \E place \in Places : JobHangs(j, place)
  \/ Operator
  \/ RequestStop

Spec == Init /\ [][Next]_vars

(* The main thread and the workers are scheduled, and a job returns unless *)
(* it hangs or a hung call may hold a lock it needs. The operator and      *)
(* signals may never do anything.                                          *)
Fairness ==
  /\ WF_vars(LoopStep)
  /\ \A e \in Executors : WF_vars(StartJob(e))
  /\ \A j \in Jobs : WF_vars(FinishJob(j) /\ ~Blocked(j))

LiveSpec == Spec /\ Fairness

-----------------------------------------------------------------------------
(* Properties.                                                             *)

(* "A lane runs at most once at a time": whatever the operator removes and *)
(* creates again while a tick runs, no pool has two unfinished ticks.      *)
OneJobPerLane ==
  \A i, j \in Unfinished : i[1] = j[1] => i = j

(* An operator's pause, drain or removal is late by at most two ticks: the *)
(* one under way and the one the round under way had already decided.      *)
LateByTwoTicks == \A p \in Pools : late[p] <= 2

(* "The loop submits nothing once stopped, so this is at most one round of *)
(* work" (__main__.py): whatever a round was doing when the signal came,   *)
(* each lane gets at most one more job, and a pool the operator created or *)
(* a tick that ends meanwhile gets no second one.                          *)
AtMostOneRound == \A l \in Lanes : afterStop[l] <= 1

(* A database outage costs "the dashboard, not the runners": the loop ends *)
(* only when it was asked to.                                              *)
StopsOnlyWhenAsked == loop \in {"draining", "exited"} => stop

\* A pool's ticks that will never end, or wait for one of those.
Lost == Hung \cup {j \in Jobs : phase[j] = "spawning" /\ Blocked(j)}
OfPools(S) == {j \in S : j[1] \in Pools}

\* What may keep a pool from ticking: the store's lock or the main loop is
\* taken for ever, its own tick is lost, or every worker is.
Starved(p) ==
  \/ Locked("store") \/ loop \in Places
  \/ \E j \in Lost : j[1] = p
  \/ Cardinality(OfPools(Lost)) >= Workers("pool")

(* A pool that stays configured, while not everything is paused, keeps     *)
(* starting and ending ticks although other pools' ticks hang, also when   *)
(* more pools were created than there are workers, unless a hung call      *)
(* holds a lock that it needs or no worker is left.                        *)
PoolsKeepTicking ==
  \A p \in Pools :
    <>[](~stop /\ exists[p] /\ ~allPaused /\ ~Starved(p))
      => /\ []<>(\E j \in InWorker : j[1] = p)
         /\ []<>(\A j \in InWorker : j[1] # p)

(* Busy or hung pools cannot starve cleanup and housekeeping, whatever     *)
(* lock of the scaler or of docker they hold; only a hung statement or a   *)
(* hung main loop can.                                                     *)
ChoresKeepRunning ==
  \A c \in Chores \ Hangs :
    <>[](~stop /\ ~Locked("store") /\ loop \notin Places)
      => /\ []<>(\E j \in InWorker : j[1] = c)
         /\ []<>(\A j \in InWorker : j[1] # c)

(* "docker stop" ends: after the signal the loop finishes its round and    *)
(* waits for what was started, unless a call hangs.                        *)
StopEnds == stop ~> loop = "exited" \/ loop \in Places \/ Hung # {}

(* lanes.py: "so one slow pool never delays another"; __main__.py: "so a   *)
(* slow pool delays only itself".                                          *)
SlowDelaysOnlyItself ==
  \A p \in Pools \ Hangs :
    <>[](~stop /\ exists[p] /\ ~allPaused) => []<>(\A j \in InWorker : j[1] # p)

-----------------------------------------------------------------------------
(* The inductive invariants behind the first three (TickLanes_proofs).     *)

\* Exactly the booked future of a lane is in use.
BookShape ==
  /\ \A l \in Lanes : book[l] # None => book[l][1] = l
  /\ \A j \in Jobs : phase[j] # "free" <=> book[j[1]] = j

\* An executor's queue holds its queued futures, each once.
QueueShape ==
  \A e \in Executors :
    /\ \A i \in DOMAIN queue[e] :
         phase[queue[e][i]] = "queued" /\ Executor(queue[e][i][1]) = e
    /\ \A i, k \in DOMAIN queue[e] : queue[e][i] = queue[e][k] => i = k

\* A tick that may still spawn, and one the round under way may still submit.
Pending(p) ==
  \E j \in Jobs : j[1] = p /\ phase[j] \in {"queued", "running"} /\ ~held[j]
Coming(p) ==
  \/ loop = "resolving" /\ p \in round /\ ~paused /\ mode[p] = "on"
  \/ loop = "submitting" /\ p \in todo /\ view[p] = "on"

\* Each of them leaves room for one more late tick.
LateRoom ==
  \A p \in Pools :
    /\ late[p] <= 2
    /\ ~Forbidden(p) => late[p] = 0
    /\ Pending(p) \/ Coming(p) => late[p] <= 1
    /\ Pending(p) /\ Coming(p) => late[p] = 0

\* Lanes the round under way may still submit to.
Due(l) ==
  CASE loop = "resolving" -> TRUE
    [] loop = "submitting" -> l \in todo \/ l \in Chores
    [] loop = "chores" -> l \in Chores
    [] loop = "housekeeping" -> l = Housekeeping
    [] OTHER -> FALSE

\* None of them has had its job after the stop.
RoundRoom ==
  \A l \in Lanes :
    /\ afterStop[l] <= 1
    /\ ~stop \/ Due(l) => afterStop[l] = 0

=============================================================================
