--------------------------- MODULE TickLanes_proofs ---------------------------
(***************************************************************************)
(* Theorems about TickLanes: for any set of pools, any sizes of the        *)
(* executors and every interleaving of rounds, ticks and edits.            *)
(***************************************************************************)
EXTENDS TickLanes, TLAPS

Inv == TypeOK /\ BookShape /\ QueueShape

USE DEF Jobs, Lanes, Chores, Executors, LoopValues, PhaseValues, Places

(* Every lane has an executor.                                             *)
LEMMA ExecutorType == \A l \in Lanes : Executor(l) \in Executors
  BY DEF Executor

\* A lane that is not busy has a future to submit: the finished one it has
\* booked, or a fresh one.
LEMMA NewJobFree ==
  ASSUME TypeOK, BookShape, NEW l \in Lanes, ~Busy(l)
  PROVE  /\ NewJob(l) \in Jobs /\ NewJob(l)[1] = l
         /\ phase[NewJob(l)] \in {"free", "done"}
         /\ book[l] \in {None, NewJob(l)}
<1>1. CASE book[l] # None
  <2>1. book[l] \in Jobs /\ book[l][1] = l
    BY <1>1 DEF TypeOK, BookShape
  <2>2. phase[book[l]] = "done"
    BY <1>1, <2>1 DEF Busy
  <2> QED
    BY <1>1, <2>1, <2>2 DEF NewJob
<1>2. CASE book[l] = None
  <2> DEFINE Fresh(j) ==
        j[1] = l /\ phase[j] = "free" /\ \A n \in 1 .. j[2] - 1 : phase[<<l, n>>] # "free"
  <2>1. \A n \in 1 .. Copies : <<l, n>> \in Jobs /\ phase[<<l, n>>] = "free"
    <3> SUFFICES ASSUME NEW n \in 1 .. Copies
                 PROVE  <<l, n>> \in Jobs /\ phase[<<l, n>>] = "free"
      OBVIOUS
    <3>1. <<l, n>> \in Jobs /\ <<l, n>>[1] = l
      OBVIOUS
    <3>2. book[l] # <<l, n>>
      BY <1>2, <3>1, LanesAssumption
    <3> QED
      BY <3>1, <3>2 DEF BookShape
  <2>2. <<l, 1>> \in Jobs /\ Fresh(<<l, 1>>)
    BY <2>1, LanesAssumption
  <2> HIDE DEF Fresh
  <2>3. (CHOOSE j \in Jobs : Fresh(j)) \in Jobs /\ Fresh(CHOOSE j \in Jobs : Fresh(j))
    BY <2>2
  <2>4. NewJob(l) = CHOOSE j \in Jobs : Fresh(j)
    BY <1>2 DEF NewJob, Fresh
  <2> QED
    BY <2>3, <2>4, <1>2 DEF Fresh
<1> QED
  BY <1>1, <1>2

\* What submitting to a lane does to the futures.
LEMMA SubmitKeeps ==
  ASSUME Inv, NEW l \in Lanes, NEW b \in BOOLEAN, Submit(l, b)
  PROVE  /\ queue' \in [Executors -> Seq(Jobs)]
         /\ phase' \in [Jobs -> PhaseValues]
         /\ held' \in [Jobs -> BOOLEAN]
         /\ book' \in [Lanes -> Jobs \cup {None}]
         /\ BookShape' /\ QueueShape'
         /\ \A j \in Jobs :
              \/ phase'[j] = phase[j] /\ held'[j] = held[j]
              \/ /\ j[1] = l /\ phase'[j] = "queued" /\ held'[j] = b
                 /\ \A i \in Jobs : i[1] = l => i \notin Unfinished
<1>1. CASE Busy(l)
  BY <1>1 DEF Submit, jobVars, Inv, TypeOK, BookShape, QueueShape
<1>2. CASE ~Busy(l)
  <2> DEFINE j == NewJob(l)
             e == Executor(l)
  <2>1. /\ j \in Jobs /\ j[1] = l /\ phase[j] \in {"free", "done"} /\ book[l] \in {None, j}
    BY <1>2, NewJobFree DEF Inv
  <2>2. e \in Executors
    BY ExecutorType
  <2>3. /\ queue' = [queue EXCEPT ![e] = Append(@, j)]
        /\ phase' = [phase EXCEPT ![j] = "queued"]
        /\ held' = [held EXCEPT ![j] = b]
        /\ book' = [book EXCEPT ![l] = j]
    BY <1>2 DEF Submit
  <2> HIDE DEF j, e
  <2>4. /\ queue' \in [Executors -> Seq(Jobs)]
        /\ phase' \in [Jobs -> PhaseValues]
        /\ held' \in [Jobs -> BOOLEAN]
        /\ book' \in [Lanes -> Jobs \cup {None}]
    BY <2>1, <2>2, <2>3 DEF Inv, TypeOK
  <2>5. BookShape'
    BY <2>1, <2>3, LanesAssumption DEF Inv, TypeOK, BookShape
  <2>6. QueueShape'
    <3>1. \A x \in Executors : \A i \in DOMAIN queue[x] : queue[x][i] \in Jobs /\ queue[x][i] # j
      BY <2>1 DEF Inv, TypeOK, QueueShape
    <3> SUFFICES ASSUME NEW x \in Executors
                 PROVE  /\ \A i \in DOMAIN queue'[x] :
                             phase'[queue'[x][i]] = "queued" /\ Executor(queue'[x][i][1]) = x
                        /\ \A i, k \in DOMAIN queue'[x] : queue'[x][i] = queue'[x][k] => i = k
      BY DEF QueueShape, Executor
    <3>2. CASE x # e
      BY <2>1, <2>3, <3>1, <3>2 DEF Inv, TypeOK, QueueShape
    <3>3. CASE x = e
      <4>1. queue[e] \in Seq(Jobs) /\ queue'[e] = Append(queue[e], j)
        BY <2>2, <2>3 DEF Inv, TypeOK
      <4>2. /\ DOMAIN queue'[e] = DOMAIN queue[e] \cup {Len(queue[e]) + 1}
            /\ Len(queue[e]) + 1 \notin DOMAIN queue[e]
            /\ queue'[e][Len(queue[e]) + 1] = j
            /\ \A i \in DOMAIN queue[e] : queue'[e][i] = queue[e][i]
        BY <2>1, <4>1
      <4>3. \A i \in DOMAIN queue[e] : phase'[queue[e][i]] = phase[queue[e][i]]
        BY <2>2, <2>3, <3>1 DEF Inv, TypeOK
      <4>4. phase'[j] = "queued" /\ Executor(j[1]) = e
        BY <2>1, <2>3 DEF Inv, TypeOK, e
      <4> QED
        BY <2>2, <3>1, <3>3, <4>2, <4>3, <4>4 DEF Inv, QueueShape
    <3> QED
      BY <3>2, <3>3
  <2>7. \A i \in Jobs : i[1] = l => i \notin Unfinished
    <3> SUFFICES ASSUME NEW i \in Jobs, i[1] = l, phase[i] # "free"
                 PROVE  phase[i] = "done"
      BY DEF Unfinished
    <3>1. book[l] = i
      BY DEF Inv, BookShape
    <3> QED
      BY <2>1, <3>1, LanesAssumption
  <2> QED
    BY <2>1, <2>3, <2>4, <2>5, <2>6, <2>7 DEF Inv, TypeOK
<1> QED
  BY <1>1, <1>2

\* A submission after the stop is counted, once and for its lane.
LEMMA SubmitCounts ==
  ASSUME afterStop \in [Lanes -> Nat], NEW l \in Lanes, NEW b, Submit(l, b)
  PROVE  /\ afterStop' \in [Lanes -> Nat]
         /\ \A k \in Lanes : k # l => afterStop'[k] = afterStop[k]
         /\ ~stop => afterStop' = afterStop
         /\ afterStop'[l] \in {afterStop[l], afterStop[l] + 1}
BY DEF Submit

(* The daemon starts with empty queues and books.                          *)
LEMMA InitInv == Init => Inv
<1> SUFFICES ASSUME Init PROVE Inv
  OBVIOUS
<1>1. TypeOK
  <2>1. count \in 0 .. PruneEvery - 1
    BY LanesAssumption DEF Init
  <2>2. <<>> \in Seq(Jobs)
    OBVIOUS
  <2>3. queue \in [Executors -> Seq(Jobs)]
    BY <2>2 DEF Init
  <2>4. exists \in [Pools -> BOOLEAN]
    BY DEF Init
  <2>5. view \in [Pools -> {"on", "held"}]
    BY DEF Init, NothingResolved
  <2> QED
    BY <2>1, <2>3, <2>4, <2>5 DEF Init, TypeOK
<1>2. BookShape
  BY LanesAssumption DEF Init, BookShape
<1>3. QueueShape
  BY DEF Init, QueueShape
<1> QED
  BY <1>1, <1>2, <1>3 DEF Inv

\* Steps that leave the futures alone.
LEMMA ShapesStutter ==
  ASSUME BookShape, QueueShape, UNCHANGED <<queue, phase, book>>
  PROVE  BookShape' /\ QueueShape'
BY DEF BookShape, QueueShape, Executor

\* A future that changes phase but stays in use and was not queued.
LEMMA PhaseMove ==
  ASSUME TypeOK, BookShape, QueueShape, UNCHANGED <<queue, book>>,
         NEW j \in Jobs, phase[j] \notin {"free", "queued"},
         NEW v \in PhaseValues, v # "free", phase' = [phase EXCEPT ![j] = v]
  PROVE  BookShape' /\ QueueShape'
<1>1. BookShape'
  BY DEF TypeOK, BookShape
<1>2. QueueShape'
  <2>1. \A e \in Executors : \A i \in DOMAIN queue[e] :
          queue[e][i] \in Jobs /\ phase'[queue[e][i]] = phase[queue[e][i]]
    BY DEF TypeOK, QueueShape
  <2> QED
    BY <2>1 DEF QueueShape, Executor
<1> QED
  BY <1>1, <1>2

(* A worker that takes a job keeps book and queue in step.                 *)
LEMMA StartKeeps ==
  ASSUME Inv, NEW e \in Executors, StartJob(e)
  PROVE  /\ Head(queue[e]) \in Jobs /\ phase[Head(queue[e])] = "queued"
         /\ queue' \in [Executors -> Seq(Jobs)]
         /\ phase' \in [Jobs -> PhaseValues]
         /\ BookShape' /\ QueueShape'
<1> DEFINE q == queue[e]
           h == Head(queue[e])
<1>1. /\ q \in Seq(Jobs) /\ q # <<>> /\ queue' = [queue EXCEPT ![e] = Tail(q)]
      /\ phase' = [phase EXCEPT ![h] = "running"] /\ book' = book
  BY DEF Inv, TypeOK, StartJob
<1>2. /\ h \in Jobs /\ h = q[1] /\ Tail(q) \in Seq(Jobs) /\ 1 \in DOMAIN q
      /\ \A i \in DOMAIN Tail(q) : i + 1 \in DOMAIN q /\ Tail(q)[i] = q[i + 1] /\ i + 1 # 1
  BY <1>1
<1>3. phase[h] = "queued" /\ Executor(h[1]) = e
  BY <1>2 DEF Inv, QueueShape
<1> HIDE DEF h
<1>4. queue' \in [Executors -> Seq(Jobs)] /\ phase' \in [Jobs -> PhaseValues]
  BY <1>1, <1>2 DEF Inv, TypeOK
<1>5. BookShape'
  BY <1>1, <1>2, <1>3 DEF Inv, TypeOK, BookShape
<1>6. \A x \in Executors : \A i \in DOMAIN queue'[x] :
        queue'[x][i] \in Jobs /\ queue'[x][i] # h /\ phase[queue'[x][i]] = "queued"
        /\ Executor(queue'[x][i][1]) = x
  <2> SUFFICES ASSUME NEW x \in Executors, NEW i \in DOMAIN queue'[x]
               PROVE  /\ queue'[x][i] \in Jobs /\ queue'[x][i] # h
                      /\ phase[queue'[x][i]] = "queued" /\ Executor(queue'[x][i][1]) = x
    OBVIOUS
  <2>1. CASE x = e
    <3>1. queue'[x] = Tail(q)
      BY <1>1, <2>1 DEF Inv, TypeOK
    <3>2. i + 1 \in DOMAIN q /\ queue'[x][i] = q[i + 1] /\ i + 1 # 1
      BY <1>2, <3>1
    <3>3. q[i + 1] # q[1]
      BY <1>2, <3>2 DEF Inv, QueueShape
    <3> QED
      BY <1>1, <1>2, <3>2, <3>3 DEF Inv, QueueShape
  <2>2. CASE x # e
    <3>1. queue'[x] = queue[x] /\ queue[x] \in Seq(Jobs)
      BY <1>1, <2>2 DEF Inv, TypeOK
    <3> QED
      BY <3>1, <2>2, <1>2, <1>3 DEF Inv, QueueShape
  <2> QED
    BY <2>1, <2>2
<1>7. QueueShape'
  <2>1. \A x \in Executors : \A i \in DOMAIN queue'[x] : phase'[queue'[x][i]] = "queued"
    BY <1>1, <1>6 DEF Inv, TypeOK
  <2>2. \A x \in Executors : \A i, k \in DOMAIN queue'[x] :
          queue'[x][i] = queue'[x][k] => i = k
    <3> SUFFICES ASSUME NEW x \in Executors, NEW i \in DOMAIN queue'[x],
                        NEW k \in DOMAIN queue'[x], queue'[x][i] = queue'[x][k]
                 PROVE  i = k
      OBVIOUS
    <3>1. CASE x = e
      <4>1. queue'[x] = Tail(q)
        BY <1>1, <3>1 DEF Inv, TypeOK
      <4>2. i + 1 \in DOMAIN q /\ k + 1 \in DOMAIN q /\ q[i + 1] = q[k + 1]
        BY <1>2, <4>1
      <4>3. i + 1 = k + 1
        BY <4>2 DEF Inv, QueueShape
      <4>4. i \in Nat /\ k \in Nat
        BY <1>2, <4>1
      <4> QED
        BY <4>3, <4>4
    <3>2. CASE x # e
      BY <1>1, <3>2 DEF Inv, TypeOK, QueueShape
    <3> QED
      BY <3>1, <3>2
  <2> QED
    BY <1>6, <2>1, <2>2 DEF QueueShape, Executor
<1> QED
  BY <1>2, <1>3, <1>4, <1>5, <1>7 DEF h

-----------------------------------------------------------------------------
\* forget_except frees exactly the finished futures it unbooks.
LEMMA ForgetKeeps ==
  ASSUME Inv, ForgetRemoved
  PROVE  /\ book' \in [Lanes -> Jobs \cup {None}]
         /\ phase' \in [Jobs -> PhaseValues]
         /\ BookShape' /\ QueueShape'
         /\ \A j \in Jobs : phase'[j] = phase[j] \/ (phase[j] = "done" /\ phase'[j] = "free")
<1> DEFINE gone == IF paused THEN {}
                   ELSE {l \in Pools \ round : book[l] # None /\ ~Busy(l)}
           ids  == {book[l] : l \in gone}
<1>1. /\ book' = [l \in Lanes |-> IF l \in gone THEN None ELSE book[l]]
      /\ phase' = [j \in Jobs |-> IF j \in ids THEN "free" ELSE phase[j]]
      /\ queue' = queue
  BY DEF ForgetRemoved
<1>2. \A l \in gone : /\ l \in Lanes /\ book[l] \in Jobs /\ book[l][1] = l
                      /\ phase[book[l]] = "done"
  BY DEF Busy, Inv, TypeOK, BookShape
<1> HIDE DEF gone
<1>3. \A j \in Jobs : j \in ids <=> j[1] \in gone /\ book[j[1]] = j
  BY <1>2
<1>4. \A j \in ids : phase[j] = "done"
  BY <1>2
<1> HIDE DEF ids
<1>5. /\ book' \in [Lanes -> Jobs \cup {None}]
      /\ phase' \in [Jobs -> PhaseValues]
      /\ \A j \in Jobs : phase'[j] = phase[j] \/ (phase[j] = "done" /\ phase'[j] = "free")
  BY <1>1, <1>4 DEF Inv, TypeOK
<1>6. BookShape'
  BY <1>1, <1>3, LanesAssumption DEF Inv, TypeOK, BookShape
<1>7. QueueShape'
  <2>1. \A e \in Executors : \A i \in DOMAIN queue[e] :
          queue[e][i] \in Jobs /\ phase'[queue[e][i]] = phase[queue[e][i]]
    BY <1>5 DEF Inv, TypeOK, QueueShape
  <2> QED
    <3>1. QueueShape /\ queue' = queue
      BY <1>1 DEF Inv
    <3> QED
      BY <2>1, <3>1 DEF QueueShape, Executor
<1> QED
  BY <1>5, <1>6, <1>7

(* Every step of the loop, the workers and the operator keeps book and     *)
(* queues in step.                                                         *)
LEMMA StepInv == Inv /\ [Next]_vars => Inv'
<1> SUFFICES ASSUME Inv, [Next]_vars PROVE Inv'
  OBVIOUS
<1> USE DEF Inv
<1>1. CASE BeginRound
  BY <1>1, ShapesStutter DEF BeginRound, TypeOK, storeVars, jobVars, histories
<1>2. CASE ReadStates
  BY <1>2, ShapesStutter DEF ReadStates, TypeOK, storeVars, jobVars, histories
<1>3. CASE ForgetRemoved
  BY <1>3, ForgetKeeps DEF ForgetRemoved, TypeOK, NothingResolved, storeVars, histories
<1>4. CASE SubmitCleanup
  <2>1. /\ queue' \in [Executors -> Seq(Jobs)] /\ phase' \in [Jobs -> PhaseValues]
        /\ held' \in [Jobs -> BOOLEAN] /\ book' \in [Lanes -> Jobs \cup {None}]
        /\ BookShape' /\ QueueShape'
    BY <1>4, SubmitKeeps DEF SubmitCleanup
  <2>2. count' \in 0 .. PruneEvery - 1
    BY <1>4, LanesAssumption DEF SubmitCleanup, TypeOK
  <2>3. afterStop' \in [Lanes -> Nat]
    BY <1>4, SubmitCounts DEF SubmitCleanup, TypeOK
  <2> QED
    BY <1>4, <2>1, <2>2, <2>3 DEF SubmitCleanup, TypeOK, storeVars
<1>5. CASE SubmitHousekeeping
  <2>1. /\ queue' \in [Executors -> Seq(Jobs)] /\ phase' \in [Jobs -> PhaseValues]
        /\ held' \in [Jobs -> BOOLEAN] /\ book' \in [Lanes -> Jobs \cup {None}]
        /\ BookShape' /\ QueueShape'
    BY <1>5, SubmitKeeps DEF SubmitHousekeeping
  <2>2. afterStop' \in [Lanes -> Nat]
    BY <1>5, SubmitCounts DEF SubmitHousekeeping, TypeOK
  <2> QED
    BY <1>5, <2>1, <2>2 DEF SubmitHousekeeping, TypeOK, storeVars
<1>6. CASE WakeUp
  BY <1>6, ShapesStutter DEF WakeUp, TypeOK, storeVars, jobVars, histories
<1>7. CASE BeginShutdown
  BY <1>7, ShapesStutter DEF BeginShutdown, TypeOK, storeVars, jobVars, histories
<1>8. CASE EndShutdown
  BY <1>8, ShapesStutter DEF EndShutdown, TypeOK, storeVars, jobVars, histories
<1>9. CASE \E p \in Pools : SubmitTick(p)
  <2> SUFFICES ASSUME NEW p \in Pools, SubmitTick(p) PROVE Inv'
    BY <1>9
  <2>1. /\ queue' \in [Executors -> Seq(Jobs)] /\ phase' \in [Jobs -> PhaseValues]
        /\ held' \in [Jobs -> BOOLEAN] /\ book' \in [Lanes -> Jobs \cup {None}]
        /\ BookShape' /\ QueueShape'
    BY SubmitKeeps DEF SubmitTick
  <2>2. afterStop' \in [Lanes -> Nat]
    BY SubmitCounts DEF SubmitTick, TypeOK
  <2> QED
    BY <2>1, <2>2 DEF SubmitTick, TypeOK, storeVars
<1>10. CASE ResolveFails \/ LoopHangs
  BY <1>10, ShapesStutter, LanesAssumption
     DEF ResolveFails, LoopHangs, TypeOK, storeVars, jobVars, histories
<1>11. CASE \E e \in Executors : StartJob(e)
  <2> SUFFICES ASSUME NEW e \in Executors, StartJob(e) PROVE Inv'
    BY <1>11
  <2>1. /\ queue' \in [Executors -> Seq(Jobs)] /\ phase' \in [Jobs -> PhaseValues]
        /\ BookShape' /\ QueueShape'
    BY StartKeeps
  <2> QED
    BY <2>1 DEF StartJob, TypeOK, loopVars, storeVars, histories
<1>12. CASE \E j \in Jobs : TickSpawns(j)
  <2> SUFFICES ASSUME NEW j \in Jobs, TickSpawns(j) PROVE Inv'
    BY <1>12
  <2>1. BookShape' /\ QueueShape'
    BY PhaseMove DEF TickSpawns
  <2>2. late' \in [Pools -> Nat]
    BY DEF TickSpawns, TypeOK
  <2> QED
    BY <2>1, <2>2 DEF TickSpawns, TypeOK, loopVars, storeVars
<1>13. CASE \E j \in Jobs, place \in Places : JobHangs(j, place)
  <2> SUFFICES ASSUME NEW j \in Jobs, NEW place \in Places, JobHangs(j, place) PROVE Inv'
    BY <1>13
  <2>1. BookShape' /\ QueueShape'
    BY PhaseMove DEF JobHangs
  <2> QED
    BY <2>1 DEF JobHangs, TypeOK, loopVars, storeVars, histories
<1>14. CASE \E j \in Jobs : FinishJob(j)
  <2> SUFFICES ASSUME NEW j \in Jobs, FinishJob(j) PROVE Inv'
    BY <1>14
  <2>1. phase' = [phase EXCEPT ![j] = "done"]
    BY DEF FinishJob, TypeOK, BookShape
  <2>2. BookShape' /\ QueueShape'
    BY <2>1, PhaseMove DEF FinishJob
  <2> QED
    BY <2>1, <2>2 DEF FinishJob, TypeOK, loopVars, storeVars, histories
<1>15. CASE Operator
  <2>1. UNCHANGED <<stop, loopVars, jobVars, afterStop>> /\ late' = [p \in Pools |-> 0]
    BY <1>15 DEF Operator, CreateOrRemovePool, SetPoolState, GlobalPause, EditStore
  <2>2. /\ exists' \in [Pools -> BOOLEAN] /\ allPaused' \in BOOLEAN
        /\ mode' \in [Pools -> {"on", "held"}]
    BY <1>15 DEF Operator, CreateOrRemovePool, SetPoolState, GlobalPause, TypeOK
  <2> QED
    BY <2>1, <2>2, ShapesStutter DEF TypeOK, loopVars, jobVars
<1>16. CASE RequestStop
  BY <1>16, ShapesStutter DEF RequestStop, TypeOK, loopVars, storeVars, jobVars, histories
<1>17. CASE UNCHANGED vars
  BY <1>17, ShapesStutter DEF vars, TypeOK, loopVars, storeVars, jobVars, histories
<1> QED
  BY <1>1, <1>2, <1>3, <1>4, <1>5, <1>6, <1>7, <1>8, <1>9, <1>10, <1>11, <1>12,
     <1>13, <1>14, <1>15, <1>16, <1>17 DEF Next, LoopStep, JobStep

(* The state keeps its types, and a future in use is booked by its lane    *)
(* (lanes.py, TickLanes._running).                                         *)
THEOREM Invariant == Spec => []Inv
BY InitInv, StepInv, PTL DEF Spec

(* The main loop, the lanes and their executors keep their types.          *)
THEOREM Typing == Spec => []TypeOK
BY Invariant, PTL DEF Inv

(* No pool is ever ticked twice at once, whatever is removed, created      *)
(* again, paused or stopped while its tick runs (TickLanes.submit).        *)
THEOREM LanesExclusive == Spec => []OneJobPerLane
<1>1. Inv => OneJobPerLane
  BY DEF Inv, BookShape, OneJobPerLane, Unfinished
<1> QED
  BY <1>1, Invariant, PTL

-----------------------------------------------------------------------------
(* A round starts only before the stop, and submits to each lane once.      *)
LEMMA RoundStep == Inv /\ RoundRoom /\ [Next]_vars => RoundRoom'
<1> SUFFICES ASSUME Inv, RoundRoom, [Next]_vars PROVE RoundRoom'
  OBVIOUS
<1>0. afterStop \in [Lanes -> Nat] /\ stop \in BOOLEAN /\ todo \subseteq Pools
  BY DEF Inv, TypeOK
<1>1. CASE BeginRound
  BY <1>1 DEF BeginRound, histories, RoundRoom, Due
<1>2. CASE ReadStates
  BY <1>2 DEF ReadStates, histories, RoundRoom, Due
<1>3. CASE ForgetRemoved
  BY <1>3, LanesAssumption DEF ForgetRemoved, histories, RoundRoom, Due
<1>4. CASE SubmitCleanup
  <2>1. Submit(Cleanup, FALSE) /\ stop' = stop /\ loop = "chores"
        /\ loop' \in {"housekeeping", "waiting"}
    BY <1>4 DEF SubmitCleanup
  <2>2. /\ \A k \in Lanes : k # Cleanup => afterStop'[k] = afterStop[k]
        /\ ~stop => afterStop' = afterStop
        /\ afterStop'[Cleanup] \in {afterStop[Cleanup], afterStop[Cleanup] + 1}
    BY <1>0, <2>1, SubmitCounts
  <2>3. \A k \in Chores : afterStop[k] = 0
    BY <2>1 DEF RoundRoom, Due
  <2> QED
    BY <1>0, <2>1, <2>2, <2>3, LanesAssumption DEF RoundRoom, Due
<1>5. CASE SubmitHousekeeping
  <2>1. Submit(Housekeeping, FALSE) /\ stop' = stop /\ loop = "housekeeping" /\ loop' = "waiting"
    BY <1>5 DEF SubmitHousekeeping
  <2>2. /\ \A k \in Lanes : k # Housekeeping => afterStop'[k] = afterStop[k]
        /\ ~stop => afterStop' = afterStop
        /\ afterStop'[Housekeeping] \in {afterStop[Housekeeping], afterStop[Housekeeping] + 1}
    BY <1>0, <2>1, SubmitCounts
  <2>3. afterStop[Housekeeping] = 0
    BY <2>1 DEF RoundRoom, Due
  <2> QED
    BY <1>0, <2>1, <2>2, <2>3 DEF RoundRoom, Due
<1>6. CASE \E p \in Pools : SubmitTick(p)
  <2> PICK p \in Pools : SubmitTick(p)
    BY <1>6
  <2> DEFINE b == view[p] = "held"
  <2>1. Submit(p, b) /\ UNCHANGED <<stop, loop>> /\ loop = "submitting"
        /\ p \in todo /\ todo' = todo \ {p}
    BY DEF SubmitTick
  <2> HIDE DEF b
  <2>2. /\ \A k \in Lanes : k # p => afterStop'[k] = afterStop[k]
        /\ ~stop => afterStop' = afterStop
        /\ afterStop'[p] \in {afterStop[p], afterStop[p] + 1}
    BY <1>0, <2>1, SubmitCounts
  <2>3. afterStop[p] = 0
    BY <2>1 DEF RoundRoom, Due
  <2> QED
    BY <1>0, <2>1, <2>2, <2>3, LanesAssumption DEF RoundRoom, Due
<1>7. CASE WakeUp \/ BeginShutdown \/ EndShutdown \/ ResolveFails \/ LoopHangs
  BY <1>7 DEF WakeUp, BeginShutdown, EndShutdown, ResolveFails, LoopHangs, histories,
              RoundRoom, Due
<1>8. CASE UNCHANGED <<stop, loopVars, afterStop>>
  BY <1>8 DEF loopVars, RoundRoom, Due
<1>9. CASE RequestStop
  BY <1>9 DEF RequestStop, loopVars, histories, RoundRoom, Due
<1>10. CASE \E j \in Jobs : JobStep(j) \/ \E place \in Places : JobHangs(j, place)
  BY <1>8, <1>10 DEF JobStep, TickSpawns, FinishJob, JobHangs, histories
<1>11. CASE \E e \in Executors : StartJob(e)
  BY <1>8, <1>11 DEF StartJob, histories
<1>12. CASE Operator
  BY <1>8, <1>12 DEF Operator, CreateOrRemovePool, SetPoolState, GlobalPause, EditStore
<1> QED
  BY <1>1, <1>2, <1>3, <1>4, <1>5, <1>6, <1>7, <1>8, <1>9, <1>10, <1>11, <1>12
     DEF Next, LoopStep, vars, histories

(* Once stopped, the daemon starts at most one more job on every lane      *)
(* (main's loop, _shut_down): what docker's stop timeout has to cover.     *)
THEOREM StopsInOneRound == Spec => []AtMostOneRound
<1>1. Init => RoundRoom
  BY DEF Init, RoundRoom, Due
<1>2. RoundRoom => AtMostOneRound
  BY DEF RoundRoom, AtMostOneRound
<1> QED
  BY <1>1, <1>2, RoundStep, Invariant, PTL DEF Spec

-----------------------------------------------------------------------------
(* No tick is late before the first edit.                                  *)
LEMMA LateInit == Init => LateRoom
BY DEF Init, LateRoom, Forbidden, Pending, Coming

\* A step that submits, ends or stops nothing late: what may still come does
\* not grow, and neither counter nor configuration moves.
LEMMA LateShrinks ==
  ASSUME LateRoom, UNCHANGED <<late, storeVars>>,
         \A p \in Pools : Pending(p)' => Pending(p),
         \A p \in Pools : Coming(p)' => Coming(p) \/ ~Forbidden(p)
  PROVE  LateRoom'
<1> SUFFICES ASSUME NEW p \in Pools
             PROVE  /\ late'[p] <= 2
                    /\ ~Forbidden(p)' => late'[p] = 0
                    /\ Pending(p)' \/ Coming(p)' => late'[p] <= 1
                    /\ Pending(p)' /\ Coming(p)' => late'[p] = 0
  BY DEF LateRoom
<1>1. (Forbidden(p)' <=> Forbidden(p)) /\ late' = late
  BY DEF Forbidden, storeVars
<1>2. /\ late[p] <= 2
      /\ ~Forbidden(p) => late[p] = 0
      /\ Pending(p) \/ Coming(p) => late[p] <= 1
      /\ Pending(p) /\ Coming(p) => late[p] = 0
  BY DEF LateRoom
<1>3. /\ Pending(p)' => Pending(p)
      /\ Coming(p)' => Coming(p) \/ ~Forbidden(p)
  OBVIOUS
<1> QED
  BY <1>1, <1>2, <1>3

(* A tick that may still spawn, and a submission already decided, each     *)
(* leave room for one more late tick.                                      *)
LEMMA LateStep == Inv /\ LateRoom /\ [Next]_vars => LateRoom'
<1> SUFFICES ASSUME Inv, LateRoom, [Next]_vars PROVE LateRoom'
  OBVIOUS
<1> USE DEF Inv, TypeOK
<1>1. CASE BeginRound
  <2>1. \A p \in Pools : Coming(p)' => ~Forbidden(p)
    BY <1>1 DEF BeginRound, Coming, Forbidden, storeVars
  <2>2. \A p \in Pools : Pending(p)' => Pending(p)
    BY <1>1 DEF BeginRound, Pending, jobVars
  <2> QED
    BY <1>1, <2>1, <2>2, LateShrinks DEF BeginRound, histories
<1>2. CASE ReadStates
  <2>1. \A p \in Pools : Coming(p)' => Coming(p)
    BY <1>2 DEF ReadStates, Coming, storeVars
  <2>2. \A p \in Pools : Pending(p)' => Pending(p)
    BY <1>2 DEF ReadStates, Pending, jobVars
  <2> QED
    BY <1>2, <2>1, <2>2, LateShrinks DEF ReadStates, histories
<1>3. CASE ForgetRemoved
  <2>1. \A p \in Pools : ~Coming(p)'
    BY <1>3 DEF ForgetRemoved, Coming
  <2>2. \A p \in Pools : Pending(p)' => Pending(p)
    BY <1>3, ForgetKeeps DEF ForgetRemoved, Pending
  <2> QED
    BY <1>3, <2>1, <2>2, LateShrinks DEF ForgetRemoved, histories
<1>4. CASE SubmitCleanup \/ SubmitHousekeeping
  <2> DEFINE b == FALSE
  <2>0. PICK l \in Chores : Submit(l, b)
    BY <1>4 DEF SubmitCleanup, SubmitHousekeeping
  <2>1. /\ UNCHANGED <<late, storeVars>>
        /\ loop' \notin {"resolving", "submitting"}
    BY <1>4 DEF SubmitCleanup, SubmitHousekeeping
  <2>2. \A p \in Pools : ~Coming(p)'
    BY <2>1 DEF Coming
  <2>3. \A p \in Pools : Pending(p)' => Pending(p)
    <3>1. \A j \in Jobs : j[1] \in Pools => phase'[j] = phase[j] /\ held'[j] = held[j]
      <4>1. l \in Lanes /\ l \notin Pools /\ b \in BOOLEAN
        BY LanesAssumption
      <4> HIDE DEF b
      <4>2. \A j \in Jobs :
              \/ phase'[j] = phase[j] /\ held'[j] = held[j]
              \/ j[1] = l /\ phase'[j] = "queued" /\ held'[j] = b
        BY <2>0, <4>1, SubmitKeeps
      <4> QED
        BY <4>1, <4>2
    <3> QED
      BY <3>1 DEF Pending
  <2> QED
    BY <2>1, <2>2, <2>3, LateShrinks
<1>5. CASE WakeUp \/ BeginShutdown \/ EndShutdown \/ ResolveFails \/ LoopHangs
  <2>1. \A p \in Pools : ~Coming(p)'
    BY <1>5 DEF WakeUp, BeginShutdown, EndShutdown, ResolveFails, LoopHangs, Coming
  <2>2. \A p \in Pools : Pending(p)' => Pending(p)
    BY <1>5 DEF WakeUp, BeginShutdown, EndShutdown, ResolveFails, LoopHangs, Pending, jobVars
  <2> QED
    BY <1>5, <2>1, <2>2, LateShrinks
       DEF WakeUp, BeginShutdown, EndShutdown, ResolveFails, LoopHangs, histories
<1>6. CASE \E p \in Pools : SubmitTick(p)
  <2> PICK q \in Pools : SubmitTick(q)
    BY <1>6
  <2> DEFINE b == view[q] = "held"
  <2>1. /\ Submit(q, b) /\ q \in todo /\ todo' = todo \ {q}
        /\ UNCHANGED <<loop, round, paused, view, storeVars, late>> /\ loop = "submitting"
    BY DEF SubmitTick
  <2>2. \A j \in Jobs :
          \/ phase'[j] = phase[j] /\ held'[j] = held[j]
          \/ j[1] = q /\ phase'[j] = "queued" /\ held'[j] = b
    <3>1. b \in BOOLEAN /\ q \in Lanes
      OBVIOUS
    <3> HIDE DEF b
    <3> QED
      BY <2>1, <3>1, SubmitKeeps
  <2>3. \A p \in Pools : /\ Coming(p)' => Coming(p) /\ p # q
                         /\ Pending(p)' => Pending(p) \/ (p = q /\ Coming(p))
    <3> SUFFICES ASSUME NEW p \in Pools
                 PROVE  /\ Coming(p)' => Coming(p) /\ p # q
                        /\ Pending(p)' => Pending(p) \/ (p = q /\ Coming(p))
      OBVIOUS
    <3>1. Coming(p)' => Coming(p) /\ p # q
      BY <2>1 DEF Coming
    <3>2. CASE b
      BY <2>2, <3>1, <3>2 DEF Pending
    <3>3. CASE ~b
      <4>1. Coming(q)
        BY <2>1, <3>3 DEF Coming
      <4> QED
        BY <2>2, <3>1, <4>1 DEF Pending
    <3> QED
      BY <3>2, <3>3
  <2>4. \A p \in Pools : Forbidden(p)' <=> Forbidden(p)
    BY <2>1 DEF Forbidden, storeVars
  <2> QED
    BY <2>1, <2>3, <2>4 DEF LateRoom
<1>7. CASE \E e \in Executors : StartJob(e)
  <2> PICK e \in Executors : StartJob(e)
    BY <1>7
  <2>1. \A j \in Jobs : phase'[j] = phase[j] \/ phase[j] = "queued"
    BY StartKeeps DEF StartJob
  <2>2. \A p \in Pools : Pending(p)' => Pending(p)
    BY <2>1 DEF StartJob, Pending
  <2>3. \A p \in Pools : Coming(p)' => Coming(p)
    BY DEF StartJob, Coming, loopVars, storeVars
  <2> QED
    BY <2>2, <2>3, LateShrinks DEF StartJob, histories
<1>8. CASE \E j \in Jobs : TickSpawns(j)
  <2> PICK j \in Jobs : TickSpawns(j)
    BY <1>8
  <2> DEFINE q == j[1]
  <2>1. /\ q \in Pools /\ phase[j] = "running" /\ ~held[j] /\ phase' = [phase EXCEPT ![j] = "spawning"]
        /\ late' = IF Forbidden(q) THEN [late EXCEPT ![q] = @ + 1] ELSE late
        /\ UNCHANGED <<loopVars, storeVars, held>>
    BY DEF TickSpawns
  <2>2. Pending(q)
    BY <2>1 DEF Pending
  <2>3. ~Pending(q)'
    <3>1. \A i \in Jobs : i[1] = q /\ phase[i] \in {"queued", "running"} => i = j
      <4>1. \A i \in Jobs : phase[i] # "free" => book[i[1]] = i
        BY DEF BookShape
      <4>2. book[q] = j
        BY <2>1, <4>1
      <4>3. \A i \in Jobs : i[1] = q /\ phase[i] # "free" => i = j
        BY <4>1, <4>2
      <4>4. QED BY <4>3
    <3> QED
      BY <2>1, <3>1 DEF Pending
  <2>4. \A p \in Pools : /\ Coming(p)' <=> Coming(p)
                         /\ Forbidden(p)' <=> Forbidden(p)
                         /\ Pending(p)' => Pending(p)
    BY <2>1 DEF Coming, Forbidden, Pending, loopVars, storeVars
  <2>5. \A p \in Pools : p # q => late'[p] = late[p]
    BY <2>1
  <2>6. late'[q] = IF Forbidden(q) THEN late[q] + 1 ELSE late[q]
    BY <2>1
  <2> SUFFICES ASSUME NEW p \in Pools
               PROVE  /\ late'[p] <= 2
                      /\ ~Forbidden(p)' => late'[p] = 0
                      /\ Pending(p)' \/ Coming(p)' => late'[p] <= 1
                      /\ Pending(p)' /\ Coming(p)' => late'[p] = 0
    BY DEF LateRoom
  <2>7. CASE p # q
    BY <2>4, <2>5, <2>7 DEF LateRoom
  <2>8. CASE p = q
    <3>1. late[q] \in Nat /\ late[q] <= 1 /\ (Coming(q) => late[q] = 0)
          /\ (~Forbidden(q) => late[q] = 0)
      BY <2>1, <2>2 DEF LateRoom
    <3> QED
      BY <2>3, <2>4, <2>6, <2>8, <3>1
  <2> QED
    BY <2>7, <2>8
<1>9. CASE \E j \in Jobs : FinishJob(j) \/ \E place \in Places : JobHangs(j, place)
  <2>1. PICK k \in Jobs : FinishJob(k) \/ \E place \in Places : JobHangs(k, place)
    BY <1>9
  <2>2. /\ \A j \in Jobs : j # k => phase'[j] = phase[j] /\ held'[j] = held[j]
        /\ phase'[k] \notin {"queued", "running"}
        /\ UNCHANGED <<loopVars, storeVars, late>>
    BY <2>1 DEF FinishJob, JobHangs, histories
  <2>3. \A p \in Pools : Pending(p)' => Pending(p)
    BY <2>2 DEF Pending
  <2>4. \A p \in Pools : Coming(p)' => Coming(p)
    BY <2>2 DEF Coming, loopVars, storeVars
  <2> QED
    BY <2>2, <2>3, <2>4, LateShrinks
<1>10. CASE Operator
  <2>1. \A p \in Pools : late'[p] = 0
    BY <1>10 DEF Operator, CreateOrRemovePool, SetPoolState, GlobalPause, EditStore
  <2> QED
    BY <2>1 DEF LateRoom
<1>11. CASE RequestStop \/ UNCHANGED vars
  <2>1. UNCHANGED <<loopVars, storeVars, jobVars, late>>
    BY <1>11 DEF RequestStop, vars, histories
  <2>2. \A p \in Pools : (Pending(p)' => Pending(p)) /\ (Coming(p)' => Coming(p))
    BY <2>1 DEF Pending, Coming, loopVars, storeVars, jobVars
  <2> QED
    BY <2>1, <2>2, LateShrinks
<1> QED
  BY <1>1, <1>2, <1>3, <1>4, <1>5, <1>6, <1>7, <1>8, <1>9, <1>10, <1>11
     DEF Next, LoopStep, JobStep

(* After the operator's last edit, a pool that is to get no new runners    *)
(* spawns in at most two more ticks (_submit_pool_ticks captures states).  *)
THEOREM EditsLateByTwoTicks == Spec => []LateByTwoTicks
<1>1. LateRoom => LateByTwoTicks
  BY DEF LateRoom, LateByTwoTicks
<1> QED
  BY <1>1, LateInit, LateStep, Invariant, PTL DEF Spec
=============================================================================
