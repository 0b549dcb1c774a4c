-------------------------------- MODULE Store --------------------------------
(***************************************************************************)
(* The two tables of orchestrator/rorch/store.py that several writers      *)
(* share: runner_status, which every tick of a pool replaces, and          *)
(* runner_jobs, which every scan of a pool brings up to date.  All threads *)
(* use one connection under one lock, so a method is one step here; what   *)
(* makes it hard is the connection's one open transaction.  A method that  *)
(* raises leaves its statements in it, every later read sees them, and the *)
(* next commit of any thread publishes them.  On MariaDB a statement that  *)
(* meets a dead connection is repeated on a new one, without the           *)
(* statements before it.                                                   *)
(***************************************************************************)
EXTENDS Integers, FiniteSets

CONSTANTS
  Pools,       \* pools, by name
  Containers,  \* runners the forge may list
  Jobs,        \* the forge's job ids
  None,        \* no pool
  Lists,       \* pool -> runners whose names start with its prefix
  Scans,       \* pool -> jobs of the repositories it scans
  MaxListings, \* pool -> listings it makes; bounds the model
  Faults       \* which of "error", "reconnect", "partial", "removal" may happen

ASSUME PoolsAssumption ==
  /\ None \notin Pools
  /\ Lists \in [Pools -> SUBSET Containers]
  /\ Scans \in [Pools -> SUBSET Jobs]
  /\ MaxListings \in [Pools -> Nat]

VARIABLES
  status,    \* runner_status, as the connection sees it
  jobs,      \* runner_jobs, as the connection sees it
  saved,     \* both tables as committed
  listings,  \* pool -> listings written or tried so far, the clock of its rows
  ticking,   \* pools that still tick
  scan,      \* pool -> what its queue scan collected, until sync_jobs stores it
  work,      \* job -> what the forge says of it
  lines,     \* job -> log lines of its end
  doubt      \* history: what a lost connection or an incomplete scan touched

tables == <<status, jobs, saved>>
vars == <<tables, listings, ticking, scan, work, lines, doubt>>

NoStatus == [pool |-> None, at |-> 0]
NoJob == [pool |-> None, status |-> "none", ended |-> FALSE]
NoDoubt == [torn |-> {}, repeated |-> {}, missed |-> {}]
NoScan == [j \in Jobs |-> "unread"]

StatusTable ==
  [Containers -> [pool : Pools \cup {None}, at : Nat]]
JobTable ==
  [Jobs -> [pool : Pools \cup {None}, status : {"none", "in_progress", "completed"},
            ended : BOOLEAN]]

TypeOK ==
  /\ status \in StatusTable
  /\ jobs \in JobTable
  /\ saved \in [status : StatusTable, jobs : JobTable]
  /\ listings \in [Pools -> Nat]
  /\ ticking \in SUBSET Pools
  /\ scan \in [Pools -> [Jobs -> {"unread", "unseen", "in_progress", "completed"}]]
  /\ work \in [Jobs -> {"queued", "in_progress", "completed", "gone"}]
  /\ lines \in [Jobs -> 0..2]
  /\ doubt \in [torn : SUBSET Pools, repeated : SUBSET Jobs, missed : SUBSET Jobs]

-----------------------------------------------------------------------------
(* What the statements do to a table.                                      *)

\* DELETE FROM runner_status WHERE pool = p.
Emptied(t, p) ==
  [c \in Containers |-> IF t[c].pool = p THEN NoStatus ELSE t[c]]

\* The upserts of one listing: a row belongs to the pool that wrote it last.
Filled(t, p, at, names) ==
  [c \in Containers |-> IF c \in names THEN [pool |-> p, at |-> at] ELSE t[c]]

\* Mutant: a completion time is overwritten by a later scan.
Recorded_overwrites(t, p, part) ==
  [j \in Jobs |->
     IF j \notin part THEN t[j]
     ELSE [pool   |-> IF t[j].pool = None THEN p ELSE t[j].pool,
           status |-> scan[p][j],
           ended  |-> scan[p][j] = "completed"]]

\* _JOB_UPSERT: the pool of an existing row stays, COALESCE keeps its ended_ts.
Recorded(t, p, part) ==
  [j \in Jobs |->
     IF j \notin part THEN t[j]
     ELSE [pool   |-> IF t[j].pool = None THEN p ELSE t[j].pool,
           status |-> scan[p][j],
           ended  |-> t[j].ended \/ scan[p][j] = "completed"]]

\* The UPDATE that closes jobs which left the scanned window.
Closed(t, part) ==
  [j \in Jobs |->
     IF j \in part /\ t[j].pool # None
     THEN [t[j] EXCEPT !.status = "completed", !.ended = TRUE] ELSE t[j]]

\* Mutant: rows of every pool are taken as known to this one.
Known_anyPool(p) == {j \in Jobs : jobs[j].pool # None}

Known(p) == {j \in Jobs : jobs[j].pool = p}

Reported(p) == {j \in Jobs : scan[p][j] \in {"in_progress", "completed"}}

\* Mutant: a job that is no longer reported stays as it is.
Missing_ignored(p) == {}

Missing(p) == {j \in Known(p) \ Reported(p) : ~jobs[j].ended}

\* Mutant: a row already closed counts as finished again.
Finished_again(p) ==
  Missing(p) \cup {j \in Known(p) \cap Reported(p) : scan[p][j] = "completed"}

Finished(p) ==
  Missing(p) \cup
  {j \in Known(p) \cap Reported(p) : scan[p][j] = "completed" /\ ~jobs[j].ended}

Commit == saved' = [status |-> status', jobs |-> jobs']

\* _record_jobs logs what sync_jobs returned; the count stops at two.
Log(finished) ==
  lines' = [j \in Jobs |->
    IF j \in finished /\ lines[j] < 2 THEN lines[j] + 1 ELSE lines[j]]

-----------------------------------------------------------------------------
Init ==
  /\ status = [c \in Containers |-> NoStatus]
  /\ jobs = [j \in Jobs |-> NoJob]
  /\ saved = [status |-> status, jobs |-> jobs]
  /\ listings = [p \in Pools |-> 0]
  /\ ticking = Pools
  /\ scan = [p \in Pools |-> NoScan]
  /\ work = [j \in Jobs |-> "queued"]
  /\ lines = [j \in Jobs |-> 0]
  /\ doubt = NoDoubt

Listing(p) ==
  /\ p \in ticking
  /\ listings[p] < MaxListings[p]
  /\ listings' = [listings EXCEPT ![p] = @ + 1]
  /\ UNCHANGED <<ticking, scan, work, lines>>

\* Mutant: the rows of the last listing are not deleted.
ReplaceRunnerStatus_keepsRows(p) ==
  /\ Listing(p)
  /\ \E names \in SUBSET Lists[p] : status' = Filled(status, p, listings'[p], names)
  /\ UNCHANGED jobs
  /\ Commit
  /\ doubt' = [doubt EXCEPT !.torn = @ \ {p}]

(* replace_runner_status as it should go.                                  *)
ReplaceRunnerStatus(p) ==
  /\ Listing(p)
  /\ \E names \in SUBSET Lists[p] :
       status' = Filled(Emptied(status, p), p, listings'[p], names)
  /\ UNCHANGED jobs
  /\ Commit
  /\ doubt' = [doubt EXCEPT !.torn = @ \ {p}]

(* A statement or the commit raises; _record_runner_status swallows it and *)
(* the transaction stays open.                                             *)
ReplaceFails(p) ==
  /\ "error" \in Faults
  /\ Listing(p)
  /\ \/ UNCHANGED status
     \/ \E names \in SUBSET Lists[p] :
          status' = Filled(Emptied(status, p), p, listings'[p], names)
  /\ UNCHANGED <<jobs, saved, doubt>>

(* The server drops the connection after the DELETE: what the transaction  *)
(* held is gone, the statements from there on run on a new connection.     *)
ReplaceReconnects(p) ==
  /\ "reconnect" \in Faults
  /\ Listing(p)
  /\ \E names \in SUBSET Lists[p] :
       status' = Filled(saved.status, p, listings'[p], names)
  /\ jobs' = saved.jobs
  /\ Commit
  /\ doubt' = [doubt EXCEPT !.torn = @ \cup {p}]

\* Mutant: queued jobs are collected too.
ScanQueue_queuedToo(p) ==
  /\ p \in ticking
  /\ scan[p] = NoScan
  /\ scan' = [scan EXCEPT ![p] =
       [j \in Jobs |-> IF j \in Scans[p] /\ work[j] # "gone" THEN work[j] ELSE "unseen"]]
  /\ UNCHANGED <<tables, listings, ticking, work, lines, doubt>>

(* The queue scan of a tick: every job of an active run that is no longer  *)
(* queued, for whichever pool's labels.  A request that fails leaves its   *)
(* run out, and so does a page that is full before it.                     *)
ScanQueue(p) ==
  /\ p \in ticking
  /\ scan[p] = NoScan
  /\ \E missed \in SUBSET (IF "partial" \in Faults THEN Scans[p] ELSE {}) :
       /\ scan' = [scan EXCEPT ![p] =
            [j \in Jobs |->
               IF j \in Scans[p] \ missed /\ work[j] \in {"in_progress", "completed"}
               THEN work[j] ELSE "unseen"]]
       /\ doubt' = [doubt EXCEPT !.missed = @ \cup missed]
  /\ UNCHANGED <<tables, listings, ticking, work, lines>>

Syncing(p) ==
  /\ p \in ticking
  /\ scan[p] # NoScan
  /\ scan' = [scan EXCEPT ![p] = NoScan]
  /\ UNCHANGED <<listings, ticking, work>>

(* sync_jobs and the lines _record_jobs writes for it.                     *)
SyncJobs(p) ==
  /\ Syncing(p)
  /\ jobs' = Closed(Recorded(jobs, p, Reported(p)), Missing(p))
  /\ UNCHANGED status
  /\ Commit
  /\ Log(Finished(p))
  /\ UNCHANGED doubt

(* A statement or the commit raises: no line, and a part stays in the      *)
(* transaction.                                                            *)
SyncFails(p) ==
  /\ "error" \in Faults
  /\ Syncing(p)
  /\ \/ \E part \in SUBSET Reported(p) : jobs' = Recorded(jobs, p, part)
     \/ \E part \in SUBSET Missing(p) :
          jobs' = Closed(Recorded(jobs, p, Reported(p)), part)
  /\ UNCHANGED <<status, saved, lines, doubt>>

(* The connection is lost after the SELECT: the statements before the loss *)
(* are gone, the lines are written all the same, except for a closed job   *)
(* whose row is lost when it is read back.                                 *)
SyncReconnects(p) ==
  /\ "reconnect" \in Faults
  /\ Syncing(p)
  /\ \/ \E part \in SUBSET Reported(p) :
          jobs' = Closed(Recorded(saved.jobs, p, part), Missing(p))
     \/ \E part \in SUBSET Missing(p) : jobs' = Closed(saved.jobs, part)
  /\ status' = saved.status
  /\ Commit
  /\ \E gone \in SUBSET {j \in Missing(p) : saved.jobs[j].pool = None} :
       Log(Finished(p) \ gone)
  /\ doubt' = [doubt EXCEPT !.repeated = @ \cup Finished(p)]

(* _write of any other table, by any thread.                               *)
OtherWrite ==
  /\ UNCHANGED <<status, jobs>>
  /\ Commit
  /\ UNCHANGED <<listings, ticking, scan, work, lines, doubt>>

LoseTransaction ==
  /\ status' = saved.status
  /\ jobs' = saved.jobs
  /\ UNCHANGED <<saved, listings, ticking, work, lines, doubt>>

(* The first statement of a method finds the connection dead: _execute     *)
(* repeats it on a new one and only what was left open is lost.            *)
ConnectionLost ==
  /\ "reconnect" \in Faults
  /\ LoseTransaction
  /\ UNCHANGED scan

(* The process ends and starts again: ticks and the transaction are lost.  *)
Restart ==
  /\ LoseTransaction
  /\ scan' = [p \in Pools |-> NoScan]

(* remove_pool: the pool ticks no more and its rows stay.                  *)
RemovePool(p) ==
  /\ "removal" \in Faults
  /\ p \in ticking
  /\ ticking' = ticking \ {p}
  /\ scan' = [scan EXCEPT ![p] = NoScan]
  /\ UNCHANGED <<tables, listings, work, lines, doubt>>

(* The forge: a job is taken, ends, and leaves the window when its run     *)
(* ends.                                                                   *)
JobMoves(j, from, to) ==
  /\ work[j] = from
  /\ work' = [work EXCEPT ![j] = to]
  /\ UNCHANGED <<tables, listings, ticking, scan, lines, doubt>>

JobStarts(j) == JobMoves(j, "queued", "in_progress")
JobEnds(j) == JobMoves(j, "in_progress", "completed")
RunEnds(j) == JobMoves(j, "completed", "gone")

Next ==
  \/ \E p \in Pools :
       \/ ReplaceRunnerStatus(p) \/ ReplaceFails(p) \/ ReplaceReconnects(p)
       \/ ScanQueue(p) \/ SyncJobs(p) \/ SyncFails(p) \/ SyncReconnects(p)
       \/ RemovePool(p)
  \/ OtherWrite
  \/ ConnectionLost
  \/ Restart
  \/ \E j \in Jobs : JobStarts(j) \/ JobEnds(j) \/ RunEnds(j)

Spec == Init /\ [][Next]_vars

(* A pool that is not removed goes on ticking, and not every one of its    *)
(* scans ends in an error or a restart.                                    *)
Fairness ==
  \A p \in Pools : WF_vars(ScanQueue(p)) /\ SF_vars(SyncJobs(p))

LiveSpec == Spec /\ Fairness

-----------------------------------------------------------------------------
(* jobs_by_runner: what the dashboard shows as being executed.             *)
ShownRunning(j) ==
  jobs[j].pool # None /\ ~jobs[j].ended /\ jobs[j].status = "in_progress"

(* The rows of a pool all come from one listing, in what readers see and   *)
(* in what is committed, although writes of other threads commit what a    *)
(* failed replace_runner_status left behind; a lost connection mixes two   *)
(* listings, and the next replace_runner_status that goes through ends it. *)
OneListing ==
  \A t \in {status, saved.status} : \A c, d \in Containers :
    t[c].pool = t[d].pool /\ t[c].pool \notin doubt.torn => t[c].at = t[d].at

(* A recorded completion is never taken back or moved to another pool, by  *)
(* a late scan or by one that is repeated on a new connection.             *)
EndedKept ==
  [][\A j \in Jobs : saved.jobs[j].ended =>
        saved'.jobs[j].ended /\ saved'.jobs[j].pool = saved.jobs[j].pool]_vars

(* The log tells the end of a job at most once, whichever pools scan it    *)
(* and whatever sync_jobs calls failed in between; only a connection lost  *)
(* in the very call that logged it can make it appear again.               *)
EndLoggedOnce ==
  \A j \in Jobs : lines[j] <= 1 \/ j \in doubt.repeated

(* Only a job that is over is closed, although scans of several pools see  *)
(* the same repository at different times, unless a failed request or the  *)
(* size of a page left it out of a scan.                                   *)
ClosedWhenDone ==
  \A j \in Jobs :
    jobs[j].ended => work[j] \in {"completed", "gone"} \/ j \in doubt.missed

(* A job that is over does not stay "running forever" on the dashboard,    *)
(* unless the pool that recorded it was removed.                           *)
NotRunningForever ==
  \A j \in Jobs :
    work[j] = "gone" ~> (ShownRunning(j) => jobs[j].pool \notin ticking)
=============================================================================
