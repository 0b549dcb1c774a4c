----------------------------- MODULE Store_proofs -----------------------------
(* Theorems about Store, for any pools, runners, jobs and faults.           *)
EXTENDS Store, TLAPS

(* A table keeps its type under every statement.                           *)
LEMMA TableTypes ==
  ASSUME TypeOK, NEW p \in Pools, NEW at \in Nat,
         NEW t \in StatusTable, NEW names \in SUBSET Containers,
         NEW u \in JobTable, NEW part \in SUBSET Jobs,
         \A j \in part : scan[p][j] \in {"in_progress", "completed"}
  PROVE  /\ Emptied(t, p) \in StatusTable
         /\ Filled(t, p, at, names) \in StatusTable
         /\ Recorded(u, p, part) \in JobTable
<1>1. Emptied(t, p) \in StatusTable
  BY DEF Emptied, StatusTable, NoStatus
<1>2. Filled(t, p, at, names) \in StatusTable
  BY DEF Filled, StatusTable
<1>3. Recorded(u, p, part) \in JobTable
  BY DEF Recorded, JobTable
<1>4. QED BY <1>1, <1>2, <1>3

(* Closing a pool's missing jobs leaves a table of jobs.                   *)
LEMMA ClosedType ==
  ASSUME NEW u \in JobTable, NEW part \in SUBSET Jobs
  PROVE  Closed(u, part) \in JobTable
BY DEF Closed, JobTable

(* What a job's row keeps through the statements of sync_jobs.             *)
Outlives(new, old) ==
  \A j \in Jobs :
    /\ old[j].pool # None => new[j].pool = old[j].pool
    /\ old[j].ended => new[j].ended
    /\ new[j].ended => new[j].pool # None

(* Recording a scan takes no completion back.                              *)
LEMMA RecordedOutlives ==
  ASSUME NEW p \in Pools, NEW u \in JobTable, Outlives(u, u), NEW part \in SUBSET Jobs
  PROVE  Outlives(Recorded(u, p, part), u)
<1> USE PoolsAssumption
<1>1. QED BY DEF Outlives, Recorded, JobTable

(* Nor does closing the jobs a scan missed.                                *)
LEMMA ClosedOutlives ==
  ASSUME NEW u \in JobTable, Outlives(u, u), NEW part \in SUBSET Jobs
  PROVE  Outlives(Closed(u, part), u)
BY DEF Outlives, Closed, JobTable

(* A table keeps its own completions.                                      *)
LEMMA OutlivesSelf ==
  ASSUME NEW old \in JobTable, NEW new \in JobTable, Outlives(new, old)
  PROVE  Outlives(new, new)
BY DEF Outlives, JobTable

(* Keeping completions carries over from table to table.                   *)
LEMMA OutlivesTrans ==
  ASSUME NEW a \in JobTable, NEW b \in JobTable, NEW c \in JobTable,
         Outlives(b, a), Outlives(c, b)
  PROVE  Outlives(c, a)
BY DEF Outlives, JobTable

(* The rows of one table: every pool outside `torn` has one listing.       *)
Whole(t, torn) ==
  /\ \A c \in Containers : t[c].pool = None => t[c].at = 0
  /\ \A c, d \in Containers :
       t[c].pool = t[d].pool /\ t[c].pool \notin torn => t[c].at = t[d].at

(* A finished replace_runner_status leaves its pool's rows whole.          *)
LEMMA ReplacedWhole ==
  ASSUME NEW p \in Pools, NEW at \in Nat, NEW t \in StatusTable,
         NEW names \in SUBSET Containers, NEW torn, Whole(t, torn)
  PROVE  Whole(Filled(Emptied(t, p), p, at, names), torn \ {p})
<1> DEFINE n == Filled(Emptied(t, p), p, at, names)
<1>1. \A c \in Containers :
        \/ n[c].pool = p /\ n[c].at = at
        \/ n[c].pool = None /\ n[c].at = 0
        \/ n[c].pool # p /\ n[c] = t[c]
  BY DEF Filled, Emptied, StatusTable, NoStatus
<1>2. p # None
  BY PoolsAssumption
<1>3. \A c \in Containers : n[c].pool = None => n[c].at = 0
  BY <1>1, <1>2 DEF Whole
<1>4. ASSUME NEW c \in Containers, NEW d \in Containers,
             n[c].pool = n[d].pool, n[c].pool \notin torn \ {p}
      PROVE  n[c].at = n[d].at
  <2>1. CASE n[c].pool = p
    BY <1>1, <1>2, <1>4, <2>1
  <2>2. CASE n[c].pool = None
    BY <1>3, <1>4, <2>2
  <2>3. CASE n[c].pool # p /\ n[c].pool # None
    <3>1. n[c] = t[c] /\ n[d] = t[d]
      BY <1>1, <1>4, <2>3
    <3>2. QED BY <3>1, <1>4, <2>3 DEF Whole
  <2>4. QED BY <2>1, <2>2, <2>3
<1>5. QED BY <1>3, <1>4 DEF Whole

(* A replacement repeated on a new connection may tear its own pool's rows *)
(* and no other's.                                                         *)
LEMMA RepeatedWhole ==
  ASSUME NEW p \in Pools, NEW at \in Nat, NEW t \in StatusTable,
         NEW names \in SUBSET Containers, NEW torn, Whole(t, torn)
  PROVE  Whole(Filled(t, p, at, names), torn \cup {p})
<1> DEFINE n == Filled(t, p, at, names)
<1>1. \A c \in Containers : n[c].pool = p \/ n[c] = t[c]
  BY DEF Filled, StatusTable
<1>2. p # None
  BY PoolsAssumption
<1>3. \A c \in Containers : n[c].pool # p => n[c] = t[c]
  BY <1>1
<1>4. QED BY <1>2, <1>3 DEF Whole
-----------------------------------------------------------------------------
(* The invariant: what is committed survives in what the connection sees,  *)
(* and the log's lines are backed by a committed end.                      *)
EndsBacked ==
  \A j \in Jobs :
    lines[j] > 0 /\ j \notin doubt.repeated => saved.jobs[j].ended

Inv ==
  /\ TypeOK
  /\ Whole(status, doubt.torn) /\ Whole(saved.status, doubt.torn)
  /\ Outlives(jobs, saved.jobs) /\ Outlives(saved.jobs, saved.jobs)
  /\ EndLoggedOnce
  /\ EndsBacked

(* The tables start empty.                                                 *)
LEMMA InitInv == Init => Inv
<1> SUFFICES ASSUME Init PROVE Inv
  OBVIOUS
<1> USE PoolsAssumption DEF Init
<1>1. status \in StatusTable /\ jobs \in JobTable
  BY DEF StatusTable, JobTable, NoStatus, NoJob
<1>2. TypeOK
  BY <1>1 DEF TypeOK, NoDoubt, NoScan
<1>3. Whole(status, doubt.torn) /\ Whole(saved.status, doubt.torn)
  BY DEF Whole, NoStatus
<1>4. Outlives(jobs, saved.jobs) /\ Outlives(saved.jobs, saved.jobs)
  BY DEF Outlives, NoJob
<1>5. EndLoggedOnce /\ EndsBacked
  BY DEF EndLoggedOnce, EndsBacked
<1>6. QED BY <1>2, <1>3, <1>4, <1>5 DEF Inv

(* Reading a listing numbers it and disturbs nothing else.                 *)
LEMMA ListingKeeps ==
  ASSUME Inv, NEW p \in Pools, Listing(p)
  PROVE  listings'[p] \in Nat /\ listings' \in [Pools -> Nat]
BY DEF Listing, Inv, TypeOK

(* replace_runner_status as it should go keeps the invariant.              *)
LEMMA ReplaceStep ==
  ASSUME Inv, NEW p \in Pools, ReplaceRunnerStatus(p)
  PROVE  Inv'
<1> PICK names \in SUBSET Lists[p] :
      status' = Filled(Emptied(status, p), p, listings'[p], names)
  BY DEF ReplaceRunnerStatus
<1>1. names \in SUBSET Containers
  BY PoolsAssumption
<1>2. listings'[p] \in Nat /\ listings' \in [Pools -> Nat]
  BY ListingKeeps DEF ReplaceRunnerStatus
<1>3. status \in StatusTable /\ Emptied(status, p) \in StatusTable
  BY DEF Inv, TypeOK, Emptied, StatusTable, NoStatus
<1>4. status' \in StatusTable
  BY <1>1, <1>2, <1>3 DEF Filled, StatusTable
<1>5. Whole(status', doubt.torn \ {p})
  BY <1>1, <1>2, <1>3, ReplacedWhole DEF Inv
<1>6. doubt'.torn = doubt.torn \ {p} /\ doubt'.repeated = doubt.repeated
  BY DEF ReplaceRunnerStatus, Inv, TypeOK
<1>7. saved' = [status |-> status', jobs |-> jobs]
  BY DEF ReplaceRunnerStatus, Commit
<1>8. TypeOK'
  BY <1>2, <1>4, <1>7 DEF ReplaceRunnerStatus, Listing, Inv, TypeOK
<1>9. EndLoggedOnce' /\ EndsBacked'
  BY <1>6, <1>7 DEF ReplaceRunnerStatus, Listing, Inv, EndLoggedOnce, EndsBacked, Outlives
<1>10. Outlives(jobs', saved'.jobs) /\ Outlives(saved'.jobs, saved'.jobs)
  BY <1>7, OutlivesSelf DEF ReplaceRunnerStatus, Inv, TypeOK
<1>11. Whole(status', doubt'.torn) /\ Whole(saved'.status, doubt'.torn)
  BY <1>5, <1>6, <1>7
<1>12. QED BY <1>8, <1>9, <1>10, <1>11 DEF Inv

(* So does one that raises between two statements,                         *)
LEMMA ReplaceFailsStep ==
  ASSUME Inv, NEW p \in Pools, ReplaceFails(p)
  PROVE  Inv'
<1>1. listings'[p] \in Nat /\ listings' \in [Pools -> Nat]
  BY ListingKeeps DEF ReplaceFails
<1>2. status \in StatusTable
  BY DEF Inv, TypeOK
<1>3. status' \in StatusTable /\ Whole(status', doubt.torn)
  <2>1. CASE UNCHANGED status
    BY <1>2, <2>1 DEF Inv
  <2>2. CASE \E names \in SUBSET Lists[p] :
               status' = Filled(Emptied(status, p), p, listings'[p], names)
    <3> PICK names \in SUBSET Lists[p] :
          status' = Filled(Emptied(status, p), p, listings'[p], names)
      BY <2>2
    <3>1. names \in SUBSET Containers
      BY PoolsAssumption
    <3>2. Emptied(status, p) \in StatusTable
      BY <1>2 DEF Emptied, StatusTable, NoStatus
    <3>3. status' \in StatusTable
      BY <1>1, <3>1, <3>2 DEF Filled, StatusTable
    <3>4. Whole(status', doubt.torn \ {p})
      BY <1>1, <1>2, <3>1, ReplacedWhole DEF Inv
    <3>5. QED BY <3>3, <3>4 DEF Whole
  <2>3. QED BY <2>1, <2>2 DEF ReplaceFails
<1>4. UNCHANGED <<jobs, saved, doubt, ticking, scan, work, lines>>
  BY DEF ReplaceFails, Listing
<1>5. TypeOK'
  BY <1>1, <1>3, <1>4 DEF Inv, TypeOK
<1>6. QED BY <1>3, <1>4, <1>5 DEF Inv, EndLoggedOnce, EndsBacked

(* and one whose connection is replaced on the way.                        *)
LEMMA ReplaceReconnectsStep ==
  ASSUME Inv, NEW p \in Pools, ReplaceReconnects(p)
  PROVE  Inv'
<1> PICK names \in SUBSET Lists[p] :
      status' = Filled(saved.status, p, listings'[p], names)
  BY DEF ReplaceReconnects
<1>1. names \in SUBSET Containers
  BY PoolsAssumption
<1>2. listings'[p] \in Nat /\ listings' \in [Pools -> Nat]
  BY ListingKeeps DEF ReplaceReconnects
<1>3. saved.status \in StatusTable /\ saved.jobs \in JobTable
  BY DEF Inv, TypeOK
<1>4. status' \in StatusTable
  BY <1>1, <1>2, <1>3 DEF Filled, StatusTable
<1>5. Whole(status', doubt.torn \cup {p})
  BY <1>1, <1>2, <1>3, RepeatedWhole DEF Inv
<1>6. doubt'.torn = doubt.torn \cup {p} /\ doubt'.repeated = doubt.repeated
  BY DEF ReplaceReconnects, Inv, TypeOK
<1>7. jobs' = saved.jobs /\ saved' = [status |-> status', jobs |-> saved.jobs]
  BY DEF ReplaceReconnects, Commit
<1>8. TypeOK'
  BY <1>2, <1>3, <1>4, <1>7 DEF ReplaceReconnects, Listing, Inv, TypeOK
<1>9. EndLoggedOnce' /\ EndsBacked'
  BY <1>6, <1>7 DEF ReplaceReconnects, Listing, Inv, EndLoggedOnce, EndsBacked
<1>10. Outlives(jobs', saved'.jobs) /\ Outlives(saved'.jobs, saved'.jobs)
  BY <1>7 DEF Inv
<1>11. QED BY <1>5, <1>6, <1>7, <1>8, <1>9, <1>10 DEF Inv

(* What a call of sync_jobs may put in the table.                          *)
LEMMA SyncTables ==
  ASSUME Inv, NEW p \in Pools, NEW u \in JobTable, Outlives(u, u),
         NEW part \in SUBSET Reported(p), NEW closed \in SUBSET Jobs
  PROVE  /\ Recorded(u, p, part) \in JobTable
         /\ Outlives(Recorded(u, p, part), u)
         /\ Closed(Recorded(u, p, part), closed) \in JobTable
         /\ Outlives(Closed(Recorded(u, p, part), closed), u)
<1>1. part \in SUBSET Jobs /\ \A j \in part : scan[p][j] \in {"in_progress", "completed"}
  BY DEF Reported
<1>2. Recorded(u, p, part) \in JobTable
  BY <1>1 DEF Recorded, JobTable
<1>3. Outlives(Recorded(u, p, part), u)
  BY <1>1, RecordedOutlives
<1>4. Outlives(Recorded(u, p, part), Recorded(u, p, part))
  BY <1>2, <1>3, OutlivesSelf
<1>5. /\ Closed(Recorded(u, p, part), closed) \in JobTable
      /\ Outlives(Closed(Recorded(u, p, part), closed), Recorded(u, p, part))
  BY <1>2, <1>4, ClosedType, ClosedOutlives
<1>6. Outlives(Closed(Recorded(u, p, part), closed), u)
  BY <1>2, <1>3, <1>5, OutlivesTrans
<1>7. QED BY <1>2, <1>3, <1>5, <1>6

(* Nothing is left open for sync_jobs to close a second time.              *)
LEMMA FinishedOpen ==
  ASSUME NEW p \in Pools, NEW j \in Finished(p)
  PROVE  j \in Jobs /\ ~jobs[j].ended
BY DEF Finished, Missing, Known
(* sync_jobs as it should go keeps the invariant.                          *)
LEMMA SyncJobsStep ==
  ASSUME Inv, NEW p \in Pools, SyncJobs(p)
  PROVE  Inv'
<1>1. jobs \in JobTable /\ saved.jobs \in JobTable /\ lines \in [Jobs -> 0..2]
  BY DEF Inv, TypeOK
<1>2. Outlives(jobs, jobs) /\ Missing(p) \in SUBSET Jobs
  BY <1>1, OutlivesSelf DEF Inv, Missing, Known
<1>3. jobs' \in JobTable /\ Outlives(jobs', jobs)
  BY <1>1, <1>2, SyncTables DEF SyncJobs
<1>4. Outlives(jobs', jobs') /\ Outlives(jobs', saved.jobs)
  BY <1>1, <1>3, OutlivesSelf, OutlivesTrans DEF Inv
<1>5. saved' = [status |-> status, jobs |-> jobs'] /\ status' = status /\ doubt' = doubt
  BY DEF SyncJobs, Commit
<1>6. TypeOK'
  BY <1>3, <1>5 DEF SyncJobs, Syncing, Log, Inv, TypeOK, NoScan
<1>7. \A j \in Finished(p) : jobs'[j].ended
  <2> SUFFICES ASSUME NEW j \in Finished(p) PROVE jobs'[j].ended
    OBVIOUS
  <2> DEFINE r == Recorded(jobs, p, Reported(p))
  <2>1. jobs' = Closed(r, Missing(p)) /\ r \in JobTable
    BY <1>1, <1>2, SyncTables DEF SyncJobs
  <2>2. CASE j \in Missing(p)
    <3>1. j \in Jobs /\ r[j].pool # None
      BY <2>2, PoolsAssumption DEF Missing, Known, Recorded
    <3>2. QED BY <2>1, <2>2, <3>1 DEF Closed, JobTable
  <2>3. CASE j \in Known(p) \cap Reported(p) /\ scan[p][j] = "completed"
    <3>1. j \in Jobs /\ r[j].ended
      BY <2>3 DEF Known, Recorded
    <3>2. QED BY <2>1, <3>1 DEF Closed, JobTable
  <2>4. QED BY <2>2, <2>3 DEF Finished
<1>8. EndsBacked'
  <2> SUFFICES ASSUME NEW j \in Jobs, lines'[j] > 0, j \notin doubt.repeated
               PROVE  jobs'[j].ended
    BY <1>5 DEF EndsBacked
  <2>1. CASE j \in Finished(p)
    BY <1>7, <2>1
  <2>2. CASE j \notin Finished(p)
    <3>1. lines'[j] = lines[j]
      BY <2>2 DEF SyncJobs, Log
    <3>2. saved.jobs[j].ended
      BY <3>1 DEF Inv, EndsBacked
    <3>3. QED BY <3>2, <1>4 DEF Outlives
  <2>3. QED BY <2>1, <2>2
<1>9. EndLoggedOnce'
  <2> SUFFICES ASSUME NEW j \in Jobs PROVE lines'[j] <= 1 \/ j \in doubt.repeated
    BY <1>5 DEF EndLoggedOnce
  <2>1. CASE j \in Finished(p) /\ j \notin doubt.repeated
    <3>1. ~jobs[j].ended /\ ~saved.jobs[j].ended
      BY <2>1, FinishedOpen DEF Inv, Outlives
    <3>2. lines[j] = 0
      BY <1>1, <2>1, <3>1 DEF Inv, EndsBacked
    <3>3. QED BY <2>1, <3>2 DEF SyncJobs, Log
  <2>2. CASE j \notin Finished(p)
    BY <2>2 DEF SyncJobs, Log, Inv, EndLoggedOnce
  <2>3. QED BY <2>1, <2>2
<1>10. QED BY <1>4, <1>5, <1>6, <1>8, <1>9 DEF Inv

(* So does one that raises between two statements,                         *)
LEMMA SyncFailsStep ==
  ASSUME Inv, NEW p \in Pools, SyncFails(p)
  PROVE  Inv'
<1>1. jobs \in JobTable /\ saved.jobs \in JobTable
  BY DEF Inv, TypeOK
<1>2. Outlives(jobs, jobs) /\ Missing(p) \in SUBSET Jobs
  BY <1>1, OutlivesSelf DEF Inv, Missing, Known
<1>3. jobs' \in JobTable /\ Outlives(jobs', jobs)
  <2>1. CASE \E part \in SUBSET Reported(p) : jobs' = Recorded(jobs, p, part)
    BY <1>1, <1>2, <2>1, SyncTables
  <2>2. CASE \E part \in SUBSET Missing(p) :
               jobs' = Closed(Recorded(jobs, p, Reported(p)), part)
    <3> PICK part \in SUBSET Missing(p) :
          jobs' = Closed(Recorded(jobs, p, Reported(p)), part)
      BY <2>2
    <3>1. part \in SUBSET Jobs /\ Reported(p) \in SUBSET Reported(p)
      BY <1>2
    <3>2. QED BY <1>1, <1>2, <3>1, SyncTables
  <2>3. QED BY <2>1, <2>2 DEF SyncFails
<1>4. Outlives(jobs', saved.jobs)
  BY <1>1, <1>3, OutlivesTrans DEF Inv
<1>5. UNCHANGED <<status, saved, lines, doubt, listings, ticking, work>>
  BY DEF SyncFails, Syncing
<1>6. TypeOK'
  BY <1>3, <1>5 DEF SyncFails, Syncing, Inv, TypeOK, NoScan
<1>7. QED BY <1>4, <1>5, <1>6 DEF Inv, EndLoggedOnce, EndsBacked

(* and one whose connection is replaced on the way.                        *)
LEMMA SyncReconnectsStep ==
  ASSUME Inv, NEW p \in Pools, SyncReconnects(p)
  PROVE  Inv'
<1>1. saved.jobs \in JobTable /\ saved.status \in StatusTable /\ lines \in [Jobs -> 0..2]
  BY DEF Inv, TypeOK
<1>2. Outlives(saved.jobs, saved.jobs) /\ Missing(p) \in SUBSET Jobs /\ Finished(p) \in SUBSET Jobs
  BY DEF Inv, Missing, Finished, Known
<1>3. jobs' \in JobTable /\ Outlives(jobs', saved.jobs)
  <2>1. CASE \E part \in SUBSET Reported(p) :
               jobs' = Closed(Recorded(saved.jobs, p, part), Missing(p))
    BY <1>1, <1>2, <2>1, SyncTables
  <2>2. CASE \E part \in SUBSET Missing(p) : jobs' = Closed(saved.jobs, part)
    <3> PICK part \in SUBSET Missing(p) : jobs' = Closed(saved.jobs, part)
      BY <2>2
    <3>1. part \in SUBSET Jobs
      BY <1>2
    <3>2. QED BY <1>1, <1>2, <3>1, ClosedType, ClosedOutlives
  <2>3. QED BY <2>1, <2>2 DEF SyncReconnects
<1>4. Outlives(jobs', jobs')
  BY <1>1, <1>3, OutlivesSelf
<1>5. saved' = [status |-> saved.status, jobs |-> jobs'] /\ status' = saved.status
  BY DEF SyncReconnects, Commit
<1>6. doubt'.torn = doubt.torn /\ doubt'.repeated = doubt.repeated \cup Finished(p)
  BY DEF SyncReconnects, Inv, TypeOK
<1>7. PICK gone \in SUBSET {j \in Missing(p) : saved.jobs[j].pool = None} :
        Log(Finished(p) \ gone)
  BY DEF SyncReconnects
<1>8. lines' \in [Jobs -> 0..2]
  BY <1>1, <1>7 DEF Log
<1>9. TypeOK'
  BY <1>2, <1>1, <1>3, <1>5, <1>8 DEF SyncReconnects, Syncing, Inv, TypeOK, NoScan
<1>10. \A j \in Jobs : j \notin doubt'.repeated => lines'[j] = lines[j]
  BY <1>6, <1>7 DEF Log
<1>11. EndLoggedOnce'
  BY <1>6, <1>10 DEF EndLoggedOnce, Inv
<1>12. EndsBacked'
  BY <1>3, <1>5, <1>6, <1>10 DEF EndsBacked, Inv, Outlives
<1>13. QED BY <1>3, <1>4, <1>5, <1>6, <1>9, <1>11, <1>12 DEF Inv

(* The steps that write no row of their own.                               *)
LEMMA OtherSteps ==
  ASSUME Inv,
         \/ OtherWrite \/ ConnectionLost \/ Restart
         \/ \E p \in Pools : ScanQueue(p) \/ RemovePool(p)
         \/ \E j \in Jobs : JobStarts(j) \/ JobEnds(j) \/ RunEnds(j)
         \/ UNCHANGED vars
  PROVE  Inv'
<1>1. CASE OtherWrite
  <2>1. saved' = [status |-> status, jobs |-> jobs]
        /\ UNCHANGED <<status, jobs, listings, ticking, scan, work, lines, doubt>>
    BY <1>1 DEF OtherWrite, Commit
  <2>2. TypeOK' /\ EndLoggedOnce'
    BY <2>1 DEF Inv, TypeOK, EndLoggedOnce
  <2>3. Outlives(jobs, jobs)
    BY OutlivesSelf DEF Inv, TypeOK
  <2>4. EndsBacked'
    BY <2>1 DEF Inv, EndsBacked, Outlives
  <2>5. QED BY <2>1, <2>2, <2>3, <2>4 DEF Inv
<1>2. CASE ConnectionLost \/ Restart
  <2>1. status' = saved.status /\ jobs' = saved.jobs
        /\ UNCHANGED <<saved, listings, ticking, work, lines, doubt>>
    BY <1>2 DEF ConnectionLost, Restart, LoseTransaction
  <2>2. scan' \in {scan, [p \in Pools |-> NoScan]}
    BY <1>2 DEF ConnectionLost, Restart
  <2>3. TypeOK'
    BY <2>1, <2>2 DEF Inv, TypeOK, NoScan
  <2>4. QED BY <2>1, <2>3 DEF Inv, EndLoggedOnce, EndsBacked
<1>3. CASE \E p \in Pools : ScanQueue(p)
  <2> PICK p \in Pools : ScanQueue(p)
    BY <1>3
  <2>1. UNCHANGED <<status, jobs, saved, listings, ticking, work, lines>>
    BY DEF ScanQueue, tables
  <2>2. TypeOK' /\ doubt'.torn = doubt.torn /\ doubt'.repeated = doubt.repeated
    <3> PICK missed \in SUBSET (IF "partial" \in Faults THEN Scans[p] ELSE {}) :
          /\ scan' = [scan EXCEPT ![p] =
               [j \in Jobs |->
                  IF j \in Scans[p] \ missed /\ work[j] \in {"in_progress", "completed"}
                  THEN work[j] ELSE "unseen"]]
          /\ doubt' = [doubt EXCEPT !.missed = @ \cup missed]
      BY DEF ScanQueue
    <3>1. missed \in SUBSET Jobs
      BY PoolsAssumption
    <3>2. QED BY <2>1, <3>1 DEF Inv, TypeOK
  <2>3. QED BY <2>1, <2>2 DEF Inv, EndLoggedOnce, EndsBacked
<1>4. CASE \E p \in Pools : RemovePool(p)
  <2>1. UNCHANGED <<status, jobs, saved, listings, work, lines, doubt>>
    BY <1>4 DEF RemovePool, tables
  <2>2. TypeOK'
    BY <1>4, <2>1 DEF RemovePool, Inv, TypeOK, NoScan
  <2>3. QED BY <2>1, <2>2 DEF Inv, EndLoggedOnce, EndsBacked
<1>5. CASE \E j \in Jobs : JobStarts(j) \/ JobEnds(j) \/ RunEnds(j)
  <2>1. UNCHANGED <<status, jobs, saved, listings, ticking, scan, lines, doubt>>
    BY <1>5 DEF JobStarts, JobEnds, RunEnds, JobMoves, tables
  <2>2. TypeOK'
    BY <1>5, <2>1 DEF JobStarts, JobEnds, RunEnds, JobMoves, Inv, TypeOK
  <2>3. QED BY <2>1, <2>2 DEF Inv, EndLoggedOnce, EndsBacked
<1>6. CASE UNCHANGED vars
  BY <1>6 DEF vars, tables, Inv, TypeOK, EndLoggedOnce, EndsBacked
<1>7. QED BY <1>1, <1>2, <1>3, <1>4, <1>5, <1>6

(* Every step of the store, of the forge and of a restart keeps it.        *)
LEMMA NextInv == Inv /\ [Next]_vars => Inv'
BY ReplaceStep, ReplaceFailsStep, ReplaceReconnectsStep, SyncJobsStep, SyncFailsStep,
   SyncReconnectsStep, OtherSteps DEF Next

(* Tables whole, completions kept and log lines backed, for ever.          *)
LEMMA Invariance == Spec => []Inv
BY InitInv, NextInv, PTL DEF Spec
-----------------------------------------------------------------------------
(* The tables keep their types.                                            *)
THEOREM Typing == Spec => []TypeOK
<1>1. Inv => TypeOK
  BY DEF Inv
<1>2. QED BY <1>1, Invariance, PTL

(* replace_runner_status: whatever fails and whoever commits, the rows of  *)
(* a pool come from one listing, unless its last write met a lost          *)
(* connection.                                                             *)
THEOREM RowsOfOneListing == Spec => []OneListing
<1>1. Inv => OneListing
  BY DEF Inv, Whole, OneListing
<1>2. QED BY <1>1, Invariance, PTL

(* sync_jobs: the end of a job is logged at most once.                     *)
THEOREM EndsLoggedOnce == Spec => []EndLoggedOnce
<1>1. Inv => EndLoggedOnce
  BY DEF Inv
<1>2. QED BY <1>1, Invariance, PTL

(* sync_jobs: a recorded completion is kept by every step.                 *)
THEOREM CompletionsKept == Spec => EndedKept
<1> DEFINE Kept == \A j \in Jobs : saved.jobs[j].ended =>
             saved'.jobs[j].ended /\ saved'.jobs[j].pool = saved.jobs[j].pool
<1>1. Inv /\ Inv' /\ [Next]_vars => Kept \/ UNCHANGED vars
  <2> SUFFICES ASSUME Inv, Inv', Next PROVE Outlives(saved'.jobs, saved.jobs)
    BY DEF Outlives, Inv
  <2>0. saved.jobs \in JobTable /\ jobs \in JobTable /\ jobs' \in JobTable
    BY DEF Inv, TypeOK
  <2>1. CASE UNCHANGED saved
    BY <2>1 DEF Inv
  <2>2. CASE saved'.jobs = jobs' /\ (Outlives(jobs', jobs) \/ jobs' = saved.jobs)
    <3>1. CASE Outlives(jobs', jobs)
      BY <2>0, <2>2, <3>1, OutlivesTrans DEF Inv
    <3>2. QED BY <2>2, <3>1 DEF Inv
  <2>3. ASSUME NEW p \in Pools, SyncReconnects(p)
        PROVE  Outlives(saved'.jobs, saved.jobs)
    <3>1. Missing(p) \in SUBSET Jobs /\ Outlives(saved.jobs, saved.jobs)
      BY DEF Inv, Missing, Known
    <3>2. CASE \E part \in SUBSET Reported(p) :
                 jobs' = Closed(Recorded(saved.jobs, p, part), Missing(p))
      BY <2>0, <2>3, <3>1, <3>2, SyncTables DEF SyncReconnects, Commit
    <3>3. CASE \E part \in SUBSET Missing(p) : jobs' = Closed(saved.jobs, part)
      BY <2>0, <2>3, <3>1, <3>3, ClosedOutlives DEF SyncReconnects, Commit
    <3>4. QED BY <2>3, <3>2, <3>3 DEF SyncReconnects
  <2>4. ASSUME NEW p \in Pools, SyncJobs(p)
        PROVE  Outlives(saved'.jobs, saved.jobs)
    <3>1. Missing(p) \in SUBSET Jobs /\ Outlives(jobs, jobs)
      BY <2>0, OutlivesSelf DEF Inv, Missing, Known
    <3>2. Outlives(jobs', jobs)
      BY <2>0, <2>4, <3>1, SyncTables DEF SyncJobs
    <3>3. QED BY <2>2, <2>4, <3>2 DEF SyncJobs, Commit
  <2>5. ASSUME NEW p \in Pools, ReplaceRunnerStatus(p)
        PROVE  Outlives(saved'.jobs, saved.jobs)
    BY <2>0, <2>5, OutlivesSelf DEF ReplaceRunnerStatus, Commit, Inv
  <2>6. ASSUME NEW p \in Pools, ReplaceReconnects(p)
        PROVE  Outlives(saved'.jobs, saved.jobs)
    BY <2>6 DEF ReplaceReconnects, Commit, Inv
  <2>7. CASE OtherWrite
    BY <2>7 DEF OtherWrite, Commit, Inv
  <2>8. CASE ConnectionLost \/ Restart
    BY <2>1, <2>8 DEF ConnectionLost, Restart, LoseTransaction
  <2>9. ASSUME NEW p \in Pools, ReplaceFails(p) \/ ScanQueue(p) \/ SyncFails(p) \/ RemovePool(p)
        PROVE  Outlives(saved'.jobs, saved.jobs)
    BY <2>1, <2>9 DEF ReplaceFails, ScanQueue, SyncFails, RemovePool, tables
  <2>10. ASSUME NEW j \in Jobs, JobStarts(j) \/ JobEnds(j) \/ RunEnds(j)
         PROVE  Outlives(saved'.jobs, saved.jobs)
    BY <2>1, <2>10 DEF JobStarts, JobEnds, RunEnds, JobMoves, tables
  <2>11. QED BY <2>3, <2>4, <2>5, <2>6, <2>7, <2>8, <2>9, <2>10 DEF Next
<1>2. Spec => [][Kept]_vars
  BY <1>1, Invariance, PTL DEF Spec
<1>3. QED BY <1>2 DEF EndedKept
-----------------------------------------------------------------------------
(* Who is closed.  The invariant ties what the tables and the scans under  *)
(* way say of a job to what the forge did with it since.                   *)
Over(j) == work[j] \in {"completed", "gone"} \/ j \in doubt.missed

(* A row says only what the forge reported, and to a pool that scans it.   *)
RowsTrue(t) ==
  \A j \in Jobs :
    /\ t[j].pool # None => j \in Scans[t[j].pool] /\ work[j] # "queued"
    /\ t[j].ended => Over(j)

(* A scan was true when it was made; a job it did not report and that the  *)
(* pool has a row of is over, in the open table and in the committed one.  *)
ScanTrue(p) ==
  \A j \in Jobs :
    /\ scan[p][j] = "unread" => scan[p] = NoScan
    /\ scan[p][j] \in {"in_progress", "completed"} => j \in Scans[p] /\ work[j] # "queued"
    /\ scan[p][j] = "completed" => Over(j)
    /\ scan[p][j] = "unseen" /\ (jobs[j].pool = p \/ saved.jobs[j].pool = p) => Over(j)

ClosedInv ==
  /\ RowsTrue(jobs)
  /\ RowsTrue(saved.jobs)
  /\ \A p \in Pools : ScanTrue(p)

(* No row and no scan says anything yet.                                   *)
LEMMA InitClosed == Init => ClosedInv
BY PoolsAssumption DEF Init, ClosedInv, RowsTrue, ScanTrue, NoJob, NoScan

(* What the forge did stays done, whatever step is taken.                  *)
Onward ==
  \A j \in Jobs :
    /\ Over(j) => Over(j)'
    /\ work[j] # "queued" => work'[j] # "queued"

(* Work at the forge only goes on: what is over stays over, and no step of *)
(* the store changes it.                                                   *)
LEMMA NextOnward ==
  ASSUME Inv, Next
  PROVE  Onward
<1>1. work \in [Jobs -> {"queued", "in_progress", "completed", "gone"}] /\ doubt.missed \in SUBSET Jobs
  BY DEF Inv, TypeOK
<1>2. CASE UNCHANGED <<work, doubt>>
  BY <1>2 DEF Onward, Over
<1>3. ASSUME NEW j \in Jobs, JobStarts(j) \/ JobEnds(j) \/ RunEnds(j)
      PROVE  Onward
  BY <1>1, <1>3 DEF JobStarts, JobEnds, RunEnds, JobMoves, Onward, Over
<1>4. ASSUME UNCHANGED work, doubt.missed \subseteq doubt'.missed
      PROVE  Onward
  BY <1>4 DEF Onward, Over
<1>5. ASSUME NEW p \in Pools,
             \/ ReplaceRunnerStatus(p) \/ ReplaceFails(p) \/ ReplaceReconnects(p)
             \/ ScanQueue(p) \/ SyncJobs(p) \/ SyncFails(p) \/ SyncReconnects(p)
             \/ RemovePool(p)
      PROVE  Onward
  <2>1. doubt \in [torn : SUBSET Pools, repeated : SUBSET Jobs, missed : SUBSET Jobs]
    BY DEF Inv, TypeOK
  <2>2. UNCHANGED work
    BY <1>5 DEF ReplaceRunnerStatus, ReplaceFails, ReplaceReconnects, Listing, ScanQueue,
                SyncJobs, SyncFails, SyncReconnects, Syncing, RemovePool
  <2>3. CASE ScanQueue(p)
    BY <1>4, <2>1, <2>2, <2>3 DEF ScanQueue
  <2>4. CASE ~ ScanQueue(p)
    <3>1. doubt'.missed = doubt.missed
      BY <1>5, <2>1, <2>4 DEF ReplaceRunnerStatus, ReplaceFails, ReplaceReconnects,
           SyncJobs, SyncFails, SyncReconnects, RemovePool
    <3> QED BY <1>4, <2>2, <3>1
  <2> QED BY <2>3, <2>4
<1>6. CASE OtherWrite \/ ConnectionLost \/ Restart
  BY <1>2, <1>6 DEF OtherWrite, ConnectionLost, Restart, LoseTransaction
<1> QED BY <1>3, <1>5, <1>6 DEF Next

(* The rows sync_jobs writes are true when its scan was.                   *)
LEMMA RecordedTrue ==
  ASSUME Inv, NEW p \in Pools, ScanTrue(p), NEW u \in JobTable, RowsTrue(u),
         NEW part \in SUBSET Reported(p)
  PROVE  /\ RowsTrue(Recorded(u, p, part))
         /\ \A j \in Jobs, q \in Pools :
              Recorded(u, p, part)[j].pool = q => u[j].pool = q \/ q = p
<1>1. \A j \in part :
        /\ j \in Jobs /\ scan[p][j] \in {"in_progress", "completed"}
        /\ j \in Scans[p] /\ work[j] # "queued"
        /\ scan[p][j] = "completed" => Over(j)
  BY DEF Reported, ScanTrue
<1> QED BY <1>1, PoolsAssumption DEF RowsTrue, Recorded, JobTable

(* Closing the jobs a true scan missed leaves true rows.                   *)
LEMMA ClosedTrue ==
  ASSUME NEW u \in JobTable, RowsTrue(u), NEW part \in SUBSET Jobs, \A j \in part : Over(j)
  PROVE  /\ RowsTrue(Closed(u, part))
         /\ \A j \in Jobs : Closed(u, part)[j].pool = u[j].pool
BY DEF RowsTrue, Closed, JobTable

(* sync_jobs closes only jobs that are over.                               *)
LEMMA MissingOver ==
  ASSUME Inv, NEW p \in Pools, ScanTrue(p), scan[p] # NoScan
  PROVE  \A j \in Missing(p) : j \in Jobs /\ Over(j)
BY DEF Missing, Known, Reported, ScanTrue, Inv, TypeOK

(* A step keeps the invariant when the tables it leaves are true and no    *)
(* pool comes to own a row while its scan is out.                          *)
LEMMA KeepsClosed ==
  ASSUME Inv, ClosedInv, Onward,
         NEW s \in JobTable, NEW u \in JobTable,
         jobs' = s, saved'.jobs = u, RowsTrue(s), RowsTrue(u),
         \A p \in Pools :
           \/ scan'[p] = NoScan
           \/ /\ scan'[p] = scan[p]
              /\ \A j \in Jobs : s[j].pool = p \/ u[j].pool = p =>
                   jobs[j].pool = p \/ saved.jobs[j].pool = p
  PROVE  ClosedInv'
<1>1. RowsTrue(jobs)' /\ RowsTrue(saved.jobs)'
  BY DEF RowsTrue, Onward
<1>2. ASSUME NEW p \in Pools PROVE ScanTrue(p)'
  <2>1. CASE scan'[p] = NoScan
    BY <2>1 DEF ScanTrue, NoScan
  <2>2. CASE scan'[p] # NoScan
    <3>1. scan'[p] = scan[p] /\ ScanTrue(p)
      BY <2>2 DEF ClosedInv
    <3> SUFFICES ASSUME NEW j \in Jobs
                 PROVE  /\ scan[p][j] = "unread" => scan[p] = NoScan
                        /\ scan[p][j] \in {"in_progress", "completed"} =>
                             j \in Scans[p] /\ work'[j] # "queued"
                        /\ scan[p][j] = "completed" => Over(j)'
                        /\ scan[p][j] = "unseen" /\ (s[j].pool = p \/ u[j].pool = p) => Over(j)'
      BY <3>1 DEF ScanTrue
    <3>2. /\ scan[p][j] = "unread" => scan[p] = NoScan
          /\ scan[p][j] \in {"in_progress", "completed"} => j \in Scans[p] /\ work[j] # "queued"
          /\ scan[p][j] = "completed" => Over(j)
          /\ scan[p][j] = "unseen" /\ (jobs[j].pool = p \/ saved.jobs[j].pool = p) => Over(j)
      BY <3>1 DEF ScanTrue
    <3>3. s[j].pool = p \/ u[j].pool = p => jobs[j].pool = p \/ saved.jobs[j].pool = p
      BY <2>2
    <3>4. (Over(j) => Over(j)') /\ (work[j] # "queued" => work'[j] # "queued")
      BY DEF Onward
    <3> QED BY <3>2, <3>3, <3>4
  <2> QED BY <2>1, <2>2
<1> QED BY <1>1, <1>2 DEF ClosedInv

(* The scans of the pools that do not take part in a step stay out.        *)
LEMMA SyncClosed ==
  ASSUME Inv, Inv', ClosedInv, Onward, NEW p \in Pools,
         SyncJobs(p) \/ SyncFails(p) \/ SyncReconnects(p)
  PROVE  ClosedInv'
<1>1. jobs \in JobTable /\ saved.jobs \in JobTable /\ jobs' \in JobTable /\ saved'.jobs \in JobTable
  BY DEF Inv, TypeOK
<1>2. /\ ScanTrue(p) /\ RowsTrue(jobs) /\ RowsTrue(saved.jobs)
      /\ scan[p] # NoScan /\ scan' = [scan EXCEPT ![p] = NoScan]
      /\ scan \in [Pools -> [Jobs -> {"unread", "unseen", "in_progress", "completed"}]]
  BY DEF ClosedInv, SyncJobs, SyncFails, SyncReconnects, Syncing, Inv, TypeOK
<1>3. Missing(p) \in SUBSET Jobs /\ \A j \in Missing(p) : Over(j)
  BY <1>2, MissingOver
<1> DEFINE Fine(t) ==
      /\ RowsTrue(t)
      /\ \A j \in Jobs, q \in Pools :
           t[j].pool = q => jobs[j].pool = q \/ saved.jobs[j].pool = q \/ q = p
<1>4. ASSUME NEW t \in {jobs, saved.jobs}, NEW part \in SUBSET Reported(p),
             NEW closed \in SUBSET Missing(p)
      PROVE  /\ Fine(Recorded(t, p, part))
             /\ Fine(Closed(Recorded(t, p, part), closed))
             /\ Fine(Closed(t, closed))
  <2> DEFINE r == Recorded(t, p, part)
  <2>1. /\ RowsTrue(r)
        /\ \A j \in Jobs, q \in Pools : r[j].pool = q => t[j].pool = q \/ q = p
    BY <1>1, <1>2, RecordedTrue
  <2>2. r \in JobTable
    BY <1>1 DEF Recorded, JobTable, Reported
  <2> HIDE DEF r
  <2>3. /\ RowsTrue(Closed(r, closed))
        /\ \A j \in Jobs : Closed(r, closed)[j].pool = r[j].pool
    BY <1>3, <2>1, <2>2, ClosedTrue
  <2>4. /\ RowsTrue(Closed(t, closed))
        /\ \A j \in Jobs : Closed(t, closed)[j].pool = t[j].pool
    BY <1>1, <1>2, <1>3, ClosedTrue
  <2>5. Fine(r) /\ Fine(Closed(r, closed)) /\ Fine(Closed(t, closed))
    BY <2>1, <2>3, <2>4
  <2> QED BY <2>5 DEF r
<1>5. Missing(p) \in SUBSET Missing(p) /\ Reported(p) \in SUBSET Reported(p)
  OBVIOUS
<1>6. Fine(jobs) /\ Fine(saved.jobs)
  BY <1>2
<1>7. Fine(jobs')
  <2> HIDE DEF Fine
  <2>1. CASE SyncJobs(p)
    BY <1>4, <1>5, <2>1 DEF SyncJobs
  <2>2. CASE SyncFails(p)
    BY <1>4, <1>5, <2>2 DEF SyncFails
  <2>3. CASE SyncReconnects(p)
    BY <1>4, <1>5, <2>3 DEF SyncReconnects
  <2> QED BY <2>1, <2>2, <2>3
<1>8. Fine(saved'.jobs)
  <2>1. saved'.jobs = saved.jobs \/ saved'.jobs = jobs'
    BY DEF SyncJobs, SyncFails, SyncReconnects, Commit
  <2> HIDE DEF Fine
  <2> QED BY <1>6, <1>7, <2>1
<1>9. ASSUME NEW q \in Pools, q # p PROVE scan'[q] = scan[q]
  BY <1>2, <1>9
<1>10. scan'[p] = NoScan
  BY <1>2
<1> QED BY <1>1, <1>7, <1>8, <1>9, <1>10, KeepsClosed

(* _scan_repo makes a scan that is true when it is made.                   *)
LEMMA ScanClosed ==
  ASSUME Inv, ClosedInv, Onward, NEW p \in Pools, ScanQueue(p)
  PROVE  ClosedInv'
<1> PICK missed \in SUBSET Scans[p] :
      /\ scan' = [scan EXCEPT ![p] =
           [j \in Jobs |->
              IF j \in Scans[p] \ missed /\ work[j] \in {"in_progress", "completed"}
              THEN work[j] ELSE "unseen"]]
      /\ doubt' = [doubt EXCEPT !.missed = @ \cup missed]
  BY DEF ScanQueue
<1>1. UNCHANGED <<jobs, saved, work>>
  BY DEF ScanQueue, tables
<1>2. RowsTrue(jobs)' /\ RowsTrue(saved.jobs)'
  BY <1>1 DEF ClosedInv, RowsTrue, Onward
<1>3. /\ scan \in [Pools -> [Jobs -> {"unread", "unseen", "in_progress", "completed"}]]
      /\ doubt \in [torn : SUBSET Pools, repeated : SUBSET Jobs, missed : SUBSET Jobs]
      /\ work \in [Jobs -> {"queued", "in_progress", "completed", "gone"}]
  BY DEF Inv, TypeOK
<1>4. ASSUME NEW q \in Pools, q # p PROVE ScanTrue(q)'
  <2>1. scan'[q] = scan[q]
    BY <1>3, <1>4
  <2> QED BY <1>1, <2>1 DEF ClosedInv, ScanTrue, Onward
<1>5. ScanTrue(p)'
  <2> SUFFICES ASSUME NEW j \in Jobs
               PROVE  /\ scan'[p][j] # "unread"
                      /\ scan'[p][j] \in {"in_progress", "completed"} =>
                           j \in Scans[p] /\ work[j] # "queued"
                      /\ scan'[p][j] = "completed" => Over(j)'
                      /\ scan'[p][j] = "unseen" /\ (jobs[j].pool = p \/ saved.jobs[j].pool = p)
                           => Over(j)'
    BY <1>1 DEF ScanTrue
  <2>1. scan'[p][j] = IF j \in Scans[p] \ missed /\ work[j] \in {"in_progress", "completed"}
                      THEN work[j] ELSE "unseen"
    BY <1>3
  <2>2. j \in doubt.missed \cup missed => Over(j)'
    BY <1>3 DEF Over
  <2>3. jobs[j].pool = p \/ saved.jobs[j].pool = p => j \in Scans[p] /\ work[j] # "queued"
    BY PoolsAssumption DEF ClosedInv, RowsTrue
  <2>4. work[j] \in {"completed", "gone"} => Over(j)'
    BY <1>1 DEF Over
  <2>5. work[j] \in {"queued", "in_progress", "completed", "gone"}
    BY <1>3
  <2> QED BY <2>1, <2>2, <2>3, <2>4, <2>5
<1> QED BY <1>2, <1>4, <1>5 DEF ClosedInv

(* Rows and scans stay true through every step.                            *)
LEMMA NextClosed ==
  ASSUME Inv, Inv', ClosedInv, [Next]_vars
  PROVE  ClosedInv'
<1>1. CASE UNCHANGED vars
  BY <1>1 DEF vars, tables, ClosedInv, RowsTrue, ScanTrue, Over
<1>2. CASE Next
  <2>1. Onward
    BY <1>2, NextOnward
  <2>2. /\ jobs \in JobTable /\ saved.jobs \in JobTable
        /\ RowsTrue(jobs) /\ RowsTrue(saved.jobs)
    BY DEF Inv, TypeOK, ClosedInv
  <2>3. ASSUME jobs' \in {jobs, saved.jobs}, saved'.jobs \in {jobs, saved.jobs},
               \A q \in Pools : scan'[q] \in {scan[q], NoScan}
        PROVE  ClosedInv'
    BY <2>1, <2>2, <2>3, KeepsClosed
  <2>4. ASSUME NEW p \in Pools, SyncJobs(p) \/ SyncFails(p) \/ SyncReconnects(p)
        PROVE  ClosedInv'
    BY <2>1, <2>4, SyncClosed
  <2>5. ASSUME NEW p \in Pools, ScanQueue(p)
        PROVE  ClosedInv'
    BY <2>1, <2>5, ScanClosed
  <2>6. ASSUME NEW p \in Pools, ReplaceRunnerStatus(p) \/ ReplaceFails(p) \/ ReplaceReconnects(p)
        PROVE  ClosedInv'
    BY <2>3, <2>6 DEF ReplaceRunnerStatus, ReplaceFails, ReplaceReconnects, Listing, Commit
  <2>7. ASSUME NEW p \in Pools, RemovePool(p)
        PROVE  ClosedInv'
    <3>1. \A q \in Pools : scan'[q] \in {scan[q], NoScan}
      BY <2>7 DEF RemovePool, Inv, TypeOK
    <3> QED BY <2>3, <2>7, <3>1 DEF RemovePool, tables
  <2>8. CASE OtherWrite \/ ConnectionLost \/ Restart
    BY <2>3, <2>8 DEF OtherWrite, ConnectionLost, Restart, LoseTransaction, Commit
  <2>9. ASSUME NEW j \in Jobs, JobStarts(j) \/ JobEnds(j) \/ RunEnds(j)
        PROVE  ClosedInv'
    BY <2>3, <2>9 DEF JobStarts, JobEnds, RunEnds, JobMoves, tables
  <2> QED BY <1>2, <2>4, <2>5, <2>6, <2>7, <2>8, <2>9 DEF Next
<1> QED BY <1>1, <1>2

(* sync_jobs closes a job because its pool no longer sees it: for any      *)
(* number of pools that scan one repository, whatever calls fail and       *)
(* whatever a lost connection takes back, only jobs that are over are      *)
(* closed, but for those a failed request left out of a scan.              *)
THEOREM OnlyEndedClosed == Spec => []ClosedWhenDone
<1>1. ClosedInv => ClosedWhenDone
  BY DEF ClosedInv, RowsTrue, Over, ClosedWhenDone
<1>2. Spec => []ClosedInv
  BY InitClosed, NextClosed, Invariance, PTL DEF Spec
<1> QED BY <1>1, <1>2, PTL
=============================================================================
