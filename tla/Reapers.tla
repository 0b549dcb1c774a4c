------------------------------- MODULE Reapers -------------------------------
(***************************************************************************)
(* Everything that removes a runner: the exited and stuck reapers and the  *)
(* deregistration in a pool's tick (docker_client.py, scaler.py), the aged *)
(* reaper of the cleanup lane (__main__.py), and an operator's stop and    *)
(* scale-down (control_routes.py).  Each looks first and removes later,    *)
(* while the runner may register, take a job or end.  The forge's view of  *)
(* a runner is what its last listing said, as far as the listing is right. *)
(***************************************************************************)
EXTENDS Integers, FiniteSets

CONSTANTS
  Pools,        \* pools that tick
  Containers,   \* runner containers, by name; each is started once
  Prefix,       \* pool -> containers that `docker ps` matches to its prefix
  Lists,        \* pool -> containers whose runners its forge listing can show
  StuckTimeout, \* stuck_timeout
  MaxLifetime,  \* max_runner_lifetime; 0 is none
  MaxAge,       \* where ages stop; bounds the model
  Readable,     \* ages docker puts in words _parse_running_minutes understands
  Faults        \* which of "ps", "top", "rm", "listing", "flicker", "store" may happen

ASSUME ReapersAssumption ==
  /\ Prefix \in [Pools -> SUBSET Containers]
  /\ Lists \in [Pools -> SUBSET Containers]
  /\ \A p \in Pools : Lists[p] \subseteq Prefix[p]
  /\ \A p, q \in Pools : p # q => Lists[p] \cap Lists[q] = {}
  /\ StuckTimeout \in Nat /\ MaxLifetime \in Nat /\ MaxAge \in Nat
  /\ Readable \subseteq Nat

VARIABLES
  life,       \* container -> where it is
  age,        \* container -> how long it has been up
  gitea,      \* containers whose forge is Gitea, the others' is GitHub
  left,       \* dead containers whose runner is still registered
  pc,         \* pool -> where its tick is
  running,    \* pool -> running_names of this tick
  listing,    \* pool -> container -> what list_runners said of its runner
  suspects,   \* pool -> containers cleanup_stuck still has to look into
  toKill,     \* pool -> containers it found stuck
  offline,    \* pool -> offline_runners of this tick
  busyRows,   \* containers whose runner_status row says busy, as a read finds it
  saved,      \* the same of the committed rows
  protected,  \* protected_containers
  exclude,    \* what the cleanup of this round must leave alone
  cleanup,    \* where the cleanup lane is
  aged,       \* containers it found too old
  stopping,   \* containers an operator's request is about to stop
  late        \* history: what happened after somebody looked

tickVars == <<pc, running, listing, suspects, toKill, offline>>
cleanupVars == <<exclude, cleanup, aged>>
rowVars == <<busyRows, saved>>
vars == <<life, age, gitea, left, tickVars, rowVars, protected, cleanupVars, stopping, late>>

LifeValues ==
  {"none", "starting", "connecting", "listening", "working", "deaf", "exited", "gone"}
Up == {c \in Containers :
         life[c] \in {"starting", "connecting", "listening", "working", "deaf"}}
Registered ==
  {c \in Containers : life[c] \in {"connecting", "listening", "working"}} \cup left

Words == {"idle", "busy", "lost", "offline", "unlisted"}
NotListed == [c \in Containers |-> "unlisted"]

NothingLate ==
  [job |-> {}, busy |-> {}, protect |-> {},
   up |-> [p \in Pools |-> {}], online |-> [p \in Pools |-> {}],
   came |-> [p \in Pools |-> {}]]

LateRecords ==
  [job : SUBSET Containers, busy : SUBSET Containers, protect : SUBSET Containers,
   up : [Pools -> SUBSET Containers], online : [Pools -> SUBSET Containers],
   came : [Pools -> SUBSET Containers]]

\* Also: what a tick has gathered does not outlive its step.
TypeOK ==
  /\ life \in [Containers -> LifeValues]
  /\ age \in [Containers -> 0..MaxAge]
  /\ gitea \in SUBSET Containers
  /\ left \in SUBSET Containers
  /\ pc \in [Pools -> {"idle", "counted", "listed", "recorded", "looking", "deregistering"}]
  /\ running \in [Pools -> SUBSET Containers]
  /\ listing \in [Pools -> [Containers -> Words]]
  /\ suspects \in [Pools -> SUBSET Containers]
  /\ toKill \in [Pools -> SUBSET Containers]
  /\ offline \in [Pools -> SUBSET Containers]
  /\ busyRows \in SUBSET Containers /\ saved \in SUBSET Containers
  /\ protected \in SUBSET Containers
  /\ exclude \in SUBSET Containers
  /\ cleanup \in {"idle", "submitted", "killing"}
  /\ aged \in SUBSET Containers
  /\ stopping \in SUBSET Containers
  /\ late \in LateRecords
  /\ \A p \in Pools :
       /\ pc[p] \notin {"counted", "listed", "recorded"} => running[p] = {}
       /\ pc[p] \notin {"listed", "recorded"} => listing[p] = NotListed
       /\ pc[p] # "looking" => suspects[p] = {}
       /\ pc[p] \in {"idle", "counted"} => offline[p] = {}

-----------------------------------------------------------------------------
(* What the calls to docker and to the forge answer.                       *)

\* `docker ps` with a name filter; its exit code is not looked at.
Ps(p) == {Prefix[p] \cap Up} \cup (IF "ps" \in Faults THEN {{}} ELSE {})

\* What one listing may say of a runner.  Under load the forge reports a
\* working runner offline, with or without its busy flag ("lost"), and the
\* listing is one page of the runners.
Truth(c) ==
  IF life[c] = "listening" THEN "idle" ELSE IF life[c] = "working" THEN "busy" ELSE "offline"

Flags(c) ==
  {Truth(c)}
  \cup (IF "flicker" \in Faults /\ Truth(c) # "offline" THEN {"offline"} ELSE {})
  \cup (IF "flicker" \in Faults /\ Truth(c) = "busy" THEN {"lost"} ELSE {})
  \cup (IF "listing" \in Faults THEN {"unlisted"} ELSE {})

Listings(p) ==
  {f \in [Containers -> Words] :
     \A c \in Containers :
       IF c \in Lists[p] \cap Registered THEN f[c] \in Flags(c) ELSE f[c] = "unlisted"}

Said(f, words) == {c \in Containers : f[c] \in words}
SaysBusy(f) == Said(f, {"busy", "lost"})
Alive(f) == Said(f, {"idle", "busy", "lost"})

\* Mutant: the runners a listing calls offline, whether or not they run.
Offline_running(p, f) == Said(f, {"offline", "lost"})

\* offline_runners: listed as offline and without a running container.
Offline(p, f) == Said(f, {"offline", "lost"}) \ running[p]

\* The age docker shows, in words: "About an hour" and, for good, weeks and
\* months are not understood, and what has no age is not old.
Old(c, limit) == age[c] \in Readable /\ age[c] >= limit

\* Where a number is wanted they count as zero.
Minutes(c) == IF age[c] \in Readable THEN age[c] ELSE 0

\* Mutant: the age alone makes a suspect.
Suspects_all(p, names) == {c \in names : Old(c, StuckTimeout)}

\* What cleanup_stuck looks into: what `docker ps` lists now, without those
\* that ran at the count and were called online or busy, and the young.
Suspects(p, names) ==
  {c \in names \ (running[p] \cap Alive(listing[p])) : Old(c, StuckTimeout)}

\* Mutant: a container docker cannot inspect counts as idle.
Jobless_unless(c) == life[c] # "working" \/ "top" \in Faults

\* has_running_job may say no: GitHub's Runner.Worker lives as long as the
\* job, a Gitea job has no process between two of its steps.
Jobless(c) == c \in Up /\ (life[c] # "working" \/ c \in gitea)

\* What docker rm -f does to a container, and to its runner's registration.
Removed(c) ==
  /\ life' = [life EXCEPT ![c] = "gone"]
  /\ left' = IF c \in Registered THEN left \cup {c} ELSE left

\* A removal by docker rm -f; it may fail.
Removal(c) ==
  \/ Removed(c)
  \/ "rm" \in Faults /\ UNCHANGED <<life, left>>

-----------------------------------------------------------------------------
Init ==
  /\ life = [c \in Containers |-> "none"]
  /\ age = [c \in Containers |-> 0]
  /\ gitea \in SUBSET Containers
  /\ left = {}
  /\ pc = [p \in Pools |-> "idle"]
  /\ running = [p \in Pools |-> {}]
  /\ listing = [p \in Pools |-> NotListed]
  /\ suspects = [p \in Pools |-> {}]
  /\ toKill = [p \in Pools |-> {}]
  /\ offline = [p \in Pools |-> {}]
  /\ busyRows = {} /\ saved = {}
  /\ protected = {}
  /\ exclude = {}
  /\ cleanup = "idle"
  /\ aged = {}
  /\ stopping = {}
  /\ late = NothingLate

(* The life of a container: a spawn of any thread starts it, its runner    *)
(* registers, connects and takes one job, and it exits.                    *)
Moves(c, from, to) ==
  /\ life[c] = from
  /\ life' = [life EXCEPT ![c] = to]
  /\ UNCHANGED <<age, gitea, tickVars, rowVars, protected, cleanupVars, stopping>>

Starts(c) ==
  /\ Moves(c, "none", "starting")
  /\ UNCHANGED left
  /\ late' = [late EXCEPT !.up = [p \in Pools |-> @[p] \cup {c}]]

Registers(c) == Moves(c, "starting", "connecting") /\ UNCHANGED <<left, late>>

Connects(c) ==
  /\ Moves(c, "connecting", "listening")
  /\ UNCHANGED left
  /\ late' = [late EXCEPT
       !.online = [p \in Pools |-> @[p] \cup {c}],
       !.came = [p \in Pools |->
                   IF pc[p] \in {"listed", "recorded"} THEN @[p] \cup {c} ELSE @[p]]]

TakesJob(c) ==
  /\ Moves(c, "listening", "working")
  /\ UNCHANGED left
  /\ late' = [late EXCEPT !.job = @ \cup {c}, !.busy = @ \cup {c}]

JobEnds(c) == Moves(c, "working", "exited") /\ UNCHANGED <<left, late>>

Dies(c) ==
  /\ c \in Up
  /\ Moves(c, life[c], "exited")
  /\ left' = IF c \in Registered THEN left \cup {c} ELSE left
  /\ UNCHANGED late

TimePasses ==
  /\ \E c \in Up : age[c] < MaxAge
  /\ age' = [c \in Containers |->
       IF c \in Up /\ age[c] < MaxAge THEN age[c] + 1 ELSE age[c]]
  /\ UNCHANGED <<life, gitea, left, tickVars, rowVars, protected, cleanupVars, stopping, late>>

-----------------------------------------------------------------------------
(* A pool's tick: _inspect_pool up to the stuck reaper, deregistration.    *)

(* cleanup_exited, then running_containers.  A removal may fail or be      *)
(* cancelled when the others took too long.                                *)
CountRunning(p) ==
  /\ pc[p] = "idle"
  /\ pc' = [pc EXCEPT ![p] = "counted"]
  /\ \E removed \in SUBSET {c \in Prefix[p] : life[c] = "exited"} :
       life' = [c \in Containers |-> IF c \in removed THEN "gone" ELSE life[c]]
  /\ \E names \in Ps(p) :
       /\ running' = [running EXCEPT ![p] = names]
       /\ late' = [late EXCEPT !.up[p] = Up \ names]
  /\ UNCHANGED <<age, gitea, left, listing, suspects, toKill, offline, rowVars, protected,
                 cleanupVars, stopping>>

(* list_runners fails and the tick ends there.                             *)
ListingFails(p) ==
  /\ pc[p] = "counted"
  /\ pc' = [pc EXCEPT ![p] = "idle"]
  /\ running' = [running EXCEPT ![p] = {}]
  /\ UNCHANGED <<life, age, gitea, left, listing, suspects, toKill, offline, rowVars, protected,
                 cleanupVars, stopping, late>>

(* list_runners, and who is to be deregistered.                            *)
ListRunners(p) ==
  /\ pc[p] = "counted"
  /\ pc' = [pc EXCEPT ![p] = "listed"]
  /\ \E f \in Listings(p) :
       /\ listing' = [listing EXCEPT ![p] = f]
       /\ offline' = [offline EXCEPT ![p] = Offline(p, f)]
       /\ late' = [late EXCEPT
            !.online[p] = (@ \cap toKill[p]) \cup
              ({c \in Containers : life[c] \in {"listening", "working"}}
                 \ (running[p] \cap Alive(f)))]
  /\ UNCHANGED <<life, age, gitea, left, running, suspects, toKill, rowVars, protected,
                 cleanupVars, stopping>>

(* _record_runner_status: the pool's rows are replaced by the listing's.   *)
RecordStatus(p) ==
  /\ pc[p] = "listed"
  /\ pc' = [pc EXCEPT ![p] = "recorded"]
  /\ busyRows' = (busyRows \ Lists[p]) \cup SaysBusy(listing[p])
  /\ saved' = busyRows'
  /\ late' = [late EXCEPT
       !.busy = (@ \ (Lists[p] \ stopping))
                  \cup {c \in Lists[p] \ busyRows' : life[c] = "working"}]
  /\ UNCHANGED <<life, age, gitea, left, running, listing, suspects, toKill, offline,
                 protected, cleanupVars, stopping>>

(* The store raises, or reconnects between two statements, and the tick    *)
(* goes on: the old rows are deleted or kept, some new ones are written,   *)
(* and the transaction is committed or left open.                          *)
RecordFails(p) ==
  /\ "store" \in Faults
  /\ pc[p] = "listed"
  /\ pc' = [pc EXCEPT ![p] = "recorded"]
  /\ \E kept \in {{}, busyRows \cap Lists[p]},
        written \in SUBSET (Containers \ Said(listing[p], {"unlisted"})) :
       busyRows' = (busyRows \ Lists[p]) \cup (kept \ written)
                     \cup (SaysBusy(listing[p]) \cap written)
  /\ saved' \in {saved, busyRows'}
  /\ late' = [late EXCEPT
       !.busy = @ \cup {c \in Lists[p] \ busyRows' : life[c] = "working"}]
  /\ UNCHANGED <<life, age, gitea, left, running, listing, suspects, toKill, offline,
                 protected, cleanupVars, stopping>>

(* What such a write left open: another thread's commit takes it along, or *)
(* a reconnect drops it.                                                   *)
StoreSettles ==
  /\ saved # busyRows
  /\ \/ saved' = busyRows /\ UNCHANGED busyRows
     \/ busyRows' = saved /\ UNCHANGED saved
  /\ UNCHANGED <<life, age, gitea, left, tickVars, protected, cleanupVars, stopping, late>>

(* The start of cleanup_stuck, with a `docker ps` of its own.              *)
FindStuck(p) ==
  /\ pc[p] = "recorded"
  /\ pc' = [pc EXCEPT ![p] = "looking"]
  /\ \E names \in Ps(p) : suspects' = [suspects EXCEPT ![p] = Suspects(p, names)]
  /\ running' = [running EXCEPT ![p] = {}]
  /\ listing' = [listing EXCEPT ![p] = NotListed]
  /\ late' = [late EXCEPT !.came[p] = {}]
  /\ UNCHANGED <<life, age, gitea, left, toKill, offline, rowVars, protected, cleanupVars,
                 stopping>>

(* has_running_job of one suspect: a job, or a docker top that fails,      *)
(* spares it.                                                              *)
Look(p, c) ==
  /\ pc[p] = "looking"
  /\ c \in suspects[p]
  /\ suspects' = [suspects EXCEPT ![p] = @ \ {c}]
  /\ \/ /\ Jobless(c)
        /\ toKill' = [toKill EXCEPT ![p] = @ \cup {c}]
        /\ late' = [late EXCEPT !.job = @ \ {c}]
     \/ /\ c \notin Up \/ life[c] = "working" \/ "top" \in Faults
        /\ UNCHANGED <<toKill, late>>
  /\ UNCHANGED <<life, age, gitea, left, pc, running, listing, offline, rowVars, protected,
                 cleanupVars, stopping>>

(* _run_parallel: the kills start side by side; after 15 seconds the tick  *)
(* goes on, those that have not started are dropped and the others finish, *)
(* here before or after the next tick's looks.                             *)
EndLooking(p) ==
  /\ pc[p] = "looking"
  /\ suspects[p] = {}
  /\ pc' = [pc EXCEPT ![p] = "deregistering"]
  /\ UNCHANGED <<life, age, gitea, left, running, listing, suspects, toKill, offline, rowVars,
                 protected, cleanupVars, stopping, late>>

KillStuck(p, c) ==
  /\ c \in toKill[p] /\ pc[p] # "looking"
  /\ toKill' = [toKill EXCEPT ![p] = @ \ {c}]
  /\ Removal(c)
  /\ UNCHANGED <<age, gitea, pc, running, listing, suspects, offline, rowVars, protected,
                 cleanupVars, stopping, late>>

(* _deregister_runner, by the id of the listing.  The forge refuses to     *)
(* delete a runner that is working; one that is not never hears of a job.  *)
Deregister(p, c) ==
  /\ pc[p] = "deregistering"
  /\ c \in offline[p]
  /\ offline' = [offline EXCEPT ![p] = @ \ {c}]
  /\ left' = left \ {c}
  /\ life' = [life EXCEPT ![c] = IF @ \in {"connecting", "listening"} THEN "deaf" ELSE @]
  /\ UNCHANGED <<age, gitea, pc, running, listing, suspects, toKill, rowVars, protected,
                 cleanupVars, stopping, late>>

(* Also when the forge answered with a rate limit: what is left over is    *)
(* dropped and the next tick sees it again.                                *)
EndTick(p) ==
  /\ pc[p] = "deregistering"
  /\ pc' = [pc EXCEPT ![p] = "idle"]
  /\ offline' = [offline EXCEPT ![p] = {}]
  /\ UNCHANGED <<life, age, gitea, left, running, listing, suspects, toKill, rowVars, protected,
                 cleanupVars, stopping, late>>

-----------------------------------------------------------------------------
(* The cleanup lane and the operator.                                      *)

\* Mutant: the protected containers are read once, at start.
SubmitCleanup_once ==
  /\ cleanup = "idle"
  /\ cleanup' = "submitted"
  /\ late' = [late EXCEPT !.protect = @ \cap aged]
  /\ UNCHANGED <<life, age, gitea, left, tickVars, rowVars, protected, exclude, aged, stopping>>

\* Mutant: a round keeps what an earlier round read.
SubmitCleanup_stale ==
  /\ cleanup = "idle"
  /\ cleanup' = "submitted"
  /\ exclude' = IF exclude = {} THEN protected ELSE exclude
  /\ late' = [late EXCEPT !.protect = @ \cap aged]
  /\ UNCHANGED <<life, age, gitea, left, tickVars, rowVars, protected, aged, stopping>>

(* One round of the main loop: the configuration is resolved, and with it  *)
(* the protected containers, before the lane gets to run.                  *)
SubmitCleanup ==
  /\ cleanup = "idle"
  /\ cleanup' = "submitted"
  /\ exclude' = protected
  /\ late' = [late EXCEPT !.protect = @ \cap aged]
  /\ UNCHANGED <<life, age, gitea, left, tickVars, rowVars, protected, aged, stopping>>

(* cleanup_aged: every runner container of the host whose age it can read. *)
FindAged ==
  /\ cleanup = "submitted"
  /\ cleanup' = "killing"
  /\ \E names \in {Up} \cup (IF "ps" \in Faults THEN {{}} ELSE {}) :
       aged' = aged \cup
         (IF MaxLifetime > 0 THEN {c \in names \ exclude : Old(c, MaxLifetime)} ELSE {})
  /\ UNCHANGED <<life, age, gitea, left, tickVars, rowVars, protected, exclude, stopping, late>>

KillAged(c) ==
  /\ c \in aged
  /\ aged' = aged \ {c}
  /\ Removal(c)
  /\ UNCHANGED <<age, gitea, tickVars, rowVars, protected, exclude, cleanup, stopping, late>>

EndCleanup ==
  /\ cleanup = "killing"
  /\ cleanup' = "idle"
  /\ UNCHANGED <<life, age, gitea, left, tickVars, rowVars, protected, exclude, aged, stopping, late>>

(* protect_container.                                                      *)
Protect(c) ==
  /\ c \notin protected
  /\ protected' = protected \cup {c}
  /\ late' = [late EXCEPT !.protect = @ \cup {c}]
  /\ UNCHANGED <<life, age, gitea, left, tickVars, rowVars, cleanupVars, stopping>>

Unprotect(c) ==
  /\ c \in protected
  /\ protected' = protected \ {c}
  /\ UNCHANGED <<life, age, gitea, left, tickVars, rowVars, cleanupVars, stopping, late>>

\* Mutant: nobody looks at the rows.
MayStop_any(c) == TRUE

\* _stop without confirm: not if the rows say busy.
MayStop(c) == c \notin busyRows

StopRequest(c) ==
  /\ life[c] # "none"
  /\ MayStop(c)
  /\ stopping' = stopping \cup {c}
  /\ UNCHANGED <<life, age, gitea, left, tickVars, rowVars, protected, cleanupVars, late>>

(* scale_pool with delta -1: the oldest container that is not busy.        *)
ScaleDown(p) ==
  /\ \E names \in Ps(p) : \E c \in names :
       /\ MayStop(c)
       /\ \A d \in names : MayStop(d) => Minutes(d) <= Minutes(c)
       /\ stopping' = stopping \cup {c}
  /\ UNCHANGED <<life, age, gitea, left, tickVars, rowVars, protected, cleanupVars, late>>

(* stop_container, for a request that did not have to be confirmed.        *)
StopContainer(c) ==
  /\ c \in stopping
  /\ stopping' = stopping \ {c}
  /\ Removal(c)
  /\ UNCHANGED <<age, gitea, tickVars, rowVars, protected, cleanupVars, late>>

(* _stop with confirm: the job may be aborted.                             *)
ConfirmedStop(c) ==
  /\ life[c] # "none"
  /\ Removal(c)
  /\ UNCHANGED <<age, gitea, tickVars, rowVars, protected, cleanupVars, stopping, late>>

-----------------------------------------------------------------------------
Tick(p) ==
  \/ CountRunning(p) \/ ListingFails(p) \/ ListRunners(p)
  \/ RecordStatus(p) \/ RecordFails(p) \/ FindStuck(p)
  \/ EndLooking(p) \/ EndTick(p)
  \/ \E c \in Containers : Look(p, c) \/ KillStuck(p, c) \/ Deregister(p, c)

Cleanup == SubmitCleanup \/ FindAged \/ EndCleanup \/ \E c \in Containers : KillAged(c)

Operator ==
  \/ \E c \in Containers :
       Protect(c) \/ Unprotect(c) \/ StopRequest(c) \/ StopContainer(c) \/ ConfirmedStop(c)
  \/ \E p \in Pools : ScaleDown(p)

Runner ==
  \/ \E c \in Containers :
       Starts(c) \/ Registers(c) \/ Connects(c) \/ TakesJob(c) \/ JobEnds(c) \/ Dies(c)
  \/ TimePasses

Next == Runner \/ Operator \/ Cleanup \/ StoreSettles \/ \E p \in Pools : Tick(p)

Spec == Init /\ [][Next]_vars

\* Rounds come and the cleanup lane runs; a `docker ps` or a `docker rm` that
\* is tried again and again succeeds one day.  Time need not pass: an age
\* stands for as long as it takes.
Fairness ==
  /\ WF_vars(SubmitCleanup \/ EndCleanup)
  /\ SF_vars(FindAged /\ aged' = aged \cup {c \in Up \ exclude : Old(c, MaxLifetime)})
  /\ \A c \in Containers : SF_vars(KillAged(c) /\ life'[c] = "gone")

LiveSpec == Spec /\ Fairness

-----------------------------------------------------------------------------
(* Properties.                                                             *)

\* has_running_job is asked last: a container condemned as stuck works only
\* if it took its job after the look, or if a Gitea job was between two steps
\* and the listing or the count had left the runner out.
StuckSparesJobs ==
  \A p \in Pools : \A c \in toKill[p] :
    life[c] = "working" => c \in late.job \/ (c \in gitea /\ c \in late.online[p])

\* A runner that waits for jobs, or has one, is condemned as stuck only if it
\* came online after the tick's listing, or one of the tick's two answers
\* left it out.
StuckSparesOnline ==
  \A p \in Pools : \A c \in toKill[p] :
    life[c] \in {"listening", "working"} => c \in late.online[p]

\* The containers are counted before the runners are listed: a runner to be
\* deregistered is dead, unless it started since or the count missed it.
DeregistersDead == \A p \in Pools : offline[p] \cap Up \subseteq late.up[p]

\* What the aged reaper is about to kill was not protected when the round
\* began.
AgedSparesProtected == aged \cap protected \subseteq late.protect

\* A stop nobody confirmed aborts a job only if, since the last listing of
\* the runner's pool that was written down, the job began or the forge hid
\* it, or if a write that failed half-way lost its row.
StopAsksFirst == \A c \in stopping : life[c] = "working" => c \in late.busy

\* max_runner_lifetime is the backstop for every leak: whatever its state and
\* whatever failed on the way, a container older than that ends, unless
\* somebody protects it or its age is no longer one the reaper can read.
NoLeak ==
  MaxLifetime > 0 =>
    \A c \in Containers :
      c \in Up /\ age[c] >= MaxLifetime
        ~> c \notin Up \/ c \in protected \/ age[c] \notin Readable

\* example.config.yml: "kill any runner container older than this many
\* minutes, whatever its state".
OldIsKilled ==
  MaxLifetime > 0 =>
    \A c \in Containers :
      c \in Up /\ age[c] >= MaxLifetime ~> c \notin Up \/ c \in protected

\* README.md: cleanup_stuck kills "containers that fail to register within
\* stuck_timeout": none is suspected that ran when the tick began and was
\* online when it asked the forge.
SuspectsNeverOnline ==
  [][\A p \in Pools : \A c \in (suspects'[p] \ suspects[p]) \cap running[p] :
       life[c] = "listening" => c \in late.came[p]]_vars
=============================================================================
