# A TLA+ development of rorch, the self-hosted runner swarm

rorch keeps ephemeral CI runner containers on one docker host. It polls GitHub or
Gitea, and for every configured pool starts as many containers as its queue needs,
within the pool's `max_runners` and the host's `max_total_runners`. This directory
holds TLA+ models of its orchestrator (`orchestrator/rorch/`), the TLC
configurations that check them, and TLAPS proofs of their main safety properties.
Paths without a directory below are files of `orchestrator/rorch/`.

## 1. Inventory

| Part | State it keeps | Operations | What must hold |
|---|---|---|---|
| Pool scaler, `scaler.py` | reservations and cap under `_cap_lock`; poll schedule, repository cache, last counts under `_state_lock` | `tick`, `_reserve_spawns`, `_release_spawns`, `_run_runner_operations` | neither limit is passed; every reservation goes back once; ticks end |
| Tick lanes, `lanes.py` | lane -> last future | `submit`, `forget_except`, `_run` | one job at a time per lane |
| Main loop, `__main__.py` | stop event, tick count, two executors | `_tick`, `_cleanup`, `_housekeeping`, `_shut_down` | pools tick independently; the daemon ends only when asked and cleanly |
| Resolver, `resolver.py` | none (reads the store each round) | `resolve`, `state_for` | a round sees overrides no older than its start |
| GitHub gate, `github_client.py` | cooldowns, failure counts, slots, mutation lock | `_request` | cooldowns hold, mutations are spaced, calls return |
| Shared scan and conditional cache, `github_client.py` | answers by token and path, one lock each | `_get_shared`, `_drop_stale_scans` | one fetch at a time, bounded age |
| Docker client, `docker_client.py` | build lock and retry times | `spawn_runner`, `ensure_image`, three reapers, prunes | no runner with a job is killed by a reaper; one build at a time |
| Store, `store.py`, `dialect.py` | one database connection under one lock | status, jobs, overrides, events | a reader never sees half of a replacement |
| Control API, `server/control_routes.py`, `server/auth.py` | config lock, keys in flight | pool and global edits, stop, scale, idempotent replay | edits are not lost; a retry does nothing twice |
| Federation, `federation.py` | own snapshot, peers' snapshots | `refresh`, `split`, `queue_input` | a job is neither claimed twice nor left |
| Gitea client, read routes, payloads, metrics, version | none | reads | - |
| Configuration file, `config.py` | none after start | parse, validate | - |
| Dashboard (`dashboard/`), runner image, scripts, CI | outside the daemon | - | - |

How they interact. The main thread resolves the configuration once per round
(`ConfigResolver` reads the `Store`), sets the scaler's cap, and submits one job
per pool to `TickLanes`. A pool's job is `PoolScaler.tick`: it reads docker
(`running_containers`), the forge (through the GitHub gate), the store, and then
runs deregistrations and `spawn_runner` on worker threads of its own. All ticks
share the cap lock, the request slots, the mutation lock and the build lock. A
second executor runs cleanup and housekeeping. The control API runs in its own
threads of the same process; it edits the store (which the next round reads) and
calls docker directly. Peers exchange snapshots over HTTP.

What is hard here: several ticks at once around a counted and reserved cap; the
long gap between a tick's observations and its effects; state captured at
submission and used later; answers of concurrent requests in any order; failing
docker commands, submits and database statements; restarts in the middle of
spawns; and the operator acting at any moment. `PROJECT.json` lists these as
hazards, each with its line and the properties that cover it.

## 2. Modules

| Module | Models | Instances |
|---|---|---|
| `RunnerBudget` | abstract: pools claim runners in one step within both limits | used by `PoolScaler` |
| `PoolScaler` | the scaling tick, reservations, cap, workers | `MCPoolScaler` |
| `TickLanes` | main loop, lanes, executors, shutdown, operator edits | `MCTickLanes` |
| `GitHubClient` | the request gate | `MCGitHubClient` |
| `Store` | the shared connection, `runner_status`, `runner_jobs` | `MCStore` |
| `Reapers` | everything that removes a runner or its registration | `MCReapers` |
| `Overlay` | abstract: the configuration overlay, one atomic edit at a time | extended by `ControlApi` |
| `ControlApi` | concurrent requests: serialized edits, idempotent actions | `MCControlApi` |
| `Federation` | hosts that share one pool's queue | `MCFederation` |
| `PoolScaler_proofs`, `TickLanes_proofs`, `GitHubClient_proofs`, `Store_proofs`, `Reapers_proofs`, `ControlApi_proofs`, `Federation_proofs` | theorems | - |
| `Induction` | lemmas on induction, recursive functions and sums, used by `Federation_proofs` and `GitHubClient_proofs` | - |

Operators named `X_something` are variants of the operator `X` with one plausible
mistake in it. Nothing uses them: `PROJECT.json` pairs each property with one, and
replacing `X` by it makes the property fail, which shows the property notices it.

### PoolScaler

A *slot* is one spawn and the container it becomes. Its life is in `grant`
(reserved and queued, being started, finished but not yet released, dropped by a
failed submit), `ctr` (whether docker runs it) and `owner`. The tick of a pool is
`pc`: `Inspect` counts its own containers, `InspectionFails` or `Decide` follow
when the forge has answered, `CountRunning` and `Grant` are the two halves of
`_reserve_spawns` under the cap lock, and `EndTick` is the `finally` of
`_run_runner_operations`. Workers take `StartSpawn`, `ContainerUp` or
`SpawnFails`, and `ReleaseSlot`. `_reserve_spawns` is split because `docker ps`
runs between reading the cap and granting, while containers start and stop.

`Faults` switches on three things the code does not guard against: `manual`
(`scale_pool` +1), `ps` (a failed `docker ps` counts as zero) and `submit`
(`executor.submit` raises). `OwnContainer` counts the orchestrator's own container,
whose name matches the counted prefix: with it the usable ceiling is one lower.

Assumptions, and why:
- one tick per pool at a time: `TickLanes` proves it of the lanes;
- a container that stops is gone at once (`docker ps` lists only running ones), and
  every reaper, job end and operator stop is `ContainerStops`;
- `docker ps` is one atomic observation;
- after a restart, a `docker run` dockerd had accepted has completed or not before
  the first tick counts;
- a personal pool's per-repository counts are one snapshot; its grant is at most the
  sum of its repositories' needs, as `_tick_personal` computes;
- pools' container prefixes do not overlap (`config.py` warns when they do);
- the poll schedule only decides *whether* a tick inspects, so any tick may.

`RunnerBudget` is the abstract specification: `Claim` and `Vacate`. `BudgetSpec`
says that `PoolScaler` implements it under the mapping `claimed[p] = Own(p)`.

### TickLanes

`loop` is the main thread's place in a round. `BeginRound` and `ReadStates` are the
reads of `resolve()` (pools and globals, then states); `SubmitTick` captures the
state the round resolved; `ForgetRemoved` is `forget_except`, skipped while
everything is paused; `SubmitCleanup` and `SubmitHousekeeping` are the chores;
`WakeUp` ends the sleep. Each executor is a queue and a number of workers. `book`
is `TickLanes._running`. A future is a lane and a number, so that two futures of
one lane could exist and the exclusion of duplicates is not built in. `mode` joins
paused and draining, both of which forbid spawns. History variables: `late` counts the
ticks of a pool that asked for runners since the operator's last edit although the
pool is removed or held, `afterStop` the jobs a lane got since the stop signal.

`Workers` is the executor's size as `_bounded_env` computes it: `POOL_TICK_WORKERS`, or
a worker per pool of `config.yml` and at least eight, clamped to 1..64. With a small
setting, and with pools created through the API later, which are not counted, pools
share workers and may wait for one; `PoolsKeepTicking` says that each still gets its
turn.

A call may hang for ever, as docker's subprocesses and the reads of the database have
no timeout. `JobHangs` says where: in a call that holds nothing others need, in the
`docker ps` under the scaler's cap lock, in a pull or build under the docker client's
build lock, or in a statement under the store's lock; `LoopHangs` is the same of the
main thread. `Locked` lists who then waits: every tick that spawns for the cap lock and
the build lock, and everything that touches the store (`resolve()` of the main loop,
ticks, chores and the operator's edits) for the store's.

### GitHubClient

A call is `waiting` for a request slot, `slotted`, `pacing`, and `flying`. Times are
kept as seconds left, so the model has no last second and liveness is not an effect
of a bound. `strays` is a history variable: requests of a token sent during its
cooldown. Several tokens interact only through slots and the mutation lock, so one
token with three callers is checked. A 304 is an answer like a 200.

### Store

All threads share one connection under one lock, so a method is one step. The
difficulty is the connection's transaction: `_write` and the two multi-statement
methods commit at their end, nothing rolls back, and `_execute` repeats a statement
on a new connection when the server dropped the old one. So `status` and `jobs` are
what the connection sees and `saved` is what is committed. `ReplaceRunnerStatus` and
`SyncJobs` are the methods as they should go; `ReplaceFails` and `SyncFails` raise
between any two statements and leave the transaction open for `OtherWrite` of any
thread to commit; `ReplaceReconnects` and `SyncReconnects` lose what came before the
reconnect. `ScanQueue` and `SyncJobs` are separate because a tick does other calls
in between, while other pools scan the same repository. A row of `runner_status` is
the number of the listing that wrote it. History variables: `lines` counts the log
lines of a job's end, `doubt` records what a lost connection or an incomplete scan
touched, and each property says exactly which of those it excuses. A scan is incomplete
when a request failed, and also when a repository has more active runs, or a run more
jobs, than one page of 50 (`github_client.py:470`, 488).

### Reapers

A container's `life` runs from `starting` (entrypoint), `connecting` (registered),
`listening` (online) and `working` to `exited` or `gone`; `deaf` never registers and
`left` are registrations whose container is dead. A tick is `CountRunning` (`docker
ps`, and `cleanup_exited`), `ListRunners` (the forge's listing, and who of it is to be
deregistered), `RecordStatus` or `RecordFails` (the rows of `runner_status`),
`FindStuck` (the stuck reaper's own `docker ps`), `Look` (`has_running_job`, one
container at a time), `KillStuck`, `Deregister`. The cleanup lane is
`SubmitCleanup` (the round resolves the protected set), `FindAged`, `KillAged`. The
operator protects, stops with and without confirmation, and scales down. `Faults`
lets `docker ps`, `docker top` and `docker rm` fail, lets a listing leave a runner
out or show a working one offline, and lets the write of the status rows fail. Every
property compares what a reaper is about to do with the truth, and excuses it only by
what it could not see or what happened *after it looked* (`late`).

Four things the code knows only roughly:
- A failed status write is swallowed (`scaler.py:605`): the old rows are deleted or
  kept, some new ones written, and the transaction is open. `busyRows` is what a read
  finds, `saved` what is committed; `StoreSettles` is another thread's commit or a
  reconnect that drops the open half.
- Docker shows ages in words, and `_parse_running_minutes` understands some of them.
  `Readable` is the set of ages it does; "About an hour" is a gap between two readable
  ages, weeks and months are unreadable for good. `Old` is never true of an unreadable
  one, and where a number is wanted (`ScaleDown`) it counts as zero.
- `has_running_job` finds a GitHub job's `Runner.Worker` as long as the job lasts, but a
  Gitea job has no process between two steps (`docker_client.py:317`). `gitea` is chosen
  at the start; of a Gitea runner `Jobless` may hold while it works.
- A listing may be wrong of a runner, or be a page that leaves it out (`Flags`).

`docker rm -f` of a container is one step; ages are counted up to `MaxAge`.

### Overlay and ControlApi

`Overlay` is the abstract specification: rows of `pool_overrides` and `pool_state`,
which requests are answered with an edit (`Permitted`), what an edit makes of a row
(`NewRow`, `NewFlags`), and `Edit` as one step. `ControlApi` extends it with request
threads. A `@serialized` handler is `Arrive`, `ReadRow` (under `config_lock`: read,
merge, validate), `WriteRow` or `WriteFails`, and `Audit`; `patch_globals` is
`PatchGlobals`, then `SetGlobal` key by key or `RefuseGlobals`. An `@idempotent`
request is `Claim`, `Lookup`, `Spawn`, and `Record` or `RecordFails`. `Crash` may come
anywhere and may leave a `docker run` done that nobody will remember. `EditsAtomic`
says that all of it implements `OverlaySpec` with the same `overrides` and `states`.
A row's data is the set of fields it overrides; one `state` request sets one flag.
`spawned` and `lost` count runners per key and are history variables.
`WriteFails` writes nothing; a commit that fails after its statement ran, which leaves
the transaction open, is modelled in `Store` only.

### Federation

A host publishes a snapshot (`own`) with the counts of its last tick, keeps what it
last fetched from each peer (`view`) until it expires, and ticks in two steps:
`Inspect` (count, scan, `covers`, `queue_input`) and `Spawn` (heat and ceiling).
`Split` deals a queue out job by job (`Deal`) as `split` does: most free cores per job already
given, first by name among equals, never past `Capacity`; quotients are compared by
cross-multiplying. A snapshot carries a temperature, and whoever reads it, the host
itself or a peer, compares it with its *own* `MaxTemp` (`TooHot`), so `Capacity`, `Best`,
`Deal` and `Split` take the host that computes as a parameter. Fetches fail, views expire, hosts that are not `Steady` stop,
restart or get hot, and a stopped host's last snapshot can be fetched for ever,
because freshness is the time of the fetch. `covers` and `queue_input` read the views
in one step here; in the code a view may expire in between, which only makes the
split the host's own.

## 3. Runs

| Run | Result | Shows |
|---|---|---|
| `scaler_cap` | passes | reservations are exact and return, the cap (moving between 2 and 3) holds, growth respects the cap a grant read, ticks end, `RunnerBudget` is implemented (which contains `max_runners`) |
| `scaler_faults` | passes | with every fault and restarts, the counter never counts a slot nobody holds |
| `lanes_safe` | passes | no duplicate tick, edits late by at most two ticks, at most one more job per lane after the stop signal |
| `lanes_live` | passes | with three pools on two workers, a hung pool stops only who needs a lock it holds, and never, but for the store's, the chores; a stop ends |
| `github_gate` | passes | cooldowns kept, strays bounded, mutations spaced, calls return |
| `store_board` | passes | rows of a pool are one listing, completions stay, an end is logged once, only jobs that are over are closed, none is shown running for good |
| `reapers` | passes | no reaper, deregistration or unconfirmed stop hits a runner that it could see was fit when it looked; every leak with a readable age ends |
| `control_edits` | passes | edits are atomic, a key starts one runner and is given back, requests end |
| `federation_share` | passes | hosts that hold the same snapshots, and agree on what is too hot, deal the queue out exactly; no job waits for ever |
| `lanes_database` | violated | a database read that raises ends the daemon |
| `reapers_prefix` | violated | the stuck reaper of repository `api` suspects online runners of `api-web` |
| `control_removed` | violated | a `config.yml` pool removed, created and removed again is live |

The violated runs state what the repository's own text promises; the findings in
`PROJECT.json` quote it.

Bounds. Scaler: two pools, one with one worker and one with two, are enough for every
pair of ticks to interleave around the lock; four slots exceed both caps (2 and 3) and
each `max_runners` (3 and 2), so each limit can bind first; demands 0, 1, 2 and 4 lie
below, between and above the limits. Lanes: two pools over two workers, one of them
edited, suffice for a lane to be removed and created again during its tick; two
numbers per lane let a duplicate appear; `PruneEvery` = 2 makes rounds with and
without housekeeping. `lanes_live` has three pools on two workers: one that may hang, in
any of the four places, and one created while the daemon runs; two hangs and an idle
worker, or a hang and a full executor, are within reach. Gate: three callers over two slots make a caller wait while two
others meet a limit; waits of 0 and 2 seconds and a backoff from 1 to 2 give cooldowns
that overlap and shrink; `MaxFailures` bounds only the doubling, which is capped
before. Store: two listings of two runners are the least for rows to mix, and one job
that both pools' scans see is the least for them to disagree. Reapers: one container,
as no step of a reaper depends on another container; ages 0 to 3, of which 0 and 2 can
be read, so that both limits (2) fall on a readable age between two unreadable ones,
and the last is unreadable for good; `api` and `web` are the two
listings the prefix finding needs. Control: two threads, one `config.yml` pool and one
that only the API can create, one field, one key that may start two runners. Federation:
two hosts, the one that may stop sorting first and having more room, one job at a
time; the split itself is checked for every queue length up to one more than all
hosts' room. Temperature 1 is too hot for the first host only, whosever it is.

Deadlock is checked in every run but those of `Reapers`, where each container name is
started once, so everything can be over.

### Disagreements without a run

Met while modelling and not among the regular runs; each is visible in the module named,
and three have a configuration of their own.
- `scale_pool` +1 (`server/control_routes.py:86`) looks at no limit, while
  `example.config.yml:12` calls `max_total_runners` a hard ceiling (`ManualSpawn`).
- A failed `docker ps` (`docker_client.py:203`) reads as an empty host, so a full pool
  spawns again; `README.md:527` has "Never exceeds `max_runners`" (`PsCounts`).
- When `executor.submit` raises (`scaler.py:411`), slots already released by their
  workers are released again, against `scaler.py:146` (`SubmitFails`, `EndTick`).
- Mutations are spaced but may overlap in flight, as the lock is left before the
  request is sent (`github_client.py:198`); `github_client.py:111` says serial.
- Two pools on one repository each announce the start of a job the other recorded, at
  every scan (`store.py:393`, `Known`); `store.py:383` promises one line.
- `Idempotency-Key` works on stop, restart and scale only; the repository's
  `README.md:218` says any POST.
- `docker ps` runs under the cap lock (`scaler.py:151`), so a pool whose command does
  not return stops every other pool that spawns, against `lanes.py:4`, "so one slow pool
  never delays another", and `__main__.py:85`, "a slow pool delays only itself". The
  property `SlowDelaysOnlyItself` says so, and `MCTickLanes_slow.cfg` shows it violated.
- `__main__.py:164` says "so no pool waits for another"; with a smaller
  `POOL_TICK_WORKERS`, more than 64 pools or pools created later, pools do, of which
  `__main__.py:248` warns in part (`Workers`).
- A container whose age docker gives in weeks or months is skipped by the aged reaper for
  good (`docker_client.py:128`, 433), against `example.config.yml:17`, "whatever its
  state". The property `OldIsKilled`; `MCReapers_weeks.cfg` shows it violated.
- `example.config.yml:107` says that a container with a job in progress "is never
  killed"; a job taken between the look and the kill is, and a Gitea job between two
  steps may be (`StuckSparesJobs` says when).
- Peers with different `max_temp_c` deal one queue differently from the same snapshots
  (`federation.py:131`, 297), against the repository's `README.md:358`, "runs the same
  deterministic split": a job may be given to a host that does not take it, and waits
  for the rescue age. The property `SameSplitEverywhere`; `MCFederation_temps.cfg` shows
  it violated.
- A patch of a removed `config.yml` pool switches it on again (`NewRow`), and a pool's
  state row outlives its removal, so a pool created again may start paused (`Overlay`).

## 4. Fairness

- `PoolScaler`: weak fairness of a tick's own steps (docker, the forge and threads
  answer), strong fairness of the steps that wait for the cap lock: the lock is free
  during most of every poll interval and a thread waiting for it gets it. No tick
  need ever start. The code's docker calls have no timeout, so `TicksEnd` says that
  ticks end *if docker answers*; `TickLanes` looks at ticks that hang.
- `TickLanes`: the main thread and the workers are scheduled; a job that does not
  hang returns, unless it may need a lock that a hung call holds (`Blocked`). Nothing
  obliges the operator or a signal, and nothing obliges a call to hang or not to.
- `GitHubClient`: requests time out after ten seconds, the pacing sleep ends, a
  waiting thread gets its slot and the lock, and time passes.
- `Store`: a pool that is not removed keeps scanning, and not every `sync_jobs` of it
  ends in an error or a restart.
- `Reapers`: rounds come and the cleanup lane runs; a `docker ps` and a `docker rm` of a
  container that are tried again and again succeed one day. Nothing is assumed of
  ticks, of the forge, of the runners or of time: an age stands for as long as it takes.
- `ControlApi`: every statement and docker call returns, and a thread waiting for
  `config_lock` gets it, as the lock is free again and again.
- `Federation`: jobs age, runners take and end jobs, and the `Steady` hosts tick.
  Nothing is assumed of the other hosts or of any fetch.

## 5. Proofs

All proofs are for any sets of pools and slots and any limits; slots are finite.

`PoolScaler_proofs`. `CapNeverExceeded` alone is not inductive: between counting and
granting, what keeps the total below the cap is that containers counted plus slots
reserved cover every slot. The inductive invariant has these parts:
- `Shape`: a slot has an owner exactly while reserved or running, only a spawning
  tick holds reservations, the counting pool holds the lock, drops need a raised
  submit. It holds under every fault.
- `NothingDropped` and `ReservedExact`, without failing submits.
- `GrantedCovers` and `NoStrandedHeadroom`, under every fault: when submits raise, a
  tick releases at least what it still holds, so the clamped counter never exceeds
  the held slots.
- `SeenCovers`: while a pool counts, the slots occupied are at most the containers
  it saw plus `reserved`. A spawn that starts moves from one term to the other only
  upwards, and a release, which lowers `reserved`, waits for the lock.
- `SnapshotCovers`: a tick's snapshot of its own containers can only be too high,
  as only this tick adds to them.

From these follow `Typing`, `ReservationsExact`, `HeadroomNeverStranded`, `CapHolds`,
`PoolLimitHolds`, `GrowthStaysWithinCap` and the refinement `ImplementsBudget`. Each
theorem names in its assumptions the faults it excludes.

`TickLanes_proofs`. `BookShape` (exactly the booked future of a lane is in use) and
`QueueShape` (queues hold queued futures, each once) give `LanesExclusive`.
`StopsInOneRound` needs `RoundRoom`: a lane the round under way may still submit to has
had no job since the stop signal, and the loop begins no other round.
`EditsLateByTwoTicks` needs `LateRoom`: a tick that
may still spawn, and a submission the round under way has already decided, each leave
room for one more late tick, and a submission not yet made excludes an unfinished
tick by the time it is made.

`GitHubClient_proofs`. `CallShape` (a call under way has a token) supports all of it.
`PacerShape` says that only the lock's holder paces and that what is left of its sleep
plus the time since the last mutation is at least the delay: hence
`MutationsAreSpaced`. `StrayRoom` bounds the requests already sent in a cooldown
together with those committed to being sent: a cooldown begins with the answer to a
call that is then over, so one thread is not committed, and none commits later: hence
`StraysAreBounded`. `CooldownIsKept` follows from what an answer does to cooldowns, and
`RequestsBounded` from a slot being given back once whatever the answer.
The backoff's `2 ** (failures - 1)` is the recursive function `PowerOfTwo`, as the
provers have no theory of powers; that it is defined and a natural number everywhere,
and that a further failure never shortens the backoff, are `PowersOfTwo` and
`BackoffBounded`.

`Store_proofs`. `Whole` says of the open and of the committed table that a pool's rows
come from one listing unless its last write lost a connection: a method that raises
leaves its rows whole or untouched in the open table, so whatever another thread
commits later is whole too. For
the log, `EndsBacked` ties a line that was written to a committed completion, which
`CompletionsKept` shows is never taken back; so a second line needs a call that lost
its connection after reading. `OnlyEndedClosed` needs the scans as well as the rows:
`RowsTrue`, of the open and of the committed table (a row's pool scans its job, a
completion is backed by the forge or by an incomplete scan), and `ScanTrue` (a job a
pool's last scan did not report, and that the pool has a row of in either table, is
over). `ScanTrue` stays true however old the scan gets because work at the forge only
goes on (`NextOnward`); it is why `Known` asking for the pool's own rows is enough.

`Reapers_proofs`. Each property speaks of what is about to be killed, and needs a
strengthening about what was gathered before. `Heard`: until the stuck reaper begins,
who is online is known to both of the tick's answers or recorded as left out; hence
`SuspectsOnline` (a suspect is online only if late). It carries `OnlineSpared`, and also
`JobsSpared`: where `has_running_job` may be wrong, for Gitea, a working suspect was left
out. `Counted`: every container that is up was counted or is late. `Excluded`: what is
protected was resolved with the round or is late. `RowsTell`: a working runner's row says
busy, in the open and in the committed table, or it is late, hidden or lost; it takes
both tables as `StoreSettles` may go either way. Any pools, containers, prefixes,
readable ages and forges, every fault.

`ControlApi_proofs`. `PlanCurrent` says that what a request inside an edit is about to
write is what its request makes of the rows *as they are now*; `config_lock` makes it
inductive, and with it every `WriteRow` is an `Edit` (`OverlayImplemented`).
`ClaimsKept` is inductive with the types; `Accounted` (every runner of a key is
remembered, lost, or held by the one request that has the key) gives `OneRunnerPerKey`.

`Typing` is proved in every one of these modules; for `TickLanes` and `Reapers` no run
repeats it, and `PoolLimitHolds` follows in the run from `BudgetSpec`.

`Federation_proofs`. The peak of a host's runners, those its tick is about to spawn
included, is within `max_runners` by a bound that is part of `TypeOK` and inductive with
the types: a job that starts moves a runner from idle to busy, the second half of a tick
adds no more than the first half asked for. `SplitExact` is about one split over *any*
snapshots, agreed or not: while jobs are dealt, nobody is over its room, and either all
jobs so far have been given or everybody is full (`Dealt`, by induction over the jobs).
It rests on `BestIsOpen`: comparing quotients by cross products, ties broken by name, is
total and transitive (`CrossTransitive`), so there is always a best host among those
with room. `SplitFair` is the other half of what `split` promises, sharing by free cores:
no host with room left over had a better claim to a job than the host that has it, which
one turn of the loop keeps (`DealFairly`). `SameSplit` says that a split depends on the snapshots, and on what the host that computes
finds too hot, only; together they give `SharesAreExact` in every state that has the
types, for any number of hosts and any limits. Its premise is exact: hosts with different
verdicts on one temperature deal differently (`SameSplitEverywhere`). `RescueHeeded` is the safety half of `JobsServed`: whatever share a host works
out from stale views, its tick provides for every old job, up to `max_runners`.

`Induction`. The library's induction rules take an operator as a parameter, which the
provers cannot instantiate; `SetInduction` states induction over a *set* and follows
from `NatLessThanWellFounded` and `WFMin`, which do not. From it: a recursive function
exists and is unique (`IterationExists`, `IterationUnique`, `RecursionExists`),
induction over the subsets of a finite set in the order a fold takes its elements
(`PeelInduction`), what `SumFunctionOnSet` unfolds to (`SumUnfolds`), and from that how
sums grow. Nothing in it is assumed.

Only model-checked: the liveness properties, as `ENABLED` and fairness are out of the
prover's reach. Every invariant and every action property a
passing run checks is also a theorem.

## 6. Not modelled, and what could follow

In this order of use:
1. The poll schedule: `github_poll_interval`, the rate-limit deferral and the
   repository cache of `scaler.py`. `PoolScaler` lets any tick inspect or fail, which
   covers their safety but not that a deferred pool is polled again.
2. The personal pool's allocation loop as operators; that it deals out the whole grant.
3. `ensure_image`: one build lock, a backoff, many spawns waiting.
4. `_get_shared`: two threads can fetch the same path at once after an eviction. It
   costs a request; the models' scans are at least as old as its answers.
5. The token guard's lockout counter, retention of the history tables, start-up.
6. A composition of `TickLanes` and `PoolScaler`: an operator's drain against the
   grants of a tick under way. Each side's half is in its module: ticks decide from the
   state at submission (`LateByTwoTicks`), grants from the cap they read.

Left out for good: docker's prunes (one command each), parsing of configuration,
read-only routes and pages, host metrics, the dashboard's proxy, the runner image,
scripts and CI. They keep no state that other parts of the daemon depend on.
