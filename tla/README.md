# Formal models of mandala

TLA+ models of the parts of mandala where several processes, sockets, files,
threads and remote commands meet: leadership of a fleet context and the calls
made through it, the launch and supervision of a deploy run, the engine and its
event streams, the activation of one host, process groups and signals, the
evaluators and their workers, the build forest, and the explorers that show all
this. TLC checks the models on small instances (`*.cfg`), TLAPS proves the main
safety properties of the core for every value of the constants
(`*_proofs.tla`). `PROJECT.json` lists the runs, which definition models which
lines, the mutants, the hazards and the theorems.

    tlc -workers 2 -config MCElection.cfg MCContextElection
    tlapm ContextElection_proofs.tla

## Inventory

Everything is under `src/crates` unless said otherwise. The last column names
the modules; a dash is a part that is not modelled.

| component | state it keeps | operations | what is hard | what makes it correct | modules |
|---|---|---|---|---|---|
| context election, `mandala-context` (`lib.rs`, `host.rs`, `discovery.rs`, `identity.rs`) | who listens on which port of a hashed range, the discovery file, bearer tokens | `acquire`, `rotate_token`, `shutdown`, drop | processes that contend, crash, rotate and read stale files; a bind is the only lock | one leader; nobody holds a port by accident; tokens converge; `acquire` returns | `ContextElection` |
| context session and wire (`fleet.rs`, `client.rs`, `host.rs` `serve_conn`, `protocol.rs`) | role, waiters, in-flight and unsettled counters, event sinks | `call`, `subscribe`, re-race, drain | calls that race with EOF, several losers of one connection, drain accounting | answers mean execution, mutations run at most once, no call or stream hangs | `FleetCall`, `ContextSession` |
| deploy launch, `mandala-core` `runner.rs`, `supervisor.rs`; `mandala/src/supervisor.rs` | launch directory, its lock and pid file, launch log | `DeployRun::start`, `discover_run`, `finished`, `returncode`, the supervisor | any process may be killed between two steps; another frontend prunes meanwhile | nothing live is pruned; discovery ends; verdicts are true | `DeployLaunch` |
| run registry, `mandala-core/registry.rs` | run directories, `meta.json` | allocate, write, list, prune, `liveness` | reads at several moments make one verdict | as above | `DeployLaunch`, `DeployEngine` |
| deploy engine, `mandala-core/engines/deploy.rs` | plan, built profiles, host results | register, build, recover, fan out, settle | failures on every step, a throttle, panicking tasks | the recorded return code is what happened; the run ends | `DeployLaunch`, `DeployEngine` |
| event streams, `runner.rs` (`EventWriter`, `EventTailer`, `HostRun`), `build_log.rs` | offsets, host states, byte budget | emit, poll, route | half-written lines, limits | a reader ends with the engine's results; the terminal record always fits | `DeployEngine`, `BuildForest` |
| host activation, `mandala-deploy/deploy.rs`, `push.rs` | three ssh commands, the target's canary, profile, boot default | copy, resolve, activate/wait/confirm, stage, recover | commands race and get lost; the target acts on its own | reports are true of the target; the task ends | `HostActivation` |
| process groups, `mandala-deploy/process.rs` | child registry, `stopping` | spawn, wait, capture, drop, forward, escalate | signals against reaping and recycled pids | no foreign group is signalled; no child survives | `ProcessGroups` |
| evaluators, `mandala-core/eval.rs`, `mandala-eval-worker` | warm worker, registry of live workers, shutdown latch | `aggregate`, `expected_toplevels`, `reload`, `shutdown_workers` | crashes, timeouts, lost step, quitting during a spawn | answers are about the question and no older than the last reload; quitting ends | `EvalWorker` |
| build forest, `nix-build-forest` | derivation nodes, activities, pending derivations | feed, resolve, sort, project | messages in any order, a filtered log, bounded views | engine and observer agree; work is never elided | `BuildForest`, `ForestViews` |
| MCP server, `mandala-mcp` | served inventory, warm evaluator, activity | tools, reload, expected evaluation, launches | concurrent clients | announced swaps reach everybody | `Explorer`, `Screens` |
| explorer, `mandala-tui` (`state.rs`, `app.rs`, `context.rs`, `explorer.rs`) | contract shown, flags of pending work, generation, role | keys, loads, evaluations, rebinds | jobs overtaken by swaps, loss of the context | what is shown is what is served; nothing queued is lost; reloads die out | `Explorer` |
| screens, `mandala-tui` (`app.rs`, `screen.rs`, `deploy.rs`, `event.rs`) | one screen slot, jobs, timers, watched runs | push, close, attach, poll, watch | keys, timers and launches in any order | slot, jobs and timers agree; an owed refresh happens | `Screens` |
| drift, `mandala-core/drift.rs` | expected set and its cache file, last HEAD | evaluate, cache, watch HEAD, compare | the commit is read apart from the evaluation | a current set is of its commit | `Explorer` (cache and watch) |
| inventory, limits, cli (`inventory.rs`, `cli.rs`), ansible engine | none of their own | resolve limits, build command lines | pattern semantics | resolution matches its definition | - |
| Nix library, schema, flake modules (`src/lib`, `src/schema`, `src/flake-modules`), ansible collection | none | evaluation | none of this kind | checked by the repository's own tests | - |

The parts interact like this. A frontend (CLI, TUI, MCP server) acquires the
context: it becomes the leader, and executes tools itself, or a follower, and
sends calls to the leader over a local socket. The leader serves one inventory,
evaluated by a warm worker; a reload is announced to every subscriber, and each
explorer adopts it. A deploy tool allocates a launch directory and starts a
supervisor, which starts the engine; the engine registers a run, builds, fans out
one task per host and settles `meta.json`, appending to one JSONL stream per host
and one for the build. Every frontend follows the run through the registry and
these streams alone, so it may die, and others may attach.

## Modules

**`ContextElection`**. `owner` is what listens on each port (the kernel's view),
`disc` the discovery file, `pc`/`pos`/`tok`/`tries` the progress of each process
through `acquire`, `hostTok` the token its host accepts, `peer` its connection. One
action per step that others can interleave with: `Start` (read the discovery
file), `ProbeStep` (one handshake, with the busy retries), `Bind`, `Publish`, the
stale-token poll (`PollDiscovery`, `ConnectRefreshed`, `WindowCloses`), rotation
(`RotateSwap`, `RotateWrite`), the four steps of `shutdown` (`Refuse`,
`CloseDrained`, `ReadClaim`, `RemoveClaim`), `Crash`, and the environment
(foreign services, a wedged leader, a lost discovery file). `churn` is a history
variable: a port was released while some process was in the middle of `acquire`.

**`FleetCall`** is the abstract promise of the `FleetContext` seam, and
**`ContextSession`** the session, its clients and the tasks of `serve_conn` that
keep it. An epoch is one connection. `CallPromise` is the abstract specification
under a refinement mapping (a call is pending from its first step to its return;
`runs` counts dispatches). What a re-race yields is left open: `ContextElection`
says how it is decided.

**`DeployLaunch`** composes the frontend (`front`), the supervisor (`sup`), the
engine (`eng`), the launch directory with its lock and files, the run directory
with `meta.json`, a pruning frontend, an observer (`watch`: the three reads of
`liveness()` are three steps) and an attached frontend (`join`). Zombies are
explicit because `pid_alive` cannot tell them from running processes. The hosts'
event files are one value (`hosts`), the batch build another.

**`HostActivation`** is one host's task (`ctl` is the program counter of
`deploy_host_with`, `deploy_profile`, `stage_profile_for_boot` and
`recover_boot_stage`), its ssh commands as the controller sees them (`sshAct`,
`sshWait`, `sshConf`) and the target (`act` is activate-rs, `canary`, `profile`,
`running`, `boot`). A lost command is one whose failure says nothing about
whether it ran. activate-rs is external and modelled from how the code uses and
describes it, with auto-rollback on.

**`DeployEngine`** zooms into what `DeployLaunch` keeps as single values. `pc` is
the engine between registration and exit (`BuildStep`, `Settle`), `task` one host
task each (`HostStep`; a `Panic` drops the permit, `JoinFails` meets it when other
tasks may have gone on), `log`/`partial`/`bytes`/`truncated` the streams:
`Emit` writes a record without its newline and `Flush` completes it, so a poll or
a kill can fall between. `Poll` is one pass of the tailer, `Feed` is
`HostRun::feed`, `Verdict` what `ObservedRun::liveness` says of a run whose pid is
gone. `Budget` is the accounting of `build.jsonl` with its truncation notice and
terminal reserve. Sizes are small numbers; the constants' order relations are
those of the source.

**`ProcessGroups`** is the child registry (`groups`, `stopping`) with every
critical section under its lock as one action (`Spawn`, `SpawnRefused`, `Reap`,
`Captured`, `DropGroup`, `Forward`, `Escalate`), the children (`ChildExits`) and
the kernel (`proc`: a pid is free, ours, a zombie, or somebody else's). `engine`
tells the process that escalates and exits from the supervisor, which lives on.

**`BuildForest`** feeds one forest with every message of nix (the engine's) and
one with what `BuildLogFilter` retains (a frontend's), whose derivations are read
by a resolver thread (`requests`, `results`). `FeedMessage` is the message handler,
`Track` the counters of `BuildTracker`. Nix itself is external: any order of
starts, stops and results it may produce. **`ForestViews`** extends it with the
views of `sort.rs` and `capped_nodes` (`Keep`, `DisplayRows`, `CappedNodes`), which
are recursive and change no state.

**`EvalWorker`** has one record per evaluator (`ev`: the call's program counter,
its worker, the lines its reader thread received) and one per process. `Call`,
`SpawnWorker`, `Register` (the recheck of the latch under the registry's lock),
`Send`, `Receive`, `TimesOut`, `Closed`, the two steps of `Drop for Worker`
(`Deregister`, `Reap`), `Reload`; `Batch`, `Single` and `Isolated` for the cold
backend; `Latch` and `Sweep` for `shutdown_workers`; `Evaluate` for the worker
process, which stays at the contract it locked first.

**`Explorer`** models several explorers of one checkout and the server they read
through. A contract is known by its commit. `ui` is the `AppState` of each
explorer; a background job is the list of steps it has left (`task`), so a load is
three reads between which a reload may fall. `LoadFinished`, `DriftEvalFinished`,
`RequestLoad`, `RequestInventorySwap`, `RequestEvalExpected` are the methods of
`state.rs`; `Handle` is the loop of `app.rs`; the server's lazy `inventory()`,
reload and expected evaluation are steps of the calls. `ContextSession` explains
what happens to a call whose leader dies; here it fails and roles change.

**`Screens`** is the action tier of one explorer: `screen`, `deploy`, `task`,
`timers` and `watched`, with one action per key handler, timer and event, beside
runs that start, register, end and are pruned on their own, and agents that launch
them. `DeployLaunch` and `DeployEngine` explain how a run lives; here it is a
life cycle.

Modules named `MC...` add symmetry sets or the values of structured constants.
Mutated definitions, marked as mutants or faulty variants, stand next to what they
vary.

## Runs

| run | instance | shows |
|---|---|---|
| `election` | 3 processes, 2 ports, 2 busy attempts, 2 tokens, 2 faults of any kind | bind is the lock; one leader unless a port is released under a contender |
| `election_converges` | 2 processes, 2 ports, 3 faults (crash, rotate, foreign), fair | the discovery file names the leader; `acquire` returns |
| `session` | a read and a mutation, 2 connections, 3 faults | the call promise (refinement of `FleetCall`), no stranded waiter, one race per loss, no demotion, a drain waits for exactly the calls still owed |
| `session_returns` | a read and a subscription, 2 connections, 2 faults, fair | calls return, streams resume |
| `launch` | 2 kills, 2 reads, fair | nothing live is pruned, settled verdicts are true, discovery ends |
| `activation` | 3 attempts, fair | confirmed, staged and restored are true; the task ends |
| `process_groups` | 2 tasks of 2 commands, 2 pids, 2 signals, fair forwarder | only children are signalled, none survives the escalation, nothing starts after the stop, a signalled engine exits |
| `engine` | 2 hosts, throttle 1, 1 I/O error, 1 line of up to 2 bytes and 1 diagnostic in a budget of 5 with a reserve of 3 | verdict, streams and results agree; rc and done record are durable; the fan-out ends |
| `forest` | a chain of 3 derivations, one unreadable, mixed builds, copies, substitutions and queries, budget 1, cap 1 | views keep work, final counts are true, an observer agrees with the engine |
| `explorer` | 2 explorers, an agent, 2 commits, 1 key or tool call, 1 fault, fair | nothing queued is forgotten, views agree, a current expected set is of its commit, reloads die out |
| `screens` | a deploy and a command run, 2 task screens | slot, jobs and timers agree, an owed refresh happens |
| `eval_worker` | a warm and a cold evaluator, one pid, 3 members, 2 contracts of which one does not evaluate, 2 calls, 2 faults, fair callers | answers are true, the teardown kills workers only, quitting ends |

Why these bounds. Two ports are enough for a walk with a middle, three processes
for a leader and two contenders (the shortest double leadership needs them); two
tokens let one go stale, and with three the rotation of a reused one is covered.
Two connections are enough for a retry that loses its leader again: a call makes
at most two attempts. Two kills reach every pair of processes, and two reads a
verdict that follows another. Three attempts put a retry on top of a retry over a
leftover canary. Two tasks on two pids with two rounds recycle a pid while
another task still has it; a second signal meets the escalation of the first.
Throttle 1 for two hosts makes one wait for the other's permit. A budget one
record above its reserve is reached by the first line. A row budget and a cap of 1
are exceeded by the second node; three derivations make a consumer of a consumer.
One commit while two explorers and the watcher are at work is enough for each
reload to be overtaken by another. One pid is the tightest recycling. A run can be
left, re-attached and left again because keys are not bounded in `Screens`.

Deadlock is checked in `forest`, whose stream idles when it has been read. It is
off elsewhere, because these systems may come to rest: processes hold their roles,
calls have returned, runs have ended, inputs are used up.

Each property has a mutant in `PROJECT.json`, a plausible bug in one definition,
that makes TLC report the property.

### Fairness

* Election: every process keeps stepping through `acquire` and publication (the
  async runtime polls it, handshakes are bounded by a timeout). Faults,
  shutdowns and rotations are never forced. The end of the token window is not
  fair: the race has to converge without it.
* Session: tasks are polled, timers fire and tools return; progress as a whole is
  weakly fair. That suffices because a session that takes no new request and
  suffers no fault makes finitely many steps.
* Launch: frontend, supervisor and engine step unless killed, and the host tasks
  end (`TaskEnds` of `HostActivation` is that statement for one host).
  Pruning and observing are not fair.
* Activation: the controller's task is polled, a switch ends, and a target that
  is reachable answers; one that is not is `Lose`. Neither losses nor kills are
  fair.
* Engine: the engine's threads are scheduled and the commands they wait for end
  (`TaskEnds` for a host; nix for the build). A kill is never forced, nor is the
  tailer's poll.
* Process groups: only the forwarder's thread is fair. The engine's exit must not
  depend on any task or child.
* Explorer: jobs, calls and event loops go on (`Progress`); commits, keys, calls of
  the agent and faults are not forced, and are finitely many.
* Evaluators: a caller's thread goes on unless it waits for a reply, and a sweep
  that began ends. Neither a worker's answer nor the timeout is forced, because
  `MANDALA_EVAL_TIMEOUT=0` disables it: quitting has to end without either.

## Observations

What the models showed about the code while they were written. Where a statement
above is weaker than one would like, this is why; the models contain the steps
that lead here.

* A shutdown reads the discovery file and removes it in a second step
  (`host.rs:308`), so a successor that publishes in between loses its file,
  although the comment at `host.rs:286` says it is never clobbered.
* The scan before the bind (`lib.rs:172`, `lib.rs:198`) does not exclude a second
  leader when a port is released during somebody's walk: hence
  `OneLeaderUnlessChurn`.
* `serve_conn` queues the subscribed ack before it subscribes (`host.rs:483`), so an
  event published after `subscribe` returned may be missed; compare
  `client.rs:310`. `ContextSession` takes both as one step.
* `liveness()` may call a successful run failed when it settles between its reads
  (`registry.rs:379`), and guesses from the hosts' events when no rc was recorded
  (`registry.rs:409`): an engine killed between two throttled batches looks
  finished. `SettledVerdict` and `FinishedIsTrue` are about settled runs.
* An attached frontend reports 0 for an engine that left no return code unless a
  host failed (`runner.rs:1418`).
* A staging command whose connection is lost may still be running on the target
  when the recovery begins (`mandala-deploy/src/deploy.rs:369`); landing after the
  restore it would make "restored previous profile and boot default" untrue. The
  model does not contain that step: `RecoveryIsTrue` is about commands that have
  run, or never will, once they are reported as failed.
* A lost answer to a confirmation that worked is reported as a rollback
  (`mandala-deploy/src/deploy.rs:190`). `ConfirmedIsLive` is about the other
  direction.
* `Drop for ChildGroup` removes its number from the registry (`process.rs:65`)
  even when the kernel has given it to a second child since: that child may
  survive the escalation, hence `NoSurvivorUnlessRecycled`.
* The lazy first read of the inventory (`mandala-mcp/src/server.rs:338`) may
  overwrite the result of a reload that finished meanwhile, and a failover may fall
  between the reads of one load (`mandala-tui/src/context.rs:192`) or hide a moved
  HEAD from the new leader's watcher (`mandala-mcp/src/context.rs:134`): hence
  `disturbed` in `ViewsAgree`.
* The commit that keys the expected cache is read after the evaluation in
  `explorer.rs:235` and before it in `server.rs:520`, where the warm worker may
  still serve an older contract, or, respawned after a crash (`eval.rs:278`), a
  newer one: hence `mislabelled`, set only when an evaluated set was kept.
* The settlement survey is dropped when one is already running (`state.rs:746`); the
  running one may have probed the hosts before the mutation. `RefreshOwed` counts
  the request.
* A deploy screen closed before its run id is known leaves no watch
  (`app.rs:952`), a run that dies without an rc gets no refresh though the comment
  at `app.rs:1187` says a dead pid settles the watch, and an agent's run is not
  attached while any screen is open (`app.rs:522`). `RefreshOwed` is about runs shown by
  id that live or ended with an rc.
* Closing a task screen signals its pid although the process may have been reaped
  with its `TaskExited` still queued (`app.rs:831`).
* Two derivations with one output path (two fixed-output fetches of one file)
  share `output_to_drv` (`forest.rs:640`): the one read last gets the copies of both.
  Engine and frontend read in different orders, so TLC finds them in disagreement
  when the instance lets two derivations share a path. The run's instance
  gives each its own, as `OneMaker` does in the proof.
* A cold evaluation in progress is not ended by `shutdown_workers`, and its
  per-member calls may span a commit; `QuitEnds` is about the worker backend, and
  `AnswersTrue` asks a mixed answer only not to be older than its call.

## What is proved

For all values of the constants (any number of processes, ports, connections,
calls, workers, hosts, derivations, explorers, commits, runs, tokens, inputs and
faults), under the `ASSUME`s of the modules. These give the constants their types
and keep special values apart. Some say a little more:

* `EvalAssumption`: there is a first contract and the members are finite (the model
  asks for the cardinality of a request);
* `ExplorerAssumption`: no client is the value `"leader"`, which stands for the
  origin that calls of the leader's own do not carry (`with_origin`);
* `HostsAssumption`: a run has finitely many targets, and at least one;
* `BudgetAssumption`: the order relations of the log's sizes in `build_log.rs`: the
  reserve holds the notice and both terminal records, and the log is larger than
  the reserve and the notice;
* `DrvsAssumption`: a build has finitely many derivations, and a path is a
  derivation or an output, never both.

Each proof module states, for each module it is about, an inductive invariant as a
conjunction of named parts, proves that `Init` implies it and that every action
keeps it, one step per action, and derives the listed theorems. Every one was checked with TLC on the
run's instance before it was proved.

* **`ContextElection_proofs`**: `TypeOK`, `BindIsLock`, `OneLeaderUnlessChurn`,
  `DiscoveryNamesLeader`.
  "One leader" is not inductive. The invariant adds, for the case without churn,
  `WalkInv` (every port behind a binding contender is taken, and not by a host
  that answers) and `MeetInv` (a contender past the discovery url will meet the
  leader: its scan has yet to reach the leader's port, or every port before that
  one is blocked, so its walk cannot bind earlier). A process that binds
  therefore has no leader before or behind it. With churn this fails: see the
  observations. `DiscoveryCorrect` then needs only that a fresh leader publishes
  the token its host accepts and that its write meets no other leader; it has the
  hypothesis `FileKept`, which excludes exactly the three kinds of event that part
  the file from a leader: the file is lost, a write of it fails, a leader that
  shuts down removes it. The run makes the same choice; the others (crashes,
  rotations, busy leaders, expired windows, foreign services) are allowed.
* **`ContextSession_proofs`**: `NoStrandedWaiter`, `OneRacePerLoss`,
  `PromotedNeverFollows`, `DrainIsExact`, and `CallPromise`, the refinement of `FleetCall`. `RaceInv` gives the racer the role lock over the connection it
  lost; `LossInv` ties every call to a reader that runs until EOF is seen;
  `DrainInv` says that the host's counter is the number of calls accepted and not
  written. That one is not inductive alone: a call attempted twice on one
  connection would be counted twice and written once. `FreshInv` excludes it: a
  retry always starts on a connection on which the call has left no trace.
  `RunInv` bounds the executions of a call by the attempts made so far, which is
  what the refinement rests on: initial states map to initial states, and each
  action is shown to be a step or a stutter of the abstract call.
* **`DeployLaunch_proofs`**: `TypeOK`, `PruneSparesLaunch`, `PruneSparesRun`,
  `SettledVerdict`. `LaunchInv` says that whoever may still use the directory
  holds its lock, but for a frontend that has just allocated it, and that a prune
  which judged it inactive has not met such a frontend; `RunInv` that metadata,
  on disk or listed, is empty or names the engine; `VerdictInv` that a return
  code is written once, when the hosts' fate is sealed.
* **`Commands_proofs`**, about `HostActivation`: `TypeOK`, `ConfirmedIsLive`, `ConfirmAfterCanary`,
  `StagedNotLive`, `RecoveryIsTrue`. `CommandInv` ties the exits the controller
  sees to the state of the activation (a satisfied waiter means this attempt's
  canary existed, because the stale one was cleared before the activation began);
  `GenerationInv` ties the activation to the generations; `ReportInv` says what a
  report rests on.
  And about `ProcessGroups`: `NoStraySignal`, `NoSurvivorUnlessRecycled`,
  `NoEffectAfterStop`. `HoldInv`: a task that has not reaped its child keeps the
  pid from being recycled, and no two tasks hold one pid; `RegistryInv`: every
  registered number is the child of a task that still waits for it, so whatever
  the forwarder or a drop signals is ours; `SurvivorInv`: while the process runs, a
  running child is registered or killed, unless its number was handed out under
  an open capture.
* **`DeployEngine_proofs`**: `TypeOK`, `StreamMatchesResult`, `FinishedIsTrue`,
  `ExitIsDurable`. `StageOK` says of every host what the replay of its stream is at each
  stage of its task: no verdict before the last milestone, then that one, and a
  joined task returned what its stream shows or a failure. It speaks of the stream
  with its half-written record, which a kill leaves behind; `ReadOK` says that what
  a tailer shows is the replay of the complete records before its offset. `MetaOK`
  says that `meta.json` has its summary, and the rc that follows from it, only once
  every task has been joined; `BudgetOK` that `build.jsonl` stays within its
  detail limit and its notice until the terminal records are due, so these fit.
  That reading a stream in pieces is reading it at
  once is a lemma about the fold of `Feed`.
* **`Nix_proofs`**, about `EvalWorker`: `NoStrangerKilled`, `AnswersTrue`. `OwnInv` gives each
  worker one evaluator, `RegistryInv` says that a registered pid is unreaped.
  For the answers, `FloorInv` keeps every warm worker at or after the floor its
  last reload set, `StreamInv` says that of the lines in the pipe none is newer
  than the last request and one with its id is its answer (so a late reply of an
  abandoned request is never taken for this one), and `CallInv` what the
  members evaluated so far have left in the answer of a cold call.
  And about `BuildForest`: `FinalCountsTrue` and `ObserverAgrees`. For the counts,
  `Following` says that the engine's forest follows what nix did to each
  derivation, and `Counting` that what is finished and what still runs is what was
  begun. For the observer, `ObserverInv` relates three things: what a frontend has
  applied, what waits for it (records in the log, derivations to be read), and
  the engine's forest. `Ordered` says that nothing in the log comes after a message
  that makes it obsolete (a start after its stop, a substitution after the build).
  `Live`: what runs is what the frontend will have running once it is fed.
  `Staged`: what waits is no further back than nix has got with it. `Shown`: each
  status of the frontend is right but for what a waiting message will change.
  `Read`: every node is read or waits to be. `Bounded`: the frontend's graph is
  within any graph that holds the engine's nodes and is closed under inputs, hence
  within the engine's. When nothing waits these leave no difference. The theorem
  has the hypothesis `OneMaker`, that no two derivations have one output path;
  without it the property is false, and TLC shows it: see the observations.
* **`Explorer_proofs`**: `NothingForgotten`, `CurrentExpectedUnlessMislabelled`,
  `ViewsAgree`. `JobInv` describes the jobs by what they may have left to do and
  ties the flags of `AppState` to them; `LabelInv` says that nothing on its way to
  the screen is filed under another rev. While nothing is disturbed, `ToldInv`
  (nobody was told of a contract newer than the one served), `ViewInv` (each part
  shown, and each part read by a load that is not stale, is the one served or a
  newer one is announced in the explorer's inbox) and `HeadInv` (the watcher's
  reload is all that stands between HEAD and what is served) give the views. The
  generation check is the conjunct `Cleared`: a wanted reload has emptied the view,
  and the load it overtook is stale.
* **`Screens_proofs`**: `SlotMatchesJobs`, `RefreshOwed`. `PastInv`: only runs that
  were registered are listed, known or followed; `OwedInv`: the refresh of a
  followed run is done, watched by a timer that runs, or carried by the screen that
  shows it. A screen that re-attached without a refresh of its own does not
  carry it, which is why a run stays watched when it is attached again.

Only model-checked:

* all liveness (`AcquireReturns`, `CallReturns`, `StreamResumes`, `DiscoveryEnds`,
  `TaskEnds`, `SignalEndsEngine`, `FanOutEnds`, `Quiesces`, `QuitEnds`): the prover
  does not do fairness or `ENABLED`;
* `ViewsKeepWork`: `ForestViews` has recursive operators, about which the prover
  cannot reason.

Proofs about folds (`DeployEngine_proofs`, `Nix_proofs`) need induction, and the
library's induction theorems cannot be instantiated. Two lemmas take its place:
`LeastNatural` gets the least element of a set of numbers from the
well-foundedness of `<`, and `Solvable` that the recursion behind the library's
folds has a solution, from which the equations of a fold follow.

## Abstractions and what is not modelled

* Payloads, names, log text and formats. A token is a number, a port its position
  in the walk, a contract its commit, a derivation its rank. Pids are recycled in
  `ProcessGroups` and `EvalWorker` only.
* `ContextSession`: ping and heartbeats, malformed frames, other followers'
  calls, panicking tools, the frames of an event stream, a writer whose socket has
  failed (`host.rs:349`: it goes on settling calls without writing them, so
  `DrainIsExact` speaks of connections whose writes work).
* `DeployLaunch`: one run and one launch; which inactive entries exceed the cap
  or age is left open; failed and rolled-back verdicts are one.
* `DeployEngine`: what a host task does between its milestones; the hosts' streams
  have no size limit.
* `HostActivation`: a retry waits for the activation before it to end; overlap
  with an orphaned activation is not modelled. The commands of a staging and its
  recovery take effect before the controller learns that they failed, or never.
* `BuildForest`: the copy-paths activity that encloses copies, which the tracker
  counts as one more fetch (`deploy.rs:594`). `ForestViews`: names are distinct (the
  code keeps the order of paths among equal names); of the MCP answer only
  `capped_nodes`, not the 256 activity rows of `into_summary`.
* `EvalWorker`: `host_eval` beyond its being a call like the others; the values
  evaluated.
* `Explorer`: rows, hints, the strip of pending agent calls, dirty trees, the
  probes of a survey and the comparison of drift. Events are lossless and explorers
  subscribed from `Init`: in the code a subscriber more than 256 events behind loses
  some (`mandala-mcp/src/context.rs:112`), and the pump subscribes on a task of its own
  (`mandala-tui/src/context.rs:108`). `Screens`: drawing, mouse,
  scrolling, tabs and toggles.
* Inventory limits, argument parsing, the ansible engine and collection, the Nix
  library: pure functions or external programs.

## Plan

1. Type correctness of the remaining modules as theorems of their own, and the
   action properties of `Explorer` (a contract shown is never replaced by an older
   one while nothing is disturbed).
2. The views of the forest as recursive functions, so that `ViewsKeepWork` can be
   proved.
3. Drift comparison and inventory limits as operators against reference
   definitions; overlapping activations; several runs under one prune.
