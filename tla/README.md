# A TLA+ model of the distributed training platform

This directory holds TLA+ modules for the platform in `src/`: a Cluster Manager
that keeps nodes and jobs in SQLite, a scheduler and a monitor thread inside it,
node agents that launch `torchrun`, and the training program those processes run.
Beside them are the clocks by which the manager judges that a node is gone, its
autoscaler, and the thread pool all calls go through. TLC checks the modules on
small instances; TLAPS proves the main safety properties for every instance.

Run a check with `tlc -config outage.cfg MCClusterManager` and a proof with
`tlapm ClusterSafetyProofs.tla`. `PROJECT.json` names, for every definition that
stands for code, the lines it stands for.

## 1. The system

| Part | Code (under `src/`) | State it keeps | Operations |
|---|---|---|---|
| Node registry | `dmlf/manager/node_registry.py` | SQLite tables `nodes`, `jobs`, `metrics` | register, heartbeat, mark offline, available nodes, insert/update/read jobs |
| Job queue | `dmlf/manager/queue.py` | a list of job dicts under a lock | submit, pop, requeue, retry, recover at start |
| Cluster Manager | `dmlf/manager/cluster_manager.py` | command queue per node; threads of gRPC calls | `RegisterNode`, `SendHeartbeat`, `ListenForCommands`, `SubmitJob`, `StreamLogs`, `ReportJobStatus`; the callback `dispatch_allocated_job` |
| Scheduler thread | `dmlf/manager/schedulers/`, `allocator.py` | its local job and node list | pop, choose nodes, reserve, dispatch or requeue |
| Monitor thread | `monitor_nodes` in `cluster_manager.py` | its local lists of lapsed nodes and running jobs | find lapsed nodes, retry or fail their jobs, mark them |
| gRPC thread pool | `serve()` in `cluster_manager.py` | ten threads, one unbounded queue | hand a call to a thread |
| Node agent | `dmlf/agent/agent.py`, `launcher.py` | its status, its command stream, one process, a log thread per launch | register, listen, heartbeat, launch, stream logs, report |
| Training job | `train.py`, `dmlf/training`, `dmlf/distributed` | model replica, epoch counter, checkpoint files | set up the group, load, train an epoch, save |
| Autoscaler | `dmlf/autoscaler/policy.py` | its thread and stop event, the time of the last scale-in | start, stop, evaluate, call back |
| Authentication | `dmlf/communication/auth.py` | none; reads the secret in the nodes table | check the secret in front of four handlers |
| Health server, gauges, host metrics, settings, CLI, stubs, deployment | the rest of `dmlf/`, `proto/`, `deployment/` | none that feeds back, but for the two named below | read-only views, metadata checks, packaging |

### How the parts interact

* Agents call the manager: `RegisterNode` once, `SendHeartbeat` every 5 s, and
  `ListenForCommands`, a stream that stays open. A `LAUNCH_JOB` command goes into a
  queue in the manager's memory and from there into the stream.
* The agent starts `torchrun` and a log thread. The log thread streams the output
  with `StreamLogs`; the last act of its generator is a nested `ReportJobStatus`.
* `ReportJobStatus`, the scheduler and the monitor all write the same tables, each
  call of a registry method in a transaction of its own. Nothing holds a lock over
  two of them.
* `/ready`, `/cluster` and the autoscaler call registry methods that run
  `mark_offline_nodes`: these readers write.
* The autoscaler reads `JOBS_QUEUED`, which the handlers move, and calls back. The
  default callback only logs.
* The database survives a restart of the manager. The job queue, the command
  queues, the gauges and every thread do not; the queue is rebuilt from the
  `PENDING` rows.
* The workers of a job meet in collectives and share nothing else but the
  checkpoint path on their command line.

### What is hard

* **Interleaving.** Between two transactions of one handler any other thread may
  write the same row. A job on two nodes has two reports, and the monitor works
  through a list it read earlier.
* **Stale values.** The heartbeat carries the status the agent had when it built
  the request and overwrites what the manager wrote meanwhile.
* **Faults.** Agents, connections and the manager fail at any step; a command in
  a broken stream goes to nobody.
* **Exceptions.** A transaction may raise (SQLite waits 5 s for a lock). The
  scheduler and the monitor have no `try`: one exception ends the thread for good.
* **Clocks.** Three timeouts are held against time stamps that were taken before
  the transaction that stores them, by callers that do not wait for each other.
* **Two stores.** The jobs table and the memory queue are written one after the
  other, and must still agree about which jobs wait.
* **Waiting on each other.** A pool thread is held by a stream that waits for a
  call that needs a pool thread.
* **Chains of attempts.** A retry runs the same command line: what it resumes from
  depends on which ranks died, where, and during which file operation. A job of
  several nodes is retried once per report, so attempts also overlap.

`PROJECT.json` lists each of these as a hazard with its line and the properties
that cover it.

### What makes each part correct

* Queue and registry: no `PENDING` job is forgotten, and none is queued twice.
* Handlers and monitor: a job is dispatched once per attempt it is entitled to (the
  code keeps this for jobs of one node); its row moves through the states a submitter expects.
* Scheduler: a node is given to one job; a job that can be placed is placed.
* Monitor: a dead node stops being used, and its jobs are found; a live one is
  neither marked nor found, as long as its heartbeats come.
* Authentication: no agent that has registered is refused.
* Autoscaler: one loop at a time, which obeys `stop()`; scale-in is rationed; a deep
  queue is answered.
* Agent: the end of a process is reported once, unless a fault drops the report,
  and with its own exit code (which the code does not keep).
* Pool: streams leave a thread for the calls they wait for.
* Trainer: a checkpoint holds the weights its name says; an attempt whose ranks have
  resumed apart does not pass for a success.

## 2. The modules

| Module | Models | Extends / instantiates |
|---|---|---|
| `NodeRegistry` | the tables and one operator per method that writes them | |
| `JobQueue` | the memory queue | `NodeRegistry` |
| `NodeAgent` | the agents: main, heartbeat and log threads, and their process | `NodeRegistry` |
| `ClusterManager` | handlers, scheduler, monitor, crash and restart: the composition | `JobQueue`, `NodeAgent` |
| `JobLifecycle` | abstract: what a submitter may count on | |
| `ClusterProperties` | properties and fairness of the composition | `ClusterManager`, `JobLifecycle` by `INSTANCE` |
| `ClusterInvariants` | the inductive invariants | `ClusterProperties` |
| `JobQueueProofs` | lemmas about the queue: what its operations keep, and in which order | `JobQueue` |
| `ClusterTypeProofs`, `ClusterSafetyProofs` | theorems about the core | `ClusterInvariants`, `JobQueueProofs` |
| `ClusterJobProofs` | more of them: rows, one place and one token per job, and the refinement | `ClusterSafetyProofs` |
| `WorkerPool`, `WorkerPoolProofs` | the thread pool of the gRPC server, and its theorems | |
| `NodeLiveness` | abstract: when a node counts as lost, without clocks | |
| `FailureDetector` | heartbeat loop, time stamps, the two timeouts, the monitor's period | `NodeLiveness` by `INSTANCE` |
| `FailureDetectorProofs` | theorems about the clocks | |
| `Autoscaler`, `AutoscalerProofs` | the autoscaler, `start()` and `stop()`, and theorems | |
| `Trainer`, `TrainerProofs` | one training job over its attempts, and theorems | |
| `MCClusterManager`, `MCFailureDetector`, `MCAutoscaler`, `MCTrainer`, `MCWorkerPool` | constants for TLC | |

Definitions keep the names of the code (`register_node`, `pop_top_job`,
`dispatch_allocated_job`, ...). A definition whose comment begins "Mutant:" is not
part of the model: it is the mistaken form of the definition after it, with which
a property is shown to depend on that code.

### The core: how code becomes steps

* **A step** is one database transaction, one critical section of the queue's
  lock, or one message, with the thread-local work up to the next one. Sqlite
  commits each registry method as one transaction, so a method that two threads
  call never interleaves, and a handler that calls two methods is two actions.
  A gauge moves with the step before it.
* **Threads.** `schedPc`, `monPc` and `handler[c]` are program counters;
  `schedJob`, `schedNodes`, `monJobs`, `seen[c]`, ... are the locals that outlive a
  step. `seen[c]` and `monSeen` are the copies of `retries` from which a retry is
  written: stale copies are in the model.
* **Commands.** A command is the address `<<a, n>>`: dispatch `a`, node `n`.
  `run[<<a, n>>]` is where it is in its life, from the manager's queue to the
  report; `attempts[a]` is the job of dispatch `a`.
* **Streams.** A broken `ListenForCommands` leaves its generator in the manager
  for up to two seconds (`ghost`). In that time it may take one more command from
  the queue and yield it to nobody (`GhostTakes`).
* **Agents.** The launcher has one `current_process`. `poll()` and `wait()` look
  at that one, also from the log thread of an earlier job: `WaitReturns` reads
  `exit[n]`, not an exit code of its own, and keeps it (`"zero"`, `"nonzero"` in
  `run`) for the report, which may travel while a later process is alive.
* **Exceptions.** With `DbMayFail`, any transaction may raise. `SchedulerDies` and
  `MonitorDies` end those threads at any point of their loops, with what they hold
  (`"dead"` in `schedPc`, `monPc`); `HandlerRaises` ends a report call between its
  transactions; a heartbeat, a registration or a report whose first transaction
  raises fails like a lost one.
* **Authentication.** `Authenticated(n)`, a row with the secret of `n`, guards the
  four handlers that the interceptor protects; where it does not hold, the call
  fails. The agents of the model have the secret they were given.
* **Crash of the manager** clears everything but the tables, breaks every stream
  and makes a registering agent give up. `ManagerRestarts` is `serve()` with
  `_recover_pending_jobs`.

Abstractions, each also stated in the module it concerns:

* Time is order. `expired[n]` says that the row's `last_heartbeat` is over 15 s
  old; `Lapse` sets it. It may do so for a node that is dead and whose messages
  have all been handled, and for any node in `MayLapse`. A live node outside
  `MayLapse` is never taken for dead: `NodeLiveness` is this rule, and
  `FailureDetector` has the settings for which the clocks implement it.
* `created_at` is a rank. `priority` is left out: `SubmitJob` never sets it.
* `allocate` leaves equal scores in the order of a `SELECT` without `ORDER BY`:
  any order.
* An agent started again registers under a new UUID: it is another member of
  `Nodes`.
* `STOP_JOB` is never sent by the manager: there is no such action.
* Every call finds a thread: what happens when it does not is `WorkerPool`'s.

### The failure detector

`FailureDetector` has time in ticks. `Tick` moves the clock of every loop and the
age of every row, and is disabled while something is due, so that a sleep of
`HeartbeatInterval` ends after exactly that long and a call or a pass of the
monitor takes at most `MaxDelay` or `MaxPass`. The order of the code is kept: the
handler takes the time (`Stamps`), may wait for the write lock, and commits
(`Commits`) a stamp of that age. At most `MaxLost` heartbeats of a node are lost in
a row; a death may leave one request behind that still arrives. Any caller of
`mark_offline_nodes` acts at any time (`ProbeMarks`). Ages are cut off at `Horizon`,
beyond every number they are compared with.

The properties are conditional on the settings, as the code is right for some only:

* `Accurate`: `MaxLost + 1` rounds of the heartbeat loop, each a sleep and a call,
  and one more call fit into both timeouts. Then no live node is taken for dead
  (`LiveNodeKept`), and the clocks implement `NodeLiveness`. The shipped 5 s and
  15 s leave room for one lost heartbeat with calls of up to 5/3 s.
* `Timely`: `offline_timeout_sec`, a period and a pass of the monitor fit into the
  15 s of `mark_offline_nodes`. Then no reader hides a dead node from the monitor
  (`SeenBeforeMarked`).

The shipped settings (15 s, a period of 10 s, against 15 s) are not `Timely`, and no
configuration of a longer `offline_timeout_sec` is: run `crash_failover` shows what
follows from that.

### The autoscaler

`Autoscaler` has a program counter per thread that `start()` has made. The gauge is
read at the end of the sleep, the decision follows when the two registry calls
have returned, and the callback may take `MaxCall` ticks or raise. `stop()` sets the
event and waits `JoinTimeout` for the thread, which may be asleep or in a callback
for longer. `JOBS_QUEUED` and the queue are moved by the rest of the manager:
submissions count, retries and recovered jobs do not, dispatches do. The averages
of the CPU and GPU gauges are 0, since nothing sets these gauges (`set_node_cpu`
and `set_node_gpu` have no caller).

Of two requests to scale in, `sinceDone` is the time since the last one that
returned and `sinceTried` since the last one at all. The cooldown separates the
former; a callback that raises leaves `last_scale_in_time` as it was, and then only
the sleep of the loop lies between it and the next. `ScaleInSpaced` says both.

`BaseScheduler.start` and `stop` are the same text, so `AtMostOneLoop` is about the
scheduler as well. The manager calls `stop()` only when it shuts down, and nothing
calls `start()` after a `stop()`: that part of the two properties is about the class,
not about a behaviour of this program.

### The thread pool

`WorkerPool` keeps of every call its kind, its node and, for logs and reports, its
launch. `Takes` gives the oldest waiting call a free thread; `Returns` ends a call
whose handler returns by itself. A `logs` call returns only after its `report`.
Bounds: a node has one call of its register-and-heartbeat loop, one command
stream, one `ghost` and `Launches` log streams. No caller sets a deadline, so
there are no timeouts.

### The training job

`Trainer` has a worker per rank and attempt. The weights of a replica are the
sequence of epochs trained into it, which is all that checkpoints, resume and
divergence depend on. An epoch is one collective step: `DistributedSampler` gives
every rank as many batches and each ends in an all-reduce. Where the replicas are
not alike, the averaged gradients train no epoch of any of them: the step appends
`Mixed`, and `split` remembers the attempt. `Dir` says which hosts share storage.
`torch.save` is two steps, and a death between them leaves a torn file.

A retry repeats the command line, so `resume` is fixed. It is any epoch of
`Resumes`: `train.py` does not relate `--resume` to `--epochs`, and a job may be told
to resume from its last epoch or from one past it.

`Launch` may happen at any time, whatever has become of earlier attempts, on any
hosts: the manager queues a job once per node that reports a failure. A rank whose
host still runs a process is dropped (`Busy`), as `launch_torchrun` does; its attempt
then waits in a collective until that fails. `met` remembers the attempts of which a
rank had yet to load while a worker of another attempt was alive: beside such a
worker nothing is promised of what the ranks find. Two attempts may write one file at
once; `SaveGoesOn` and `Close` leave it torn or whole, whoever ends first.
`dmlf/data/distributed_loader`, which `train.py` imports, is not in the repository;
its sampler is taken to give every rank equally many batches.

## 3. What the runs show

### Runs that pass

| Run | Instance | Shows |
|---|---|---|
| `outage` | 1 node, 2 jobs, 1 retry, 1 dispatch; connection may break, node may be taken for dead, manager may crash, any transaction may raise | `TypeOK`; `NoLostPendingJob` over both stores, restarts and dead threads; `CallersKnown`: the secret of every caller is in the table whenever it may call |
| `live` | 1 node, 2 jobs, 1 retry, 2 dispatches, the node may crash, `FairSpec` | `OneTokenPerJob`, `AttemptsPaidFor`, `AssignedCoversLaunches`, and `JobsLiveOnce`: the jobs table implements `JobLifecycle`; `DeadNodeStaysOut`, `ExitIsSettled` with the process of one job replaced by that of the other, `SchedulerServes` with a job ahead of another |
| `reconnect` | 1 node, 1 job, 1 retry, 2 dispatches, its connection may break at any time, it may crash, `FairSpec` | the same three liveness properties over broken streams: commands that go to nobody, log streams that drop their report, agents that come back as `OFFLINE` |
| `detector` | 2 nodes, interval 2, delay 1, 1 lost heartbeat, timeouts 9 and 7, monitor period 1 and pass 1, `n1` may die | `TypeOK`; `LiveNodeKept`; `SeenBeforeMarked`; `DetectedInTime`: a dead node is marked in bounded time without a reader's help; `LapsesOnlyDead`: the clocks implement `NodeLiveness` |
| `autoscaler` | 2 threads, interval 3, join 1, cooldown 5, callbacks up to 2, thresholds 1 and 0, 3 jobs, 1 uncounted, `FairSpec` | `TypeOK`; `AtMostOneLoop`; `StopTakesEffect`: a loop told to stop ends and calls nobody back after; `ScaleInSpaced`, over callbacks that return and that raise; `DeepQueueScalesOut` |
| `trainer` | 2 ranks on 3 hosts of which two share a disk, 2 epochs, 2 attempts that may overlap, resuming from epoch 0, 1 (the last) or 2 (past it), `h1` may die, `FairSpec` | `TypeOK`; `CheckpointsFaithful`; `AlikeOnOneStorage`: ranks that read one storage, beside no other attempt, resume alike; `NoSilentDivergence`; `CompletesUnlessHit` |
| `pool` | 2 nodes, 1 log stream each, 5 threads | `TypeOK`, `NoGridlock`, `HeartbeatServed` |

### Runs that find a disagreement

Each checks one statement of the repository and is refuted by what the code does.

| Run | Statement | What happens |
|---|---|---|
| `crash_failover` | "Proactively failing job ... because a node crashed" (`cluster_manager.py:327`) | any other caller of `mark_offline_nodes` turns the row `DISCONNECTED` before the monitor's query, which leaves such rows out; the job stays `RUNNING` |
| `double_dispatch` | "Job permanently FAILED after {max_retries} retries" (`cluster_manager.py:130`) | both nodes of a job report a failure; both calls read the same count of retries, write the same next one and queue the job: three dispatches with one retry allowed (2 nodes, 3 dispatches) |
| `foreign_exit` | "Send status update when process finishes" (`launcher.py:53`) | a heartbeat that still says `IDLE` overwrites `RESERVED` (`node_registry.py:122`), the node is given to a second job, and the log thread of the first reads the exit code of the second one's process (1 node, 2 jobs, 2 dispatches) |
| `busy_nodes` | "Nodes currently running a job" (`prometheus.py:16`) | the agent's status is `TRAINING` from its first launch on; its heartbeat keeps the row `TRAINING` with no process |
| `pool_exhausted` | "Agents register themselves, heartbeat every 5 s" (`README.md:14`) | 2 training nodes on 4 threads (5 on the real 10) hold every thread with streams that wait for a report that waits for a thread |

### Seen in the model, without a run of its own

* "created_at (older is better)" (`queue.py:17`), "it goes to the back of the queue"
  (`queue.py:59`): a dict that comes from `SubmitJob` has no `created_at` and sorts as
  0, older than every row. What is submitted next goes ahead of every retried and
  recovered job, so one of these may wait for ever. The only thing the queue keeps
  is its own key, which is no property worth a run.
* "Reserve nodes so they aren't grabbed by another loop iteration"
  (`manager/scheduler.py:43`, the older copy of `schedulers/base.py:53`): a heartbeat
  overwrites `RESERVED`; `foreign_exit` is what follows.
* A job whose log stream breaks has its report dropped by gRPC, and stays `RUNNING`:
  `ExitIsSettled` excepts it, beside the job of a dead node and the one whose log
  thread has begun to wait for a later process.
* A job told to resume from an epoch past its last trains nothing and saves what it
  has loaded as `checkpoint_epoch_{epochs-1}.pt` (`trainer.py:126`).
  `CheckpointsFaithful` names this file as its one exception. From its last epoch,
  rank 0's final save truncates the file other ranks may be reading, which may fail
  an attempt no fault has hit: `CompletesUnlessHit` excepts that epoch.
* "Job permanently FAILED" (`cluster_manager.py:130`): in a job of two nodes the
  other node's report may write `PENDING` or `COMPLETED` over `FAILED`. So
  `JobsLiveOnce` is stated for jobs of one node.
* `JOBS_QUEUED`, "Number of jobs waiting in the queue" (`prometheus.py:7`): a retry
  and a recovery do not increment it, the dispatch decrements it. The autoscaler is
  checked with a gauge that lags by `MaxUncounted` jobs for this reason.
* "Ensure reproducible experiments" (`train.py:40`): when the ranks of an attempt
  have resumed from different states, that attempt ends with an error in one of
  them, but rank 0 may have written a checkpoint of the mixed model. A later attempt
  whose ranks resume at one epoch, one from this file and one from a good file of
  the same name on another disk, exits 0 everywhere with two models.
  `NoSilentDivergence` therefore speaks of the first attempt that is split.
* `/ready` answers `scheduler: true` (`health.py:23`) whatever has become of that
  thread.

### Why the bounds are enough

`MaxDispatch` bounds dispatches (guard in `PopJob`). `MaxRetries` is 1 throughout:
with it a job meets a first try, a retry, and the end of its budget, and two stale
writers already differ. `outage` needs two jobs, so that one waits in the queue while
the other is in the hands of a thread; every crash point of submission, scheduling,
report and monitor lies inside its one dispatch, and so does every transaction that
may raise; the other cluster runs keep `DbMayFail` off, which would make them too
large, while the theorems allow it. `live` has two jobs and two dispatches on one
node, the least for one process to take the place of another; `reconnect` has the
broken streams with one job, as both at once are half a million states, on which TLC
finds no error either but takes longer than a run may. Jobs of two nodes are in
`double_dispatch`, with three dispatches, so that the bound does not hide the one too
many; the safety theorems hold for jobs of any size. In `trainer`, three hosts let a
retry of a two-rank job move one rank and keep the other, or meet the other attempt on
one host, where a rank is dropped; two of them share a disk, so that attempts on one
storage and on two both occur. In `detector` the timeouts are the
smallest for which the settings are `Accurate` and `Timely`, by the tick, so an
error of one tick in a comparison is found. In `autoscaler` a callback outlasts
the join, two threads are an old loop and its successor, and the third job is the
one by which the queue exceeds threshold and uncounted jobs. In `pool` the number
of threads is one above, in `pool_exhausted` equal to, the number of streams two
nodes can hold; the theorem `PoolLargeEnough` gives the same bound for every size.
The two jobs of `outage` are interchangeable, and this run declares the symmetry:
every definition treats jobs alike, and the run checks no liveness. The theorems of
section 4 need none of these bounds but `MaxDispatch`, `MaxDelay`, `MaxPass`,
`MaxLost`, `MaxCall`, `MaxWaiting`, `MaxUncounted` and `MaxAttempts`, which they take
as any natural numbers.

Deadlock is checked in every run but `trainer`, whose job really ends. In
`detector` and `autoscaler` it says that time never comes to a stop, that is, that
nothing is overdue that no action can do. In the cluster runs `ProbeMarks` is
always possible while the manager is up, so there the absence of deadlock says
little and the liveness properties say what matters.

### Fairness

`FairSpec` of the core has weak fairness of the scheduler's and the monitor's
next step, of every exit code that is read, of every report call and its handler,
of a submission's queue entry, of the agents' threads and messages, and of `Lapse`
for a dead node. The code justifies it: the loops sleep a fixed time and go on, handlers have no wait
inside, gRPC delivers or breaks the stream, and the clock of a dead node's row
does pass 15 s. Nothing is assumed of crashes, cut connections, submissions,
probes or the length of a training process. Weak fairness is enough everywhere:
no other thread disables these steps for good.

The autoscaler's `FairSpec` has weak fairness of time, of the end of a join and of
each loop, and strong fairness of `Decides`: calls of the registry and the callback
return or raise, and the registry does not raise every time. A callback that always
raises is allowed; it has been called then.

`Trainer` assumes that a worker that can take a step takes one, and that the first
launch happens; nobody has to die or to retry. `WorkerPool`'s `FairSpec` assumes
that a free thread takes the next call and that a handler that can return does;
`EndingSpec`, under which the gridlock is found, gives the system even more: every
process ends and is reported.

## 4. What is proved

All proofs are checked by TLAPS to the last leaf. Assumptions: `RegistryAssumption`
(finitely many jobs, natural retry limits), `ManagerAssumption` (types of the other
constants), `PoolAssumption`, `DetectorAssumption` and `AutoscalerAssumption`
(natural times, positive settings), `TrainerAssumption` (at least one rank and one
host, any number of epochs, any epochs to resume from); TLC evaluates each of them. Of the
manager's promises about a single job, four are made to the jobs that ask for one
node (`OneNodeJobs`), whatever larger jobs run beside them, and hold under the
hypothesis `MayLapse = {}`: no live node falls 15 s behind. Both limits are those of
the code: two nodes of one job report twice and may undo each other's verdict, and a
live node that is given up has its job retried while it still runs. The hypothesis
is what `ClocksImplementRule` shows of `Accurate` settings. Crashes, broken streams,
restarts of the manager, exceptions of the database, other readers that mark nodes
offline: all of these may happen still.

| Theorem | Statement | For |
|---|---|---|
| `TypeCorrect` | `Spec => []TypeOK` | any nodes, jobs, retries, faults |
| `TypeInvariant` | `Spec => []TypeInv` | |
| `CommandsOnce` | `Spec => []OnceInv` | |
| `NoJobForgotten` | `Spec => []NoLostPendingJob` | |
| `CallersStayKnown` | `Spec => []CallersKnown` | |
| `LaunchesAreAssigned` | `Spec => []AssignedCoversLaunches` | |
| `JobsInOnePlace` | `MayLapse = {} => (Spec => []Settled)` | any nodes, jobs of any size, retries, faults but a lapse |
| `JobsHaveOneToken` | `MayLapse = {} => (Spec => []OneTokenPerJob)` | |
| `DispatchesArePaidFor` | `MayLapse = {} => (Spec => []AttemptsPaidFor)` | |
| `ManagerKeepsLifecycle` | `MayLapse = {} => (Spec => JobsLiveOnce)` | |
| `PoolTypeCorrect` | the pool's `Spec => []TypeOK` | any nodes, launches, threads |
| `PoolLargeEnough` | `Spec => []NoGridlock` when `Workers > Cardinality(Nodes) * (Launches + 1)` | |
| `DetectorTypeCorrect` | the detector's `Spec => []TypeOK` | any nodes, settings, delays, losses |
| `LiveNodesKept` | `Spec => []LiveNodeKept` | |
| `MonitorSeesFirst` | `Spec => []SeenBeforeMarked` | |
| `DetectionIsTimely` | `Spec => []DetectedInTime` | |
| `ClocksImplementRule` | `Accurate => (Spec => LapsesOnlyDead)` | |
| `AutoscalerTypeCorrect` | the autoscaler's `Spec => []TypeOK` | any threads, times, thresholds, queue |
| `LoopIsAlone` | `Spec => []AtMostOneLoop` | |
| `StopIsObeyed` | `Spec => []StopTakesEffect` | |
| `ScaleInIsSpaced` | `Spec => ScaleInSpaced` | |
| `TrainerTypes` | the trainer's `Spec => []TypeOK` | any ranks, epochs, epochs to resume from, attempts, hosts, storage |
| `FaithfulCheckpoints` | `Spec => []CheckpointsFaithful` | |
| `ResumesAlike` | `Spec => []AlikeOnOneStorage` | |
| `DivergenceIsSeen` | `Spec => []NoSilentDivergence` | |

**Types.** `TypeOK` is not inductive: `send_command` writes `run[<<Len(attempts), n>>]`,
which is a command only if a dispatch has been made and is within `MaxDispatch`.
`TypeInv` adds what the scheduler and the monitor know at each program counter
(`SchedulerInv`, `MonitorInv`) and that every command belongs to a dispatch that
was made (`CommandInv`). The proof has a lemma per action; the tuples `offSched`,
`offMonitor`, `offReport` and `offNode` say once what a kind of step leaves alone.

**Retries.** `RetriesBounded`, that the column does not pass `max_retries`, is a part of
the invariants and no promise: a retry writes `seen[c] + 1`, a value read some steps
ago, so two reports may write the same count and the column bounds the dispatches of
a job of one node only (`AttemptsPaidFor`; `DispatchBudget` is refuted).

**No job forgotten.** Whoever writes `PENDING` holds the job at that moment, so the
difficulty is letting go: a thread must hand the job to the queue, or the row must
have left `PENDING`. The scheduler stops holding its job in
`dispatch_allocated_job`, which writes `RUNNING`; a retry that writes `PENDING`
afterwards holds it itself. The monitor takes a second job only when it has queued
the first (`MonitorInv`). A report call would lose its job if the same command
were reported again meanwhile, which `OnceInv` excludes: a command is sent once,
waits in one queue once, and is reported once. The lemmas of `JobQueueProofs` say
that appending with a sort, popping, requeueing and recovering keep every entry. A
scheduler that an exception ends keeps its job in `schedJob`: the property calls
that held, and says so.

**Callers.** `CallersInv`: an agent that has begun to register has a row, no method
of the registry deletes one, and only an agent that got through registration has a
command stream, a process or a heartbeat. A crashed agent keeps its row too.

**Launches and their rows.** `run_job` rewrites `assigned_nodes` at each dispatch and
sends one command after the other. `SendingInv`: while it sends, the row names the
nodes the scheduler goes through, and the dispatch is the latest of its job, as no
other thread dispatches. Afterwards only a new dispatch of the same job changes the
row, and then the old launches are no longer of the latest one.

**One place for a job.** None of the last four theorems about jobs is inductive, and
each needs the same picture, `JobInv`, which says who may touch a job's row. A job
that waits is `PENDING` and waits in one of five places (`WaitingInv`). A launch that
is under way, from the send to the last write of its report, is the job's latest,
on the one node of its row, and the row is as this very call has left it
(`InHandInv`). The monitor's copies are as the rows are, and their nodes are quiet,
that is, dead with no report under way (`MonitorJobsInv`, `QuietInv`): here the
hypothesis that no live node lapses is used, and it is why monitor and report never
write about the same job. `CountInv` counts dispatches against retries. All of this
is said of the jobs of one node. Every step then falls into one of a few cases: it
leaves their rows alone (`RowsUntouched`), moves one of them from one place to the
next (`OneJobMoves`, `PlaceMoves`), or concerns a larger job, which shares queue,
scheduler, monitor pass and nodes with them but neither a row nor a command
(`OtherJobMoves`, `OtherReports`, `OtherDispatches`).

**One token.** `Tokens` names queue entries and reports one by one, so that two of a
kind count. That the queue holds a job once and that a report under way is of the
latest dispatch are parts of `JobInv`; the rest is that the kinds exclude each other.

**The lifecycle.** Each step of the manager maps to `Submit`, `Start`, `Complete`,
`Retry` or `Fail` of `JobLifecycle` for one job, or to a stutter. A report that
writes `COMPLETED` does so over `RUNNING`, because its launch was in hand; a retry
writes the count it read plus one, because no one else has written since.

**The pool.** If no held call can return by itself, every held call is a command
stream or a log stream; these inject into `Nodes \X (0..Launches)`, which is
smaller than the pool.

**The detector.** `Inductive` bounds the age of a row by what the loops are at.
`Paced`: no clock has passed its limit, and a stamp is not older than its call.
`Fresh`: a row is as old as the lost heartbeats, the running sleep or call and one
delay allow; it gives `Kept` when the settings are `Accurate`. `Watched` is the same
for the monitor: an unnoticed row is not older than `offline_timeout_sec` and the
time since its query, which stays below 15 s when the settings are `Timely`.
`Swept` is its counterpart for the marking. Ages stop at `Horizon`, so each of these
must hold of a cut-off age as well, which is why `Horizon` exceeds their sum. For
the refinement every step maps to the step of `NodeLiveness` of the same name, a
tick to `Lapse` of the rows that become overdue: `Fresh` says that none of them is of
a live node or has a heartbeat under way.

**The autoscaler.** `OneLoop`: a live thread is in `thread`, which has one element at
most. `Obeyed`: the stop in force is not older than the clock of the sleep or of the
evaluation that it met. `Cooled`: `sinceIn` runs ahead of the time since a callback
returned by the callback's length at most. `Rested`: a thread that is past its sleep
has slept since any thread last called. With both, `ScaleIn` implies the spacing.
`Counted` keeps the gauge in its range.

**The trainer.** `Counted` ties the weights of a replica to its epoch counter at each
program counter, so that what `torch.save` writes is what the file's name says, and
what a later attempt reads; the counter of a rank that has loaded an epoch past the
last stays there. `Undisturbed`: while an attempt outside `met` loads, it is the only
one to run. `NobodyAhead`: while some rank has yet to load nobody trains, since an
epoch takes all ranks, so a rank that is done had nothing to train. `Together` follows
an attempt outside `met` on one storage: nobody has written what the others have
loaded but a rank at its final save, and then the rest find the last epoch too
(`Unwritten`); from then on they train in step (`InStep`). `OutOfStep` is the
counterpart for ranks that resumed apart: their counters never meet, so when one has
no epoch left another waits in a collective that cannot complete, and that rank never
exits 0. `PastTheLast` is the same for a rank that found a checkpoint past the end.

## 5. What is only model-checked

* Liveness (`live`, `reconnect`, `HeartbeatServed`, `CompletesUnlessHit`, `DeepQueueScalesOut`): TLAPS does not prove
  liveness under fairness.
* One life for a job of several nodes is neither proved nor checked: the code does
  not keep it (section 3). Of such a job `NoLostPendingJob` and
  `AssignedCoversLaunches` are theorems; that its retries bound its dispatches is
  refuted by `double_dispatch`.

Every safety invariant and action property that a passing run checks is a theorem.

## 6. What is not modelled

* The loading of another scheduler plugin or another callback: a dotted path that
  is imported once.
* Workers of two overlapping attempts that meet in one `torchrun` rendezvous: an
  attempt is taken to form a group with its own ranks only. `--resume` on a file that
  another job has written under a wrong name; a negative `--epochs`.
* The shared token: every process has it, and a wrong one is a wrong installation.
* The heartbeat thread of an agent that ends by an exception other than `RpcError`,
  and the full pipe of a process whose log stream has broken: what psutil returns
  and what a job prints are outside the model. To the manager such a node is one
  that lapses, such a job one whose process does not end.
* Metrics that nothing reads; `JOB_LATENCY` is never observed, since the dict that
  carries `_submit_ts` is not the one `get_job` returns.
* Host metrics, settings, CLI, dashboard, stubs, deployment, the local runners, and
  `manager/scheduler.py`, which nothing imports: no state, or no effect on the
  system.

## 7. Plan

Done, in this order: registry, queue, agent, manager; properties and runs; proofs
of types, once-only commands and remembered jobs; trainer; pool; exceptions of the
database and authentication in the core; failure detector with its theorems and its
refinement; autoscaler with its theorems; callers, launches and their rows; one place
and one token per job of one node, and the refinement of `JobLifecycle`, with larger
jobs beside them; trainer on partly shared storage with overlapping attempts and any
epoch to resume from, and its theorems.

The theorems about one place and one life hold for every job of one node, whatever
else is submitted beside it. TLC checked their invariant on a job of one node beside
one of two, some four million states, which is more than a run may take; `live` has
two jobs of one node.

Next: what the code does keep of a job of several nodes, whose row has several
writers: which verdicts may follow which, and how many dispatches `n` reports can
make of one retry, as a second, weaker lifecycle that `JobLifecycle` refines.
