--------------------------- MODULE ClusterManager ---------------------------
(***************************************************************************)
(* The Cluster Manager (dmlf/manager/cluster_manager.py) with the          *)
(* scheduler thread (dmlf/manager/schedulers) and the monitor thread, over *)
(* the registry, the job queue and the agents.                             *)
(*                                                                         *)
(* Threads: one scheduler, one monitor, and a gRPC worker per call under   *)
(* way.  A step is one database transaction, one critical section of a     *)
(* lock or one message, with the thread-local work up to the next one; a   *)
(* Prometheus gauge moves with the step before it.  A transaction that     *)
(* raises is a step where it ends a thread or a call half way; where it    *)
(* leaves no trace (RegisterNode, SubmitJob, a probe) it is none.          *)
(*                                                                         *)
(* Time is untimed order, with one assumption, in Lapse: a node outside    *)
(* MayLapse falls 15 s behind only when it is dead and its last messages   *)
(* have been handled.                                                      *)
(***************************************************************************)
EXTENDS JobQueue, NodeAgent, Integers

CONSTANTS
    Required,       \* Required[j]: nnodes of the submission
    Score,          \* Score[n]: NodeAllocator.score_node
    MayLapse,       \* live nodes whose heartbeats may come more than 15 s apart
    ManagerMayCrash,\* whether the manager process may crash
    DbMayFail       \* whether a transaction may raise (SQLite's lock timeout)

ASSUME ManagerAssumption ==
    /\ Required \in [Jobs -> Nat]
    /\ Score \in [Nodes -> Nat]
    /\ MaxDispatch \in Nat
    /\ MayCrash \subseteq Nodes /\ MayCut \subseteq Nodes /\ MayLapse \subseteq Nodes
    /\ ManagerMayCrash \in BOOLEAN /\ DbMayFail \in BOOLEAN

VARIABLES
    up,             \* whether the manager process runs
    registering,    \* RegisterNode calls between row and command queue
    submitting,     \* SubmitJob calls between row and queue entry
    schedPc,        \* where the scheduler thread is
    schedJob,       \* its local job: <<entry>>, or <<>> for None
    schedNodes,     \* its local nodes, allocate's answer
    schedIdx,       \* index of its for loops
    monPc,          \* where the monitor thread is
    monOffline,     \* its offline_nodes
    monJobs,        \* its running_jobs still to be looked at
    monJob,         \* the job it is putting back in the queue, <<>> when none
    monSeen,        \* retries of those dicts, 0 elsewhere
    handler,        \* where the ReportJobStatus call for a command is
    seen,           \* retries of that call's job dict
    command_queues, \* node id -> queue of attempts to launch there
    cmdNodes,       \* the keys of self.command_queues
    ghost,          \* nodes with a ListenForCommands generator of a dead stream
    attempts,       \* history: the job of every dispatch
    jobsQueued,     \* JOBS_QUEUED
    jobsRunning     \* JOBS_RUNNING

schedVars == <<schedPc, schedJob, schedNodes, schedIdx>>
monVars == <<monPc, monOffline, monJobs, monJob, monSeen>>
reportVars == <<handler, seen>>
commandVars == <<command_queues, cmdNodes, ghost>>
callVars == <<registering, submitting>>
gauges == <<jobsQueued, jobsRunning>>
vars == <<nodeTable, jobTable, queue, agentVars, up, callVars, schedVars, monVars,
          reportVars, commandVars, attempts, gauges>>

\* What no step of the scheduler, of the monitor, of a report call and of a node
\* changes.
offSched == <<agentVars, up, callVars, monVars, reportVars, commandVars>>
offMonitor == <<agentVars, up, callVars, schedVars, reportVars, commandVars, attempts,
                gauges>>
offReport == <<up, callVars, schedVars, monVars, commandVars, attempts>>
offNode == <<jobTable, queue, up, submitting, schedVars, monVars, reportVars, attempts,
             gauges>>

HandlerPhase == {"none", "retryIdle", "retryDb", "retryQueue", "permFailed",
                 "permIdle", "compIdle"}

TypeOK ==
    /\ RegistryTypeOK
    /\ AgentTypeOK
    /\ queue \in Seq(Entry)
    /\ up \in BOOLEAN
    /\ registering \subseteq Nodes /\ submitting \subseteq Jobs
    /\ schedPc \in {"pop", "mark", "select", "requeue", "reserve", "running", "send",
                   "dead"}
    /\ schedJob = <<>> \/ \E e \in Entry : schedJob = <<e>>
    /\ schedNodes \in Seq(Nodes)
    /\ schedIdx \in Nat
    /\ monPc \in {"scan", "jobs", "handle", "append", "mark", "count", "dead"}
    /\ monOffline \subseteq Nodes /\ monJobs \subseteq Jobs
    /\ monJob = <<>> \/ \E j \in Jobs : monJob = <<j>>
    /\ monSeen \in [Jobs -> Nat]
    /\ handler \in [Cmd -> HandlerPhase]
    /\ seen \in [Cmd -> Nat]
    /\ command_queues \in [Nodes -> Seq(Attempt)]
    /\ cmdNodes \subseteq Nodes /\ ghost \subseteq Nodes
    /\ attempts \in Seq(Jobs) /\ Len(attempts) <= MaxDispatch
    /\ jobsQueued \in Int /\ jobsRunning \in Int

Init ==
    /\ _init_db
    /\ queue = <<>>
    /\ AgentInit
    /\ up = TRUE
    /\ registering = {} /\ submitting = {}
    /\ schedPc = "pop" /\ schedJob = <<>> /\ schedNodes = <<>> /\ schedIdx = 0
    /\ monPc = "scan" /\ monOffline = {} /\ monJobs = {} /\ monJob = <<>>
    /\ monSeen = [j \in Jobs |-> 0]
    /\ handler = [c \in Cmd |-> "none"]
    /\ seen = [c \in Cmd |-> 0]
    /\ command_queues = [n \in Nodes |-> <<>>]
    /\ cmdNodes = {} /\ ghost = {}
    /\ attempts = <<>>
    /\ jobsQueued = 0 /\ jobsRunning = 0

-----------------------------------------------------------------------------
(* RegisterNode and ListenForCommands. *)

\* NodeSecretServerInterceptor in front of the node's calls: the secret the
\* agent got from RegisterNode is in the row of the nodes table.
Authenticated(n) == nodeStatus[n] # "ABSENT"

RegisterNode(n) ==
    /\ up
    /\ Register(n)
    /\ register_node(n)
    /\ registering' = registering \cup {n}
    /\ UNCHANGED <<offNode, commandVars>>

\* The second half of the handler: the command queue, then the response.
CreateQueue(n) ==
    /\ n \in registering
    /\ registering' = registering \ {n}
    /\ cmdNodes' = cmdNodes \cup {n}
    /\ Registers(n)
    /\ UNCHANGED <<offNode, nodeTable, command_queues, ghost>>

ListenForCommands(n) ==
    /\ up
    /\ Authenticated(n)
    /\ Listen(n)
    /\ cmdNodes' = cmdNodes \cup {n}
    /\ UNCHANGED <<offNode, nodeTable, registering, command_queues, ghost>>

\* The agent finds its stream broken, or cannot open one.
StreamEnds(n) ==
    /\ agent[n] = "away" => ~up \/ DbMayFail \/ ~Authenticated(n)
    /\ Disconnected(n)
    /\ UNCHANGED <<offNode, nodeTable, registering, commandVars>>

\* The generator takes the oldest command and yields it to the agent.
DeliverCommand(n) ==
    /\ command_queues[n] # <<>>
    /\ LaunchJob(<<Head(command_queues[n]), n>>)
    /\ command_queues' = [command_queues EXCEPT ![n] = Tail(@)]
    /\ UNCHANGED <<offNode, nodeTable, registering, cmdNodes, ghost>>

\* q.get(timeout=2.0) of a stream that is gone returns before is_active is
\* asked again: the command goes to nobody.
GhostTakes(n) ==
    /\ n \in ghost
    /\ command_queues[n] # <<>>
    /\ run' = [run EXCEPT ![<<Head(command_queues[n]), n>>] = "lost"]
    /\ command_queues' = [command_queues EXCEPT ![n] = Tail(@)]
    /\ ghost' = ghost \ {n}
    /\ UNCHANGED <<offNode, nodeTable, agent, agentStatus, heartbeat, proc, exit,
                   registering, cmdNodes>>

GhostEnds(n) ==
    /\ n \in ghost
    /\ ghost' = ghost \ {n}
    /\ UNCHANGED <<offNode, nodeTable, agentVars, registering, command_queues,
                   cmdNodes>>

-----------------------------------------------------------------------------
(* SendHeartbeat. *)

AgentHeartbeat(n) ==
    /\ BuildHeartbeat(n)
    /\ UNCHANGED <<offNode, nodeTable, registering, commandVars>>

SendHeartbeat(n) ==
    /\ up
    /\ Authenticated(n)
    /\ HeartbeatReturns(n)
    /\ update_heartbeat(n, heartbeat[n])
    /\ UNCHANGED <<offNode, registering, commandVars>>

HeartbeatFails(n) ==
    /\ ~up \/ DbMayFail \/ ~Authenticated(n) \/ n \in MayCut \/ agent[n] = "dead"
    /\ HeartbeatReturns(n)
    /\ UNCHANGED <<offNode, nodeTable, registering, commandVars>>

-----------------------------------------------------------------------------
(* SubmitJob: the row, then the queue entry and the gauge. *)

SubmitJob(j) ==
    /\ up
    /\ jobStatus[j] = "ABSENT"
    /\ insert_job(j)
    /\ submitting' = submitting \cup {j}
    /\ UNCHANGED <<nodeTable, queue, agentVars, up, registering, schedVars, monVars,
                   reportVars, commandVars, attempts, gauges>>

EnqueueJob(j) ==
    /\ j \in submitting
    /\ append_and_sort(Fresh(j))
    /\ submitting' = submitting \ {j}
    /\ jobsQueued' = jobsQueued + 1
    /\ UNCHANGED <<nodeTable, jobTable, agentVars, up, registering, schedVars,
                   monVars, reportVars, commandVars, attempts, jobsRunning>>

-----------------------------------------------------------------------------
(* The scheduler thread: _scheduler_loop, _select_nodes and the callback   *)
(* dispatch_allocated_job.                                                 *)

\* Mutant: len(available) <= required, off by one.
allocate_strict(available, k) ==
    IF Cardinality(available) <= k THEN {} ELSE [1..k -> available]

\* allocate: the k best nodes, none when there are too few; equal scores stay
\* in the order of the SELECT, which has no ORDER BY.
allocate(available, k) ==
    {s \in [1..k -> available] :
        /\ \A i, m \in 1..k : i < m => s[i] # s[m] /\ Score[s[i]] >= Score[s[m]]
        /\ \A i \in 1..k, n \in available :
              n \in {s[m] : m \in 1..k} \/ Score[s[i]] >= Score[n]}

\* The loop's own variables, back where the next round starts.
NextRound ==
    /\ schedPc' = "pop" /\ schedJob' = <<>> /\ schedNodes' = <<>> /\ schedIdx' = 0

\* Bound: no more dispatches than there are attempt numbers.
PopJob ==
    /\ schedPc = "pop"
    /\ queue # <<>>
    /\ Len(attempts) < MaxDispatch
    /\ schedJob' = top
    /\ pop_top_job
    /\ schedPc' = "mark"
    /\ UNCHANGED <<offSched, nodeTable, jobTable, schedNodes, schedIdx, attempts,
                   gauges>>

\* get_available_nodes, first transaction.
SchedulerMarks ==
    /\ schedPc = "mark"
    /\ mark_offline_nodes
    /\ schedPc' = "select"
    /\ UNCHANGED <<offSched, jobTable, queue, schedJob, schedNodes, schedIdx,
                   attempts, gauges>>

\* get_available_nodes, second transaction, and allocate.
SelectNodes ==
    /\ schedPc = "select"
    /\ LET k == Required[schedJob[1].job]
           choice == allocate(AvailableNodes, k)
       IN  IF k = 0 \/ choice = {}
           THEN schedPc' = "requeue" /\ UNCHANGED <<schedNodes, schedIdx>>
           ELSE /\ schedPc' = "reserve"
                /\ schedNodes' \in choice
                /\ schedIdx' = 1
    /\ UNCHANGED <<offSched, nodeTable, jobTable, queue, schedJob, attempts, gauges>>

RequeueJob ==
    /\ schedPc = "requeue"
    /\ requeue_job(schedJob[1])
    /\ NextRound
    /\ UNCHANGED <<offSched, nodeTable, jobTable, attempts, gauges>>

\* One round of the loop that reserves the selected nodes.
ReserveNode ==
    /\ schedPc = "reserve"
    /\ update_node_state(schedNodes[schedIdx], "RESERVED")
    /\ IF schedIdx < Len(schedNodes)
       THEN schedIdx' = schedIdx + 1 /\ UNCHANGED schedPc
       ELSE schedIdx' = 1 /\ schedPc' = "running"
    /\ UNCHANGED <<offSched, jobTable, queue, schedJob, schedNodes, attempts, gauges>>

\* dispatch_allocated_job up to its loop.
dispatch_allocated_job ==
    /\ schedPc = "running"
    /\ update_job_assigned(schedJob[1].job, "RUNNING",
                           {schedNodes[i] : i \in DOMAIN schedNodes})
    /\ attempts' = Append(attempts, schedJob[1].job)
    /\ jobsQueued' = jobsQueued - 1
    /\ jobsRunning' = jobsRunning + 1
    /\ schedPc' = "send"
    /\ UNCHANGED <<offSched, nodeTable, queue, schedJob, schedNodes, schedIdx>>

\* One round of the loop of dispatch_allocated_job.  A node without a command
\* queue gets a log line and no command.
send_command ==
    /\ schedPc = "send"
    /\ LET n == schedNodes[schedIdx]
           a == Len(attempts)
       IN  IF n \in cmdNodes
           THEN /\ command_queues' = [command_queues EXCEPT ![n] = Append(@, a)]
                /\ run' = [run EXCEPT ![<<a, n>>] = "queued"]
           ELSE /\ run' = [run EXCEPT ![<<a, n>>] = "lost"]
                /\ UNCHANGED command_queues
    /\ IF schedIdx < Len(schedNodes)
       THEN schedIdx' = schedIdx + 1 /\ UNCHANGED <<schedPc, schedJob, schedNodes>>
       ELSE NextRound
    /\ UNCHANGED <<nodeTable, jobTable, queue, agent, agentStatus, heartbeat, proc,
                   exit, up, callVars, monVars, reportVars, cmdNodes, ghost,
                   attempts, gauges>>

\* The loop has no try: an exception ends the thread, with the job it holds.
SchedulerDies ==
    /\ DbMayFail
    /\ schedPc \in {"mark", "select", "reserve", "running"}
    /\ schedPc' = "dead" /\ schedNodes' = <<>> /\ schedIdx' = 0
    /\ UNCHANGED <<offSched, nodeTable, jobTable, queue, schedJob, attempts, gauges>>

SchedulerStep ==
    \/ PopJob \/ SchedulerMarks \/ SelectNodes \/ RequeueJob
    \/ ReserveNode \/ dispatch_allocated_job \/ send_command

-----------------------------------------------------------------------------
(* ReportJobStatus, one call per command. *)

\* job["retries"] < job["max_retries"], here and in the monitor.
RetriesLeft(j, count) == count < MaxRetries[j]

\* "failed": get_job, and the branch on its retries.
ReportFailed(c) ==
    LET j == attempts[c[1]]
    IN  /\ up
        /\ Authenticated(c[2])
        /\ run[c] = "nonzero"
        /\ ReportStatus(c)
        /\ seen' = [seen EXCEPT ![c] = retries[j]]
        /\ handler' = [handler EXCEPT ![c] =
                          IF RetriesLeft(j, retries[j]) THEN "retryIdle" ELSE "permFailed"]
        /\ UNCHANGED <<offReport, nodeTable, jobTable, queue, gauges>>

RetryIdlesNode(c) ==
    /\ handler[c] = "retryIdle"
    /\ update_node_state(c[2], "IDLE")
    /\ handler' = [handler EXCEPT ![c] = "retryDb"]
    /\ UNCHANGED <<offReport, jobTable, queue, agentVars, seen, gauges>>

\* retry_job, its write: the retries of the dict read in ReportFailed, plus 1.
RetryWrites(c) ==
    /\ handler[c] = "retryDb"
    /\ update_job_retries(attempts[c[1]], "PENDING", seen[c] + 1)
    /\ handler' = [handler EXCEPT ![c] = "retryQueue"]
    /\ UNCHANGED <<offReport, nodeTable, queue, agentVars, seen, gauges>>

\* retry_job, its critical section.
RetryQueues(c) ==
    /\ handler[c] = "retryQueue"
    /\ append_and_sort(Row(attempts[c[1]]))
    /\ handler' = [handler EXCEPT ![c] = "none"]
    /\ seen' = [seen EXCEPT ![c] = 0]
    /\ UNCHANGED <<offReport, nodeTable, jobTable, agentVars, gauges>>

PermanentlyFails(c) ==
    /\ handler[c] = "permFailed"
    /\ update_job_status(attempts[c[1]], "FAILED")
    /\ handler' = [handler EXCEPT ![c] = "permIdle"]
    /\ seen' = [seen EXCEPT ![c] = 0]
    /\ UNCHANGED <<offReport, nodeTable, queue, agentVars, gauges>>

PermanentlyFailedIdlesNode(c) ==
    /\ handler[c] = "permIdle"
    /\ update_node_state(c[2], "IDLE")
    /\ handler' = [handler EXCEPT ![c] = "none"]
    /\ UNCHANGED <<offReport, jobTable, queue, agentVars, seen, gauges>>

\* "completed".
ReportCompleted(c) ==
    /\ up
    /\ Authenticated(c[2])
    /\ run[c] = "zero"
    /\ ReportStatus(c)
    /\ update_job_status(attempts[c[1]], "COMPLETED")
    /\ handler' = [handler EXCEPT ![c] = "compIdle"]
    /\ UNCHANGED <<offReport, nodeTable, queue, seen, gauges>>

CompletedIdlesNode(c) ==
    /\ handler[c] = "compIdle"
    /\ update_node_state(c[2], "IDLE")
    /\ jobsRunning' = jobsRunning - 1
    /\ handler' = [handler EXCEPT ![c] = "none"]
    /\ UNCHANGED <<offReport, jobTable, queue, agentVars, seen, jobsQueued>>

HandlerStep(c) ==
    \/ RetryIdlesNode(c) \/ RetryWrites(c) \/ RetryQueues(c)
    \/ PermanentlyFails(c) \/ PermanentlyFailedIdlesNode(c) \/ CompletedIdlesNode(c)

ReportJobStatus(c) == ReportFailed(c) \/ ReportCompleted(c)

\* An exception half way: the agent swallows the error, nobody tries again.
HandlerRaises(c) ==
    /\ DbMayFail
    /\ handler[c] \notin {"none", "retryQueue"}
    /\ handler' = [handler EXCEPT ![c] = "none"]
    /\ seen' = [seen EXCEPT ![c] = 0]
    /\ UNCHANGED <<offReport, nodeTable, jobTable, queue, agentVars, gauges>>

\* The log thread reads the exit code.
ExitIsRead(c) ==
    /\ WaitReturns(c)
    /\ UNCHANGED <<offReport, nodeTable, jobTable, queue, reportVars, gauges>>

\* No report: the manager cannot be reached, refuses or raises at the first
\* transaction of the call, or StreamLogs broke and its generator was dropped.
ReportLost(c) ==
    /\ \/ /\ ~up \/ DbMayFail \/ ~Authenticated(c[2]) \/ c[2] \in MayCut
          /\ ReportFails(c)
       \/ /\ run[c] = "cut" \/ DbMayFail \/ ~Authenticated(c[2])
          /\ GeneratorDropped(c)
    /\ UNCHANGED <<offReport, nodeTable, jobTable, queue, reportVars, gauges>>

-----------------------------------------------------------------------------
(* The monitor thread: monitor_nodes. *)

\* Its own SELECT; it goes through the jobs only when a node has just lapsed.
MonitorScans ==
    /\ up
    /\ monPc = "scan"
    /\ monOffline' = {n \in Nodes : Overdue(n)}
    /\ monPc' = IF monOffline' = {} THEN "mark" ELSE "jobs"
    /\ UNCHANGED <<offMonitor, nodeTable, jobTable, queue, monJobs, monJob, monSeen>>

\* get_jobs, with the test of assigned_nodes, which looks at the same dicts.
MonitorReadsJobs ==
    /\ monPc = "jobs"
    /\ monJobs' = {j \in get_jobs("RUNNING") : assigned[j] \cap monOffline # {}}
    /\ monSeen' = [j \in Jobs |-> IF j \in monJobs' THEN retries[j] ELSE 0]
    /\ monOffline' = {}
    /\ monPc' = "handle"
    /\ UNCHANGED <<offMonitor, nodeTable, jobTable, queue, monJob>>

\* retry_job's write for one of those jobs.
MonitorRetries(j) ==
    /\ monPc = "handle"
    /\ j \in monJobs
    /\ RetriesLeft(j, monSeen[j])
    /\ update_job_retries(j, "PENDING", monSeen[j] + 1)
    /\ monJobs' = monJobs \ {j}
    /\ monSeen' = [monSeen EXCEPT ![j] = 0]
    /\ monJob' = <<j>>
    /\ monPc' = "append"
    /\ UNCHANGED <<offMonitor, nodeTable, queue, monOffline>>

MonitorQueues ==
    /\ monPc = "append"
    /\ append_and_sort(Row(monJob[1]))
    /\ monJob' = <<>>
    /\ monPc' = "handle"
    /\ UNCHANGED <<offMonitor, nodeTable, jobTable, monOffline, monJobs, monSeen>>

MonitorFails(j) ==
    /\ monPc = "handle"
    /\ j \in monJobs
    /\ ~RetriesLeft(j, monSeen[j])
    /\ update_job_status(j, "FAILED")
    /\ monJobs' = monJobs \ {j}
    /\ monSeen' = [monSeen EXCEPT ![j] = 0]
    /\ UNCHANGED <<offMonitor, nodeTable, queue, monPc, monOffline, monJob>>

MonitorDone ==
    /\ monPc = "handle"
    /\ monJobs = {}
    /\ monPc' = "mark"
    /\ UNCHANGED <<offMonitor, nodeTable, jobTable, queue, monOffline, monJobs,
                   monJob, monSeen>>

\* mark_offline_nodes, and once more inside get_all_nodes; the three node
\* gauges set from its answer are left out.
MonitorMarks ==
    /\ monPc \in {"mark", "count"}
    /\ mark_offline_nodes
    /\ monPc' = IF monPc = "mark" THEN "count" ELSE "scan"
    /\ UNCHANGED <<offMonitor, jobTable, queue, monOffline, monJobs, monJob, monSeen>>

MonitorStep ==
    \/ MonitorScans \/ MonitorReadsJobs \/ MonitorQueues \/ MonitorDone \/ MonitorMarks
    \/ \E j \in Jobs : MonitorRetries(j) \/ MonitorFails(j)

\* Nor has monitor_nodes a try around its transactions.
MonitorDies ==
    /\ up /\ DbMayFail
    /\ monPc \in {"scan", "jobs", "handle", "mark", "count"}
    /\ monPc = "handle" => monJobs # {}
    /\ monPc' = "dead" /\ monOffline' = {} /\ monJobs' = {}
    /\ monSeen' = [j \in Jobs |-> 0]
    /\ UNCHANGED <<offMonitor, nodeTable, jobTable, queue, monJob>>

\* get_all_nodes and get_available_nodes in other threads: /ready and /cluster
\* of the health server, and the autoscaler.
ProbeMarks ==
    /\ up
    /\ mark_offline_nodes
    /\ UNCHANGED <<offMonitor, jobTable, queue, monVars>>

-----------------------------------------------------------------------------
(* The environment, and the manager process. *)

Lapse(n) ==
    /\ nodeStatus[n] # "ABSENT"
    /\ \/ n \in MayLapse
       \/ /\ agent[n] = "dead"
          /\ heartbeat[n] = "none"
          /\ \A c \in Cmd : c[2] = n => handler[c] = "none"
    /\ expired' = [expired EXCEPT ![n] = TRUE]
    /\ UNCHANGED <<offNode, nodeStatus, agentVars, registering, commandVars>>

JobProcessExits(n) ==
    /\ ProcessExits(n)
    /\ UNCHANGED <<offNode, nodeTable, registering, commandVars>>

ConnectionBreaks(n) ==
    /\ CutConnection(n)
    /\ ghost' = ghost \cup {n}
    /\ UNCHANGED <<offNode, nodeTable, registering, command_queues, cmdNodes>>

NodeCrashes(n) ==
    /\ AgentCrash(n)
    /\ UNCHANGED <<offNode, nodeTable, registering, commandVars>>

\* Only the database survives the manager process.
ManagerCrashes ==
    /\ up /\ ManagerMayCrash
    /\ up' = FALSE
    /\ ManagerGone
    /\ queue' = <<>>
    /\ registering' = {} /\ submitting' = {}
    /\ NextRound
    /\ monPc' = "scan" /\ monOffline' = {} /\ monJobs' = {} /\ monJob' = <<>>
    /\ monSeen' = [j \in Jobs |-> 0]
    /\ handler' = [c \in Cmd |-> "none"]
    /\ seen' = [c \in Cmd |-> 0]
    /\ command_queues' = [n \in Nodes |-> <<>>]
    /\ cmdNodes' = {} /\ ghost' = {}
    /\ jobsQueued' = 0 /\ jobsRunning' = 0
    /\ UNCHANGED <<nodeTable, jobTable, attempts>>

\* serve(): the registry keeps its file, the queue is rebuilt from it.
ManagerRestarts ==
    /\ ~up
    /\ up' = TRUE
    /\ _recover_pending_jobs
    /\ UNCHANGED <<nodeTable, jobTable, agentVars, callVars, schedVars, monVars,
                   reportVars, commandVars, attempts, gauges>>

NodeStep(n) ==
    \/ RegisterNode(n) \/ CreateQueue(n) \/ ListenForCommands(n) \/ StreamEnds(n)
    \/ DeliverCommand(n) \/ GhostTakes(n) \/ GhostEnds(n)
    \/ AgentHeartbeat(n) \/ SendHeartbeat(n) \/ HeartbeatFails(n)
    \/ Lapse(n) \/ JobProcessExits(n) \/ ConnectionBreaks(n) \/ NodeCrashes(n)

CommandStep(c) ==
    \/ ExitIsRead(c) \/ ReportJobStatus(c) \/ ReportLost(c)
    \/ HandlerStep(c) \/ HandlerRaises(c)

Next ==
    \/ \E n \in Nodes : NodeStep(n)
    \/ \E c \in Cmd : CommandStep(c)
    \/ \E j \in Jobs : SubmitJob(j) \/ EnqueueJob(j)
    \/ SchedulerStep \/ SchedulerDies
    \/ MonitorStep \/ MonitorDies
    \/ ProbeMarks
    \/ ManagerCrashes
    \/ ManagerRestarts

Spec == Init /\ [][Next]_vars
=============================================================================
