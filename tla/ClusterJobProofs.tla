-------------------------- MODULE ClusterJobProofs ---------------------------
(***************************************************************************)
(* What the rows of the nodes and jobs tables are good for, and, for jobs  *)
(* of one node when no live node falls behind, that a job runs once at a   *)
(* time and its row lives the life its submitter counts on.  Jobs of more  *)
(* nodes may be there beside them: theirs are the cases i \notin            *)
(* OneNodeJobs.                                                            *)
(***************************************************************************)
EXTENDS ClusterSafetyProofs

USE DEF Unreported

(* The monitor and the probes of the health server stay on their side. *)
LEMMA MonitorFrame ==
  ASSUME MonitorStep \/ MonitorDies \/ ProbeMarks
  PROVE  UNCHANGED <<agent, heartbeat, run, up, submitting, schedPc, schedJob, schedNodes,
                     handler, seen, attempts>>
  <1>1. UNCHANGED offMonitor
    BY DEF MonitorStep, ProbeMarks, MonitorScans, MonitorReadsJobs, MonitorQueues,
           MonitorDone, MonitorMarks, MonitorRetries, MonitorFails, MonitorDies
  <1> QED BY <1>1 DEF offMonitor, agentVars, callVars, schedVars, reportVars

\* So does a report call.
LEMMA ReportFrame ==
  ASSUME NEW c \in Cmd, CommandStep(c)
  PROVE  UNCHANGED <<agent, heartbeat, up, submitting, schedPc, schedJob, schedNodes,
                     monPc, monOffline, monJobs, monJob, monSeen, attempts>>
  <1>1. UNCHANGED offReport
    BY DEF CommandStep, ReportJobStatus, ReportFailed, ReportCompleted, ReportLost, ExitIsRead,
           HandlerStep, RetryIdlesNode, RetryWrites, RetryQueues, PermanentlyFails,
           PermanentlyFailedIdlesNode, CompletedIdlesNode, HandlerRaises
  <1>2. UNCHANGED <<agent, heartbeat>>
    BY DEF CommandStep, ReportJobStatus, ReportFailed, ReportCompleted, ReportLost, ExitIsRead,
           HandlerStep, RetryIdlesNode, RetryWrites, RetryQueues, PermanentlyFails,
           PermanentlyFailedIdlesNode, CompletedIdlesNode, HandlerRaises, agentVars,
           ReportStatus, ReportFails, GeneratorDropped, WaitReturns
  <1> QED BY <1>1, <1>2 DEF offReport, callVars, schedVars, monVars

\* And the scheduler, up to the commands it sends.
LEMMA SchedulerFrame ==
  ASSUME SchedulerStep \/ SchedulerDies
  PROVE  /\ UNCHANGED <<agent, heartbeat, up, submitting, handler, seen, monPc, monOffline,
                        monJobs, monJob, monSeen, retries, created, expired>>
         /\ send_command \/ UNCHANGED run
  <1>1. UNCHANGED <<retries, created, expired>>
    BY DEF SchedulerStep, PopJob, SchedulerMarks, SelectNodes, RequeueJob, ReserveNode,
           dispatch_allocated_job, send_command, SchedulerDies, jobTable, nodeTable,
           mark_offline_nodes, update_node_state, update_job_assigned
  <1>2. UNCHANGED offSched \/ send_command
    BY DEF SchedulerStep, PopJob, SchedulerMarks, SelectNodes, RequeueJob, ReserveNode,
           dispatch_allocated_job, SchedulerDies
  <1>3. CASE UNCHANGED offSched
    BY <1>1, <1>3 DEF offSched, agentVars, callVars, reportVars, monVars
  <1>4. CASE send_command
    BY <1>1, <1>4 DEF send_command, callVars, reportVars, monVars
  <1> QED BY <1>2, <1>3, <1>4

\* What one step may do to the rows of the jobs table.
RowsStay ==
    \A j \in Jobs : Known(j) => Known(j)' /\ created'[j] = created[j]

\* No row of a job is ever removed or made anew (node_registry.py:140-200).
LEMMA JobRowsStay ==
  ASSUME TypeInv, [Next]_vars
  PROVE  RowsStay
  <1> USE DEF Known
  <1>1. ASSUME UNCHANGED <<jobStatus, created>> PROVE RowsStay
    BY <1>1 DEF RowsStay
  <1>2. ASSUME NEW j, NEW s \in JobStatus \ {"ABSENT"},
               jobStatus' = [jobStatus EXCEPT ![j] = s], UNCHANGED created
        PROVE  RowsStay
    BY <1>2, SchedSideNow DEF RowsStay, StoreSide, RegistryTypeOK
  <1>3. ASSUME NEW n \in Nodes, NodeStep(n) PROVE RowsStay
    <2>1. UNCHANGED jobTable
      BY <1>3 DEF NodeStep, RegisterNode, CreateQueue, ListenForCommands, StreamEnds,
             DeliverCommand, GhostTakes, GhostEnds, AgentHeartbeat, SendHeartbeat,
             HeartbeatFails, Lapse, JobProcessExits, ConnectionBreaks, NodeCrashes, offNode
    <2> QED BY <1>1, <2>1 DEF jobTable
  <1>4. ASSUME NEW c \in Cmd, CommandStep(c) PROVE RowsStay
    <2>1. \/ UNCHANGED jobTable
          \/ /\ UNCHANGED created
             /\ \E s \in {"PENDING", "FAILED", "COMPLETED"} :
                   jobStatus' = [jobStatus EXCEPT ![attempts[c[1]]] = s]
      BY <1>4 DEF CommandStep, ReportJobStatus, ReportFailed, ReportCompleted, ReportLost, ExitIsRead,
             HandlerStep, RetryIdlesNode, RetryWrites, RetryQueues, PermanentlyFails,
             PermanentlyFailedIdlesNode, CompletedIdlesNode, HandlerRaises,
             update_job_retries, update_job_status
    <2> QED BY <1>1, <1>2, <2>1 DEF jobTable, JobStatus
  <1>5. ASSUME NEW j \in Jobs, SubmitJob(j) PROVE RowsStay
    <2>1. /\ jobStatus[j] = "ABSENT" /\ jobStatus' = [jobStatus EXCEPT ![j] = "PENDING"]
          /\ \A i \in Jobs \ {j} : created'[i] = created[i]
      BY <1>5, SchedSideNow DEF SubmitJob, insert_job, StoreSide, RegistryTypeOK
    <2> QED BY <2>1, SchedSideNow DEF RowsStay, StoreSide, RegistryTypeOK
  <1>6. ASSUME NEW j \in Jobs, EnqueueJob(j) PROVE RowsStay
    BY <1>1, <1>6 DEF EnqueueJob, jobTable
  <1>7. CASE SchedulerStep \/ SchedulerDies
    <2>1. \/ UNCHANGED jobStatus
          \/ jobStatus' = [jobStatus EXCEPT ![schedJob[1].job] = "RUNNING"]
      BY <1>7 DEF SchedulerStep, PopJob, SchedulerMarks, SelectNodes, RequeueJob,
             ReserveNode, dispatch_allocated_job, send_command, SchedulerDies, jobTable,
             update_job_assigned
    <2> QED BY <1>1, <1>2, <1>7, <2>1, SchedulerFrame DEF JobStatus
  <1>8. CASE MonitorStep \/ MonitorDies \/ ProbeMarks
    <2>1. \/ UNCHANGED jobTable
          \/ /\ UNCHANGED created
             /\ \E j \in Jobs, s \in {"PENDING", "FAILED"} :
                   jobStatus' = [jobStatus EXCEPT ![j] = s]
      BY <1>8 DEF MonitorStep, ProbeMarks, MonitorScans, MonitorReadsJobs, MonitorQueues,
             MonitorDone, MonitorMarks, MonitorRetries, MonitorFails, MonitorDies,
             update_job_retries, update_job_status
    <2> QED BY <1>1, <1>2, <2>1 DEF jobTable, JobStatus
  <1>9. CASE ManagerCrashes \/ ManagerRestarts \/ UNCHANGED vars
    BY <1>1, <1>9 DEF ManagerCrashes, ManagerRestarts, vars, jobTable
  <1> QED BY <1>3, <1>4, <1>5, <1>6, <1>7, <1>8, <1>9 DEF Next

-----------------------------------------------------------------------------
(* CallersKnown. *)

\* No row of a node is ever removed (node_registry.py:62-138).
LEMMA NodeRowsStay ==
  ASSUME TypeInv, [Next]_vars
  PROVE  \A n \in Nodes : Authenticated(n) => Authenticated(n)'
  <1> DEFINE Stay == \A n \in Nodes : Authenticated(n) => Authenticated(n)'
  <1> SUFFICES Stay
    OBVIOUS
  <1>1. ASSUME UNCHANGED nodeStatus PROVE Stay
    BY <1>1 DEF Authenticated
  <1>2. ASSUME NEW n, NEW s \in NodeStatus \ {"ABSENT"},
               nodeStatus' = [nodeStatus EXCEPT ![n] = s]
        PROVE  Stay
    BY <1>2, NodeSideNow DEF Authenticated, NodeSide
  <1>3. ASSUME mark_offline_nodes PROVE Stay
    BY <1>3 DEF mark_offline_nodes, Authenticated, Overdue
  <1> HIDE DEF Stay
  <1>4. ASSUME NEW n \in Nodes, NodeStep(n) PROVE Stay
    <2>1. CASE RegisterNode(n)
      BY <1>2, <2>1 DEF RegisterNode, register_node, NodeStatus
    <2>2. CASE SendHeartbeat(n)
      <3>1. heartbeat[n] \in NodeStatus \ {"ABSENT"}
        BY <2>2, NodeSideNow DEF SendHeartbeat, HeartbeatReturns, NodeSide, AgentTypeOK,
                                 NodeStatus
      <3> QED BY <1>2, <2>2, <3>1 DEF SendHeartbeat, update_heartbeat
    <2>3. CASE ~(RegisterNode(n) \/ SendHeartbeat(n))
      BY <1>1, <1>4, <2>3 DEF NodeStep, CreateQueue, ListenForCommands, StreamEnds,
             DeliverCommand, GhostTakes, GhostEnds, AgentHeartbeat,
             HeartbeatFails, Lapse, JobProcessExits, ConnectionBreaks, NodeCrashes, nodeTable
    <2> QED BY <2>1, <2>2, <2>3
  <1>5. ASSUME NEW c \in Cmd, CommandStep(c) PROVE Stay
    <2>1. UNCHANGED nodeTable \/ nodeStatus' = [nodeStatus EXCEPT ![c[2]] = "IDLE"]
      BY <1>5 DEF CommandStep, ReportJobStatus, ReportFailed, ReportCompleted, ReportLost, ExitIsRead,
             HandlerStep, RetryIdlesNode, RetryWrites, RetryQueues, PermanentlyFails,
             PermanentlyFailedIdlesNode, CompletedIdlesNode, HandlerRaises, update_node_state
    <2> QED BY <1>1, <1>2, <2>1 DEF nodeTable, NodeStatus
  <1>6. CASE SchedulerStep \/ SchedulerDies
    <2>1. \/ UNCHANGED nodeTable \/ mark_offline_nodes
          \/ nodeStatus' = [nodeStatus EXCEPT ![schedNodes[schedIdx]] = "RESERVED"]
      BY <1>6 DEF SchedulerStep, PopJob, SchedulerMarks, SelectNodes, RequeueJob,
             ReserveNode, dispatch_allocated_job, send_command, SchedulerDies,
             update_node_state
    <2> QED BY <1>1, <1>2, <1>3, <2>1 DEF nodeTable, NodeStatus
  <1>7. CASE MonitorStep \/ MonitorDies \/ ProbeMarks
    <2>1. UNCHANGED nodeTable \/ mark_offline_nodes
      BY <1>7 DEF MonitorStep, ProbeMarks, MonitorScans, MonitorReadsJobs, MonitorQueues,
             MonitorDone, MonitorMarks, MonitorRetries, MonitorFails, MonitorDies
    <2> QED BY <1>1, <1>3, <2>1 DEF nodeTable
  <1>8. ASSUME NEW j \in Jobs, SubmitJob(j) \/ EnqueueJob(j) PROVE Stay
    BY <1>1, <1>8 DEF SubmitJob, EnqueueJob, nodeTable
  <1>9. CASE ManagerCrashes \/ ManagerRestarts \/ UNCHANGED vars
    BY <1>1, <1>9 DEF ManagerCrashes, ManagerRestarts, vars, nodeTable
  <1> QED BY <1>4, <1>5, <1>6, <1>7, <1>8, <1>9 DEF Next

\* A step that wakes no agent, sends nothing for one and starts no process.
LEMMA CallersKeep ==
  ASSUME TypeInv, CallersInv, [Next]_vars,
         \A n \in Nodes : /\ agent'[n] \in {"off", "joining", "dead"} =>
                               agent[n] \in {"off", "joining", "dead"}
                          /\ agent'[n] = "off" <=> agent[n] = "off"
                          /\ heartbeat'[n] \in {"none", heartbeat[n]},
         \A c \in Cmd : run'[c] \in Unreported => run[c] \in Unreported
  PROVE  CallersInv'
  BY NodeRowsStay DEF CallersInv

LEMMA NextCallers ==
  ASSUME TypeInv, OnceInv, CallersInv, [Next]_vars
  PROVE  CallersInv'
  <1> USE NodeSideNow DEF NodeSide, AgentTypeOK
  <1>1. ASSUME NEW n \in Nodes, NodeStep(n) PROVE CallersInv'
    <2>1. CASE RegisterNode(n)
      <3>1. /\ agent[n] = "off" /\ agent' = [agent EXCEPT ![n] = "joining"]
            /\ UNCHANGED <<heartbeat, run>>
            /\ nodeStatus' = [nodeStatus EXCEPT ![n] = "IDLE"]
        BY <2>1 DEF RegisterNode, Register, register_node
      <3> QED BY <3>1 DEF CallersInv, Authenticated
    <2>2. CASE AgentHeartbeat(n)
      <3>1. /\ agent[n] \notin {"off", "dead"} /\ UNCHANGED <<agent, run, nodeStatus>>
            /\ \A m \in Nodes \ {n} : heartbeat'[m] = heartbeat[m]
        BY <2>2 DEF AgentHeartbeat, BuildHeartbeat, Registered, nodeTable
      <3> QED BY <3>1 DEF CallersInv, Authenticated
    <2>3. CASE DeliverCommand(n)
      <3> DEFINE c == <<Head(command_queues[n]), n>>
      <3>1. /\ agent[n] = "listening" /\ UNCHANGED <<agent, heartbeat, nodeStatus>>
            /\ run' = [run EXCEPT ![c] = IF exit[n] = "alive" THEN "lost" ELSE "streaming"]
        BY <2>3 DEF DeliverCommand, LaunchJob, launch_torchrun, nodeTable
      <3>2. c \in Cmd /\ c[2] = n
        BY <2>3, HeadCommand DEF DeliverCommand
      <3>3. \A d \in Cmd \ {c} : run'[d] = run[d]
        BY <3>1
      <3> QED BY <3>1, <3>2, <3>3 DEF CallersInv, Authenticated
    <2>4. CASE NodeCrashes(n)
      <3>1. /\ agent[n] \notin {"off", "dead"} /\ agent' = [agent EXCEPT ![n] = "dead"]
            /\ run' = [c \in Cmd |-> IF c \in Reporting(n) THEN "lost" ELSE run[c]]
            /\ UNCHANGED <<heartbeat, nodeStatus>>
        BY <2>4 DEF NodeCrashes, AgentCrash, nodeTable
      <3>2. \A c \in Cmd : c[2] = n => run'[c] \notin Unreported
        BY <3>1 DEF Reporting
      <3>3. \A c \in Cmd : run'[c] \in {run[c], "lost"}
        BY <3>1
      <3> QED BY <3>1, <3>2, <3>3 DEF CallersInv, Authenticated
    <2>5. CASE \/ CreateQueue(n) \/ ListenForCommands(n) \/ StreamEnds(n)
               \/ GhostEnds(n) \/ SendHeartbeat(n) \/ HeartbeatFails(n) \/ Lapse(n)
               \/ JobProcessExits(n)
      <3>1. UNCHANGED run
        BY <2>5 DEF CreateQueue, ListenForCommands, StreamEnds, GhostEnds,
             SendHeartbeat, HeartbeatFails, Lapse, JobProcessExits,
             Registers, Listen, Disconnected, ProcessExits, HeartbeatReturns, agentVars
      <3>2. /\ \/ UNCHANGED agent
               \/ agent[n] = "joining" /\ agent' = [agent EXCEPT ![n] = "away"]
               \/ agent[n] = "away" /\ agent' = [agent EXCEPT ![n] = "listening"]
               \/ agent[n] \in {"cutoff", "away"} /\ agent' = [agent EXCEPT ![n] = "away"]
            /\ UNCHANGED heartbeat \/ heartbeat' = [heartbeat EXCEPT ![n] = "none"]
        BY <2>5 DEF CreateQueue, ListenForCommands, StreamEnds, GhostEnds,
             SendHeartbeat, HeartbeatFails, Lapse, JobProcessExits,
             Registers, Listen, Disconnected, ProcessExits, HeartbeatReturns, agentVars
      <3> QED BY <3>1, <3>2, CallersKeep
    <2>6. CASE GhostTakes(n)
      <3>1. UNCHANGED <<agent, heartbeat>> /\ \A c \in Cmd : run'[c] \in {run[c], "lost"}
        BY <2>6 DEF GhostTakes
      <3> QED BY <3>1, CallersKeep
    <2>7. CASE ConnectionBreaks(n)
      <3>1. /\ agent[n] = "listening" /\ agent' = [agent EXCEPT ![n] = "cutoff"]
            /\ UNCHANGED heartbeat
            /\ run' = [c \in Cmd |-> IF c \in Streams(n) THEN "cut" ELSE run[c]]
        BY <2>7 DEF ConnectionBreaks, CutConnection
      <3> QED BY <3>1, CallersKeep DEF Streams
    <2> QED BY <1>1, <2>1, <2>2, <2>3, <2>4, <2>5, <2>6, <2>7 DEF NodeStep
  <1>2. ASSUME NEW c \in Cmd, CommandStep(c) PROVE CallersInv'
    <2>1. \A d \in Cmd : run'[d] \in Unreported => run[d] \in Unreported
      BY <1>2 DEF CommandStep, ReportJobStatus, ReportFailed, ReportCompleted, ReportLost, ExitIsRead,
             HandlerStep, RetryIdlesNode, RetryWrites, RetryQueues, PermanentlyFails,
             PermanentlyFailedIdlesNode, CompletedIdlesNode, HandlerRaises, agentVars,
             ReportStatus, ReportFails, GeneratorDropped, WaitReturns
    <2> QED BY <1>2, <2>1, ReportFrame, CallersKeep
  <1>3. CASE SchedulerStep \/ SchedulerDies
    <2>1. \A d \in Cmd : run'[d] \in {run[d], "queued", "lost"}
      BY <1>3, SchedulerFrame DEF send_command
    <2> QED BY <1>3, <2>1, SchedulerFrame, CallersKeep
  <1>4. CASE MonitorStep \/ MonitorDies \/ ProbeMarks
    BY <1>4, MonitorFrame, CallersKeep
  <1>5. ASSUME NEW j \in Jobs, SubmitJob(j) \/ EnqueueJob(j) PROVE CallersInv'
    BY <1>5, CallersKeep DEF SubmitJob, EnqueueJob, agentVars
  <1>6. CASE ManagerCrashes
    <2>1. /\ \A n \in Nodes : /\ agent[n] = "off" <=> agent'[n] = "off"
                              /\ agent'[n] \in {"off", "joining", "dead"} =>
                                    agent[n] \in {"off", "joining", "dead"}
                              /\ heartbeat'[n] = "none"
          /\ \A c \in Cmd : run'[c] \in Unreported => run[c] \in Unreported
      BY <1>6 DEF ManagerCrashes, ManagerGone
    <2> QED BY <2>1, NodeRowsStay DEF CallersInv
  <1>7. CASE ManagerRestarts \/ UNCHANGED vars
    BY <1>7, CallersKeep DEF ManagerRestarts, vars, agentVars
  <1> QED BY <1>1, <1>2, <1>3, <1>4, <1>5, <1>6, <1>7 DEF Next
\* No call of a node is refused for want of its row, whatever crashes and
\* restarts (cluster_manager.py:199, auth.py, node_registry.py).
THEOREM CallersStayKnown == Spec => []CallersKnown
  <1>1. Init => CallersInv
    BY DEF Init, AgentInit, CallersInv
  <1>2. TypeInv /\ OnceInv /\ CallersInv /\ [Next]_vars => CallersInv'
    BY NextCallers
  <1>3. CallersInv => CallersKnown
    BY DEF CallersInv, CallersKnown, Registered
  <1> QED BY <1>1, <1>2, <1>3, TypeInvariant, CommandsOnce, PTL DEF Spec

-----------------------------------------------------------------------------
(* The rows that the manager refers to. *)

\* Who comes to refer to a job: the queue by an append, a requeue or a restart, the
\* scheduler by a pop, a dispatch, a submission, or the monitor.
LEMMA Referrals ==
  ASSUME TypeInv, RowsInv, [Next]_vars
  PROVE  /\ \/ UNCHANGED queue
            \/ \E e \in Entry : append_and_sort(e) /\ Known(e.job) /\ UNCHANGED schedJob
            \/ PopJob \/ RequeueJob
            \/ queue' = <<>>
            \/ ManagerRestarts
         /\ schedJob' = <<>> \/ UNCHANGED schedJob \/ PopJob
         /\ \/ UNCHANGED attempts
            \/ schedJob # <<>> /\ attempts' = Append(attempts, schedJob[1].job)
         /\ \A j \in submitting' \cup monJobs' :
               j \in submitting \cup monJobs \/ (j \in Jobs /\ Known(j)')
         /\ monJob' = <<>> \/ UNCHANGED monJob \/ \E j \in monJobs : monJob' = <<j>>
  <1> DEFINE Goal ==
         /\ \/ UNCHANGED queue
            \/ \E e \in Entry : append_and_sort(e) /\ Known(e.job) /\ UNCHANGED schedJob
            \/ PopJob \/ RequeueJob
            \/ queue' = <<>>
            \/ ManagerRestarts
         /\ schedJob' = <<>> \/ UNCHANGED schedJob \/ PopJob
         /\ \/ UNCHANGED attempts
            \/ schedJob # <<>> /\ attempts' = Append(attempts, schedJob[1].job)
         /\ \A j \in submitting' \cup monJobs' :
               j \in submitting \cup monJobs \/ (j \in Jobs /\ Known(j)')
         /\ monJob' = <<>> \/ UNCHANGED monJob \/ \E j \in monJobs : monJob' = <<j>>
  <1> SUFFICES Goal
    OBVIOUS
  <1> USE DEF Known
  <1>1. ASSUME NEW n \in Nodes, NodeStep(n) PROVE Goal
    <2>1. UNCHANGED offNode
      BY <1>1 DEF NodeStep, RegisterNode, CreateQueue, ListenForCommands, StreamEnds,
             DeliverCommand, GhostTakes, GhostEnds, AgentHeartbeat, SendHeartbeat,
             HeartbeatFails, Lapse, JobProcessExits, ConnectionBreaks, NodeCrashes
    <2> QED BY <2>1 DEF offNode, schedVars, monVars
  <1>2. ASSUME NEW c \in Cmd, CommandStep(c) PROVE Goal
    <2>1. CASE RetryQueues(c)
      <3>1. /\ append_and_sort(Row(attempts[c[1]])) /\ attempts[c[1]] \in Jobs
            /\ c[1] \in 1..Len(attempts)
        BY <2>1, JobOfCommand, ReportSideNow DEF RetryQueues, CommandInv
      <3>2. /\ Row(attempts[c[1]]) \in Entry /\ Known(Row(attempts[c[1]]).job)
        BY <3>1 DEF RowsInv, Row, Entry
      <3> QED BY <1>2, <3>1, <3>2, ReportFrame
    <2>2. CASE ~RetryQueues(c)
      <3>1. UNCHANGED queue
        BY <1>2, <2>2 DEF CommandStep, ReportJobStatus, ReportFailed, ReportCompleted,
             ReportLost, ExitIsRead, HandlerStep, RetryIdlesNode, RetryWrites, PermanentlyFails,
             PermanentlyFailedIdlesNode, CompletedIdlesNode, HandlerRaises
      <3> QED BY <1>2, <3>1, ReportFrame
    <2> QED BY <2>1, <2>2
  <1>3. ASSUME NEW j \in Jobs, SubmitJob(j) PROVE Goal
    <2>1. UNCHANGED <<queue, schedJob, attempts, monJobs, monJob>>
          /\ submitting' = submitting \cup {j}
      BY <1>3 DEF SubmitJob, schedVars, monVars
    <2>2. jobStatus'[j] = "PENDING"
      BY <1>3, SchedSideNow DEF SubmitJob, insert_job, StoreSide, RegistryTypeOK
    <2> QED BY <2>1, <2>2 DEF Known
  <1>4. ASSUME NEW j \in Jobs, EnqueueJob(j) PROVE Goal
    <2>1. UNCHANGED <<schedJob, attempts, monJobs, monJob>>
          /\ submitting' = submitting \ {j} /\ j \in submitting
          /\ append_and_sort(Fresh(j))
      BY <1>4 DEF EnqueueJob, schedVars, monVars
    <2>2. Fresh(j) \in Entry /\ Known(Fresh(j).job)
      BY <2>1 DEF RowsInv, Fresh, Entry
    <2> QED BY <2>1, <2>2
  <1>5. CASE SchedulerStep \/ SchedulerDies
    <2>1. UNCHANGED <<submitting, monJobs, monJob>>
      BY <1>5, SchedulerFrame
    <2>2. CASE PopJob \/ RequeueJob
      BY <2>1, <2>2 DEF PopJob, RequeueJob, NextRound
    <2>3. CASE SchedulerMarks \/ SelectNodes \/ ReserveNode \/ SchedulerDies
      BY <2>1, <2>3 DEF SchedulerMarks, SelectNodes, ReserveNode, SchedulerDies
    <2>4. CASE dispatch_allocated_job
      BY <2>1, <2>4, SchedSideNow DEF dispatch_allocated_job, SchedulerInv
    <2>5. CASE send_command
      BY <2>1, <2>5 DEF send_command, NextRound
    <2> QED BY <1>5, <2>2, <2>3, <2>4, <2>5 DEF SchedulerStep
  <1>6. CASE MonitorStep \/ MonitorDies \/ ProbeMarks
    <2>1. UNCHANGED <<schedJob, attempts, submitting>>
      BY <1>6, MonitorFrame
    <2>2. CASE MonitorQueues
      <3>1. PICK i \in Jobs : monJob = <<i>>
        BY <2>2, MonSideNow DEF MonitorQueues, MonSide, MonitorInv
      <3>2. /\ append_and_sort(Row(i)) /\ Row(i) \in Entry /\ Row(i).job = i
            /\ monJob' = <<>> /\ monJobs' = monJobs
        BY <2>2, <3>1 DEF MonitorQueues, Row, Entry
      <3>3. Known(i)
        BY <3>1 DEF RowsInv
      <3> QED BY <2>1, <3>2, <3>3
    <2>3. CASE MonitorReadsJobs
      <3>1. UNCHANGED <<queue, monJob, jobStatus>> /\ monJobs' \subseteq get_jobs("RUNNING")
        BY <2>3 DEF MonitorReadsJobs, jobTable
      <3>2. \A j \in monJobs' : j \in Jobs /\ Known(j)'
        BY <3>1 DEF Known, get_jobs
      <3> QED BY <2>1, <3>1, <3>2
    <2>4. CASE ~(MonitorQueues \/ MonitorReadsJobs)
      <3>1. UNCHANGED queue /\ monJobs' \subseteq monJobs
        BY <1>6, <2>4 DEF MonitorStep, ProbeMarks, MonitorScans,
             MonitorDone, MonitorMarks, MonitorRetries, MonitorFails, MonitorDies, monVars
      <3>2. UNCHANGED monJob \/ \E j \in monJobs : monJob' = <<j>>
        BY <1>6, <2>4 DEF MonitorStep, ProbeMarks, MonitorScans,
             MonitorDone, MonitorMarks, MonitorRetries, MonitorFails, MonitorDies, monVars
      <3> QED BY <2>1, <3>1, <3>2
    <2> QED BY <2>2, <2>3, <2>4
  <1>7. CASE ManagerCrashes
    BY <1>7 DEF ManagerCrashes, NextRound
  <1>8. CASE ManagerRestarts
    BY <1>8 DEF ManagerRestarts, schedVars, monVars, callVars
  <1>9. CASE UNCHANGED vars
    BY <1>9 DEF vars, schedVars, monVars, callVars
  <1> QED BY <1>1, <1>2, <1>3, <1>4, <1>5, <1>6, <1>7, <1>8, <1>9 DEF Next

\* What a thread refers to has a row, and no row is removed.
LEMMA NextRows ==
  ASSUME TypeInv, RowsInv, [Next]_vars
  PROVE  RowsInv'
  <1> USE DEF Known
  <1>1. RowsStay
    BY JobRowsStay
  <1>2. /\ queue \in Seq(Entry) /\ attempts \in Seq(Jobs)
        /\ schedJob = <<>> \/ \E e \in Entry : schedJob = <<e>>
        /\ submitting \subseteq Jobs /\ monJobs \subseteq Jobs
        /\ \A i \in 1..Len(queue) : queue[i].job \in Jobs
    <2>1. queue \in Seq(Entry)
      BY SchedSideNow DEF StoreSide
    <2>2. \A i \in 1..Len(queue) : queue[i].job \in Jobs
      <3> TAKE i \in 1..Len(queue)
      <3>1. queue[i] \in Entry
        BY <2>1, ElementOfSeq
      <3> QED BY <3>1 DEF Entry
    <2> QED BY <2>1, <2>2 DEF TypeInv, TypeOK
  <1>3. schedJob # <<>> => schedJob[1].job \in Jobs /\ Known(schedJob[1].job)
                           /\ jobStatus'[schedJob[1].job] # "ABSENT"
    BY <1>1, <1>2 DEF RowsInv, RowsStay, Entry
  <1>4. \A i \in 1..Len(queue) : jobStatus'[queue[i].job] # "ABSENT"
    BY <1>1, <1>2 DEF RowsInv, RowsStay
  <1>5. \A i \in 1..Len(queue') : jobStatus'[queue'[i].job] # "ABSENT"
    <2>1. CASE UNCHANGED queue
      BY <1>4, <2>1
    <2>2. ASSUME NEW e \in Entry, append_and_sort(e), Known(e.job)
          PROVE  \A i \in 1..Len(queue') : jobStatus'[queue'[i].job] # "ABSENT"
      <3>1. jobStatus'[e.job] # "ABSENT"
        BY <1>1, <2>2 DEF RowsStay, Entry
      <3>2. \A i \in 1..Len(queue') :
               queue'[i] = e \/ \E k \in 1..Len(queue) : queue'[i] = queue[k]
        BY <1>2, <2>2, AppendOrders, SchedSideNow DEF StoreSide, RegistryTypeOK
      <3> QED BY <1>4, <3>1, <3>2
    <2>3. CASE PopJob
      <3>1. \A i \in 1..Len(queue') : i + 1 \in 1..Len(queue) /\ queue'[i] = queue[i + 1]
        BY <1>2, <2>3, PopOrders DEF PopJob
      <3> QED BY <1>4, <3>1
    <2>4. CASE RequeueJob
      <3>1. PICK e \in Entry : schedJob = <<e>>
        BY <1>2, <2>4, SchedSideNow DEF RequeueJob, SchedulerInv
      <3>2. \A i \in 1..Len(queue') :
               \/ queue'[i] = e
               \/ i - 1 \in 1..Len(queue) /\ queue'[i] = queue[i - 1]
        BY <1>2, <2>4, <3>1, RequeueOrders DEF RequeueJob
      <3> QED BY <1>3, <1>4, <3>1, <3>2
    <2>5. CASE queue' = <<>>
      BY <2>5
    <2>6. CASE ManagerRestarts
      <3>1. /\ \A i \in 1..Len(queue') : queue'[i].job \in get_jobs("PENDING")
            /\ UNCHANGED jobStatus
        BY <2>6, RecoverOrders, SchedSideNow DEF ManagerRestarts, jobTable, StoreSide,
                                               RegistryTypeOK
      <3> QED BY <3>1 DEF Known, get_jobs
    <2> QED BY <2>1, <2>2, <2>3, <2>4, <2>5, <2>6, Referrals
  <1>6. schedJob' # <<>> => jobStatus'[schedJob'[1].job] # "ABSENT"
    <2>1. CASE PopJob
      <3>1. schedJob' = <<queue[1]>> /\ 1 \in 1..Len(queue)
        BY <1>2, <2>1, PopOrders DEF PopJob, top
      <3> QED BY <1>4, <3>1
    <2> QED BY <1>3, <2>1, Referrals
  <1>7. \A a \in 1..Len(attempts') : jobStatus'[attempts'[a]] # "ABSENT"
    <2>1. \A a \in 1..Len(attempts) : jobStatus'[attempts[a]] # "ABSENT"
      <3>1. \A a \in 1..Len(attempts) : attempts[a] \in Jobs
        BY <1>2, ElementOfSeq
      <3> QED BY <1>1, <3>1 DEF RowsInv, RowsStay
    <2>2. CASE schedJob # <<>> /\ attempts' = Append(attempts, schedJob[1].job)
      <3>1. /\ Len(attempts') = Len(attempts) + 1 /\ Len(attempts) \in Nat
            /\ attempts'[Len(attempts) + 1] = schedJob[1].job
            /\ \A a \in 1..Len(attempts) : attempts'[a] = attempts[a]
        BY <1>2, <1>3, <2>2, LenProperties
      <3>2. \A a \in 1..Len(attempts') : a \in 1..Len(attempts) \/ a = Len(attempts) + 1
        BY <3>1
      <3> QED BY <1>3, <2>1, <2>2, <3>1, <3>2
    <2> QED BY <2>1, <2>2, Referrals
  <1>8. \A j \in submitting' \cup monJobs' : jobStatus'[j] # "ABSENT"
    BY <1>1, <1>2, Referrals DEF RowsInv, RowsStay
  <1>9. monJob' # <<>> => jobStatus'[monJob'[1]] # "ABSENT"
    <2>1. monJob # <<>> => monJob[1] \in Jobs
      BY MonSideNow DEF MonSide
    <2> QED BY <1>1, <1>2, <2>1, Referrals DEF RowsInv, RowsStay
  <1> QED BY <1>5, <1>6, <1>7, <1>8, <1>9 DEF RowsInv

LEMMA InitRows == Init => RowsInv
  BY DEF Init, RowsInv

-----------------------------------------------------------------------------
(* AssignedCoversLaunches. *)

\* A launch that can still be reported was sent before, or is being sent.
LEMMA LaunchesStay ==
  ASSUME TypeInv, OnceInv, [Next]_vars, NEW c \in Cmd,
         run'[c] \in {"queued"} \cup Unreported
  PROVE  \/ run[c] \in {"queued"} \cup Unreported
         \/ send_command /\ c = <<Len(attempts), schedNodes[schedIdx]>>
  <1> DEFINE Live == run[c] \in {"queued"} \cup Unreported
  <1>1. ASSUME NEW n \in Nodes, NodeStep(n) PROVE Live
    <2>1. CASE DeliverCommand(n)
      <3> DEFINE d == <<Head(command_queues[n]), n>>
      <3>1. /\ d = <<command_queues[n][1], n>>
            /\ 1 \in 1..Len(command_queues[n])
        BY <2>1, HeadCommand, NodeSideNow, EmptySeq, LenProperties
           DEF DeliverCommand, NodeSide
      <3>2. run[d] = "queued"
        BY <3>1 DEF OnceInv, QueuedIsQueued
      <3>3. \A b \in Cmd \ {d} : run'[b] = run[b]
        BY <2>1 DEF DeliverCommand, LaunchJob, launch_torchrun
      <3> QED BY <3>2, <3>3
    <2>2. CASE ~DeliverCommand(n)
      <3>1. run'[c] \in {run[c], "lost"} \/ (run[c] = "streaming" /\ run'[c] = "cut")
        <4>1. CASE ConnectionBreaks(n)
          BY <4>1 DEF ConnectionBreaks, CutConnection, Streams
        <4>2. CASE NodeCrashes(n)
          BY <4>2 DEF NodeCrashes, AgentCrash
        <4>3. CASE GhostTakes(n)
          BY <4>3 DEF GhostTakes
        <4>4. CASE ~(ConnectionBreaks(n) \/ NodeCrashes(n) \/ GhostTakes(n))
          BY <1>1, <2>2, <4>4 DEF NodeStep, RegisterNode, CreateQueue, ListenForCommands,
             StreamEnds, GhostEnds, AgentHeartbeat, SendHeartbeat, HeartbeatFails, Lapse,
             JobProcessExits, Register, Registers, Listen, Disconnected, BuildHeartbeat,
             HeartbeatReturns, ProcessExits, agentVars
        <4> QED BY <4>1, <4>2, <4>3, <4>4
      <3> QED BY <3>1
    <2> QED BY <2>1, <2>2
  <1>2. ASSUME NEW d \in Cmd, CommandStep(d) PROVE Live
    <2>1. run'[c] \in {run[c], "reported", "lost"} \/ run[c] \in Unreported
      BY <1>2, NodeSideNow DEF CommandStep, ReportJobStatus, ReportFailed, ReportCompleted, ReportLost, ExitIsRead,
             HandlerStep, RetryIdlesNode, RetryWrites, RetryQueues, PermanentlyFails,
             PermanentlyFailedIdlesNode, CompletedIdlesNode, HandlerRaises, agentVars,
             ReportStatus, ReportFails, GeneratorDropped, WaitReturns, NodeSide, AgentTypeOK
    <2> QED BY <2>1
  <1>3. ASSUME UNCHANGED run PROVE Live
    BY <1>3
  <1>4. CASE send_command
    <2> DEFINE d == <<Len(attempts), schedNodes[schedIdx]>>
    <2>1. run' = [run EXCEPT ![d] = "queued"] \/ run' = [run EXCEPT ![d] = "lost"]
      BY <1>4 DEF send_command
    <2> HIDE DEF d
    <2>2. c # d => run'[c] = run[c]
      BY <2>1, NodeSideNow DEF NodeSide, AgentTypeOK
    <2> QED BY <1>4, <2>2 DEF d
  <1>5. CASE (SchedulerStep \/ SchedulerDies) /\ ~send_command
    BY <1>3, <1>5, SchedulerFrame
  <1>6. CASE MonitorStep \/ MonitorDies \/ ProbeMarks
    BY <1>3, <1>6, MonitorFrame
  <1>7. ASSUME NEW j \in Jobs, SubmitJob(j) \/ EnqueueJob(j) PROVE Live
    BY <1>3, <1>7 DEF SubmitJob, EnqueueJob, agentVars
  <1>8. CASE ManagerCrashes
    BY <1>8 DEF ManagerCrashes, ManagerGone
  <1>9. CASE ManagerRestarts \/ UNCHANGED vars
    BY <1>3, <1>9 DEF ManagerRestarts, vars, agentVars
  <1> QED BY <1>1, <1>2, <1>4, <1>5, <1>6, <1>7, <1>8, <1>9 DEF Next

\* The nodes of a job change when it is dispatched, and attempts with them.
LEMMA AssignmentsStay ==
  ASSUME TypeInv, [Next]_vars, ~dispatch_allocated_job
  PROVE  UNCHANGED attempts /\ \A j \in Jobs : Known(j) => assigned'[j] = assigned[j]
  <1> DEFINE Goal == UNCHANGED attempts /\ \A j \in Jobs : Known(j) => assigned'[j] = assigned[j]
  <1> SUFFICES Goal
    OBVIOUS
  <1>0. ASSUME UNCHANGED <<attempts, assigned>> PROVE Goal
    BY <1>0
  <1>1. ASSUME NEW n \in Nodes, NodeStep(n) PROVE Goal
    <2>1. UNCHANGED offNode
      BY <1>1 DEF NodeStep, RegisterNode, CreateQueue, ListenForCommands, StreamEnds,
             DeliverCommand, GhostTakes, GhostEnds, AgentHeartbeat, SendHeartbeat,
             HeartbeatFails, Lapse, JobProcessExits, ConnectionBreaks, NodeCrashes
    <2> QED BY <1>0, <2>1 DEF offNode, jobTable
  <1>2. ASSUME NEW d \in Cmd, CommandStep(d) PROVE Goal
    <2>1. UNCHANGED assigned
      BY <1>2 DEF CommandStep, ReportJobStatus, ReportFailed, ReportCompleted, ReportLost, ExitIsRead,
             HandlerStep, RetryIdlesNode, RetryWrites, RetryQueues, PermanentlyFails,
             PermanentlyFailedIdlesNode, CompletedIdlesNode, HandlerRaises, jobTable,
             update_job_retries, update_job_status
    <2> QED BY <1>0, <1>2, <2>1, ReportFrame
  <1>3. ASSUME NEW j \in Jobs, SubmitJob(j) PROVE Goal
    <2>1. UNCHANGED attempts /\ assigned' = [assigned EXCEPT ![j] = {}]
          /\ jobStatus[j] = "ABSENT"
      BY <1>3 DEF SubmitJob, insert_job
    <2> QED BY <2>1, SchedSideNow DEF Known, StoreSide, RegistryTypeOK
  <1>4. ASSUME NEW j \in Jobs, EnqueueJob(j) PROVE Goal
    BY <1>0, <1>4 DEF EnqueueJob, jobTable
  <1>5. CASE SchedulerStep \/ SchedulerDies
    BY <1>0, <1>5 DEF SchedulerStep, PopJob, SchedulerMarks, SelectNodes, RequeueJob,
           ReserveNode, send_command, SchedulerDies, jobTable
  <1>6. CASE MonitorStep \/ MonitorDies \/ ProbeMarks
    <2>1. UNCHANGED assigned
      BY <1>6 DEF MonitorStep, ProbeMarks, MonitorScans, MonitorReadsJobs, MonitorQueues,
             MonitorDone, MonitorMarks, MonitorRetries, MonitorFails, MonitorDies,
             update_job_retries, update_job_status, jobTable
    <2> QED BY <1>0, <1>6, <2>1, MonitorFrame
  <1>7. CASE ManagerCrashes \/ ManagerRestarts \/ UNCHANGED vars
    BY <1>0, <1>7 DEF ManagerCrashes, ManagerRestarts, vars, jobTable
  <1> QED BY <1>1, <1>2, <1>3, <1>4, <1>5, <1>6, <1>7 DEF Next

\* What a dispatch does to the rows and to attempts.
LEMMA DispatchRecords ==
  ASSUME TypeInv, dispatch_allocated_job
  PROVE  /\ schedJob # <<>> /\ schedJob[1].job \in Jobs
         /\ UNCHANGED <<schedJob, schedNodes, schedIdx, queue, run, command_queues>>
         /\ schedPc = "running" /\ schedPc' = "send"
         /\ assigned' = [assigned EXCEPT ![schedJob[1].job] =
                            {schedNodes[i] : i \in DOMAIN schedNodes}]
         /\ jobStatus' = [jobStatus EXCEPT ![schedJob[1].job] = "RUNNING"]
         /\ Len(attempts) \in Nat /\ Len(attempts') = Len(attempts) + 1
         /\ attempts'[Len(attempts')] = schedJob[1].job
         /\ \A a \in 1..Len(attempts) : attempts'[a] = attempts[a] /\ attempts[a] \in Jobs
         /\ \A a \in 1..Len(attempts') : a \in 1..Len(attempts) \/ a = Len(attempts')
         /\ DOMAIN attempts = 1..Len(attempts) /\ DOMAIN attempts' = 1..Len(attempts')
  <1>1. PICK e \in Entry : schedJob = <<e>>
    BY SchedSideNow DEF dispatch_allocated_job, SchedSide, SchedulerInv
  <1>2. e.job \in Jobs
    BY DEF Entry
  <1>3. attempts \in Seq(Jobs) /\ attempts' = Append(attempts, e.job)
    BY <1>1, SchedSideNow DEF SchedSide, dispatch_allocated_job
  <1>4. /\ Len(attempts) \in Nat /\ Len(attempts') = Len(attempts) + 1
        /\ attempts'[Len(attempts')] = e.job
        /\ \A a \in 1..Len(attempts) : attempts'[a] = attempts[a]
        /\ attempts' \in Seq(Jobs)
    BY <1>2, <1>3, LenProperties
  <1>5. \A a \in 1..Len(attempts) : attempts[a] \in Jobs
    BY <1>3, ElementOfSeq
  <1>6. \A a \in 1..Len(attempts') : a \in 1..Len(attempts) \/ a = Len(attempts')
    BY <1>4
  <1>7. DOMAIN attempts = 1..Len(attempts) /\ DOMAIN attempts' = 1..Len(attempts')
    BY <1>3, <1>4, LenProperties
  <1>8. /\ UNCHANGED <<schedJob, schedNodes, schedIdx, queue, run, command_queues>>
        /\ schedPc = "running" /\ schedPc' = "send"
        /\ assigned' = [assigned EXCEPT ![schedJob[1].job] =
                            {schedNodes[i] : i \in DOMAIN schedNodes}]
        /\ jobStatus' = [jobStatus EXCEPT ![schedJob[1].job] = "RUNNING"]
    BY DEF dispatch_allocated_job, update_job_assigned, offSched, agentVars, commandVars
  <1> QED BY <1>1, <1>2, <1>4, <1>5, <1>6, <1>7, <1>8

\* The nodes a dispatch is being sent to are the ones its row names.
LEMMA NextSending ==
  ASSUME TypeInv, RowsInv, SendingInv, [Next]_vars
  PROVE  SendingInv'
  <1>1. CASE dispatch_allocated_job
    <2>1. \A i \in 1..Len(schedNodes) : i \in DOMAIN schedNodes
      BY LenProperties, SchedSideNow DEF SchedSide
    <2>2. assigned'[schedJob[1].job] = {schedNodes[i] : i \in DOMAIN schedNodes}
      BY <1>1, DispatchRecords, SchedSideNow DEF StoreSide, RegistryTypeOK
    <2> QED BY <1>1, <2>1, <2>2, DispatchRecords DEF SendingInv
  <1>2. CASE ~dispatch_allocated_job
    <2>1. schedPc' = "send" => schedPc = "send" /\ UNCHANGED <<schedJob, schedNodes>>
      <3>1. ASSUME UNCHANGED <<schedPc, schedJob, schedNodes>>
            PROVE  schedPc' = "send" => schedPc = "send" /\ UNCHANGED <<schedJob, schedNodes>>
        BY <3>1
      <3>2. CASE SchedulerStep \/ SchedulerDies
        BY <1>2, <3>2 DEF SchedulerStep, PopJob, SchedulerMarks, SelectNodes, RequeueJob,
           ReserveNode, send_command, SchedulerDies, NextRound
      <3>3. ASSUME NEW n \in Nodes, NodeStep(n) PROVE UNCHANGED <<schedPc, schedJob, schedNodes>>
        BY <3>3, NodeSideSteps DEF promised
      <3>4. ASSUME NEW d \in Cmd, CommandStep(d)
            PROVE  UNCHANGED <<schedPc, schedJob, schedNodes>>
        BY <3>4, ReportFrame
      <3>5. CASE MonitorStep \/ MonitorDies \/ ProbeMarks
        BY <3>1, <3>5, MonitorFrame
      <3>6. ASSUME NEW j \in Jobs, SubmitJob(j) \/ EnqueueJob(j)
            PROVE  UNCHANGED <<schedPc, schedJob, schedNodes>>
        BY <3>6 DEF SubmitJob, EnqueueJob, schedVars
      <3>7. CASE ManagerCrashes
        BY <3>7 DEF ManagerCrashes, NextRound
      <3>8. CASE ManagerRestarts \/ UNCHANGED vars
        BY <3>1, <3>8 DEF ManagerRestarts, vars, schedVars
      <3> QED BY <3>1, <3>2, <3>3, <3>4, <3>5, <3>6, <3>7, <3>8 DEF Next
    <2>2. schedPc = "send" => schedJob[1].job \in Jobs /\ Known(schedJob[1].job)
      BY SchedSideNow DEF RowsInv, SchedSide, SchedulerInv, Entry
    <2> QED BY <1>2, <2>1, <2>2, AssignmentsStay DEF SendingInv
  <1> QED BY <1>1, <1>2

\* The row of a job names the nodes of its latest launches.
LEMMA NextCovers ==
  ASSUME TypeInv, OnceInv, RowsInv, SendingInv, AssignedCoversLaunches, [Next]_vars
  PROVE  AssignedCoversLaunches'
  <1> SUFFICES ASSUME NEW c \in Cmd, run'[c] \in {"queued"} \cup Unreported,
                      Latest(c[1])'
               PROVE  c[2] \in assigned'[attempts'[c[1]]]
    BY DEF AssignedCoversLaunches
  <1>1. CASE dispatch_allocated_job
    <2>1. run[c] \in {"queued"} \cup Unreported /\ c[1] \in 1..Len(attempts)
      <3>1. run[c] \in {"queued"} \cup Unreported
        BY <1>1, DispatchRecords
      <3> QED BY <3>1 DEF TypeInv, CommandInv
    <2>2. Len(attempts') > c[1] /\ Len(attempts') \in DOMAIN attempts'
      BY <1>1, <2>1, DispatchRecords
    <2>3. attempts'[c[1]] = attempts[c[1]] /\ attempts[c[1]] # schedJob[1].job
      BY <1>1, <2>1, <2>2, DispatchRecords DEF Latest
    <2>4. Latest(c[1])
      <3>1. ASSUME NEW b \in DOMAIN attempts, attempts[b] = attempts[c[1]] PROVE b <= c[1]
        <4>1. b \in DOMAIN attempts' /\ attempts'[b] = attempts'[c[1]]
          BY <1>1, <2>3, <3>1, DispatchRecords
        <4> QED BY <4>1 DEF Latest
      <3> QED BY <3>1 DEF Latest
    <2>5. c[2] \in assigned[attempts[c[1]]]
      BY <2>1, <2>4 DEF AssignedCoversLaunches
    <2> QED BY <1>1, <2>1, <2>3, <2>5, DispatchRecords, SchedSideNow
            DEF StoreSide, RegistryTypeOK
  <1>2. CASE ~dispatch_allocated_job
    <2>1. UNCHANGED attempts /\ Latest(c[1])
      BY <1>2, AssignmentsStay DEF Latest
    <2>2. CASE run[c] \in {"queued"} \cup Unreported
      <3>1. attempts[c[1]] \in Jobs /\ Known(attempts[c[1]])
        BY <2>2, JobOfCommand DEF TypeInv, CommandInv, RowsInv
      <3> QED BY <1>2, <2>1, <2>2, <3>1, AssignmentsStay DEF AssignedCoversLaunches
    <2>3. CASE send_command /\ c = <<Len(attempts), schedNodes[schedIdx]>>
      <3>1. /\ schedPc = "send" /\ schedIdx \in 1..Len(schedNodes) /\ schedJob[1].job \in Jobs
            /\ Known(schedJob[1].job)
        BY <2>3, SchedSideNow
           DEF send_command, RowsInv, SchedSide, SchedulerInv, Entry
      <3>2. attempts[c[1]] = schedJob[1].job /\ c[2] \in assigned[schedJob[1].job]
        BY <2>3, <3>1 DEF SendingInv
      <3> QED BY <1>2, <2>1, <3>1, <3>2, AssignmentsStay
    <2> QED BY <2>2, <2>3, LaunchesStay
  <1> QED BY <1>1, <1>2

\* While a launch of a job's latest dispatch can still be reported, the row names
\* its node, so that the monitor finds the job when the node crashes
\* (cluster_manager.py:184-203 and :323-326).
THEOREM LaunchesAreAssigned == Spec => []AssignedCoversLaunches
  <1>1. Init => RowsInv /\ SendingInv /\ AssignedCoversLaunches
    BY InitRows DEF Init, AgentInit, SendingInv, AssignedCoversLaunches
  <1>2. TypeInv /\ RowsInv /\ [Next]_vars => RowsInv'
    BY NextRows
  <1>3. TypeInv /\ RowsInv /\ SendingInv /\ [Next]_vars => SendingInv'
    BY NextSending
  <1>4. TypeInv /\ OnceInv /\ RowsInv /\ SendingInv /\ AssignedCoversLaunches /\ [Next]_vars
           => AssignedCoversLaunches'
    BY NextCovers
  <1> QED BY <1>1, <1>2, <1>3, <1>4, TypeInvariant, CommandsOnce, PTL DEF Spec

-----------------------------------------------------------------------------
(* A manager that is down, and nodes that are. *)

\* A manager that is down has no thread that could take anything up.
LEMMA NextDown ==
  ASSUME TypeInv, DownInv, [Next]_vars
  PROVE  DownInv'
  <1>1. ASSUME UNCHANGED <<up, queue, schedPc, submitting, monPc, monJobs, handler>>
        PROVE  DownInv'
    BY <1>1 DEF DownInv
  <1>2. ASSUME up, UNCHANGED up PROVE DownInv'
    BY <1>2 DEF DownInv
  <1>3. ASSUME NEW n \in Nodes, NodeStep(n) PROVE DownInv'
    <2>1. UNCHANGED offNode
      BY <1>3 DEF NodeStep, RegisterNode, CreateQueue, ListenForCommands, StreamEnds,
             DeliverCommand, GhostTakes, GhostEnds, AgentHeartbeat, SendHeartbeat,
             HeartbeatFails, Lapse, JobProcessExits, ConnectionBreaks, NodeCrashes
    <2> QED BY <1>1, <2>1 DEF offNode, schedVars, monVars, reportVars
  <1>4. ASSUME NEW c \in Cmd, CommandStep(c) PROVE DownInv'
    <2>1. up \/ handler[c] # "none" \/ (UNCHANGED handler /\ UNCHANGED queue)
      BY <1>4 DEF CommandStep, ReportJobStatus, ReportFailed, ReportCompleted, ReportLost, ExitIsRead,
             HandlerStep, RetryIdlesNode, RetryWrites, RetryQueues, PermanentlyFails,
             PermanentlyFailedIdlesNode, CompletedIdlesNode, HandlerRaises, reportVars
    <2>2. up \/ (UNCHANGED handler /\ UNCHANGED queue)
      BY <2>1 DEF DownInv
    <2> QED BY <1>1, <1>2, <1>4, <2>2, ReportFrame
  <1>5. ASSUME NEW j \in Jobs, SubmitJob(j) \/ EnqueueJob(j) PROVE DownInv'
    BY <1>2, <1>5 DEF SubmitJob, EnqueueJob, DownInv
  <1>6. CASE SchedulerStep \/ SchedulerDies
    <2>1. up
      BY <1>6 DEF DownInv, SchedulerStep, PopJob, SchedulerMarks, SelectNodes, RequeueJob,
           ReserveNode, dispatch_allocated_job, send_command, SchedulerDies
    <2> QED BY <1>2, <1>6, <2>1, SchedulerFrame
  <1>7. CASE MonitorStep \/ MonitorDies \/ ProbeMarks
    <2>1. up
      BY <1>7 DEF DownInv, MonitorStep, ProbeMarks, MonitorScans, MonitorReadsJobs,
           MonitorQueues, MonitorDone, MonitorMarks, MonitorRetries, MonitorFails,
           MonitorDies
    <2> QED BY <1>2, <1>7, <2>1, MonitorFrame
  <1>8. CASE ManagerCrashes
    BY <1>8 DEF ManagerCrashes, NextRound, DownInv
  <1>9. CASE ManagerRestarts
    BY <1>9 DEF ManagerRestarts, DownInv
  <1>10. CASE UNCHANGED vars
    BY <1>1, <1>10 DEF vars, callVars, schedVars, monVars, reportVars
  <1> QED BY <1>3, <1>4, <1>5, <1>6, <1>7, <1>8, <1>9, <1>10 DEF Next

\* A dead node makes no call, and its report calls end.
LEMMA QuietStays ==
  ASSUME TypeInv, CallersInv, [Next]_vars, NEW n \in Nodes, Quiet(n)
  PROVE  Quiet(n)'
  <1> USE NodeSideNow, ReportSideNow DEF NodeSide, AgentTypeOK, ReportSide
  <1>1. ASSUME UNCHANGED <<agent, handler>> PROVE Quiet(n)'
    BY <1>1 DEF Quiet
  <1>2. ASSUME NEW m \in Nodes, NodeStep(m) PROVE Quiet(n)'
    <2>1. UNCHANGED handler
      BY <1>2, NodeSideSteps DEF promised
    <2>2. \/ UNCHANGED agent
          \/ /\ agent[m] # "dead"
             /\ \E a \in AgentPhase : agent' = [agent EXCEPT ![m] = a]
      BY <1>2 DEF NodeStep, RegisterNode, CreateQueue, ListenForCommands, StreamEnds,
           DeliverCommand, GhostTakes, GhostEnds, AgentHeartbeat, SendHeartbeat,
           HeartbeatFails, Lapse, JobProcessExits, ConnectionBreaks, NodeCrashes,
           Register, Registers, Listen, Disconnected, LaunchJob, BuildHeartbeat,
           HeartbeatReturns, ProcessExits, CutConnection, AgentCrash, agentVars, AgentPhase
    <2> QED BY <2>1, <2>2 DEF Quiet
  <1>3. ASSUME NEW c \in Cmd, CommandStep(c) PROVE Quiet(n)'
    <2>1. UNCHANGED agent /\ \A d \in Cmd \ {c} : handler'[d] = handler[d]
      BY <1>3, ReportFrame
         DEF CommandStep, ReportJobStatus, ReportFailed, ReportCompleted, ReportLost, ExitIsRead,
             HandlerStep, RetryIdlesNode, RetryWrites, RetryQueues, PermanentlyFails,
             PermanentlyFailedIdlesNode, CompletedIdlesNode, HandlerRaises, reportVars
    <2>2. run[c] \in Unreported \/ handler[c] # "none"
      BY <1>3 DEF CommandStep, ReportJobStatus, ReportFailed, ReportCompleted, ReportLost, ExitIsRead,
             HandlerStep, RetryIdlesNode, RetryWrites, RetryQueues, PermanentlyFails,
             PermanentlyFailedIdlesNode, CompletedIdlesNode, HandlerRaises, ReportStatus,
             GeneratorDropped, ReportFails, WaitReturns
    <2>3. c[2] # n
      BY <2>2 DEF Quiet, CallersInv
    <2> QED BY <2>1, <2>3 DEF Quiet
  <1>4. CASE SchedulerStep \/ SchedulerDies
    BY <1>1, <1>4, SchedulerFrame
  <1>5. CASE MonitorStep \/ MonitorDies \/ ProbeMarks
    BY <1>1, <1>5, MonitorFrame
  <1>6. ASSUME NEW j \in Jobs, SubmitJob(j) \/ EnqueueJob(j) PROVE Quiet(n)'
    BY <1>1, <1>6 DEF SubmitJob, EnqueueJob, agentVars, reportVars
  <1>7. CASE ManagerCrashes
    BY <1>7 DEF ManagerCrashes, ManagerGone, Quiet
  <1>8. CASE ManagerRestarts \/ UNCHANGED vars
    BY <1>1, <1>8 DEF ManagerRestarts, vars, agentVars, reportVars
  <1> QED BY <1>2, <1>3, <1>4, <1>5, <1>6, <1>7, <1>8 DEF Next

\* Only a node that is quiet lapses, and only such nodes does the monitor take
\* for offline.
LEMMA NextQuiet ==
  ASSUME MayLapse = {}, TypeInv, CallersInv, QuietInv, [Next]_vars
  PROVE  QuietInv'
  <1>1. \A n \in Nodes : Quiet(n) => Quiet(n)'
    BY QuietStays
  <1>2. \A n \in Nodes : expired'[n] => expired[n] \/ Quiet(n)
    <2> USE NodeSideNow DEF NodeSide
    <2>1. ASSUME NEW n \in Nodes, NodeStep(n)
          PROVE  \A m \in Nodes : expired'[m] => expired[m] \/ Quiet(m)
      BY <2>1 DEF NodeStep, RegisterNode, CreateQueue, ListenForCommands, StreamEnds,
             DeliverCommand, GhostTakes, GhostEnds, AgentHeartbeat, SendHeartbeat,
             HeartbeatFails, Lapse, JobProcessExits, ConnectionBreaks, NodeCrashes,
             nodeTable, register_node, update_heartbeat, Quiet
    <2>2. ASSUME NEW c \in Cmd, CommandStep(c) PROVE UNCHANGED expired
      BY <2>2 DEF CommandStep, ReportJobStatus, ReportFailed, ReportCompleted, ReportLost, ExitIsRead,
             HandlerStep, RetryIdlesNode, RetryWrites, RetryQueues, PermanentlyFails,
             PermanentlyFailedIdlesNode, CompletedIdlesNode, HandlerRaises, nodeTable,
             update_node_state
    <2>3. CASE SchedulerStep \/ SchedulerDies
      BY <2>3, SchedulerFrame
    <2>4. CASE MonitorStep \/ MonitorDies \/ ProbeMarks
      BY <2>4 DEF MonitorStep, ProbeMarks, MonitorScans, MonitorReadsJobs,
           MonitorQueues, MonitorDone, MonitorMarks, MonitorRetries, MonitorFails,
           MonitorDies, mark_offline_nodes, nodeTable
    <2>5. ASSUME NEW j \in Jobs, SubmitJob(j) \/ EnqueueJob(j) PROVE UNCHANGED expired
      BY <2>5 DEF SubmitJob, EnqueueJob, nodeTable
    <2>6. CASE ManagerCrashes \/ ManagerRestarts \/ UNCHANGED vars
      BY <2>6 DEF ManagerCrashes, ManagerRestarts, vars, nodeTable
    <2> QED BY <2>1, <2>2, <2>3, <2>4, <2>5, <2>6 DEF Next
  <1>3. \A n \in monOffline' : n \in monOffline \/ (n \in Nodes /\ expired[n])
    <2>1. ASSUME UNCHANGED monOffline
          PROVE  \A n \in monOffline' : n \in monOffline \/ (n \in Nodes /\ expired[n])
      BY <2>1
    <2>2. ASSUME NEW n \in Nodes, NodeStep(n) PROVE UNCHANGED monOffline
      <3>1. UNCHANGED offNode
        BY <2>2 DEF NodeStep, RegisterNode, CreateQueue, ListenForCommands, StreamEnds,
             DeliverCommand, GhostTakes, GhostEnds, AgentHeartbeat, SendHeartbeat,
             HeartbeatFails, Lapse, JobProcessExits, ConnectionBreaks, NodeCrashes
      <3> QED BY <3>1 DEF offNode, monVars
    <2>3. ASSUME NEW c \in Cmd, CommandStep(c) PROVE UNCHANGED monOffline
      BY <2>3, ReportFrame
    <2>4. CASE SchedulerStep \/ SchedulerDies
      BY <2>4, SchedulerFrame
    <2>5. CASE MonitorStep \/ MonitorDies \/ ProbeMarks
      BY <2>5 DEF MonitorStep, ProbeMarks, MonitorScans, MonitorReadsJobs,
           MonitorQueues, MonitorDone, MonitorMarks, MonitorRetries, MonitorFails,
           MonitorDies, monVars, Overdue
    <2>6. ASSUME NEW j \in Jobs, SubmitJob(j) \/ EnqueueJob(j) PROVE UNCHANGED monOffline
      BY <2>6 DEF SubmitJob, EnqueueJob, monVars
    <2>7. CASE ManagerCrashes \/ ManagerRestarts \/ UNCHANGED vars
      BY <2>7 DEF ManagerCrashes, ManagerRestarts, vars, monVars
    <2> QED BY <2>1, <2>2, <2>3, <2>4, <2>5, <2>6, <2>7 DEF Next
  <1>4. monOffline \subseteq Nodes
    BY MonSideNow DEF MonSide
  <1> QED BY <1>1, <1>2, <1>3, <1>4 DEF QuietInv

\* A job of one node gets one node.
LEMMA NextSelected ==
  ASSUME TypeInv, OneSelected, [Next]_vars
  PROVE  OneSelected'
  <1>1. ASSUME UNCHANGED <<schedPc, schedNodes, schedJob>> PROVE OneSelected'
    BY <1>1 DEF OneSelected
  <1>2. CASE SchedulerStep \/ SchedulerDies
    <2>1. CASE SelectNodes
      <3> DEFINE k == Required[schedJob[1].job]
      <3>1. /\ k \in Nat /\ schedJob' = schedJob
            /\ schedJob[1].job \in OneNodeJobs => k <= 1
        BY <2>1, SchedSideNow, ManagerAssumption
           DEF SelectNodes, SchedSide, SchedulerInv, Entry, OneNodeJobs
      <3>2. \/ schedPc' = "requeue"
            \/ k # 0 /\ schedNodes' \in [1..k -> AvailableNodes]
        BY <2>1 DEF SelectNodes, allocate
      <3>3. ASSUME schedJob[1].job \in OneNodeJobs, schedPc' # "requeue"
            PROVE  Len(schedNodes') = 1
        <4>1. k = 1
          BY <3>1, <3>2, <3>3
        <4>2. schedNodes' \in [1..1 -> AvailableNodes]
          BY <3>2, <3>3, <4>1
        <4> QED BY <4>2
      <3> QED BY <3>1, <3>3 DEF OneSelected
    <2>2. CASE ~SelectNodes
      BY <1>2, <2>2 DEF SchedulerStep, PopJob, SchedulerMarks, RequeueJob,
           ReserveNode, dispatch_allocated_job, send_command, SchedulerDies, NextRound,
           OneSelected
    <2> QED BY <2>1, <2>2
  <1>3. ASSUME NEW n \in Nodes, NodeStep(n) PROVE OneSelected'
    BY <1>1, <1>3, NodeSideSteps DEF promised
  <1>4. ASSUME NEW d \in Cmd, CommandStep(d) PROVE OneSelected'
    BY <1>1, <1>4, ReportFrame
  <1>5. CASE MonitorStep \/ MonitorDies \/ ProbeMarks
    BY <1>1, <1>5, MonitorFrame
  <1>6. ASSUME NEW j \in Jobs, SubmitJob(j) \/ EnqueueJob(j) PROVE OneSelected'
    BY <1>1, <1>6 DEF SubmitJob, EnqueueJob, schedVars
  <1>7. CASE ManagerCrashes
    BY <1>7 DEF ManagerCrashes, NextRound, OneSelected
  <1>8. CASE ManagerRestarts \/ UNCHANGED vars
    BY <1>1, <1>8 DEF ManagerRestarts, vars, schedVars
  <1> QED BY <1>2, <1>3, <1>4, <1>5, <1>6, <1>7, <1>8 DEF Next

-----------------------------------------------------------------------------
(* Jobs of one node: a job is in one place at a time. *)

\* What a step may rely on.
Settled ==
    /\ MayLapse = {} /\ JobInv /\ TypeInv /\ OnceInv
    /\ CallersInv /\ RowsInv /\ SendingInv /\ RetryInv /\ DownInv

SinglesOnce == \A j \in OneNodeJobs : OnceQueued(j)

LEMMA SinglesAreJobs == OneNodeJobs \subseteq Jobs
  BY DEF OneNodeJobs

\* A launch in hand is one of a dispatch that was made.
LEMMA InHandIsLaunch ==
  ASSUME TypeInv, NEW c \in Cmd, InHand(c)
  PROVE  /\ c[1] \in 1..Len(attempts) /\ DOMAIN attempts = 1..Len(attempts)
         /\ attempts[c[1]] \in Jobs
         /\ c = <<c[1], c[2]>> /\ c[2] \in Nodes
  <1>1. attempts \in Seq(Jobs) /\ DOMAIN attempts = 1..Len(attempts) /\ Len(attempts) \in Nat
    BY SchedSideNow, LenProperties DEF SchedSide
  <1>2. c = <<c[1], c[2]>> /\ c[1] \in Attempt /\ c[2] \in Nodes
    BY DEF Cmd
  <1>3. c[1] \in 1..Len(attempts)
    <2>1. CASE run[c] # "none" \/ handler[c] # "none"
      BY <2>1, SchedSideNow DEF CommandInv
    <2>2. CASE schedPc = "send" /\ c = <<Len(attempts), schedNodes[1]>>
      BY <1>1, <2>2, SchedSideNow DEF SchedulerInv
    <2> QED BY <2>1, <2>2 DEF InHand
  <1>4. attempts[c[1]] \in Jobs
    BY <1>1, <1>3, ElementOfSeq
  <1> QED BY <1>1, <1>2, <1>3, <1>4

\* A job has one launch in hand.
LEMMA OneInHand ==
  ASSUME TypeInv, InHandInv, NEW c \in Cmd, NEW d \in Cmd, InHand(c), InHand(d),
         attempts[c[1]] = attempts[d[1]], attempts[c[1]] \in OneNodeJobs
  PROVE  c = d
  <1>1. Current(c) /\ Current(d)
    BY DEF InHandInv
  <1>2. /\ c[1] \in DOMAIN attempts /\ d[1] \in DOMAIN attempts
        /\ c[1] \in Nat /\ d[1] \in Nat
        /\ c = <<c[1], c[2]>> /\ d = <<d[1], d[2]>>
    BY InHandIsLaunch
  <1>3. c[1] = d[1]
    BY <1>1, <1>2 DEF Current, Latest
  <1>4. {c[2]} = {d[2]}
    BY <1>1 DEF Current
  <1> QED BY <1>2, <1>3, <1>4

\* While a launch of a job is in hand the monitor is not at the job, and it waits
\* at most in the call that has the launch in hand.
LEMMA InHandExcludes ==
  ASSUME Settled, NEW c \in Cmd, InHand(c), attempts[c[1]] \in OneNodeJobs
  PROVE  /\ attempts[c[1]] \notin monJobs
         /\ \A p \in Place : Waits(attempts[c[1]], p) =>
               p = "report" /\ handler[c] = "retryQueue"
  <1> DEFINE j == attempts[c[1]]
  <1>1. Current(c)
    BY DEF Settled, JobInv, InHandInv
  <1>2. j \notin monJobs
    <2> SUFFICES ASSUME j \in monJobs PROVE FALSE
      OBVIOUS
    <2>1. c[2] \in assigned[j] /\ Quiet(c[2])
      BY <1>1 DEF Current, Settled, JobInv, MonitorJobsInv
    <2> QED BY <2>1 DEF Quiet, InHand
  <1>3. ASSUME NEW p \in Place, Waits(j, p)
        PROVE  p = "report" /\ handler[c] = "retryQueue"
    <2>1. jobStatus[j] = "PENDING"
      BY <1>1, <1>3 DEF Settled, JobInv, WaitingInv
    <2>2. handler[c] = "retryQueue"
      BY <1>1, <2>1 DEF Current, RowDuring
    <2>3. Waits(j, "report") /\ "report" \in Place
      BY <2>2 DEF Waits, Place
    <2> QED BY <1>1, <1>3, <2>2, <2>3 DEF Settled, JobInv, WaitingInv
  <1> QED BY <1>2, <1>3

\* The monitor's jobs are left as they were by a step that leaves their rows alone.
LEMMA MonitorJobsStay ==
  ASSUME Settled, [Next]_vars,
         \A j \in monJobs' \cap OneNodeJobs :
            /\ j \in monJobs /\ monSeen'[j] = monSeen[j]
            /\ jobStatus'[j] = jobStatus[j] /\ retries'[j] = retries[j]
            /\ assigned'[j] = assigned[j]
  PROVE  MonitorJobsInv'
  <1>1. \A n \in Nodes : Quiet(n) => Quiet(n)'
    BY QuietStays DEF Settled
  <1>2. \A j \in monJobs : assigned[j] \subseteq Nodes
    BY DEF Settled, TypeInv, TypeOK, RegistryTypeOK
  <1> QED BY <1>1, <1>2 DEF Settled, JobInv, MonitorJobsInv

\* The jobs that the monitor reads ran on one node, and that is quiet.
LEMMA MonitorJobsRead ==
  ASSUME Settled, MonitorReadsJobs
  PROVE  MonitorJobsInv'
  <1>1. /\ monJobs' = {j \in get_jobs("RUNNING") : assigned[j] \cap monOffline # {}}
        /\ monSeen' = [j \in Jobs |-> IF j \in monJobs' THEN retries[j] ELSE 0]
        /\ UNCHANGED <<jobStatus, retries, assigned, agent, handler>>
    BY DEF MonitorReadsJobs, offMonitor, jobTable, agentVars, reportVars
  <1>2. ASSUME NEW j \in monJobs' \cap OneNodeJobs
        PROVE  \A n \in assigned[j] : Quiet(n)
    <2>1. j \in Jobs /\ jobStatus[j] = "RUNNING" /\ assigned[j] \cap monOffline # {}
      BY <1>1, <1>2 DEF get_jobs
    <2>2. PICK n \in Nodes : assigned[j] = {n}
      BY <2>1 DEF Settled, JobInv, RowInv, Alone
    <2>3. n \in monOffline
      BY <2>1, <2>2
    <2> QED BY <2>2, <2>3 DEF Settled, JobInv, QuietInv
  <1>3. \A n \in Nodes : Quiet(n)' <=> Quiet(n)
    BY <1>1 DEF Quiet
  <1>4. \A j \in monJobs' : j \in Jobs /\ assigned[j] \subseteq Nodes
    BY <1>1 DEF get_jobs, Settled, TypeInv, TypeOK, RegistryTypeOK
  <1> QED BY <1>1, <1>2, <1>3, <1>4 DEF MonitorJobsInv, get_jobs

\* A step that changes no row of a one-node job and takes up no launch of one.
LEMMA SinglesUntouched ==
  ASSUME Settled, [Next]_vars, WaitingInv',
         \A j \in OneNodeJobs :
            /\ jobStatus'[j] = jobStatus[j] /\ retries'[j] = retries[j]
            /\ assigned'[j] = assigned[j]
            /\ {a \in DOMAIN attempts' : attempts'[a] = j} =
                  {a \in DOMAIN attempts : attempts[a] = j},
         \A c \in Cmd : InHand(c)' /\ attempts'[c[1]] \in OneNodeJobs =>
            /\ InHand(c) /\ attempts'[c[1]] = attempts[c[1]]
            /\ handler'[c] = handler[c]
            /\ handler[c] = "none" \/ seen'[c] = seen[c],
         \/ MonitorReadsJobs
         \/ \A j \in monJobs' \cap OneNodeJobs : j \in monJobs /\ monSeen'[j] = monSeen[j]
  PROVE  JobInv'
  <1>1. QuietInv' /\ OneSelected'
    BY NextQuiet, NextSelected DEF Settled, JobInv
  <1>2. InHandInv'
    <2> SUFFICES ASSUME NEW c \in Cmd, InHand(c)', attempts'[c[1]] \in OneNodeJobs
                 PROVE  Current(c)'
      BY DEF InHandInv
    <2>1. /\ InHand(c) /\ attempts'[c[1]] = attempts[c[1]] /\ handler'[c] = handler[c]
          /\ handler[c] = "none" \/ seen'[c] = seen[c]
      OBVIOUS
    <2>2. Current(c)
      BY <2>1 DEF Settled, JobInv, InHandInv
    <2>3. Latest(c[1])'
      <3> SUFFICES ASSUME NEW b \in DOMAIN attempts', attempts'[b] = attempts'[c[1]]
                   PROVE  b <= c[1]
        BY DEF Latest
      <3>1. b \in DOMAIN attempts /\ attempts[b] = attempts[c[1]]
        BY <2>1
      <3> QED BY <2>2, <3>1 DEF Current, Latest
    <2> QED BY <2>1, <2>2, <2>3 DEF Current, RowDuring
  <1>3. MonitorJobsInv'
    BY MonitorJobsStay, MonitorJobsRead
  <1>4. RowInv' /\ CountInv'
    BY DEF Settled, JobInv, RowInv, CountInv, Alone, Counted, Dispatches
  <1> QED BY <1>1, <1>2, <1>3, <1>4 DEF JobInv

\* In particular, one that changes no row at all.
LEMMA RowsUntouched ==
  ASSUME Settled, [Next]_vars, WaitingInv',
         UNCHANGED <<jobStatus, retries, assigned, attempts>>,
         \A c \in Cmd : InHand(c)' /\ attempts[c[1]] \in OneNodeJobs =>
            /\ InHand(c) /\ handler'[c] = handler[c]
            /\ handler[c] = "none" \/ seen'[c] = seen[c],
         \/ MonitorReadsJobs
         \/ \A j \in monJobs' : j \in monJobs /\ monSeen'[j] = monSeen[j]
  PROVE  JobInv'
  BY SinglesUntouched

\* A step that concerns one job.
LEMMA OneJobMoves ==
  ASSUME Settled, [Next]_vars, NEW i \in OneNodeJobs,
         \A j \in Jobs \ {i} : /\ jobStatus'[j] = jobStatus[j] /\ retries'[j] = retries[j]
                               /\ assigned'[j] = assigned[j],
         UNCHANGED attempts,
         \A j \in Jobs \ {i}, p \in Place : Waits(j, p)' => Waits(j, p),
         \A p \in Place : Waits(i, p)' => jobStatus'[i] = "PENDING",
         \A p, q \in Place : Waits(i, p)' /\ Waits(i, q)' => p = q,
         SinglesOnce',
         \A c \in Cmd : InHand(c)' =>
            \/ attempts[c[1]] = i /\ Current(c)'
            \/ attempts[c[1]] # i /\ InHand(c) /\ handler'[c] = handler[c] /\ seen'[c] = seen[c],
         \A j \in monJobs' : j \in monJobs /\ j # i /\ monSeen'[j] = monSeen[j],
         Alone(i)', Counted(i)'
  PROVE  JobInv'
  <1>1. QuietInv' /\ OneSelected'
    BY NextQuiet, NextSelected DEF Settled, JobInv
  <1>2. WaitingInv'
    <2>1. ASSUME NEW j \in OneNodeJobs, NEW p \in Place, Waits(j, p)'
          PROVE  jobStatus'[j] = "PENDING"
      BY <2>1, SinglesAreJobs DEF Settled, JobInv, WaitingInv
    <2>2. ASSUME NEW j \in OneNodeJobs, NEW p \in Place, NEW q \in Place,
                 Waits(j, p)', Waits(j, q)'
          PROVE  p = q
      BY <2>2, SinglesAreJobs DEF Settled, JobInv, WaitingInv
    <2> QED BY <2>1, <2>2 DEF WaitingInv, SinglesOnce
  <1>3. InHandInv'
    <2> SUFFICES ASSUME NEW c \in Cmd, InHand(c)', attempts[c[1]] # i,
                        attempts[c[1]] \in OneNodeJobs
                 PROVE  Current(c)'
      BY DEF InHandInv
    <2>1. Current(c) /\ attempts[c[1]] \in Jobs
      BY InHandIsLaunch DEF Settled, JobInv, InHandInv
    <2> QED BY <2>1 DEF Current, Latest, RowDuring
  <1>4. MonitorJobsInv'
    <2>1. monJobs \subseteq Jobs
      BY MonSideNow DEF Settled, MonSide
    <2> QED BY <2>1, MonitorJobsStay
  <1>5. RowInv' /\ CountInv'
    <2>1. ASSUME NEW j \in OneNodeJobs \ {i} PROVE Alone(j)' /\ Counted(j)'
      BY SinglesAreJobs DEF Settled, JobInv, RowInv, CountInv, Alone, Counted, Dispatches
    <2> QED BY <2>1 DEF RowInv, CountInv
  <1> QED BY <1>1, <1>2, <1>3, <1>4, <1>5 DEF JobInv

\* A step that adds no place where a job waits.
LEMMA WaitingStays ==
  ASSUME Settled, SinglesOnce',
         \A j \in OneNodeJobs : jobStatus'[j] = jobStatus[j],
         \A j \in OneNodeJobs, p \in Place : Waits(j, p)' => Waits(j, p)
  PROVE  WaitingInv'
  BY DEF Settled, JobInv, WaitingInv, SinglesOnce, OnceQueued

\* A step that concerns one job, which is not of one node.
LEMMA OtherJobMoves ==
  ASSUME Settled, [Next]_vars, NEW i, i \notin OneNodeJobs,
         \A j \in Jobs \ {i} : /\ jobStatus'[j] = jobStatus[j] /\ retries'[j] = retries[j]
                               /\ assigned'[j] = assigned[j],
         UNCHANGED attempts,
         SinglesOnce', \A j \in Jobs \ {i}, p \in Place : Waits(j, p)' => Waits(j, p),
         \A c \in Cmd : InHand(c)' =>
            \/ attempts[c[1]] = i
            \/ InHand(c) /\ handler'[c] = handler[c] /\ seen'[c] = seen[c],
         \A j \in monJobs' : j = i \/ (j \in monJobs /\ monSeen'[j] = monSeen[j])
  PROVE  JobInv'
  <1>1. \A j \in OneNodeJobs : j \in Jobs \ {i}
    BY SinglesAreJobs
  <1>2. WaitingInv'
    BY <1>1, WaitingStays
  <1> QED BY <1>1, <1>2, SinglesUntouched

\* What is true of a job that waits anywhere but in a report call.
LEMMA WaitingExcludes ==
  ASSUME Settled, NEW i \in OneNodeJobs, NEW p \in Place, Waits(i, p)
  PROVE  /\ jobStatus[i] = "PENDING" /\ i \notin monJobs
         /\ \A q \in Place : Waits(i, q) => q = p
         /\ \A c \in Cmd : InHand(c) /\ attempts[c[1]] = i =>
               p = "report" /\ handler[c] = "retryQueue"
  <1>1. jobStatus[i] = "PENDING" /\ \A q \in Place : Waits(i, q) => q = p
    BY DEF Settled, JobInv, WaitingInv
  <1>2. i \notin monJobs
    BY <1>1 DEF Settled, JobInv, MonitorJobsInv
  <1> QED BY <1>1, <1>2, InHandExcludes

\* A job that waits elsewhere joins the queue.
LEMMA JoinsQueue ==
  ASSUME Settled, NEW e \in Entry, NEW p \in Place \ {"queue"}, Waits(e.job, p),
         append_and_sort(e) \/ requeue_job(e)
  PROVE  SinglesOnce' /\ \A j \in Jobs \ {e.job} : Queued(j)' => Queued(j)
  <1>1. e.job \in Jobs /\ "queue" \in Place
    BY DEF Entry, Place
  <1>2. SinglesOnce /\ (e.job \in OneNodeJobs => ~Queued(e.job))
    <2>1. e.job \in OneNodeJobs => ~Waits(e.job, "queue")
      BY <1>1, WaitingExcludes
    <2> QED BY <2>1 DEF Waits, Settled, JobInv, WaitingInv, SinglesOnce
  <1>3. queue \in Seq(Entry) /\ queue' \in Seq(Entry) /\ created \in [Jobs -> Nat]
    <2>1. queue \in Seq(Entry) /\ created \in [Jobs -> Nat]
      BY SchedSideNow DEF Settled, StoreSide, RegistryTypeOK
    <2> QED BY <2>1, AppendKeeps, RequeueKeeps
  <1>4. DOMAIN queue = 1..Len(queue) /\ DOMAIN queue' = 1..Len(queue') /\ Len(queue) \in Nat
    BY <1>3, LenProperties
  <1>5. SinglesOnce'
    <2> SUFFICES ASSUME NEW j \in OneNodeJobs PROVE OnceQueued(j)'
      BY DEF SinglesOnce
    <2>0. j \in Jobs /\ OnceQueued(j) /\ (e.job = j => ~Queued(j))
      BY <1>2, SinglesAreJobs DEF SinglesOnce
    <2>1. CASE append_and_sort(e)
      BY <1>3, <2>0, <2>1, AppendOrders
    <2>2. CASE requeue_job(e)
      <3>1. /\ queue'[1] = e
            /\ \A m \in 1..Len(queue') :
                  m = 1 \/ (m - 1 \in 1..Len(queue) /\ queue'[m] = queue[m - 1])
        BY <1>3, <2>2, RequeueOrders
      <3>2. e.job = j => \A m \in 1..Len(queue) : queue[m].job # j
        BY <1>4, <2>0 DEF Queued
      <3>3. ASSUME NEW m \in 1..Len(queue'), NEW k \in 1..Len(queue'),
                   queue'[m].job = j, queue'[k].job = j
            PROVE  m = k
        <4>1. CASE m = 1 \/ k = 1
          BY <3>1, <3>2, <3>3, <4>1
        <4>2. CASE m # 1 /\ k # 1
          <5>1. m - 1 = k - 1
            BY <2>0, <3>1, <3>3, <4>2 DEF OnceQueued
          <5> QED BY <5>1
        <4> QED BY <4>1, <4>2
      <3> QED BY <3>3 DEF OnceQueued
    <2> QED BY <2>1, <2>2
  <1>6. ASSUME NEW j \in Jobs \ {e.job}, Queued(j)' PROVE Queued(j)
    <2>1. PICK k \in 1..Len(queue') : queue'[k].job = j
      BY <1>4, <1>6 DEF Queued
    <2>2. queue'[k] = e \/ \E m \in 1..Len(queue) : queue'[k] = queue[m]
      BY <1>3, AppendOrders, RequeueOrders
    <2> QED BY <1>4, <1>6, <2>1, <2>2 DEF Queued
  <1> QED BY <1>5, <1>6

\* A waiting job goes from one place to another.
LEMMA PlaceMoves ==
  ASSUME Settled, [Next]_vars, NEW i \in Jobs, NEW p \in Place, NEW q \in Place,
         Waits(i, p), i \in OneNodeJobs => ~Waits(i, p)', SinglesOnce',
         UNCHANGED <<jobStatus, retries, assigned, attempts>>,
         \A r \in Place \ {p, q} : Waits(i, r)' => Waits(i, r),
         \A j \in Jobs \ {i}, r \in Place : Waits(j, r)' => Waits(j, r),
         \A c \in Cmd : InHand(c)' =>
            InHand(c) /\ handler'[c] = handler[c] /\ seen'[c] = seen[c],
         UNCHANGED <<monJobs, monSeen>>
  PROVE  JobInv'
  <1>1. CASE i \notin OneNodeJobs
    BY <1>1, OtherJobMoves
  <1>2. CASE i \in OneNodeJobs
    <2>1. /\ jobStatus[i] = "PENDING" /\ i \notin monJobs
          /\ \A r \in Place : Waits(i, r) => r = p
          /\ \A c \in Cmd : InHand(c) /\ attempts[c[1]] = i =>
                p = "report" /\ handler[c] = "retryQueue"
      BY <1>2, WaitingExcludes
    <2>2. \A r \in Place : Waits(i, r)' => r = q
      BY <1>2, <2>1
    <2>3. ASSUME NEW c \in Cmd, InHand(c)' PROVE attempts[c[1]] # i
      <3> SUFFICES ASSUME attempts[c[1]] = i PROVE FALSE
        OBVIOUS
      <3>1. p = "report" /\ handler'[c] = "retryQueue" /\ attempts'[c[1]] = i
        BY <2>1, <2>3
      <3> QED BY <1>2, <3>1 DEF Waits
    <2>4. Alone(i)' /\ Counted(i)'
      BY <1>2 DEF Settled, JobInv, RowInv, CountInv, Alone, Counted, Dispatches
    <2>5. \A r \in Place : Waits(i, r)' => jobStatus'[i] = "PENDING"
      BY <2>1
    <2>6. \A r, s \in Place : Waits(i, r)' /\ Waits(i, s)' => r = s
      BY <2>2
    <2>7. \A c \in Cmd : InHand(c)' =>
             attempts[c[1]] # i /\ InHand(c) /\ handler'[c] = handler[c] /\ seen'[c] = seen[c]
      BY <2>3
    <2>8. \A j \in monJobs' : j \in monJobs /\ j # i /\ monSeen'[j] = monSeen[j]
      BY <2>1
    <2> QED BY <1>2, <2>4, <2>5, <2>6, <2>7, <2>8, OneJobMoves
  <1> QED BY <1>1, <1>2

\* A step of a node takes up no launch and touches no row.
LEMMA JobNodes ==
  ASSUME Settled, NEW n \in Nodes, NodeStep(n)
  PROVE  JobInv'
  <1>1. UNCHANGED offNode
    BY DEF NodeStep, RegisterNode, CreateQueue, ListenForCommands, StreamEnds,
           DeliverCommand, GhostTakes, GhostEnds, AgentHeartbeat, SendHeartbeat,
           HeartbeatFails, Lapse, JobProcessExits, ConnectionBreaks, NodeCrashes
  <1>2. UNCHANGED <<jobStatus, retries, assigned, attempts, queue, submitting, schedPc,
                    schedJob, schedNodes, schedIdx, monJob, monJobs, monSeen, handler,
                    seen>>
    BY <1>1 DEF offNode, jobTable, schedVars, monVars, reportVars
  <1>3. \A m \in Nodes : agent'[m] # "dead" => agent[m] # "dead"
    BY NodeSideNow
       DEF NodeStep, RegisterNode, CreateQueue, ListenForCommands, StreamEnds,
           DeliverCommand, GhostTakes, GhostEnds, AgentHeartbeat, SendHeartbeat,
           HeartbeatFails, Lapse, JobProcessExits, ConnectionBreaks, NodeCrashes,
           Register, Registers, Listen, Disconnected, LaunchJob, BuildHeartbeat,
           HeartbeatReturns, ProcessExits, CutConnection, AgentCrash, agentVars,
           NodeSide, AgentTypeOK, Settled
  <1>4. [Next]_vars
    BY DEF Next
  <1>5. WaitingInv'
    <2>1. \A j \in Jobs, p \in Place : Waits(j, p)' => Waits(j, p)
      BY <1>2 DEF Waits, Queued, HeldByScheduler
    <2>2. SinglesOnce'
      BY <1>2 DEF Settled, JobInv, WaitingInv, SinglesOnce, OnceQueued
    <2> QED BY <1>2, <2>1, <2>2, SinglesAreJobs, WaitingStays
  <1>6. ~send_command
    BY <1>2, SchedSideNow DEF send_command, NextRound, Settled, SchedSide, SchedulerInv
  <1>7. ASSUME NEW c \in Cmd, InHand(c)' PROVE InHand(c)
    <2>1. c[2] \in Nodes
      BY DEF Cmd
    <2>2. run'[c] \in {"queued"} \cup Unreported =>
             run[c] \in {"queued"} \cup Unreported
      BY <1>4, <1>6, LaunchesStay DEF Settled
    <2> QED BY <1>2, <1>3, <1>7, <2>1, <2>2 DEF InHand
  <1> QED BY <1>2, <1>4, <1>5, <1>7, RowsUntouched

\* A command whose report is being handled is not to be sent any more.
LEMMA SentOnce ==
  ASSUME Settled, NEW c \in Cmd, run[c] # "none", attempts[c[1]] \in OneNodeJobs
  PROVE  ~(schedPc = "send" /\ c = <<Len(attempts), schedNodes[1]>>)
  <1> SUFFICES ASSUME schedPc = "send", c = <<Len(attempts), schedNodes[1]>> PROVE FALSE
    OBVIOUS
  <1>1. Len(schedNodes) = 1 /\ schedIdx \in 1..Len(schedNodes)
    <2>1. c[1] = Len(attempts) /\ schedJob[1].job \in OneNodeJobs
      BY DEF Settled, SendingInv
    <2> QED BY <2>1, SchedSideNow DEF Settled, JobInv, OneSelected, SchedulerInv
  <1>2. 1 \in schedIdx..Len(schedNodes)
    BY <1>1
  <1> QED BY <1>2 DEF Settled, OnceInv, UnsentIsNew

\* A log thread that reads an exit code keeps its launch in hand (launcher.py:53-55).
LEMMA JobReadsExit ==
  ASSUME Settled, NEW c \in Cmd, ExitIsRead(c)
  PROVE  JobInv'
  <1>1. /\ UNCHANGED <<jobStatus, retries, assigned, attempts, queue, submitting, schedPc,
                       schedJob, schedNodes, monJob, monJobs, monSeen, handler, seen, agent>>
        /\ run[c] \in Unreported
        /\ \A d \in Cmd \ {c} : run'[d] = run[d]
    BY DEF ExitIsRead, WaitReturns, offReport, jobTable, callVars, schedVars, monVars,
           reportVars
  <1>2. SinglesOnce' /\ \A j \in Jobs, p \in Place : Waits(j, p)' => Waits(j, p)
    BY <1>1 DEF Waits, Queued, HeldByScheduler, Settled, JobInv, WaitingInv, SinglesOnce,
                OnceQueued
  <1>3. \A d \in Cmd : InHand(d)' => InHand(d)
    BY <1>1 DEF InHand
  <1>4. WaitingInv'
    BY <1>1, <1>2, WaitingStays, SinglesAreJobs
  <1>5. [Next]_vars
    BY DEF Next, CommandStep
  <1> QED BY <1>1, <1>3, <1>4, <1>5, RowsUntouched

\* A report call changes the row of the job whose launch it has in hand, as long
\* as it has it (cluster_manager.py:105-144).
LEMMA JobReports ==
  ASSUME Settled, NEW c \in Cmd, CommandStep(c), NEW j \in OneNodeJobs, j = attempts[c[1]]
  PROVE  JobInv'
  <1>0. /\ TypeInv /\ [Next]_vars
        /\ handler \in [Cmd -> HandlerPhase] /\ seen \in [Cmd -> Nat]
        /\ run \in [Cmd -> RunPhase] /\ j \in Jobs
    BY ReportSideNow, SinglesAreJobs DEF Next, Settled, ReportSide, AgentTypeOK
  <1>1. \/ run[c] \in Unreported /\ handler[c] = "none"
        \/ run[c] = "reported" /\ handler[c] # "none" /\ UNCHANGED run
    <2>1. run[c] \in Unreported \/ (handler[c] # "none" /\ UNCHANGED run)
      BY <1>0 DEF CommandStep, ReportJobStatus, ReportFailed, ReportCompleted, ReportLost, ExitIsRead,
             HandlerStep, RetryIdlesNode, RetryWrites, RetryQueues, PermanentlyFails,
             PermanentlyFailedIdlesNode, CompletedIdlesNode, HandlerRaises, ReportStatus,
             GeneratorDropped, ReportFails, WaitReturns, agentVars
    <2> QED BY <2>1 DEF Settled, OnceInv, CallIsReport
  <1>2. InHand(c) /\ ~(schedPc = "send" /\ c = <<Len(attempts), schedNodes[1]>>)
    <2>1. c[2] \in Nodes
      BY DEF Cmd
    <2>2. run[c] \in Unreported => agent[c[2]] # "dead"
      BY <2>1 DEF Settled, CallersInv
    <2> QED BY <1>1, <2>2, SentOnce DEF InHand
  <1>3. /\ Current(c) /\ j \notin monJobs
        /\ \A p \in Place : Waits(j, p) => p = "report" /\ handler[c] = "retryQueue"
    BY <1>2, InHandExcludes DEF Settled, JobInv, InHandInv
  <1>4. /\ UNCHANGED <<agent, submitting, schedPc, schedJob, schedNodes, monJobs, monJob,
                       monSeen, attempts>>
        /\ \A d \in Cmd \ {c} : /\ run'[d] = run[d] /\ handler'[d] = handler[d]
                                /\ seen'[d] = seen[d]
    BY <1>0, ReportFrame
       DEF CommandStep, ReportJobStatus, ReportFailed, ReportCompleted, ReportLost, ExitIsRead,
             HandlerStep, RetryIdlesNode, RetryWrites, RetryQueues, PermanentlyFails,
             PermanentlyFailedIdlesNode, CompletedIdlesNode, HandlerRaises, ReportStatus,
             GeneratorDropped, ReportFails, WaitReturns, agentVars, reportVars
  <1>5. ASSUME NEW d \in Cmd \ {c}, InHand(d)'
        PROVE  /\ InHand(d) /\ attempts[d[1]] # j /\ handler'[d] = handler[d]
               /\ seen'[d] = seen[d]
    <2>1. InHand(d) /\ handler'[d] = handler[d] /\ seen'[d] = seen[d]
      BY <1>4, <1>5 DEF InHand
    <2> QED BY <1>0, <1>2, <2>1, OneInHand DEF Settled, JobInv
  <1>6. run'[c] \in {"reported", "lost"} /\ handler'[c] = "none" => ~InHand(c)'
    BY <1>0, <1>2, <1>4 DEF InHand
  <1>7. ASSUME UNCHANGED queue
        PROVE  /\ SinglesOnce'
               /\ \A i \in Jobs \ {j}, p \in Place : Waits(i, p)' => Waits(i, p)
               /\ \A p \in Place \ {"report"} : Waits(j, p)' => Waits(j, p)
               /\ Waits(j, "report")' => handler'[c] = "retryQueue"
    <2>1. SinglesOnce'
      BY <1>7 DEF Settled, JobInv, WaitingInv, SinglesOnce, OnceQueued
    <2>2. ASSUME NEW i \in Jobs, NEW p \in Place \ {"report"}, Waits(i, p)' PROVE Waits(i, p)
      BY <1>4, <1>7, <2>2 DEF Waits, Queued, HeldByScheduler
    <2>3. ASSUME NEW i \in Jobs \ {j}, Waits(i, "report")' PROVE Waits(i, "report")
      BY <1>4, <2>3 DEF Waits
    <2>4. Waits(j, "report")' => handler'[c] = "retryQueue"
      <3> SUFFICES ASSUME NEW d \in Cmd, handler'[d] = "retryQueue", attempts'[d[1]] = j
                   PROVE  d = c
        BY DEF Waits
      <3>1. InHand(d)'
        BY DEF InHand
      <3> QED BY <1>4, <1>5, <3>1
    <2>5. \A i \in Jobs \ {j}, p \in Place : Waits(i, p)' => Waits(i, p)
      <3> SUFFICES ASSUME NEW i \in Jobs \ {j}, NEW p \in Place, Waits(i, p)'
                   PROVE  Waits(i, p)
        OBVIOUS
      <3>1. CASE p = "report"
        BY <2>3, <3>1
      <3>2. CASE p # "report"
        BY <2>2, <3>2
      <3> QED BY <3>1, <3>2
    <2>6. \A p \in Place \ {"report"} : Waits(j, p)' => Waits(j, p)
      BY <1>0, <2>2
    <2> QED BY <2>1, <2>4, <2>5, <2>6
  <1>8. CASE \/ PermanentlyFailedIdlesNode(c) \/ CompletedIdlesNode(c) \/ HandlerRaises(c)
             \/ ReportLost(c)
    <2>1. UNCHANGED <<jobStatus, retries, assigned, queue>>
      BY <1>8 DEF PermanentlyFailedIdlesNode, CompletedIdlesNode, HandlerRaises, ReportLost,
                  jobTable
    <2>2. handler'[c] = "none" /\ run'[c] \in {"reported", "lost"}
      BY <1>0, <1>1, <1>8 DEF PermanentlyFailedIdlesNode, CompletedIdlesNode, HandlerRaises,
                  ReportLost, ReportFails, GeneratorDropped, reportVars, agentVars, CallIsReport
    <2>3. WaitingInv'
      <3>1. \A i \in OneNodeJobs, p \in Place : Waits(i, p)' => Waits(i, p) /\ i # j
        BY <1>0, <1>3, <1>7, <2>1, <2>2, SinglesAreJobs
      <3> QED BY <1>7, <2>1, <3>1, WaitingStays
    <2> QED BY <1>0, <1>4, <1>5, <1>6, <2>1, <2>2, <2>3, RowsUntouched
  <1>9. CASE RetryQueues(c)
    <2>1. /\ handler[c] = "retryQueue" /\ handler'[c] = "none" /\ UNCHANGED run
          /\ append_and_sort(Row(j)) /\ Row(j) \in Entry /\ Row(j).job = j
          /\ UNCHANGED <<jobStatus, retries, assigned>>
      BY <1>0, <1>3, <1>9 DEF RetryQueues, jobTable, agentVars, Row, Entry
    <2>2. Waits(j, "report") /\ "report" \in Place /\ "queue" \in Place
      BY <2>1 DEF Waits, Place
    <2>3. SinglesOnce' /\ \A i \in Jobs \ {j} : Queued(i)' => Queued(i)
      BY <2>1, <2>2, JoinsQueue
    <2>4. ~Waits(j, "report")'
      <3> SUFFICES ASSUME NEW d \in Cmd, handler'[d] = "retryQueue", attempts'[d[1]] = j
                   PROVE  FALSE
        BY DEF Waits
      <3>1. InHand(d)' /\ d # c
        BY <2>1 DEF InHand
      <3> QED BY <1>4, <1>5, <3>1
    <2>5. \A r \in Place \ {"report", "queue"} : Waits(j, r)' => Waits(j, r)
      BY <1>4 DEF Waits, HeldByScheduler
    <2>6. \A i \in Jobs \ {j}, r \in Place : Waits(i, r)' => Waits(i, r)
      BY <1>4, <2>3 DEF Waits, HeldByScheduler
    <2>7. \A d \in Cmd : InHand(d)' =>
             InHand(d) /\ handler'[d] = handler[d] /\ seen'[d] = seen[d]
      BY <1>1, <1>5, <1>6, <2>1
    <2> QED BY <1>0, <1>3, <1>4, <2>1, <2>2, <2>3, <2>4, <2>5, <2>6, <2>7, PlaceMoves
  <1>10. CASE \/ ReportFailed(c) \/ ReportCompleted(c) \/ RetryIdlesNode(c)
              \/ RetryWrites(c) \/ PermanentlyFails(c)
    <2>1. UNCHANGED queue /\ handler'[c] # "none" /\ handler[c] # "retryQueue"
      BY <1>0, <1>1, <1>10 DEF ReportFailed, ReportCompleted, RetryIdlesNode,
                    RetryWrites, PermanentlyFails, ReportStatus
    <2>2. /\ \A i \in Jobs \ {j} : /\ jobStatus'[i] = jobStatus[i]
                                   /\ retries'[i] = retries[i] /\ assigned'[i] = assigned[i]
          /\ assigned'[j] = assigned[j]
          /\ Current(c)' /\ Alone(j)' /\ Counted(j)'
          /\ handler'[c] = "retryQueue" => jobStatus'[j] = "PENDING"
      <3>1. /\ jobStatus \in [Jobs -> JobStatus] /\ retries \in [Jobs -> Nat]
            /\ seen[c] \in Nat /\ MaxRetries[j] \in Nat
        BY <1>0, ReportSideNow, RegistryAssumption DEF StoreSide, RegistryTypeOK
      <3>2. /\ Latest(c[1])' /\ UNCHANGED assigned /\ j = attempts'[c[1]]
            /\ assigned[j] = {c[2]} /\ c[2] \in Nodes
            /\ jobStatus[j] = RowDuring(handler[c])
        <4>1. Latest(c[1])' /\ j = attempts'[c[1]]
          BY <1>3, <1>4 DEF Current, Latest
        <4>2. UNCHANGED assigned
          BY <1>10 DEF ReportFailed, ReportCompleted, RetryIdlesNode, RetryWrites,
             PermanentlyFails, jobTable, update_job_status, update_job_retries
        <4>3. c[2] \in Nodes
          BY DEF Cmd
        <4> QED BY <1>3, <4>1, <4>2, <4>3 DEF Current
      <3>3. /\ Dispatches(j)' = Dispatches(j) /\ retries[j] <= MaxRetries[j]
            /\ jobStatus[j] = "RUNNING" => Dispatches(j) <= retries[j] + 1
        BY <1>0, <1>4 DEF Dispatches, Settled, JobInv, CountInv, Counted, RetryInv, RetriesBounded
      <3>4. CASE ReportFailed(c)
        <4>1. /\ seen' = [seen EXCEPT ![c] = retries[j]] /\ UNCHANGED <<jobStatus, retries>>
              /\ handler'[c] = IF retries[j] < MaxRetries[j] THEN "retryIdle" ELSE "permFailed"
              /\ handler[c] = "none"
          BY <1>0, <1>1, <3>4 DEF ReportFailed, RetriesLeft, ReportStatus, jobTable
        <4>2. seen'[c] = retries[j] /\ jobStatus[j] = "RUNNING"
          BY <1>0, <3>2, <4>1 DEF RowDuring
        <4> QED BY <1>0, <3>1, <3>2, <3>3, <4>1, <4>2 DEF Current, Alone, Counted, RowDuring
      <3>5. CASE ReportCompleted(c)
        <4>1. /\ jobStatus' = [jobStatus EXCEPT ![j] = "COMPLETED"] /\ UNCHANGED retries
              /\ handler'[c] = "compIdle" /\ handler[c] = "none"
          BY <1>0, <1>1, <3>5 DEF ReportCompleted, ReportStatus, update_job_status
        <4>2. jobStatus[j] = "RUNNING"
          BY <3>2, <4>1 DEF RowDuring
        <4> QED BY <1>0, <3>1, <3>2, <3>3, <4>1, <4>2 DEF Current, Alone, Counted, RowDuring
      <3>6. CASE RetryIdlesNode(c)
        <4>1. /\ UNCHANGED <<jobStatus, retries, seen>>
              /\ handler'[c] = "retryDb" /\ handler[c] = "retryIdle"
          BY <1>0, <3>6 DEF RetryIdlesNode, jobTable
        <4>2. jobStatus[j] = "RUNNING" /\ seen[c] = retries[j]
          BY <1>3, <3>2, <4>1 DEF RowDuring, Current
        <4> QED BY <1>0, <3>1, <3>2, <3>3, <4>1, <4>2 DEF Current, Alone, Counted, RowDuring
      <3>7. CASE RetryWrites(c)
        <4>1. /\ jobStatus' = [jobStatus EXCEPT ![j] = "PENDING"]
              /\ retries' = [retries EXCEPT ![j] = seen[c] + 1]
              /\ handler'[c] = "retryQueue" /\ handler[c] = "retryDb"
          BY <1>0, <3>7 DEF RetryWrites, update_job_retries
        <4>2. jobStatus[j] = "RUNNING" /\ seen[c] = retries[j]
          BY <1>3, <3>2, <4>1 DEF RowDuring, Current
        <4> QED BY <1>0, <3>1, <3>2, <3>3, <4>1, <4>2 DEF Current, Alone, Counted, RowDuring
      <3>8. CASE PermanentlyFails(c)
        <4>1. /\ jobStatus' = [jobStatus EXCEPT ![j] = "FAILED"] /\ UNCHANGED retries
              /\ handler'[c] = "permIdle" /\ handler[c] = "permFailed"
          BY <1>0, <3>8 DEF PermanentlyFails, update_job_status
        <4>2. jobStatus[j] = "RUNNING"
          BY <3>2, <4>1 DEF RowDuring
        <4> QED BY <1>0, <3>1, <3>2, <3>3, <4>1, <4>2 DEF Current, Alone, Counted, RowDuring
      <3> QED BY <1>10, <3>4, <3>5, <3>6, <3>7, <3>8
    <2>3. \A p \in Place : Waits(j, p)' => p = "report" /\ handler'[c] = "retryQueue"
      BY <1>3, <1>7, <2>1
    <2>4. \A d \in Cmd : InHand(d)' =>
            \/ attempts[d[1]] = j /\ Current(d)'
            \/ attempts[d[1]] # j /\ InHand(d) /\ handler'[d] = handler[d] /\ seen'[d] = seen[d]
      BY <1>5, <2>2
    <2>5. \A i \in monJobs' : i \in monJobs /\ i # j /\ monSeen'[i] = monSeen[i]
      BY <1>3, <1>4
    <2> QED BY <1>0, <1>3, <1>4, <1>7, <2>1, <2>2, <2>3, <2>4, <2>5, OneJobMoves
  <1> QED BY <1>8, <1>9, <1>10, JobReadsExit DEF CommandStep, ReportJobStatus, HandlerStep

\* The report of a launch of a larger job changes that job's row only.
LEMMA OtherReports ==
  ASSUME Settled, NEW c \in Cmd, CommandStep(c), NEW j \in Jobs \ OneNodeJobs,
         j = attempts[c[1]]
  PROVE  JobInv'
  <1>1. /\ TypeInv /\ [Next]_vars
        /\ handler \in [Cmd -> HandlerPhase] /\ seen \in [Cmd -> Nat]
        /\ run \in [Cmd -> RunPhase]
        /\ jobStatus \in [Jobs -> JobStatus] /\ retries \in [Jobs -> Nat]
    BY ReportSideNow, SchedSideNow
       DEF Next, Settled, ReportSide, AgentTypeOK, StoreSide, RegistryTypeOK
  <1>2. /\ UNCHANGED <<agent, submitting, schedPc, schedJob, schedNodes, monJobs, monJob,
                       monSeen, attempts>>
        /\ \A d \in Cmd \ {c} : /\ run'[d] = run[d] /\ handler'[d] = handler[d]
                                /\ seen'[d] = seen[d]
    BY <1>1, ReportFrame
       DEF CommandStep, ReportJobStatus, ReportFailed, ReportCompleted, ReportLost, ExitIsRead,
             HandlerStep, RetryIdlesNode, RetryWrites, RetryQueues, PermanentlyFails,
             PermanentlyFailedIdlesNode, CompletedIdlesNode, HandlerRaises, ReportStatus,
             GeneratorDropped, ReportFails, WaitReturns, agentVars, reportVars
  <1>3. /\ UNCHANGED assigned
        /\ \A i \in Jobs \ {j} : jobStatus'[i] = jobStatus[i] /\ retries'[i] = retries[i]
    BY <1>1
       DEF CommandStep, ReportJobStatus, ReportFailed, ReportCompleted, ReportLost, ExitIsRead,
             HandlerStep, RetryIdlesNode, RetryWrites, RetryQueues, PermanentlyFails,
             PermanentlyFailedIdlesNode, CompletedIdlesNode, HandlerRaises, jobTable,
             update_job_status, update_job_retries
  <1>4. SinglesOnce' /\ \A i \in Jobs \ {j} : Queued(i)' => Queued(i)
    <2>1. CASE RetryQueues(c)
      <3>1. /\ handler[c] = "retryQueue" /\ append_and_sort(Row(j))
            /\ Row(j) \in Entry /\ Row(j).job = j
        BY <2>1 DEF RetryQueues, Row, Entry
      <3>2. Waits(j, "report") /\ "report" \in Place \ {"queue"}
        BY <3>1 DEF Waits, Place
      <3> QED BY <3>1, <3>2, JoinsQueue
    <2>2. CASE ~RetryQueues(c)
      <3>1. UNCHANGED queue
        BY <2>2 DEF CommandStep, ReportJobStatus, ReportFailed, ReportCompleted,
             ReportLost, ExitIsRead, HandlerStep, RetryIdlesNode, RetryWrites, PermanentlyFails,
             PermanentlyFailedIdlesNode, CompletedIdlesNode, HandlerRaises
      <3> QED BY <3>1 DEF Settled, JobInv, WaitingInv, SinglesOnce, OnceQueued, Queued
    <2> QED BY <2>1, <2>2
  <1>5. ASSUME NEW i \in Jobs \ {j}, NEW p \in Place, Waits(i, p)' PROVE Waits(i, p)
    BY <1>2, <1>4, <1>5 DEF Waits, HeldByScheduler
  <1>6. ASSUME NEW d \in Cmd, InHand(d)', attempts[d[1]] # j
        PROVE  InHand(d) /\ handler'[d] = handler[d] /\ seen'[d] = seen[d]
    BY <1>2, <1>6 DEF InHand
  <1> QED BY <1>1, <1>2, <1>3, <1>4, <1>5, <1>6, OtherJobMoves

\* SubmitJob: a new row, then its queue entry (queue.py:22-30).
LEMMA JobSubmits ==
  ASSUME Settled, NEW i \in Jobs, SubmitJob(i) \/ EnqueueJob(i)
  PROVE  JobInv'
  <1>1. /\ [Next]_vars /\ jobStatus \in [Jobs -> JobStatus] /\ retries \in [Jobs -> Nat]
        /\ assigned \in [Jobs -> SUBSET Nodes]
    BY SchedSideNow DEF Next, Settled, StoreSide, RegistryTypeOK
  <1>2. UNCHANGED <<agent, run, schedPc, schedJob, schedNodes, monJob, monJobs, monSeen,
                    handler, seen, attempts>>
    BY DEF SubmitJob, EnqueueJob, agentVars, schedVars, monVars, reportVars
  <1>3. \A c \in Cmd : InHand(c)' => InHand(c)
    BY <1>2 DEF InHand
  <1>4. CASE SubmitJob(i)
    <2>1. /\ jobStatus[i] = "ABSENT" /\ jobStatus' = [jobStatus EXCEPT ![i] = "PENDING"]
          /\ retries' = [retries EXCEPT ![i] = 0] /\ assigned' = [assigned EXCEPT ![i] = {}]
          /\ submitting' = submitting \cup {i} /\ UNCHANGED queue
      BY <1>4 DEF SubmitJob, insert_job
    <2>2. i \in OneNodeJobs => \A p \in Place : ~Waits(i, p)
      BY <2>1 DEF Settled, JobInv, WaitingInv
    <2>3. \A j \in Jobs, p \in Place : Waits(j, p)' => Waits(j, p) \/ (j = i /\ p = "submit")
      BY <1>2, <2>1 DEF Waits, Queued, HeldByScheduler
    <2>4. SinglesOnce'
      BY <2>1 DEF Settled, JobInv, WaitingInv, SinglesOnce, OnceQueued
    <2>5. \A c \in Cmd : InHand(c) => attempts[c[1]] # i
      <3> TAKE c \in Cmd
      <3> HAVE InHand(c)
      <3>1. c[1] \in 1..Len(attempts)
        BY InHandIsLaunch DEF Settled
      <3> QED BY <2>1, <3>1 DEF Settled, RowsInv, Known
    <2>6. i \notin monJobs
      BY <2>1 DEF Settled, RowsInv, Known
    <2>7. i \in OneNodeJobs => Alone(i)' /\ Counted(i)'
      <3> SUFFICES ASSUME i \in OneNodeJobs PROVE Alone(i)' /\ Counted(i)'
        OBVIOUS
      <3>1. Dispatches(i) <= 0 /\ Dispatches(i)' = Dispatches(i)
        BY <1>2, <2>1 DEF Settled, JobInv, RowInv, CountInv, Alone, Counted, Dispatches
      <3> QED BY <1>1, <2>1, <3>1 DEF Alone, Counted
    <2>8. CASE i \in OneNodeJobs
      BY <1>1, <1>2, <1>3, <2>1, <2>2, <2>3, <2>4, <2>5, <2>6, <2>7, <2>8, OneJobMoves
    <2>9. CASE i \notin OneNodeJobs
      BY <1>1, <1>2, <1>3, <2>1, <2>3, <2>4, <2>6, <2>9, OtherJobMoves
    <2> QED BY <2>8, <2>9
  <1>5. CASE EnqueueJob(i)
    <2>1. /\ append_and_sort(Fresh(i)) /\ Fresh(i) \in Entry /\ Fresh(i).job = i
          /\ i \in submitting /\ submitting' = submitting \ {i}
          /\ UNCHANGED <<jobStatus, retries, assigned>>
      BY <1>5 DEF EnqueueJob, Fresh, Entry, jobTable
    <2>2. "submit" \in Place /\ "queue" \in Place /\ Waits(i, "submit") /\ ~Waits(i, "submit")'
      BY <2>1 DEF Place, Waits
    <2>3. SinglesOnce' /\ \A j \in Jobs \ {i} : Queued(j)' => Queued(j)
      BY <2>1, <2>2, JoinsQueue
    <2>4. /\ \A r \in Place \ {"submit", "queue"} : Waits(i, r)' => Waits(i, r)
          /\ \A j \in Jobs \ {i}, r \in Place : Waits(j, r)' => Waits(j, r)
      BY <1>2, <2>1, <2>3 DEF Waits, HeldByScheduler
    <2> QED BY <1>1, <1>2, <1>3, <2>1, <2>2, <2>3, <2>4, PlaceMoves
  <1> QED BY <1>4, <1>5

\* The job that is dispatched was in the scheduler's hand and nowhere else
\* (schedulers/base.py:40-69, cluster_manager.py:175-190).
LEMMA JobDispatches ==
  ASSUME Settled, dispatch_allocated_job, NEW i \in OneNodeJobs, i = schedJob[1].job
  PROVE  JobInv'
  <1>1. /\ [Next]_vars /\ TypeInv
        /\ jobStatus \in [Jobs -> JobStatus] /\ retries \in [Jobs -> Nat]
        /\ assigned \in [Jobs -> SUBSET Nodes] /\ i \in Jobs
    BY SchedSideNow, SinglesAreJobs DEF Next, SchedulerStep, Settled, StoreSide, RegistryTypeOK
  <1>2. /\ UNCHANGED <<agent, run, monJob, monJobs, monSeen, handler, seen, submitting, queue,
                       retries, schedJob, schedNodes>>
        /\ schedPc = "running" /\ schedPc' = "send" /\ schedJob # <<>>
    BY <1>1, SchedulerFrame, DispatchRecords DEF SchedulerStep
  <1>3. /\ jobStatus' = [jobStatus EXCEPT ![i] = "RUNNING"]
        /\ Len(attempts) \in Nat /\ Len(attempts') = Len(attempts) + 1
        /\ attempts'[Len(attempts')] = i
        /\ \A a \in 1..Len(attempts) : attempts'[a] = attempts[a]
        /\ \A a \in 1..Len(attempts') : a \in 1..Len(attempts) \/ a = Len(attempts')
        /\ DOMAIN attempts = 1..Len(attempts) /\ DOMAIN attempts' = 1..Len(attempts')
    BY <1>1, DispatchRecords
  <1>4. /\ schedNodes[1] \in Nodes
        /\ assigned' = [assigned EXCEPT ![i] = {schedNodes[1]}]
    <2>1. Len(schedNodes) = 1 /\ schedNodes \in Seq(Nodes)
      BY <1>2, SchedSideNow DEF Settled, JobInv, OneSelected, SchedSide
    <2>2. schedNodes[1] \in Nodes /\ DOMAIN schedNodes = {1}
      BY <2>1
    <2>3. {schedNodes[m] : m \in DOMAIN schedNodes} = {schedNodes[1]}
      BY <2>2
    <2> QED BY <1>1, <2>2, <2>3, DispatchRecords
  <1>5. Waits(i, "scheduler") /\ "scheduler" \in Place
    BY <1>2 DEF Waits, Place, HeldByScheduler
  <1>6. /\ jobStatus[i] = "PENDING" /\ i \notin monJobs
        /\ \A q \in Place : Waits(i, q) => q = "scheduler"
        /\ \A c \in Cmd : InHand(c) => attempts[c[1]] # i
    BY <1>5, WaitingExcludes
  <1>7. QuietInv' /\ OneSelected'
    BY <1>1, NextQuiet, NextSelected DEF Settled, JobInv
  <1>8. WaitingInv'
    <2>1. SinglesOnce'
      BY <1>2 DEF Settled, JobInv, WaitingInv, SinglesOnce, OnceQueued
    <2>2. ASSUME NEW j \in OneNodeJobs, NEW p \in Place, Waits(j, p)' PROVE j # i /\ Waits(j, p)
      <3>1. CASE p = "report"
        <4>1. PICK c \in Cmd : handler[c] = "retryQueue" /\ attempts'[c[1]] = j
          BY <1>2, <2>2, <3>1 DEF Waits
        <4>2. InHand(c) /\ c[1] \in 1..Len(attempts)
          BY <1>1, <4>1, InHandIsLaunch DEF InHand
        <4>3. attempts[c[1]] = j
          BY <1>3, <4>1, <4>2
        <4> QED BY <1>6, <3>1, <4>1, <4>2, <4>3 DEF Waits
      <3>2. CASE p # "report"
        <4>1. Waits(j, p) /\ p # "scheduler"
          BY <1>2, <2>2, <3>2 DEF Waits, Queued, HeldByScheduler
        <4> QED BY <1>6, <4>1
      <3> QED BY <3>1, <3>2
    <2>3. \A j \in Jobs \ {i} : jobStatus'[j] = jobStatus[j]
      BY <1>1, <1>3
    <2> QED BY <2>1, <2>2, <2>3, SinglesAreJobs DEF Settled, JobInv, WaitingInv, SinglesOnce, OnceQueued
  <1>9. InHandInv'
    <2> SUFFICES ASSUME NEW c \in Cmd, InHand(c)', attempts'[c[1]] \in OneNodeJobs
                 PROVE  Current(c)'
      BY DEF InHandInv
    <2>1. CASE InHand(c)
      <3>1. c[1] \in 1..Len(attempts) /\ attempts[c[1]] \in Jobs \ {i}
        BY <1>1, <1>6, <2>1, InHandIsLaunch
      <3>2. attempts'[c[1]] = attempts[c[1]] /\ Current(c)
        BY <1>3, <2>1, <3>1 DEF Settled, JobInv, InHandInv
      <3>3. Latest(c[1])'
        <4> SUFFICES ASSUME NEW b \in DOMAIN attempts', attempts'[b] = attempts'[c[1]]
                     PROVE  b <= c[1]
          BY DEF Latest
        <4>1. b \in DOMAIN attempts /\ attempts[b] = attempts[c[1]]
          BY <1>3, <3>1, <3>2
        <4> QED BY <3>1, <3>2, <4>1 DEF Current, Latest
      <3> QED BY <1>1, <1>2, <1>3, <1>4, <3>1, <3>2, <3>3 DEF Current, RowDuring
    <2>2. CASE ~InHand(c)
      <3>1. c = <<Len(attempts'), schedNodes[1]>> /\ handler[c] = "none"
        BY <1>2, <2>2 DEF InHand
      <3>2. c[1] = Len(attempts') /\ c[2] = schedNodes[1]
        BY <3>1
      <3>3. Latest(c[1])'
        BY <1>3, <3>2 DEF Latest
      <3> QED BY <1>1, <1>2, <1>3, <1>4, <3>1, <3>2, <3>3 DEF Current, RowDuring
    <2> QED BY <2>1, <2>2
  <1>10. MonitorJobsInv'
    <2>1. \A j \in monJobs' : j \in Jobs \ {i} /\ j \in monJobs
      BY <1>1, <1>2, <1>6, MonSideNow DEF MonSide
    <2> QED BY <1>1, <1>2, <1>3, <1>4, <2>1, MonitorJobsStay
  <1>11. RowInv'
    <2>1. ASSUME NEW j \in OneNodeJobs PROVE Alone(j)'
      <3>1. CASE j = i
        BY <1>1, <1>3, <1>4, <3>1 DEF Alone
      <3>2. CASE j # i
        BY <1>1, <1>2, <1>3, <1>4, <3>2, SinglesAreJobs DEF Alone, Settled, JobInv, RowInv
      <3> QED BY <3>1, <3>2
    <2> QED BY <2>1 DEF RowInv
  <1>12. CountInv'
    <2>1. ASSUME NEW j \in OneNodeJobs \ {i} PROVE Counted(j)'
      <3>1. {a \in DOMAIN attempts' : attempts'[a] = j} = {a \in DOMAIN attempts : attempts[a] = j}
        BY <1>3
      <3> QED BY <1>1, <1>2, <1>3, <3>1, SinglesAreJobs
              DEF Settled, JobInv, CountInv, Counted, Dispatches
    <2>2. Counted(i)'
      <3> DEFINE D == {a \in DOMAIN attempts : attempts[a] = i}
                 E == {a \in DOMAIN attempts' : attempts'[a] = i}
      <3>1. E = D \cup {Len(attempts')} /\ Len(attempts') \notin D
        BY <1>3
      <3>2. IsFiniteSet(D)
        <4>1. IsFiniteSet(1..Len(attempts))
          BY <1>3, FS_Interval
        <4> QED BY <1>3, <4>1, FS_Subset
      <3>3. Cardinality(E) = Cardinality(D) + 1 /\ Cardinality(D) \in Nat
        BY <3>1, <3>2, FS_AddElement, FS_CardinalityType
      <3>4. Cardinality(D) <= retries[i]
        BY <1>6 DEF Settled, JobInv, CountInv, Counted, Dispatches
      <3> HIDE DEF D, E
      <3>5. jobStatus'[i] = "RUNNING" /\ retries'[i] = retries[i] /\ retries[i] \in Nat
        BY <1>1, <1>2, <1>3
      <3>6. Cardinality(E) <= retries[i] + 1
        BY <3>3, <3>4, <3>5
      <3> QED BY <3>5, <3>6 DEF Counted, Dispatches, E
    <2> QED BY <2>1, <2>2 DEF CountInv
  <1> QED BY <1>7, <1>8, <1>9, <1>10, <1>11, <1>12 DEF JobInv

\* A larger job is dispatched: the launches of the others stay as they are.
LEMMA OtherDispatches ==
  ASSUME Settled, dispatch_allocated_job, schedJob[1].job \notin OneNodeJobs
  PROVE  JobInv'
  <1> DEFINE i == schedJob[1].job
  <1>1. /\ [Next]_vars /\ TypeInv
        /\ jobStatus \in [Jobs -> JobStatus] /\ assigned \in [Jobs -> SUBSET Nodes]
    BY SchedSideNow DEF Next, SchedulerStep, Settled, StoreSide, RegistryTypeOK
  <1>2. /\ UNCHANGED <<agent, run, monJob, monJobs, monSeen, handler, seen, submitting, queue,
                       retries, schedJob, schedNodes>>
        /\ schedPc = "running" /\ schedPc' = "send"
    BY <1>1, SchedulerFrame, DispatchRecords DEF SchedulerStep
  <1>3. /\ Len(attempts) \in Nat /\ Len(attempts') = Len(attempts) + 1
        /\ attempts'[Len(attempts')] = i
        /\ \A a \in 1..Len(attempts) : attempts'[a] = attempts[a]
        /\ \A a \in 1..Len(attempts') : a \in 1..Len(attempts) \/ a = Len(attempts')
        /\ DOMAIN attempts = 1..Len(attempts) /\ DOMAIN attempts' = 1..Len(attempts')
        /\ \A j \in Jobs \ {i} : jobStatus'[j] = jobStatus[j] /\ assigned'[j] = assigned[j]
    BY <1>1, DispatchRecords
  <1>4. \A j \in OneNodeJobs : j \in Jobs \ {i}
    BY SinglesAreJobs
  <1>5. ASSUME NEW c \in Cmd, InHand(c)', attempts'[c[1]] \in OneNodeJobs
        PROVE  InHand(c) /\ attempts'[c[1]] = attempts[c[1]]
    <2>1. c # <<Len(attempts'), schedNodes[1]>>
      BY <1>3, <1>5
    <2>2. InHand(c)
      BY <1>2, <1>5, <2>1 DEF InHand
    <2> QED BY <1>1, <1>3, <2>2, InHandIsLaunch
  <1>6. WaitingInv'
    <2>1. SinglesOnce'
      BY <1>2 DEF Settled, JobInv, WaitingInv, SinglesOnce, OnceQueued
    <2>2. ASSUME NEW j \in OneNodeJobs, NEW p \in Place, Waits(j, p)' PROVE Waits(j, p)
      <3>1. CASE p = "report"
        <4>1. PICK c \in Cmd : handler[c] = "retryQueue" /\ attempts'[c[1]] = j
          BY <1>2, <2>2, <3>1 DEF Waits
        <4>2. InHand(c)'
          BY <1>2, <4>1 DEF InHand
        <4>3. attempts[c[1]] = j
          BY <1>5, <4>1, <4>2
        <4> QED BY <3>1, <4>1, <4>3 DEF Waits
      <3>2. CASE p # "report"
        BY <1>2, <2>2, <3>2 DEF Waits, Queued, HeldByScheduler
      <3> QED BY <3>1, <3>2
    <2> QED BY <1>3, <1>4, <2>1, <2>2, WaitingStays
  <1>7. ASSUME NEW j \in OneNodeJobs
        PROVE  {a \in DOMAIN attempts' : attempts'[a] = j} =
                  {a \in DOMAIN attempts : attempts[a] = j}
    BY <1>3, <1>4
  <1> QED BY <1>1, <1>2, <1>3, <1>4, <1>5, <1>6, <1>7, SinglesUntouched

\* The scheduler: a job goes from the queue to its hand, and back or on to a
\* dispatch; sending takes up the launch that the dispatch began.
LEMMA JobSchedules ==
  ASSUME Settled, SchedulerStep \/ SchedulerDies
  PROVE  JobInv'
  <1>1. [Next]_vars /\ TypeInv
    BY DEF Next, Settled
  <1>2. UNCHANGED <<agent, submitting, handler, seen, monJobs, monJob, monSeen, retries>>
    BY SchedulerFrame
  <1>3. ASSUME UNCHANGED <<run, attempts>>, schedPc' # "send"
        PROVE  \A c \in Cmd : InHand(c)' =>
                  InHand(c) /\ handler'[c] = handler[c] /\ seen'[c] = seen[c]
    BY <1>2, <1>3 DEF InHand
  <1>4. CASE PopJob
    <2>1. /\ UNCHANGED <<run, attempts, jobStatus, assigned>> /\ schedPc' = "mark"
          /\ queue # <<>> /\ schedJob' = <<Head(queue)>> /\ pop_top_job /\ schedJob = <<>>
      BY <1>1, <1>4, SchedSideNow DEF PopJob, jobTable, offSched, agentVars, top, SchedulerInv
    <2>2. /\ queue \in Seq(Entry) /\ queue' \in Seq(Entry) /\ Head(queue) \in Entry
      BY <1>1, <2>1, PopKeeps, SchedSideNow DEF StoreSide
    <2>3. PICK i \in Jobs : i = Head(queue).job
      BY <2>2 DEF Entry
    <2>4. /\ DOMAIN queue = 1..Len(queue) /\ DOMAIN queue' = 1..Len(queue')
          /\ Len(queue) \in Nat \ {0} /\ Head(queue) = queue[1]
          /\ \A m \in 1..Len(queue') :
                m + 1 \in 1..Len(queue) /\ queue'[m] = queue[m + 1] /\ m \in Nat
      BY <2>1, <2>2, PopOrders, LenProperties
    <2>5. Waits(i, "queue") /\ "queue" \in Place /\ "scheduler" \in Place
      <3>1. 1 \in DOMAIN queue /\ queue[1].job = i
        BY <2>3, <2>4
      <3> QED BY <3>1 DEF Waits, Place, Queued
    <2>6. \A j \in OneNodeJobs : \A k, m \in 1..Len(queue) :
             queue[k].job = j /\ queue[m].job = j => k = m
      BY DEF Settled, JobInv, WaitingInv, OnceQueued
    <2>7. SinglesOnce'
      <3> SUFFICES ASSUME NEW j \in OneNodeJobs, NEW k \in 1..Len(queue'),
                          NEW m \in 1..Len(queue'), queue'[k].job = j, queue'[m].job = j
                   PROVE  k = m
        BY DEF SinglesOnce, OnceQueued
      <3>1. k + 1 = m + 1
        BY <2>4, <2>6
      <3> QED BY <2>4, <3>1
    <2>8. i \in OneNodeJobs => ~Queued(i)'
      <3> SUFFICES ASSUME i \in OneNodeJobs, NEW m \in 1..Len(queue'), queue'[m].job = i PROVE FALSE
        BY <2>4 DEF Queued
      <3>1. m + 1 = 1
        BY <2>3, <2>4, <2>6
      <3> QED BY <2>4, <3>1
    <2>9. \A j \in Jobs : Queued(j)' => Queued(j)
      BY <2>4 DEF Queued
    <2>10. i \in OneNodeJobs => ~Waits(i, "queue")'
      BY <2>8 DEF Waits
    <2>11. \A j \in Jobs : HeldByScheduler(j)' => j = i
      BY <2>1, <2>3 DEF HeldByScheduler
    <2>12. /\ \A r \in Place \ {"queue", "scheduler"} : Waits(i, r)' => Waits(i, r)
           /\ \A j \in Jobs \ {i}, r \in Place : Waits(j, r)' => Waits(j, r)
      BY <1>2, <2>1, <2>9, <2>11 DEF Waits
    <2> QED BY <1>1, <1>2, <1>3, <2>1, <2>5, <2>7, <2>10, <2>12, PlaceMoves
  <1>5. CASE RequeueJob
    <2>1. PICK e \in Entry : schedJob = <<e>>
      BY <1>1, <1>5, SchedSideNow DEF RequeueJob, SchedSide, SchedulerInv
    <2>2. PICK i \in Jobs : i = e.job
      BY DEF Entry
    <2>3. /\ UNCHANGED <<run, attempts, jobStatus, assigned>> /\ schedPc = "requeue"
          /\ schedPc' = "pop" /\ schedJob' = <<>> /\ requeue_job(e)
      BY <1>5, <2>1 DEF RequeueJob, jobTable, offSched, agentVars, NextRound
    <2>4. Waits(i, "scheduler") /\ "queue" \in Place /\ "scheduler" \in Place
          /\ ~Waits(i, "scheduler")'
      BY <2>1, <2>2, <2>3 DEF Waits, Place, HeldByScheduler
    <2>5. SinglesOnce' /\ \A j \in Jobs \ {i} : Queued(j)' => Queued(j)
      BY <2>2, <2>3, <2>4, JoinsQueue
    <2>6. /\ \A r \in Place \ {"queue", "scheduler"} : Waits(i, r)' => Waits(i, r)
          /\ \A j \in Jobs \ {i}, r \in Place : Waits(j, r)' => Waits(j, r)
      BY <1>2, <2>3, <2>5 DEF Waits, HeldByScheduler
    <2> QED BY <1>1, <1>2, <1>3, <2>3, <2>4, <2>5, <2>6, PlaceMoves
  <1>6. CASE SchedulerMarks \/ SelectNodes \/ ReserveNode \/ SchedulerDies
    <2>1. /\ UNCHANGED <<run, attempts, jobStatus, assigned, queue, schedJob>>
          /\ schedPc # "send" /\ schedPc' # "send"
      BY <1>6 DEF SchedulerMarks, SelectNodes, ReserveNode, SchedulerDies, jobTable, offSched,
                  agentVars
    <2>2. SinglesOnce'
      BY <2>1 DEF Settled, JobInv, WaitingInv, SinglesOnce, OnceQueued
    <2>3. \A j \in Jobs, p \in Place : Waits(j, p)' => Waits(j, p)
      BY <1>2, <2>1 DEF Waits, Queued, HeldByScheduler
    <2>4. WaitingInv'
      BY <2>1, <2>2, <2>3, SinglesAreJobs, WaitingStays
    <2> QED BY <1>1, <1>2, <1>3, <2>1, <2>4, RowsUntouched
  <1>7. CASE dispatch_allocated_job
    BY <1>7, JobDispatches, OtherDispatches
  <1>8. CASE send_command
    <2>1. /\ UNCHANGED <<attempts, jobStatus, assigned, queue>>
          /\ schedPc = "send" /\ schedIdx \in 1..Len(schedNodes)
          /\ attempts[Len(attempts)] = schedJob[1].job
      BY <1>1, <1>8, SchedSideNow DEF send_command, jobTable, SchedulerInv, Settled, SendingInv
    <2>2. \/ schedPc' = "pop" /\ schedJob' = <<>>
          \/ schedPc' = "send" /\ schedJob' = schedJob
      BY <1>8, <2>1 DEF send_command, NextRound
    <2>3. schedJob[1].job \in OneNodeJobs => schedIdx = 1 /\ schedPc' = "pop"
      <3> SUFFICES ASSUME schedJob[1].job \in OneNodeJobs PROVE schedIdx = 1 /\ schedPc' = "pop"
        OBVIOUS
      <3>1. Len(schedNodes) = 1
        BY <2>1 DEF Settled, JobInv, OneSelected
      <3>2. schedIdx = 1
        BY <2>1, <3>1
      <3> QED BY <1>8, <3>1, <3>2 DEF send_command, NextRound
    <2>4. SinglesOnce'
      BY <2>1 DEF Settled, JobInv, WaitingInv, SinglesOnce, OnceQueued
    <2>5. \A j \in Jobs, p \in Place : Waits(j, p)' => Waits(j, p)
      BY <1>2, <2>1, <2>2 DEF Waits, Queued, HeldByScheduler
    <2>6. ASSUME NEW c \in Cmd, InHand(c)', attempts[c[1]] \in OneNodeJobs PROVE InHand(c)
      <3>1. c[1] = Len(attempts) => schedIdx = 1 /\ schedPc' = "pop"
        BY <2>1, <2>3, <2>6
      <3>2. \/ handler[c] # "none"
            \/ agent[c[2]] # "dead" /\ run'[c] \in {"queued"} \cup Unreported
        BY <1>2, <2>1, <2>6, <3>1 DEF InHand
      <3>3. run'[c] \in {"queued"} \cup Unreported =>
               \/ run[c] \in {"queued"} \cup Unreported
               \/ c = <<Len(attempts), schedNodes[1]>>
        BY <1>1, <3>1, LaunchesStay DEF Settled
      <3> QED BY <2>1, <3>2, <3>3 DEF InHand
    <2> QED BY <1>1, <1>2, <2>1, <2>4, <2>5, <2>6, WaitingStays, RowsUntouched, SinglesAreJobs
  <1> QED BY <1>4, <1>5, <1>6, <1>7, <1>8 DEF SchedulerStep

\* The monitor takes up only jobs whose launch has ended with its node
\* (cluster_manager.py:312-345).
LEMMA JobMonitors ==
  ASSUME Settled, MonitorStep \/ MonitorDies \/ ProbeMarks
  PROVE  JobInv'
  <1>1. /\ [Next]_vars /\ TypeInv /\ jobStatus \in [Jobs -> JobStatus]
        /\ retries \in [Jobs -> Nat] /\ monSeen \in [Jobs -> Nat]
    BY SchedSideNow, MonSideNow DEF Next, Settled, StoreSide, RegistryTypeOK, MonSide
  <1>2. UNCHANGED <<agent, run, submitting, schedPc, schedJob, schedNodes, handler, seen,
                    attempts>>
    BY MonitorFrame
  <1>3. \A c \in Cmd : InHand(c)' =>
           InHand(c) /\ handler'[c] = handler[c] /\ seen'[c] = seen[c]
    BY <1>2 DEF InHand
  <1>4. ASSUME NEW i \in Jobs, MonitorRetries(i) \/ MonitorFails(i) PROVE JobInv'
    <2>1. /\ i \in monJobs /\ UNCHANGED <<queue, assigned>>
          /\ \/ /\ jobStatus' = [jobStatus EXCEPT ![i] = "PENDING"] /\ monJob' = <<i>>
                /\ retries' = [retries EXCEPT ![i] = monSeen[i] + 1] /\ MonitorRetries(i)
             \/ /\ jobStatus' = [jobStatus EXCEPT ![i] = "FAILED"] /\ UNCHANGED monJob
                /\ UNCHANGED retries
          /\ monJobs' = monJobs \ {i} /\ monSeen' = [monSeen EXCEPT ![i] = 0]
          /\ monPc = "handle"
      BY <1>4 DEF MonitorRetries, MonitorFails, update_job_retries, update_job_status
    <2>2. i \in OneNodeJobs => jobStatus[i] = "RUNNING" /\ monSeen[i] = retries[i]
      BY <2>1 DEF Settled, JobInv, MonitorJobsInv
    <2>3. i \in OneNodeJobs => \A p \in Place : ~Waits(i, p)
      BY <2>2 DEF Settled, JobInv, WaitingInv
    <2>4. monJob = <<>>
      BY <1>1, <2>1, MonSideNow DEF MonitorInv
    <2>5. /\ \A j \in Jobs \ {i}, p \in Place : Waits(j, p)' => Waits(j, p)
          /\ i \in OneNodeJobs =>
                \A p \in Place : Waits(i, p)' => p = "monitor" /\ jobStatus'[i] = "PENDING"
      <3>1. ASSUME NEW j \in Jobs, NEW p \in Place \ {"monitor"}, Waits(j, p)' PROVE Waits(j, p)
        BY <1>2, <2>1, <3>1 DEF Waits, Queued, HeldByScheduler
      <3>2. ASSUME NEW j \in Jobs, Waits(j, "monitor")' PROVE j = i /\ jobStatus'[i] = "PENDING"
        <4>1. monJob' = <<j>> /\ monJob' # <<>>
          BY <3>2 DEF Waits
        <4>2. jobStatus' = [jobStatus EXCEPT ![i] = "PENDING"] /\ monJob' = <<i>>
          BY <2>1, <2>4, <4>1
        <4> QED BY <1>1, <4>1, <4>2
      <3> QED BY <2>3, <3>1, <3>2
    <2>6. SinglesOnce'
      BY <2>1 DEF Settled, JobInv, WaitingInv, SinglesOnce, OnceQueued
    <2>7. i \in OneNodeJobs => \A c \in Cmd : InHand(c)' => attempts[c[1]] # i
      BY <1>3, <2>1, InHandExcludes
    <2>8. \A j \in monJobs' : j \in monJobs /\ j # i /\ monSeen'[j] = monSeen[j]
      BY <1>1, <2>1
    <2>9. i \in OneNodeJobs => Alone(i)' /\ Counted(i)'
      <3> SUFFICES ASSUME i \in OneNodeJobs PROVE Alone(i)' /\ Counted(i)'
        OBVIOUS
      <3>1. Dispatches(i)' = Dispatches(i) /\ Dispatches(i) <= retries[i] + 1
        BY <1>2, <2>2 DEF Settled, JobInv, CountInv, Counted, Dispatches
      <3> QED BY <1>1, <2>1, <2>2, <3>1 DEF Alone, Counted
    <2>10. \A j \in Jobs \ {i} : /\ jobStatus'[j] = jobStatus[j] /\ retries'[j] = retries[j]
                                 /\ assigned'[j] = assigned[j]
      BY <1>1, <2>1
    <2>11. CASE i \in OneNodeJobs
      BY <1>1, <1>2, <1>3, <2>5, <2>6, <2>7, <2>8, <2>9, <2>10, <2>11, OneJobMoves
    <2>12. CASE i \notin OneNodeJobs
      BY <1>1, <1>2, <1>3, <2>5, <2>6, <2>8, <2>10, <2>12, OtherJobMoves
    <2> QED BY <2>11, <2>12
  <1>5. CASE MonitorQueues
    <2>1. PICK i \in Jobs : monJob = <<i>>
      BY <1>1, <1>5, MonSideNow DEF MonitorQueues, MonSide, MonitorInv
    <2>2. /\ append_and_sort(Row(i)) /\ Row(i) \in Entry /\ Row(i).job = i
          /\ UNCHANGED <<jobStatus, retries, assigned, monJobs, monSeen>> /\ monJob' = <<>>
      BY <1>5, <2>1 DEF MonitorQueues, Row, Entry, jobTable
    <2>3. Waits(i, "monitor") /\ ~Waits(i, "monitor")' /\ "monitor" \in Place /\ "queue" \in Place
      BY <2>1, <2>2 DEF Waits, Place
    <2>4. SinglesOnce' /\ \A j \in Jobs \ {i} : Queued(j)' => Queued(j)
      BY <2>2, <2>3, JoinsQueue
    <2>5. /\ \A r \in Place \ {"queue", "monitor"} : Waits(i, r)' => Waits(i, r)
          /\ \A j \in Jobs \ {i}, r \in Place : Waits(j, r)' => Waits(j, r)
      BY <1>2, <2>2, <2>4 DEF Waits, HeldByScheduler
    <2> QED BY <1>1, <1>2, <1>3, <2>2, <2>3, <2>4, <2>5, PlaceMoves
  <1>6. CASE \/ MonitorScans \/ MonitorReadsJobs \/ MonitorDone \/ MonitorMarks
             \/ MonitorDies \/ ProbeMarks
    <2>1. /\ UNCHANGED <<jobStatus, retries, assigned, queue, monJob>>
          /\ MonitorReadsJobs \/ monJobs' = {} \/ UNCHANGED <<monJobs, monSeen>>
      BY <1>6 DEF MonitorScans, MonitorReadsJobs, MonitorDone, MonitorMarks, MonitorDies,
                  ProbeMarks, jobTable, monVars
    <2>2. SinglesOnce'
      BY <2>1 DEF Settled, JobInv, WaitingInv, SinglesOnce, OnceQueued
    <2>3. \A j \in Jobs, p \in Place : Waits(j, p)' => Waits(j, p)
      BY <1>2, <2>1 DEF Waits, Queued, HeldByScheduler
    <2>4. WaitingInv'
      BY <2>1, <2>2, <2>3, SinglesAreJobs, WaitingStays
    <2> QED BY <1>1, <1>2, <1>3, <2>1, <2>4, RowsUntouched
  <1> QED BY <1>4, <1>5, <1>6 DEF MonitorStep

\* The manager's crash forgets every place but the row, and its restart finds the
\* rows (queue.py:15-20).
LEMMA JobRestarts ==
  ASSUME Settled, ManagerCrashes \/ ManagerRestarts
  PROVE  JobInv'
  <1>1. /\ [Next]_vars /\ TypeInv /\ UNCHANGED <<jobStatus, retries, assigned, attempts>>
    BY DEF Next, Settled, ManagerCrashes, ManagerRestarts, jobTable
  <1>2. CASE ManagerCrashes
    <2>1. /\ queue' = <<>> /\ schedPc' = "pop" /\ schedJob' = <<>> /\ submitting' = {}
          /\ monJobs' = {} /\ monJob' = <<>> /\ \A c \in Cmd : handler'[c] = "none"
          /\ ManagerGone
      BY <1>2 DEF ManagerCrashes, NextRound
    <2>2. SinglesOnce' /\ \A j \in Jobs, p \in Place : ~Waits(j, p)'
      BY <2>1 DEF Waits, Queued, HeldByScheduler, SinglesOnce, OnceQueued
    <2>3. WaitingInv'
      BY <1>1, <2>2, WaitingStays, SinglesAreJobs
    <2>4. ASSUME NEW c \in Cmd, InHand(c)' PROVE InHand(c) /\ handler[c] = "none"
      <3>1. /\ agent'[c[2]] # "dead" /\ run'[c] \in {"queued"} \cup Unreported
            /\ c[2] \in Nodes
        BY <2>1, <2>4 DEF InHand, Cmd
      <3>2. run[c] \in Unreported /\ agent[c[2]] # "dead"
        BY <2>1, <3>1 DEF ManagerGone
      <3> QED BY <3>2 DEF InHand, Settled, OnceInv, CallIsReport
    <2> QED BY <1>1, <2>1, <2>3, <2>4, RowsUntouched
  <1>3. CASE ManagerRestarts
    <2>1. /\ UNCHANGED <<agent, run, submitting, schedPc, schedJob, schedNodes, monJob, monJobs,
                         monSeen, handler, seen>>
          /\ ~up /\ _recover_pending_jobs
      BY <1>3 DEF ManagerRestarts, agentVars, callVars, schedVars, monVars, reportVars
    <2>2. /\ schedJob = <<>> /\ submitting = {} /\ monJob = <<>>
          /\ \A c \in Cmd : handler[c] = "none"
      BY <1>1, <2>1, SchedSideNow, MonSideNow DEF Settled, DownInv, SchedulerInv, MonitorInv
    <2>3. SinglesOnce' /\ \A j \in Jobs : Queued(j)' => jobStatus[j] = "PENDING"
      <3>1. /\ SinglesOnce' /\ queue' \in Seq(Entry)
            /\ \A m \in 1..Len(queue') : queue'[m].job \in get_jobs("PENDING")
        BY <1>1, <2>1, RecoverOrders, RecoverFinds, SchedSideNow, SinglesAreJobs
           DEF StoreSide, RegistryTypeOK, SinglesOnce
      <3>2. DOMAIN queue' = 1..Len(queue')
        BY <3>1, LenProperties
      <3> QED BY <3>1, <3>2 DEF Queued, get_jobs
    <2>4. \A j \in Jobs, p \in Place : Waits(j, p)' => p = "queue" /\ Queued(j)'
      BY <2>1, <2>2 DEF Waits, HeldByScheduler
    <2>5. WaitingInv'
      BY <1>1, <2>3, <2>4, SinglesAreJobs DEF WaitingInv, SinglesOnce
    <2>6. \A c \in Cmd : InHand(c)' => InHand(c)
      BY <1>1, <2>1 DEF InHand
    <2> QED BY <1>1, <2>1, <2>5, <2>6, RowsUntouched
  <1> QED BY <1>2, <1>3

\* Every step keeps JobInv.
LEMMA NextJobInv ==
  ASSUME Settled, [Next]_vars
  PROVE  JobInv'
  <1>1. ASSUME NEW n \in Nodes, NodeStep(n) PROVE JobInv'
    BY <1>1, JobNodes
  <1>2. ASSUME NEW c \in Cmd, CommandStep(c) PROVE JobInv'
    <2>1. run[c] # "none" \/ handler[c] # "none"
      BY <1>2 DEF CommandStep, ReportJobStatus, ReportFailed, ReportCompleted, ReportLost, ExitIsRead,
             HandlerStep, RetryIdlesNode, RetryWrites, RetryQueues, PermanentlyFails,
             PermanentlyFailedIdlesNode, CompletedIdlesNode, HandlerRaises, ReportStatus,
             GeneratorDropped, ReportFails, WaitReturns
    <2>2. attempts[c[1]] \in Jobs
      BY <2>1, JobOfCommand DEF Settled
    <2> QED BY <1>2, <2>2, JobReports, OtherReports
  <1>3. ASSUME NEW j \in Jobs, SubmitJob(j) \/ EnqueueJob(j) PROVE JobInv'
    BY <1>3, JobSubmits
  <1>4. CASE SchedulerStep \/ SchedulerDies
    BY <1>4, JobSchedules
  <1>5. CASE MonitorStep \/ MonitorDies \/ ProbeMarks
    BY <1>5, JobMonitors
  <1>6. CASE ManagerCrashes \/ ManagerRestarts
    BY <1>6, JobRestarts
  <1>7. CASE UNCHANGED vars
    <2>1. UNCHANGED <<jobStatus, retries, assigned, attempts, queue, submitting, schedPc,
                      schedJob, schedNodes, monJob, monJobs, monSeen, handler, seen, agent,
                      run>>
      BY <1>7 DEF vars, jobTable, agentVars, callVars, schedVars, monVars, reportVars
    <2>2. SinglesOnce' /\ \A j \in Jobs, p \in Place : Waits(j, p)' => Waits(j, p)
      BY <2>1 DEF Waits, Queued, HeldByScheduler, Settled, JobInv, WaitingInv, SinglesOnce,
                  OnceQueued
    <2>3. \A c \in Cmd : InHand(c)' => InHand(c)
      BY <2>1 DEF InHand
    <2>4. WaitingInv'
      BY <2>1, <2>2, WaitingStays, SinglesAreJobs
    <2> QED BY <2>1, <2>3, <2>4, RowsUntouched
  <1> QED BY <1>1, <1>2, <1>3, <1>4, <1>5, <1>6, <1>7 DEF Next

-----------------------------------------------------------------------------
(* What follows from it. *)

LEMMA InitSettled ==
  ASSUME Init
  PROVE  CallersInv /\ RowsInv /\ SendingInv /\ RetryInv /\ DownInv /\ JobInv
  <1>1. CallersInv /\ RowsInv /\ SendingInv /\ DownInv
    BY InitRows DEF Init, AgentInit, CallersInv, SendingInv, DownInv
  <1>2. RetryInv
    BY RegistryAssumption DEF Init, _init_db, RetryInv, RetriesBounded
  <1>3. /\ QuietInv /\ OneSelected /\ InHandInv /\ MonitorJobsInv /\ RowInv
    BY DEF Init, AgentInit, _init_db, QuietInv, OneSelected, InHandInv, InHand,
           MonitorJobsInv, RowInv, Alone, OneNodeJobs
  <1>4. WaitingInv
    BY SinglesAreJobs DEF Init, _init_db, WaitingInv, Waits, Queued, OnceQueued, HeldByScheduler
  <1>5. CountInv
    <2> SUFFICES ASSUME NEW j \in OneNodeJobs PROVE Counted(j)
      BY DEF CountInv
    <2>1. {a \in DOMAIN attempts : attempts[a] = j} = {}
      BY DEF Init
    <2>2. Dispatches(j) = 0
      BY <2>1, FS_EmptySet DEF Dispatches
    <2> QED BY <2>2, SinglesAreJobs DEF Counted, Init, _init_db
  <1> QED BY <1>1, <1>2, <1>3, <1>4, <1>5 DEF JobInv

\* In a cluster whose live nodes do not fall behind, every job of one node is in one
\* place at a time, its last launch agrees with its row, and no more dispatches were
\* made than its row has counted, whatever larger jobs run beside it.
THEOREM JobsInOnePlace == MayLapse = {} => (Spec => []Settled)
  <1> SUFFICES ASSUME MayLapse = {} PROVE Spec => []Settled
    OBVIOUS
  <1> DEFINE I == CallersInv /\ RowsInv /\ SendingInv /\ RetryInv /\ DownInv /\ JobInv
  <1>1. Init => I
    BY InitSettled
  <1>2. TypeInv /\ OnceInv /\ I /\ [Next]_vars => I'
    BY NextCallers, NextRows, NextSending, NextRetryInv, NextDown, NextJobInv DEF Settled
  <1>3. TypeInv /\ OnceInv /\ I => Settled
    BY DEF Settled
  <1> QED BY <1>1, <1>2, <1>3, TypeInvariant, CommandsOnce, PTL DEF Spec

\* The attempts of a job are numbered by finitely many dispatches.
LEMMA DispatchCount ==
  ASSUME TypeInv, NEW j \in Jobs
  PROVE  Dispatches(j) \in Nat
  <1>1. DOMAIN attempts = 1..Len(attempts) /\ Len(attempts) \in Nat
    BY SchedSideNow, LenProperties DEF SchedSide
  <1>2. IsFiniteSet(1..Len(attempts))
    BY <1>1, FS_Interval
  <1>3. IsFiniteSet({a \in DOMAIN attempts : attempts[a] = j})
    BY <1>1, <1>2, FS_Subset
  <1> QED BY <1>3, FS_CardinalityType DEF Dispatches

\* AttemptsPaidFor: whoever retries a job, the scheduler sends it out once and once
\* more for each retry its row counts.
THEOREM DispatchesArePaidFor == MayLapse = {} => (Spec => []AttemptsPaidFor)
  <1> SUFFICES ASSUME MayLapse = {} PROVE Spec => []AttemptsPaidFor
    OBVIOUS
  <1>1. Settled => AttemptsPaidFor
    <2> SUFFICES ASSUME Settled, NEW j \in OneNodeJobs PROVE Dispatches(j) <= retries[j] + 1
      BY DEF AttemptsPaidFor, Dispatches
    <2>1. Dispatches(j) \in Nat /\ retries[j] \in Nat /\ Counted(j)
      BY DispatchCount, SchedSideNow, SinglesAreJobs
         DEF Settled, StoreSide, RegistryTypeOK, JobInv, CountInv
    <2> QED BY <2>1 DEF Counted
  <1> QED BY <1>1, JobsInOnePlace, PTL

\* What a token is: an entry of the queue, a place other than the queue where the
\* job waits, or a launch in hand.
LEMMA TokenPlaces ==
  ASSUME Settled, NEW j \in OneNodeJobs, NEW t \in Tokens(j)
  PROVE  \/ \E i \in 1..Len(queue) : t = <<"queue", i>> /\ queue[i].job = j /\ Waits(j, "queue")
         \/ t = <<"scheduler", 0>> /\ Waits(j, "scheduler")
         \/ t = <<"submit", j>> /\ Waits(j, "submit")
         \/ t = <<"monitor", 0>> /\ Waits(j, "monitor")
         \/ \E c \in Cmd : t = <<"report", c>> /\ InHand(c) /\ attempts[c[1]] = j
  <1>1. DOMAIN queue = 1..Len(queue)
    BY SchedSideNow, LenProperties DEF Settled, StoreSide
  <1>2. CASE t \in {"queue"} \X {i \in DOMAIN queue : queue[i].job = j}
    BY <1>1, <1>2 DEF Waits, Queued
  <1>3. CASE t \in {"scheduler"} \X {x \in {0} : HeldByScheduler(j)}
    BY <1>3 DEF Waits
  <1>4. CASE t \in {"submit"} \X (submitting \cap {j})
    BY <1>4 DEF Waits
  <1>5. CASE t \in {"monitor"} \X {x \in {0} : monJob = <<j>>}
    BY <1>5 DEF Waits
  <1>6. ASSUME NEW c \in Cmd, t = <<"report", c>>, attempts[c[1]] = j,
               \/ run[c] \in {"queued"} \cup Unreported /\ agent[c[2]] # "dead"
               \/ handler[c] # "none"
        PROVE  InHand(c)
    BY <1>6 DEF InHand
  <1> QED BY <1>2, <1>3, <1>4, <1>5, <1>6 DEF Tokens

LEMMA TokensEqual ==
  ASSUME Settled, NEW j \in OneNodeJobs, NEW t \in Tokens(j), NEW u \in Tokens(j)
  PROVE  t = u
  <1>1. \A p, q \in Place : Waits(j, p) /\ Waits(j, q) => p = q
    BY DEF Settled, JobInv, WaitingInv
  <1>2. \A i, k \in 1..Len(queue) : queue[i].job = j /\ queue[k].job = j => i = k
    BY DEF Settled, JobInv, WaitingInv, OnceQueued
  <1>3. \A c, d \in Cmd : InHand(c) /\ InHand(d) /\ attempts[c[1]] = j /\ attempts[d[1]] = j
                             => c = d
    BY OneInHand DEF Settled, JobInv
  <1>4. \A c \in Cmd, p \in Place : InHand(c) /\ attempts[c[1]] = j /\ Waits(j, p)
                                        => p = "report"
    BY InHandExcludes
  <1> DEFINE Place0 == {"queue", "scheduler", "submit", "monitor"}
             InQueue(x) == \E i \in 1..Len(queue) : x = <<"queue", i>> /\ queue[i].job = j
             At(x, p) == Waits(j, p) /\ \/ p = "queue" /\ InQueue(x)
                                        \/ p = "submit" /\ x = <<p, j>>
                                        \/ p \in {"scheduler", "monitor"} /\ x = <<p, 0>>
             Launched(x) == \E c \in Cmd : x = <<"report", c>> /\ InHand(c) /\ attempts[c[1]] = j
  <1>5. ASSUME NEW x \in Tokens(j) PROVE Launched(x) \/ \E p \in Place0 : At(x, p)
    BY <1>5, TokenPlaces
  <1>6. CASE Launched(t) /\ Launched(u)
    BY <1>3, <1>6
  <1>7. ASSUME NEW p \in Place0, NEW q \in Place0, At(t, p), At(u, q) PROVE t = u
    <2>1. p = q
      BY <1>1, <1>7 DEF Place
    <2>2. CASE p = "queue"
      BY <1>2, <1>7, <2>1, <2>2
    <2> QED BY <1>7, <2>1, <2>2
  <1>8. ASSUME NEW x, NEW y, NEW p \in Place0, Launched(x), At(y, p) PROVE FALSE
    <2>1. p \in Place /\ p # "report" /\ Waits(j, p)
      BY <1>8 DEF Place
    <2> QED BY <1>4, <1>8, <2>1
  <1> HIDE DEF Launched, At, Place0
  <1> QED BY <1>5, <1>6, <1>7, <1>8

\* OneTokenPerJob: a job is never in two queue entries, nor queued while a thread
\* holds it, nor queued or held while a launch of it may still be reported.
THEOREM JobsHaveOneToken == MayLapse = {} => (Spec => []OneTokenPerJob)
  <1> SUFFICES ASSUME MayLapse = {} PROVE Spec => []OneTokenPerJob
    OBVIOUS
  <1>1. Settled => OneTokenPerJob
    <2> SUFFICES ASSUME Settled, NEW j \in OneNodeJobs PROVE Cardinality(Tokens(j)) <= 1
      BY DEF OneTokenPerJob
    <2>1. \A t, u \in Tokens(j) : t = u
      BY TokensEqual
    <2>2. Tokens(j) = {} \/ \E t : Tokens(j) = {t}
      BY <2>1
    <2>3. Cardinality(Tokens(j)) = 0 \/ Cardinality(Tokens(j)) = 1
      BY <2>2, FS_EmptySet, FS_Singleton, Zenon
    <2> QED BY <2>3
  <1> QED BY <1>1, JobsInOnePlace, PTL

-----------------------------------------------------------------------------
(* JobsLiveOnce: the refinement of JobLifecycle. *)

\* The row of a launch in hand is RUNNING while its report has not changed it.
LEMMA ReportedRow ==
  ASSUME Settled, NEW c \in Cmd, NEW j \in OneNodeJobs, j = attempts[c[1]],
         \/ run[c] \in Unreported /\ handler[c] = "none"
         \/ handler[c] \in {"retryDb", "permFailed"}
  PROVE  /\ jobStatus[j] = "RUNNING"
         /\ handler[c] \in {"retryDb", "permFailed"} => seen[c] = retries[j]
         /\ handler[c] = "retryDb" => seen[c] < MaxRetries[j]
         /\ handler[c] = "permFailed" => retries[j] = MaxRetries[j]
  <1>1. c[2] \in Nodes /\ agent[c[2]] \in AgentPhase
    BY NodeSideNow DEF Cmd, Settled, NodeSide, AgentTypeOK
  <1>2. run[c] \in Unreported => agent[c[2]] # "dead"
    BY <1>1 DEF Settled, CallersInv
  <1>3. InHand(c)
    BY <1>2 DEF InHand
  <1>4. Current(c) /\ RetryInv
    BY <1>3 DEF Settled, JobInv, InHandInv
  <1> QED BY <1>4 DEF Current, RowDuring, RetryInv

\* The rows of the one-node jobs, as JobLifecycle sees them.
states == [j \in OneNodeJobs |-> jobStatus[j]]
counts == [j \in OneNodeJobs |-> retries[j]]

LEMMA StatesMove ==
  ASSUME jobStatus \in [Jobs -> JobStatus], NEW j \in Jobs, NEW s,
         jobStatus' = [jobStatus EXCEPT ![j] = s]
  PROVE  /\ j \in OneNodeJobs => states' = [states EXCEPT ![j] = s]
         /\ j \notin OneNodeJobs => UNCHANGED states
  BY SinglesAreJobs DEF states

LEMMA CountsMove ==
  ASSUME retries \in [Jobs -> Nat], NEW j \in Jobs, NEW n \in Nat,
         retries' = [retries EXCEPT ![j] = n]
  PROVE  /\ j \in OneNodeJobs => counts' = [counts EXCEPT ![j] = n]
         /\ j \notin OneNodeJobs => UNCHANGED counts
  BY SinglesAreJobs DEF counts

\* Every step of the cluster is a step in the life of one job, or of none.
LEMMA LifecycleStep ==
  ASSUME Settled, [Next]_vars
  PROVE  [Lifecycle!Next]_<<states, counts>>
  <1> DEFINE stay == UNCHANGED <<states, counts>>
             Lives(j) == \/ Lifecycle!Submit(j) \/ Lifecycle!Start(j) \/ Lifecycle!Complete(j)
                         \/ Lifecycle!Retry(j) \/ Lifecycle!Fail(j)
             moves == stay \/ \E j \in OneNodeJobs : Lives(j)
  <1>0. /\ jobStatus \in [Jobs -> JobStatus] /\ retries \in [Jobs -> Nat]
        /\ MaxRetries \in [Jobs -> Nat] /\ OneNodeJobs \subseteq Jobs
        /\ \A j \in OneNodeJobs : states[j] = jobStatus[j] /\ counts[j] = retries[j]
    BY SchedSideNow, RegistryAssumption, SinglesAreJobs
       DEF Settled, StoreSide, RegistryTypeOK, states, counts
  <1>s. ASSUME UNCHANGED jobTable \/ UNCHANGED <<jobStatus, retries>> PROVE stay
    BY <1>s DEF jobTable, states, counts
  <1>1. ASSUME NEW n \in Nodes, NodeStep(n) PROVE stay
    BY <1>1, <1>s, NodeSideSteps DEF promised
  <1>2. ASSUME NEW j \in Jobs, SubmitJob(j) PROVE moves
    <2>1. /\ jobStatus[j] = "ABSENT" /\ jobStatus' = [jobStatus EXCEPT ![j] = "PENDING"]
          /\ retries' = [retries EXCEPT ![j] = 0]
      BY <1>2 DEF SubmitJob, insert_job
    <2>2. CASE j \notin OneNodeJobs
      BY <1>0, <2>1, <2>2, StatesMove, CountsMove
    <2>3. CASE j \in OneNodeJobs
      <3>1. retries[j] = 0
        BY <2>1, <2>3 DEF Settled, JobInv, RowInv, Alone
      <3>2. retries' = retries
        BY <1>0, <2>1, <3>1
      <3>3. UNCHANGED counts
        BY <3>2 DEF counts
      <3>4. states[j] = "ABSENT" /\ states' = [states EXCEPT ![j] = "PENDING"]
        BY <1>0, <2>1, <2>3, StatesMove
      <3>5. Lifecycle!Submit(j)
        BY <3>3, <3>4 DEF Lifecycle!Submit, Lifecycle!Move, states, counts
      <3> QED BY <2>3, <3>5
    <2> QED BY <2>2, <2>3
  <1>3. ASSUME NEW j \in Jobs, EnqueueJob(j) PROVE stay
    BY <1>3, <1>s DEF EnqueueJob
  <1>4. ASSUME dispatch_allocated_job PROVE moves
    <2>1. PICK j \in Jobs :
            /\ schedJob # <<>> /\ j = schedJob[1].job /\ schedPc = "running"
            /\ UNCHANGED retries /\ jobStatus' = [jobStatus EXCEPT ![j] = "RUNNING"]
      BY <1>4, DispatchRecords, SchedulerFrame DEF Settled, SchedulerStep
    <2>2. UNCHANGED counts
      BY <2>1 DEF counts
    <2>3. CASE j \notin OneNodeJobs
      BY <1>0, <2>1, <2>2, <2>3, StatesMove
    <2>4. CASE j \in OneNodeJobs
      <3>1. Waits(j, "scheduler") /\ "scheduler" \in Place
        BY <2>1 DEF Waits, HeldByScheduler, Place
      <3>2. jobStatus[j] = "PENDING"
        BY <2>4, <3>1, WaitingExcludes
      <3>3. states[j] = "PENDING" /\ states' = [states EXCEPT ![j] = "RUNNING"]
        BY <1>0, <2>1, <2>4, <3>2, StatesMove
      <3>4. Lifecycle!Start(j)
        BY <2>2, <3>3 DEF Lifecycle!Start, Lifecycle!Move, states, counts
      <3> QED BY <2>4, <3>4
    <2> QED BY <2>3, <2>4
  <1>5. ASSUME SchedulerStep \/ SchedulerDies, ~dispatch_allocated_job PROVE stay
    <2>1. UNCHANGED jobTable
      BY <1>5 DEF SchedulerStep, PopJob, SchedulerMarks, SelectNodes, RequeueJob, ReserveNode,
           send_command, SchedulerDies
    <2> QED BY <1>s, <2>1
  <1>6. ASSUME NEW j \in Jobs, NEW n \in Nat, retries' = [retries EXCEPT ![j] = n],
               jobStatus' = [jobStatus EXCEPT ![j] = "PENDING"],
               j \in OneNodeJobs =>
                  jobStatus[j] = "RUNNING" /\ retries[j] < MaxRetries[j] /\ n = retries[j] + 1
        PROVE  moves
    <2>1. CASE j \notin OneNodeJobs
      BY <1>0, <1>6, <2>1, StatesMove, CountsMove
    <2>2. CASE j \in OneNodeJobs
      <3>1. states[j] = "RUNNING" /\ states' = [states EXCEPT ![j] = "PENDING"]
        BY <1>0, <1>6, <2>2, StatesMove
      <3>2. counts[j] < MaxRetries[j] /\ counts' = [counts EXCEPT ![j] = counts[j] + 1]
        BY <1>0, <1>6, <2>2, CountsMove
      <3>3. Lifecycle!Retry(j)
        BY <3>1, <3>2 DEF Lifecycle!Retry, Lifecycle!Move, states, counts
      <3> QED BY <2>2, <3>3
    <2> QED BY <2>1, <2>2
  <1>7. ASSUME NEW j \in Jobs, NEW s \in {"COMPLETED", "FAILED"}, UNCHANGED retries,
               jobStatus' = [jobStatus EXCEPT ![j] = s],
               j \in OneNodeJobs =>
                  jobStatus[j] = "RUNNING" /\ (s = "FAILED" => retries[j] = MaxRetries[j])
        PROVE  moves
    <2>1. UNCHANGED counts
      BY <1>7 DEF counts
    <2>2. CASE j \notin OneNodeJobs
      BY <1>0, <1>7, <2>1, <2>2, StatesMove
    <2>3. CASE j \in OneNodeJobs
      <3>1. /\ states[j] = "RUNNING" /\ states' = [states EXCEPT ![j] = s]
            /\ s = "FAILED" => counts[j] = MaxRetries[j]
        BY <1>0, <1>7, <2>3, StatesMove
      <3>2. Lifecycle!Complete(j) \/ Lifecycle!Fail(j)
        BY <2>1, <3>1 DEF Lifecycle!Complete, Lifecycle!Fail, Lifecycle!Move, states, counts
      <3> QED BY <2>3, <3>2
    <2> QED BY <2>2, <2>3
  <1>8. ASSUME NEW c \in Cmd, CommandStep(c) PROVE moves
    <2>0. PICK j \in Jobs : j = attempts[c[1]] /\ seen[c] \in Nat
      <3>1. run[c] # "none" \/ handler[c] # "none"
        BY <1>8 DEF CommandStep, ReportJobStatus, ReportFailed, ReportCompleted, ReportLost, ExitIsRead,
             HandlerStep, RetryIdlesNode, RetryWrites, RetryQueues, PermanentlyFails,
             PermanentlyFailedIdlesNode, CompletedIdlesNode, HandlerRaises, ReportStatus,
             GeneratorDropped, ReportFails, WaitReturns
      <3> QED BY <3>1, JobOfCommand, ReportSideNow DEF Settled, ReportSide
    <2>1. CASE ReportCompleted(c)
      <3>1. /\ run[c] \in Unreported /\ UNCHANGED retries
            /\ jobStatus' = [jobStatus EXCEPT ![j] = "COMPLETED"]
        BY <2>0, <2>1 DEF ReportCompleted, ReportStatus, update_job_status
      <3>2. handler[c] = "none"
        BY <3>1 DEF Settled, OnceInv, CallIsReport
      <3>3. j \in OneNodeJobs => jobStatus[j] = "RUNNING"
        BY <2>0, <3>1, <3>2, ReportedRow
      <3> QED BY <1>7, <2>0, <3>1, <3>3
    <2>2. CASE RetryWrites(c)
      <3>1. /\ handler[c] = "retryDb" /\ jobStatus' = [jobStatus EXCEPT ![j] = "PENDING"]
            /\ retries' = [retries EXCEPT ![j] = seen[c] + 1]
        BY <2>0, <2>2 DEF RetryWrites, update_job_retries
      <3>2. j \in OneNodeJobs =>
               jobStatus[j] = "RUNNING" /\ seen[c] = retries[j] /\ seen[c] < MaxRetries[j]
        BY <2>0, <3>1, ReportedRow
      <3>3. seen[c] + 1 \in Nat
        BY <2>0
      <3> QED BY <1>6, <2>0, <3>1, <3>2, <3>3
    <2>3. CASE PermanentlyFails(c)
      <3>1. /\ handler[c] = "permFailed" /\ UNCHANGED retries
            /\ jobStatus' = [jobStatus EXCEPT ![j] = "FAILED"]
        BY <2>0, <2>3 DEF PermanentlyFails, update_job_status
      <3>2. j \in OneNodeJobs => jobStatus[j] = "RUNNING" /\ retries[j] = MaxRetries[j]
        BY <2>0, <3>1, ReportedRow
      <3> QED BY <1>7, <2>0, <3>1, <3>2
    <2>4. CASE ~ReportCompleted(c) /\ ~RetryWrites(c) /\ ~PermanentlyFails(c)
      <3>1. UNCHANGED jobTable
        BY <1>8, <2>4 DEF CommandStep, ReportJobStatus, ReportFailed, ReportLost, ExitIsRead, HandlerStep,
             RetryIdlesNode, RetryQueues, PermanentlyFailedIdlesNode, CompletedIdlesNode,
             HandlerRaises
      <3> QED BY <1>s, <3>1
    <2> QED BY <2>1, <2>2, <2>3, <2>4
  <1>9. ASSUME NEW j \in Jobs, MonitorRetries(j) \/ MonitorFails(j) PROVE moves
    <2>1. /\ j \in monJobs /\ monSeen[j] \in Nat
          /\ \/ /\ RetriesLeft(j, monSeen[j])
                /\ jobStatus' = [jobStatus EXCEPT ![j] = "PENDING"]
                /\ retries' = [retries EXCEPT ![j] = monSeen[j] + 1]
             \/ /\ ~RetriesLeft(j, monSeen[j]) /\ UNCHANGED retries
                /\ jobStatus' = [jobStatus EXCEPT ![j] = "FAILED"]
      BY <1>9, MonSideNow DEF MonitorRetries, MonitorFails, update_job_retries,
                              update_job_status, Settled, MonSide
    <2>2. j \in OneNodeJobs => /\ jobStatus[j] = "RUNNING" /\ monSeen[j] = retries[j]
                               /\ retries[j] <= MaxRetries[j]
      BY <2>1 DEF Settled, JobInv, MonitorJobsInv, RetryInv, RetriesBounded
    <2>3. CASE RetriesLeft(j, monSeen[j])
      BY <1>6, <2>1, <2>2, <2>3 DEF RetriesLeft
    <2>4. CASE ~RetriesLeft(j, monSeen[j])
      <3>1. j \in OneNodeJobs => retries[j] = MaxRetries[j]
        BY <1>0, <2>2, <2>4 DEF RetriesLeft
      <3> QED BY <1>7, <2>1, <2>2, <2>4, <3>1
    <2> QED BY <2>3, <2>4
  <1>10. ASSUME MonitorScans \/ MonitorReadsJobs \/ MonitorQueues \/ MonitorDone
               \/ MonitorMarks \/ MonitorDies \/ ProbeMarks
        PROVE  stay
    BY <1>10, <1>s DEF MonitorScans, MonitorReadsJobs, MonitorQueues, MonitorDone,
           MonitorMarks, MonitorDies, ProbeMarks
  <1>11. ASSUME ManagerCrashes \/ ManagerRestarts \/ UNCHANGED vars PROVE stay
    BY <1>11, <1>s DEF ManagerCrashes, ManagerRestarts, vars, jobTable
  <1>12. moves
    BY <1>1, <1>2, <1>3, <1>4, <1>5, <1>8, <1>9, <1>10, <1>11 DEF Next, MonitorStep
  <1>13. moves => stay \/ Lifecycle!Next
    BY DEF Lifecycle!Next
  <1> QED BY <1>12, <1>13

\* JobsLiveOnce: the jobs table moves as JobLifecycle promises the submitter, over
\* crashes, broken streams, failing transactions and restarts.
THEOREM ManagerKeepsLifecycle == MayLapse = {} => (Spec => JobsLiveOnce)
  <1> SUFFICES ASSUME MayLapse = {} PROVE Spec => JobsLiveOnce
    OBVIOUS
  <1>1. Init => Lifecycle!Init
    BY SinglesAreJobs DEF Init, _init_db, Lifecycle!Init
  <1>2. Settled /\ [Next]_vars => [Lifecycle!Next]_<<states, counts>>
    BY LifecycleStep
  <1> QED BY <1>1, <1>2, JobsInOnePlace, PTL
          DEF Spec, JobsLiveOnce, Lifecycle!Spec, states, counts
=============================================================================
