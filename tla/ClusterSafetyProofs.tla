------------------------ MODULE ClusterSafetyProofs -------------------------
(***************************************************************************)
(* Promises of the Cluster Manager, for every number of nodes, jobs,       *)
(* retries and faults: a command is in one place, and no PENDING job is    *)
(* forgotten.                                                              *)
(***************************************************************************)
EXTENDS ClusterTypeProofs

USE DEF Unreported

(* What a step does to the variables the promises are about. *)
promised == <<jobStatus, retries, queue, up, submitting, schedPc, schedJob, schedNodes,
              schedIdx, monPc, monJob, handler, seen, attempts>>

\* Registration, streams, heartbeats, deliveries, process ends, crashes and
\* lapses of a node touch no job, no queue entry and no thread of the manager.
LEMMA NodeSideSteps ==
  ASSUME NEW n \in Nodes, NodeStep(n)
  PROVE  UNCHANGED promised
  <1>1. UNCHANGED offNode
    BY DEF NodeStep, RegisterNode, CreateQueue, ListenForCommands, StreamEnds,
           DeliverCommand, GhostTakes, GhostEnds, AgentHeartbeat, SendHeartbeat,
           HeartbeatFails, Lapse, JobProcessExits, ConnectionBreaks, NodeCrashes
  <1> QED BY <1>1 DEF offNode, jobTable, schedVars, monVars, reportVars, promised

\* Nor do the marking of lapsed nodes, the monitor's steps between jobs, and the
\* end of its thread.
LEMMA MarkingSteps ==
  ASSUME \/ MonitorScans \/ MonitorReadsJobs \/ MonitorDone \/ MonitorMarks
         \/ MonitorDies \/ ProbeMarks
  PROVE  /\ UNCHANGED <<jobStatus, retries, queue, up, submitting, schedPc, schedJob,
                        schedNodes, schedIdx, monJob, handler, seen, attempts>>
         /\ UNCHANGED <<run, command_queues>>
  <1>1. UNCHANGED offMonitor /\ UNCHANGED <<jobTable, queue, monJob>>
    BY DEF MonitorScans, MonitorReadsJobs, MonitorDone, MonitorMarks, MonitorDies,
           ProbeMarks, monVars
  <1> QED BY <1>1 DEF offMonitor, jobTable, callVars, schedVars, reportVars, agentVars,
                      commandVars

-----------------------------------------------------------------------------
(* The retries column. *)

\* RetryInv while no count is read or written, also when a job is dispatched.
LEMMA RetryKeeps ==
  ASSUME TypeInv, RetryInv, UNCHANGED <<retries, handler, seen>>,
         \A i \in 1..Len(attempts) : attempts'[i] = attempts[i]
  PROVE  RetryInv'
  BY DEF RetryInv, RetriesBounded, TypeInv, CommandInv

\* A call on its way keeps its count; one that is done needs none.
LEMMA RetryHandlers ==
  ASSUME TypeInv, RetryInv, RetriesBounded', NEW c \in Cmd, UNCHANGED attempts,
         \A d \in Cmd : d # c => handler'[d] = handler[d] /\ seen'[d] = seen[d],
         handler'[c] \in {"retryIdle", "retryDb"} =>
            seen'[c] < MaxRetries[attempts[c[1]]]
  PROVE  RetryInv'
  BY DEF RetryInv

\* ReportJobStatus (cluster_manager.py:105-144): the guard of line 110 is on
\* the count that line 121 writes, plus one.
LEMMA RetryReports ==
  ASSUME TypeInv, RetryInv, NEW c \in Cmd, CommandStep(c)
  PROVE  RetryInv'
  <1> USE ReportSideNow
  <1> DEFINE j == attempts[c[1]]
  <1>1. UNCHANGED attempts
    BY DEF CommandStep, ReportJobStatus, ReportFailed, ReportCompleted, ReportLost, ExitIsRead,
           HandlerStep, RetryIdlesNode, RetryWrites, RetryQueues, PermanentlyFails,
           PermanentlyFailedIdlesNode, CompletedIdlesNode, HandlerRaises, offReport
  <1>2. CASE ReportFailed(c)
    <2>1. UNCHANGED retries
      BY <1>2 DEF ReportFailed, jobTable
    <2>2. /\ seen' = [seen EXCEPT ![c] = retries[j]]
          /\ handler' = [handler EXCEPT ![c] =
                            IF retries[j] < MaxRetries[j] THEN "retryIdle" ELSE "permFailed"]
      BY <1>2 DEF ReportFailed, RetriesLeft
    <2> QED BY <1>1, <2>1, <2>2, RetryHandlers DEF ReportSide, RetryInv, RetriesBounded
  <1>3. CASE RetryWrites(c)
    <2>1. handler[c] = "retryDb" /\ j \in Jobs
      BY <1>3, JobOfCommand DEF RetryWrites
    <2>2. retries' = [retries EXCEPT ![j] = seen[c] + 1]
      BY <1>3 DEF RetryWrites, update_job_retries
    <2>3. seen[c] < MaxRetries[j]
      BY <2>1 DEF RetryInv
    <2>4. RetriesBounded'
      <3>1. seen[c] + 1 <= MaxRetries[j]
        BY <2>1, <2>3, RegistryAssumption DEF ReportSide
      <3> QED BY <2>1, <2>2, <3>1 DEF RetryInv, RetriesBounded, StoreSide, RegistryTypeOK
    <2> QED BY <1>1, <1>3, <2>4, RetryHandlers DEF RetryWrites, ReportSide
  <1>4. CASE RetryIdlesNode(c)
    <2>1. UNCHANGED <<retries, seen>>
      BY <1>4 DEF RetryIdlesNode, jobTable
    <2>2. seen[c] < MaxRetries[j]
      BY <1>4 DEF RetryInv, RetryIdlesNode
    <2> QED BY <1>1, <1>4, <2>1, <2>2, RetryHandlers
            DEF RetryIdlesNode, ReportSide, RetryInv, RetriesBounded
  <1>5. CASE \/ RetryQueues(c) \/ PermanentlyFails(c) \/ PermanentlyFailedIdlesNode(c)
             \/ ReportCompleted(c) \/ CompletedIdlesNode(c) \/ HandlerRaises(c)
    <2>1. /\ UNCHANGED retries
          /\ \E p \in {"none", "permIdle", "compIdle"} : handler' = [handler EXCEPT ![c] = p]
          /\ UNCHANGED seen \/ seen' = [seen EXCEPT ![c] = 0]
      BY <1>5 DEF RetryQueues, PermanentlyFails, PermanentlyFailedIdlesNode,
                  ReportCompleted, CompletedIdlesNode, HandlerRaises, update_job_status,
                  jobTable
    <2> QED BY <1>1, <2>1, RetryHandlers DEF ReportSide, RetryInv, RetriesBounded
  <1>6. CASE ReportLost(c) \/ ExitIsRead(c)
    BY <1>1, <1>6, RetryKeeps DEF ReportLost, ExitIsRead, jobTable, reportVars
  <1> QED BY <1>2, <1>3, <1>4, <1>5, <1>6 DEF CommandStep, ReportJobStatus, HandlerStep

\* Every step keeps RetryInv.
LEMMA NextRetryInv ==
  ASSUME TypeInv, RetryInv, [Next]_vars
  PROVE  RetryInv'
  <1>1. ASSUME NEW n \in Nodes, NodeStep(n) PROVE RetryInv'
    BY <1>1, NodeSideSteps, RetryKeeps DEF promised
  <1>2. ASSUME NEW c \in Cmd, CommandStep(c) PROVE RetryInv'
    BY <1>2, RetryReports
  <1>3. ASSUME NEW j \in Jobs, SubmitJob(j) PROVE RetryInv'
    <2>1. retries' = [retries EXCEPT ![j] = 0] /\ UNCHANGED <<handler, seen, attempts>>
      BY <1>3 DEF SubmitJob, insert_job, reportVars
    <2> QED BY <2>1, RegistryAssumption, SchedSideNow
            DEF RetryInv, RetriesBounded, StoreSide, RegistryTypeOK
  <1>4. ASSUME NEW j \in Jobs, EnqueueJob(j) PROVE RetryInv'
    BY <1>4, RetryKeeps DEF EnqueueJob, jobTable, reportVars
  <1>5. CASE SchedulerStep \/ SchedulerDies
    <2>1. UNCHANGED <<retries, handler, seen>>
      BY <1>5 DEF SchedulerStep, PopJob, SchedulerMarks, SelectNodes, RequeueJob,
                  ReserveNode, dispatch_allocated_job, send_command, SchedulerDies,
                  offSched, jobTable, reportVars, update_job_assigned
    <2>2. UNCHANGED attempts \/ attempts' = Append(attempts, schedJob[1].job)
      BY <1>5 DEF SchedulerStep, PopJob, SchedulerMarks, SelectNodes, RequeueJob,
                  ReserveNode, dispatch_allocated_job, send_command, SchedulerDies
    <2>3. \A i \in 1..Len(attempts) : attempts'[i] = attempts[i]
      BY <2>2, SchedSideNow DEF SchedSide
    <2> QED BY <2>1, <2>3, RetryKeeps
  <1>6. ASSUME NEW j \in Jobs, MonitorRetries(j) PROVE RetryInv'
    <2>1. retries' = [retries EXCEPT ![j] = monSeen[j] + 1]
          /\ UNCHANGED <<handler, seen, attempts>>
      BY <1>6 DEF MonitorRetries, update_job_retries, offMonitor, reportVars
    <2>2. monSeen[j] + 1 <= MaxRetries[j]
      BY <1>6, MonSideNow, RegistryAssumption DEF MonitorRetries, RetriesLeft, MonSide
    <2> QED BY <2>1, <2>2, SchedSideNow DEF RetryInv, RetriesBounded, StoreSide, RegistryTypeOK
  <1>7. ASSUME NEW j \in Jobs, MonitorFails(j) PROVE RetryInv'
    BY <1>7, RetryKeeps DEF MonitorFails, update_job_status, offMonitor, reportVars
  <1>8. CASE MonitorQueues
    BY <1>8, RetryKeeps DEF MonitorQueues, offMonitor, reportVars, jobTable
  <1>9. CASE \/ MonitorScans \/ MonitorReadsJobs \/ MonitorDone \/ MonitorMarks
             \/ MonitorDies \/ ProbeMarks
    BY <1>9, MarkingSteps, RetryKeeps
  <1>10. CASE ManagerCrashes
    BY <1>10 DEF ManagerCrashes, RetryInv, RetriesBounded, jobTable
  <1>11. CASE ManagerRestarts
    BY <1>11, RetryKeeps DEF ManagerRestarts, jobTable, reportVars
  <1>12. CASE UNCHANGED vars
    BY <1>12, RetryKeeps DEF vars, jobTable, reportVars
  <1> QED BY <1>1, <1>2, <1>3, <1>4, <1>5, <1>6, <1>7, <1>8, <1>9, <1>10, <1>11, <1>12
          DEF Next, MonitorStep

-----------------------------------------------------------------------------
(* A command is in one place. *)

\* The commands still to be sent are addresses.
LEMMA UnsentIsCommand ==
  ASSUME TypeInv, schedPc = "send", NEW i \in schedIdx..Len(schedNodes)
  PROVE  <<Len(attempts), schedNodes[i]>> \in Cmd /\ i \in 1..Len(schedNodes)
  <1>1. Len(attempts) \in Attempt
    BY LenProperties, ManagerAssumption, SchedSideNow DEF SchedSide, SchedulerInv, Attempt
  <1>2. i \in 1..Len(schedNodes) /\ schedNodes \in Seq(Nodes)
    BY LenProperties, SchedSideNow DEF SchedSide, SchedulerInv
  <1>3. schedNodes[i] \in Nodes
    BY <1>2, ElementOfSeq
  <1> QED BY <1>1, <1>2, <1>3 DEF Cmd

\* So are the commands that wait in a queue.
LEMMA QueuedIsCommand ==
  ASSUME TypeInv, NEW n \in Nodes, NEW i \in 1..Len(command_queues[n])
  PROVE  <<command_queues[n][i], n>> \in Cmd
  <1>1. command_queues[n][i] \in Attempt
    BY NodeSideNow, ElementOfSeq DEF NodeSide
  <1> QED BY <1>1 DEF Cmd

\* OnceInv while nothing is dispatched or delivered, and no command that waits
\* or has been reported moves.
LEMMA OnceKeeps ==
  ASSUME TypeInv, OnceInv,
         UNCHANGED <<schedPc, schedNodes, schedIdx, attempts, command_queues>>,
         \A c \in Cmd : run[c] \in {"none", "queued"} => run'[c] = run[c],
         CallIsReport'
  PROVE  OnceInv'
  <1>1. SelectedOnce' /\ QueuedOnce'
    BY DEF OnceInv, SelectedOnce, QueuedOnce
  <1>2. UnsentIsNew'
    BY UnsentIsCommand DEF OnceInv, UnsentIsNew
  <1>3. QueuedIsQueued'
    BY QueuedIsCommand DEF OnceInv, QueuedIsQueued
  <1> QED BY <1>1, <1>2, <1>3 DEF OnceInv

\* A command that leaves its queue is in no queue afterwards, and everything
\* else stays where it is.
LEMMA OnceDelivers ==
  ASSUME TypeInv, OnceInv, NEW n \in Nodes, DeliverCommand(n) \/ GhostTakes(n)
  PROVE  OnceInv'
  <1> DEFINE c == <<Head(command_queues[n]), n>>
  <1>1. /\ UNCHANGED offNode
        /\ command_queues[n] # <<>>
        /\ command_queues' = [command_queues EXCEPT ![n] = Tail(command_queues[n])]
    BY DEF DeliverCommand, GhostTakes
  <1>2. c \in Cmd /\ c[2] = n
    BY <1>1, HeadCommand
  <1>3. \A d \in Cmd : d # c => run'[d] = run[d]
    BY <1>2, NodeSideNow DEF DeliverCommand, GhostTakes, LaunchJob, launch_torchrun, NodeSide,
                             AgentTypeOK
  <1>4. 1 \in 1..Len(command_queues[n]) /\ Head(command_queues[n]) = command_queues[n][1]
    BY <1>1, HeadCommand, NodeSideNow, EmptySeq, LenProperties DEF NodeSide
  <1>5. run[c] = "queued"
    BY <1>4 DEF OnceInv, QueuedIsQueued
  <1>6. UNCHANGED <<schedPc, schedNodes, schedIdx, attempts, handler>>
    BY <1>1 DEF offNode, schedVars, reportVars
  <1>7. SelectedOnce' /\ CallIsReport'
    BY <1>3, <1>5, <1>6 DEF OnceInv, SelectedOnce, CallIsReport
  <1>8. UnsentIsNew'
    <2>1. ASSUME schedPc = "send", NEW i \in schedIdx..Len(schedNodes)
          PROVE  run'[<<Len(attempts), schedNodes[i]>>] = "none"
      <3>1. run[<<Len(attempts), schedNodes[i]>>] = "none"
        BY <2>1 DEF OnceInv, UnsentIsNew
      <3> QED BY <1>3, <1>5, <2>1, <3>1, UnsentIsCommand
    <2> QED BY <1>6, <2>1 DEF UnsentIsNew
  <1>9. \A m \in Nodes : command_queues'[m] = IF m = n THEN Tail(command_queues[n])
                                                       ELSE command_queues[m]
    BY <1>1, NodeSideNow DEF NodeSide
  <1>10. \A i \in 1..Len(command_queues'[n]) :
            /\ i \in Nat /\ i + 1 \in 1..Len(command_queues[n])
            /\ command_queues'[n][i] = command_queues[n][i + 1]
    <2>1. command_queues'[n] = Tail(command_queues[n])
      BY <1>9
    <2>2. \A i \in 1..Len(Tail(command_queues[n])) :
             /\ i + 1 \in 1..Len(command_queues[n])
             /\ Tail(command_queues[n])[i] = command_queues[n][i + 1]
      BY <1>1, HeadCommand
    <2> QED BY <2>1, <2>2
  <1>11. \A i \in 1..Len(command_queues'[n]) : command_queues[n][i + 1] # command_queues[n][1]
    <2> TAKE i \in 1..Len(command_queues'[n])
    <2>1. i + 1 \in 1..Len(command_queues[n]) /\ i + 1 # 1
      BY <1>10
    <2> QED BY <1>4, <2>1 DEF OnceInv, QueuedOnce
  <1>12. QueuedOnce'
    <2> SUFFICES ASSUME NEW m \in Nodes, NEW i \in 1..Len(command_queues'[m]),
                        NEW k \in 1..Len(command_queues'[m]), i # k
                 PROVE  command_queues'[m][i] # command_queues'[m][k]
      BY DEF QueuedOnce
    <2>1. CASE m = n
      <3>1. /\ i + 1 \in 1..Len(command_queues[n]) /\ k + 1 \in 1..Len(command_queues[n])
            /\ i + 1 # k + 1
        BY <1>10, <2>1
      <3>2. command_queues[n][i + 1] # command_queues[n][k + 1]
        BY <3>1 DEF OnceInv, QueuedOnce
      <3> QED BY <1>10, <2>1, <3>2
    <2>2. CASE m # n
      BY <1>9, <2>2 DEF OnceInv, QueuedOnce
    <2> QED BY <2>1, <2>2
  <1>13. QueuedIsQueued'
    <2> SUFFICES ASSUME NEW m \in Nodes, NEW i \in 1..Len(command_queues'[m])
                 PROVE  run'[<<command_queues'[m][i], m>>] = "queued"
      BY DEF QueuedIsQueued
    <2>1. CASE m = n
      <3>1. i + 1 \in 1..Len(command_queues[n])
            /\ command_queues'[n][i] = command_queues[n][i + 1]
        BY <1>10, <2>1
      <3>2. <<command_queues[n][i + 1], n>> # c
        BY <1>4, <1>11, <2>1
      <3>3. <<command_queues[n][i + 1], n>> \in Cmd
        BY <3>1, QueuedIsCommand
      <3>4. run[<<command_queues[n][i + 1], n>>] = "queued"
        BY <3>1 DEF OnceInv, QueuedIsQueued
      <3> QED BY <1>3, <2>1, <3>1, <3>2, <3>3, <3>4
    <2>2. CASE m # n
      <3>1. command_queues'[m] = command_queues[m] /\ <<command_queues[m][i], m>> # c
        BY <1>9, <2>2
      <3> QED BY <1>3, <3>1, QueuedIsCommand DEF OnceInv, QueuedIsQueued
    <2> QED BY <2>1, <2>2
  <1> QED BY <1>7, <1>8, <1>12, <1>13 DEF OnceInv

\* The other steps of a node move no command that waits, and none that has
\* been reported.
LEMMA OnceNodes ==
  ASSUME TypeInv, OnceInv, NEW n \in Nodes, NodeStep(n)
  PROVE  OnceInv'
  <1>1. CASE DeliverCommand(n) \/ GhostTakes(n)
    BY <1>1, OnceDelivers
  <1>2. CASE ~(DeliverCommand(n) \/ GhostTakes(n))
    <2>1. UNCHANGED <<schedPc, schedNodes, schedIdx, attempts, handler, command_queues>>
      <3>1. UNCHANGED command_queues
        BY <1>2 DEF NodeStep, RegisterNode, CreateQueue, ListenForCommands, StreamEnds,
           GhostEnds, AgentHeartbeat, SendHeartbeat, HeartbeatFails, Lapse,
           JobProcessExits, ConnectionBreaks, NodeCrashes, commandVars
      <3> QED BY <3>1, NodeSideSteps DEF promised
    <2>2. \A c \in Cmd : run[c] \in {"none", "queued", "reported"} => run'[c] = run[c]
      <3>1. CASE ConnectionBreaks(n)
        BY <3>1 DEF ConnectionBreaks, CutConnection, Streams
      <3>2. CASE NodeCrashes(n)
        BY <3>2 DEF NodeCrashes, AgentCrash, Reporting
      <3>3. CASE ~(ConnectionBreaks(n) \/ NodeCrashes(n))
        BY <1>2, <3>3 DEF NodeStep, RegisterNode, CreateQueue, ListenForCommands,
           StreamEnds, GhostEnds, AgentHeartbeat, SendHeartbeat, HeartbeatFails, Lapse,
           JobProcessExits, Register, Registers, Listen, Disconnected, BuildHeartbeat,
           HeartbeatReturns, ProcessExits, agentVars
      <3> QED BY <3>1, <3>2, <3>3
    <2>3. CallIsReport'
      BY <2>1, <2>2 DEF OnceInv, CallIsReport
    <2> QED BY <2>1, <2>2, <2>3, OnceKeeps
  <1> QED BY <1>1, <1>2

\* A report call begins for a command that has left its queue and has not been
\* reported before (launcher.py:42-63).
LEMMA OnceReports ==
  ASSUME TypeInv, OnceInv, NEW c \in Cmd, CommandStep(c)
  PROVE  OnceInv'
  <1>1. UNCHANGED <<schedPc, schedNodes, schedIdx, attempts, command_queues>>
    BY DEF CommandStep, ReportJobStatus, ReportFailed, ReportCompleted, ReportLost, ExitIsRead,
           HandlerStep, RetryIdlesNode, RetryWrites, RetryQueues, PermanentlyFails,
           PermanentlyFailedIdlesNode, CompletedIdlesNode, HandlerRaises, offReport,
           schedVars, commandVars
  <1>2. /\ \A d \in Cmd : run[d] \in {"none", "queued"} => run'[d] = run[d]
        /\ CallIsReport'
    <2>1. CASE ReportFailed(c) \/ ReportCompleted(c) \/ ReportLost(c) \/ ExitIsRead(c)
      <3>1. /\ run[c] \in Unreported
            /\ \E phase \in {"zero", "nonzero", "reported", "lost"} :
                  run' = [run EXCEPT ![c] = phase]
        BY <2>1 DEF ReportFailed, ReportCompleted, ReportLost, ExitIsRead,
                    ReportStatus, ReportFails, GeneratorDropped, WaitReturns
      <3>2. handler' # handler => run' = [run EXCEPT ![c] = "reported"]
        BY <2>1 DEF ReportFailed, ReportCompleted, ReportLost, ExitIsRead, ReportStatus, reportVars
      <3>3. \A d \in Cmd : d # c => handler'[d] = handler[d]
        BY <2>1, ReportSideNow DEF ReportFailed, ReportCompleted, ReportLost, ExitIsRead, reportVars, ReportSide
      <3> QED BY <3>1, <3>2, <3>3, ReportSideNow
              DEF ReportSide, AgentTypeOK, OnceInv, CallIsReport
    <2>2. CASE HandlerStep(c) \/ HandlerRaises(c)
      <3>1. /\ UNCHANGED run /\ handler[c] # "none"
            /\ \E p \in HandlerPhase : handler' = [handler EXCEPT ![c] = p]
        BY <2>2 DEF HandlerStep, RetryIdlesNode, RetryWrites, RetryQueues, PermanentlyFails,
                    PermanentlyFailedIdlesNode, CompletedIdlesNode, HandlerRaises, agentVars,
                    HandlerPhase
      <3> QED BY <3>1, ReportSideNow DEF ReportSide, OnceInv, CallIsReport
    <2> QED BY <2>1, <2>2 DEF CommandStep, ReportJobStatus
  <1> QED BY <1>1, <1>2, OnceKeeps

\* The scheduler selects a node once (allocator.py:36-43), and a new dispatch
\* has sent nothing yet.
LEMMA OnceSchedules ==
  ASSUME TypeInv, OnceInv,
         \/ PopJob \/ SchedulerMarks \/ SelectNodes \/ RequeueJob
         \/ ReserveNode \/ dispatch_allocated_job \/ SchedulerDies
  PROVE  OnceInv'
  <1>1. UNCHANGED <<run, handler, command_queues>>
    BY DEF PopJob, SchedulerMarks, SelectNodes, RequeueJob, ReserveNode,
           dispatch_allocated_job, SchedulerDies, offSched, agentVars, reportVars,
           commandVars
  <1>2. QueuedIsQueued' /\ QueuedOnce' /\ CallIsReport'
    BY <1>1 DEF OnceInv, QueuedIsQueued, QueuedOnce, CallIsReport
  <1>3. SelectedOnce'
    <2>1. CASE SelectNodes
      <3> DEFINE k == Required[schedJob[1].job]
      <3>1. k \in Nat
        BY <2>1, SchedSideNow, ManagerAssumption DEF SelectNodes, SchedSide, SchedulerInv, Entry
      <3>2. \/ schedPc' = "requeue"
            \/ /\ schedNodes' \in [1..k -> AvailableNodes]
               /\ \A i, m \in 1..k : i < m => schedNodes'[i] # schedNodes'[m]
        BY <2>1 DEF SelectNodes, allocate
      <3>3. \/ schedPc' = "requeue"
            \/ /\ Len(schedNodes') = k
               /\ \A i, m \in 1..k : i # m => schedNodes'[i] # schedNodes'[m]
        BY <3>1, <3>2
      <3> QED BY <3>3 DEF SelectedOnce
    <2>2. CASE PopJob \/ SchedulerMarks \/ RequeueJob \/ SchedulerDies
      BY <2>2 DEF PopJob, SchedulerMarks, RequeueJob, SchedulerDies, NextRound, SelectedOnce
    <2>3. CASE ReserveNode \/ dispatch_allocated_job
      BY <2>3 DEF ReserveNode, dispatch_allocated_job, OnceInv, SelectedOnce
    <2> QED BY <2>1, <2>2, <2>3
  <1>4. UnsentIsNew'
    <2>1. CASE dispatch_allocated_job
      <3> DEFINE a == Len(attempts) + 1
      <3>1. UNCHANGED <<schedNodes, schedIdx>> /\ Len(attempts') = a /\ a \in Attempt
        <4>1. attempts' = Append(attempts, schedJob[1].job) /\ UNCHANGED <<schedNodes, schedIdx>>
          BY <2>1 DEF dispatch_allocated_job
        <4>2. Len(attempts) \in Nat /\ Len(attempts) < MaxDispatch
          BY <2>1, SchedSideNow, LenProperties
             DEF dispatch_allocated_job, SchedulerInv, SchedSide
        <4>3. Len(attempts') = a
          BY <4>1, SchedSideNow DEF SchedSide
        <4> QED BY <4>1, <4>2, <4>3, ManagerAssumption DEF Attempt
      <3>2. ASSUME NEW i \in schedIdx..Len(schedNodes)
            PROVE  run[<<a, schedNodes[i]>>] = "none"
        <4>1. schedNodes[i] \in Nodes
          <5>1. i \in 1..Len(schedNodes) /\ schedNodes \in Seq(Nodes)
            BY <2>1, SchedSideNow, LenProperties
               DEF dispatch_allocated_job, SchedulerInv, SchedSide
          <5> QED BY <5>1, ElementOfSeq
        <4>2. <<a, schedNodes[i]>> \in Cmd
          BY <3>1, <4>1 DEF Cmd
        <4>3. a \notin 1..Len(attempts)
          BY SchedSideNow, LenProperties DEF SchedSide
        <4> QED BY <4>2, <4>3, SchedSideNow DEF CommandInv
      <3> QED BY <1>1, <3>1, <3>2 DEF UnsentIsNew
    <2>2. CASE \/ PopJob \/ SchedulerMarks \/ SelectNodes \/ RequeueJob \/ ReserveNode
               \/ SchedulerDies
      BY <2>2 DEF PopJob, SchedulerMarks, SelectNodes, RequeueJob, ReserveNode,
                  SchedulerDies, NextRound, UnsentIsNew
    <2> QED BY <2>1, <2>2
  <1> QED BY <1>2, <1>3, <1>4 DEF OnceInv

\* A command that is sent stood in no queue (cluster_manager.py:197-203).
LEMMA OnceSends ==
  ASSUME TypeInv, OnceInv, send_command
  PROVE  OnceInv'
  <1> DEFINE n == schedNodes[schedIdx]
             a == Len(attempts)
             c == <<a, n>>
  <1>1. schedPc = "send" /\ schedIdx \in 1..Len(schedNodes) /\ Len(schedNodes) \in Nat
    BY SchedSideNow, LenProperties DEF send_command, SchedulerInv, SchedSide
  <1>2. schedIdx \in schedIdx..Len(schedNodes)
    BY <1>1
  <1>3. c \in Cmd /\ n \in Nodes /\ run[c] = "none"
    BY <1>1, <1>2, UnsentIsCommand DEF Cmd, OnceInv, UnsentIsNew
  <1>4. /\ UNCHANGED <<handler, attempts>>
        /\ \/ /\ run' = [run EXCEPT ![c] = "queued"]
              /\ command_queues' = [command_queues EXCEPT ![n] = Append(command_queues[n], a)]
           \/ /\ run' = [run EXCEPT ![c] = "lost"]
              /\ UNCHANGED command_queues
    BY DEF send_command, reportVars
  <1>5. /\ \A d \in Cmd : d # c => run'[d] = run[d]
        /\ run'[c] \in {"queued", "lost"}
    BY <1>3, <1>4, NodeSideNow DEF NodeSide, AgentTypeOK
  <1>6. CallIsReport'
    BY <1>3, <1>4, <1>5 DEF OnceInv, CallIsReport
  <1>7. SelectedOnce'
    BY <1>1 DEF OnceInv, SelectedOnce, send_command, NextRound
  <1>8. UnsentIsNew'
    <2>1. CASE /\ schedIdx' = schedIdx + 1 /\ UNCHANGED <<schedPc, schedNodes>>
      <3> SUFFICES ASSUME NEW i \in schedIdx + 1..Len(schedNodes)
                   PROVE  run'[<<a, schedNodes[i]>>] = "none"
        BY <1>4, <2>1 DEF UnsentIsNew
      <3>1. i \in schedIdx..Len(schedNodes) /\ i \in 1..Len(schedNodes) /\ i # schedIdx
        BY <1>1
      <3>2. schedNodes[i] # n
        BY <1>1, <3>1 DEF OnceInv, SelectedOnce
      <3>3. <<a, schedNodes[i]>> \in Cmd /\ run[<<a, schedNodes[i]>>] = "none"
        BY <1>1, <3>1, UnsentIsCommand DEF OnceInv, UnsentIsNew
      <3> QED BY <1>5, <3>2, <3>3
    <2>2. CASE schedPc' = "pop"
      BY <2>2 DEF UnsentIsNew
    <2> QED BY <2>1, <2>2 DEF send_command, NextRound
  <1>9. QueuedIsQueued' /\ QueuedOnce'
    <2>1. CASE UNCHANGED command_queues
      <3>1. \A m \in Nodes : \A i \in 1..Len(command_queues[m]) :
               <<command_queues[m][i], m>> # c
        BY <1>3 DEF OnceInv, QueuedIsQueued
      <3>2. QueuedIsQueued'
        BY <1>5, <2>1, <3>1, QueuedIsCommand DEF OnceInv, QueuedIsQueued
      <3> QED BY <2>1, <3>2 DEF OnceInv, QueuedOnce
    <2>2. CASE /\ run' = [run EXCEPT ![c] = "queued"]
               /\ command_queues' = [command_queues EXCEPT ![n] = Append(command_queues[n], a)]
      <3>1. command_queues[n] \in Seq(Attempt) /\ Len(command_queues[n]) \in Nat
        BY <1>3, NodeSideNow, LenProperties DEF NodeSide
      <3>2. \A m \in Nodes : command_queues'[m] = IF m = n THEN Append(command_queues[n], a)
                                                           ELSE command_queues[m]
        BY <2>2, NodeSideNow DEF NodeSide
      <3>3. /\ Len(command_queues'[n]) = Len(command_queues[n]) + 1
            /\ command_queues'[n][Len(command_queues[n]) + 1] = a
            /\ \A i \in 1..Len(command_queues[n]) :
                  command_queues'[n][i] = command_queues[n][i]
        <4>1. command_queues'[n] = Append(command_queues[n], a)
          BY <1>3, <3>2
        <4>2. ASSUME NEW q \in Seq(Attempt)
              PROVE  /\ Len(Append(q, a)) = Len(q) + 1
                     /\ Append(q, a)[Len(q) + 1] = a
                     /\ \A i \in 1..Len(q) : Append(q, a)[i] = q[i]
          OBVIOUS
        <4> QED BY <3>1, <4>1, <4>2
      <3>4. \A i \in 1..Len(command_queues'[n]) :
               i \in 1..Len(command_queues[n]) \/ i = Len(command_queues[n]) + 1
        BY <3>1, <3>3
      <3>5. \A i \in 1..Len(command_queues[n]) : command_queues[n][i] # a
        BY <1>3 DEF OnceInv, QueuedIsQueued
      <3>6. QueuedOnce'
        <4> SUFFICES ASSUME NEW m \in Nodes, NEW i \in 1..Len(command_queues'[m]),
                            NEW k \in 1..Len(command_queues'[m]), i # k
                     PROVE  command_queues'[m][i] # command_queues'[m][k]
          BY DEF QueuedOnce
        <4>1. CASE m = n
          <5>1. CASE i \in 1..Len(command_queues[n]) /\ k \in 1..Len(command_queues[n])
            BY <3>3, <4>1, <5>1 DEF OnceInv, QueuedOnce
          <5>2. CASE i \in 1..Len(command_queues[n]) /\ k = Len(command_queues[n]) + 1
            BY <3>3, <3>5, <4>1, <5>2
          <5>3. CASE k \in 1..Len(command_queues[n]) /\ i = Len(command_queues[n]) + 1
            BY <3>3, <3>5, <4>1, <5>3
          <5> QED BY <3>4, <4>1, <5>1, <5>2, <5>3
        <4>2. CASE m # n
          BY <3>2, <4>2 DEF OnceInv, QueuedOnce
        <4> QED BY <4>1, <4>2
      <3>7. QueuedIsQueued'
        <4> SUFFICES ASSUME NEW m \in Nodes, NEW i \in 1..Len(command_queues'[m])
                     PROVE  run'[<<command_queues'[m][i], m>>] = "queued"
          BY DEF QueuedIsQueued
        <4>1. run'[c] = "queued"
          BY <1>3, <2>2, NodeSideNow DEF NodeSide, AgentTypeOK
        <4>2. CASE m = n /\ i = Len(command_queues[n]) + 1
          BY <3>3, <4>1, <4>2
        <4>3. CASE m # n \/ i \in 1..Len(command_queues[n])
          <5>1. i \in 1..Len(command_queues[m]) /\ command_queues'[m][i] = command_queues[m][i]
            BY <3>2, <3>3, <4>3
          <5>2. <<command_queues[m][i], m>> # c
            BY <1>3, <5>1 DEF OnceInv, QueuedIsQueued
          <5> QED BY <1>5, <5>1, <5>2, QueuedIsCommand DEF OnceInv, QueuedIsQueued
        <4> QED BY <3>4, <4>2, <4>3
      <3> QED BY <3>6, <3>7
    <2> QED BY <1>4, <2>1, <2>2
  <1> QED BY <1>6, <1>7, <1>8, <1>9 DEF OnceInv

\* Every step keeps OnceInv.
LEMMA NextOnceInv ==
  ASSUME TypeInv, OnceInv, [Next]_vars
  PROVE  OnceInv'
  <1>1. ASSUME NEW n \in Nodes, NodeStep(n) PROVE OnceInv'
    BY <1>1, OnceNodes
  <1>2. ASSUME NEW c \in Cmd, CommandStep(c) PROVE OnceInv'
    BY <1>2, OnceReports
  <1>3. CASE SchedulerStep \/ SchedulerDies
    BY <1>3, OnceSchedules, OnceSends DEF SchedulerStep
  <1>4. ASSUME UNCHANGED <<schedPc, schedNodes, schedIdx, attempts, command_queues, run,
                           handler>>
        PROVE  OnceInv'
    BY <1>4, OnceKeeps DEF OnceInv, CallIsReport
  <1>5. ASSUME NEW j \in Jobs, SubmitJob(j) \/ EnqueueJob(j) PROVE OnceInv'
    BY <1>4, <1>5 DEF SubmitJob, EnqueueJob, schedVars, commandVars, agentVars, reportVars
  <1>6. CASE MonitorStep \/ MonitorDies \/ ProbeMarks
    <2>1. UNCHANGED offMonitor
      BY <1>6 DEF MonitorStep, ProbeMarks, MonitorScans, MonitorReadsJobs, MonitorQueues,
                  MonitorDone, MonitorMarks, MonitorRetries, MonitorFails, MonitorDies
    <2> QED BY <1>4, <2>1 DEF offMonitor, schedVars, commandVars, agentVars, reportVars
  <1>7. CASE ManagerCrashes
    <2>1. \A n \in Nodes : Len(command_queues'[n]) = 0
      BY <1>7 DEF ManagerCrashes
    <2>2. schedPc' = "pop" /\ \A c \in Cmd : handler'[c] = "none"
      BY <1>7 DEF ManagerCrashes, NextRound
    <2>3. QueuedIsQueued' /\ QueuedOnce'
      BY <2>1 DEF QueuedIsQueued, QueuedOnce
    <2> QED BY <2>2, <2>3 DEF OnceInv, SelectedOnce, UnsentIsNew, CallIsReport
  <1>8. CASE ManagerRestarts
    BY <1>4, <1>8 DEF ManagerRestarts, schedVars, commandVars, agentVars, reportVars
  <1>9. CASE UNCHANGED vars
    BY <1>4, <1>9 DEF vars, schedVars, commandVars, agentVars, reportVars
  <1> QED BY <1>1, <1>2, <1>3, <1>5, <1>6, <1>7, <1>8, <1>9 DEF Next

\* A launch command is sent once, waits in one queue at most, and is reported
\* by at most one call, whatever crashes, breaks or restarts in between.
THEOREM CommandsOnce == Spec => []OnceInv
  <1>1. Init => OnceInv
    <2> HAVE Init
    <2>1. \A n \in Nodes : Len(command_queues[n]) = 0
      BY DEF Init
    <2>2. schedPc = "pop" /\ \A c \in Cmd : handler[c] = "none"
      BY DEF Init
    <2> QED BY <2>1, <2>2
            DEF OnceInv, SelectedOnce, UnsentIsNew, QueuedIsQueued, QueuedOnce, CallIsReport
  <1>2. TypeInv /\ OnceInv /\ [Next]_vars => OnceInv'
    BY NextOnceInv
  <1> QED BY <1>1, <1>2, TypeInvariant, PTL DEF Spec

-----------------------------------------------------------------------------
(* No PENDING job is forgotten. *)

\* The report calls that are about to queue j again.
Requeuing(j) == \E c \in Cmd : handler[c] = "retryQueue" /\ attempts[c[1]] = j

\* A job that was PENDING before stays remembered if each of its places either
\* keeps it or hands it to the next one.
LEMMA RememberedKeeps ==
  ASSUME NEW j \in Jobs, NoLostPendingJob, up, jobStatus[j] = "PENDING",
         Queued(j) => Queued(j)' \/ HeldByScheduler(j)',
         HeldByScheduler(j) => HeldByScheduler(j)' \/ Queued(j)',
         j \in submitting => j \in submitting' \/ Queued(j)',
         Requeuing(j) => Requeuing(j)' \/ Queued(j)',
         monJob = <<j>> => monJob' = <<j>> \/ Queued(j)'
  PROVE  Remembered(j)'
  <1>1. Remembered(j)
    BY DEF NoLostPendingJob, get_jobs
  <1> QED BY <1>1 DEF Remembered, Requeuing

\* A step that touches none of those places forgets nothing.
LEMMA PendingKeeps ==
  ASSUME NoLostPendingJob,
         UNCHANGED <<up, queue, submitting, schedJob, handler, attempts, monJob>>,
         \A j \in Jobs : jobStatus'[j] = "PENDING" => jobStatus[j] = "PENDING",
         schedPc' = "send" => schedPc = "send"
  PROVE  NoLostPendingJob'
  <1> SUFFICES ASSUME up, NEW j \in Jobs, jobStatus'[j] = "PENDING"
               PROVE  Remembered(j)'
    BY DEF NoLostPendingJob, get_jobs
  <1>1. Queued(j) => Queued(j)'
    BY DEF Queued
  <1> QED BY <1>1, RememberedKeeps DEF HeldByScheduler, Requeuing

\* SubmitJob: the row comes before the queue entry (queue.py:25-30).
LEMMA PendingSubmits ==
  ASSUME TypeInv, NoLostPendingJob, NEW i \in Jobs, SubmitJob(i) \/ EnqueueJob(i)
  PROVE  NoLostPendingJob'
  <1> SUFFICES ASSUME up', NEW j \in Jobs, jobStatus'[j] = "PENDING"
               PROVE  Remembered(j)'
    BY DEF NoLostPendingJob, get_jobs
  <1>1. UNCHANGED <<up, schedPc, schedJob, handler, attempts, monJob>>
    BY DEF SubmitJob, EnqueueJob, schedVars, reportVars, monVars
  <1>2. CASE SubmitJob(i)
    <2>1. CASE j = i
      BY <1>2, <2>1 DEF SubmitJob, Remembered
    <2>2. CASE j # i
      <3>1. jobStatus[j] = "PENDING" /\ (j \in submitting => j \in submitting')
        BY <1>2, <2>2, SchedSideNow DEF SubmitJob, insert_job, StoreSide, RegistryTypeOK
      <3>2. Queued(j) => Queued(j)'
        BY <1>2 DEF SubmitJob, Queued
      <3> QED BY <1>1, <3>1, <3>2, RememberedKeeps DEF HeldByScheduler, Requeuing
    <2> QED BY <2>1, <2>2
  <1>3. CASE EnqueueJob(i)
    <2>1. append_and_sort(Fresh(i)) /\ Fresh(i) \in Entry /\ Fresh(i).job = i
      BY <1>3 DEF EnqueueJob, Fresh, Entry
    <2>2. Queued(i)' /\ (Queued(j) => Queued(j)')
      BY <2>1, AppendKeeps, SchedSideNow DEF StoreSide
    <2>3. j \in submitting => j \in submitting' \/ j = i
      BY <1>3 DEF EnqueueJob
    <2>4. jobStatus[j] = "PENDING"
      BY <1>3 DEF EnqueueJob, jobTable
    <2> QED BY <1>1, <2>2, <2>3, <2>4, RememberedKeeps DEF HeldByScheduler, Requeuing
  <1> QED BY <1>2, <1>3

\* The scheduler loop: a popped job is in its hand until it is requeued or
\* RUNNING (schedulers/base.py:40-55, cluster_manager.py:205-224).
LEMMA PendingSchedules ==
  ASSUME TypeInv, NoLostPendingJob, SchedulerStep \/ SchedulerDies
  PROVE  NoLostPendingJob'
  <1> SUFFICES ASSUME up', NEW j \in Jobs, jobStatus'[j] = "PENDING"
               PROVE  Remembered(j)'
    BY DEF NoLostPendingJob, get_jobs
  <1>1. UNCHANGED <<up, submitting, handler, monJob>>
    BY DEF SchedulerStep, PopJob, SchedulerMarks, SelectNodes, RequeueJob, ReserveNode,
           dispatch_allocated_job, send_command, SchedulerDies, offSched, callVars,
           reportVars, monVars
  <1>2. CASE PopJob
    <2>1. UNCHANGED <<jobStatus, attempts>> /\ schedJob = <<>>
      BY <1>2, SchedSideNow DEF PopJob, jobTable, SchedulerInv
    <2>2. schedJob' = <<Head(queue)>> /\ schedPc' = "mark"
      BY <1>2 DEF PopJob, top
    <2>3. Queued(j) => Queued(j)' \/ Head(queue).job = j
      BY <1>2, PopKeeps, SchedSideNow DEF PopJob, StoreSide
    <2>4. Head(queue).job = j => HeldByScheduler(j)'
      BY <2>2 DEF HeldByScheduler
    <2> QED BY <1>1, <2>1, <2>3, <2>4, RememberedKeeps DEF HeldByScheduler, Requeuing
  <1>3. CASE SchedulerMarks \/ SelectNodes \/ ReserveNode \/ SchedulerDies
    <2>1. UNCHANGED <<jobStatus, attempts, queue, schedJob>> /\ schedPc' # "send"
      BY <1>3 DEF SchedulerMarks, SelectNodes, ReserveNode, SchedulerDies, jobTable
    <2> QED BY <1>1, <2>1, PendingKeeps DEF NoLostPendingJob, get_jobs
  <1>4. CASE RequeueJob
    <2>1. PICK e \in Entry : schedJob = <<e>>
      BY <1>4, SchedSideNow DEF RequeueJob, SchedSide, SchedulerInv
    <2>2. Queued(e.job)' /\ (Queued(j) => Queued(j)')
      BY <1>4, <2>1, RequeueKeeps, SchedSideNow DEF RequeueJob, StoreSide
    <2>3. UNCHANGED <<jobStatus, attempts>>
      BY <1>4 DEF RequeueJob, jobTable
    <2> QED BY <1>1, <2>1, <2>2, <2>3, RememberedKeeps DEF HeldByScheduler, Requeuing
  <1>5. CASE dispatch_allocated_job
    <2>1. PICK e \in Entry : schedJob = <<e>>
      BY <1>5, SchedSideNow DEF dispatch_allocated_job, SchedSide, SchedulerInv
    <2>2. jobStatus' = [jobStatus EXCEPT ![e.job] = "RUNNING"] /\ UNCHANGED queue
          /\ attempts' = Append(attempts, e.job)
      BY <1>5, <2>1 DEF dispatch_allocated_job, update_job_assigned
    <2>3. e.job \in Jobs
      BY DEF Entry
    <2>4. j # e.job /\ jobStatus[j] = "PENDING"
      BY <2>2, <2>3, SchedSideNow DEF StoreSide, RegistryTypeOK
    <2>5. Queued(j) => Queued(j)'
      BY <2>2 DEF Queued
    <2>6. Requeuing(j) => Requeuing(j)'
      <3>1. \A i \in 1..Len(attempts) : attempts'[i] = attempts[i]
        BY <2>2, <2>3, SchedSideNow DEF SchedSide
      <3> QED BY <1>1, <3>1, SchedSideNow DEF Requeuing, CommandInv
    <2>7. ~HeldByScheduler(j)
      BY <2>1, <2>4 DEF HeldByScheduler
    <2> QED BY <1>1, <2>4, <2>5, <2>6, <2>7, RememberedKeeps
  <1>6. CASE send_command
    <2>1. UNCHANGED <<jobStatus, queue, attempts>> /\ ~HeldByScheduler(j)
      BY <1>6 DEF send_command, jobTable, HeldByScheduler
    <2>2. Queued(j) => Queued(j)'
      BY <2>1 DEF Queued
    <2> QED BY <1>1, <2>1, <2>2, RememberedKeeps DEF Requeuing
  <1> QED BY <1>2, <1>3, <1>4, <1>5, <1>6 DEF SchedulerStep

\* ReportJobStatus: a call is between the row and the queue of at most the one
\* job it reports on (cluster_manager.py:105-144, queue.py:49-61).
LEMMA PendingReports ==
  ASSUME TypeInv, OnceInv, NoLostPendingJob, NEW c \in Cmd, CommandStep(c)
  PROVE  NoLostPendingJob'
  <1> SUFFICES ASSUME up', NEW j \in Jobs, jobStatus'[j] = "PENDING"
               PROVE  Remembered(j)'
    BY DEF NoLostPendingJob, get_jobs
  <1> USE ReportSideNow
  <1>1. UNCHANGED <<up, submitting, schedPc, schedJob, monJob, attempts>>
    BY DEF CommandStep, ReportJobStatus, ReportFailed, ReportCompleted, ReportLost, ExitIsRead,
           HandlerStep, RetryIdlesNode, RetryWrites, RetryQueues, PermanentlyFails,
           PermanentlyFailedIdlesNode, CompletedIdlesNode, HandlerRaises, offReport,
           callVars, schedVars, monVars
  <1>2. CASE RetryWrites(c)
    <2>1. /\ handler' = [handler EXCEPT ![c] = "retryQueue"] /\ UNCHANGED queue
          /\ jobStatus' = [jobStatus EXCEPT ![attempts[c[1]]] = "PENDING"]
      BY <1>2 DEF RetryWrites, update_job_retries
    <2>2. CASE attempts[c[1]] = j
      BY <1>1, <2>1, <2>2 DEF ReportSide, Remembered
    <2>3. CASE attempts[c[1]] # j
      <3>1. jobStatus[j] = "PENDING"
        BY <2>1, <2>3 DEF StoreSide, RegistryTypeOK
      <3>2. Requeuing(j) => Requeuing(j)'
        BY <1>1, <2>1, <2>3 DEF ReportSide, Requeuing
      <3>3. Queued(j) => Queued(j)'
        BY <2>1 DEF Queued
      <3> QED BY <1>1, <3>1, <3>2, <3>3, RememberedKeeps DEF HeldByScheduler
    <2> QED BY <2>2, <2>3
  <1>3. CASE RetryQueues(c)
    <2>1. /\ handler' = [handler EXCEPT ![c] = "none"] /\ handler[c] # "none"
          /\ append_and_sort(Row(attempts[c[1]]))
          /\ UNCHANGED jobStatus
      BY <1>3 DEF RetryQueues, jobTable
    <2>2. Row(attempts[c[1]]) \in Entry /\ Row(attempts[c[1]]).job = attempts[c[1]]
      BY <2>1, JobOfCommand DEF Row, Entry
    <2>3. Queued(attempts[c[1]])' /\ (Queued(j) => Queued(j)')
      BY <1>1, <2>1, <2>2, AppendKeeps DEF StoreSide
    <2>4. Requeuing(j) => Requeuing(j)' \/ Queued(j)'
      BY <1>1, <2>1, <2>3 DEF Requeuing, ReportSide
    <2> QED BY <1>1, <2>1, <2>3, <2>4, RememberedKeeps DEF HeldByScheduler
  <1>4. CASE ~(RetryWrites(c) \/ RetryQueues(c))
    <2>1. UNCHANGED queue /\ jobStatus[j] = "PENDING"
      <3>1. UNCHANGED queue
        BY <1>4 DEF CommandStep, ReportJobStatus, ReportFailed, ReportCompleted, ReportLost, ExitIsRead,
             HandlerStep, RetryIdlesNode, PermanentlyFails, PermanentlyFailedIdlesNode,
             CompletedIdlesNode, HandlerRaises
      <3>2. \/ UNCHANGED jobStatus
            \/ \E s \in {"FAILED", "COMPLETED"} :
                  jobStatus' = [jobStatus EXCEPT ![attempts[c[1]]] = s]
        BY <1>4 DEF CommandStep, ReportJobStatus, ReportFailed, ReportCompleted, ReportLost, ExitIsRead,
             HandlerStep, RetryIdlesNode, PermanentlyFails, PermanentlyFailedIdlesNode,
             CompletedIdlesNode, HandlerRaises, update_job_status, jobTable
      <3> QED BY <3>1, <3>2 DEF StoreSide, RegistryTypeOK
    <2>2. /\ handler[c] # "retryQueue"
          /\ UNCHANGED handler \/ \E p \in HandlerPhase : handler' = [handler EXCEPT ![c] = p]
      <3>1. CASE ReportFailed(c) \/ ReportCompleted(c) \/ ReportLost(c) \/ ExitIsRead(c)
        BY <3>1 DEF ReportFailed, ReportCompleted, ReportLost, ExitIsRead,
                    ReportStatus, ReportFails, GeneratorDropped, WaitReturns,
                    reportVars, HandlerPhase, OnceInv, CallIsReport
      <3>2. CASE HandlerStep(c) \/ HandlerRaises(c)
        BY <1>4, <3>2 DEF HandlerStep, RetryIdlesNode, PermanentlyFails,
                          PermanentlyFailedIdlesNode, CompletedIdlesNode, HandlerRaises,
                          HandlerPhase
      <3> QED BY <3>1, <3>2 DEF CommandStep, ReportJobStatus
    <2>3. Requeuing(j) => Requeuing(j)'
      BY <1>1, <2>2 DEF Requeuing, ReportSide
    <2>4. Queued(j) => Queued(j)'
      BY <2>1 DEF Queued
    <2> QED BY <1>1, <2>1, <2>3, <2>4, RememberedKeeps DEF HeldByScheduler
  <1> QED BY <1>2, <1>3, <1>4

\* The monitor: the job it has made PENDING is the one it appends next
\* (cluster_manager.py:332-339).
LEMMA PendingMonitors ==
  ASSUME TypeInv, NoLostPendingJob, MonitorStep \/ MonitorDies \/ ProbeMarks
  PROVE  NoLostPendingJob'
  <1> SUFFICES ASSUME up', NEW j \in Jobs, jobStatus'[j] = "PENDING"
               PROVE  Remembered(j)'
    BY DEF NoLostPendingJob, get_jobs
  <1>1. UNCHANGED <<up, submitting, schedPc, schedJob, handler, attempts>>
    <2>1. UNCHANGED offMonitor
      BY DEF MonitorStep, ProbeMarks, MonitorScans, MonitorReadsJobs, MonitorQueues,
             MonitorDone, MonitorMarks, MonitorRetries, MonitorFails, MonitorDies
    <2> QED BY <2>1 DEF offMonitor, callVars, schedVars, reportVars
  <1>2. ASSUME NEW i \in Jobs, MonitorRetries(i) PROVE Remembered(j)'
    <2>1. /\ jobStatus' = [jobStatus EXCEPT ![i] = "PENDING"] /\ UNCHANGED queue
          /\ monJob = <<>> /\ monJob' = <<i>>
      BY <1>2, MonSideNow DEF MonitorRetries, update_job_retries, MonitorInv
    <2>2. CASE i = j
      BY <2>1, <2>2 DEF Remembered
    <2>3. CASE i # j
      <3>1. jobStatus[j] = "PENDING" /\ (Queued(j) => Queued(j)')
        BY <2>1, <2>3, MonSideNow DEF StoreSide, RegistryTypeOK, Queued
      <3> QED BY <1>1, <2>1, <3>1, RememberedKeeps DEF HeldByScheduler, Requeuing
    <2> QED BY <2>2, <2>3
  <1>3. ASSUME NEW i \in Jobs, MonitorFails(i) PROVE Remembered(j)'
    <2>1. /\ jobStatus' = [jobStatus EXCEPT ![i] = "FAILED"] /\ UNCHANGED <<queue, monJob>>
      BY <1>3 DEF MonitorFails, update_job_status
    <2>2. jobStatus[j] = "PENDING" /\ (Queued(j) => Queued(j)')
      BY <2>1, MonSideNow DEF StoreSide, RegistryTypeOK, Queued
    <2> QED BY <1>1, <2>1, <2>2, RememberedKeeps DEF HeldByScheduler, Requeuing
  <1>4. CASE MonitorQueues
    <2>1. PICK i \in Jobs : monJob = <<i>>
      BY <1>4, MonSideNow DEF MonitorQueues, MonSide, MonitorInv
    <2>2. append_and_sort(Row(i)) /\ Row(i) \in Entry /\ Row(i).job = i /\ UNCHANGED jobStatus
      BY <1>4, <2>1 DEF MonitorQueues, Row, Entry, jobTable
    <2>3. Queued(i)' /\ (Queued(j) => Queued(j)')
      BY <2>2, AppendKeeps, MonSideNow DEF StoreSide
    <2> QED BY <1>1, <2>1, <2>2, <2>3, RememberedKeeps DEF HeldByScheduler, Requeuing
  <1>5. CASE \/ MonitorScans \/ MonitorReadsJobs \/ MonitorDone \/ MonitorMarks
             \/ MonitorDies \/ ProbeMarks
    BY <1>5, MarkingSteps, PendingKeeps DEF NoLostPendingJob, get_jobs
  <1> QED BY <1>2, <1>3, <1>4, <1>5 DEF MonitorStep

\* Every step keeps NoLostPendingJob.
LEMMA NextPending ==
  ASSUME TypeInv, OnceInv, NoLostPendingJob, [Next]_vars
  PROVE  NoLostPendingJob'
  <1>1. ASSUME NEW n \in Nodes, NodeStep(n) PROVE NoLostPendingJob'
    BY <1>1, NodeSideSteps, PendingKeeps DEF promised
  <1>2. ASSUME NEW c \in Cmd, CommandStep(c) PROVE NoLostPendingJob'
    BY <1>2, PendingReports
  <1>3. ASSUME NEW j \in Jobs, SubmitJob(j) \/ EnqueueJob(j) PROVE NoLostPendingJob'
    BY <1>3, PendingSubmits
  <1>4. CASE SchedulerStep \/ SchedulerDies
    BY <1>4, PendingSchedules
  <1>5. CASE MonitorStep \/ MonitorDies \/ ProbeMarks
    BY <1>5, PendingMonitors
  <1>6. CASE ManagerCrashes
    BY <1>6 DEF ManagerCrashes, NoLostPendingJob
  <1>7. CASE ManagerRestarts
    <2>1. \A j \in get_jobs("PENDING") : Queued(j)'
      BY <1>7, RecoverFinds DEF ManagerRestarts
    <2>2. UNCHANGED jobStatus
      BY <1>7 DEF ManagerRestarts, jobTable
    <2> QED BY <2>1, <2>2 DEF NoLostPendingJob, get_jobs, Remembered
  <1>8. CASE UNCHANGED vars
    <2>1. UNCHANGED <<jobStatus, queue, up, submitting, schedPc, schedJob, handler, attempts,
                      monJob>>
      BY <1>8 DEF vars, jobTable, callVars, schedVars, reportVars, monVars
    <2> QED BY <2>1, PendingKeeps
  <1> QED BY <1>1, <1>2, <1>3, <1>4, <1>5, <1>6, <1>7, <1>8 DEF Next

\* While the manager runs, every PENDING row is in the queue or in the hands of
\* a thread that will put it there or run it, over crashes and restarts of
\* nodes and of the manager (queue.py, base.py:40-55, cluster_manager.py).
THEOREM NoJobForgotten == Spec => []NoLostPendingJob
  <1>1. Init => NoLostPendingJob
    BY DEF Init, _init_db, NoLostPendingJob, get_jobs
  <1>2. TypeInv /\ OnceInv /\ NoLostPendingJob /\ [Next]_vars => NoLostPendingJob'
    BY NextPending
  <1> QED BY <1>1, <1>2, TypeInvariant, CommandsOnce, PTL DEF Spec
=============================================================================
