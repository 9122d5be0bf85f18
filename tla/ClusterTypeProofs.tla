------------------------- MODULE ClusterTypeProofs --------------------------
(***************************************************************************)
(* Type correctness of the Cluster Manager with its agents: TypeInv is     *)
(* inductive.  TypeInv is cut into the parts that the four frames leave    *)
(* alone; one lemma per group of actions, one step per action.             *)
(***************************************************************************)
EXTENDS ClusterInvariants, JobQueueProofs

USE DEF Unreported

\* The part of TypeOK a step of a node can touch.
NodeSide ==
    /\ nodeStatus \in [Nodes -> NodeStatus]
    /\ expired \in [Nodes -> BOOLEAN]
    /\ AgentTypeOK
    /\ registering \subseteq Nodes
    /\ command_queues \in [Nodes -> Seq(Attempt)]
    /\ cmdNodes \subseteq Nodes /\ ghost \subseteq Nodes

\* A step of a node leaves the rest alone.
LEMMA OffNodeKeeps ==
  ASSUME TypeInv, UNCHANGED offNode, NodeSide', CommandInv'
  PROVE  TypeInv'
  BY DEF TypeInv, TypeOK, RegistryTypeOK, SchedulerInv, MonitorInv, NodeSide, offNode,
         jobTable, schedVars, monVars, reportVars, gauges

\* What TypeInv says of the variables of a node.
LEMMA NodeSideNow == TypeInv => NodeSide /\ CommandInv
  BY DEF TypeInv, TypeOK, RegistryTypeOK, NodeSide

\* CommandInv while no command and no call begins.
LEMMA CommandsKeep ==
  ASSUME CommandInv, UNCHANGED <<attempts, handler, command_queues>>,
         \A c \in Cmd : run'[c] # "none" => run[c] # "none"
  PROVE  CommandInv'
  BY DEF CommandInv

-----------------------------------------------------------------------------
(* The steps of a node. *)

\* Registration and the command stream (cluster_manager.py:43-103), but for
\* the delivery of commands.
LEMMA StreamSteps ==
  ASSUME TypeInv, NEW n \in Nodes,
         \/ RegisterNode(n) \/ CreateQueue(n) \/ ListenForCommands(n)
         \/ StreamEnds(n) \/ GhostEnds(n)
  PROVE  TypeInv'
  <1> USE NodeSideNow
  <1> USE DEF RegisterNode, CreateQueue, ListenForCommands, StreamEnds, GhostEnds,
              Register, Registers, Listen, Disconnected, commandVars, agentVars,
              nodeTable
  <1>1. UNCHANGED offNode
    OBVIOUS
  <1>2. NodeSide'
    <2>1. CASE RegisterNode(n)
      BY <2>1 DEF register_node, NodeSide, AgentTypeOK, AgentPhase, NodeStatus
    <2>2. CASE CreateQueue(n)
      BY <2>2 DEF NodeSide, AgentTypeOK, AgentPhase
    <2>3. CASE ListenForCommands(n)
      BY <2>3 DEF NodeSide, AgentTypeOK, AgentPhase
    <2>4. CASE StreamEnds(n)
      BY <2>4 DEF NodeSide, AgentTypeOK, AgentPhase
    <2>5. CASE GhostEnds(n)
      BY <2>5 DEF NodeSide, AgentTypeOK
    <2> QED BY <2>1, <2>2, <2>3, <2>4, <2>5
  <1>3. CommandInv'
    BY CommandsKeep DEF offNode, reportVars
  <1> QED BY <1>1, <1>2, <1>3, OffNodeKeeps

\* The head of a command queue names a dispatch that was made.
LEMMA HeadCommand ==
  ASSUME TypeInv, NEW n \in Nodes, command_queues[n] # <<>>
  PROVE  /\ Head(command_queues[n]) = command_queues[n][1]
         /\ Head(command_queues[n]) \in 1..Len(attempts)
         /\ Head(command_queues[n]) \in Attempt
         /\ <<Head(command_queues[n]), n>> \in Cmd
         /\ Tail(command_queues[n]) \in Seq(Attempt)
         /\ \A i \in 1..Len(Tail(command_queues[n])) :
               /\ Tail(command_queues[n])[i] = command_queues[n][i + 1]
               /\ i + 1 \in 1..Len(command_queues[n])
  <1>1. command_queues[n] \in Seq(Attempt)
    BY NodeSideNow DEF NodeSide
  <1>2. /\ Head(command_queues[n]) \in Attempt
        /\ Tail(command_queues[n]) \in Seq(Attempt)
        /\ Len(Tail(command_queues[n])) = Len(command_queues[n]) - 1
        /\ \A i \in 1..Len(Tail(command_queues[n])) :
              Tail(command_queues[n])[i] = command_queues[n][i + 1]
    BY <1>1, HeadTailProperties
  <1>3. 1 \in 1..Len(command_queues[n]) /\ Head(command_queues[n]) = command_queues[n][1]
    BY <1>1, EmptySeq, LenProperties
  <1>4. \A i \in 1..Len(Tail(command_queues[n])) : i + 1 \in 1..Len(command_queues[n])
    BY <1>1, <1>2, LenProperties
  <1>5. command_queues[n][1] \in 1..Len(attempts)
    BY <1>3, NodeSideNow DEF CommandInv
  <1> QED BY <1>2, <1>3, <1>4, <1>5 DEF Cmd

\* A command leaves its queue for the agent, or for a dead stream
\* (cluster_manager.py:90-99).
LEMMA DeliverySteps ==
  ASSUME TypeInv, NEW n \in Nodes, DeliverCommand(n) \/ GhostTakes(n)
  PROVE  TypeInv'
  <1> DEFINE c == <<Head(command_queues[n]), n>>
  <1> USE NodeSideNow
  <1>1. /\ UNCHANGED offNode
        /\ command_queues[n] # <<>>
        /\ command_queues' = [command_queues EXCEPT ![n] = Tail(command_queues[n])]
    BY DEF DeliverCommand, GhostTakes
  <1>2. c \in Cmd /\ c[1] \in 1..Len(attempts) /\ c[1] \in Attempt /\ c[2] = n
    BY <1>1, HeadCommand
  <1>3. command_queues' \in [Nodes -> Seq(Attempt)]
    BY <1>1, HeadCommand DEF NodeSide
  <1>4. \A m \in Nodes : \A i \in 1..Len(command_queues'[m]) :
           command_queues'[m][i] \in 1..Len(attempts)
    <2>1. \A m \in Nodes : m # n => command_queues'[m] = command_queues[m]
      BY <1>1 DEF NodeSide
    <2>2. command_queues'[n] = Tail(command_queues[n])
      BY <1>1 DEF NodeSide
    <2> QED BY <1>1, <2>1, <2>2, HeadCommand DEF CommandInv
  <1>5. /\ NodeSide'
        /\ \A d \in Cmd : d # c => run'[d] = run[d]
    <2>1. CASE DeliverCommand(n)
      <3>1. agentStatus' = [agentStatus EXCEPT ![n] = "TRAINING"] /\ launch_torchrun(c)
            /\ UNCHANGED <<agent, heartbeat, nodeTable, registering, cmdNodes, ghost>>
        BY <1>2, <2>1 DEF DeliverCommand, LaunchJob
      <3>2. AgentTypeOK' /\ \A d \in Cmd : d # c => run'[d] = run[d]
        BY <1>2, <3>1 DEF launch_torchrun, NodeSide, AgentTypeOK, RunPhase
      <3> QED BY <1>3, <3>1, <3>2 DEF NodeSide, nodeTable
    <2>2. CASE GhostTakes(n)
      BY <1>2, <1>3, <2>2 DEF GhostTakes, NodeSide, AgentTypeOK, RunPhase, nodeTable
    <2> QED BY <2>1, <2>2
  <1>6. CommandInv'
    BY <1>1, <1>2, <1>4, <1>5 DEF CommandInv, offNode, reportVars
  <1> QED BY <1>1, <1>5, <1>6, OffNodeKeeps

\* Heartbeats (agent.py:62-85, cluster_manager.py:68-80), and what happens to
\* the node from outside.
LEMMA OutsideSteps ==
  ASSUME TypeInv, NEW n \in Nodes,
         \/ AgentHeartbeat(n) \/ SendHeartbeat(n) \/ HeartbeatFails(n)
         \/ Lapse(n) \/ JobProcessExits(n) \/ ConnectionBreaks(n) \/ NodeCrashes(n)
  PROVE  TypeInv'
  <1> USE NodeSideNow
  <1> USE DEF AgentHeartbeat, BuildHeartbeat, SendHeartbeat, HeartbeatReturns,
              HeartbeatFails, Lapse, JobProcessExits, ProcessExits, ConnectionBreaks,
              CutConnection, NodeCrashes, AgentCrash, commandVars, agentVars,
              nodeTable
  <1>1. UNCHANGED <<offNode, registering, command_queues>>
    OBVIOUS
  <1>2. NodeSide' /\ \A c \in Cmd : run'[c] # "none" => run[c] # "none"
    <2>1. CASE AgentHeartbeat(n)
      BY <2>1 DEF NodeSide, AgentTypeOK
    <2>2. CASE SendHeartbeat(n)
      BY <2>2 DEF update_heartbeat, NodeSide, AgentTypeOK, NodeStatus
    <2>3. CASE HeartbeatFails(n)
      BY <2>3 DEF NodeSide, AgentTypeOK
    <2>4. CASE Lapse(n)
      <3>1. expired' = [expired EXCEPT ![n] = TRUE]
            /\ UNCHANGED <<nodeStatus, agentVars, registering, commandVars>>
        BY <2>4
      <3> QED BY <3>1 DEF NodeSide, AgentTypeOK
    <2>5. CASE JobProcessExits(n)
      BY <2>5 DEF NodeSide, AgentTypeOK
    <2>6. CASE ConnectionBreaks(n)
      BY <2>6 DEF NodeSide, AgentTypeOK, AgentPhase, RunPhase, Streams
    <2>7. CASE NodeCrashes(n)
      BY <2>7 DEF NodeSide, AgentTypeOK, AgentPhase, RunPhase, Reporting
    <2> QED BY <2>1, <2>2, <2>3, <2>4, <2>5, <2>6, <2>7
  <1>3. CommandInv'
    BY <1>1, <1>2, CommandsKeep DEF offNode, reportVars
  <1> QED BY <1>1, <1>2, <1>3, OffNodeKeeps

-----------------------------------------------------------------------------
(* The steps of the scheduler thread. *)

\* The part of TypeOK the database and the queue hold.
StoreSide == RegistryTypeOK /\ queue \in Seq(Entry)

\* The part of TypeOK that only the scheduler and the gauges' callers touch.
SchedSide ==
    /\ schedPc \in {"pop", "mark", "select", "requeue", "reserve", "running", "send",
                   "dead"}
    /\ schedJob = <<>> \/ \E e \in Entry : schedJob = <<e>>
    /\ schedNodes \in Seq(Nodes)
    /\ schedIdx \in Nat
    /\ attempts \in Seq(Jobs) /\ Len(attempts) <= MaxDispatch
    /\ jobsQueued \in Int /\ jobsRunning \in Int

\* What TypeInv says of the variables of the scheduler.
LEMMA SchedSideNow ==
  TypeInv => StoreSide /\ SchedSide /\ SchedulerInv /\ CommandInv
  BY DEF TypeInv, TypeOK, StoreSide, SchedSide

\* A step of the scheduler up to the sending of commands leaves the rest alone.
LEMMA OffSchedKeeps ==
  ASSUME TypeInv, UNCHANGED offSched, StoreSide', SchedSide', SchedulerInv', CommandInv'
  PROVE  TypeInv'
  BY DEF TypeInv, TypeOK, AgentTypeOK, MonitorInv, StoreSide, SchedSide, offSched,
         agentVars, callVars, monVars, reportVars, commandVars

\* The registry's methods keep the types of its tables.
LEMMA RegistryTypes ==
  ASSUME RegistryTypeOK
  PROVE  /\ \A n \in Nodes, s \in NodeStatus :
               update_node_state(n, s) /\ UNCHANGED jobTable => RegistryTypeOK'
         /\ mark_offline_nodes /\ UNCHANGED jobTable => RegistryTypeOK'
         /\ \A j \in Jobs, s \in JobStatus :
               update_job_status(j, s) /\ UNCHANGED nodeTable => RegistryTypeOK'
         /\ \A j \in Jobs, s \in JobStatus, ns \in SUBSET Nodes :
               update_job_assigned(j, s, ns) /\ UNCHANGED nodeTable => RegistryTypeOK'
         /\ \A j \in Jobs, s \in JobStatus, k \in Nat :
               update_job_retries(j, s, k) /\ UNCHANGED nodeTable => RegistryTypeOK'
         /\ \A j \in Jobs :
               insert_job(j) /\ UNCHANGED nodeTable => RegistryTypeOK'
  <1> USE DEF RegistryTypeOK, nodeTable, jobTable
  <1>1. ASSUME NEW n \in Nodes, NEW s \in NodeStatus,
               update_node_state(n, s), UNCHANGED jobTable
        PROVE  RegistryTypeOK'
    BY <1>1 DEF update_node_state
  <1>2. ASSUME mark_offline_nodes, UNCHANGED jobTable
        PROVE  RegistryTypeOK'
    BY <1>2 DEF mark_offline_nodes, NodeStatus
  <1>3. ASSUME NEW j \in Jobs, NEW s \in JobStatus,
               update_job_status(j, s), UNCHANGED nodeTable
        PROVE  RegistryTypeOK'
    BY <1>3 DEF update_job_status
  <1>4. ASSUME NEW j \in Jobs, NEW s \in JobStatus, NEW ns \in SUBSET Nodes,
               update_job_assigned(j, s, ns), UNCHANGED nodeTable
        PROVE  RegistryTypeOK'
    BY <1>4 DEF update_job_assigned
  <1>5. ASSUME NEW j \in Jobs, NEW s \in JobStatus, NEW k \in Nat,
               update_job_retries(j, s, k), UNCHANGED nodeTable
        PROVE  RegistryTypeOK'
    BY <1>5 DEF update_job_retries
  <1>6. ASSUME NEW j \in Jobs, insert_job(j), UNCHANGED nodeTable
        PROVE  RegistryTypeOK'
    <2>1. Cardinality({i \in Jobs : jobStatus[i] # "ABSENT"}) \in Nat
      BY RegistryAssumption, FS_Subset, FS_CardinalityType
    <2> QED BY <1>6, <2>1 DEF insert_job, JobStatus
  <1> QED BY <1>1, <1>2, <1>3, <1>4, <1>5, <1>6

\* The scheduler loop up to the reservation of nodes (schedulers/base.py:40-51),
\* and its end by an exception.
LEMMA SelectionSteps ==
  ASSUME TypeInv, PopJob \/ SchedulerMarks \/ SelectNodes \/ RequeueJob \/ SchedulerDies
  PROVE  TypeInv'
  <1> USE SchedSideNow
  <1>1. UNCHANGED offSched /\ UNCHANGED <<attempts, gauges>>
    BY DEF PopJob, SchedulerMarks, SelectNodes, RequeueJob, SchedulerDies
  <1>2. StoreSide' /\ SchedSide' /\ SchedulerInv'
    <2>1. CASE PopJob
      <3>1. queue' \in Seq(Entry) /\ Head(queue) \in Entry
        BY <2>1, PopKeeps DEF PopJob, StoreSide
      <3>2. schedPc' = "mark" /\ schedJob' = <<Head(queue)>> /\ Len(attempts) < MaxDispatch
            /\ UNCHANGED <<nodeTable, jobTable, schedNodes, schedIdx>>
        BY <2>1 DEF PopJob, top
      <3> QED BY <1>1, <3>1, <3>2 DEF StoreSide, RegistryTypeOK, nodeTable, jobTable,
                                      SchedSide, SchedulerInv, gauges
    <2>2. CASE SchedulerMarks
      <3>1. RegistryTypeOK'
        BY <2>2, RegistryTypes DEF SchedulerMarks, StoreSide
      <3> QED BY <1>1, <2>2, <3>1 DEF SchedulerMarks, StoreSide, SchedSide,
                                      SchedulerInv, gauges
    <2>3. CASE SelectNodes
      <3> DEFINE k == Required[schedJob[1].job]
      <3>1. PICK e \in Entry : schedJob = <<e>>
        BY <2>3 DEF SelectNodes, SchedSide, SchedulerInv
      <3>2. k \in Nat
        BY <3>1, ManagerAssumption DEF Entry
      <3>3. \/ schedPc' = "requeue" /\ UNCHANGED <<schedNodes, schedIdx>>
            \/ /\ schedPc' = "reserve" /\ schedIdx' = 1 /\ k # 0
               /\ schedNodes' \in [1..k -> AvailableNodes]
        BY <2>3 DEF SelectNodes, allocate
      <3>4. \/ schedPc' = "requeue" /\ UNCHANGED <<schedNodes, schedIdx>>
            \/ /\ schedPc' = "reserve" /\ schedIdx' = 1
               /\ schedNodes' \in Seq(Nodes) /\ Len(schedNodes') > 0
        BY <3>2, <3>3 DEF AvailableNodes
      <3>5. schedPc = "select" /\ UNCHANGED <<nodeTable, jobTable, queue, schedJob>>
        BY <2>3 DEF SelectNodes
      <3> QED BY <1>1, <3>4, <3>5 DEF StoreSide, RegistryTypeOK, nodeTable, jobTable,
                                      SchedSide, SchedulerInv, gauges
    <2>4. CASE RequeueJob
      <3>1. PICK e \in Entry : schedJob = <<e>>
        BY <2>4 DEF RequeueJob, SchedSide, SchedulerInv
      <3>2. queue' \in Seq(Entry)
        BY <2>4, <3>1, RequeueKeeps DEF RequeueJob, StoreSide
      <3> QED BY <1>1, <2>4, <3>2 DEF RequeueJob, NextRound, StoreSide, RegistryTypeOK,
                                      nodeTable, jobTable, SchedSide, SchedulerInv, gauges
    <2>5. CASE SchedulerDies
      <3>1. schedNodes' \in Seq(Nodes)
        BY <2>5 DEF SchedulerDies
      <3> QED BY <1>1, <2>5, <3>1 DEF SchedulerDies, StoreSide, RegistryTypeOK, nodeTable,
                                      jobTable, SchedSide, SchedulerInv, gauges
    <2> QED BY <2>1, <2>2, <2>3, <2>4, <2>5
  <1>3. CommandInv'
    BY <1>1, CommandsKeep DEF offSched, reportVars, commandVars, agentVars
  <1> QED BY <1>1, <1>2, <1>3, OffSchedKeeps

\* Reservation (base.py:52-55) and dispatch_allocated_job up to its loop
\* (cluster_manager.py:205-228).
LEMMA DispatchSteps ==
  ASSUME TypeInv, ReserveNode \/ dispatch_allocated_job
  PROVE  TypeInv'
  <1> USE SchedSideNow
  <1>1. UNCHANGED offSched /\ UNCHANGED <<queue, schedJob, schedNodes>>
    BY DEF ReserveNode, dispatch_allocated_job
  <1>2. schedIdx \in 1..Len(schedNodes) /\ Len(schedNodes) \in Nat
        /\ schedNodes[schedIdx] \in Nodes
    BY DEF ReserveNode, dispatch_allocated_job, SchedulerInv, SchedSide
  <1>3. StoreSide' /\ SchedSide' /\ SchedulerInv' /\ CommandInv'
    <2>1. CASE ReserveNode
      <3>1. RegistryTypeOK'
        BY <1>2, <2>1, RegistryTypes DEF ReserveNode, StoreSide, NodeStatus
      <3>2. SchedSide' /\ SchedulerInv'
        BY <1>1, <1>2, <2>1 DEF ReserveNode, SchedSide, SchedulerInv, gauges
      <3>3. CommandInv'
        BY <2>1, CommandsKeep DEF ReserveNode, offSched, reportVars, commandVars, agentVars
      <3> QED BY <1>1, <3>1, <3>2, <3>3 DEF StoreSide
    <2>2. CASE dispatch_allocated_job
      <3> DEFINE j == schedJob[1].job
      <3>1. j \in Jobs
        BY <2>2 DEF dispatch_allocated_job, SchedSide, SchedulerInv, Entry
      <3>2. RegistryTypeOK'
        <4>1. {schedNodes[i] : i \in DOMAIN schedNodes} \in SUBSET Nodes
          BY LenProperties, ElementOfSeq DEF SchedSide
        <4>2. update_job_assigned(j, "RUNNING", {schedNodes[i] : i \in DOMAIN schedNodes})
              /\ UNCHANGED nodeTable
          BY <2>2 DEF dispatch_allocated_job
        <4>3. "RUNNING" \in JobStatus
          BY DEF JobStatus
        <4> QED BY <3>1, <4>1, <4>2, <4>3, RegistryTypes DEF StoreSide
      <3>3. attempts' \in Seq(Jobs) /\ Len(attempts') = Len(attempts) + 1
        BY <2>2, <3>1 DEF dispatch_allocated_job, SchedSide
      <3>4. Len(attempts) \in Nat /\ Len(attempts) < MaxDispatch
        BY <2>2 DEF dispatch_allocated_job, SchedSide, SchedulerInv
      <3>5. SchedSide' /\ SchedulerInv'
        <4>1. /\ schedPc = "running" /\ schedPc' = "send"
              /\ UNCHANGED <<schedJob, schedNodes, schedIdx>>
              /\ jobsQueued' = jobsQueued - 1 /\ jobsRunning' = jobsRunning + 1
          BY <2>2 DEF dispatch_allocated_job
        <4>2. Len(attempts') <= MaxDispatch /\ Len(attempts') > 0
          BY <3>3, <3>4, ManagerAssumption
        <4>3. SchedSide'
          BY <3>3, <4>1, <4>2 DEF SchedSide
        <4>4. SchedulerInv'
          BY <1>2, <4>1, <4>2 DEF SchedulerInv
        <4> QED BY <4>3, <4>4
      <3>6. CommandInv'
        BY <1>1, <3>3, <3>4 DEF CommandInv, offSched, reportVars, commandVars, agentVars
      <3> QED BY <1>1, <3>2, <3>5, <3>6 DEF StoreSide
    <2> QED BY <2>1, <2>2
  <1> QED BY <1>1, <1>3, OffSchedKeeps

\* The loop of dispatch_allocated_job (cluster_manager.py:228-248).
LEMMA SendSteps ==
  ASSUME TypeInv, send_command
  PROVE  TypeInv'
  <1> DEFINE n == schedNodes[schedIdx]
             a == Len(attempts)
  <1>1. schedIdx \in 1..Len(schedNodes) /\ Len(schedNodes) \in Nat /\ n \in Nodes
    BY SchedSideNow DEF send_command, SchedulerInv, SchedSide
  <1>2. a \in 1..Len(attempts) /\ a \in Attempt /\ <<a, n>> \in Cmd
    <2>1. a \in Nat /\ a > 0 /\ a <= MaxDispatch
      BY SchedSideNow, LenProperties DEF send_command, SchedulerInv, SchedSide
    <2> QED BY <1>1, <2>1, ManagerAssumption DEF Attempt, Cmd
  <1>3. /\ UNCHANGED <<nodeTable, jobTable, queue, agent, agentStatus, heartbeat, proc,
                       exit, up, callVars, monVars, reportVars, cmdNodes, ghost,
                       attempts, gauges>>
        /\ \/ run' = [run EXCEPT ![<<a, n>>] = "queued"]
           \/ run' = [run EXCEPT ![<<a, n>>] = "lost"]
        /\ \/ command_queues' = [command_queues EXCEPT ![n] = Append(command_queues[n], a)]
           \/ UNCHANGED command_queues
    BY DEF send_command
  <1>4. SchedSide' /\ SchedulerInv'
    <2>1. /\ schedPc = "send"
          /\ \/ /\ schedIdx < Len(schedNodes) /\ schedIdx' = schedIdx + 1
                /\ UNCHANGED <<schedPc, schedJob, schedNodes>>
             \/ NextRound
      BY DEF send_command
    <2>2. UNCHANGED <<attempts, gauges>>
      BY <1>3
    <2>3. CASE NextRound
      <3>1. schedNodes' \in Seq(Nodes) /\ schedIdx' \in Nat
        BY <2>3 DEF NextRound
      <3> QED BY <2>2, <2>3, <3>1, SchedSideNow DEF NextRound, SchedSide, SchedulerInv, gauges
    <2>4. CASE /\ schedIdx < Len(schedNodes) /\ schedIdx' = schedIdx + 1
               /\ UNCHANGED <<schedPc, schedJob, schedNodes>>
      BY <1>1, <2>2, <2>4, SchedSideNow DEF SchedSide, SchedulerInv, gauges
    <2> QED BY <2>1, <2>3, <2>4
  <1>5. /\ command_queues' \in [Nodes -> Seq(Attempt)]
        /\ \A m \in Nodes : \A i \in 1..Len(command_queues'[m]) :
              command_queues'[m][i] \in 1..Len(attempts)
    <2>1. CASE UNCHANGED command_queues
      BY <2>1, NodeSideNow DEF NodeSide, CommandInv
    <2>2. CASE command_queues' = [command_queues EXCEPT ![n] = Append(command_queues[n], a)]
      <3>1. command_queues[n] \in Seq(Attempt)
        BY <1>1, NodeSideNow DEF NodeSide
      <3>2. /\ Append(command_queues[n], a) \in Seq(Attempt)
            /\ \A i \in 1..Len(Append(command_queues[n], a)) :
                  Append(command_queues[n], a)[i] \in 1..Len(attempts)
        BY <1>1, <1>2, <3>1, NodeSideNow DEF CommandInv
      <3>3. \A m \in Nodes : command_queues'[m] = IF m = n THEN Append(command_queues[n], a)
                                                           ELSE command_queues[m]
        BY <2>2, NodeSideNow DEF NodeSide
      <3>4. command_queues' \in [Nodes -> Seq(Attempt)]
        BY <2>2, <3>2, NodeSideNow DEF NodeSide
      <3>5. ASSUME NEW m \in Nodes, NEW i \in 1..Len(command_queues'[m])
            PROVE  command_queues'[m][i] \in 1..Len(attempts)
        BY <3>2, <3>3, <3>5, NodeSideNow DEF CommandInv
      <3> QED BY <3>4, <3>5
    <2> QED BY <1>3, <2>1, <2>2
  <1>6. AgentTypeOK' /\ \A c \in Cmd : run'[c] # "none" => run[c] # "none" \/ c = <<a, n>>
    BY <1>2, <1>3, NodeSideNow DEF NodeSide, AgentTypeOK, RunPhase
  <1>7. CommandInv'
    BY <1>2, <1>3, <1>5, <1>6, NodeSideNow DEF CommandInv, reportVars
  <1> QED BY <1>3, <1>4, <1>5, <1>6, <1>7
          DEF TypeInv, TypeOK, RegistryTypeOK, nodeTable, jobTable, MonitorInv, SchedSide,
              callVars, monVars, reportVars

-----------------------------------------------------------------------------
(* Submissions, report calls and the monitor. *)

\* SubmitJob (cluster_manager.py:161-195).
LEMMA SubmissionSteps ==
  ASSUME TypeInv, NEW j \in Jobs, SubmitJob(j) \/ EnqueueJob(j)
  PROVE  TypeInv'
  <1> USE SchedSideNow
  <1>1. UNCHANGED <<nodeTable, agentVars, up, registering, schedVars, monVars, reportVars,
                    commandVars, attempts, jobsRunning>>
    BY DEF SubmitJob, EnqueueJob, gauges
  <1>2. StoreSide'
    <2>1. CASE SubmitJob(j)
      BY <2>1, RegistryTypes DEF SubmitJob, StoreSide
    <2>2. CASE EnqueueJob(j)
      <3>1. append_and_sort(Fresh(j)) /\ Fresh(j) \in Entry
        BY <2>2 DEF EnqueueJob, Fresh, Entry
      <3>2. queue' \in Seq(Entry)
        BY <3>1, AppendKeeps DEF StoreSide
      <3> QED BY <2>2, <3>2 DEF EnqueueJob, StoreSide, RegistryTypeOK, nodeTable, jobTable
    <2> QED BY <2>1, <2>2
  <1>3. submitting' \subseteq Jobs /\ jobsQueued' \in Int
    BY DEF SubmitJob, EnqueueJob, TypeInv, TypeOK, gauges
  <1>4. AgentTypeOK' /\ CommandInv'
    BY <1>1 DEF TypeInv, TypeOK, AgentTypeOK, CommandInv, agentVars, reportVars, commandVars
  <1>5. SchedulerInv' /\ MonitorInv'
    BY <1>1 DEF TypeInv, SchedulerInv, MonitorInv, schedVars, monVars
  <1> QED BY <1>1, <1>2, <1>3, <1>4, <1>5
          DEF TypeInv, TypeOK, StoreSide, schedVars, monVars, reportVars, commandVars

\* The part of TypeOK that a report call touches.
ReportSide ==
    /\ AgentTypeOK
    /\ handler \in [Cmd -> HandlerPhase]
    /\ seen \in [Cmd -> Nat]
    /\ jobsQueued \in Int /\ jobsRunning \in Int

\* What TypeInv says of the variables of a report call.
LEMMA ReportSideNow == TypeInv => StoreSide /\ ReportSide /\ CommandInv
  BY DEF TypeInv, TypeOK, ReportSide, StoreSide

\* A step of a report call leaves the rest alone.
LEMMA OffReportKeeps ==
  ASSUME TypeInv, UNCHANGED offReport, StoreSide', ReportSide', CommandInv'
  PROVE  TypeInv'
  BY DEF TypeInv, TypeOK, SchedulerInv, MonitorInv, StoreSide, ReportSide, offReport,
         callVars, schedVars, monVars, commandVars

\* A command with a history belongs to a dispatch of some job.
LEMMA JobOfCommand ==
  ASSUME TypeInv, NEW c \in Cmd, run[c] # "none" \/ handler[c] # "none"
  PROVE  attempts[c[1]] \in Jobs
  <1>1. c[1] \in 1..Len(attempts) /\ attempts \in Seq(Jobs)
    BY DEF TypeInv, TypeOK, CommandInv
  <1> QED BY <1>1, ElementOfSeq

\* ReportJobStatus up to its first write, and reports that do not arrive
\* (cluster_manager.py:105-119, :135-136, launcher.py:42-74).
LEMMA ReportSteps ==
  ASSUME TypeInv, NEW c \in Cmd,
         ReportFailed(c) \/ ReportCompleted(c) \/ ReportLost(c) \/ ExitIsRead(c)
  PROVE  TypeInv'
  <1> USE ReportSideNow
  <1>1. UNCHANGED offReport /\ UNCHANGED <<nodeTable, queue, gauges>>
    BY DEF ReportFailed, ReportCompleted, ReportLost, ExitIsRead
  <1>2. run[c] # "none"
    BY DEF ReportFailed, ReportCompleted, ReportLost, ExitIsRead,
           ReportStatus, ReportFails, GeneratorDropped, WaitReturns
  <1>3. attempts[c[1]] \in Jobs
    BY <1>2, JobOfCommand
  <1>4. /\ AgentTypeOK'
        /\ \A d \in Cmd : run'[d] # "none" => run[d] # "none"
    <2>1. /\ UNCHANGED <<agent, agentStatus, heartbeat, proc, exit>>
          /\ \E phase \in {"zero", "nonzero", "reported", "lost"} :
                run' = [run EXCEPT ![c] = phase]
      BY DEF ReportFailed, ReportCompleted, ReportLost, ExitIsRead,
             ReportStatus, ReportFails, GeneratorDropped, WaitReturns
    <2> QED BY <1>2, <2>1 DEF ReportSide, AgentTypeOK, RunPhase
  <1>5. StoreSide' /\ ReportSide' /\ \A d \in Cmd : handler'[d] # "none" => handler[d] # "none" \/ d = c
    <2>1. CASE ReportFailed(c)
      <3>1. retries[attempts[c[1]]] \in Nat
        BY <1>3 DEF StoreSide, RegistryTypeOK
      <3>2. /\ seen' = [seen EXCEPT ![c] = retries[attempts[c[1]]]]
            /\ \/ handler' = [handler EXCEPT ![c] = "retryIdle"]
               \/ handler' = [handler EXCEPT ![c] = "permFailed"]
            /\ UNCHANGED jobTable
        BY <2>1 DEF ReportFailed
      <3>3. ReportSide' /\ \A d \in Cmd : handler'[d] # "none" => handler[d] # "none" \/ d = c
        BY <1>1, <1>4, <3>1, <3>2 DEF ReportSide, HandlerPhase, gauges
      <3> QED BY <1>1, <3>2, <3>3 DEF StoreSide, RegistryTypeOK, nodeTable, jobTable
    <2>2. CASE ReportCompleted(c)
      <3>1. StoreSide'
        BY <1>1, <1>3, <2>2, RegistryTypes DEF ReportCompleted, StoreSide, JobStatus
      <3> QED BY <1>1, <1>4, <2>2, <3>1 DEF ReportCompleted, ReportSide, HandlerPhase, gauges
    <2>3. CASE ReportLost(c) \/ ExitIsRead(c)
      BY <1>1, <1>4, <2>3 DEF ReportLost, ExitIsRead, StoreSide, RegistryTypeOK, nodeTable, jobTable,
                              ReportSide, reportVars, gauges
    <2> QED BY <2>1, <2>2, <2>3
  <1>6. CommandInv'
    BY <1>1, <1>2, <1>4, <1>5 DEF CommandInv, offReport, commandVars
  <1> QED BY <1>1, <1>5, <1>6, OffReportKeeps

\* The rest of ReportJobStatus, with retry_job (cluster_manager.py:120-144,
\* queue.py:49-61), and its end by an exception.
LEMMA HandlerSteps ==
  ASSUME TypeInv, NEW c \in Cmd, HandlerStep(c) \/ HandlerRaises(c)
  PROVE  TypeInv'
  <1> USE ReportSideNow
  <1> DEFINE j == attempts[c[1]]
  <1>1. UNCHANGED offReport /\ UNCHANGED <<agentVars, jobsQueued>>
    BY DEF HandlerStep, RetryIdlesNode, RetryWrites, RetryQueues, PermanentlyFails,
           PermanentlyFailedIdlesNode, CompletedIdlesNode, HandlerRaises, gauges
  <1>2. handler[c] # "none" /\ c[2] \in Nodes
    BY DEF HandlerStep, RetryIdlesNode, RetryWrites, RetryQueues, PermanentlyFails,
           PermanentlyFailedIdlesNode, CompletedIdlesNode, HandlerRaises, Cmd
  <1>3. j \in Jobs /\ seen[c] + 1 \in Nat
    BY <1>2, JobOfCommand DEF ReportSide
  <1>4. /\ \E p \in HandlerPhase : handler' = [handler EXCEPT ![c] = p]
        /\ UNCHANGED seen \/ seen' = [seen EXCEPT ![c] = 0]
        /\ UNCHANGED jobsRunning \/ jobsRunning' = jobsRunning - 1
    BY DEF HandlerStep, RetryIdlesNode, RetryWrites, RetryQueues, PermanentlyFails,
           PermanentlyFailedIdlesNode, CompletedIdlesNode, HandlerRaises, gauges,
           HandlerPhase
  <1>5. ReportSide' /\ \A d \in Cmd : handler'[d] # "none" => handler[d] # "none" \/ d = c
    BY <1>1, <1>2, <1>4 DEF ReportSide, AgentTypeOK, agentVars
  <1>6. StoreSide'
    <2>1. CASE RetryIdlesNode(c) \/ PermanentlyFailedIdlesNode(c) \/ CompletedIdlesNode(c)
      <3>1. update_node_state(c[2], "IDLE") /\ UNCHANGED <<jobTable, queue>>
        BY <2>1 DEF RetryIdlesNode, PermanentlyFailedIdlesNode, CompletedIdlesNode
      <3> QED BY <1>2, <3>1, RegistryTypes DEF StoreSide, NodeStatus
    <2>2. CASE RetryWrites(c)
      BY <1>3, <2>2, RegistryTypes DEF RetryWrites, StoreSide, JobStatus
    <2>3. CASE RetryQueues(c)
      <3>1. append_and_sort(Row(j)) /\ Row(j) \in Entry /\ UNCHANGED <<nodeTable, jobTable>>
        BY <1>3, <2>3 DEF RetryQueues, Row, Entry
      <3>2. queue' \in Seq(Entry)
        BY <3>1, AppendKeeps DEF StoreSide
      <3> QED BY <3>1, <3>2 DEF StoreSide, RegistryTypeOK, nodeTable, jobTable
    <2>4. CASE PermanentlyFails(c)
      BY <1>3, <2>4, RegistryTypes DEF PermanentlyFails, StoreSide, JobStatus
    <2>5. CASE HandlerRaises(c)
      BY <2>5 DEF HandlerRaises, StoreSide, RegistryTypeOK, nodeTable, jobTable
    <2> QED BY <2>1, <2>2, <2>3, <2>4, <2>5 DEF HandlerStep
  <1>7. CommandInv'
    BY <1>1, <1>2, <1>5 DEF CommandInv, offReport, commandVars, agentVars
  <1> QED BY <1>1, <1>5, <1>6, <1>7, OffReportKeeps

\* The part of TypeOK that the monitor touches.
MonSide ==
    /\ monPc \in {"scan", "jobs", "handle", "append", "mark", "count", "dead"}
    /\ monOffline \subseteq Nodes /\ monJobs \subseteq Jobs
    /\ monJob = <<>> \/ \E j \in Jobs : monJob = <<j>>
    /\ monSeen \in [Jobs -> Nat]

\* What TypeInv says of the variables of the monitor.
LEMMA MonSideNow == TypeInv => StoreSide /\ MonSide /\ MonitorInv
  BY DEF TypeInv, TypeOK, MonSide, StoreSide

\* A step of the monitor leaves the rest alone.
LEMMA OffMonitorKeeps ==
  ASSUME TypeInv, UNCHANGED offMonitor, StoreSide', MonSide', MonitorInv'
  PROVE  TypeInv'
  BY DEF TypeInv, TypeOK, AgentTypeOK, SchedulerInv, CommandInv, StoreSide, MonSide,
         offMonitor, agentVars, callVars, schedVars, reportVars, commandVars, gauges

\* monitor_nodes (cluster_manager.py:308-356), its end by an exception, and the
\* other callers of mark_offline_nodes.
LEMMA MonitorSteps ==
  ASSUME TypeInv, MonitorStep \/ MonitorDies \/ ProbeMarks
  PROVE  TypeInv'
  <1> USE MonSideNow
  <1>1. CASE ProbeMarks
    <2>1. StoreSide'
      BY <1>1, RegistryTypes DEF ProbeMarks, StoreSide
    <2>2. UNCHANGED <<offMonitor, monVars>>
      BY <1>1 DEF ProbeMarks
    <2> QED BY <2>1, <2>2, OffMonitorKeeps DEF MonSide, MonitorInv, monVars
  <1>2. CASE MonitorScans
    <2>1. UNCHANGED offMonitor /\ StoreSide'
      BY <1>2 DEF MonitorScans, StoreSide, RegistryTypeOK, nodeTable, jobTable
    <2>2. MonSide' /\ MonitorInv'
      BY <1>2 DEF MonitorScans, MonSide, MonitorInv
    <2> QED BY <2>1, <2>2, OffMonitorKeeps
  <1>3. CASE MonitorReadsJobs
    <2>1. UNCHANGED offMonitor /\ StoreSide'
      BY <1>3 DEF MonitorReadsJobs, StoreSide, RegistryTypeOK, nodeTable, jobTable
    <2>2. MonSide' /\ MonitorInv'
      BY <1>3 DEF MonitorReadsJobs, MonSide, MonitorInv, get_jobs, StoreSide, RegistryTypeOK
    <2> QED BY <2>1, <2>2, OffMonitorKeeps
  <1>4. CASE MonitorQueues
    <2>1. PICK j \in Jobs : monJob = <<j>>
      BY <1>4 DEF MonitorQueues, MonSide, MonitorInv
    <2>2. append_and_sort(Row(j)) /\ Row(j) \in Entry
      BY <1>4, <2>1 DEF MonitorQueues, Row, Entry
    <2>3. queue' \in Seq(Entry)
      BY <2>2, AppendKeeps DEF StoreSide
    <2>4. UNCHANGED offMonitor /\ StoreSide'
      BY <1>4, <2>3 DEF MonitorQueues, StoreSide, RegistryTypeOK, nodeTable, jobTable
    <2>5. MonSide' /\ MonitorInv'
      BY <1>4 DEF MonitorQueues, MonSide, MonitorInv
    <2> QED BY <2>4, <2>5, OffMonitorKeeps
  <1>5. CASE MonitorDone
    <2>1. UNCHANGED offMonitor /\ StoreSide'
      BY <1>5 DEF MonitorDone, StoreSide, RegistryTypeOK, nodeTable, jobTable
    <2>2. MonSide' /\ MonitorInv'
      BY <1>5 DEF MonitorDone, MonSide, MonitorInv
    <2> QED BY <2>1, <2>2, OffMonitorKeeps
  <1>6. CASE MonitorMarks
    <2>1. UNCHANGED offMonitor /\ StoreSide'
      BY <1>6, RegistryTypes DEF MonitorMarks, StoreSide
    <2>2. MonSide' /\ MonitorInv'
      BY <1>6 DEF MonitorMarks, MonSide, MonitorInv
    <2> QED BY <2>1, <2>2, OffMonitorKeeps
  <1>7. ASSUME NEW j \in Jobs, MonitorRetries(j)
        PROVE  TypeInv'
    <2>1. monSeen[j] + 1 \in Nat
      BY DEF MonSide
    <2>2. UNCHANGED offMonitor /\ StoreSide'
      BY <1>7, <2>1, RegistryTypes DEF MonitorRetries, StoreSide, JobStatus
    <2>3. MonSide' /\ MonitorInv'
      BY <1>7 DEF MonitorRetries, MonSide, MonitorInv
    <2> QED BY <2>2, <2>3, OffMonitorKeeps
  <1>8. ASSUME NEW j \in Jobs, MonitorFails(j)
        PROVE  TypeInv'
    <2>1. UNCHANGED offMonitor /\ StoreSide'
      BY <1>8, RegistryTypes DEF MonitorFails, StoreSide, JobStatus
    <2>2. MonSide' /\ MonitorInv'
      BY <1>8 DEF MonitorFails, MonSide, MonitorInv
    <2> QED BY <2>1, <2>2, OffMonitorKeeps
  <1>9. CASE MonitorDies
    <2>1. UNCHANGED offMonitor /\ StoreSide'
      BY <1>9 DEF MonitorDies, StoreSide, RegistryTypeOK, nodeTable, jobTable
    <2>2. MonSide' /\ MonitorInv'
      BY <1>9 DEF MonitorDies, MonSide, MonitorInv
    <2> QED BY <2>1, <2>2, OffMonitorKeeps
  <1> QED BY <1>1, <1>2, <1>3, <1>4, <1>5, <1>6, <1>7, <1>8, <1>9 DEF MonitorStep

-----------------------------------------------------------------------------
(* The manager process, and the theorem. *)

\* A crash of the manager, and serve() on the surviving database
\* (cluster_manager.py:251-263, queue.py:15-20).
LEMMA ManagerSteps ==
  ASSUME TypeInv, ManagerCrashes \/ ManagerRestarts
  PROVE  TypeInv'
  <1>1. CASE ManagerCrashes
    <2> USE <1>1 DEF ManagerCrashes
    <2>1. AgentTypeOK' /\ \A c \in Cmd : run'[c] # "none" => run[c] # "none"
      BY NodeSideNow DEF ManagerGone, NodeSide, AgentTypeOK, AgentPhase, RunPhase
    <2>2. StoreSide' /\ SchedSide' /\ SchedulerInv'
      <3>1. queue' \in Seq(Entry) /\ schedNodes' \in Seq(Nodes)
        BY DEF NextRound
      <3> QED BY <3>1, SchedSideNow DEF NextRound, StoreSide, RegistryTypeOK, nodeTable,
                                        jobTable, SchedSide, SchedulerInv
    <2>3. MonSide' /\ MonitorInv'
      BY DEF MonSide, MonitorInv
    <2>4. handler' \in [Cmd -> HandlerPhase] /\ seen' \in [Cmd -> Nat]
      BY DEF HandlerPhase
    <2>5. command_queues' \in [Nodes -> Seq(Attempt)]
      <3>1. <<>> \in Seq(Attempt)
        OBVIOUS
      <3> QED BY <3>1
    <2>6. CommandInv'
      <3>1. UNCHANGED attempts /\ \A c \in Cmd : handler'[c] = "none"
        OBVIOUS
      <3>2. \A n \in Nodes : Len(command_queues'[n]) = 0
        OBVIOUS
      <3> QED BY <2>1, <3>1, <3>2, NodeSideNow DEF CommandInv
    <2> QED BY <2>1, <2>2, <2>3, <2>4, <2>5, <2>6
            DEF TypeInv, TypeOK, StoreSide, SchedSide, MonSide
  <1>2. CASE ManagerRestarts
    <2> USE <1>2 DEF ManagerRestarts
    <2>1. StoreSide'
      BY RecoverFinds, SchedSideNow DEF StoreSide, RegistryTypeOK, nodeTable, jobTable
    <2> QED BY <2>1
            DEF TypeInv, TypeOK, StoreSide, AgentTypeOK, SchedulerInv, MonitorInv,
                CommandInv, agentVars, callVars, schedVars, monVars, reportVars,
                commandVars, gauges
  <1> QED BY <1>1, <1>2

\* The database, the queue, the threads and the agents start well typed.
LEMMA InitTypeInv == Init => TypeInv
  <1> HAVE Init
  <1> USE DEF Init
  <1>1. RegistryTypeOK
    BY DEF _init_db, RegistryTypeOK, NodeStatus, JobStatus
  <1>2. AgentTypeOK
    BY DEF AgentInit, AgentTypeOK, AgentPhase, RunPhase
  <1>3. queue \in Seq(Entry) /\ schedNodes \in Seq(Nodes) /\ attempts \in Seq(Jobs)
    OBVIOUS
  <1>4. command_queues \in [Nodes -> Seq(Attempt)]
    <2>1. <<>> \in Seq(Attempt)
      OBVIOUS
    <2> QED BY <2>1
  <1>5. CommandInv
    <2>1. \A c \in Cmd : run[c] = "none" /\ handler[c] = "none"
      BY DEF AgentInit
    <2>2. \A n \in Nodes : Len(command_queues[n]) = 0
      OBVIOUS
    <2> QED BY <2>1, <2>2 DEF CommandInv
  <1>6. SchedulerInv /\ MonitorInv
    BY DEF SchedulerInv, MonitorInv
  <1>7. Len(attempts) <= MaxDispatch
    BY ManagerAssumption
  <1>8. handler \in [Cmd -> HandlerPhase] /\ seen \in [Cmd -> Nat] /\ monSeen \in [Jobs -> Nat]
    BY DEF HandlerPhase
  <1> QED BY <1>1, <1>2, <1>3, <1>4, <1>5, <1>6, <1>7, <1>8 DEF TypeInv, TypeOK

\* Every step keeps TypeInv.
LEMMA NextTypeInv == TypeInv /\ [Next]_vars => TypeInv'
  <1> SUFFICES ASSUME TypeInv, [Next]_vars PROVE TypeInv'
    OBVIOUS
  <1>1. ASSUME NEW n \in Nodes, NodeStep(n) PROVE TypeInv'
    BY <1>1, StreamSteps, DeliverySteps, OutsideSteps DEF NodeStep
  <1>2. ASSUME NEW c \in Cmd, CommandStep(c) PROVE TypeInv'
    BY <1>2, ReportSteps, HandlerSteps DEF CommandStep, ReportJobStatus
  <1>3. ASSUME NEW j \in Jobs, SubmitJob(j) \/ EnqueueJob(j) PROVE TypeInv'
    BY <1>3, SubmissionSteps
  <1>4. CASE SchedulerStep \/ SchedulerDies
    BY <1>4, SelectionSteps, DispatchSteps, SendSteps DEF SchedulerStep
  <1>5. CASE MonitorStep \/ MonitorDies \/ ProbeMarks
    BY <1>5, MonitorSteps
  <1>6. CASE ManagerCrashes \/ ManagerRestarts
    BY <1>6, ManagerSteps
  <1>7. CASE UNCHANGED vars
    <2>1. UNCHANGED <<offMonitor, monVars, nodeTable, jobTable, queue>>
      BY <1>7 DEF vars, offMonitor
    <2>2. StoreSide' /\ MonSide' /\ MonitorInv'
      BY <2>1, MonSideNow DEF StoreSide, RegistryTypeOK, nodeTable, jobTable, MonSide,
                              MonitorInv, monVars
    <2> QED BY <2>1, <2>2, OffMonitorKeeps
  <1> QED BY <1>1, <1>2, <1>3, <1>4, <1>5, <1>6, <1>7 DEF Next

\* TypeInv holds throughout: the strengthening the other proofs start from.
THEOREM TypeInvariant == Spec => []TypeInv
  <1> QED BY InitTypeInv, NextTypeInv, PTL DEF Spec

\* Type correctness of the registry, the queue, the threads and the agents,
\* for any number of nodes, jobs, retries and faults.
THEOREM TypeCorrect == Spec => []TypeOK
  <1>1. TypeInv => TypeOK
    BY DEF TypeInv
  <1> QED BY <1>1, TypeInvariant, PTL
=============================================================================
