----------------------------- MODULE NodeAgent ------------------------------
(***************************************************************************)
(* The node agents: NodeAgent (dmlf/agent/agent.py) and its JobLauncher    *)
(* (dmlf/agent/launcher.py).  An agent has three threads: the main thread  *)
(* reads the command stream, a second one sends heartbeats, and each       *)
(* torchrun process has a log thread that streams its output and then      *)
(* reports how it ended.                                                   *)
(*                                                                         *)
(* A LAUNCH_JOB command is known by its address <<a, n>>: the a-th job     *)
(* dispatch of the manager, to node n.  run[<<a, n>>] is its life:         *)
(*   "none"       not sent                                                 *)
(*   "queued"     in the manager's command queue of n                      *)
(*   "streaming"  torchrun started, its log thread streams to the manager  *)
(*   "cut"        as "streaming", but the log stream has broken            *)
(*   "zero", "nonzero"  its log thread has read that exit code             *)
(*   "reported"   ReportJobStatus called                                   *)
(*   "lost"       nothing will ever be reported for it                     *)
(*                                                                         *)
(* The process table reduces to proc[n] and exit[n], the attempt and the   *)
(* exit code of JobLauncher.current_process: poll() and wait() look at no  *)
(* other process, not even at the one whose log thread calls them.         *)
(***************************************************************************)
EXTENDS NodeRegistry

CONSTANTS
    MaxDispatch,    \* bound: dispatches in a behaviour
    MayCrash,       \* nodes whose machine (or agent process) may crash
    MayCut          \* nodes whose connection to the manager may break

Attempt == 1..MaxDispatch
Cmd == Attempt \X Nodes

VARIABLES
    agent,          \* where the agent's main thread is
    agentStatus,    \* NodeAgent.status
    heartbeat,      \* status in the SendHeartbeat call under way, or "none"
    proc,           \* attempt current_process was started for, 0: None
    exit,           \* "none", "alive", or how current_process ended
    run             \* life of every LAUNCH_JOB command, above

agentVars == <<agent, agentStatus, heartbeat, proc, exit, run>>

\* "joining": in RegisterNode; "away": sleeping before the next
\* ListenForCommands; "cutoff": its stream broke and it has not noticed.
AgentPhase == {"off", "joining", "away", "listening", "cutoff", "dead"}
Registered(n) == agent[n] \in {"away", "listening", "cutoff"}
Unreported == {"streaming", "cut", "zero", "nonzero"}
RunPhase == {"none", "queued", "reported", "lost"} \cup Unreported

AgentTypeOK ==
    /\ agent \in [Nodes -> AgentPhase]
    /\ agentStatus \in [Nodes -> {"IDLE", "TRAINING", "OFFLINE"}]
    /\ heartbeat \in [Nodes -> {"none", "IDLE", "TRAINING", "OFFLINE"}]
    /\ proc \in [Nodes -> {0} \cup Attempt]
    /\ exit \in [Nodes -> {"none", "alive", "zero", "nonzero"}]
    /\ run \in [Cmd -> RunPhase]

AgentInit ==
    /\ agent = [n \in Nodes |-> "off"]
    /\ agentStatus = [n \in Nodes |-> "IDLE"]
    /\ heartbeat = [n \in Nodes |-> "none"]
    /\ proc = [n \in Nodes |-> 0]
    /\ exit = [n \in Nodes |-> "none"]
    /\ run = [c \in Cmd |-> "none"]

\* The log threads of n that still hold a stream to the manager.
Streams(n) == {c \in Cmd : c[2] = n /\ run[c] = "streaming"}
Reporting(n) == {c \in Cmd : c[2] = n /\ run[c] \in Unreported}

-----------------------------------------------------------------------------
(* The main thread: register, listen, launch. *)

\* start() calls register(); the manager is writing the node's row.
Register(n) ==
    /\ agent[n] = "off"
    /\ agent' = [agent EXCEPT ![n] = "joining"]
    /\ UNCHANGED <<agentStatus, heartbeat, proc, exit, run>>

\* The response arrives, if the agent is still there.
Registers(n) ==
    /\ agent' = [agent EXCEPT ![n] = IF @ = "joining" THEN "away" ELSE @]
    /\ UNCHANGED <<agentStatus, heartbeat, proc, exit, run>>

\* listen_for_commands opens the stream.
Listen(n) ==
    /\ agent[n] = "away"
    /\ agent' = [agent EXCEPT ![n] = "listening"]
    /\ UNCHANGED <<agentStatus, heartbeat, proc, exit, run>>

\* Its except clause: the stream broke, or could not be opened.  The status
\* stays "OFFLINE" after the reconnect.
Disconnected(n) ==
    /\ agent[n] \in {"cutoff", "away"}
    /\ agent' = [agent EXCEPT ![n] = "away"]
    /\ agentStatus' = [agentStatus EXCEPT ![n] = "OFFLINE"]
    /\ UNCHANGED <<heartbeat, proc, exit, run>>

\* launch_torchrun: the command is dropped while the last process is alive.
launch_torchrun(c) ==
    LET busy == exit[c[2]] = "alive"
    IN  /\ proc' = IF busy THEN proc ELSE [proc EXCEPT ![c[2]] = c[1]]
        /\ exit' = [exit EXCEPT ![c[2]] = "alive"]
        /\ run' = [run EXCEPT ![c] = IF busy THEN "lost" ELSE "streaming"]

\* The loop body for LAUNCH_JOB: the status is TRAINING from here on, launched
\* or not.  (The manager never sends the other command, STOP_JOB.)
LaunchJob(c) ==
    /\ agent[c[2]] = "listening"
    /\ agentStatus' = [agentStatus EXCEPT ![c[2]] = "TRAINING"]
    /\ launch_torchrun(c)
    /\ UNCHANGED <<agent, heartbeat>>

-----------------------------------------------------------------------------
(* The heartbeat thread: one synchronous call at a time, carrying the      *)
(* status read when the request was built.                                 *)

BuildHeartbeat(n) ==
    /\ Registered(n)
    /\ heartbeat[n] = "none"
    /\ heartbeat' = [heartbeat EXCEPT ![n] = agentStatus[n]]
    /\ UNCHANGED <<agent, agentStatus, proc, exit, run>>

\* The call returns, or fails with the RpcError the loop swallows.
HeartbeatReturns(n) ==
    /\ heartbeat[n] # "none"
    /\ heartbeat' = [heartbeat EXCEPT ![n] = "none"]
    /\ UNCHANGED <<agent, agentStatus, proc, exit, run>>

-----------------------------------------------------------------------------
(* torchrun and its log thread. *)

ProcessExits(n) ==
    /\ exit[n] = "alive"
    /\ \E code \in {"zero", "nonzero"} : exit' = [exit EXCEPT ![n] = code]
    /\ UNCHANGED <<agent, agentStatus, heartbeat, proc, run>>

\* log_generator after the last line of its own process: wait() on
\* self.current_process, which may be a later process by then.
WaitReturns(c) ==
    /\ run[c] \in {"streaming", "cut"}
    /\ exit[c[2]] \in {"zero", "nonzero"}
    /\ run' = [run EXCEPT ![c] = exit[c[2]]]
    /\ UNCHANGED <<agent, agentStatus, heartbeat, proc, exit>>

\* Mutant: the report is sent again and again.
ReportStatus_repeats(c) ==
    /\ run[c] \in {"zero", "nonzero"}
    /\ UNCHANGED agentVars

\* The report, of the exit code it has kept.
ReportStatus(c) ==
    /\ run[c] \in {"zero", "nonzero"}
    /\ run' = [run EXCEPT ![c] = "reported"]
    /\ UNCHANGED <<agent, agentStatus, heartbeat, proc, exit>>

\* The call raises, and nobody makes it again.
ReportFails(c) ==
    /\ run[c] \in {"zero", "nonzero"}
    /\ run' = [run EXCEPT ![c] = "lost"]
    /\ UNCHANGED <<agent, agentStatus, heartbeat, proc, exit>>

\* gRPC drops the generator of a broken stream, or of one the manager refused:
\* what follows the loop never runs.
GeneratorDropped(c) ==
    /\ run[c] \in {"streaming", "cut"}
    /\ run' = [run EXCEPT ![c] = "lost"]
    /\ UNCHANGED <<agent, agentStatus, heartbeat, proc, exit>>

-----------------------------------------------------------------------------
(* The environment. *)

\* The channel of n breaks under its command stream and its log streams.
CutConnection(n) ==
    /\ n \in MayCut
    /\ agent[n] = "listening"
    /\ agent' = [agent EXCEPT ![n] = "cutoff"]
    /\ run' = [c \in Cmd |-> IF c \in Streams(n) THEN "cut" ELSE run[c]]
    /\ UNCHANGED <<agentStatus, heartbeat, proc, exit>>

\* The machine of n goes down for good: an agent started on it again
\* registers under a new id, hence is another member of Nodes.
AgentCrash(n) ==
    /\ n \in MayCrash
    /\ agent[n] \notin {"off", "dead"}
    /\ agent' = [agent EXCEPT ![n] = "dead"]
    /\ proc' = [proc EXCEPT ![n] = 0]
    /\ exit' = [exit EXCEPT ![n] = "none"]
    /\ run' = [c \in Cmd |-> IF c \in Reporting(n) THEN "lost" ELSE run[c]]
    /\ UNCHANGED <<agentStatus, heartbeat>>

\* The manager goes down: every call and stream fails, a registering agent
\* gives up, commands not yet delivered are gone.
ManagerGone ==
    /\ agent' = [n \in Nodes |->
                    CASE agent[n] = "joining" -> "dead"
                      [] agent[n] = "listening" -> "cutoff"
                      [] OTHER -> agent[n]]
    /\ heartbeat' = [n \in Nodes |-> "none"]
    /\ run' = [c \in Cmd |->
                  CASE run[c] = "queued" -> "lost"
                    [] run[c] = "streaming" -> "cut"
                    [] OTHER -> run[c]]
    /\ UNCHANGED <<agentStatus, proc, exit>>
=============================================================================
