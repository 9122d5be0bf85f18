--------------------------- MODULE FailureDetector ---------------------------
(***************************************************************************)
(* The clocks behind "this node is gone": the heartbeat loop of an agent   *)
(* (dmlf/agent/agent.py), the time stamps of the nodes table and the two   *)
(* timeouts they are held against, 15 s in mark_offline_nodes whatever the *)
(* settings say (dmlf/manager/node_registry.py), offline_timeout_sec in    *)
(* the monitor's own query (dmlf/manager/cluster_manager.py).              *)
(*                                                                         *)
(* Time is a number of ticks, kept as ages and as clocks of what is under  *)
(* way; Tick moves them all, and may not move them past an instant at      *)
(* which something must have happened.  What the code leaves open has a    *)
(* bound as CONSTANT: the duration of a call, of a pass of the monitor, of *)
(* a run of lost heartbeats.  A row's status is reduced to DISCONNECTED or *)
(* not, as heartbeats and mark_offline_nodes leave it; the other writers   *)
(* of that column are in ClusterManager.                                   *)
(***************************************************************************)
EXTENDS Naturals

CONSTANTS
    Nodes,
    HeartbeatInterval,  \* the agent's sleep between two heartbeats
    MarkAfter,          \* timeout_seconds of mark_offline_nodes
    OfflineTimeout,     \* offline_timeout_sec
    CheckInterval,      \* node_check_interval_sec
    MaxDelay,           \* bound: a call, from sleep to sleep
    MaxPass,            \* bound: a pass of the monitor
    MaxLost,            \* bound: heartbeats of a node lost in a row
    MayDie              \* nodes that may die

ASSUME DetectorAssumption ==
    /\ {HeartbeatInterval, MarkAfter, OfflineTimeout, CheckInterval} \subseteq Nat \ {0}
    /\ {MaxDelay, MaxPass, MaxLost} \subseteq Nat
    /\ MayDie \subseteq Nodes

VARIABLES
    alive,      \* nodes whose agent runs, or has yet to be started
    call,       \* what the heartbeat loop of a node is at
    clock,      \* how long it has been at this sleep, or at this call
    lost,       \* heartbeats lost since the last that arrived
    stamp,      \* age of the timestamp of the update_heartbeat under way
    age,        \* age of the row's last_heartbeat
    marked,     \* rows that are DISCONNECTED
    monPc,      \* where the monitor is
    monClock,   \* how long it has slept, or been at this pass
    noticed     \* history: rows its query has found since their last heartbeat

nodeVars == <<alive, call, clock, lost, stamp>>
monVars == <<monPc, monClock, noticed>>
vars == <<nodeVars, age, marked, monVars>>

\* "off": not registered; "sent": the request is under way; "stamped":
\* update_heartbeat has taken the time and not committed; "acked": the response
\* is under way; "down": dead, with nothing under way.
Phase == {"off", "sleep", "sent", "stamped", "acked", "down"}
Known(n) == call[n] # "off"

\* Ages are not told apart from here on.
Horizon == MarkAfter + OfflineTimeout + CheckInterval + MaxPass + MaxDelay + 1

TypeOK ==
    /\ alive \subseteq Nodes /\ marked \subseteq Nodes /\ noticed \subseteq Nodes
    /\ call \in [Nodes -> Phase]
    /\ clock \in [Nodes -> 0..(HeartbeatInterval + MaxDelay)]
    /\ lost \in [Nodes -> 0..MaxLost]
    /\ stamp \in [Nodes -> 0..MaxDelay]
    /\ age \in [Nodes -> 0..Horizon]
    /\ monPc \in {"sleep", "mark", "count"}
    /\ monClock \in 0..(CheckInterval + MaxPass)

Init ==
    /\ alive = Nodes /\ marked = {} /\ noticed = {}
    /\ call = [n \in Nodes |-> "off"]
    /\ clock = [n \in Nodes |-> 0]
    /\ lost = [n \in Nodes |-> 0]
    /\ stamp = [n \in Nodes |-> 0]
    /\ age = [n \in Nodes |-> 0]
    /\ monPc = "sleep" /\ monClock = CheckInterval

-----------------------------------------------------------------------------
(* The agent and the handler of its call. *)

Goes(n, phase) == call' = [call EXCEPT ![n] = phase]
Restarts(n) == clock' = [clock EXCEPT ![n] = 0]

\* RegisterNode's row; its response starts the heartbeat thread.
Joins(n) ==
    /\ call[n] = "off"
    /\ Goes(n, "acked") /\ Restarts(n)
    /\ age' = [age EXCEPT ![n] = 0]
    /\ UNCHANGED <<alive, lost, stamp, marked, monVars>>

\* The sleep is over.
Sends(n) ==
    /\ call[n] = "sleep"
    /\ clock[n] = HeartbeatInterval
    /\ Goes(n, "sent") /\ Restarts(n)
    /\ UNCHANGED <<alive, lost, stamp, age, marked, monVars>>

\* RpcError, which the loop swallows: the request is lost, or its handler raises.
Loses(n) ==
    /\ call[n] \in {"sent", "stamped"}
    /\ lost[n] < MaxLost
    /\ lost' = [lost EXCEPT ![n] = @ + 1]
    /\ Goes(n, IF n \in alive THEN "sleep" ELSE "down") /\ Restarts(n)
    /\ UNCHANGED <<alive, stamp, age, marked, monVars>>

\* Mutant: the time of an earlier call is kept.
Stamps_stale(n) ==
    /\ call[n] = "sent"
    /\ Goes(n, "stamped")
    /\ UNCHANGED <<alive, clock, lost, stamp, age, marked, monVars>>

\* timestamp = time.time(), before the connection is opened.
Stamps(n) ==
    /\ call[n] = "sent"
    /\ Goes(n, "stamped")
    /\ stamp' = [stamp EXCEPT ![n] = 0]
    /\ UNCHANGED <<alive, clock, lost, age, marked, monVars>>

\* Mutant: the status is written and the time is not.
update_heartbeat_timeless(n) ==
    /\ marked' = marked \ {n}
    /\ UNCHANGED age

\* The transaction.
update_heartbeat(n) ==
    /\ age' = [age EXCEPT ![n] = stamp[n]]
    /\ marked' = marked \ {n}

Commits(n) ==
    /\ call[n] = "stamped"
    /\ update_heartbeat(n)
    /\ noticed' = noticed \ {n}
    /\ lost' = [lost EXCEPT ![n] = 0]
    /\ Goes(n, IF n \in alive THEN "acked" ELSE "down")
    /\ UNCHANGED <<alive, clock, stamp, monPc, monClock>>

Returns(n) ==
    /\ call[n] = "acked"
    /\ Goes(n, "sleep") /\ Restarts(n)
    /\ UNCHANGED <<alive, lost, stamp, age, marked, monVars>>

\* The machine goes down; a request already sent still arrives.
Dies(n) ==
    /\ n \in MayDie \cap alive
    /\ Known(n)
    /\ alive' = alive \ {n}
    /\ IF call[n] \in {"sent", "stamped"} THEN UNCHANGED call ELSE Goes(n, "down")
    /\ UNCHANGED <<clock, lost, stamp, age, marked, monVars>>

-----------------------------------------------------------------------------
(* The two tests of last_heartbeat. *)

\* The WHERE clause of mark_offline_nodes.
Overdue(n) == Known(n) /\ age[n] > MarkAfter

\* Mutant: <= for <.
Suspected_inclusive(n) == Known(n) /\ n \notin marked /\ age[n] >= OfflineTimeout

\* Mutant: the 15 s of mark_offline_nodes.
Suspected_late(n) == Known(n) /\ n \notin marked /\ age[n] > MarkAfter

\* The monitor's SELECT.
Suspected(n) == Known(n) /\ n \notin marked /\ age[n] > OfflineTimeout

mark_offline_nodes ==
    /\ marked' = marked \cup {n \in Nodes : Overdue(n)}
    /\ UNCHANGED <<nodeVars, age>>

\* Top of the monitor's loop; what it does with the jobs of the nodes it finds
\* is in ClusterManager.
MonitorScans ==
    /\ monPc = "sleep"
    /\ monClock = CheckInterval
    /\ noticed' = noticed \cup {n \in Nodes : Suspected(n)}
    /\ monPc' = "mark" /\ monClock' = 0
    /\ UNCHANGED <<nodeVars, age, marked>>

\* Mutant: the marking is left to the other callers.
MonitorMarks_not ==
    /\ monPc = "mark"
    /\ monPc' = "sleep" /\ monClock' = 0
    /\ UNCHANGED <<nodeVars, age, marked, noticed>>

\* mark_offline_nodes, and once more inside get_all_nodes.
MonitorMarks ==
    /\ mark_offline_nodes
    /\ \/ monPc = "mark" /\ monPc' = "count" /\ UNCHANGED monClock
       \/ monPc = "count" /\ monPc' = "sleep" /\ monClock' = 0
    /\ UNCHANGED noticed

\* The scheduler, /ready, /cluster and the autoscaler, whenever it changes a row.
ProbeMarks ==
    /\ mark_offline_nodes
    /\ marked' # marked
    /\ UNCHANGED monVars

-----------------------------------------------------------------------------
(* Time. *)

\* How long a node may stay where it is.
Limit(n) ==
    CASE call[n] \in {"off", "down"} -> MaxDelay + HeartbeatInterval + 1
      [] call[n] = "sleep" -> HeartbeatInterval
      [] OTHER -> MaxDelay
MonitorLimit == IF monPc = "sleep" THEN CheckInterval ELSE MaxPass

Tick ==
    /\ \A n \in Nodes : clock[n] < Limit(n)
    /\ monClock < MonitorLimit
    /\ clock' = [n \in Nodes |->
                    IF call[n] \in {"off", "down"} THEN clock[n] ELSE clock[n] + 1]
    /\ stamp' = [n \in Nodes |-> IF call[n] = "stamped" THEN stamp[n] + 1 ELSE stamp[n]]
    /\ age' = [n \in Nodes |->
                  IF Known(n) /\ age[n] < Horizon THEN age[n] + 1 ELSE age[n]]
    /\ monClock' = monClock + 1
    /\ UNCHANGED <<alive, call, lost, marked, monPc, noticed>>

NodeStep(n) ==
    \/ Joins(n) \/ Sends(n) \/ Loses(n) \/ Stamps(n) \/ Commits(n) \/ Returns(n)
    \/ Dies(n)

Next ==
    \/ \E n \in Nodes : NodeStep(n)
    \/ MonitorScans \/ MonitorMarks \/ ProbeMarks
    \/ Tick

Spec == Init /\ [][Next]_vars

-----------------------------------------------------------------------------
(* Properties. *)

\* The longest a row of a live node goes without a new time, and the settings
\* for which the code takes no live node for dead.
Period == HeartbeatInterval + MaxDelay
Missed(k) == k * Period
Longest == Missed(MaxLost) + Period + MaxDelay
Accurate == Longest <= MarkAfter /\ Longest <= OfflineTimeout

\* A live node is neither marked DISCONNECTED nor found by the monitor, which
\* would start its job a second time, although each heartbeat is late by the
\* age its stamp had at the commit, and some are lost.
LiveNodeKept == Accurate => alive \cap (marked \cup noticed) = {}

\* The settings for which no reader hides a dead node from the monitor.  Those
\* that are shipped (15 s, 10 s against 15 s) are not among them.
Timely == MaxDelay <= OfflineTimeout /\ OfflineTimeout + CheckInterval + MaxPass <= MarkAfter

\* However often anyone calls mark_offline_nodes, a row is DISCONNECTED only
\* after the monitor's query has found it and its jobs were looked for.
SeenBeforeMarked == Timely => marked \subseteq noticed

\* A node that is gone is DISCONNECTED in bounded time, with no reader's help.
DetectedInTime ==
    MaxDelay <= MarkAfter =>
        \A n \in Nodes : age[n] > MarkAfter + CheckInterval + MaxPass => n \in marked

\* For settings that are Accurate the clocks implement the untimed rule on which
\* the model of the Cluster Manager is built.
Untimed == INSTANCE NodeLiveness WITH
              beating <- {n \in Nodes : call[n] \in {"sent", "stamped"}},
              expired <- {n \in Nodes : Overdue(n)}
LapsesOnlyDead == Untimed!Spec

-----------------------------------------------------------------------------
(* Why the properties hold: bounds on the age of each row, inductive        *)
(* together with TypeOK (FailureDetectorProofs).                            *)

\* Where each loop is bounds its clock, and tells who is alive.
Paced ==
    /\ monClock <= MonitorLimit
    /\ \A n \in Nodes :
          /\ call[n] \in {"off", "sleep", "acked"} => n \in alive
          /\ call[n] = "down" => n \notin alive
          /\ call[n] # "down" => clock[n] <= Limit(n)
          /\ call[n] = "stamped" => stamp[n] <= clock[n]
          /\ call[n] = "off" => age[n] = 0 /\ lost[n] = 0 /\ n \notin marked \cup noticed

\* The age of a row, from the clock of the node's loop and its lost heartbeats.
Fresh ==
    \A n \in Nodes :
        /\ call[n] = "sleep" => age[n] <= clock[n] + MaxDelay + Missed(lost[n])
        /\ call[n] \in {"sent", "stamped"} => age[n] <= clock[n] + Period + Missed(lost[n])
        /\ call[n] = "acked" => age[n] <= clock[n] /\ lost[n] = 0

Kept ==
    Accurate => \A n \in Nodes : call[n] # "down" => n \notin marked \cup noticed

\* The age of a row that the monitor has not found, from the clock of the monitor.
Watched ==
    Timely =>
        /\ marked \subseteq noticed
        /\ \A n \in Nodes \ noticed :
              age[n] <= OfflineTimeout + monClock + (IF monPc = "sleep" THEN MaxPass ELSE 0)

\* The age of a row that is not marked.
Swept ==
    MaxDelay <= MarkAfter =>
        \A n \in Nodes \ marked :
            age[n] <= MarkAfter + monClock + (IF monPc = "sleep" THEN 0 ELSE CheckInterval)

Inductive == TypeOK /\ Paced /\ Fresh /\ Kept /\ Watched /\ Swept
=============================================================================
