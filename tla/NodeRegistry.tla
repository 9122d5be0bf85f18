---------------------------- MODULE NodeRegistry ----------------------------
(***************************************************************************)
(* The SQLite store of the Cluster Manager (dmlf/manager/node_registry.py).*)
(* Every method opens its own connection and commits one transaction, so   *)
(* a method is one atomic step; a caller that makes two calls makes two    *)
(* steps, and any other thread may run between them.                       *)
(*                                                                         *)
(* Abstractions.  last_heartbeat is reduced to expired[n]: the stored time *)
(* stamp lies before time.time() - 15 s (the monitor's configurable        *)
(* timeout has the same default).  The append-only metrics table, the      *)
(* descriptive columns and the columns nobody branches on (started_at,     *)
(* completed_at, exit_code) are left out.  priority is left out: SubmitJob *)
(* never sets it, so every row has priority 0.                             *)
(***************************************************************************)
EXTENDS Naturals, FiniteSets

CONSTANTS
    Nodes,      \* node ids the manager may hand out (uuid4: never reused)
    Jobs,       \* job ids
    MaxRetries  \* MaxRetries[j]: the max_retries column of job j

ASSUME RegistryAssumption ==
    /\ IsFiniteSet(Jobs)
    /\ MaxRetries \in [Jobs -> Nat]

VARIABLES
    nodeStatus, \* nodes.status, "ABSENT" when the table has no such row
    expired,    \* TRUE iff the row's last_heartbeat is older than 15 s
    jobStatus,  \* jobs.status, "ABSENT" when the table has no such row
    retries,    \* jobs.retries
    assigned,   \* jobs.assigned_nodes
    created     \* jobs.created_at as a rank: 1 for the oldest row, 0: no row

nodeTable == <<nodeStatus, expired>>
jobTable == <<jobStatus, retries, assigned, created>>

\* "OFFLINE" is no member of the class NodeState, but an agent reports it.
\* No code writes "MAINTENANCE", "REGISTERING", "BUSY" or "FAILED" to a row.
NodeStatus == {"ABSENT", "IDLE", "RESERVED", "TRAINING", "OFFLINE", "DISCONNECTED"}
JobStatus == {"ABSENT", "PENDING", "RUNNING", "COMPLETED", "FAILED"}

RegistryTypeOK ==
    /\ nodeStatus \in [Nodes -> NodeStatus]
    /\ expired \in [Nodes -> BOOLEAN]
    /\ jobStatus \in [Jobs -> JobStatus]
    /\ retries \in [Jobs -> Nat]
    /\ assigned \in [Jobs -> SUBSET Nodes]
    /\ created \in [Jobs -> Nat]

_init_db ==
    /\ nodeStatus = [n \in Nodes |-> "ABSENT"]
    /\ expired = [n \in Nodes |-> FALSE]
    /\ jobStatus = [j \in Jobs |-> "ABSENT"]
    /\ retries = [j \in Jobs |-> 0]
    /\ assigned = [j \in Jobs |-> {}]
    /\ created = [j \in Jobs |-> 0]

-----------------------------------------------------------------------------
(* The nodes table. *)

\* Mutant: a new row starts in a state nothing moves it out of.
register_node_registering(n) ==
    /\ nodeStatus' = [nodeStatus EXCEPT ![n] = "REGISTERING"]
    /\ expired' = [expired EXCEPT ![n] = FALSE]

\* Mutant: the row is never committed.
register_node_uncommitted(n) == UNCHANGED nodeTable

register_node(n) ==
    /\ nodeStatus' = [nodeStatus EXCEPT ![n] = "IDLE"]
    /\ expired' = [expired EXCEPT ![n] = FALSE]

\* The status column takes whatever the agent says, whatever the manager
\* wrote there meanwhile.
update_heartbeat(n, status) ==
    /\ nodeStatus' = [nodeStatus EXCEPT ![n] = status]
    /\ expired' = [expired EXCEPT ![n] = FALSE]

\* Mutant: reserved nodes are spared.
Overdue_unreserved(n) ==
    expired[n] /\ nodeStatus[n] \notin {"ABSENT", "DISCONNECTED", "RESERVED"}

\* The WHERE clause that mark_offline_nodes and the monitor's own query share.
Overdue(n) == expired[n] /\ nodeStatus[n] \notin {"ABSENT", "DISCONNECTED"}

mark_offline_nodes ==
    /\ nodeStatus' = [n \in Nodes |-> IF Overdue(n) THEN "DISCONNECTED"
                                                    ELSE nodeStatus[n]]
    /\ UNCHANGED expired

\* The SELECT of get_available_nodes, after its call of mark_offline_nodes.
AvailableNodes == {n \in Nodes : nodeStatus[n] = "IDLE"}

update_node_state(n, state) ==
    /\ nodeStatus' = [nodeStatus EXCEPT ![n] = state]
    /\ UNCHANGED expired

-----------------------------------------------------------------------------
(* The jobs table. *)

\* created_at is the clock at the INSERT: later than in every earlier row.
insert_job(j) ==
    /\ jobStatus' = [jobStatus EXCEPT ![j] = "PENDING"]
    /\ created' = [created EXCEPT ![j] =
                      1 + Cardinality({i \in Jobs : jobStatus[i] # "ABSENT"})]
    /\ retries' = [retries EXCEPT ![j] = 0]
    /\ assigned' = [assigned EXCEPT ![j] = {}]

\* Mutant: the UPDATE matches no row.
update_job_status_nowhere(j, status) == UNCHANGED jobTable

update_job_status(j, status) ==
    /\ jobStatus' = [jobStatus EXCEPT ![j] = status]
    /\ UNCHANGED <<retries, assigned, created>>

\* Mutant: the optional argument is forgotten.
update_job_assigned_forgotten(j, status, nodes) == update_job_status(j, status)

\* update_job_status with its optional argument assigned_nodes.
update_job_assigned(j, status, nodes) ==
    /\ jobStatus' = [jobStatus EXCEPT ![j] = status]
    /\ assigned' = [assigned EXCEPT ![j] = nodes]
    /\ UNCHANGED <<retries, created>>

\* Mutant: the count is not stored.
update_job_retries_uncounted(j, status, count) == update_job_status(j, status)

update_job_retries(j, status, count) ==
    /\ jobStatus' = [jobStatus EXCEPT ![j] = status]
    /\ retries' = [retries EXCEPT ![j] = count]
    /\ UNCHANGED <<assigned, created>>

get_jobs(status) == {j \in Jobs : jobStatus[j] = status}
=============================================================================
