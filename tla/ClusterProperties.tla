------------------------- MODULE ClusterProperties --------------------------
(***************************************************************************)
(* What the Cluster Manager with its agents must do, and what the          *)
(* repository says it does.                                                *)
(***************************************************************************)
EXTENDS ClusterManager

-----------------------------------------------------------------------------
(* Safety. *)

\* Who, in the memory of a running manager, still knows that j must be run.
HeldByScheduler(j) ==
    schedJob # <<>> /\ schedJob[1].job = j /\ schedPc # "send"
Remembered(j) ==
    \/ Queued(j)
    \/ HeldByScheduler(j)
    \/ j \in submitting
    \/ \E c \in Cmd : handler[c] = "retryQueue" /\ attempts[c[1]] = j
    \/ monJob = <<j>>

\* While the manager runs, every job that is PENDING in the database is in the
\* memory queue or in the hands of a thread that will put it there or run it:
\* between the two stores no job is forgotten, over restarts too.  The one
\* exception is the job the scheduler held when an exception ended its thread;
\* no other failure of the database, in no other thread, loses one.
NoLostPendingJob ==
    up => \A j \in get_jobs("PENDING") : Remembered(j)

\* No call of a node is refused: whoever may still call with the secret of a
\* registration, be it for a heartbeat or for a report that waits behind the log
\* stream, is in the nodes table, also of a manager that has crashed since.
CallersKnown ==
    \A n \in Nodes :
        \/ Registered(n)
        \/ heartbeat[n] # "none"
        \/ \E c \in Cmd : c[2] = n /\ run[c] \in Unreported
        => Authenticated(n)

\* Jobs of several nodes have several reports, which may undo each other's
\* verdict.  What follows is said of the others, whatever else is submitted, and
\* holds when no live node is taken for dead.
OneNodeJobs == {j \in Jobs : Required[j] <= 1}

\* The life of a job as its submitter may count on it, read off the jobs table.
Lifecycle == INSTANCE JobLifecycle WITH
                Jobs <- OneNodeJobs,
                state <- [j \in OneNodeJobs |-> jobStatus[j]],
                tries <- [j \in OneNodeJobs |-> retries[j]]
JobsLiveOnce == Lifecycle!Spec

\* A job is dispatched once, and once more for each retry counted in its row.
AttemptsPaidFor ==
    \A j \in OneNodeJobs :
        Cardinality({a \in DOMAIN attempts : attempts[a] = j}) <= retries[j] + 1

\* The places from which one dispatch of j can still come: the queue entries,
\* the scheduler's hand, calls about to queue it, and launches that can still
\* be reported.
Tokens(j) ==
    ({"queue"} \X {i \in DOMAIN queue : queue[i].job = j})
    \cup ({"scheduler"} \X {x \in {0} : HeldByScheduler(j)})
    \cup ({"submit"} \X (submitting \cap {j}))
    \cup ({"monitor"} \X {x \in {0} : monJob = <<j>>})
    \cup ({"report"} \X {c \in Cmd : /\ c[1] \in DOMAIN attempts
                                     /\ attempts[c[1]] = j
                                     /\ \/ run[c] \in {"queued"} \cup Unreported
                                           /\ agent[c[2]] # "dead"
                                        \/ handler[c] # "none"})
OneTokenPerJob == \A j \in OneNodeJobs : Cardinality(Tokens(j)) <= 1

\* assigned_nodes names every node a live launch of the job's latest dispatch
\* went to: the monitor finds the jobs of a crashed node by nothing else.
Latest(a) == \A b \in DOMAIN attempts : attempts[b] = attempts[a] => b <= a
AssignedCoversLaunches ==
    \A c \in Cmd :
        run[c] \in {"queued"} \cup Unreported =>
            (Latest(c[1]) => c[2] \in assigned[attempts[c[1]]])

-----------------------------------------------------------------------------
(* Liveness.  A thread, a handler and a message in transit that can take a *)
(* step takes one: the loops sleep for seconds and then go on, and gRPC    *)
(* either delivers or breaks the stream.  Nothing is assumed of faults, of *)
(* submissions, of probes, or of the time a training process needs; a node *)
(* that is down does fall 15 s behind.                                     *)

Fairness ==
    /\ WF_vars(SchedulerStep)
    /\ WF_vars(MonitorStep)
    /\ \A c \in Cmd : WF_vars(HandlerStep(c)) /\ WF_vars(ReportJobStatus(c))
                    /\ WF_vars(ExitIsRead(c))
    /\ \A j \in Jobs : WF_vars(EnqueueJob(j))
    /\ \A n \in Nodes :
        /\ WF_vars(CreateQueue(n)) /\ WF_vars(ListenForCommands(n))
        /\ WF_vars(StreamEnds(n)) /\ WF_vars(DeliverCommand(n))
        /\ WF_vars(AgentHeartbeat(n))
        /\ WF_vars(SendHeartbeat(n)) /\ WF_vars(HeartbeatFails(n))
        /\ WF_vars(Lapse(n) /\ agent[n] = "dead")

FairSpec == Spec /\ Fairness

\* Whatever reports and reservations still write to its row, a crashed node
\* ends up DISCONNECTED and stays there.
DeadNodeStaysOut ==
    \A n \in Nodes :
        <>[](agent[n] = "dead" /\ nodeStatus[n] # "ABSENT"
                => nodeStatus[n] = "DISCONNECTED")

\* The end of a job's process is not forgotten: the job leaves RUNNING, or has
\* been dispatched again, unless the node crashes or the connection breaks before
\* the report is made, or a later process has taken the place of the ended one,
\* whose log thread then waits for that.
ExitIsSettled ==
    \A c \in Cmd :
        (run[c] \in {"streaming", "cut"} /\ exit[c[2]] \in {"zero", "nonzero"})
            ~> \/ agent[c[2]] = "dead" \/ run[c] = "lost" \/ exit[c[2]] = "alive"
               \/ /\ c[1] \in DOMAIN attempts
                  /\ jobStatus[attempts[c[1]]] # "RUNNING" \/ ~Latest(c[1])

\* The scheduler does not leave a job waiting while nodes for it stay idle (nor
\* for any job that may be ahead of it), as long as it may dispatch.
Servable(j) ==
    /\ jobStatus[j] = "PENDING"
    /\ Len(attempts) < MaxDispatch
    /\ \A i \in get_jobs("PENDING") : Required[i] \in 1..Cardinality(AvailableNodes)
SchedulerServes == \A j \in Jobs : []<>~Servable(j)

-----------------------------------------------------------------------------
(* What the repository says and the code does not do: each of these is     *)
(* refuted by a run.                                                       *)

\* "Proactively failing job ... because a node crashed": a running job on a
\* crashed node does not stay RUNNING.
CrashedJobFailsOver ==
    \A n \in Nodes, j \in Jobs :
        (agent[n] = "dead" /\ jobStatus[j] = "RUNNING" /\ n \in assigned[j])
            ~> jobStatus[j] # "RUNNING"

\* "Job permanently FAILED after {job['max_retries']} retries": a job is
\* dispatched once, and once more for each of them.
DispatchBudget ==
    \A j \in Jobs :
        Cardinality({a \in DOMAIN attempts : attempts[a] = j}) <= MaxRetries[j] + 1

\* "Send status update when process finishes": the exit code reported for a job is
\* that of its own process.
ReportsOwnExit ==
    [][\A c \in Cmd : run[c] \in {"streaming", "cut"} /\ run'[c] \in {"zero", "nonzero"}
                        => proc[c[2]] = c[1]]_vars

\* NODES_BUSY counts the TRAINING rows: "Nodes currently running a job".
BusyNodesRunJobs ==
    \A n \in Nodes : []<>~(nodeStatus[n] = "TRAINING" /\ exit[n] \in {"zero", "nonzero"})

=============================================================================
