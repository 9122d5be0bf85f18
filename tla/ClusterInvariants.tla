------------------------- MODULE ClusterInvariants --------------------------
(***************************************************************************)
(* The inductive invariants behind the theorems of ClusterTypeProofs,      *)
(* ClusterSafetyProofs and ClusterJobProofs.                               *)
(***************************************************************************)
EXTENDS ClusterProperties

\* The scheduler thread: it holds a job but between rounds, and its loops stay
\* in range.
SchedulerInv ==
    /\ schedPc = "pop" <=> schedJob = <<>>
    /\ schedPc \in {"reserve", "running", "send"} => schedIdx \in 1..Len(schedNodes)
    /\ schedPc \notin {"pop", "send", "dead"} => Len(attempts) < MaxDispatch
    /\ schedPc = "send" => Len(attempts) > 0

\* The monitor thread: it holds a job just while it has one to append.
MonitorInv == monPc = "append" <=> monJob # <<>>

\* Commands and report calls belong to dispatches that were made.
CommandInv ==
    /\ \A c \in Cmd : run[c] # "none" \/ handler[c] # "none" => c[1] \in 1..Len(attempts)
    /\ \A n \in Nodes : \A i \in 1..Len(command_queues[n]) :
          command_queues[n][i] \in 1..Len(attempts)

\* Type correctness, inductively.
TypeInv == TypeOK /\ SchedulerInv /\ MonitorInv /\ CommandInv

\* A command is in one place.  allocate selects a node once ...
SelectedOnce ==
    schedPc \in {"reserve", "running", "send"} =>
        \A i, k \in 1..Len(schedNodes) : i # k => schedNodes[i] # schedNodes[k]

\* ... what is still to be sent has no history ...
UnsentIsNew ==
    schedPc = "send" =>
        \A i \in schedIdx..Len(schedNodes) :
            run[<<Len(attempts), schedNodes[i]>>] = "none"

\* ... what is in a command queue is nowhere else, and there once ...
QueuedIsQueued ==
    \A n \in Nodes : \A i \in 1..Len(command_queues[n]) :
        run[<<command_queues[n][i], n>>] = "queued"
QueuedOnce ==
    \A n \in Nodes : \A i, k \in 1..Len(command_queues[n]) :
        i # k => command_queues[n][i] # command_queues[n][k]

\* ... and a report call under way is for a command that has been reported.
CallIsReport == \A c \in Cmd : handler[c] # "none" => run[c] = "reported"

OnceInv == SelectedOnce /\ UnsentIsNew /\ QueuedIsQueued /\ QueuedOnce /\ CallIsReport

\* The retries column stays within its limit (what it counts is another matter: two
\* reports may write the same count, see DispatchBudget): a call that is about to
\* write a retry read a count with a retry left.
RetriesBounded == \A j \in Jobs : retries[j] <= MaxRetries[j]
RetryInv ==
    /\ RetriesBounded
    /\ \A c \in Cmd : handler[c] \in {"retryIdle", "retryDb"} =>
          seen[c] < MaxRetries[attempts[c[1]]]

-----------------------------------------------------------------------------
(* Rows, and what refers to them. *)

\* An agent that has begun to register has a row, which nothing removes; one that
\* has not makes no call.  Only a registered one has a process to report.
CallersInv ==
    \A n \in Nodes :
        /\ agent[n] = "off" => heartbeat[n] = "none"
        /\ agent[n] # "off" => Authenticated(n)
        /\ agent[n] \in {"off", "joining", "dead"} =>
              \A c \in Cmd : c[2] = n => run[c] \notin Unreported

\* Every job some thread or list of the manager refers to has its row.
Known(j) == jobStatus[j] # "ABSENT"
RowsInv ==
    /\ \A i \in 1..Len(queue) : Known(queue[i].job)
    /\ schedJob # <<>> => Known(schedJob[1].job)
    /\ \A j \in submitting \cup monJobs : Known(j)
    /\ monJob # <<>> => Known(monJob[1])
    /\ \A a \in 1..Len(attempts) : Known(attempts[a])

\* The dispatch that is being sent goes to the nodes its row names.
SendingInv ==
    schedPc = "send" =>
        /\ attempts[Len(attempts)] = schedJob[1].job
        /\ \A i \in 1..Len(schedNodes) : schedNodes[i] \in assigned[schedJob[1].job]

\* A manager that is down holds nothing in memory.
DownInv ==
    ~up => /\ queue = <<>> /\ schedPc = "pop" /\ submitting = {}
           /\ monPc = "scan" /\ monJobs = {}
           /\ \A c \in Cmd : handler[c] = "none"

-----------------------------------------------------------------------------
(* Jobs of one node, when no live node falls behind. *)

\* Nothing more will come from the node.
Quiet(n) == agent[n] = "dead" /\ \A c \in Cmd : c[2] = n => handler[c] = "none"
QuietInv ==
    /\ \A n \in Nodes : expired[n] => Quiet(n)
    /\ \A n \in monOffline : Quiet(n)

OneSelected ==
    schedPc \in {"reserve", "running", "send"} /\ schedJob[1].job \in OneNodeJobs
        => Len(schedNodes) = 1

\* The places where a job waits for its next dispatch.
Place == {"queue", "scheduler", "submit", "monitor", "report"}
Waits(j, p) ==
    \/ p = "queue" /\ Queued(j)
    \/ p = "scheduler" /\ HeldByScheduler(j)
    \/ p = "submit" /\ j \in submitting
    \/ p = "monitor" /\ monJob = <<j>>
    \/ p = "report" /\ \E c \in Cmd : handler[c] = "retryQueue" /\ attempts[c[1]] = j

\* A job that waits is PENDING, and waits in one place.
WaitingInv ==
    /\ \A j \in OneNodeJobs, p \in Place : Waits(j, p) => jobStatus[j] = "PENDING"
    /\ \A j \in OneNodeJobs, p, q \in Place : Waits(j, p) /\ Waits(j, q) => p = q
    /\ \A j \in OneNodeJobs : OnceQueued(j)

\* A launch under way: about to be sent, sent, or its report being handled.
InHand(c) ==
    \/ handler[c] # "none"
    \/ agent[c[2]] # "dead" /\ run[c] \in {"queued"} \cup Unreported
    \/ agent[c[2]] # "dead" /\ schedPc = "send" /\ c = <<Len(attempts), schedNodes[1]>>

\* What a report call has made of the row so far.
RowDuring(phase) ==
    CASE phase = "retryQueue" -> "PENDING"
      [] phase = "permIdle" -> "FAILED"
      [] phase = "compIdle" -> "COMPLETED"
      [] OTHER -> "RUNNING"

\* It is the job's last one, where its row says, and the row has not changed since.
Current(c) ==
    LET j == attempts[c[1]]
    IN  /\ Latest(c[1])
        /\ assigned[j] = {c[2]}
        /\ jobStatus[j] = RowDuring(handler[c])
        /\ handler[c] \in {"retryIdle", "retryDb", "permFailed"} => seen[c] = retries[j]
        /\ handler[c] = "permFailed" => retries[j] = MaxRetries[j]
InHandInv ==
    \A c \in Cmd : InHand(c) /\ attempts[c[1]] \in OneNodeJobs => Current(c)

\* The monitor's copies are as the rows are, and their node is quiet.
MonitorJobsInv ==
    \A j \in monJobs \cap OneNodeJobs :
        /\ jobStatus[j] = "RUNNING"
        /\ monSeen[j] = retries[j]
        /\ \A n \in assigned[j] : Quiet(n)

Alone(j) ==
    /\ jobStatus[j] = "ABSENT" => retries[j] = 0
    /\ jobStatus[j] = "RUNNING" => \E n \in Nodes : assigned[j] = {n}
RowInv == \A j \in OneNodeJobs : Alone(j)

\* A retry counted and not yet used, while the job waits.
Dispatches(j) == Cardinality({a \in DOMAIN attempts : attempts[a] = j})
Counted(j) ==
    Dispatches(j) <= IF jobStatus[j] \in {"ABSENT", "PENDING"} THEN retries[j]
                                                             ELSE retries[j] + 1
CountInv == \A j \in OneNodeJobs : Counted(j)

JobInv ==
    QuietInv /\ OneSelected /\ WaitingInv /\ InHandInv /\ MonitorJobsInv /\ RowInv /\ CountInv
=============================================================================
