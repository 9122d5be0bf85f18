------------------------------ MODULE JobQueue ------------------------------
(***************************************************************************)
(* The in-memory job queue (dmlf/manager/queue.py).  Each method's access  *)
(* to self.queue is one critical section of self.lock.  submit_job and     *)
(* retry_job first write the jobs table, outside the lock: that write is   *)
(* the caller's step before the one given here.                            *)
(***************************************************************************)
EXTENDS NodeRegistry, Sequences, Functions

VARIABLE queue  \* self.queue

\* A queued dict.  One that came from the jobs table carries created_at; the
\* one SubmitJob builds does not.
Entry == [job : Jobs, row : BOOLEAN]
Fresh(j) == [job |-> j, row |-> FALSE]
Row(j) == [job |-> j, row |-> TRUE]

Queued(j) == \E i \in DOMAIN queue : queue[i].job = j
OnceQueued(j) == \A i, k \in 1..Len(queue) : queue[i].job = j /\ queue[k].job = j => i = k

\* key=(priority, -created_at) with reverse=True: ascending created_at, and a
\* dict without created_at counts as 0, older than every row: what has just been
\* submitted goes ahead of every retried or recovered job.
Key(e) == IF e.row THEN created[e.job] ELSE 0

\* list.sort is stable: equal keys keep their order.
SortsBefore(q, i, k) ==
    \/ Key(q[i]) < Key(q[k])
    \/ Key(q[i]) = Key(q[k]) /\ i < k

\* The one stable rearrangement of q that is in key order.
Sorted(q) ==
    {[i \in DOMAIN q |-> q[p[i]]] :
        p \in {p \in Surjection(DOMAIN q, DOMAIN q) :
                  \A i, k \in DOMAIN q : i < k => SortsBefore(q, p[i], p[k])}}

\* The critical section of submit_job and of retry_job.
append_and_sort(e) == queue' \in Sorted(Append(queue, e))

\* What pop_top_job returns: <<>> stands for None.
top == IF queue = <<>> THEN <<>> ELSE <<Head(queue)>>

\* Mutant: the job is looked at, not taken.
pop_top_job_peeks == UNCHANGED queue

pop_top_job == queue' = IF queue = <<>> THEN <<>> ELSE Tail(queue)

requeue_job(e) == queue' = <<e>> \o queue

\* Mutant: the queue starts empty.
recover_nothing == queue' = <<>>

\* The constructor of a restarted manager: the PENDING rows, oldest first.
_recover_pending_jobs ==
    LET pending == get_jobs("PENDING")
    IN  \E q \in [1..Cardinality(pending) -> pending] :
            /\ \A j \in pending : \E i \in DOMAIN q : q[i] = j
            /\ \A i, k \in DOMAIN q : i < k => created[q[i]] < created[q[k]]
            /\ queue' = [i \in DOMAIN q |-> Row(q[i])]
=============================================================================
