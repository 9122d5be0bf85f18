---------------------------- MODULE JobLifecycle ----------------------------
(***************************************************************************)
(* What the Cluster Manager promises the submitter of a job: it is run,    *)
(* and after a failure run again, until it completes or its retries are    *)
(* used up, and the outcome then stands.                                   *)
(***************************************************************************)
EXTENDS Naturals

CONSTANTS Jobs, MaxRetries

VARIABLES
    state,  \* state of each job, as `dmlf status` shows it
    tries   \* retries used by each job

Init ==
    /\ state = [j \in Jobs |-> "ABSENT"]
    /\ tries = [j \in Jobs |-> 0]

Move(j, from, to) == state[j] = from /\ state' = [state EXCEPT ![j] = to]

Submit(j) == Move(j, "ABSENT", "PENDING") /\ UNCHANGED tries
Start(j) == Move(j, "PENDING", "RUNNING") /\ UNCHANGED tries
Complete(j) == Move(j, "RUNNING", "COMPLETED") /\ UNCHANGED tries

Retry(j) ==
    /\ tries[j] < MaxRetries[j]
    /\ Move(j, "RUNNING", "PENDING")
    /\ tries' = [tries EXCEPT ![j] = @ + 1]

Fail(j) ==
    /\ tries[j] = MaxRetries[j]
    /\ Move(j, "RUNNING", "FAILED")
    /\ UNCHANGED tries

Next == \E j \in Jobs : Submit(j) \/ Start(j) \/ Complete(j) \/ Retry(j) \/ Fail(j)

Spec == Init /\ [][Next]_<<state, tries>>
=============================================================================
