----------------------------- MODULE Autoscaler ------------------------------
(***************************************************************************)
(* The autoscaler (dmlf/autoscaler/policy.py): a thread that wakes up at   *)
(* an interval, takes a snapshot of the queue and calls back with "out" or *)
(* "in", and its start() and stop(), which BaseScheduler has word for word *)
(* (dmlf/manager/schedulers/base.py).                                      *)
(*                                                                         *)
(* The averages of NODE_CPU and NODE_GPU_UTIL that the rules also look at  *)
(* are 0 here as in the code, which sets these gauges nowhere: only the    *)
(* depth of the queue and the cooldown decide.  Time is a number of ticks, *)
(* as in FailureDetector; the queue and its gauge are moved by the rest of *)
(* the manager (ClusterManager), reduced to how many jobs they count.      *)
(***************************************************************************)
EXTENDS Integers, FiniteSets

CONSTANTS
    Threads,        \* bound: one for each start() that starts one
    Interval,       \* interval_sec
    JoinTimeout,    \* the 5 s of stop()
    Cooldown,       \* scale_in_cooldown_sec
    QueueHigh,      \* queue_depth_high
    QueueLow,       \* queue_depth_low
    MaxCall,        \* bound: the two registry calls, and the callback
    MaxWaiting,     \* bound: jobs in the queue
    MaxUncounted    \* bound: jobs put in the queue without inc_jobs_queued

ASSUME AutoscalerAssumption ==
    /\ {Interval, JoinTimeout, Cooldown, QueueHigh, QueueLow} \subseteq Nat
    /\ {MaxCall, MaxWaiting, MaxUncounted} \subseteq Nat

VARIABLES
    stop,       \* self._stop is set
    thread,     \* self._thread, as a set of at most one thread
    pc,         \* where each thread is
    clock,      \* how long it has been there
    pending,    \* its JOBS_QUEUED of this evaluation
    joining,    \* stop() waits for self._thread
    waited,     \* how long it has
    sinceStop,  \* time since the call of stop() that is in force
    sinceIn,    \* time since self._last_scale_in
    sinceDone,  \* history: time since a callback("in") returned
    sinceTried, \* history: time since a callback("in") returned or raised
    waiting,    \* length of the queue
    jobsQueued  \* JOBS_QUEUED

handle == <<stop, thread, joining, waited, sinceStop>>
cooldown == <<sinceIn, sinceDone, sinceTried>>
load == <<waiting, jobsQueued>>
vars == <<handle, pc, clock, pending, cooldown, load>>

Phase == {"new", "test", "sleep", "gather", "out", "in", "ended"}
Alive(t) == pc[t] \notin {"new", "ended"}

\* The gauge is below the length of the queue by the jobs it has not counted.
Gauge == (-MaxUncounted)..MaxWaiting

\* Times are not told apart from here on.
StopHorizon == Interval + 2 * MaxCall + 1
InHorizon == Cooldown + MaxCall + 1
Later(time, horizon) == IF time < horizon THEN time + 1 ELSE time

TypeOK ==
    /\ stop \in BOOLEAN /\ joining \in BOOLEAN
    /\ thread \subseteq Threads /\ waited \in 0..JoinTimeout
    /\ pc \in [Threads -> Phase]
    /\ clock \in [Threads -> 0..(Interval + MaxCall)]
    /\ pending \in [Threads -> Gauge]
    /\ sinceStop \in 0..StopHorizon /\ {sinceIn, sinceDone} \subseteq 0..InHorizon
    /\ sinceTried \in 0..Interval
    /\ waiting \in 0..MaxWaiting
    /\ jobsQueued \in Gauge

\* A restarted manager has the jobs of its predecessor in the queue, and a new gauge.
Init ==
    /\ stop = FALSE /\ thread = {} /\ joining = FALSE /\ waited = 0 /\ sinceStop = 0
    /\ pc = [t \in Threads |-> "new"]
    /\ clock = [t \in Threads |-> 0]
    /\ pending = [t \in Threads |-> 0]
    /\ sinceIn = InHorizon /\ sinceDone = InHorizon /\ sinceTried = Interval
    /\ waiting \in 0..MaxWaiting \cap 0..MaxUncounted
    /\ jobsQueued = 0

-----------------------------------------------------------------------------
(* start() and stop(), called one at a time. *)

\* Mutant: is_alive() is not asked.
Idle_unasked == TRUE

\* The test of start(), which returns at once for a thread that is alive, the
\* event of a stop() that has given up on it still set.
Idle == \A t \in thread : ~Alive(t)

start ==
    /\ ~joining
    /\ Idle
    /\ stop' = FALSE /\ sinceStop' = 0
    /\ \E t \in Threads :
          /\ pc[t] = "new"
          /\ thread' = {t}
          /\ pc' = [pc EXCEPT ![t] = "test"]
    /\ UNCHANGED <<joining, waited, clock, pending, cooldown, load>>

stop_begins ==
    /\ ~joining
    /\ stop' = TRUE
    /\ sinceStop' = IF stop THEN sinceStop ELSE 0
    /\ joining' = (thread # {}) /\ waited' = 0
    /\ UNCHANGED <<thread, pc, clock, pending, cooldown, load>>

\* The thread has ended, or the join has timed out.
stop_ends ==
    /\ joining
    /\ Idle \/ waited = JoinTimeout
    /\ joining' = FALSE /\ waited' = 0
    /\ UNCHANGED <<stop, thread, sinceStop, pc, clock, pending, cooldown, load>>

-----------------------------------------------------------------------------
(* _run_loop and _evaluate. *)

Goes(t, phase) ==
    /\ pc' = [pc EXCEPT ![t] = phase]
    /\ clock' = [clock EXCEPT ![t] = 0]

\* The head of the loop.
Tests(t) ==
    /\ pc[t] = "test"
    /\ Goes(t, IF stop THEN "ended" ELSE "sleep")
    /\ UNCHANGED <<handle, pending, cooldown, load>>

\* Mutant: the event is not looked at again after the sleep.
Wakes_deaf(t) ==
    /\ pc[t] = "sleep"
    /\ clock[t] = Interval
    /\ Goes(t, "gather")
    /\ pending' = [pending EXCEPT ![t] = jobsQueued]
    /\ UNCHANGED <<handle, cooldown, load>>

\* The sleep, which nothing cuts short, is over; the gauge is read first.
Wakes(t) ==
    /\ pc[t] = "sleep"
    /\ clock[t] = Interval
    /\ Goes(t, IF stop THEN "ended" ELSE "gather")
    /\ pending' = [pending EXCEPT ![t] = jobsQueued]
    /\ UNCHANGED <<handle, cooldown, load>>

ScaleOut(t) == pending[t] > QueueHigh
ScaleIn(t) == pending[t] <= QueueLow /\ sinceIn > Cooldown

\* get_available_nodes and get_all_nodes have returned.
Decides(t) ==
    /\ pc[t] = "gather"
    /\ Goes(t, IF ScaleOut(t) THEN "out" ELSE IF ScaleIn(t) THEN "in" ELSE "test")
    /\ pending' = [pending EXCEPT ![t] = 0]
    /\ UNCHANGED <<handle, cooldown, load>>

\* Mutant: the cooldown is never set.
CallReturns_uncooled(t) ==
    /\ pc[t] \in {"out", "in"}
    /\ Goes(t, "test")
    /\ sinceDone' = IF pc[t] = "in" THEN 0 ELSE sinceDone
    /\ sinceTried' = IF pc[t] = "in" THEN 0 ELSE sinceTried
    /\ UNCHANGED <<handle, pending, sinceIn, load>>

\* _last_scale_in = now, the time of the decision.
CallReturns(t) ==
    /\ pc[t] \in {"out", "in"}
    /\ Goes(t, "test")
    /\ sinceIn' = IF pc[t] = "in" THEN clock[t] ELSE sinceIn
    /\ sinceDone' = IF pc[t] = "in" THEN 0 ELSE sinceDone
    /\ sinceTried' = IF pc[t] = "in" THEN 0 ELSE sinceTried
    /\ UNCHANGED <<handle, pending, load>>

\* Mutant: the exception ends the thread, as it does the scheduler's.
Raises_ends(t) ==
    /\ pc[t] \in {"gather", "out", "in"}
    /\ Goes(t, "ended")
    /\ UNCHANGED <<handle, pending, cooldown, load>>

\* A registry call or the callback raises: the loop prints it and goes on.
Raises(t) ==
    /\ pc[t] \in {"gather", "out", "in"}
    /\ Goes(t, "test")
    /\ pending' = [pending EXCEPT ![t] = 0]
    /\ sinceTried' = IF pc[t] = "in" THEN 0 ELSE sinceTried
    /\ UNCHANGED <<handle, sinceIn, sinceDone, load>>

LoopStep(t) ==
    Tests(t) \/ Wakes(t) \/ Decides(t) \/ CallReturns(t) \/ Raises(t)

-----------------------------------------------------------------------------
(* The rest of the manager, and time. *)

\* A submission.
Submits ==
    /\ waiting < MaxWaiting
    /\ waiting' = waiting + 1
    /\ jobsQueued' = jobsQueued + 1
    /\ UNCHANGED <<handle, pc, clock, pending, cooldown>>

\* retry_job: queued again, and not counted.
Retries ==
    /\ waiting < MaxWaiting
    /\ waiting - jobsQueued < MaxUncounted
    /\ waiting' = waiting + 1
    /\ UNCHANGED <<handle, pc, clock, pending, cooldown, jobsQueued>>

\* Mutant: the scheduler does not test for an empty queue.
Dispatches_empty ==
    /\ waiting' = waiting - 1
    /\ jobsQueued' = jobsQueued - 1
    /\ UNCHANGED <<handle, pc, clock, pending, cooldown>>

\* pop_top_job by the scheduler, and dispatch_allocated_job.
Dispatches ==
    /\ waiting > 0
    /\ waiting' = waiting - 1
    /\ jobsQueued' = jobsQueued - 1
    /\ UNCHANGED <<handle, pc, clock, pending, cooldown>>

\* How long a thread may stay where it is; a test takes no time.
Limit(t) ==
    CASE pc[t] = "test" -> 0
      [] pc[t] = "sleep" -> Interval
      [] OTHER -> MaxCall

Tick ==
    /\ \A t \in Threads : Alive(t) => clock[t] < Limit(t)
    /\ joining => ~Idle /\ waited < JoinTimeout
    /\ waited' = IF joining THEN waited + 1 ELSE waited
    /\ clock' = [t \in Threads |-> IF Alive(t) THEN clock[t] + 1 ELSE clock[t]]
    /\ sinceStop' = IF stop THEN Later(sinceStop, StopHorizon) ELSE sinceStop
    /\ sinceIn' = Later(sinceIn, InHorizon)
    /\ sinceDone' = Later(sinceDone, InHorizon)
    /\ sinceTried' = Later(sinceTried, Interval)
    /\ UNCHANGED <<stop, thread, joining, pc, pending, load>>

Next ==
    \/ start \/ stop_begins \/ stop_ends
    \/ \E t \in Threads : LoopStep(t)
    \/ Submits \/ Retries \/ Dispatches
    \/ Tick

Spec == Init /\ [][Next]_vars

\* Sleeps end, calls return or raise, and the registry does not raise for ever.
Fairness ==
    /\ WF_vars(Tick)
    /\ WF_vars(stop_ends)
    /\ \A t \in Threads : WF_vars(LoopStep(t)) /\ SF_vars(Decides(t))

FairSpec == Spec /\ Fairness

-----------------------------------------------------------------------------
(* Properties. *)

\* Whoever starts it again after a stop() that has given up on a slow callback,
\* there is one loop at most, and it is the one stop() will join.
AtMostOneLoop == {t \in Threads : Alive(t)} \subseteq thread /\ Cardinality(thread) <= 1

\* A loop that was told to stop is over when the longer of its sleep and its
\* evaluation could be, and calls nobody back after that.
StopTakesEffect ==
    stop /\ sinceStop > Interval /\ sinceStop > 2 * MaxCall => \A t \in Threads : ~Alive(t)

\* A request to scale in comes later than the cooldown after the last one that
\* returned, but for the time its callback took: the cooldown runs from the
\* decision, and outlives a restart of the loop.  A callback that raises sets none;
\* after it, as after any, the loop still sleeps before the next request.
ScaleInSpaced ==
    [][\A t \in Threads : pc[t] # "in" /\ pc'[t] = "in" =>
            sinceDone > Cooldown - MaxCall /\ sinceTried >= Interval]_vars

\* While the queue stays deeper than the threshold by more jobs than the gauge
\* has missed, scale-out is asked for again and again, whatever raises.
Wanted == thread # {} /\ ~stop
DeepQueueScalesOut ==
    <>[](Wanted /\ waiting > QueueHigh + MaxUncounted)
        => []<>(\E t \in Threads : pc[t] = "out")

-----------------------------------------------------------------------------
(* Why the safety properties hold: inductive together with TypeOK           *)
(* (AutoscalerProofs).                                                      *)

OneLoop ==
    /\ \A t, u \in thread : t = u
    /\ \A t \in Threads : Alive(t) => t \in thread

Paced ==
    \A t \in Threads : (pc[t] = "new" => clock[t] = 0) /\ (Alive(t) => clock[t] <= Limit(t))

\* The stop() in force is not older than the sleep, or the evaluation, it met.
Obeyed ==
    stop =>
        \A t \in Threads :
            /\ pc[t] \in {"sleep", "gather"} => sinceStop <= clock[t]
            /\ pc[t] \in {"out", "in"} => sinceStop <= clock[t] + MaxCall
            /\ pc[t] = "test" => sinceStop <= 2 * MaxCall

\* The sleep of the loop began after the last callback had ended.
Rested ==
    \A t \in Threads : /\ pc[t] = "sleep" => sinceTried >= clock[t]
                       /\ pc[t] = "gather" => sinceTried >= Interval

Cooled == sinceIn <= sinceDone + MaxCall
Counted == jobsQueued <= waiting /\ waiting <= jobsQueued + MaxUncounted

Inductive == TypeOK /\ OneLoop /\ Paced /\ Obeyed /\ Rested /\ Cooled /\ Counted
=============================================================================
