----------------------------- MODULE WorkerPool ------------------------------
(***************************************************************************)
(* The threads behind the manager's gRPC server: serve() gives it a pool   *)
(* of max_workers threads with an unbounded first-in-first-out queue, and  *)
(* a call keeps its thread until its handler returns.                      *)
(*                                                                         *)
(* SendHeartbeat, RegisterNode, SubmitJob and ReportJobStatus return by    *)
(* themselves.  ListenForCommands returns only when its stream breaks, and *)
(* StreamLogs only after the agent's log generator ends; the generator's   *)
(* last act is a ReportJobStatus call, which needs a thread of its own.    *)
(* No caller sets a deadline.                                              *)
(***************************************************************************)
EXTENDS Naturals, Sequences, FiniteSets

CONSTANTS
    Nodes,      \* nodes with an agent
    Launches,   \* bound: log streams a node has open at once
    Workers     \* max_workers

ASSUME PoolAssumption ==
    /\ IsFiniteSet(Nodes)
    /\ Launches \in Nat
    /\ Workers \in Nat \ {0}

\* A call: what it is, its node, and for logs and report which launch.  "unary"
\* is the call an agent's register and heartbeat loop makes, one at a time;
\* "ghost" is a ListenForCommands whose stream is gone.
Unary(n) == <<"unary", n, 0>>
Listening(n) == <<"listen", n, 0>>
Ghost(n) == <<"ghost", n, 0>>
Logs(n, i) == <<"logs", n, i>>
Report(n, i) == <<"report", n, i>>

Launch == 1..Launches
Call == ({"unary", "listen", "ghost"} \X Nodes \X {0})
            \cup ({"logs", "report"} \X Nodes \X Launch)

VARIABLES
    joined,     \* nodes that have registered
    pending,    \* the pool's queue
    held,       \* calls that have a thread
    reported    \* <<n, i>>: the report of that log stream has returned

vars == <<joined, pending, held, reported>>

Waiting(c) == \E k \in DOMAIN pending : pending[k] = c
InFlight(c) == c \in held \/ Waiting(c)

Init == joined = {} /\ pending = <<>> /\ held = {} /\ reported = {}

-----------------------------------------------------------------------------
(* The agents. *)

Calls(c) ==
    /\ ~InFlight(c)
    /\ pending' = Append(pending, c)
    /\ UNCHANGED <<joined, held, reported>>

\* RegisterNode, then heartbeats for ever.
CallsUnary(n) == Calls(Unary(n))

ListensForCommands(n) == n \in joined /\ Calls(Listening(n))

\* A LAUNCH_JOB command has come over the stream.
StreamsLogs(n, i) ==
    /\ Listening(n) \in held
    /\ ~InFlight(Report(n, i))
    /\ Calls(Logs(n, i))

\* The process has ended.  The client reads the generator whether or not the
\* server has a thread for the stream.
Reports(n, i) ==
    /\ InFlight(Logs(n, i))
    /\ <<n, i>> \notin reported
    /\ Calls(Report(n, i))

-----------------------------------------------------------------------------
(* The server. *)

\* Mutant: the pool grows on demand.
Takes_unbounded ==
    /\ pending # <<>>
    /\ held' = held \cup {Head(pending)}
    /\ pending' = Tail(pending)
    /\ UNCHANGED <<joined, reported>>

\* The executor gives a free thread the oldest call.
Takes ==
    /\ pending # <<>>
    /\ Cardinality(held) < Workers
    /\ held' = held \cup {Head(pending)}
    /\ pending' = Tail(pending)
    /\ UNCHANGED <<joined, reported>>

\* Mutant: the loop does not ask is_active().
MayReturn_ghostless(c) ==
    \/ c[1] \in {"unary", "report"}
    \/ c[1] = "logs" /\ <<c[2], c[3]>> \in reported

\* Which handlers return without another call or a fault.
MayReturn(c) ==
    \/ c[1] \in {"unary", "report", "ghost"}
    \/ c[1] = "logs" /\ <<c[2], c[3]>> \in reported

\* What a return means to the agent: it is registered; the generator ends after
\* its report, if the stream is still there; the stream is over.
Returns(c) ==
    /\ c \in held /\ MayReturn(c)
    /\ held' = held \ {c}
    /\ joined' = IF c[1] = "unary" THEN joined \cup {c[2]} ELSE joined
    /\ reported' = CASE c[1] = "report" /\ InFlight(Logs(c[2], c[3]))
                                        -> reported \cup {<<c[2], c[3]>>}
                     [] c[1] = "logs" -> reported \ {<<c[2], c[3]>>}
                     [] OTHER -> reported
    /\ UNCHANGED pending

\* A command stream breaks: its thread notices within 2 s, which is less than
\* the agent waits before it calls again twice.
ListenBreaks(n) ==
    /\ Listening(n) \in held /\ ~InFlight(Ghost(n))
    /\ held' = (held \ {Listening(n)}) \cup {Ghost(n)}
    /\ UNCHANGED <<joined, pending, reported>>

\* A log stream breaks: reading it raises, and the handler ends.
LogsBreak(n, i) ==
    /\ Logs(n, i) \in held
    /\ held' = held \ {Logs(n, i)}
    /\ reported' = reported \ {<<n, i>>}
    /\ UNCHANGED <<joined, pending>>

Next ==
    \/ Takes
    \/ \E c \in Call : Returns(c)
    \/ \E n \in Nodes :
        \/ CallsUnary(n) \/ ListensForCommands(n) \/ ListenBreaks(n)
        \/ \E i \in Launch : StreamsLogs(n, i) \/ Reports(n, i) \/ LogsBreak(n, i)

Spec == Init /\ [][Next]_vars

\* Threads run: the pool hands calls out and handlers that can return do.
\* Agents owe nothing, and no process has to end.
FairSpec == Spec /\ WF_vars(Takes) /\ \A c \in Call : WF_vars(Returns(c))

\* Here every process does end, and is reported.
EndingSpec == FairSpec /\ \A n \in Nodes, i \in Launch : WF_vars(Reports(n, i))

-----------------------------------------------------------------------------
(* What the pool must do. *)

\* A call is in one place, and the pool keeps to its size.
TypeOK ==
    /\ joined \subseteq Nodes
    /\ pending \in Seq(Call)
    /\ held \subseteq Call
    /\ reported \subseteq Nodes \X Launch
    /\ Cardinality(held) <= Workers
    /\ \A k, m \in DOMAIN pending : pending[k] = pending[m] => k = m
    /\ \A c \in held : ~Waiting(c)

\* Among the calls that fill the pool there is one that returns by itself, so
\* that streams alone never hold every thread.  Needs more threads than the
\* streams the nodes can have open: each its commands and its logs.
NoGridlock == Cardinality(held) = Workers => \E c \in held : MayReturn(c)

\* "Agents register themselves, heartbeat every 5 s": no heartbeat or
\* registration waits for ever, and as the pool is first-in-first-out, no call.
HeartbeatServed == \A n \in Nodes : Waiting(Unary(n)) ~> ~Waiting(Unary(n))
=============================================================================
