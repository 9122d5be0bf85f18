--------------------------- MODULE WorkerPoolProofs ---------------------------
(***************************************************************************)
(* Sizing the manager's thread pool, for any number of nodes, of log       *)
(* streams and of threads.                                                 *)
(***************************************************************************)
EXTENDS WorkerPool, TLAPS, FiniteSetTheorems, SequenceTheorems

\* Inductive: the cardinality in TypeOK means something.
PoolInv == TypeOK /\ IsFiniteSet(held)

\* A call joins the queue when it is in flight nowhere.
LEMMA CallsKeeps ==
    ASSUME PoolInv, NEW c \in Call, Calls(c)
    PROVE  PoolInv'
<1> USE DEF PoolInv, TypeOK, Calls, InFlight, Waiting
<1>1. pending' \in Seq(Call) /\ Len(pending') = Len(pending) + 1
      /\ DOMAIN pending' = 1..(Len(pending) + 1)
      /\ DOMAIN pending = 1..Len(pending)
      /\ pending'[Len(pending) + 1] = c
      /\ \A k \in 1..Len(pending) : pending'[k] = pending[k]
  BY AppendProperties, LenProperties
<1>2. \A k, m \in DOMAIN pending' : pending'[k] = pending'[m] => k = m
  BY <1>1, LenProperties
<1>3. \A d \in held' : ~Waiting(d)'
  BY <1>1
<1> QED BY <1>1, <1>2, <1>3

\* The pool takes a call from the queue only for a free thread.
LEMMA TakesKeeps ==
    ASSUME PoolInv, Takes
    PROVE  PoolInv'
<1> USE DEF PoolInv, TypeOK, Takes, Waiting
<1>1. Head(pending) \in Call /\ pending' \in Seq(Call)
      /\ DOMAIN pending = 1..Len(pending) /\ Len(pending) \in Nat \ {0}
      /\ DOMAIN pending' = 1..(Len(pending) - 1)
      /\ Head(pending) = pending[1]
      /\ \A k \in 1..(Len(pending) - 1) : pending'[k] = pending[k + 1]
  BY HeadTailProperties, EmptySeq, LenProperties
<1>2. \A k, m \in DOMAIN pending' : pending'[k] = pending'[m] => k = m
  <2> SUFFICES ASSUME NEW k \in 1..(Len(pending) - 1), NEW m \in 1..(Len(pending) - 1),
                      pending[k + 1] = pending[m + 1]
               PROVE  k = m
    BY <1>1
  <2>1. k + 1 \in DOMAIN pending /\ m + 1 \in DOMAIN pending
    BY <1>1
  <2> QED BY <1>1, <2>1
<1>3. \A d \in held' : ~Waiting(d)'
  <2> SUFFICES ASSUME NEW d \in held', NEW k \in 1..(Len(pending) - 1),
                      pending[k + 1] = d
               PROVE  FALSE
    BY <1>1
  <2>1. k + 1 \in DOMAIN pending /\ 1 \in DOMAIN pending /\ k + 1 # 1
    BY <1>1
  <2> QED BY <1>1, <2>1
<1>4. IsFiniteSet(held') /\ Cardinality(held') <= Workers
  <2>1. Cardinality(held) \in Nat /\ Cardinality(held) < Workers
    BY FS_CardinalityType
  <2>2. IsFiniteSet(held \cup {Head(pending)})
        /\ Cardinality(held \cup {Head(pending)}) =
              IF Head(pending) \in held THEN Cardinality(held) ELSE Cardinality(held) + 1
    BY FS_AddElement
  <2> QED BY <2>1, <2>2, PoolAssumption
<1> QED BY <1>1, <1>2, <1>3, <1>4

\* A thread that is given back leaves the rest as it is.
LEMMA ReleaseKeeps ==
    ASSUME PoolInv, NEW c \in held, held' = held \ {c}, UNCHANGED pending,
           joined' \subseteq Nodes, reported' \subseteq Nodes \X Launch
    PROVE  PoolInv'
<1>1. IsFiniteSet(held') /\ Cardinality(held') <= Cardinality(held)
      /\ Cardinality(held) \in Nat /\ Cardinality(held') \in Nat
  BY FS_RemoveElement, FS_CardinalityType, FS_Subset DEF PoolInv
<1> QED BY <1>1, PoolAssumption DEF PoolInv, TypeOK, Waiting

\* The thread of a broken command stream stays taken for a while.
LEMMA ListenBreaksKeeps ==
    ASSUME PoolInv, NEW n \in Nodes, ListenBreaks(n)
    PROVE  PoolInv'
<1> USE DEF PoolInv, TypeOK, ListenBreaks, InFlight
<1>1. Listening(n) \in held /\ Ghost(n) \notin held /\ ~Waiting(Ghost(n))
  OBVIOUS
<1>2. Ghost(n) \in Call
  BY DEF Ghost, Call
<1>3. IsFiniteSet(held \ {Listening(n)})
      /\ Cardinality(held \ {Listening(n)}) = Cardinality(held) - 1
      /\ Cardinality(held) \in Nat
  BY <1>1, FS_RemoveElement, FS_CardinalityType
<1>4. IsFiniteSet(held') /\ Cardinality(held') = Cardinality(held)
  <2> DEFINE rest == held \ {Listening(n)}
  <2>1. Ghost(n) \notin rest /\ held' = rest \cup {Ghost(n)}
    BY <1>1
  <2>2. IsFiniteSet(rest \cup {Ghost(n)})
        /\ Cardinality(rest \cup {Ghost(n)}) =
              IF Ghost(n) \in rest THEN Cardinality(rest) ELSE Cardinality(rest) + 1
    BY <1>3, FS_AddElement
  <2> HIDE DEF rest
  <2>3. Cardinality(rest) = Cardinality(held) - 1
    BY <1>3 DEF rest
  <2>4. IsFiniteSet(held') /\ Cardinality(held') = Cardinality(rest) + 1
    BY <2>1, <2>2, Zenon
  <2> QED BY <1>3, <2>3, <2>4
<1>5. \A d \in held' : ~Waiting(d)'
  BY <1>1 DEF Waiting
<1> QED BY <1>2, <1>4, <1>5, PoolAssumption DEF Waiting

\* The pool's invariant: every step is one of the above.
LEMMA PoolInvariant == Spec => []PoolInv
<1>1. Init => PoolInv
  BY FS_EmptySet, PoolAssumption, EmptySeq DEF Init, PoolInv, TypeOK, Waiting
<1>2. PoolInv /\ [Next]_vars => PoolInv'
  <2> SUFFICES ASSUME PoolInv, [Next]_vars PROVE PoolInv'
    OBVIOUS
  <2>1. CASE Takes
    BY <2>1, TakesKeeps
  <2>2. ASSUME NEW c \in Call, Returns(c) PROVE PoolInv'
    <3>1. joined' \subseteq Nodes /\ reported' \subseteq Nodes \X Launch
      <4>1. c[2] \in Nodes /\ (c[1] \in {"logs", "report"} => c[3] \in Launch)
        BY <2>2 DEF Call
      <4> QED BY <2>2, <4>1 DEF Returns, PoolInv, TypeOK
    <3> QED BY <2>2, <3>1, ReleaseKeeps DEF Returns
  <2>3. ASSUME NEW n \in Nodes, CallsUnary(n) \/ ListensForCommands(n) PROVE PoolInv'
    <3>1. Unary(n) \in Call /\ Listening(n) \in Call
      BY DEF Unary, Listening, Call
    <3> QED BY <2>3, <3>1, CallsKeeps DEF CallsUnary, ListensForCommands
  <2>4. ASSUME NEW n \in Nodes, ListenBreaks(n) PROVE PoolInv'
    BY <2>4, ListenBreaksKeeps
  <2>5. ASSUME NEW n \in Nodes, NEW i \in Launch, StreamsLogs(n, i) \/ Reports(n, i)
        PROVE  PoolInv'
    <3>1. Logs(n, i) \in Call /\ Report(n, i) \in Call
      BY DEF Logs, Report, Call
    <3> QED BY <2>5, <3>1, CallsKeeps DEF StreamsLogs, Reports
  <2>6. ASSUME NEW n \in Nodes, NEW i \in Launch, LogsBreak(n, i) PROVE PoolInv'
    BY <2>6, ReleaseKeeps DEF LogsBreak, PoolInv, TypeOK
  <2>7. CASE UNCHANGED vars
    BY <2>7 DEF vars, PoolInv, TypeOK, Waiting
  <2> QED BY <2>1, <2>2, <2>3, <2>4, <2>5, <2>6, <2>7 DEF Next
<1> QED BY <1>1, <1>2, PTL DEF Spec

\* A call is in one place, and no more calls have a thread than there are
\* threads (serve's ThreadPoolExecutor).
THEOREM PoolTypeCorrect == Spec => []TypeOK
<1>1. PoolInv => TypeOK
  BY DEF PoolInv
<1> QED BY <1>1, PoolInvariant, PTL

\* Calls that do not return by themselves are streams of different agents, or
\* different streams of one: there are no more than a node can have open.
LEMMA StuckCallsAreStreams ==
    ASSUME PoolInv, \A c \in held : ~MayReturn(c)
    PROVE  Cardinality(held) <= Cardinality(Nodes) * (Launches + 1)
<1> DEFINE Slot == [c \in held |-> <<c[2], c[3]>>]
<1>1. \A c \in held : \/ \E n \in Nodes : c = <<"listen", n, 0>>
                      \/ \E n \in Nodes, i \in Launch : c = <<"logs", n, i>>
  <2> SUFFICES ASSUME NEW c \in held
               PROVE  \/ \E n \in Nodes : c = <<"listen", n, 0>>
                      \/ \E n \in Nodes, i \in Launch : c = <<"logs", n, i>>
    OBVIOUS
  <2>1. c \in Call /\ c[1] \notin {"unary", "report", "ghost"}
    BY DEF PoolInv, TypeOK, MayReturn
  <2>2. CASE c \in {"unary", "listen", "ghost"} \X Nodes \X {0}
    <3>1. c = <<c[1], c[2], c[3]>> /\ c[2] \in Nodes /\ c[3] = 0 /\ c[1] = "listen"
      BY <2>1, <2>2
    <3> QED BY <3>1
  <2>3. CASE c \in {"logs", "report"} \X Nodes \X Launch
    <3>1. c = <<c[1], c[2], c[3]>> /\ c[2] \in Nodes /\ c[3] \in Launch /\ c[1] = "logs"
      BY <2>1, <2>3
    <3> QED BY <3>1
  <2> QED BY <2>1, <2>2, <2>3 DEF Call
<1>2. Slot \in Injection(held, Nodes \X (0..Launches))
  <2>1. Slot \in [held -> Nodes \X (0..Launches)]
    BY <1>1, PoolAssumption DEF Launch
  <2>2. \A c, d \in held : Slot[c] = Slot[d] => c = d
    BY <1>1, PoolAssumption DEF Launch
  <2> QED BY <2>1, <2>2 DEF Injection, IsInjective
<1>3. IsFiniteSet(0..Launches) /\ Cardinality(0..Launches) = Launches + 1
  BY PoolAssumption, FS_Interval
<1>4. IsFiniteSet(Nodes \X (0..Launches))
      /\ Cardinality(Nodes \X (0..Launches)) = Cardinality(Nodes) * (Launches + 1)
  BY <1>3, FS_Product, PoolAssumption
<1> QED BY <1>2, <1>4, FS_Injection

\* With one thread more than the streams all nodes can have open, streams
\* never hold the whole pool.
THEOREM PoolLargeEnough ==
    ASSUME Workers > Cardinality(Nodes) * (Launches + 1)
    PROVE  Spec => []NoGridlock
<1>1. PoolInv => NoGridlock
  BY StuckCallsAreStreams, PoolAssumption, FS_CardinalityType DEF NoGridlock
<1> QED BY <1>1, PoolInvariant, PTL
=============================================================================
