-------------------------- MODULE AutoscalerProofs ---------------------------
(***************************************************************************)
(* What the autoscaler's thread, its start() and its stop() promise, for   *)
(* every setting: types, one loop at a time, a stop that is obeyed, and    *)
(* the spacing of requests to scale in.                                    *)
(***************************************************************************)
EXTENDS Autoscaler, FiniteSetTheorems, TLAPS

LEMMA Horizons == StopHorizon \in Nat /\ InHorizon \in Nat /\ InHorizon >= MaxCall
BY AutoscalerAssumption DEF StopHorizon, InHorizon

LEMMA InitInductive == Init => Inductive
<1> SUFFICES ASSUME Init PROVE Inductive
    OBVIOUS
<1> USE AutoscalerAssumption, Horizons DEF Init, Alive
<1>1. TypeOK
    <2>1. stop \in BOOLEAN /\ joining \in BOOLEAN
        OBVIOUS
    <2>2. /\ pc \in [Threads -> Phase] /\ clock \in [Threads -> 0..(Interval + MaxCall)]
          /\ pending \in [Threads -> Gauge]
        BY DEF Phase, Gauge
    <2> QED
        BY <2>1, <2>2 DEF TypeOK, Gauge
<1>2. OneLoop /\ Paced /\ Obeyed
    BY DEF OneLoop, Paced, Obeyed
<1>3. Rested /\ Cooled /\ Counted
    BY DEF Rested, Cooled, Counted, InHorizon
<1> QED
    BY <1>1, <1>2, <1>3 DEF Inductive

LEMMA TypeStep == TypeOK /\ Paced /\ Counted /\ [Next]_vars => TypeOK'
<1> SUFFICES ASSUME TypeOK, Paced, Counted, [Next]_vars PROVE TypeOK'
    OBVIOUS
<1> USE AutoscalerAssumption, Horizons DEF TypeOK, Phase, Alive, Goes, handle, cooldown, load, Gauge
<1>1. ASSUME start PROVE TypeOK'
    <2>1. stop' \in BOOLEAN /\ joining' \in BOOLEAN
        BY <1>1 DEF start
    <2> QED
        BY <1>1, <2>1 DEF start
<1>2. ASSUME stop_begins PROVE TypeOK'
    BY <1>2 DEF stop_begins
<1>3. ASSUME stop_ends PROVE TypeOK'
    <2>1. stop' \in BOOLEAN /\ joining' \in BOOLEAN
        BY <1>3 DEF stop_ends
    <2> QED
        BY <1>3, <2>1 DEF stop_ends
<1>4. ASSUME NEW t \in Threads, Tests(t) PROVE TypeOK'
    BY <1>4 DEF Tests
<1>5. ASSUME NEW t \in Threads, Wakes(t) PROVE TypeOK'
    BY <1>5 DEF Wakes
<1>6. ASSUME NEW t \in Threads, Decides(t) PROVE TypeOK'
    BY <1>6 DEF Decides
<1>7. ASSUME NEW t \in Threads, CallReturns(t) PROVE TypeOK'
    BY <1>7 DEF CallReturns, Paced, Limit
<1>8. ASSUME NEW t \in Threads, Raises(t) PROVE TypeOK'
    BY <1>8 DEF Raises
<1>9. ASSUME Submits PROVE TypeOK'
    BY <1>9 DEF Submits, Counted
<1>10. ASSUME Retries PROVE TypeOK'
    BY <1>10 DEF Retries, Counted
<1>11. ASSUME Dispatches PROVE TypeOK'
    BY <1>11 DEF Dispatches, Counted
<1>12. ASSUME Tick PROVE TypeOK'
    BY <1>12 DEF Tick, Later, Limit, Paced
<1>13. ASSUME UNCHANGED vars PROVE TypeOK'
    BY <1>13 DEF vars
<1> QED
    BY <1>1, <1>2, <1>3, <1>4, <1>5, <1>6, <1>7, <1>8, <1>9, <1>10, <1>11, <1>12, <1>13
    DEF Next, LoopStep

LEMMA OneLoopStep == TypeOK /\ OneLoop /\ [Next]_vars => OneLoop'
<1> SUFFICES ASSUME TypeOK, OneLoop, [Next]_vars PROVE OneLoop'
    OBVIOUS
<1> USE AutoscalerAssumption, Horizons DEF TypeOK, Phase, Alive, Goes, handle, cooldown, load, OneLoop
<1>1. ASSUME start PROVE OneLoop'
    BY <1>1 DEF start, Idle
<1>2. ASSUME stop_begins PROVE OneLoop'
    BY <1>2 DEF stop_begins
<1>3. ASSUME stop_ends PROVE OneLoop'
    BY <1>3 DEF stop_ends
<1>4. ASSUME NEW t \in Threads, Tests(t) PROVE OneLoop'
    BY <1>4 DEF Tests
<1>5. ASSUME NEW t \in Threads, Wakes(t) PROVE OneLoop'
    BY <1>5 DEF Wakes
<1>6. ASSUME NEW t \in Threads, Decides(t) PROVE OneLoop'
    BY <1>6 DEF Decides
<1>7. ASSUME NEW t \in Threads, CallReturns(t) PROVE OneLoop'
    BY <1>7 DEF CallReturns
<1>8. ASSUME NEW t \in Threads, Raises(t) PROVE OneLoop'
    BY <1>8 DEF Raises
<1>9. ASSUME Submits PROVE OneLoop'
    BY <1>9 DEF Submits
<1>10. ASSUME Retries PROVE OneLoop'
    BY <1>10 DEF Retries
<1>11. ASSUME Dispatches PROVE OneLoop'
    BY <1>11 DEF Dispatches
<1>12. ASSUME Tick PROVE OneLoop'
    BY <1>12 DEF Tick
<1>13. ASSUME UNCHANGED vars PROVE OneLoop'
    BY <1>13 DEF vars
<1> QED
    BY <1>1, <1>2, <1>3, <1>4, <1>5, <1>6, <1>7, <1>8, <1>9, <1>10, <1>11, <1>12, <1>13
    DEF Next, LoopStep

LEMMA PacedStep == TypeOK /\ Paced /\ [Next]_vars => Paced'
<1> SUFFICES ASSUME TypeOK, Paced, [Next]_vars PROVE Paced'
    OBVIOUS
<1> USE AutoscalerAssumption, Horizons DEF TypeOK, Phase, Alive, Goes, handle, cooldown, load, Paced, Limit
<1>1. ASSUME start PROVE Paced'
    BY <1>1 DEF start
<1>2. ASSUME stop_begins PROVE Paced'
    BY <1>2 DEF stop_begins
<1>3. ASSUME stop_ends PROVE Paced'
    BY <1>3 DEF stop_ends
<1>4. ASSUME NEW t \in Threads, Tests(t) PROVE Paced'
    BY <1>4 DEF Tests
<1>5. ASSUME NEW t \in Threads, Wakes(t) PROVE Paced'
    BY <1>5 DEF Wakes
<1>6. ASSUME NEW t \in Threads, Decides(t) PROVE Paced'
    BY <1>6 DEF Decides
<1>7. ASSUME NEW t \in Threads, CallReturns(t) PROVE Paced'
    BY <1>7 DEF CallReturns
<1>8. ASSUME NEW t \in Threads, Raises(t) PROVE Paced'
    BY <1>8 DEF Raises
<1>9. ASSUME Submits PROVE Paced'
    BY <1>9 DEF Submits
<1>10. ASSUME Retries PROVE Paced'
    BY <1>10 DEF Retries
<1>11. ASSUME Dispatches PROVE Paced'
    BY <1>11 DEF Dispatches
<1>12. ASSUME Tick PROVE Paced'
    BY <1>12 DEF Tick
<1>13. ASSUME UNCHANGED vars PROVE Paced'
    BY <1>13 DEF vars
<1> QED
    BY <1>1, <1>2, <1>3, <1>4, <1>5, <1>6, <1>7, <1>8, <1>9, <1>10, <1>11, <1>12, <1>13
    DEF Next, LoopStep

LEMMA ObeyedStep == TypeOK /\ Paced /\ OneLoop /\ Obeyed /\ [Next]_vars => Obeyed'
<1> SUFFICES ASSUME TypeOK, Paced, OneLoop, Obeyed, [Next]_vars PROVE Obeyed'
    OBVIOUS
<1> USE AutoscalerAssumption, Horizons DEF TypeOK, Phase, Alive, Goes, handle, cooldown, load, Paced, Limit, Obeyed
<1>1. ASSUME start PROVE Obeyed'
    BY <1>1 DEF start
<1>2. ASSUME stop_begins PROVE Obeyed'
    BY <1>2 DEF stop_begins
<1>3. ASSUME stop_ends PROVE Obeyed'
    BY <1>3 DEF stop_ends
<1>4. ASSUME NEW t \in Threads, Tests(t) PROVE Obeyed'
    BY <1>4 DEF Tests
<1>5. ASSUME NEW t \in Threads, Wakes(t) PROVE Obeyed'
    BY <1>5 DEF Wakes
<1>6. ASSUME NEW t \in Threads, Decides(t) PROVE Obeyed'
    BY <1>6 DEF Decides
<1>7. ASSUME NEW t \in Threads, CallReturns(t) PROVE Obeyed'
    BY <1>7 DEF CallReturns
<1>8. ASSUME NEW t \in Threads, Raises(t) PROVE Obeyed'
    BY <1>8 DEF Raises
<1>9. ASSUME Submits PROVE Obeyed'
    BY <1>9 DEF Submits
<1>10. ASSUME Retries PROVE Obeyed'
    BY <1>10 DEF Retries
<1>11. ASSUME Dispatches PROVE Obeyed'
    BY <1>11 DEF Dispatches
<1>12. ASSUME Tick PROVE Obeyed'
    BY <1>12 DEF Tick, Later
<1>13. ASSUME UNCHANGED vars PROVE Obeyed'
    BY <1>13 DEF vars
<1> QED
    BY <1>1, <1>2, <1>3, <1>4, <1>5, <1>6, <1>7, <1>8, <1>9, <1>10, <1>11, <1>12, <1>13
    DEF Next, LoopStep

LEMMA RestedStep == TypeOK /\ Paced /\ OneLoop /\ Rested /\ [Next]_vars => Rested'
<1> SUFFICES ASSUME TypeOK, Paced, OneLoop, Rested, [Next]_vars PROVE Rested'
    OBVIOUS
<1> USE AutoscalerAssumption, Horizons DEF TypeOK, Phase, Alive, Goes, handle, cooldown, load, Paced, Limit, Rested
<1>1. ASSUME start PROVE Rested'
    BY <1>1 DEF start
<1>2. ASSUME stop_begins PROVE Rested'
    BY <1>2 DEF stop_begins
<1>3. ASSUME stop_ends PROVE Rested'
    BY <1>3 DEF stop_ends
<1>4. ASSUME NEW t \in Threads, Tests(t) PROVE Rested'
    BY <1>4 DEF Tests
<1>5. ASSUME NEW t \in Threads, Wakes(t) PROVE Rested'
    BY <1>5 DEF Wakes
<1>6. ASSUME NEW t \in Threads, Decides(t) PROVE Rested'
    BY <1>6 DEF Decides
<1>7. ASSUME NEW t \in Threads, CallReturns(t) PROVE Rested'
    <2>1. \A u \in Threads : pc'[u] \notin {"sleep", "gather"}
        BY <1>7 DEF CallReturns, OneLoop
    <2> QED
        BY <2>1
<1>8. ASSUME NEW t \in Threads, Raises(t) PROVE Rested'
    <2>1. \A u \in Threads : pc'[u] \notin {"sleep", "gather"}
        BY <1>8 DEF Raises, OneLoop
    <2> QED
        BY <2>1
<1>9. ASSUME Submits PROVE Rested'
    BY <1>9 DEF Submits
<1>10. ASSUME Retries PROVE Rested'
    BY <1>10 DEF Retries
<1>11. ASSUME Dispatches PROVE Rested'
    BY <1>11 DEF Dispatches
<1>12. ASSUME Tick PROVE Rested'
    BY <1>12 DEF Tick, Later
<1>13. ASSUME UNCHANGED vars PROVE Rested'
    BY <1>13 DEF vars
<1> QED
    BY <1>1, <1>2, <1>3, <1>4, <1>5, <1>6, <1>7, <1>8, <1>9, <1>10, <1>11, <1>12, <1>13
    DEF Next, LoopStep

LEMMA CooledStep == TypeOK /\ Paced /\ Cooled /\ [Next]_vars => Cooled'
<1> SUFFICES ASSUME TypeOK, Paced, Cooled, [Next]_vars PROVE Cooled'
    OBVIOUS
<1> USE AutoscalerAssumption, Horizons DEF TypeOK, Phase, Alive, Goes, handle, cooldown, load, Paced, Limit, Cooled
<1>1. ASSUME start PROVE Cooled'
    BY <1>1 DEF start
<1>2. ASSUME stop_begins PROVE Cooled'
    BY <1>2 DEF stop_begins
<1>3. ASSUME stop_ends PROVE Cooled'
    BY <1>3 DEF stop_ends
<1>4. ASSUME NEW t \in Threads, Tests(t) PROVE Cooled'
    BY <1>4 DEF Tests
<1>5. ASSUME NEW t \in Threads, Wakes(t) PROVE Cooled'
    BY <1>5 DEF Wakes
<1>6. ASSUME NEW t \in Threads, Decides(t) PROVE Cooled'
    BY <1>6 DEF Decides
<1>7. ASSUME NEW t \in Threads, CallReturns(t) PROVE Cooled'
    BY <1>7 DEF CallReturns
<1>8. ASSUME NEW t \in Threads, Raises(t) PROVE Cooled'
    BY <1>8 DEF Raises
<1>9. ASSUME Submits PROVE Cooled'
    BY <1>9 DEF Submits
<1>10. ASSUME Retries PROVE Cooled'
    BY <1>10 DEF Retries
<1>11. ASSUME Dispatches PROVE Cooled'
    BY <1>11 DEF Dispatches
<1>12. ASSUME Tick PROVE Cooled'
    BY <1>12 DEF Tick, Later
<1>13. ASSUME UNCHANGED vars PROVE Cooled'
    BY <1>13 DEF vars
<1> QED
    BY <1>1, <1>2, <1>3, <1>4, <1>5, <1>6, <1>7, <1>8, <1>9, <1>10, <1>11, <1>12, <1>13
    DEF Next, LoopStep

LEMMA CountedStep == TypeOK /\ Counted /\ [Next]_vars => Counted'
<1> SUFFICES ASSUME TypeOK, Counted, [Next]_vars PROVE Counted'
    OBVIOUS
<1> USE AutoscalerAssumption, Horizons DEF TypeOK, Phase, Alive, Goes, handle, cooldown, load, Counted, Gauge
<1>1. ASSUME start PROVE Counted'
    BY <1>1 DEF start
<1>2. ASSUME stop_begins PROVE Counted'
    BY <1>2 DEF stop_begins
<1>3. ASSUME stop_ends PROVE Counted'
    BY <1>3 DEF stop_ends
<1>4. ASSUME NEW t \in Threads, Tests(t) PROVE Counted'
    BY <1>4 DEF Tests
<1>5. ASSUME NEW t \in Threads, Wakes(t) PROVE Counted'
    BY <1>5 DEF Wakes
<1>6. ASSUME NEW t \in Threads, Decides(t) PROVE Counted'
    BY <1>6 DEF Decides
<1>7. ASSUME NEW t \in Threads, CallReturns(t) PROVE Counted'
    BY <1>7 DEF CallReturns
<1>8. ASSUME NEW t \in Threads, Raises(t) PROVE Counted'
    BY <1>8 DEF Raises
<1>9. ASSUME Submits PROVE Counted'
    BY <1>9 DEF Submits
<1>10. ASSUME Retries PROVE Counted'
    BY <1>10 DEF Retries
<1>11. ASSUME Dispatches PROVE Counted'
    BY <1>11 DEF Dispatches
<1>12. ASSUME Tick PROVE Counted'
    BY <1>12 DEF Tick
<1>13. ASSUME UNCHANGED vars PROVE Counted'
    BY <1>13 DEF vars
<1> QED
    BY <1>1, <1>2, <1>3, <1>4, <1>5, <1>6, <1>7, <1>8, <1>9, <1>10, <1>11, <1>12, <1>13
    DEF Next, LoopStep

-----------------------------------------------------------------------------
(* The theorems. *)

LEMMA InductiveStep == Inductive /\ [Next]_vars => Inductive'
BY TypeStep, OneLoopStep, PacedStep, ObeyedStep, RestedStep, CooledStep, CountedStep DEF Inductive

\* The facts behind the theorems below hold in every state.
THEOREM AutoscalerInvariant == Spec => []Inductive
<1>1. Init => Inductive
    BY InitInductive
<1>2. Inductive /\ [Next]_vars => Inductive'
    BY InductiveStep
<1> QED
    BY <1>1, <1>2, PTL DEF Spec

\* Every variable keeps its type: the gauge is behind the queue by the jobs it
\* has not counted and no more, and the clocks keep to their limits.
THEOREM AutoscalerTypeCorrect == Spec => []TypeOK
<1>1. Inductive => TypeOK
    BY DEF Inductive
<1> QED
    BY <1>1, AutoscalerInvariant, PTL

\* However start() and stop() alternate, there is one loop, the one stop() joins.
THEOREM LoopIsAlone == Spec => []AtMostOneLoop
<1>1. OneLoop => AtMostOneLoop
    <2> SUFFICES ASSUME OneLoop PROVE Cardinality(thread) <= 1
        BY DEF OneLoop, AtMostOneLoop
    <2>1. CASE thread = {}
        BY <2>1, FS_EmptySet
    <2>2. CASE thread # {}
        <3>1. PICK t \in thread : thread = {t}
            BY <2>2 DEF OneLoop
        <3>2. Cardinality(thread) = 1
            BY <3>1, FS_Singleton
        <3> QED
            BY <3>2
    <2> QED
        BY <2>1, <2>2
<1>2. Inductive => AtMostOneLoop
    BY <1>1 DEF Inductive
<1> QED
    BY <1>2, AutoscalerInvariant, PTL

\* A stop() is obeyed within the longer of a sleep and an evaluation.
THEOREM StopIsObeyed == Spec => []StopTakesEffect
<1>1. Inductive => StopTakesEffect
    BY AutoscalerAssumption
    DEF Inductive, TypeOK, Phase, Alive, Paced, Limit, Obeyed, StopTakesEffect
<1> QED
    BY <1>1, AutoscalerInvariant, PTL

\* Scale-in is not asked for again until the cooldown, less the callback, has passed
\* since the last request that returned, nor, whether the last one returned or
\* raised, before the loop has slept.
THEOREM ScaleInIsSpaced == Spec => ScaleInSpaced
<1> DEFINE A == \A t \in Threads : pc[t] # "in" /\ pc'[t] = "in" =>
                    sinceDone > Cooldown - MaxCall /\ sinceTried >= Interval
<1>1. Inductive /\ [Next]_vars => [A]_vars
    <2> SUFFICES ASSUME Inductive, Next, NEW t \in Threads, pc[t] # "in", pc'[t] = "in"
                 PROVE  sinceDone > Cooldown - MaxCall /\ sinceTried >= Interval
        OBVIOUS
    <2>1. TypeOK /\ Cooled /\ Rested
        BY DEF Inductive
    <2>2. PICK u \in Threads : Decides(u) /\ u = t
        BY <2>1 DEF Next, LoopStep, start, stop_begins, stop_ends, Tests, Wakes, Decides,
           CallReturns, Raises, Submits, Retries, Dispatches, Tick, Goes, TypeOK
    <2>3. ScaleIn(t)
        BY <2>1, <2>2 DEF Decides, Goes, TypeOK
    <2>4. sinceDone > Cooldown - MaxCall
        BY <2>1, <2>3, AutoscalerAssumption DEF ScaleIn, Cooled, TypeOK, InHorizon
    <2>5. sinceTried >= Interval
        BY <2>1, <2>2 DEF Decides, Rested
    <2> QED
        BY <2>4, <2>5
<1> QED
    BY <1>1, AutoscalerInvariant, PTL DEF Spec, ScaleInSpaced
=============================================================================
