------------------------ MODULE FailureDetectorProofs ------------------------
(***************************************************************************)
(* What FailureDetector promises, for every setting of the timeouts: when  *)
(* a live node is kept, when the monitor sees a dead one before a reader   *)
(* hides it, how long a dead one can go unmarked, and that accurate        *)
(* settings implement NodeLiveness, the rule ClusterManager is built on.   *)
(***************************************************************************)
EXTENDS FailureDetector, TLAPS

\* The heartbeats a node has lost cost it a period each.
LEMMA LostPeriods ==
    /\ Period \in Nat /\ Longest \in Nat /\ Missed(0) = 0
    /\ \A k \in 0..MaxLost :
          /\ Missed(k) \in Nat
          /\ Missed(k) <= Missed(MaxLost)
          /\ Missed(k + 1) = Missed(k) + Period
<1>1. Period \in Nat /\ MaxLost \in Nat /\ MaxDelay \in Nat
    BY DetectorAssumption DEF Period
<1>2. ASSUME NEW p \in Nat, NEW m \in Nat, NEW k \in 0..m
      PROVE  /\ k * p \in Nat
             /\ (k + 1) * p = k * p + p
             /\ k * p <= m * p
    <2>1. k \in Nat /\ m - k \in Nat
        BY <1>2
    <2>2. (m - k) * p \in Nat /\ k * p \in Nat /\ m * p \in Nat
        BY <2>1
    <2>3. m * p = (m - k) * p + k * p
        BY <2>1
    <2> QED
        BY <2>1, <2>2, <2>3
<1> QED
    BY <1>1, <1>2 DEF Missed, Longest

-----------------------------------------------------------------------------
(* Types. *)

LEMMA InitInductive == Init => Inductive
<1> SUFFICES ASSUME Init PROVE Inductive
    OBVIOUS
<1> USE DetectorAssumption DEF Init
<1>1. TypeOK
    BY DEF TypeOK, Phase, Horizon
<1>2. Paced
    BY DEF Paced, Limit, MonitorLimit
<1>3. Fresh /\ Kept
    BY DEF Fresh, Kept
<1>4. Watched /\ Swept
    BY DEF Watched, Swept
<1> QED
    BY <1>1, <1>2, <1>3, <1>4 DEF Inductive

LEMMA TypeStep == TypeOK /\ Paced /\ [Next]_vars => TypeOK'
<1> SUFFICES ASSUME TypeOK, Paced, [Next]_vars PROVE TypeOK'
    OBVIOUS
<1> USE DetectorAssumption DEF TypeOK, Phase, Goes, Restarts
<1>1. ASSUME NEW n \in Nodes, Joins(n) PROVE TypeOK'
    BY <1>1 DEF Joins, monVars, Horizon
<1>2. ASSUME NEW n \in Nodes, Sends(n) PROVE TypeOK'
    BY <1>2 DEF Sends, monVars
<1>3. ASSUME NEW n \in Nodes, Loses(n) PROVE TypeOK'
    BY <1>3 DEF Loses, monVars
<1>4. ASSUME NEW n \in Nodes, Stamps(n) PROVE TypeOK'
    BY <1>4 DEF Stamps, monVars
<1>5. ASSUME NEW n \in Nodes, Commits(n) PROVE TypeOK'
    BY <1>5 DEF Commits, update_heartbeat, Horizon
<1>6. ASSUME NEW n \in Nodes, Returns(n) PROVE TypeOK'
    BY <1>6 DEF Returns, monVars
<1>7. ASSUME NEW n \in Nodes, Dies(n) PROVE TypeOK'
    BY <1>7 DEF Dies, monVars
<1>8. ASSUME MonitorScans PROVE TypeOK'
    BY <1>8 DEF MonitorScans, nodeVars
<1>9. ASSUME MonitorMarks PROVE TypeOK'
    BY <1>9 DEF MonitorMarks, mark_offline_nodes, nodeVars
<1>10. ASSUME ProbeMarks PROVE TypeOK'
    BY <1>10 DEF ProbeMarks, mark_offline_nodes, nodeVars, monVars
<1>11. ASSUME Tick PROVE TypeOK'
    <2>1. clock' \in [Nodes -> 0..(HeartbeatInterval + MaxDelay)]
        <3>1. ASSUME NEW n \in Nodes, call[n] \notin {"off", "down"}
              PROVE  clock[n] + 1 \in 0..(HeartbeatInterval + MaxDelay)
            BY <1>11, <3>1 DEF Tick, Limit
        <3> QED
            BY <1>11, <3>1 DEF Tick
    <2>2. stamp' \in [Nodes -> 0..MaxDelay]
        <3>1. ASSUME NEW n \in Nodes, call[n] = "stamped"
              PROVE  stamp[n] + 1 \in 0..MaxDelay
            BY <1>11, <3>1 DEF Tick, Limit, Paced
        <3> QED
            BY <1>11, <3>1 DEF Tick
    <2>3. age' \in [Nodes -> 0..Horizon]
        BY <1>11 DEF Tick, Horizon
    <2>4. monClock' \in 0..(CheckInterval + MaxPass)
        BY <1>11 DEF Tick, MonitorLimit
    <2> QED
        BY <1>11, <2>1, <2>2, <2>3, <2>4 DEF Tick
<1>12. ASSUME UNCHANGED vars PROVE TypeOK'
    BY <1>12 DEF vars, nodeVars, monVars
<1> QED
    BY <1>1, <1>2, <1>3, <1>4, <1>5, <1>6, <1>7, <1>8, <1>9, <1>10, <1>11, <1>12
    DEF Next, NodeStep

LEMMA PacedStep == TypeOK /\ Paced /\ [Next]_vars => Paced'
<1> SUFFICES ASSUME TypeOK, Paced, [Next]_vars PROVE Paced'
    OBVIOUS
<1> USE DetectorAssumption DEF TypeOK, Phase, Paced, Limit, MonitorLimit, Goes, Restarts
<1>1. ASSUME NEW n \in Nodes, Joins(n) PROVE Paced'
    BY <1>1 DEF Joins, monVars
<1>2. ASSUME NEW n \in Nodes, Sends(n) PROVE Paced'
    BY <1>2 DEF Sends, monVars
<1>3. ASSUME NEW n \in Nodes, Loses(n) PROVE Paced'
    BY <1>3 DEF Loses, monVars
<1>4. ASSUME NEW n \in Nodes, Stamps(n) PROVE Paced'
    BY <1>4 DEF Stamps, monVars
<1>5. ASSUME NEW n \in Nodes, Commits(n) PROVE Paced'
    BY <1>5 DEF Commits, update_heartbeat
<1>6. ASSUME NEW n \in Nodes, Returns(n) PROVE Paced'
    BY <1>6 DEF Returns, monVars
<1>7. ASSUME NEW n \in Nodes, Dies(n) PROVE Paced'
    BY <1>7 DEF Dies, Known, monVars
<1>8. ASSUME MonitorScans PROVE Paced'
    BY <1>8 DEF MonitorScans, nodeVars, Suspected, Known
<1>9. ASSUME MonitorMarks PROVE Paced'
    BY <1>9 DEF MonitorMarks, mark_offline_nodes, nodeVars, Overdue, Known
<1>10. ASSUME ProbeMarks PROVE Paced'
    BY <1>10 DEF ProbeMarks, mark_offline_nodes, nodeVars, monVars, Overdue, Known
<1>11. ASSUME Tick PROVE Paced'
    BY <1>11 DEF Tick, Known
<1>12. ASSUME UNCHANGED vars PROVE Paced'
    BY <1>12 DEF vars, nodeVars, monVars
<1> QED
    BY <1>1, <1>2, <1>3, <1>4, <1>5, <1>6, <1>7, <1>8, <1>9, <1>10, <1>11, <1>12
    DEF Next, NodeStep

-----------------------------------------------------------------------------
(* The row of a live node. *)

LEMMA FreshStep == TypeOK /\ Paced /\ Fresh /\ [Next]_vars => Fresh'
<1> SUFFICES ASSUME TypeOK, Paced, Fresh, [Next]_vars PROVE Fresh'
    OBVIOUS
<1> USE DetectorAssumption, LostPeriods DEF TypeOK, Phase, Paced, Limit, Fresh, Goes, Restarts
<1>1. ASSUME NEW n \in Nodes, Joins(n) PROVE Fresh'
    BY <1>1 DEF Joins, monVars
<1>2. ASSUME NEW n \in Nodes, Sends(n) PROVE Fresh'
    <2>1. Period = HeartbeatInterval + MaxDelay
        BY DEF Period
    <2>2. Missed(lost[n]) \in Nat
        BY LostPeriods
    <2>3. age[n] <= Period + Missed(lost[n])
        BY <1>2, <2>1, <2>2 DEF Sends
    <2> QED
        BY <1>2, <2>2, <2>3 DEF Sends, monVars
<1>3. ASSUME NEW n \in Nodes, Loses(n) PROVE Fresh'
    <2>1. lost[n] \in 0..MaxLost /\ Missed(lost[n] + 1) = Missed(lost[n]) + Period
        BY LostPeriods
    <2>2. /\ lost' = [lost EXCEPT ![n] = lost[n] + 1]
          /\ age[n] <= MaxDelay + Missed(lost[n] + 1)
        BY <1>3, <2>1 DEF Loses
    <2> QED
        BY <1>3, <2>2 DEF Loses, monVars
<1>4. ASSUME NEW n \in Nodes, Stamps(n) PROVE Fresh'
    BY <1>4 DEF Stamps, monVars
<1>5. ASSUME NEW n \in Nodes, Commits(n) PROVE Fresh'
    BY <1>5 DEF Commits, update_heartbeat, monVars
<1>6. ASSUME NEW n \in Nodes, Returns(n) PROVE Fresh'
    BY <1>6 DEF Returns, monVars
<1>7. ASSUME NEW n \in Nodes, Dies(n) PROVE Fresh'
    BY <1>7 DEF Dies, Known, monVars
<1>8. ASSUME MonitorScans PROVE Fresh'
    BY <1>8 DEF MonitorScans, nodeVars, Suspected, Known
<1>9. ASSUME MonitorMarks PROVE Fresh'
    BY <1>9 DEF MonitorMarks, mark_offline_nodes, nodeVars, Overdue, Known
<1>10. ASSUME ProbeMarks PROVE Fresh'
    BY <1>10 DEF ProbeMarks, mark_offline_nodes, nodeVars, monVars, Overdue, Known
<1>11. ASSUME Tick PROVE Fresh'
    BY <1>11 DEF Tick, Known
<1>12. ASSUME UNCHANGED vars PROVE Fresh'
    BY <1>12 DEF vars, nodeVars, monVars
<1> QED
    BY <1>1, <1>2, <1>3, <1>4, <1>5, <1>6, <1>7, <1>8, <1>9, <1>10, <1>11, <1>12
    DEF Next, NodeStep

\* A row that gets heartbeats is never older than Longest.
LEMMA FreshEnough ==
    ASSUME TypeOK, Paced, Fresh, NEW n \in Nodes, Known(n), call[n] # "down"
    PROVE  age[n] <= Longest
<1> USE DetectorAssumption, LostPeriods DEF TypeOK, Phase, Paced, Limit, Fresh, Known
<1>1. /\ Missed(lost[n]) \in Nat /\ Missed(MaxLost) \in Nat
      /\ Missed(lost[n]) <= Missed(MaxLost)
    BY LostPeriods
<1>2. Longest = Missed(MaxLost) + Period + MaxDelay
    BY DEF Longest
<1>3. CASE call[n] = "sleep"
    BY <1>1, <1>2, <1>3 DEF Period
<1>4. CASE call[n] \in {"sent", "stamped"}
    BY <1>1, <1>2, <1>4
<1>5. CASE call[n] = "acked"
    BY <1>1, <1>2, <1>5
<1> QED
    BY <1>3, <1>4, <1>5

LEMMA KeptStep == TypeOK /\ Paced /\ Fresh /\ Kept /\ [Next]_vars => Kept'
<1> SUFFICES ASSUME TypeOK, Paced, Fresh, Kept, [Next]_vars, Accurate PROVE Kept'
    BY DEF Kept, Accurate
<1>0. \A n \in Nodes : call[n] # "down" => ~Overdue(n) /\ ~Suspected(n)
    <2> SUFFICES ASSUME NEW n \in Nodes, call[n] # "down", Known(n)
                 PROVE  age[n] <= MarkAfter /\ age[n] <= OfflineTimeout
        BY DetectorAssumption DEF TypeOK, Overdue, Suspected
    <2>1. age[n] <= Longest
        BY FreshEnough
    <2> QED
        BY <2>1, LostPeriods, DetectorAssumption DEF TypeOK, Accurate
<1> USE DEF TypeOK, Phase, Paced, Kept, Goes
<1>1. ASSUME NEW n \in Nodes, Joins(n) PROVE Kept'
    BY <1>1, <1>0 DEF Joins, monVars
<1>2. ASSUME NEW n \in Nodes, Sends(n) PROVE Kept'
    BY <1>2, <1>0 DEF Sends, monVars
<1>3. ASSUME NEW n \in Nodes, Loses(n) PROVE Kept'
    BY <1>3, <1>0 DEF Loses, monVars
<1>4. ASSUME NEW n \in Nodes, Stamps(n) PROVE Kept'
    BY <1>4, <1>0 DEF Stamps, monVars
<1>5. ASSUME NEW n \in Nodes, Commits(n) PROVE Kept'
    BY <1>5, <1>0 DEF Commits, update_heartbeat, monVars
<1>6. ASSUME NEW n \in Nodes, Returns(n) PROVE Kept'
    BY <1>6, <1>0 DEF Returns, monVars
<1>7. ASSUME NEW n \in Nodes, Dies(n) PROVE Kept'
    BY <1>7, <1>0 DEF Dies, monVars
<1>8. ASSUME MonitorScans PROVE Kept'
    BY <1>8, <1>0 DEF MonitorScans, nodeVars
<1>9. ASSUME MonitorMarks PROVE Kept'
    BY <1>9, <1>0 DEF MonitorMarks, mark_offline_nodes, nodeVars
<1>10. ASSUME ProbeMarks PROVE Kept'
    BY <1>10, <1>0 DEF ProbeMarks, mark_offline_nodes, nodeVars, monVars
<1>11. ASSUME Tick PROVE Kept'
    BY <1>11, <1>0 DEF Tick
<1>12. ASSUME UNCHANGED vars PROVE Kept'
    BY <1>12 DEF vars, nodeVars, monVars
<1> QED
    BY <1>1, <1>2, <1>3, <1>4, <1>5, <1>6, <1>7, <1>8, <1>9, <1>10, <1>11, <1>12
    DEF Next, NodeStep

-----------------------------------------------------------------------------
(* The row of a dead node. *)

LEMMA WatchedStep == TypeOK /\ Paced /\ Watched /\ [Next]_vars => Watched'
<1> SUFFICES ASSUME TypeOK, Paced, Watched, [Next]_vars, Timely PROVE Watched'
    BY DEF Watched, Timely
<1> USE DetectorAssumption DEF TypeOK, Phase, Paced, Limit, MonitorLimit, Watched, Timely, Goes
<1>1. ASSUME NEW n \in Nodes, Joins(n) PROVE Watched'
    BY <1>1 DEF Joins, monVars
<1>2. ASSUME NEW n \in Nodes, Sends(n) PROVE Watched'
    BY <1>2 DEF Sends, monVars
<1>3. ASSUME NEW n \in Nodes, Loses(n) PROVE Watched'
    BY <1>3 DEF Loses, monVars
<1>4. ASSUME NEW n \in Nodes, Stamps(n) PROVE Watched'
    BY <1>4 DEF Stamps, monVars
<1>5. ASSUME NEW n \in Nodes, Commits(n) PROVE Watched'
    BY <1>5 DEF Commits, update_heartbeat, monVars
<1>6. ASSUME NEW n \in Nodes, Returns(n) PROVE Watched'
    BY <1>6 DEF Returns, monVars
<1>7. ASSUME NEW n \in Nodes, Dies(n) PROVE Watched'
    BY <1>7 DEF Dies, Known, monVars
<1>8. ASSUME MonitorScans PROVE Watched'
    BY <1>8 DEF MonitorScans, nodeVars, Suspected, Known
<1>9. ASSUME MonitorMarks PROVE Watched'
    BY <1>9 DEF MonitorMarks, mark_offline_nodes, nodeVars, Overdue, Known
<1>10. ASSUME ProbeMarks PROVE Watched'
    BY <1>10 DEF ProbeMarks, mark_offline_nodes, nodeVars, monVars, Overdue, Known
<1>11. ASSUME Tick PROVE Watched'
    BY <1>11 DEF Tick, Known
<1>12. ASSUME UNCHANGED vars PROVE Watched'
    BY <1>12 DEF vars, nodeVars, monVars
<1> QED
    BY <1>1, <1>2, <1>3, <1>4, <1>5, <1>6, <1>7, <1>8, <1>9, <1>10, <1>11, <1>12
    DEF Next, NodeStep

LEMMA SweptStep == TypeOK /\ Paced /\ Swept /\ [Next]_vars => Swept'
<1> SUFFICES ASSUME TypeOK, Paced, Swept, [Next]_vars, MaxDelay <= MarkAfter PROVE Swept'
    BY DEF Swept
<1> USE DetectorAssumption DEF TypeOK, Phase, Paced, Limit, MonitorLimit, Swept, Goes
<1>1. ASSUME NEW n \in Nodes, Joins(n) PROVE Swept'
    BY <1>1 DEF Joins, monVars
<1>2. ASSUME NEW n \in Nodes, Sends(n) PROVE Swept'
    BY <1>2 DEF Sends, monVars
<1>3. ASSUME NEW n \in Nodes, Loses(n) PROVE Swept'
    BY <1>3 DEF Loses, monVars
<1>4. ASSUME NEW n \in Nodes, Stamps(n) PROVE Swept'
    BY <1>4 DEF Stamps, monVars
<1>5. ASSUME NEW n \in Nodes, Commits(n) PROVE Swept'
    BY <1>5 DEF Commits, update_heartbeat, monVars
<1>6. ASSUME NEW n \in Nodes, Returns(n) PROVE Swept'
    BY <1>6 DEF Returns, monVars
<1>7. ASSUME NEW n \in Nodes, Dies(n) PROVE Swept'
    BY <1>7 DEF Dies, Known, monVars
<1>8. ASSUME MonitorScans PROVE Swept'
    BY <1>8 DEF MonitorScans, nodeVars, Suspected, Known
<1>9. ASSUME MonitorMarks PROVE Swept'
    BY <1>9 DEF MonitorMarks, mark_offline_nodes, nodeVars, Overdue, Known
<1>10. ASSUME ProbeMarks PROVE Swept'
    BY <1>10 DEF ProbeMarks, mark_offline_nodes, nodeVars, monVars, Overdue, Known
<1>11. ASSUME Tick PROVE Swept'
    BY <1>11 DEF Tick, Known
<1>12. ASSUME UNCHANGED vars PROVE Swept'
    BY <1>12 DEF vars, nodeVars, monVars
<1> QED
    BY <1>1, <1>2, <1>3, <1>4, <1>5, <1>6, <1>7, <1>8, <1>9, <1>10, <1>11, <1>12
    DEF Next, NodeStep

-----------------------------------------------------------------------------
(* The theorems. *)

LEMMA InductiveStep == Inductive /\ [Next]_vars => Inductive'
BY TypeStep, PacedStep, FreshStep, KeptStep, WatchedStep, SweptStep DEF Inductive

\* The bounds behind the theorems below hold in every state.
THEOREM DetectorBounds == Spec => []Inductive
<1>1. Init => Inductive
    BY InitInductive
<1>2. Inductive /\ [Next]_vars => Inductive'
    BY InductiveStep
<1> QED
    BY <1>1, <1>2, PTL DEF Spec

\* Every variable keeps its type: the clocks their limits, the ages the horizon.
THEOREM DetectorTypeCorrect == Spec => []TypeOK
<1>1. Inductive => TypeOK
    BY DEF Inductive
<1> QED
    BY <1>1, DetectorBounds, PTL

\* With accurate settings no live node is marked DISCONNECTED, nor found by the
\* query of the monitor, however its heartbeats are delayed and lost.
THEOREM LiveNodesKept == Spec => []LiveNodeKept
<1>1. Inductive => LiveNodeKept
    BY DEF Inductive, TypeOK, Paced, Kept, LiveNodeKept
<1> QED
    BY <1>1, DetectorBounds, PTL

\* With timely settings a row is DISCONNECTED only after the monitor has found it.
THEOREM MonitorSeesFirst == Spec => []SeenBeforeMarked
<1>1. Inductive => SeenBeforeMarked
    BY DEF Inductive, Watched, SeenBeforeMarked
<1> QED
    BY <1>1, DetectorBounds, PTL

\* A row that has had no heartbeat for long is DISCONNECTED.
THEOREM DetectionIsTimely == Spec => []DetectedInTime
<1>1. Inductive => DetectedInTime
    <2> SUFFICES ASSUME Inductive, MaxDelay <= MarkAfter,
                        NEW n \in Nodes, n \notin marked
                 PROVE  age[n] <= MarkAfter + CheckInterval + MaxPass
        BY DetectorAssumption DEF DetectedInTime, Inductive, TypeOK, Horizon
    <2>1. age[n] <= MarkAfter + monClock + (IF monPc = "sleep" THEN 0 ELSE CheckInterval)
        BY DEF Inductive, Swept
    <2> QED
        BY <2>1, DetectorAssumption DEF Inductive, TypeOK, Paced, MonitorLimit, Horizon
<1> QED
    BY <1>1, DetectorBounds, PTL

-----------------------------------------------------------------------------
(* The refinement. *)

\* A row that gets heartbeats is not overdue.
Quiet == \A n \in Nodes : call[n] # "down" => ~Overdue(n)

LEMMA NotOverdue == Accurate /\ Inductive => Quiet
<1> SUFFICES ASSUME Accurate, Inductive,
                    NEW n \in Nodes, call[n] # "down", Known(n)
             PROVE  age[n] <= MarkAfter
    BY DetectorAssumption DEF Inductive, TypeOK, Overdue, Quiet
<1>1. age[n] <= Longest
    BY FreshEnough DEF Inductive
<1> QED
    BY <1>1, LostPeriods, DetectorAssumption DEF Inductive, TypeOK, Accurate

LEMMA UntimedStep ==
    Accurate /\ Inductive /\ Inductive' /\ [Next]_vars => [Untimed!Next]_(Untimed!vars)
<1> SUFFICES ASSUME Accurate, Inductive, Inductive', [Next]_vars
             PROVE  [Untimed!Next]_(Untimed!vars)
    OBVIOUS
<1>1. Quiet
    BY NotOverdue
<1>2. (Accurate /\ Inductive => Quiet)'
    BY NotOverdue, PTL
<1>3. Quiet'
    BY <1>2 DEF Accurate
<1> USE DEF Quiet, Phase, Goes
<1> DEFINE busy == {n \in Nodes : call[n] \in {"sent", "stamped"}}
           late == {n \in Nodes : Overdue(n)}
           stay == /\ busy' = busy /\ late' = late
                   /\ UNCHANGED <<alive, marked>>
<1>4. TypeOK /\ Paced /\ TypeOK'
    BY DEF Inductive
<1>5. stay => UNCHANGED Untimed!vars
    BY DEF Untimed!vars
<1>6. ASSUME NEW n \in Nodes, Joins(n) PROVE stay
    BY <1>1, <1>3, <1>4, <1>6 DEF Joins, Overdue, Known, TypeOK
<1>7. ASSUME NEW n \in Nodes, Sends(n) PROVE Untimed!Beat(n)
    BY <1>4, <1>7 DEF Sends, Untimed!Beat, Overdue, Known, TypeOK, Paced
<1>8. ASSUME NEW n \in Nodes, Loses(n) PROVE Untimed!Lose(n)
    BY <1>4, <1>8 DEF Loses, Untimed!Lose, Overdue, Known, TypeOK
<1>9. ASSUME NEW n \in Nodes, Stamps(n) PROVE stay
    BY <1>4, <1>9 DEF Stamps, Overdue, Known, TypeOK
<1>10. ASSUME NEW n \in Nodes, Commits(n) PROVE Untimed!Update(n)
    <2>1. stamp[n] <= MarkAfter
        <3>1. MaxDelay <= Longest /\ Longest <= MarkAfter
            BY LostPeriods, DetectorAssumption DEF Longest, Accurate
        <3> QED
            BY <1>4, <3>1, LostPeriods, DetectorAssumption DEF TypeOK
    <2>2. ~Overdue(n)'
        BY <1>4, <1>10, <2>1, DetectorAssumption DEF Commits, update_heartbeat, Overdue, TypeOK
    <2>3. late' = late \ {n}
        BY <1>1, <1>4, <1>10, <2>2 DEF Commits, update_heartbeat, Overdue, Known, TypeOK
    <2> QED
        BY <1>4, <1>10, <2>3 DEF Commits, update_heartbeat, Untimed!Update, TypeOK
<1>11. ASSUME NEW n \in Nodes, Returns(n) PROVE stay
    BY <1>4, <1>11 DEF Returns, Overdue, Known, TypeOK
<1>12. ASSUME NEW n \in Nodes, Dies(n) PROVE Untimed!Die(n)
    BY <1>4, <1>12 DEF Dies, Untimed!Die, Overdue, Known, TypeOK
<1>13. ASSUME MonitorScans PROVE stay
    BY <1>13 DEF MonitorScans, nodeVars, Overdue, Known
<1>14. ASSUME mark_offline_nodes PROVE Untimed!Mark
    BY <1>14 DEF mark_offline_nodes, nodeVars, Untimed!Mark, Overdue, Known
<1>15. ASSUME Tick PROVE \E S \in SUBSET Nodes : Untimed!Lapse(S)
    <2>1. late \subseteq late'
        BY <1>4, <1>15, DetectorAssumption DEF Tick, Overdue, Known, TypeOK, Horizon
    <2>2. late' \cap (alive \cup busy) = {}
        BY <1>3, <1>4, <1>15 DEF Tick, Overdue, Paced, TypeOK
    <2>3. Untimed!Lapse(late' \ late)
        BY <1>15, <2>1, <2>2 DEF Tick, Untimed!Lapse
    <2> QED
        BY <2>3
<1>16. ASSUME UNCHANGED vars PROVE stay
    BY <1>16 DEF vars, nodeVars, monVars, Overdue, Known
<1> QED
    BY <1>5, <1>6, <1>7, <1>8, <1>9, <1>10, <1>11, <1>12, <1>13, <1>14, <1>15, <1>16
    DEF Next, NodeStep, MonitorMarks, ProbeMarks, Untimed!Next

\* With accurate settings the clocks implement the rule of NodeLiveness: the row
\* of a node is out of date only when its agent is gone and no heartbeat of it is
\* under way.
THEOREM ClocksImplementRule == Accurate => (Spec => LapsesOnlyDead)
<1>1. Init => Untimed!Init
    BY DEF Init, Untimed!Init, Overdue, Known
<1>2. Accurate /\ Inductive /\ Inductive' /\ [Next]_vars => [Untimed!Next]_(Untimed!vars)
    BY UntimedStep
<1>3. SUFFICES ASSUME Accurate PROVE Spec => LapsesOnlyDead
    OBVIOUS
<1>4. Inductive /\ Inductive' /\ [Next]_vars => [Untimed!Next]_(Untimed!vars)
    BY <1>2, <1>3
<1> QED
    BY <1>1, <1>4, DetectorBounds, PTL DEF Spec, LapsesOnlyDead, Untimed!Spec
=============================================================================
