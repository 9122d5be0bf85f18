---------------------------- MODULE NodeLiveness -----------------------------
(***************************************************************************)
(* When a node counts as lost, without clocks: what ClusterManager assumes *)
(* of time in its action Lapse (for nodes outside MayLapse).  The row of a *)
(* node goes out of date only once its agent is gone and no heartbeat of   *)
(* it is under way, and only then is the node DISCONNECTED.                *)
(***************************************************************************)
CONSTANT Nodes

VARIABLES
    alive,      \* nodes whose agent runs
    beating,    \* nodes with a heartbeat under way to the table
    expired,    \* rows whose last_heartbeat is out of date
    marked      \* rows that are DISCONNECTED

vars == <<alive, beating, expired, marked>>

Init == alive = Nodes /\ beating = {} /\ expired = {} /\ marked = {}

Beat(n) ==
    /\ n \in alive
    /\ beating' = beating \cup {n}
    /\ UNCHANGED <<alive, expired, marked>>

\* The heartbeat is lost, and the row keeps its time.
Lose(n) ==
    /\ n \in beating
    /\ beating' = beating \ {n}
    /\ UNCHANGED <<alive, expired, marked>>

Update(n) ==
    /\ n \in beating
    /\ beating' = beating \ {n}
    /\ expired' = expired \ {n}
    /\ marked' = marked \ {n}
    /\ UNCHANGED alive

Die(n) ==
    /\ n \in alive
    /\ alive' = alive \ {n}
    /\ UNCHANGED <<beating, expired, marked>>

Lapse(S) ==
    /\ S \cap (alive \cup beating) = {}
    /\ expired' = expired \cup S
    /\ UNCHANGED <<alive, beating, marked>>

Mark ==
    /\ marked' = marked \cup expired
    /\ UNCHANGED <<alive, beating, expired>>

Next ==
    \/ \E n \in Nodes : Beat(n) \/ Lose(n) \/ Update(n) \/ Die(n)
    \/ \E S \in SUBSET Nodes : Lapse(S)
    \/ Mark

Spec == Init /\ [][Next]_vars
=============================================================================
