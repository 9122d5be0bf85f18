-------------------------- MODULE MCClusterManager --------------------------
EXTENDS ClusterProperties, TLC
CONSTANTS n1, n2, j1, j2
OneNodeEach == [j \in Jobs |-> 1]
TwoNodesEach == [j \in Jobs |-> 2]
RetryOnce == [j \in Jobs |-> 1]
EqualScores == [n \in Nodes |-> 1]
\* Jobs are alike in the runs that use it, which check no liveness.
JobSymmetry == Permutations(Jobs)
=============================================================================
