---------------------------- MODULE MCAutoscaler -----------------------------
EXTENDS Autoscaler
CONSTANTS t1, t2, t3
=============================================================================
