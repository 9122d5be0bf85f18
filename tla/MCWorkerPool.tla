---------------------------- MODULE MCWorkerPool -----------------------------
EXTENDS WorkerPool
CONSTANTS n1, n2
=============================================================================
