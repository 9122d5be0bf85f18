-------------------------- MODULE MCFailureDetector --------------------------
EXTENDS FailureDetector
CONSTANTS n1, n2
=============================================================================
