----------------------------- MODULE MCTrainer ------------------------------
EXTENDS Trainer
CONSTANTS h1, h2, h3, shared
TwoShare == [h \in Hosts |-> IF h = h3 THEN h ELSE shared]
=============================================================================
