---------------------------- MODULE MCTurnQueue ----------------------------
EXTENDS TurnQueue

CONSTANTS p1, p2, f1, f2

=============================================================================
