------------------------ MODULE MCControllerBooks ------------------------
EXTENDS ControllerBooks, TLC

CONSTANTS phoneA, phoneB, a1, a2, b1, s1

MCOwnerOf == (a1 :> phoneA) @@ (a2 :> phoneA) @@ (b1 :> phoneB)

=============================================================================
