--------------------------- MODULE MCReceiverGroup ---------------------------
(* Model-checking instance of ReceiverGroup: members with one, no and two    *)
(* sockets.                                                                  *)
EXTENDS ReceiverGroup

CONSTANTS r1, r2, r3, garbage, forever

SomeFounders == <<r1, r2, r3>>
SomeSupplied == [r \in Receivers |-> CASE r = r1 -> 1 [] r = r2 -> 0 [] r = r3 -> 2]
=============================================================================
