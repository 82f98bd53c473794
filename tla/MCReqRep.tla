------------------------------ MODULE MCReqRep ------------------------------
(* Model-checking instances of ReqRep: model values and symmetry.            *)
EXTENDS ReqRep, TLC

CONSTANTS c1, c2, s1, s2

Symmetry == Permutations(Clients)
=============================================================================
