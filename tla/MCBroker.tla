------------------------------ MODULE MCBroker ------------------------------
(* Model-checking instances of Broker.                                       *)
EXTENDS Broker

CONSTANTS c1, c2, b1, b2, none
=============================================================================
