---------------------------- MODULE MCSubscriber ----------------------------
(* Model-checking instances of Subscriber.                                   *)
EXTENDS Subscriber

CONSTANTS p1, p2, p3, e1, e2, meerkat
=============================================================================
