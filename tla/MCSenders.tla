------------------------------ MODULE MCSenders ------------------------------
(* Model-checking instances of Senders.                                      *)
EXTENDS Senders

CONSTANTS p1, s1, m1, m2, c1, c2, none

SomeEnv == [pub |-> "", old |-> "old", rep |-> ""]

\* No address, ":7" as a string, "ip:7" with an empty session, "tcp://ip", "lo:7"
\* and "0.0.0.0:8", "ip:8" through servus, which loses it, and an inproc address.
SomeArguments ==
    {[via |-> "nothing", text |-> DefaultURI, session |-> DEFAULT_SESSION],
     [via |-> "string", text |-> [scheme |-> "", host |-> "", port |-> 7],
      session |-> "mine"],
     [via |-> "string", text |-> [scheme |-> "", host |-> "ip", port |-> 7],
      session |-> ""],
     [via |-> "string", text |-> [scheme |-> "tcp", host |-> "ip", port |-> 0],
      session |-> TEST_SESSION],
     [via |-> "string", text |-> [scheme |-> "", host |-> "lo", port |-> 7],
      session |-> "mine"],
     [via |-> "string", text |-> [scheme |-> "", host |-> "0.0.0.0", port |-> 8],
      session |-> "mine"],
     [via |-> "servus", text |-> [scheme |-> "", host |-> "ip", port |-> 8],
      session |-> NULL_SESSION],
     [via |-> "string", text |-> [scheme |-> "inproc", host |-> "name", port |-> 0],
      session |-> DEFAULT_SESSION]}
=============================================================================
