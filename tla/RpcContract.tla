---------------------------- MODULE RpcContract ----------------------------
(***************************************************************************)
(* What zeroeq::Client::request promises its caller (client.h): the call    *)
(* blocks, is then refused (false) or accepted (true), and an accepted call *)
(* stays pending until its reply function is executed during receive().     *)
(* A client is used by one thread, so it has one call blocking at a time,   *)
(* and the calls are numbered in the order they are made.                   *)
(***************************************************************************)
EXTENDS Naturals

CONSTANTS Clients, MaxRequests

VARIABLE state  \* state[c][n]: what became of the n-th call of client c

Phase == {"new", "blocking", "refused", "accepted", "answered"}

Init == state = [c \in Clients |-> [n \in 1..MaxRequests |-> "new"]]

\* The n-th call of c moves on; no other call changes.
Move(c, n, from, to) ==
    /\ state[c][n] = from
    /\ state' = [state EXCEPT ![c][n] = to]

\* request() is entered: after all earlier calls, none of them still blocking.
Call(c, n) ==
    /\ \A k \in 1..(n - 1) : state[c][k] \notin {"new", "blocking"}
    /\ Move(c, n, "new", "blocking")

\* request() returns.
Return(c, n) ==
    \/ Move(c, n, "blocking", "accepted")
    \/ Move(c, n, "blocking", "refused")

\* receive() executes the reply function.
Execute(c, n) == Move(c, n, "accepted", "answered")

Next ==
    \E c \in Clients, n \in 1..MaxRequests :
        Call(c, n) \/ Return(c, n) \/ Execute(c, n)

Spec == Init /\ [][Next]_state
=============================================================================
