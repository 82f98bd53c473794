------------------------------- MODULE Broker -------------------------------
(***************************************************************************)
(* connection::Service::subscribe (connection/service.cpp), with which a    *)
(* publisher asks a remote receiver to connect to it, and connection::Broker *)
(* (connection/broker.cpp), which answers for that receiver.                *)
(*                                                                          *)
(* The caller connects a ZMQ_REQ socket to a port, sends its publisher's    *)
(* address and waits without a timeout for the address to come back.  The   *)
(* broker reads requests on a ZMQ_REP socket in its receiver's thread, calls *)
(* addConnection and echoes the address.  What addConnection does depends   *)
(* on the receiver: a Subscriber or a Client connects, a Server throws      *)
(* (server.cpp 218), other receivers do nothing (receiver.cpp 187).         *)
(***************************************************************************)
EXTENDS Integers, Sequences

CONSTANTS
    Callers,    \* threads that call Service::subscribe for their publisher
    None,       \* no caller
    Brokers,    \* receivers, each with at most one broker at a time
    Throwing,   \* those whose addConnection throws
    Ports,      \* ports of the host
    NamedPort,  \* getPort(name): the port derived from the brokers' name
    NoPort,     \* a broker that is not bound
    MaxCalls,   \* bound: calls per caller
    MaxCreated  \* bound: brokers created per receiver

ASSUME BrokerAssumption ==
    /\ None \notin Callers
    /\ Throwing \subseteq Brokers
    /\ NamedPort \in Ports /\ NoPort \notin Ports
    /\ MaxCalls \in Nat /\ MaxCreated \in Nat

VARIABLES
    port,     \* the port each broker is bound to
    created,  \* brokers created for each receiver
    inbox,    \* requests received by the REP socket, as callers
    owes,     \* the caller the REP socket must answer before it reads again
    table,    \* connections each receiver has added, per publisher
    asked,    \* history: addConnection calls made for each publisher
    call,     \* how far each caller is
    target,   \* the port a caller has connected to
    calls,    \* calls made
    yes       \* calls that returned true

brokerVars == <<port, created, owes, table, asked>>
callerVars == <<target, calls, yes>>
vars == <<brokerVars, inbox, call, callerVars>>

TypeOK ==
    /\ port \in [Brokers -> Ports \cup {NoPort}]
    /\ created \in [Brokers -> 0..MaxCreated]
    /\ inbox \in [Brokers -> Seq(Callers)]
    /\ owes \in [Brokers -> Callers \cup {None}]
    /\ table \in [Brokers -> [Callers -> Nat]]
    /\ asked \in [Callers -> Nat]
    /\ call \in [Callers -> {"idle",      \* not in subscribe()
                             "sent",      \* the request waits for its port
                             "received",  \* a broker's socket has the request
                             "dropped",   \* that broker was destroyed
                             "answered"}] \* the reply is on its way
    /\ target \in [Callers -> Ports]
    /\ calls \in [Callers -> 0..MaxCalls]
    /\ yes \in [Callers -> 0..MaxCalls]

Init ==
    /\ port = [b \in Brokers |-> NoPort]
    /\ created = [b \in Brokers |-> 0]
    /\ inbox = [b \in Brokers |-> <<>>]
    /\ owes = [b \in Brokers |-> None]
    /\ table = [b \in Brokers |-> [c \in Callers |-> 0]]
    /\ asked = [c \in Callers |-> 0]
    /\ call = [c \in Callers |-> "idle"]
    /\ target = [c \in Callers |-> NamedPort]
    /\ calls = [c \in Callers |-> 0]
    /\ yes = [c \in Callers |-> 0]

-----------------------------------------------------------------------------
(* Brokers *)

Free == Ports \ {port[b] : b \in Brokers}

\* _listen: zmq_bind takes a free port; an exception leaves no broker.
Listen(b, p) ==
    /\ p \in Free
    /\ port' = [port EXCEPT ![b] = p]

\* The constructor for a name: its port, or any other one if that is taken and
\* the mode is PORT_FIXED_OR_RANDOM.
CreateNamed(b) ==
    /\ port[b] = NoPort
    /\ created[b] < MaxCreated
    /\ created' = [created EXCEPT ![b] = @ + 1]
    /\ \/ Listen(b, NamedPort)
       \/ /\ NamedPort \notin Free
          /\ \E p \in Ports : Listen(b, p)
    /\ UNCHANGED <<inbox, owes, table, asked, call, callerVars>>

\* The constructor for an address.
CreateAt(b, p) ==
    /\ port[b] = NoPort
    /\ created[b] < MaxCreated
    /\ created' = [created EXCEPT ![b] = @ + 1]
    /\ Listen(b, p)
    /\ UNCHANGED <<inbox, owes, table, asked, call, callerVars>>

\* ~Broker closes the socket with all unread and unanswered requests; the
\* receiver keeps its connections.
Destroy(b) ==
    /\ port[b] # NoPort
    /\ port' = [port EXCEPT ![b] = NoPort]
    /\ inbox' = [inbox EXCEPT ![b] = <<>>]
    /\ owes' = [owes EXCEPT ![b] = None]
    /\ call' = [c \in Callers |->
          IF c = owes[b] \/ \E i \in DOMAIN inbox[b] : inbox[b][i] = c
          THEN "dropped" ELSE call[c]]
    /\ UNCHANGED <<created, table, asked, callerVars>>

\* addConnection of a receiver that does not throw: it adds the address of c, or
\* fails to connect, or does nothing.  The result does not reach the broker.
AddConnection(b, c) ==
    /\ asked' = [asked EXCEPT ![c] = @ + 1]
    /\ table' \in {table, [table EXCEPT ![b][c] = @ + 1]}

\* The first request; a REP socket that owes a reply is not signalled.
Readable(b) ==
    /\ port[b] # NoPort
    /\ owes[b] = None
    /\ inbox[b] # <<>>

\* Mutant: the address is confirmed before it is added.
ProcessConfirmFirst(b) ==
    LET c == Head(inbox[b])
    IN  /\ Readable(b)
        /\ inbox' = [inbox EXCEPT ![b] = Tail(@)]
        /\ call' = [call EXCEPT ![c] = "answered"]
        /\ IF b \in Throwing THEN UNCHANGED <<table, asked>> ELSE AddConnection(b, c)
        /\ UNCHANGED <<port, created, owes, callerVars>>

\* Mutant: an address that is known already is not confirmed.
ProcessKnownSilent(b) ==
    LET c == Head(inbox[b])
    IN  /\ Readable(b)
        /\ inbox' = [inbox EXCEPT ![b] = Tail(@)]
        /\ IF table[b][c] > 0
           THEN UNCHANGED <<call, table, asked>>
           ELSE /\ call' = [call EXCEPT ![c] = "answered"]
                /\ AddConnection(b, c)
        /\ UNCHANGED <<port, created, owes, callerVars>>

\* Broker::process: the address is added, then echoed.  An exception leaves
\* process() before the reply.
Process(b) ==
    LET c == Head(inbox[b])
    IN  /\ Readable(b)
        /\ inbox' = [inbox EXCEPT ![b] = Tail(@)]
        /\ \/ /\ b \notin Throwing
              /\ AddConnection(b, c)
              /\ call' = [call EXCEPT ![c] = "answered"]
              /\ UNCHANGED owes
           \/ /\ b \in Throwing
              /\ owes' = [owes EXCEPT ![b] = c]
              /\ UNCHANGED <<table, asked, call>>
        /\ UNCHANGED <<port, created, callerVars>>

-----------------------------------------------------------------------------
(* Callers *)

\* Service::subscribe, for a name or for an address, up to the wait for the
\* reply.  zmq_connect succeeds whether or not a broker is there; an address it
\* cannot parse makes the call return false.
Subscribe(c) ==
    /\ call[c] = "idle"
    /\ calls[c] < MaxCalls
    /\ calls' = [calls EXCEPT ![c] = @ + 1]
    /\ \/ UNCHANGED <<call, target>>
       \/ \E p \in Ports :
             /\ target' = [target EXCEPT ![c] = p]
             /\ call' = [call EXCEPT ![c] = "sent"]
    /\ UNCHANGED <<brokerVars, inbox, yes>>

\* ZMQ transmits the request once a broker is bound to the port.
Transmit(c, b) ==
    /\ call[c] = "sent"
    /\ port[b] = target[c]
    /\ inbox' = [inbox EXCEPT ![b] = Append(@, c)]
    /\ call' = [call EXCEPT ![c] = "received"]
    /\ UNCHANGED <<brokerVars, callerVars>>

\* The reply holds the publisher's own address: subscribe() returns true.
Return(c) ==
    /\ call[c] = "answered"
    /\ call' = [call EXCEPT ![c] = "idle"]
    /\ yes' = [yes EXCEPT ![c] = @ + 1]
    /\ UNCHANGED <<brokerVars, inbox, target, calls>>

-----------------------------------------------------------------------------
Next ==
    \/ \E b \in Brokers :
          \/ CreateNamed(b) \/ Destroy(b) \/ Process(b)
          \/ \E p \in Ports : CreateAt(b, p)
    \/ \E c \in Callers :
          \/ Subscribe(c) \/ Return(c)
          \/ \E b \in Brokers : Transmit(c, b)

Spec == Init /\ [][Next]_vars

\* The receiver's application keeps calling receive(), also after an exception,
\* and ZMQ's thread transmits.
Fairness ==
    /\ \A b \in Brokers : WF_vars(Process(b))
    /\ \A c \in Callers :
          /\ WF_vars(Return(c))
          /\ \A b \in Brokers : WF_vars(Transmit(c, b))

FairSpec == Spec /\ Fairness

-----------------------------------------------------------------------------
(* Properties *)

Confirmed(c) == yes[c] + (IF call[c] = "answered" THEN 1 ELSE 0)

\* A call returns true only after a receiver has been asked to add the publisher,
\* with brokers that throw, are destroyed and are replaced by others on the same
\* port.  That the address was added, as connection/service.h 28 has it, does not
\* follow: the broker confirms a connection that failed just as well.
ConfirmedMeansAsked == \A c \in Callers : Confirmed(c) <= asked[c]

\* A call leads to one addConnection at most, whichever brokers its request meets,
\* and no receiver has more connections to the publisher than it was asked for.
AskedOncePerCall ==
    \A c \in Callers :
        asked[c] <= calls[c] /\ \A b \in Brokers : table[b][c] <= asked[c]

\* A call whose port has a broker returns, also when the publisher is known
\* already and whatever other callers wait, unless that broker has thrown in
\* process() or is destroyed first.
CallsReturn ==
    \A c \in Callers, b \in Brokers :
        (call[c] = "sent" /\ port[b] = target[c])
            ~> (call[c] = "idle" \/ owes[b] # None \/ port[b] # target[c])

\* What the two sides of Service::subscribe agree on: the types, and that between
\* the calls made and the calls confirmed lies one addConnection each
\* (broker.cpp 62-74, service.cpp 38-71).
CallInv == TypeOK /\ ConfirmedMeansAsked /\ AskedOncePerCall
=============================================================================
