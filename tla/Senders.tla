------------------------------- MODULE Senders -------------------------------
(***************************************************************************)
(* The life of Publishers and Servers (detail/sender.cpp, publisher.cpp,    *)
(* server.cpp): the shared ZMQ context (detail/context.cpp), binding and    *)
(* announcing, and the Monitors (monitor.cpp) that report who connects.     *)
(*                                                                          *)
(* Objects are used by one thread each, but not all by the same: a          *)
(* destructor that waits does not stop the others.                          *)
(***************************************************************************)
EXTENDS Endpoints, Sequences, FiniteSets

CONSTANTS
    Publishers, Servers,   \* the senders
    Monitors,
    Peers,          \* subscribers and clients that connect
    Arguments,      \* constructor arguments: [via, text, session]
    Ports,          \* ports zmq_bind can choose from
    None,
    MaxCreated,     \* bound: constructor calls
    MaxConnects     \* bound: connections made

\* What a socket is bound to, and what zeroconf publishes.
SocketAddresses == [host : STRING, port : Nat]
Records == [service : STRING, host : STRING, port : Nat, session : STRING]

ASSUME SendersAssumption ==
    /\ Publishers \cap Servers = {}
    /\ Monitors \cap (Publishers \cup Servers) = {}
    /\ None \notin Publishers \cup Servers \cup SocketAddresses \cup Records
    /\ Arguments \subseteq [via : {"nothing", "string", "servus"}, text : Addresses,
                            session : STRING]
    /\ Ports \subseteq Nat \ {0}
    /\ MaxCreated \in Nat /\ MaxConnects \in Nat

AllSenders == Publishers \cup Servers
Objects == AllSenders \cup Monitors

VARIABLES
    life,       \* of each object: "none", "live" or "waiting" in zmq_ctx_destroy
    weak,       \* the context the static weak pointer refers to, by number
    context,    \* _context of each object, 0 if it holds none
    made,       \* the context its socket was made from
    uri,        \* uri of each sender
    endpoint,   \* what its socket is bound to, None if it has none
    announced,  \* its zeroconf record, or None
    target,     \* the sender of each monitor
    verbose,    \* ZMQ_XPUB_VERBOSE of each publisher's socket
    inbox,      \* events in the socket each monitor reads: a publisher's own
                \* XPUB socket, or the PAIR of the monitor of a server
    connected,  \* peers connected to each sender
    notified,   \* calls of notifyNewConnection per monitor
    due,        \* history: those a monitor's user can expect
    created, connects   \* counters for the bounds

contextVars == <<life, weak, context, made>>
addressVars == <<uri, endpoint, announced>>
monitorVars == <<target, verbose, notified, due>>
vars == <<contextVars, addressVars, monitorVars, inbox, connected, created,
          connects>>

Event == {"sub", "unsub", "accepted", "disconnected"}

TypeOK ==
    /\ life \in [Objects -> {"none", "live", "waiting"}]
    /\ weak \in Nat
    /\ context \in [Objects -> 0..weak] /\ made \in [Objects -> 0..weak]
    /\ target \in [Monitors -> AllSenders \cup {None}]
    /\ verbose \in [Publishers -> BOOLEAN]
    /\ inbox \in [Publishers \cup Monitors -> Seq(Event)]
    /\ connected \in [AllSenders -> SUBSET Peers]
    /\ notified \in [Monitors -> Nat] /\ due \in [Monitors -> Nat]
    /\ created \in 0..MaxCreated /\ connects \in 0..MaxConnects
    /\ uri \in [AllSenders -> URIs]
    /\ endpoint \in [AllSenders -> SocketAddresses \cup {None}]
    /\ announced \in [AllSenders -> Records \cup {None}]

Init ==
    /\ life = [o \in Objects |-> "none"]
    /\ weak = 0
    /\ context = [o \in Objects |-> 0] /\ made = [o \in Objects |-> 0]
    /\ uri = [s \in AllSenders |-> DefaultURI]
    /\ endpoint = [s \in AllSenders |-> None]
    /\ announced = [s \in AllSenders |-> None]
    /\ target = [m \in Monitors |-> None]
    /\ verbose = [p \in Publishers |-> FALSE]
    /\ inbox = [o \in Publishers \cup Monitors |-> <<>>]
    /\ connected = [s \in AllSenders |-> {}]
    /\ notified = [m \in Monitors |-> 0]
    /\ due = [m \in Monitors |-> 0]
    /\ created = 0 /\ connects = 0

-----------------------------------------------------------------------------
(* The context *)

\* Mutant: the new context is not stored in the weak pointer.
GetContextUnshared == weak + 1

\* getContext: the context somebody holds, or a new one.
GetContext == IF \E o \in Objects : context[o] = weak /\ weak > 0 THEN weak ELSE weak + 1

\* The objects that keep the socket of a sender open: itself and, as _socket is
\* a copy of the pointer, the monitor of a publisher.
SocketHolders(s) ==
    {o \in Objects : o = s /\ life[s] = "live"}
        \cup {m \in Monitors : target[m] = s /\ s \in Publishers /\ life[m] = "live"}

\* The objects with a socket in context c, apart from those in closed.
OpenIn(c, closed) == {o \in Objects \ closed : made[o] = c /\ life[o] = "live"}

\* Object o drops its reference to the context.  With the last one goes the
\* context, and zmq_ctx_destroy waits for the sockets that are open in it.
Release(o, closed) ==
    LET last == \A q \in Objects \ {o} : context[q] # context[o]
        waits == last /\ OpenIn(context[o], closed) # {}
    IN  /\ life' = [life EXCEPT ![o] = IF waits THEN "waiting" ELSE "none"]
        /\ context' = [context EXCEPT ![o] = 0]
        /\ made' = [made EXCEPT ![o] = IF waits THEN @ ELSE 0]
        /\ UNCHANGED weak

-----------------------------------------------------------------------------
(* Senders *)

\* Another socket is bound to the port, at the same interface or at all of them.
InUse(host, p) ==
    \E s \in AllSenders :
        /\ endpoint[s] # None /\ endpoint[s].port = p
        /\ endpoint[s].host = host \/ "0.0.0.0" \in {endpoint[s].host, host}

\* The endpoints zmq_bind can give for an address: "*" is any interface, any
\* free port for AnyPort; nothing if the port, or the name of another scheme, is
\* in use.
Bindable(z) ==
    LET host == IF z.host = "*" THEN "0.0.0.0" ELSE z.host
        ports == IF z.scheme # DEFAULT_SCHEMA THEN {0}
                 ELSE IF z.port = AnyPort THEN Ports ELSE {z.port}
    IN  {[host |-> host, port |-> p] : p \in {q \in ports : ~InUse(host, q)}}

Session(s, arg) == IF s \in Publishers THEN PubSession(arg) ELSE RepSession(arg)

\* The record announce() publishes once initURI has completed the address.
AnnounceRecord(s, u, e, arg) ==
    IF arg = NULL_SESSION THEN None
    ELSE [service |-> Service(IF s \in Publishers THEN PUBLISHER_SERVICE
                              ELSE SERVER_SERVICE, Session(s, arg)),
          host |-> InitURI(u, e).host, port |-> InitURI(u, e).port,
          session |-> Session(s, arg)]

\* Publisher::Impl and Server::Impl: an empty session and an address that cannot
\* be bound throw, and the socket and the context go again.
Construct(s, a) ==
    LET u == UriOf(a)
        choices == IF a.session = "" THEN {} ELSE Bindable(BuildZmqURI(u))
    IN  /\ life[s] = "none"
        /\ created < MaxCreated
        /\ created' = created + 1
        /\ \A m \in Monitors : target[m] # s
        /\ IF choices = {}
           THEN UNCHANGED <<contextVars, addressVars>>
           ELSE \E e \in choices :
                  /\ life' = [life EXCEPT ![s] = "live"]
                  /\ context' = [context EXCEPT ![s] = GetContext]
                  /\ made' = [made EXCEPT ![s] = GetContext]
                  /\ weak' = GetContext
                  /\ uri' = [uri EXCEPT ![s] = InitURI(u, e)]
                  /\ endpoint' = [endpoint EXCEPT ![s] = e]
                  /\ announced' = [announced EXCEPT ![s] = AnnounceRecord(s, u, e, a.session)]
        /\ UNCHANGED <<monitorVars, inbox, connected, connects>>

\* The socket of a sender is closed unless somebody else in rest holds it.
CloseSocket(s, rest) ==
    /\ endpoint' = [endpoint EXCEPT ![s] = IF rest = {} THEN None ELSE @]
    /\ connected' = [connected EXCEPT ![s] = IF rest = {} THEN {} ELSE @]

\* Mutant: the context goes before the socket.
DestroySenderContextFirst(s) ==
    /\ life[s] = "live"
    /\ announced' = [announced EXCEPT ![s] = None]
    /\ CloseSocket(s, SocketHolders(s) \ {s})
    /\ inbox' = [o \in DOMAIN inbox |-> IF o = s THEN <<>> ELSE inbox[o]]
    /\ Release(s, {})
    /\ uri' = [uri EXCEPT ![s] = DefaultURI]
    /\ UNCHANGED <<monitorVars, created, connects>>

\* ~Sender: the socket goes, then the announcement, and last the context.
DestroySender(s) ==
    /\ life[s] = "live"
    /\ announced' = [announced EXCEPT ![s] = None]
    /\ CloseSocket(s, SocketHolders(s) \ {s})
    /\ inbox' = [o \in DOMAIN inbox |->
                    IF o = s /\ SocketHolders(s) = {s} THEN <<>> ELSE inbox[o]]
    /\ Release(s, {s})
    /\ uri' = [uri EXCEPT ![s] = DefaultURI]
    /\ UNCHANGED <<monitorVars, created, connects>>

-----------------------------------------------------------------------------
(* Monitors *)

\* How many of the events make a monitor notify.
Notifying(q) == Cardinality({i \in DOMAIN q : q[i] \in {"sub", "accepted"}})

\* Mutant: XPUB_VERBOSE is not set.
MonitorPublisherQuiet(m, p) ==
    /\ due' = [due EXCEPT ![m] = Notifying(inbox[p])]
    /\ made' = [made EXCEPT ![m] = made[p]]
    /\ UNCHANGED <<verbose, context, weak, inbox>>

\* XPubImpl: shares the publisher's socket and asks for all subscriptions.  What
\* had come before is still there.
MonitorPublisher(m, p) ==
    /\ verbose' = [verbose EXCEPT ![p] = TRUE]
    /\ due' = [due EXCEPT ![m] = Notifying(inbox[p])]
    /\ made' = [made EXCEPT ![m] = made[p]]
    /\ UNCHANGED <<context, weak, inbox>>

\* SocketImpl: a PAIR socket of its own, in the context it holds.
MonitorServer(m) ==
    /\ context' = [context EXCEPT ![m] = GetContext]
    /\ made' = [made EXCEPT ![m] = GetContext]
    /\ weak' = GetContext
    /\ inbox' = [inbox EXCEPT ![m] = <<>>]
    /\ due' = [due EXCEPT ![m] = 0]
    /\ UNCHANGED verbose

\* Monitor::Monitor, for a sender without one: several have undefined behaviour
\* (monitor.h 15).
CreateMonitor(m, s) ==
    /\ life[m] = "none" /\ life[s] = "live"
    /\ \A n \in Monitors : target[n] # s
    /\ created < MaxCreated
    /\ created' = created + 1
    /\ life' = [life EXCEPT ![m] = "live"]
    /\ target' = [target EXCEPT ![m] = s]
    /\ notified' = [notified EXCEPT ![m] = 0]
    /\ IF s \in Publishers THEN MonitorPublisher(m, s) ELSE MonitorServer(m)
    /\ UNCHANGED <<addressVars, connected, connects>>

\* ~XPubImpl: XPUB_VERBOSE is switched off, then the socket is released.  The
\* destructors that waited for this socket, and no other, can go on.
DestroyPublisherMonitor(m) ==
    LET p == target[m]
        resumed == {o \in Objects : /\ life[o] = "waiting" /\ made[o] = made[m]
                                    /\ OpenIn(made[m], {m}) = {} /\ o \notin Monitors}
    IN  /\ life[m] = "live" /\ p \in Publishers
        /\ life' = [o \in Objects |-> IF o \in resumed \cup {m} THEN "none" ELSE life[o]]
        /\ made' = [o \in Objects |-> IF o \in resumed \cup {m} THEN 0 ELSE made[o]]
        /\ target' = [target EXCEPT ![m] = None]
        /\ verbose' = [verbose EXCEPT ![p] = FALSE]
        /\ CloseSocket(p, SocketHolders(p) \ {m})
        /\ inbox' = IF SocketHolders(p) = {m} THEN [inbox EXCEPT ![p] = <<>>] ELSE inbox
        /\ UNCHANGED <<weak, context, uri, announced, notified, due, created, connects>>

\* ~SocketImpl: its member _context is released before _socket of its base is
\* closed.
DestroyServerMonitor(m) ==
    /\ life[m] = "live" /\ target[m] \in Servers
    /\ Release(m, {})
    /\ target' = [target EXCEPT ![m] = None]
    /\ inbox' = [inbox EXCEPT ![m] = <<>>]
    /\ UNCHANGED <<addressVars, verbose, notified, due, connected, created, connects>>

\* The events a monitor reads.
InboxOf(m) == IF target[m] \in Publishers THEN target[m] ELSE m

\* Mutant: only what is notified is read.
ProcessWanted(m) ==
    /\ life[m] = "live"
    /\ inbox[InboxOf(m)] # <<>>
    /\ Head(inbox[InboxOf(m)]) \in {"sub", "accepted"}
    /\ notified' = [notified EXCEPT ![m] = @ + 1]
    /\ inbox' = [inbox EXCEPT ![InboxOf(m)] = Tail(@)]
    /\ UNCHANGED <<contextVars, addressVars, target, verbose, due, connected,
                   created, connects>>

\* process() of either kind reads one event: a subscription to MEERKAT and an
\* accepted connection are notified, the others are not.
Process(m) ==
    /\ life[m] = "live"
    /\ inbox[InboxOf(m)] # <<>>
    /\ LET e == Head(inbox[InboxOf(m)])
       IN  notified' = [notified EXCEPT ![m] = IF e \in {"sub", "accepted"} THEN @ + 1 ELSE @]
    /\ inbox' = [inbox EXCEPT ![InboxOf(m)] = Tail(@)]
    /\ UNCHANGED <<contextVars, addressVars, target, verbose, due, connected,
                   created, connects>>

-----------------------------------------------------------------------------
(* Peers *)

\* What the monitor of sender s, or the XPUB socket for a later one, is told.
Told(s, e) ==
    inbox' = IF s \in Publishers THEN [inbox EXCEPT ![s] = Append(@, e)]
             ELSE [o \in DOMAIN inbox |-> IF o \in Monitors /\ target[o] = s
                                          THEN Append(inbox[o], e) ELSE inbox[o]]

\* A subscriber connects and subscribes to MEERKAT, which XPUB passes on if it
\* is verbose or it is the first; or a client is accepted.
Connect(p, s) ==
    /\ life[s] = "live"
    /\ p \notin connected[s]
    /\ connects < MaxConnects
    /\ connects' = connects + 1
    /\ connected' = [connected EXCEPT ![s] = @ \cup {p}]
    /\ due' = [m \in Monitors |-> IF target[m] = s THEN due[m] + 1 ELSE due[m]]
    /\ IF s \in Servers THEN Told(s, "accepted")
       ELSE IF verbose[s] \/ connected[s] = {} THEN Told(s, "sub")
       ELSE UNCHANGED inbox
    /\ UNCHANGED <<contextVars, addressVars, target, verbose, notified, created>>

\* A peer goes away; XPUB reports the end of the last subscription.
Disconnect(p, s) ==
    /\ p \in connected[s]
    /\ connected' = [connected EXCEPT ![s] = @ \ {p}]
    /\ IF s \in Servers THEN Told(s, "disconnected")
       ELSE IF connected[s] = {p} THEN Told(s, "unsub")
       ELSE UNCHANGED inbox
    /\ UNCHANGED <<contextVars, addressVars, monitorVars, created, connects>>

-----------------------------------------------------------------------------
Next ==
    \/ \E s \in AllSenders :
          \/ \E a \in Arguments : Construct(s, a)
          \/ DestroySender(s)
          \/ \E m \in Monitors : CreateMonitor(m, s)
          \/ \E p \in Peers : Connect(p, s) \/ Disconnect(p, s)
    \/ \E m \in Monitors :
          DestroyPublisherMonitor(m) \/ DestroyServerMonitor(m) \/ Process(m)

Spec == Init /\ [][Next]_vars

\* The application calls receive() of its monitors.
FairSpec == Spec /\ \A m \in Monitors : WF_vars(Process(m))

-----------------------------------------------------------------------------
(* Properties *)

\* All sockets of the process share one context, whatever is destroyed while
\* others are created: inproc addresses, which monitors use, only work inside
\* one (context.cpp 16-30, monitor.cpp 114-121).
OneContext ==
    \A o, q \in Objects :
        life[o] = "live" /\ life[q] = "live" /\ context[o] # 0 /\ context[q] # 0
            => context[o] = context[q]

\* A destructor comes to wait in zmq_ctx_destroy only if some monitor outlives
\* the sender it was made for: in whatever order the rest is destroyed, a context
\* outlives its sockets (detail/sender.h 20: "must be private before socket").
WaitsOnlyForMonitors ==
    [][\A o \in Objects : life[o] = "live" /\ life'[o] = "waiting" =>
          \E m \in Monitors : life[m] = "live" /\ life'[target[m]] # "live"]_vars

\* A monitor has notified, or still has to read, every connection made since it
\* exists, and those its publisher had already been told of, and no other: also
\* with several peers that come and go and monitors that follow one another
\* (monitor.cpp 42-89, 130-173).
EveryConnectionNotified ==
    \A m \in Monitors : life[m] = "live" /\ life[target[m]] = "live" =>
        notified[m] + Notifying(inbox[InboxOf(m)]) = due[m]

\* What an announced sender can be reached at is what its socket is bound to, a
\* socket on all interfaces under the name of the host (publisher.h 75, server.h 32:
\* "announces itself ... as host:port"), and no two announce the same.  An address
\* 0.0.0.0 that the application has given is announced as it is.
AnnouncedReachable ==
    \A s \in AllSenders : announced[s] # None /\ uri[s].scheme = DEFAULT_SCHEMA =>
        /\ endpoint[s] # None
        /\ announced[s].port = endpoint[s].port
        /\ \/ announced[s].host = endpoint[s].host
           \/ endpoint[s].host = "0.0.0.0" /\ announced[s].host = Hostname
        /\ announced[s].host # "*" /\ IsFullyQualified(uri[s])
        /\ \A q \in AllSenders \ {s} :
              announced[q] # None /\ uri[q].scheme = DEFAULT_SCHEMA =>
                 \/ announced[q].port # announced[s].port
                 \/ announced[q].host # announced[s].host

\* A connection is notified in the end, as long as the monitor exists.
EventuallyNotified ==
    \A m \in Monitors, n \in 1..MaxConnects :
        life[m] = "live" /\ due[m] = n
            ~> (life[m] # "live" \/ life[target[m]] # "live" \/ notified[m] >= n)

\* The types, among them that every URI is one the constructors can make, and the
\* one context of the process (context.cpp 16-30).
ContextInv == TypeOK /\ OneContext
=============================================================================
