----------------------------- MODULE Subscriber -----------------------------
(***************************************************************************)
(* A zeroeq::Subscriber: its connection table (detail/receiver.h), its      *)
(* event functions and socket filters (subscriber.cpp) and the pass of      *)
(* zeroeq::Receiver over the signalled sockets (receiver.cpp 85-158).       *)
(*                                                                          *)
(* Everything runs in the thread that calls receive(): update() delivers    *)
(* the zeroconf notifications, one pass polls a copy of _entries and calls  *)
(* process() for each signalled socket, event functions subscribe and       *)
(* unsubscribe, and a connection::Broker in the same receive group may add  *)
(* a connection between two of them.  Publishers and zeroconf are the       *)
(* environment.                                                             *)
(*                                                                          *)
(* A ZMQ_SUB socket drops what does not match its filter when it is read or *)
(* polled; a message found by zmq_poll is kept for the next read, whatever  *)
(* happens to the filter meanwhile.                                         *)
(***************************************************************************)
EXTENDS Integers, Sequences, FiniteSets, SequencesExt

CONSTANTS
    Publishers,   \* publisher addresses, which are also the map keys
    Events,       \* event identifiers that are published
    MEERKAT,      \* the identifier every socket subscribes to for a Monitor
    Wanted,       \* publishers of our session, or announced without one
    Self,         \* publishers announced with the UUID of this process
    Announced,    \* publishers zeroconf announces at the start
    Brokered,     \* addresses a Broker can be asked to connect to
    Withdrawable, \* announced publishers that may be destroyed and recreated
    MaxAdds,      \* bound: how often the Broker is asked for one address
    MaxSockets,   \* bound: sockets created
    MaxEvents,    \* bound: events published per publisher
    MaxTotal      \* bound: events published by all of them

ASSUME SubscriberAssumption ==
    /\ MEERKAT \notin Events
    /\ Wanted \subseteq Publishers /\ Self \subseteq Publishers
    /\ Announced \subseteq Publishers /\ Brokered \subseteq Publishers
    /\ Withdrawable \subseteq Announced
    /\ MaxAdds \in Nat /\ MaxSockets \in Nat /\ MaxEvents \in Nat
    /\ MaxTotal \in Nat

VARIABLES
    visible,    \* publishers zeroconf announces
    sent,       \* events each publisher has published
    created,    \* sockets created so far, numbered 1..created
    sockets,    \* _sockets: address -> socket, 0 if absent
    entries,    \* _entries: the sockets handed to zmq_poll
    filter,     \* subscriptions of each socket
    inbox,      \* messages received by each socket
    fetched,    \* sockets holding a message found by zmq_poll
    funcs,      \* events in _eventFuncs
    pc,         \* where the receiving thread is
    items,      \* the copy of entries this pass has polled
    todo,       \* positions of signalled sockets in it, not yet processed
    adds,       \* how often the Broker was asked for each address
    executed    \* history: numbers of the events executed, per publisher

tableVars == <<created, sockets, entries, filter>>
passVars == <<pc, items, todo>>
vars == <<visible, sent, tableVars, inbox, fetched, funcs, passVars, adds,
          executed>>

Socket == 1..MaxSockets
Message == [from : Publishers, event : Events, n : 1..MaxEvents]
PC == {"idle",      \* in the application, or in update()
       "polled",    \* zmq_poll has returned, nothing processed yet
       "function",  \* an event function is running
       "blocked"}   \* zmq_msg_recv waits for a message

\* The sockets the connection table keeps alive; all others are closed.
Open == {sockets[p] : p \in Publishers} \ {0}

TypeOK ==
    /\ visible \in SUBSET Publishers
    /\ sent \in [Publishers -> 0..MaxEvents]
    /\ created \in 0..MaxSockets
    /\ sockets \in [Publishers -> 0..MaxSockets]
    /\ entries \in Seq(Socket)
    /\ filter \in [Socket -> SUBSET (Events \cup {MEERKAT})]
    /\ inbox \in [Socket -> Seq(Message)]
    /\ fetched \in SUBSET Socket
    /\ funcs \in SUBSET Events
    /\ pc \in PC
    /\ items \in Seq(Socket) /\ todo \in SUBSET DOMAIN items
    /\ adds \in [Publishers -> 0..MaxAdds]
    /\ executed \in [Publishers -> Seq(1..MaxEvents)]

\* A subscriber of a session, before its first update().
Init ==
    /\ visible = Announced
    /\ sent = [p \in Publishers |-> 0]
    /\ created = 0
    /\ sockets = [p \in Publishers |-> 0]
    /\ entries = <<>>
    /\ filter = [s \in Socket |-> {}]
    /\ inbox = [s \in Socket |-> <<>>]
    /\ fetched = {}
    /\ funcs = {}
    /\ pc = "idle"
    /\ items = <<>> /\ todo = {}
    /\ adds = [p \in Publishers |-> 0]
    /\ executed = [p \in Publishers |-> <<>>]

-----------------------------------------------------------------------------
(* The connection table *)

\* Mutant: no filters for the existing subscriptions.
CreateSocketUnfiltered == {MEERKAT}

\* createSocket: the filters of a new socket.
CreateSocket == {MEERKAT} \cup funcs

\* _connect: a new socket is stored under the address.  Storing it releases, and
\* so closes, a socket that was there before; the entry of that socket stays.
Connect(p) ==
    LET s == created + 1
    IN  /\ created < MaxSockets
        /\ created' = s
        /\ sockets' = [sockets EXCEPT ![p] = s]
        /\ entries' = Append(entries, s)
        /\ filter' = [filter EXCEPT ![s] = CreateSocket]
        /\ inbox' = [s2 \in Socket |-> IF s2 = sockets[p] THEN <<>> ELSE inbox[s2]]
        /\ fetched' = fetched \ {sockets[p]}

\* Mutant: a known address is connected again.
InstanceAddedAgain(p) ==
    /\ pc = "idle"
    /\ p \in visible
    /\ p \in Wanted \ Self
    /\ Connect(p)
    /\ UNCHANGED <<visible, sent, funcs, passVars, adds, executed>>

\* Receiver::instanceAdded: a known address, a publisher of another session and
\* one of this process are ignored.
InstanceAdded(p) ==
    /\ pc = "idle"
    /\ p \in visible
    /\ sockets[p] = 0
    /\ p \in Wanted \ Self
    /\ Connect(p)
    /\ UNCHANGED <<visible, sent, funcs, passVars, adds, executed>>

\* std::remove_if without erase: what is kept moves to the front in its order, the
\* length stays and the tail keeps its old elements.
RemoveIf(seq, s) ==
    LET kept == {j \in DOMAIN seq : seq[j] # s}
        Place(j) == Cardinality({k \in kept : k <= j})
    IN  [i \in DOMAIN seq |->
           IF i <= Cardinality(kept) THEN seq[CHOOSE j \in kept : Place(j) = i] ELSE seq[i]]

\* Receiver::instanceRemoved and _disconnect: the last reference goes, the
\* socket is closed with all it had received.
InstanceRemoved(p) ==
    LET s == sockets[p]
    IN  /\ pc = "idle"
        /\ p \in Withdrawable \ visible
        /\ s # 0
        /\ sockets' = [sockets EXCEPT ![p] = 0]
        /\ entries' = RemoveIf(entries, s)
        /\ inbox' = [inbox EXCEPT ![s] = <<>>]
        /\ fetched' = fetched \ {s}
        /\ UNCHANGED <<visible, sent, created, filter, funcs, passVars, adds,
                       executed>>

\* Broker::process, in the same receive group, calls Subscriber::addConnection:
\* no check for a known address.
AddConnection(p) ==
    /\ pc \in {"idle", "function"}
    /\ p \in Brokered
    /\ adds[p] < MaxAdds
    /\ adds' = [adds EXCEPT ![p] = @ + 1]
    /\ Connect(p)
    /\ UNCHANGED <<visible, sent, funcs, passVars, executed>>

-----------------------------------------------------------------------------
(* Subscriptions *)

\* _subscribe and _unsubscribe: the filters of all connected sockets with e added
\* or removed.
AddFilter(e) ==
    [s \in Socket |-> IF s \in Open THEN filter[s] \cup {e} ELSE filter[s]]

DropFilter(e) ==
    [s \in Socket |-> IF s \in Open THEN filter[s] \ {e} ELSE filter[s]]

\* Subscriber::subscribe, by the application or by an event function: the event
\* is added to the filter of every socket.
Subscribe(e) ==
    /\ pc \in {"idle", "function"}
    /\ e \notin funcs
    /\ funcs' = funcs \cup {e}
    /\ filter' = AddFilter(e)
    /\ UNCHANGED <<visible, sent, created, sockets, entries, inbox, fetched,
                   passVars, adds, executed>>

\* Subscriber::unsubscribe.
Unsubscribe(e) ==
    /\ pc \in {"idle", "function"}
    /\ e \in funcs
    /\ funcs' = funcs \ {e}
    /\ filter' = DropFilter(e)
    /\ UNCHANGED <<visible, sent, created, sockets, entries, inbox, fetched,
                   passVars, adds, executed>>

-----------------------------------------------------------------------------
(* The receive pass *)

\* The queue of a socket once reading has skipped what its filter rejects.
Matching(s) ==
    IF s \in fetched THEN inbox[s]
    ELSE LET hits == {i \in DOMAIN inbox[s] : inbox[s][i].event \in filter[s]}
         IN  IF hits = {} THEN <<>>
             ELSE SubSeq(inbox[s], Min(hits), Len(inbox[s]))

\* A poll that finds the given sockets ready, and the start of a pass over those
\* that are looked at.  With a closed socket among them zmq_poll fails, receive()
\* throws, and nothing has changed.
Pass(ready, seen) ==
    /\ pc = "idle"
    /\ Range(entries) \subseteq Open
    /\ ready # {}
    /\ pc' = "polled"
    /\ items' = entries
    /\ todo' = {i \in DOMAIN entries : entries[i] \in seen}
    /\ fetched' = fetched \cup ready
    /\ inbox' = [s \in Socket |->
          IF s \in Range(entries) THEN Matching(s) ELSE inbox[s]]
    /\ UNCHANGED <<visible, sent, tableVars, funcs, adds, executed>>

\* The polled sockets with a message.
Ready == {s \in Range(entries) : Matching(s) # <<>>}

\* Mutant: every socket is processed, signalled or not.
PollAll == Pass(Ready, Range(entries))

\* Mutant: a message already notified once is not notified again.
PollEdge == Pass(Ready \ fetched, Ready \ fetched)

\* zmq_poll on the copy of _entries: fails if one of them is closed, otherwise
\* signals those with a matching message.
Poll == Pass(Ready, Ready)

\* The signalled socket whose turn it is has been processed.
Done == todo' = todo \ {Min(todo)} /\ UNCHANGED items

\* The exception "Got unsubscribed event" leaves process() and receive().
Throw ==
    /\ pc' = "idle"
    /\ items' = <<>> /\ todo' = {}
    /\ UNCHANGED executed

\* Mutant: the message is not consumed.
DeliverAgain(s) ==
    LET m == Head(Matching(s))
    IN  /\ UNCHANGED <<inbox, fetched>>
        /\ IF m.event \in funcs
           THEN /\ pc' = "function"
                /\ Done
                /\ executed' = [executed EXCEPT ![m.from] = Append(@, m.n)]
           ELSE Throw

\* process() reads the first matching message of socket s and runs its event
\* function; there may be none by now for an event found by zmq_poll.
Deliver(s) ==
    LET m == Head(Matching(s))
    IN  /\ inbox' = [inbox EXCEPT ![s] = Tail(Matching(s))]
        /\ fetched' = fetched \ {s}
        /\ IF m.event \in funcs
           THEN /\ pc' = "function"
                /\ Done
                /\ executed' = [executed EXCEPT ![m.from] = Append(@, m.n)]
           ELSE Throw

\* process() on a socket that was closed during the pass: zmq_msg_recv fails
\* unnoticed and the event is read from an empty message.  It has a function,
\* or more likely none.
ReadClosed ==
    /\ \/ /\ funcs # {}
          /\ pc' = "function"
          /\ Done
          /\ UNCHANGED executed
       \/ Throw
    /\ UNCHANGED <<inbox, fetched>>

\* zmq_msg_recv waits: there is nothing to read.
Block ==
    /\ pc # "blocked"
    /\ pc' = "blocked"
    /\ UNCHANGED <<inbox, fetched, items, todo, executed>>

\* Subscriber::process for the next signalled socket of the pass.
Process ==
    /\ pc \in {"polled", "function", "blocked"}
    /\ todo # {}
    /\ LET s == items[Min(todo)]
       IN  \/ s \notin Open /\ ReadClosed
           \/ s \in Open /\ Matching(s) # <<>> /\ Deliver(s)
           \/ s \in Open /\ Matching(s) = <<>> /\ Block
    /\ UNCHANGED <<visible, sent, tableVars, funcs, adds>>

\* All sockets of the pass are done: _receive returns after one pass, since its
\* loop condition compares the elapsed time with a timeout set to 0.
PassEnd ==
    /\ pc = "function"
    /\ todo = {}
    /\ pc' = "idle"
    /\ items' = <<>>
    /\ UNCHANGED <<visible, sent, tableVars, inbox, fetched, funcs, todo, adds,
                   executed>>

-----------------------------------------------------------------------------
(* Publishers and zeroconf *)

\* Publisher::publish: the event reaches the socket connected to the publisher
\* if it has a matching subscription (no high water mark on either side), unless
\* that subscription is still on its way.
Publish(p, e) ==
    LET s == sockets[p]
        m == [from |-> p, event |-> e, n |-> sent[p] + 1]
    IN  /\ p \notin Withdrawable \ visible
        /\ sent[p] < MaxEvents
        /\ MapThenSumSet(LAMBDA q : sent[q], Publishers) < MaxTotal
        /\ sent' = [sent EXCEPT ![p] = @ + 1]
        /\ \/ UNCHANGED inbox
           \/ /\ s # 0 /\ e \in filter[s]
              /\ inbox' = [inbox EXCEPT ![s] = Append(@, m)]
        /\ UNCHANGED <<visible, tableVars, fetched, funcs, passVars, adds, executed>>

\* A publisher is destroyed, or a new one is created on the address.
Withdraw(p) ==
    /\ p \in Withdrawable \cap visible
    /\ visible' = visible \ {p}
    /\ UNCHANGED <<sent, tableVars, inbox, fetched, funcs, passVars, adds, executed>>

Announce(p) ==
    /\ p \in Withdrawable \ visible
    /\ visible' = visible \cup {p}
    /\ UNCHANGED <<sent, tableVars, inbox, fetched, funcs, passVars, adds, executed>>

-----------------------------------------------------------------------------
Next ==
    \/ \E p \in Publishers :
          \/ InstanceAdded(p) \/ InstanceRemoved(p) \/ AddConnection(p)
          \/ Withdraw(p) \/ Announce(p)
          \/ \E e \in Events : Publish(p, e)
    \/ \E e \in Events : Subscribe(e) \/ Unsubscribe(e)
    \/ Poll
    \/ Process
    \/ PassEnd

Spec == Init /\ [][Next]_vars

\* The application keeps calling receive(), and event functions return.
Fairness == WF_vars(Poll) /\ WF_vars(Process) /\ WF_vars(PassEnd)

FairSpec == Spec /\ Fairness

-----------------------------------------------------------------------------
(* Properties *)

\* Every connected socket filters exactly the subscribed events and the one
\* for monitors, in whatever order subscriptions, connections, reconnections
\* and event functions come (subscriber.cpp 67-89, 131-196).
FiltersMatch ==
    \A s \in Open : filter[s] = {MEERKAT} \cup funcs

\* addSockets hands out this receiver's sockets (receiver.h 71): each connected
\* socket once and no closed one.
EntriesAreSockets ==
    /\ Range(entries) = Open
    /\ \A i, j \in DOMAIN entries : entries[i] = entries[j] => i = j

\* receive(timeout) never hangs in zmq_msg_recv on a socket whose message is
\* gone (receiver.h 63: the timeout is the one for poll).
NeverBlocked == pc # "blocked"

\* The events of one publisher are executed in the order of publication and
\* none is executed twice, across passes, exceptions and reconnections.
InOrder ==
    \A p \in Publishers : \A i, j \in DOMAIN executed[p] :
        i < j => executed[p][i] < executed[p][j]

\* A message of a subscribed event has reached the socket of its publisher.
Pending(p, n) ==
    /\ sockets[p] # 0
    /\ \E i \in DOMAIN inbox[sockets[p]] :
          inbox[sockets[p]][i].n = n /\ inbox[sockets[p]][i].event \in funcs

\* A message that reached a socket is executed as long as its event stays
\* subscribed, although a pass reads one message per socket only, and an
\* exception may end it before its turn.
NothingStuck ==
    \A p \in Publishers, n \in 1..MaxEvents : Pending(p, n) ~> ~Pending(p, n)

\* The types, and the order of execution: what each publisher's events go through,
\* from its socket to the event functions (subscriber.cpp 91-129).
OrderInv == TypeOK /\ InOrder
=============================================================================
