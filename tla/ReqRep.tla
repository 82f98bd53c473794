------------------------------- MODULE ReqRep -------------------------------
(***************************************************************************)
(* Request-reply between zeroeq::Client and zeroeq::Server                  *)
(* (zeroeq/client.cpp, zeroeq/server.cpp).                                  *)
(*                                                                          *)
(* A client owns one ZMQ_DEALER socket connected to any number of servers;  *)
(* a server owns one ZMQ_REP socket.  A multipart message travels as a      *)
(* whole, the REP socket gives the reply the envelope of the request, so a  *)
(* message is one record.  Both kinds of message keep their per-connection  *)
(* order: a client numbers its requests upwards, so "oldest first" is       *)
(* "lowest id first" and the queues are sets.                               *)
(*                                                                          *)
(* The reply function of a request runs inside Client::process, which       *)
(* erases it only afterwards; it may itself call request() or receive().    *)
(***************************************************************************)
EXTENDS Integers, Sequences, FiniteSets

CONSTANTS
    Clients,      \* Client objects, each used by one thread
    Servers,      \* server addresses (host:port)
    Types,        \* request identifiers (uint128_t)
    Stoppable,    \* the servers that may stop and start again
    MaxRequests,  \* bound: request() calls per client
    MaxDepth,     \* bound: nesting of receive() inside reply functions
    HWM           \* requests one connection holds before the send is EAGAIN

ASSUME ReqRepAssumption ==
    /\ Stoppable \subseteq Servers
    /\ MaxRequests \in Nat /\ MaxDepth \in Nat
    /\ HWM \in Nat

VARIABLES
    id,         \* Client::Impl::_id
    handlers,   \* Client::Impl::_handlers, as the set of its entries
    sending,    \* the request a client is sending, 0 or its number
    kind,       \* the type of the request being sent
    stack,      \* the ids whose reply functions are running, innermost last
    sockets,    \* servers a client is connected to (detail::Receiver::_sockets)
    announced,  \* servers zeroconf currently shows to the clients
    up,         \* servers that are running
    table,      \* Server::Impl::_handlers: the request types a server handles
    requests,   \* request messages in flight
    replies,    \* reply messages in flight
    issued,     \* history: how many times a client called request()
    called,     \* history: how often the reply function of each call has run
    got         \* history: the calls whose replies that function was given

clientVars == <<id, handlers, sending, kind, stack, sockets>>
serverVars == <<announced, up, table>>
history    == <<issued, called, got>>
vars == <<clientVars, serverVars, requests, replies, history>>

\* The calls of request(), numbered per client: the reply function of the
\* n-th call is known by n, and so is the data a reply was computed from.
Number == 1..MaxRequests

\* An entry of the handler map: wire id and reply function.
Handler == [id : Nat, fn : Number]

\* back: whether the envelope still leads to a connection of the client.
Request == [client : Clients, server : Servers, id : Nat, type : Types,
            of : Number, back : BOOLEAN]

\* code is "zero" for the (0, nullptr, 0) reply.
Reply == [client : Clients, server : Servers, id : Nat, of : Number,
          code : {"ok", "zero"}]

TypeOK ==
    /\ id \in [Clients -> Nat]
    /\ handlers \in [Clients -> SUBSET Handler]
    /\ sending \in [Clients -> {0} \cup Number]
    /\ kind \in [Clients -> Types]
    /\ stack \in [Clients -> Seq(Nat)]
    /\ sockets \in [Clients -> SUBSET Servers]
    /\ announced \in SUBSET Servers
    /\ up \in SUBSET Servers
    /\ table \in [Servers -> SUBSET Types]
    /\ requests \in SUBSET Request
    /\ replies \in SUBSET Reply
    /\ issued \in [Clients -> 0..MaxRequests]
    /\ called \in [Clients -> [Number -> Nat]]
    /\ got \in [Clients -> [Number -> SUBSET Number]]

\* Clients have just been constructed with a session, all servers run and are
\* announced, none has a handler yet.
Init ==
    /\ id = [c \in Clients |-> 0]
    /\ handlers = [c \in Clients |-> {}]
    /\ sending = [c \in Clients |-> 0]
    /\ \E t \in Types : kind = [c \in Clients |-> t]
    /\ stack = [c \in Clients |-> <<>>]
    /\ sockets = [c \in Clients |-> {}]
    /\ announced = Servers
    /\ up = Servers
    /\ table = [s \in Servers |-> {}]
    /\ requests = {}
    /\ replies = {}
    /\ issued = [c \in Clients |-> 0]
    /\ called = [c \in Clients |-> [n \in Number |-> 0]]
    /\ got = [c \in Clients |-> [n \in Number |-> {}]]

-----------------------------------------------------------------------------
(* Client *)

\* Connections that can take one more message: the DEALER socket answers
\* EAGAIN when there is none.
Room(c) ==
    {s \in sockets[c] :
        Cardinality({m \in requests : m.client = c /\ m.server = s}) < HWM}

\* Mutant: the id is not advanced.
RequestCallSameId(c, t) ==
    /\ sending[c] = 0
    /\ issued[c] < MaxRequests
    /\ issued' = [issued EXCEPT ![c] = @ + 1]
    /\ sending' = [sending EXCEPT ![c] = issued[c] + 1]
    /\ kind' = [kind EXCEPT ![c] = t]
    /\ UNCHANGED <<id, handlers, stack, sockets, serverVars, requests, replies,
                   called, got>>

\* Client::request: a new id, then _send blocks until the message is taken.
RequestCall(c, t) ==
    /\ sending[c] = 0
    /\ issued[c] < MaxRequests
    /\ issued' = [issued EXCEPT ![c] = @ + 1]
    /\ id' = [id EXCEPT ![c] = @ + 1]
    /\ sending' = [sending EXCEPT ![c] = issued[c] + 1]
    /\ kind' = [kind EXCEPT ![c] = t]
    /\ UNCHANGED <<handlers, stack, sockets, serverVars, requests, replies,
                   called, got>>

\* A request leaves on one of the connections with room and the reply function
\* fn is entered under the given id.
SendAndRegister(c, key, fn) ==
    /\ sending[c] # 0
    /\ \E s \in Room(c) :
          requests' = requests \cup
              {[client |-> c, server |-> s, id |-> id[c], type |-> kind[c],
                of |-> sending[c], back |-> TRUE]}
    /\ handlers' = [handlers EXCEPT ![c] = {h \in @ : h.id # key} \cup
                       {[id |-> key, fn |-> fn]}]
    /\ sending' = [sending EXCEPT ![c] = 0]
    /\ UNCHANGED <<id, kind, stack, sockets, serverVars, replies, history>>

\* Mutant: the reply function is entered under the id of the next request.
SendNextId(c) == SendAndRegister(c, id[c] + 1, sending[c])

\* Mutant: an empty function is entered.
SendNoFunction(c) == SendAndRegister(c, id[c], 0)

\* The last _send takes the message, and only then is the reply function
\* entered under the current id.
Send(c) == SendAndRegister(c, id[c], sending[c])

\* An error other than EAGAIN: request() returns false, the id stays used.
SendError(c) ==
    /\ sending[c] # 0
    /\ sending' = [sending EXCEPT ![c] = 0]
    /\ UNCHANGED <<id, handlers, kind, stack, sockets, serverVars, requests,
                   replies, history>>

\* Those of a client's requests that are still on the way to one of the given
\* servers.
Outbound(c, S) == {m \in requests : m.client = c /\ m.server \in S}

\* Client::update from the receive loop, or between two attempts of _send that
\* met EAGAIN: connect what appeared, disconnect what went.  zmq_disconnect
\* drops the unread replies and the requests not yet transmitted; the others
\* are still served, but their replies have no connection to go back on.
Update(c) ==
    LET gone == sockets[c] \ announced
        out  == Outbound(c, gone)
    IN  /\ sockets[c] # announced
        /\ sending[c] = 0 \/ Room(c) = {}
        /\ sockets' = [sockets EXCEPT ![c] = announced]
        /\ \E kept \in SUBSET out :
              /\ \A m \in kept, n \in out :
                    n.server = m.server /\ n.id < m.id => n \in kept
              /\ requests' = (requests \ out) \cup
                                {[m EXCEPT !.back = FALSE] : m \in kept}
        /\ replies' = {r \in replies : ~(r.client = c /\ r.server \in gone)}
        /\ UNCHANGED <<id, handlers, sending, kind, stack, serverVars, history>>

\* The oldest reply of each server to a client.
FirstReplies(c) ==
    {r \in replies : /\ r.client = c
                     /\ \A q \in replies : q.client = c /\ q.server = r.server
                                              => r.id <= q.id}

\* Client::process: take a reply, look its id up and run the reply function.
\* An unknown id throws "Got unrequested reply".
Process(c) ==
    /\ sending[c] = 0
    /\ Len(stack[c]) < MaxDepth
    /\ \E r \in FirstReplies(c) :
          /\ replies' = replies \ {r}
          /\ IF \E h \in handlers[c] : h.id = r.id
             THEN LET h == CHOOSE h \in handlers[c] : h.id = r.id
                  IN  /\ called' = [called EXCEPT ![c][h.fn] = @ + 1]
                      /\ got' = [got EXCEPT ![c][h.fn] = @ \cup {r.of}]
                      /\ stack' = [stack EXCEPT ![c] = Append(@, r.id)]
             ELSE UNCHANGED <<called, got, stack>>
    /\ UNCHANGED <<id, handlers, sending, kind, sockets, serverVars, requests,
                   issued>>

\* Mutant: all reply functions are erased.
CallbackReturnClear(c) ==
    /\ sending[c] = 0
    /\ stack[c] # <<>>
    /\ handlers' = [handlers EXCEPT ![c] = {}]
    /\ stack' = [stack EXCEPT ![c] = SubSeq(@, 1, Len(@) - 1)]
    /\ UNCHANGED <<id, sending, kind, sockets, serverVars, requests, replies,
                   history>>

\* The reply function returns and Client::process erases it.
CallbackReturn(c) ==
    /\ sending[c] = 0
    /\ stack[c] # <<>>
    /\ handlers' = [handlers EXCEPT ![c] =
                       {h \in @ : h.id # stack[c][Len(stack[c])]}]
    /\ stack' = [stack EXCEPT ![c] = SubSeq(@, 1, Len(@) - 1)]
    /\ UNCHANGED <<id, sending, kind, sockets, serverVars, requests, replies,
                   history>>

\* The reply function throws: the exception passes the erase.
CallbackThrow(c) ==
    /\ sending[c] = 0
    /\ stack[c] # <<>>
    /\ stack' = [stack EXCEPT ![c] = SubSeq(@, 1, Len(@) - 1)]
    /\ UNCHANGED <<id, handlers, sending, kind, sockets, serverVars, requests,
                   replies, history>>

-----------------------------------------------------------------------------
(* Server *)

\* The oldest request of each client at a server.
FirstRequests(s) ==
    {m \in requests : /\ m.server = s
                      /\ \A q \in requests : q.client = m.client /\ q.server = s
                                                => m.id <= q.id}

\* What Server::process answers: the handler's reply, or zero when there is no
\* handler or the handler throws.  The socket has no high water mark for
\* replies (ZMQ_SNDHWM is 0 in detail::Sender).
Answer(s, m, throws) ==
    [client |-> m.client, server |-> s, id |-> m.id, of |-> m.of,
     code |-> IF m.type \in table[s] /\ ~throws THEN "ok" ELSE "zero"]

\* Mutant: without a handler nothing is sent.
ServeOnlyHandled(s) ==
    /\ s \in up
    /\ \E m \in FirstRequests(s), throws \in BOOLEAN :
          /\ requests' = requests \ {m}
          /\ replies' = replies \cup
                (IF m.back /\ m.type \in table[s]
                 THEN {Answer(s, m, throws)} ELSE {})
    /\ UNCHANGED <<clientVars, serverVars, history>>

\* Mutant: the catch block answers although the reply has been sent.
ServeTwice(s) ==
    /\ s \in up
    /\ \E m \in FirstRequests(s) :
          /\ requests' = requests \ {m}
          /\ replies' = replies \cup
                (IF m.back
                 THEN {Answer(s, m, throws) : throws \in BOOLEAN} ELSE {})
    /\ UNCHANGED <<clientVars, serverVars, history>>

\* Server::process: receive, handle, send.
Serve(s) ==
    /\ s \in up
    /\ \E m \in FirstRequests(s), throws \in BOOLEAN :
          /\ requests' = requests \ {m}
          /\ replies' = replies \cup
                (IF m.back THEN {Answer(s, m, throws)} ELSE {})
    /\ UNCHANGED <<clientVars, serverVars, history>>

\* Server::handle: refused when the request already has a handler.
Handle(s, t) ==
    /\ s \in up
    /\ t \notin table[s]
    /\ table' = [table EXCEPT ![s] = @ \cup {t}]
    /\ UNCHANGED <<clientVars, announced, up, requests, replies, history>>

\* Server::remove.
Remove(s, t) ==
    /\ s \in up
    /\ t \in table[s]
    /\ table' = [table EXCEPT ![s] = @ \ {t}]
    /\ UNCHANGED <<clientVars, announced, up, requests, replies, history>>

\* A server process ends.  The requests its socket had received and the
\* replies not yet transmitted are lost, oldest requests and newest replies
\* first; the requests still queued at the clients stay.
ServerStop(s) ==
    LET ins  == {m \in requests : m.server = s}
        outs == {r \in replies : r.server = s}
    IN  /\ s \in up \cap Stoppable
        /\ up' = up \ {s}
        /\ table' = [table EXCEPT ![s] = {}]
        /\ \E lost \in SUBSET ins :
              /\ \A m \in lost, n \in ins :
                    n.client = m.client /\ n.id < m.id => n \in lost
              /\ requests' = requests \ lost
        /\ \E lost \in SUBSET outs :
              /\ \A r \in lost, q \in outs :
                    q.client = r.client /\ r.id < q.id => q \in lost
              /\ replies' = replies \ lost
        /\ UNCHANGED <<clientVars, announced, history>>

\* Zeroconf notices that the server is gone.
Withdraw(s) ==
    /\ s \in announced \ up
    /\ announced' = announced \ {s}
    /\ UNCHANGED <<clientVars, up, table, requests, replies, history>>

\* The constructor of a server on the same address: bind and announce.
ServerStart(s) ==
    /\ s \notin up
    /\ up' = up \cup {s}
    /\ announced' = announced \cup {s}
    /\ UNCHANGED <<clientVars, table, requests, replies, history>>

-----------------------------------------------------------------------------
ClientNext(c) ==
    \/ \E t \in Types : RequestCall(c, t)
    \/ Send(c)
    \/ SendError(c)
    \/ Update(c)
    \/ Process(c)
    \/ CallbackReturn(c)
    \/ CallbackThrow(c)

ServerNext(s) ==
    \/ Serve(s)
    \/ \E t \in Types : Handle(s, t) \/ Remove(s, t)
    \/ ServerStop(s)
    \/ Withdraw(s)
    \/ ServerStart(s)

Next == (\E c \in Clients : ClientNext(c)) \/ (\E s \in Servers : ServerNext(s))

Spec == Init /\ [][Next]_vars

\* Every party keeps calling receive(): clients update and process replies,
\* reply functions end, _send retries, servers serve what arrived.
Fairness ==
    /\ \A c \in Clients :
          /\ WF_vars(Update(c))
          /\ WF_vars(Send(c))
          /\ WF_vars(Process(c))
          /\ WF_vars(CallbackReturn(c) \/ CallbackThrow(c))
    /\ \A s \in Servers : WF_vars(Serve(s))

FairSpec == Spec /\ Fairness

-----------------------------------------------------------------------------
(* Properties *)

\* The reply function of a call is given the reply to that call and to no
\* other, whichever server answered, in whatever order the replies came and
\* however deep receive() was nested (client.cpp 91 and 115-132).
Correlated ==
    \A c \in Clients : \A n \in Number : got[c][n] \subseteq {n}

\* A reply function never runs twice, even when it was left in the map by an
\* exception, or calls receive() while its own entry is still there.
AtMostOnce ==
    \A c \in Clients : \A n \in Number : called[c][n] <= 1

\* Client::process never meets "Got unrequested reply": the entry made only
\* after the send is there before any reply can arrive, and outlives it.
NoUnrequestedReply ==
    \A r \in replies : \E h \in handlers[r.client] : h.id = r.id

\* What became of a call, as its caller sees it.
phase(c, n) ==
    IF n > issued[c] THEN "new"
    ELSE IF n = sending[c] THEN "blocking"
    ELSE IF called[c][n] > 0 THEN "answered"
    ELSE IF \E h \in handlers[c] : h.fn = n THEN "accepted"
    ELSE "refused"

callState == [c \in Clients |-> [n \in Number |-> phase(c, n)]]

Contract == INSTANCE RpcContract WITH state <- callState

\* Client and server together implement the contract of client.h: calls return
\* one after the other, a request() that returned true is never forgotten or
\* turned into a refusal, and its reply function runs at most from there.
ImplementsContract == Contract!Spec

\* As long as no server stops, every call of request() returns and, if it was
\* accepted, has its reply function executed: also with no server handling the
\* type, with a handler that throws, and with calls made by reply functions.
EveryRequestAnswered ==
    \A c \in Clients : \A n \in Number :
        n <= issued[c] ~> callState[c][n] \in {"answered", "refused"}
=============================================================================
