---------------------------- MODULE ReqRepProofs ----------------------------
(***************************************************************************)
(* Proofs about ReqRep, for any number of clients, servers and calls.       *)
(*                                                                          *)
(* None of the properties is inductive by itself: that a reply finds its    *)
(* reply function rests on where the message came from.  IInv follows a     *)
(* wire id through its life: taken by request(), in flight in at most one   *)
(* message, executed.                                                       *)
(***************************************************************************)
EXTENDS ReqRep, TLAPS

\* _id counts the calls, and a blocking call is the latest one.
IdCountsCalls ==
    \A c \in Clients :
        /\ id[c] = issued[c]
        /\ sending[c] \in {0, id[c]}

\* A map entry belongs to a call that has returned, and its key is the number
\* of the call.
EntriesReturned ==
    \A c \in Clients : \A h \in handlers[c] :
        /\ h.id = h.fn
        /\ h.id <= id[c]
        /\ h.id # sending[c]

\* A message in flight carries a registered id whose function has not run.
InFlight(m) ==
    /\ m.id = m.of
    /\ called[m.client][m.of] = 0
    /\ [id |-> m.id, fn |-> m.of] \in handlers[m.client]

\* Two messages in flight of one client carry different ids.
Distinct(A, B) ==
    \A m \in A, n \in B : m.client = n.client /\ m.id = n.id => m = n

Messages ==
    /\ \A m \in requests : InFlight(m)
    /\ \A r \in replies : InFlight(r)
    /\ Distinct(requests, requests)
    /\ Distinct(replies, replies)
    /\ \A m \in requests, r \in replies : ~(m.client = r.client /\ m.id = r.id)

\* A function runs at most once, and only after its call has returned.
Runs ==
    \A c \in Clients : \A n \in Number :
        /\ called[c][n] <= 1
        /\ n > id[c] \/ n = sending[c] => called[c][n] = 0
        /\ got[c][n] \subseteq {n}

\* The functions on the stack of a client have been executed.
StackRuns ==
    \A c \in Clients : \A i \in 1..Len(stack[c]) :
        /\ stack[c][i] \in Number
        /\ called[c][stack[c][i]] = 1

\* The inductive invariant.
IInv ==
    /\ TypeOK
    /\ IdCountsCalls
    /\ EntriesReturned
    /\ Messages
    /\ Runs
    /\ StackRuns

-----------------------------------------------------------------------------
\* The invariant holds when the clients have just been constructed.
LEMMA InitInv == Init => IInv
<1> SUFFICES ASSUME Init PROVE IInv
  OBVIOUS
<1>. USE ReqRepAssumption DEF Init, Number
<1>1. TypeOK
  BY DEF TypeOK, Handler, Request, Reply
<1>2. IdCountsCalls
  BY DEF IdCountsCalls
<1>3. EntriesReturned
  BY DEF EntriesReturned
<1>4. Messages
  BY DEF Messages, InFlight, Distinct
<1>5. Runs
  BY DEF Runs
<1>6. StackRuns
  BY DEF StackRuns
<1>. QED
  BY <1>1, <1>2, <1>3, <1>4, <1>5, <1>6 DEF IInv

\* Client::request takes an id nobody has.
LEMMA RequestCallInv ==
  ASSUME IInv, NEW c \in Clients, NEW t \in Types, RequestCall(c, t)
  PROVE  IInv'
<1>. USE ReqRepAssumption DEF IInv, RequestCall, serverVars
<1>1. TypeOK'
  <2>1. issued[c] + 1 \in Number
    BY DEF TypeOK, Number
  <2>2. issued' \in [Clients -> 0..MaxRequests]
    BY <2>1 DEF TypeOK, Number
  <2>3. sending' \in [Clients -> {0} \cup Number]
    BY <2>1 DEF TypeOK
  <2>4. id' \in [Clients -> Nat]
    BY DEF TypeOK
  <2>5. kind' \in [Clients -> Types]
    BY DEF TypeOK
  <2>. QED
    BY <2>2, <2>3, <2>4, <2>5 DEF TypeOK
<1>2. IdCountsCalls'
  BY DEF TypeOK, IdCountsCalls
<1>3. EntriesReturned'
  BY DEF TypeOK, Handler, Number, IdCountsCalls, EntriesReturned
<1>4. Messages'
  BY DEF Messages, InFlight, Distinct
<1>5. Runs'
  BY DEF TypeOK, Number, IdCountsCalls, Runs
<1>6. StackRuns'
  BY DEF StackRuns
<1>. QED
  BY <1>1, <1>2, <1>3, <1>4, <1>5, <1>6

\* The message sent is the only one with its id.
LEMMA SendInv ==
  ASSUME IInv, NEW c \in Clients, Send(c)
  PROVE  IInv'
<1>. USE ReqRepAssumption DEF IInv, Send, SendAndRegister, serverVars, history
<1>1. /\ sending[c] = id[c] /\ id[c] \in Number
      /\ \A h \in handlers[c] : h.id # id[c]
  BY DEF TypeOK, Number, IdCountsCalls, EntriesReturned
<1>2. PICK h0 \in Handler : h0 = [id |-> id[c], fn |-> id[c]]
  <2>1. [id |-> id[c], fn |-> id[c]] \in Handler
    BY <1>1 DEF Handler, Number
  <2>. QED
    BY <2>1
<1>a. PICK m0 \in Request :
        /\ requests' = requests \cup {m0}
        /\ m0.client = c /\ m0.id = id[c] /\ m0.of = id[c]
  <2>1. PICK s \in Room(c) :
          requests' = requests \cup
              {[client |-> c, server |-> s, id |-> id[c], type |-> kind[c],
                of |-> sending[c], back |-> TRUE]}
    OBVIOUS
  <2>2. s \in Servers /\ kind[c] \in Types /\ id[c] \in Nat
    BY DEF Room, TypeOK
  <2>. DEFINE m == [client |-> c, server |-> s, id |-> id[c],
                    type |-> kind[c], of |-> id[c], back |-> TRUE]
  <2>3. m \in Request
    BY <1>1, <2>2 DEF Request
  <2>4. requests' = requests \cup {m}
    BY <1>1, <2>1
  <2>. QED
    BY <2>3, <2>4
<1>b. handlers' = [handlers EXCEPT ![c] = @ \cup {h0}]
  <2>1. {h \in handlers[c] : h.id # id[c]} = handlers[c]
    BY <1>1
  <2>. QED
    BY <1>1, <1>2, <2>1
<1>c. \A d \in Clients : handlers[d] \subseteq handlers'[d]
  BY <1>b DEF TypeOK
<1>3. TypeOK'
  <2>1. handlers' \in [Clients -> SUBSET Handler]
    BY <1>b DEF TypeOK
  <2>2. requests' \in SUBSET Request
    BY <1>a DEF TypeOK
  <2>. QED
    BY <2>1, <2>2 DEF TypeOK
<1>4. IdCountsCalls'
  BY DEF TypeOK, IdCountsCalls
<1>5. EntriesReturned'
  BY <1>1 DEF TypeOK, Number, Handler, EntriesReturned
<1>6. Messages'
  <2>1. called[c][id[c]] = 0
    BY <1>1 DEF Runs
  <2>2. \A m \in requests \cup replies : ~(m.client = c /\ m.id = id[c])
    <3>1. ASSUME NEW m, InFlight(m), m.client = c PROVE m.id # id[c]
      <4>. DEFINE h == [id |-> m.id, fn |-> m.of]
      <4>1. h \in handlers[c] /\ h.id = m.id
        BY <3>1 DEF InFlight
      <4>. QED
        BY <4>1, <1>1
    <3>. QED
      BY <3>1 DEF Messages
  <2>3. ASSUME NEW m, m.client \in Clients, InFlight(m)
        PROVE  InFlight(m)'
    BY <2>3, <1>c DEF InFlight
  <2>4. InFlight(m0)'
    BY <1>2, <1>a, <1>b, <2>1 DEF InFlight, TypeOK
  <2>5. \A m \in requests' : InFlight(m)'
    BY <1>a, <2>3, <2>4 DEF TypeOK, Messages, Request
  <2>6. \A r \in replies' : InFlight(r)'
    BY <2>3 DEF TypeOK, Messages, Reply
  <2>7. Distinct(requests', requests')
    BY <1>a, <2>2 DEF Messages, Distinct
  <2>8. Distinct(replies', replies')
    BY DEF Messages, Distinct
  <2>9. \A m \in requests', r \in replies' : ~(m.client = r.client /\ m.id = r.id)
    BY <1>a, <2>2 DEF Messages
  <2>. QED
    BY <2>5, <2>6, <2>7, <2>8, <2>9 DEF Messages, Distinct
<1>7. Runs'
  BY <1>1 DEF TypeOK, Number, Runs
<1>8. StackRuns'
  BY DEF StackRuns
<1>. QED
  BY <1>3, <1>4, <1>5, <1>6, <1>7, <1>8

\* A failed send leaves its id unused.
LEMMA SendErrorInv ==
  ASSUME IInv, NEW c \in Clients, SendError(c)
  PROVE  IInv'
<1>. USE ReqRepAssumption DEF IInv, SendError, serverVars, history
<1>1. TypeOK'
  BY DEF TypeOK, Number
<1>2. IdCountsCalls'
  BY DEF TypeOK, IdCountsCalls
<1>3. EntriesReturned'
  BY DEF TypeOK, Number, Handler, EntriesReturned
<1>4. Messages'
  BY DEF Messages, InFlight, Distinct
<1>5. Runs'
  BY DEF TypeOK, Number, Runs
<1>6. StackRuns'
  BY DEF StackRuns
<1>. QED
  BY <1>1, <1>2, <1>3, <1>4, <1>5, <1>6

-----------------------------------------------------------------------------
\* A step that only loses messages, or their way back, keeps the invariant.
LEMMA LossInv ==
  ASSUME IInv, TypeOK',
         UNCHANGED <<id, handlers, sending, kind, stack, history>>,
         \A m \in requests' : \E n \in requests :
            m = n \/ (~m.back /\ m = [n EXCEPT !.back = FALSE]),
         \A m, n \in requests' : m.client = n.client /\ m.id = n.id => m = n,
         replies' \subseteq replies
  PROVE  IInv'
<1>. USE DEF IInv, history
<1>1. IdCountsCalls' /\ EntriesReturned' /\ Runs' /\ StackRuns'
  BY DEF IdCountsCalls, EntriesReturned, Runs, StackRuns
<1>2. \A m \in requests' : \E n \in requests :
         m.client = n.client /\ m.id = n.id /\ m.of = n.of
  BY DEF TypeOK, Request
<1>3. Messages'
  BY <1>2 DEF Messages, InFlight, Distinct
<1>. QED
  BY <1>1, <1>3

\* zmq_disconnect loses messages and the way back of others.
LEMMA UpdateInv ==
  ASSUME IInv, NEW c \in Clients, Update(c)
  PROVE  IInv'
<1>. DEFINE out == Outbound(c, sockets[c] \ announced)
<1>1. PICK kept \in SUBSET out :
        requests' = (requests \ out) \cup {[m EXCEPT !.back = FALSE] : m \in kept}
  BY DEF Update
<1>2. /\ replies' \subseteq replies
      /\ UNCHANGED <<id, handlers, sending, kind, stack, announced, up, table,
                     history>>
      /\ sockets' = [sockets EXCEPT ![c] = announced]
  BY DEF Update, serverVars
<1>3. out \subseteq requests
  BY DEF Outbound
<1>. HIDE DEF out
<1>4. \A m \in requests' : \E n \in requests :
         m = n \/ (~m.back /\ m = [n EXCEPT !.back = FALSE])
  <2>1. \A n \in requests : ~[n EXCEPT !.back = FALSE].back
    BY DEF IInv, TypeOK, Request
  <2>. QED
    BY <1>1, <1>3, <2>1
<1>5. \A m, n \in requests' : m.client = n.client /\ m.id = n.id => m = n
  <2>1. \A m \in requests : /\ [m EXCEPT !.back = FALSE].client = m.client
                            /\ [m EXCEPT !.back = FALSE].id = m.id
    BY DEF IInv, TypeOK, Request
  <2>2. \A m, n \in requests : m.client = n.client /\ m.id = n.id => m = n
    BY DEF IInv, Messages, Distinct
  <2>. QED
    <3>. DEFINE sent(k) == IF k \in out THEN [k EXCEPT !.back = FALSE] ELSE k
    <3>1. \A m \in requests' : \E k \in requests :
            /\ m.client = k.client /\ m.id = k.id
            /\ m = sent(k)
      BY <1>1, <1>3, <2>1
    <3>. HIDE DEF sent
    <3>. QED
      BY <3>1, <2>2
<1>6. TypeOK'
  <2>1. \A m \in requests : [m EXCEPT !.back = FALSE] \in Request
    BY DEF IInv, TypeOK, Request
  <2>2. requests' \in SUBSET Request
    BY <1>1, <1>3, <2>1 DEF IInv, TypeOK
  <2>. QED
    BY <1>2, <2>2 DEF IInv, TypeOK, history
<1>. QED
  BY <1>2, <1>4, <1>5, <1>6, LossInv

\* A stopping server loses messages.
LEMMA ServerStopInv ==
  ASSUME IInv, NEW s \in Servers, ServerStop(s)
  PROVE  IInv'
<1>1. /\ requests' \subseteq requests /\ replies' \subseteq replies
      /\ up' \subseteq up /\ table' = [table EXCEPT ![s] = {}]
      /\ UNCHANGED <<id, handlers, sending, kind, stack, sockets, announced,
                     history>>
  BY DEF ServerStop, clientVars
<1>2. TypeOK'
  BY <1>1 DEF IInv, TypeOK, history
<1>. QED
  BY <1>1, <1>2, LossInv DEF IInv, Messages, Distinct

\* The server's own table and zeroconf touch no message and no client.
LEMMA ServerOtherInv ==
  ASSUME IInv, NEW s \in Servers,
         \/ \E t \in Types : Handle(s, t) \/ Remove(s, t)
         \/ Withdraw(s)
         \/ ServerStart(s)
  PROVE  IInv'
<1>1. UNCHANGED <<id, handlers, sending, kind, stack, sockets, requests,
                  replies, history>>
  BY DEF Handle, Remove, Withdraw, ServerStart, clientVars
<1>2. TypeOK'
  BY <1>1 DEF IInv, TypeOK, history, Handle, Remove, Withdraw, ServerStart
<1>. QED
  BY <1>1, <1>2, LossInv DEF IInv, Messages, Distinct

-----------------------------------------------------------------------------
\* The reply taken is the last message with its id, and its function has not
\* run: it runs now, for the first time, with the reply it waits for.
LEMMA ProcessInv ==
  ASSUME IInv, NEW c \in Clients, Process(c)
  PROVE  IInv'
<1>. USE ReqRepAssumption
<1>1. PICK r \in FirstReplies(c) :
        /\ replies' = replies \ {r}
        /\ IF \E h \in handlers[c] : h.id = r.id
           THEN LET h == CHOOSE h \in handlers[c] : h.id = r.id
                IN  /\ called' = [called EXCEPT ![c][h.fn] = @ + 1]
                    /\ got' = [got EXCEPT ![c][h.fn] = @ \cup {r.of}]
                    /\ stack' = [stack EXCEPT ![c] = Append(@, r.id)]
           ELSE UNCHANGED <<called, got, stack>>
  BY DEF Process
<1>2. /\ UNCHANGED <<id, handlers, sending, kind, sockets, requests, issued,
                     announced, up, table>>
      /\ sending[c] = 0
  BY DEF Process, serverVars
<1>3. /\ r \in replies /\ r.client = c /\ InFlight(r)
      /\ r.of \in Number /\ r.id = r.of /\ called[c][r.of] = 0
  BY DEF FirstReplies, IInv, TypeOK, Reply, Messages, InFlight
<1>4. \E h \in handlers[c] : h.id = r.id
  <2>. DEFINE h == [id |-> r.id, fn |-> r.of]
  <2>1. h \in handlers[c] /\ h.id = r.id
    BY <1>3 DEF InFlight
  <2>. QED
    BY <2>1
<1>5. (CHOOSE h \in handlers[c] : h.id = r.id).fn = r.of
  BY <1>3, <1>4 DEF IInv, EntriesReturned
<1>6. /\ called' = [called EXCEPT ![c][r.of] = @ + 1]
      /\ got' = [got EXCEPT ![c][r.of] = @ \cup {r.of}]
      /\ stack' = [stack EXCEPT ![c] = Append(@, r.id)]
  BY <1>1, <1>4, <1>5
<1>7. TypeOK'
  <2>1. called' \in [Clients -> [Number -> Nat]]
    BY <1>3, <1>6 DEF IInv, TypeOK, Number
  <2>2. got' \in [Clients -> [Number -> SUBSET Number]]
    BY <1>3, <1>6 DEF IInv, TypeOK
  <2>3. stack' \in [Clients -> Seq(Nat)]
    BY <1>3, <1>6 DEF IInv, TypeOK, Number
  <2>. QED
    BY <1>1, <1>2, <2>1, <2>2, <2>3 DEF IInv, TypeOK
<1>8. IdCountsCalls'
  BY <1>2 DEF IInv, IdCountsCalls
<1>9. EntriesReturned'
  BY <1>2 DEF IInv, EntriesReturned
<1>10. Messages'
  <2>1. ASSUME NEW m, InFlight(m), m.client \in Clients, m.of \in Number,
               ~(m.client = c /\ m.id = r.id)
        PROVE  InFlight(m)'
    BY <2>1, <1>2, <1>3, <1>6 DEF InFlight, IInv, TypeOK
  <2>2. \A m \in requests' : InFlight(m)'
    BY <1>2, <1>3, <2>1 DEF IInv, TypeOK, Request, Messages
  <2>3. \A q \in replies' : InFlight(q)'
    BY <1>1, <1>3, <2>1 DEF IInv, TypeOK, Reply, Messages, Distinct
  <2>. QED
    BY <1>1, <1>2, <2>2, <2>3 DEF IInv, Messages, Distinct
<1>11. Runs'
  <2>1. ~(r.of > id[c])
    BY <1>3, <1>4 DEF IInv, TypeOK, Number, Handler, EntriesReturned
  <2>2. ASSUME NEW d \in Clients, NEW n \in Number
        PROVE  /\ called'[d][n] <= 1
               /\ n > id'[d] \/ n = sending'[d] => called'[d][n] = 0
               /\ got'[d][n] \subseteq {n}
    <3>1. CASE d = c /\ n = r.of
      BY <3>1, <2>1, <1>2, <1>3, <1>6 DEF IInv, TypeOK, Number, Runs
    <3>2. CASE ~(d = c /\ n = r.of)
      BY <3>2, <1>2, <1>3, <1>6 DEF IInv, TypeOK, Runs
    <3>. QED
      BY <3>1, <3>2
  <2>. QED
    BY <2>2 DEF Runs
<1>12. StackRuns'
  <2>1. ASSUME NEW d \in Clients, NEW n \in Number, called[d][n] = 1
        PROVE  called'[d][n] = 1
    BY <2>1, <1>3, <1>6 DEF IInv, TypeOK
  <2>2. called'[c][r.of] = 1
    BY <1>3, <1>6 DEF IInv, TypeOK
  <2>3. ASSUME NEW d \in Clients, NEW i \in 1..Len(stack'[d])
        PROVE  stack'[d][i] \in Number /\ called'[d][stack'[d][i]] = 1
    <3>1. CASE d # c
      BY <3>1, <2>1, <1>6 DEF IInv, TypeOK, StackRuns
    <3>2. CASE d = c
      <4>1. /\ stack'[c] = Append(stack[c], r.id)
            /\ stack[c] \in Seq(Nat)
        BY <1>6 DEF IInv, TypeOK
      <4>2. CASE i \in 1..Len(stack[c])
        BY <3>2, <4>1, <4>2, <2>1 DEF IInv, StackRuns
      <4>3. CASE i = Len(stack[c]) + 1
        BY <3>2, <4>1, <4>3, <2>2, <1>3
      <4>. QED
        BY <3>2, <4>1, <4>2, <4>3
    <3>. QED
      BY <3>1, <3>2
  <2>. QED
    BY <2>3 DEF StackRuns
<1>. QED
  BY <1>7, <1>8, <1>9, <1>10, <1>11, <1>12 DEF IInv

\* The function that ends has run: no message waits for it any more.
LEMMA CallbackInv ==
  ASSUME IInv, NEW c \in Clients, CallbackReturn(c) \/ CallbackThrow(c)
  PROVE  IInv'
<1>. DEFINE top == stack[c][Len(stack[c])]
<1>1. /\ stack[c] \in Seq(Nat) /\ stack[c] # <<>>
      /\ top \in Number /\ called[c][top] = 1
  BY DEF CallbackReturn, CallbackThrow, IInv, TypeOK, StackRuns
<1>2. /\ UNCHANGED <<id, sending, kind, sockets, announced, up, table, requests,
                     replies, history>>
      /\ stack' = [stack EXCEPT ![c] = SubSeq(@, 1, Len(@) - 1)]
      /\ handlers' \in {handlers,
                        [handlers EXCEPT ![c] = {h \in @ : h.id # top}]}
  BY DEF CallbackReturn, CallbackThrow, serverVars
<1>. HIDE DEF top
<1>3. \A d \in Clients :
         /\ handlers'[d] \subseteq handlers[d]
         /\ \A h \in handlers[d] \ handlers'[d] : d = c /\ h.id = top
  BY <1>2 DEF IInv, TypeOK
<1>4. SubSeq(stack[c], 1, Len(stack[c]) - 1) \in Seq(Nat)
  BY <1>1
<1>5. TypeOK'
  <2>1. stack' \in [Clients -> Seq(Nat)]
    BY <1>2, <1>4 DEF IInv, TypeOK
  <2>2. handlers' \in [Clients -> SUBSET Handler]
    BY <1>2 DEF IInv, TypeOK
  <2>. QED
    BY <1>2, <2>1, <2>2 DEF IInv, TypeOK, history
<1>6. IdCountsCalls' /\ EntriesReturned' /\ Runs'
  BY <1>2, <1>3 DEF IInv, IdCountsCalls, EntriesReturned, Runs, history
<1>7. Messages'
  <2>1. ASSUME NEW m, InFlight(m), m.client \in Clients, m.id \in Nat
        PROVE  InFlight(m)'
    <3>. DEFINE h == [id |-> m.id, fn |-> m.of]
    <3>1. h \in handlers[m.client] /\ h.id = m.id
      BY <2>1 DEF InFlight
    <3>2. ~(m.client = c /\ m.id = top)
      BY <2>1, <1>1 DEF InFlight
    <3>3. h \in handlers'[m.client]
      BY <3>1, <3>2, <1>3, <2>1
    <3>. QED
      BY <3>3, <2>1, <1>2 DEF InFlight, history
  <2>. QED
    BY <2>1, <1>2 DEF IInv, TypeOK, Request, Reply, Messages, Distinct
<1>8. StackRuns'
  <2>1. ASSUME NEW d \in Clients, NEW i \in 1..Len(stack'[d])
        PROVE  i \in 1..Len(stack[d]) /\ stack'[d][i] = stack[d][i]
    BY <1>1, <1>2, <1>4 DEF IInv, TypeOK
  <2>. QED
    BY <2>1, <1>2 DEF IInv, StackRuns, history
<1>. QED
  BY <1>5, <1>6, <1>7, <1>8 DEF IInv

\* The one reply to a request takes its place.
LEMMA ServeInv ==
  ASSUME IInv, NEW s \in Servers, Serve(s)
  PROVE  IInv'
<1>1. PICK m \in FirstRequests(s), throws \in BOOLEAN :
        /\ requests' = requests \ {m}
        /\ replies' = replies \cup
              (IF m.back THEN {Answer(s, m, throws)} ELSE {})
  BY DEF Serve
<1>2. /\ UNCHANGED <<id, handlers, sending, kind, stack, sockets, announced, up,
                     table, history>>
      /\ m \in requests /\ m \in Request /\ InFlight(m)
  BY DEF Serve, FirstRequests, clientVars, serverVars, IInv, TypeOK, Messages
<1>3. PICK r \in Reply :
        /\ replies' \subseteq replies \cup {r}
        /\ r.client = m.client /\ r.id = m.id /\ r.of = m.of
  <2>1. /\ Answer(s, m, throws) \in Reply
        /\ Answer(s, m, throws).client = m.client
        /\ Answer(s, m, throws).id = m.id
        /\ Answer(s, m, throws).of = m.of
    BY <1>2 DEF Answer, Reply, Request
  <2>. QED
    BY <1>1, <2>1
<1>4. TypeOK'
  BY <1>1, <1>2, <1>3 DEF IInv, TypeOK, history
<1>5. IdCountsCalls' /\ EntriesReturned' /\ Runs' /\ StackRuns'
  BY <1>2 DEF IInv, IdCountsCalls, EntriesReturned, Runs, StackRuns, history
<1>6. Messages'
  <2>1. \A n : InFlight(n) => InFlight(n)'
    BY <1>2 DEF InFlight, history
  <2>2. InFlight(r)
    BY <1>2, <1>3 DEF InFlight
  <2>3. /\ \A n \in requests : n.client = r.client /\ n.id = r.id => n = m
        /\ \A q \in replies : ~(q.client = r.client /\ q.id = r.id)
    BY <1>2, <1>3 DEF IInv, Messages, Distinct
  <2>. QED
    BY <1>1, <1>3, <2>1, <2>2, <2>3 DEF IInv, Messages, Distinct
<1>. QED
  BY <1>4, <1>5, <1>6 DEF IInv

\* Every step keeps the invariant.
LEMMA NextInv == IInv /\ [Next]_vars => IInv'
<1> SUFFICES ASSUME IInv, [Next]_vars PROVE IInv'
  OBVIOUS
<1>1. ASSUME NEW c \in Clients, ClientNext(c) PROVE IInv'
  BY <1>1, RequestCallInv, SendInv, SendErrorInv, UpdateInv, ProcessInv,
     CallbackInv DEF ClientNext
<1>2. ASSUME NEW s \in Servers, ServerNext(s) PROVE IInv'
  BY <1>2, ServeInv, ServerStopInv, ServerOtherInv DEF ServerNext
<1>3. CASE UNCHANGED vars
  BY <1>3 DEF vars, clientVars, serverVars, history, IInv, TypeOK,
     IdCountsCalls, EntriesReturned, Messages, InFlight, Distinct, Runs,
     StackRuns
<1>. QED
  BY <1>1, <1>2, <1>3 DEF Next

-----------------------------------------------------------------------------
\* Each client's ids, map entries, stack and messages are well formed, and IInv
\* holds, in every behaviour of clients and servers.
THEOREM Invariance == Spec => []IInv
<1>. QED
  BY InitInv, NextInv, PTL DEF Spec

\* The type invariant of clients, servers and messages.
THEOREM TypeCorrect == Spec => []TypeOK
<1>1. IInv => TypeOK
  BY DEF IInv
<1>. QED
  BY <1>1, Invariance, PTL

\* A reply function is given the reply to its own request only.
THEOREM RepliesCorrelated == Spec => []Correlated
<1>1. IInv => Correlated
  BY DEF IInv, Runs, Correlated
<1>. QED
  BY <1>1, Invariance, PTL

\* A reply function runs at most once.
THEOREM RepliesOnce == Spec => []AtMostOnce
<1>1. IInv => AtMostOnce
  BY DEF IInv, Runs, AtMostOnce
<1>. QED
  BY <1>1, Invariance, PTL

\* Client::process finds the reply function of every reply that arrives.
THEOREM RepliesRequested == Spec => []NoUnrequestedReply
<1>1. IInv => NoUnrequestedReply
  <2>1. ASSUME IInv, NEW r \in replies
        PROVE  \E h \in handlers[r.client] : h.id = r.id
    <3>. DEFINE h == [id |-> r.id, fn |-> r.of]
    <3>1. h \in handlers[r.client] /\ h.id = r.id
      BY <2>1 DEF IInv, Messages, InFlight
    <3>. QED
      BY <3>1
  <2>. QED
    BY <2>1 DEF NoUnrequestedReply
<1>. QED
  BY <1>1, Invariance, PTL

-----------------------------------------------------------------------------
(* The refinement *)

\* A step after which one call has moved on and all others are as before is a
\* step of the contract's Move.
LEMMA OneMoves ==
  ASSUME NEW c \in Clients, NEW n \in Number, NEW from, NEW to,
         phase(c, n) = from, phase(c, n)' = to,
         \A d \in Clients, k \in Number :
            ~(d = c /\ k = n) => phase(d, k)' = phase(d, k)
  PROVE  Contract!Move(c, n, from, to)
<1>1. callState' = [callState EXCEPT ![c][n] = to]
  <2>. HIDE DEF phase
  <2>. QED
    BY DEF callState
<1>2. callState[c][n] = from
  BY DEF callState
<1>. QED
  BY <1>1, <1>2 DEF Contract!Move

\* A step after which every call is as before.
LEMMA NoneMoves ==
  ASSUME \A d \in Clients, k \in Number : phase(d, k)' = phase(d, k)
  PROVE  UNCHANGED callState
BY DEF callState

\* request() is entered.
LEMMA RequestCallMoves ==
  ASSUME IInv, NEW c \in Clients, NEW t \in Types, RequestCall(c, t)
  PROVE  Contract!Next
<1>0. PICK n : n = issued[c] + 1
  OBVIOUS
<1>. USE ReqRepAssumption
<1>1. n \in Number /\ issued[c] \in Nat /\ sending[c] = 0 /\ id[c] = issued[c]
  BY <1>0 DEF IInv, TypeOK, RequestCall, Number, IdCountsCalls
<1>2. /\ issued' = [issued EXCEPT ![c] = n]
      /\ sending' = [sending EXCEPT ![c] = n]
      /\ UNCHANGED <<handlers, called>>
  BY <1>0 DEF RequestCall
<1>3. phase(c, n) = "new" /\ phase(c, n)' = "blocking"
  BY <1>0, <1>1, <1>2 DEF phase, IInv, TypeOK
<1>4. \A d \in Clients, k \in Number :
         ~(d = c /\ k = n) => phase(d, k)' = phase(d, k)
  <2>1. ASSUME NEW d \in Clients, d # c
        PROVE  issued'[d] = issued[d] /\ sending'[d] = sending[d]
    BY <2>1, <1>2 DEF IInv, TypeOK
  <2>2. ASSUME NEW k \in Number, k # n
        PROVE  /\ k > issued'[c] <=> k > issued[c]
               /\ k = sending'[c] <=> k = sending[c]
    BY <2>2, <1>0, <1>1, <1>2 DEF IInv, TypeOK, Number
  <2>. QED
    BY <2>1, <2>2, <1>2 DEF phase
<1>5. \A k \in 1..(n - 1) : callState[c][k] \notin {"new", "blocking"}
  BY <1>0, <1>1 DEF callState, phase, IInv, TypeOK, Number
<1>. QED
  BY <1>1, <1>3, <1>4, <1>5, OneMoves
     DEF Contract!Next, Contract!Call, Number

\* request() returns true.
LEMMA SendMoves ==
  ASSUME IInv, NEW c \in Clients, Send(c)
  PROVE  Contract!Next
<1>0. PICK n : n = sending[c]
  OBVIOUS
<1>. USE ReqRepAssumption
<1>1. /\ n \in Number /\ id[c] = n /\ issued[c] = n /\ called[c][n] = 0
  BY <1>0 DEF IInv, TypeOK, Send, SendAndRegister, Number, IdCountsCalls, Runs
<1>2. /\ sending' = [sending EXCEPT ![c] = 0]
      /\ UNCHANGED <<issued, called>>
      /\ \A d \in Clients : \A k \in Number : ~(d = c /\ k = n) =>
            ((\E h \in handlers'[d] : h.fn = k) <=> (\E h \in handlers[d] : h.fn = k))
      /\ \E h \in handlers'[c] : h.fn = n
  <2>1. handlers' = [handlers EXCEPT ![c] = {h \in @ : h.id # n} \cup
                        {[id |-> n, fn |-> n]}]
    BY <1>0, <1>1 DEF Send, SendAndRegister
  <2>2. \A h \in handlers[c] : h.id = h.fn /\ h.id # n
    BY <1>0 DEF IInv, EntriesReturned
  <2>. QED
    <3>1. PICK h0 : h0 = [id |-> n, fn |-> n]
      OBVIOUS
    <3>2. /\ handlers'[c] = handlers[c] \cup {h0}
          /\ \A d \in Clients : d # c => handlers'[d] = handlers[d]
      BY <2>1, <2>2, <3>1 DEF IInv, TypeOK
    <3>3. h0.fn = n
      BY <3>1
    <3>4. sending' = [sending EXCEPT ![c] = 0] /\ UNCHANGED <<issued, called>>
      BY DEF Send, SendAndRegister, history
    <3>. QED
      BY <3>2, <3>3, <3>4
<1>3. phase(c, n) = "blocking" /\ phase(c, n)' = "accepted"
  BY <1>0, <1>1, <1>2 DEF phase, IInv, TypeOK, Number
<1>4. \A d \in Clients, k \in Number :
         ~(d = c /\ k = n) => phase(d, k)' = phase(d, k)
  <2>1. \A d \in Clients, k \in Number :
           ~(d = c /\ k = n) => (k = sending'[d] <=> k = sending[d])
    BY <1>0, <1>2 DEF IInv, TypeOK, Number
  <2>. QED
    BY <2>1, <1>2 DEF phase
<1>. QED
  BY <1>1, <1>3, <1>4, OneMoves
     DEF Contract!Next, Contract!Return, Number

\* request() returns false.
LEMMA SendErrorMoves ==
  ASSUME IInv, NEW c \in Clients, SendError(c)
  PROVE  Contract!Next
<1>0. PICK n : n = sending[c]
  OBVIOUS
<1>. USE ReqRepAssumption
<1>1. /\ n \in Number /\ issued[c] = n /\ called[c][n] = 0
      /\ \A h \in handlers[c] : h.fn # n
  BY <1>0 DEF IInv, TypeOK, SendError, Number, IdCountsCalls, Runs, EntriesReturned
<1>2. /\ sending' = [sending EXCEPT ![c] = 0]
      /\ UNCHANGED <<issued, called, handlers>>
  BY DEF SendError, history
<1>3. phase(c, n) = "blocking" /\ phase(c, n)' = "refused"
  BY <1>0, <1>1, <1>2 DEF phase, IInv, TypeOK, Number
<1>4. \A d \in Clients, k \in Number :
         ~(d = c /\ k = n) => phase(d, k)' = phase(d, k)
  <2>1. \A d \in Clients, k \in Number :
           ~(d = c /\ k = n) => (k = sending'[d] <=> k = sending[d])
    BY <1>0, <1>2 DEF IInv, TypeOK, Number
  <2>. QED
    BY <2>1, <1>2 DEF phase
<1>. QED
  BY <1>1, <1>3, <1>4, OneMoves
     DEF Contract!Next, Contract!Return, Number

\* receive() executes one reply function.
LEMMA ProcessMoves ==
  ASSUME IInv, NEW c \in Clients, Process(c)
  PROVE  Contract!Next
<1>. USE ReqRepAssumption
<1>1. PICK r \in FirstReplies(c) :
        IF \E h \in handlers[c] : h.id = r.id
        THEN LET h == CHOOSE h \in handlers[c] : h.id = r.id
             IN  called' = [called EXCEPT ![c][h.fn] = @ + 1]
        ELSE UNCHANGED called
  BY DEF Process
<1>2. UNCHANGED <<handlers, sending, issued>> /\ sending[c] = 0
  BY DEF Process
<1>3. /\ r \in replies /\ r.client = c /\ InFlight(r)
      /\ r.of \in Number /\ r.id = r.of /\ called[c][r.of] = 0
  BY DEF FirstReplies, IInv, TypeOK, Reply, Messages, InFlight
<1>. DEFINE h0 == [id |-> r.id, fn |-> r.of]
<1>4. h0 \in handlers[c] /\ h0.id = r.id /\ h0.fn = r.of
  BY <1>3 DEF InFlight
<1>. HIDE DEF h0
<1>5. called' = [called EXCEPT ![c][r.of] = @ + 1]
  <2>1. (CHOOSE h \in handlers[c] : h.id = r.id).fn = r.of
    BY <1>3, <1>4 DEF IInv, EntriesReturned
  <2>. QED
    BY <1>1, <1>4, <2>1
<1>6. r.of <= issued[c]
  BY <1>3, <1>4 DEF IInv, EntriesReturned, IdCountsCalls
<1>7. phase(c, r.of) = "accepted" /\ phase(c, r.of)' = "answered"
  BY <1>2, <1>3, <1>4, <1>5, <1>6 DEF phase, IInv, TypeOK, Number
<1>8. \A d \in Clients, k \in Number :
         ~(d = c /\ k = r.of) => phase(d, k)' = phase(d, k)
  BY <1>2, <1>3, <1>5 DEF phase, IInv, TypeOK, Number
<1>. QED
  BY <1>3, <1>7, <1>8, OneMoves
     DEF Contract!Next, Contract!Execute, Number

\* A reply function that ends leaves its call answered.
LEMMA CallbackMoves ==
  ASSUME IInv, NEW c \in Clients, CallbackReturn(c) \/ CallbackThrow(c)
  PROVE  UNCHANGED callState
<1>. DEFINE top == stack[c][Len(stack[c])]
<1>1. top \in Number /\ called[c][top] = 1
  BY DEF CallbackReturn, CallbackThrow, IInv, TypeOK, StackRuns
<1>2. /\ UNCHANGED <<issued, sending, called>>
      /\ handlers' \in {handlers,
                        [handlers EXCEPT ![c] = {h \in @ : h.id # top}]}
  BY DEF CallbackReturn, CallbackThrow, history
<1>. HIDE DEF top
<1>3. \A d \in Clients : \A k \in Number : ~(d = c /\ k = top) =>
         ((\E h \in handlers'[d] : h.fn = k) <=> (\E h \in handlers[d] : h.fn = k))
  <2>1. \A d \in Clients : d # c => handlers'[d] = handlers[d]
    BY <1>2 DEF IInv, TypeOK
  <2>2. /\ handlers'[c] \subseteq handlers[c]
        /\ \A h \in handlers[c] \ handlers'[c] : h.id = top
    BY <1>2 DEF IInv, TypeOK
  <2>3. \A h \in handlers[c] : h.id = h.fn
    BY DEF IInv, EntriesReturned
  <2>. QED
    BY <2>1, <2>2, <2>3
<1>4. \A d \in Clients, k \in Number : phase(d, k)' = phase(d, k)
  BY <1>1, <1>2, <1>3 DEF phase
<1>. QED
  BY <1>4, NoneMoves

\* Client and server implement the contract of Client::request.
THEOREM Refinement == Spec => ImplementsContract
<1>1. Init => Contract!Init
  <2>1. ASSUME Init PROVE \A c \in Clients, n \in Number : phase(c, n) = "new"
    BY <2>1 DEF Init, phase, Number
  <2>. QED
    BY <2>1 DEF Contract!Init, callState, Number
<1>2. IInv /\ [Next]_vars => [Contract!Next]_callState
  <2> SUFFICES ASSUME IInv, [Next]_vars PROVE [Contract!Next]_callState
    OBVIOUS
  <2>1. ASSUME UNCHANGED <<issued, sending, called, handlers>>
        PROVE  UNCHANGED callState
    BY <2>1, NoneMoves DEF phase
  <2>2. ASSUME NEW c \in Clients, ClientNext(c)
        PROVE  [Contract!Next]_callState
    <3>1. CASE Update(c)
      BY <3>1, <2>1 DEF Update, history
    <3>. QED
      BY <2>2, <3>1, RequestCallMoves, SendMoves, SendErrorMoves, ProcessMoves,
         CallbackMoves DEF ClientNext
  <2>3. ASSUME NEW s \in Servers, ServerNext(s) PROVE UNCHANGED callState
    BY <2>3, <2>1 DEF ServerNext, Serve, Handle, Remove, ServerStop, Withdraw,
       ServerStart, clientVars, history
  <2>4. CASE UNCHANGED vars
    BY <2>4, <2>1 DEF vars, clientVars, history
  <2>. QED
    BY <2>2, <2>3, <2>4 DEF Next
<1>. QED
  BY <1>1, <1>2, Invariance, PTL DEF Spec, ImplementsContract, Contract!Spec
=============================================================================
