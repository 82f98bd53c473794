---------------------------- MODULE BrokerProofs ----------------------------
(***************************************************************************)
(* Proofs about Broker for any number of callers, brokers, ports and calls: *)
(* a request is in one place at a time, so that each call is counted once   *)
(* between the caller, the broker's socket and addConnection.               *)
(***************************************************************************)
EXTENDS Broker, TLAPS

\* A caller whose request is in the socket of a broker, waiting or unanswered,
\* is waiting for that broker.
Waits ==
    /\ \A b \in Brokers : \A i \in DOMAIN inbox[b] : call[inbox[b][i]] = "received"
    /\ \A b \in Brokers : owes[b] # None => call[owes[b]] = "received"

\* The request of a caller is in one place of one socket.
OnePlace ==
    /\ \A b, d \in Brokers : \A i \in DOMAIN inbox[b], j \in DOMAIN inbox[d] :
          inbox[b][i] = inbox[d][j] => b = d /\ i = j
    /\ \A b, d \in Brokers :
          owes[b] # None =>
             /\ b # d => owes[b] # owes[d]
             /\ \A j \in DOMAIN inbox[d] : inbox[d][j] # owes[b]

\* A call whose request has not been read yet has led to no addConnection, and
\* each call is counted once.
Counted ==
    \A c \in Callers :
        /\ asked[c] <= calls[c] /\ yes[c] <= asked[c]
        /\ call[c] \in {"sent", "received"} => asked[c] < calls[c]
        /\ call[c] = "answered" => yes[c] < asked[c]
        /\ \A b \in Brokers : table[b][c] <= asked[c]

BrokerInv == TypeOK /\ Waits /\ OnePlace /\ Counted

-----------------------------------------------------------------------------
\* No call is under way at the start.
LEMMA BrokerInit == Init => BrokerInv
<1> SUFFICES ASSUME Init PROVE BrokerInv
    OBVIOUS
<1> USE BrokerAssumption
<1>1. TypeOK
    BY DEF Init, TypeOK
<1>2. \A b \in Brokers : owes[b] = None /\ DOMAIN inbox[b] = {}
    <2>1. \A s : s = <<>> => DOMAIN s = {}
        OBVIOUS
    <2>2. \A b \in Brokers : owes[b] = None /\ inbox[b] = <<>>
        BY DEF Init
    <2> QED
        BY <2>1, <2>2, Zenon
<1>4. Waits /\ OnePlace
    BY <1>2 DEF Waits, OnePlace
<1>3. Counted
    <2> SUFFICES ASSUME NEW c \in Callers
                 PROVE  /\ asked[c] <= calls[c] /\ yes[c] <= asked[c]
                        /\ call[c] \in {"sent", "received"} => asked[c] < calls[c]
                        /\ call[c] = "answered" => yes[c] < asked[c]
                        /\ \A b \in Brokers : table[b][c] <= asked[c]
        BY DEF Counted
    <2>1. asked[c] = 0 /\ calls[c] = 0 /\ yes[c] = 0 /\ call[c] = "idle"
        BY DEF Init
    <2>2. \A b \in Brokers : table[b][c] = 0
        BY DEF Init
    <2> QED
        BY <2>1, <2>2
<1> QED
    BY <1>1, <1>3, <1>4 DEF BrokerInv

\* A new broker has an empty socket.
LEMMA CreateStep ==
    ASSUME BrokerInv, NEW b \in Brokers, CreateNamed(b) \/ \E p \in Ports : CreateAt(b, p)
    PROVE  BrokerInv'
<1>1. /\ UNCHANGED <<inbox, owes, table, asked, call, callerVars>>
      /\ created[b] < MaxCreated /\ created' = [created EXCEPT ![b] = @ + 1]
      /\ \E p \in Ports : port' = [port EXCEPT ![b] = p]
    BY BrokerAssumption DEF CreateNamed, CreateAt, Listen
<1>2. TypeOK'
    BY <1>1, BrokerAssumption DEF BrokerInv, TypeOK, callerVars
<1>3. Waits' /\ OnePlace' /\ Counted'
    BY <1>1 DEF BrokerInv, Waits, OnePlace, Counted, callerVars
<1> QED
    BY <1>2, <1>3 DEF BrokerInv

\* With a broker go the requests in its socket, and none of another one.
LEMMA DestroyStep ==
    ASSUME BrokerInv, NEW b \in Brokers, Destroy(b)
    PROVE  BrokerInv'
<1> USE BrokerAssumption
<1> DEFINE Lost(c) == c = owes[b] \/ \E i \in DOMAIN inbox[b] : inbox[b][i] = c
<1>1. /\ inbox' = [inbox EXCEPT ![b] = <<>>]
      /\ owes' = [owes EXCEPT ![b] = None]
      /\ call' = [c \in Callers |-> IF Lost(c) THEN "dropped" ELSE call[c]]
      /\ port' = [port EXCEPT ![b] = NoPort]
      /\ UNCHANGED <<created, table, asked, callerVars>>
    BY DEF Destroy
<1>2. TypeOK'
    BY <1>1 DEF BrokerInv, TypeOK, callerVars
<1>3. \A d \in Brokers : d # b => inbox'[d] = inbox[d] /\ owes'[d] = owes[d]
    BY <1>1 DEF BrokerInv, TypeOK
<1>4. inbox'[b] = <<>> /\ owes'[b] = None
    BY <1>1 DEF BrokerInv, TypeOK
<1>5. \A d \in Brokers : d # b =>
         /\ \A i \in DOMAIN inbox[d] : inbox[d][i] \in Callers /\ ~Lost(inbox[d][i])
         /\ owes[d] # None => owes[d] \in Callers /\ ~Lost(owes[d])
    <2> SUFFICES ASSUME NEW d \in Brokers, d # b
                 PROVE  /\ \A i \in DOMAIN inbox[d] :
                              inbox[d][i] \in Callers /\ ~Lost(inbox[d][i])
                        /\ owes[d] # None => owes[d] \in Callers /\ ~Lost(owes[d])
        OBVIOUS
    <2>1. inbox[d] \in Seq(Callers) /\ owes[b] \in Callers \cup {None}
          /\ owes[d] \in Callers \cup {None}
        BY DEF BrokerInv, TypeOK
    <2>2. ASSUME NEW i \in DOMAIN inbox[d] PROVE ~Lost(inbox[d][i])
        <3>1. inbox[d][i] # owes[b]
            BY <2>1, <2>2 DEF BrokerInv, OnePlace
        <3>2. \A j \in DOMAIN inbox[b] : inbox[b][j] # inbox[d][i]
            BY <2>2 DEF BrokerInv, OnePlace
        <3> QED
            BY <3>1, <3>2
    <2>3. ASSUME owes[d] # None PROVE ~Lost(owes[d])
        BY <2>3 DEF BrokerInv, OnePlace
    <2> QED
        BY <2>1, <2>2, <2>3
<1>6. \A c \in Callers : ~Lost(c) => call'[c] = call[c]
    BY <1>1
<1>7. Waits'
    <2> HIDE DEF Lost
    <2> QED
        BY <1>3, <1>4, <1>5, <1>6 DEF BrokerInv, Waits
<1>8. OnePlace'
    BY <1>3, <1>4 DEF BrokerInv, OnePlace
<1>9. Counted'
    <2> SUFFICES ASSUME NEW c \in Callers
                 PROVE  /\ asked[c] <= calls[c] /\ yes[c] <= asked[c]
                        /\ call'[c] \in {"sent", "received"} => asked[c] < calls[c]
                        /\ call'[c] = "answered" => yes[c] < asked[c]
                        /\ \A d \in Brokers : table[d][c] <= asked[c]
        BY <1>1 DEF Counted, callerVars
    <2>1. call'[c] = call[c] \/ call'[c] = "dropped"
        BY <1>1
    <2>2. asked[c] \in Nat /\ calls[c] \in Nat /\ yes[c] \in Nat
        BY DEF BrokerInv, TypeOK
    <2> QED
        BY <2>1, <2>2 DEF BrokerInv, Counted
<1> QED
    BY <1>2, <1>7, <1>8, <1>9 DEF BrokerInv

\* Reading a request moves it from the socket to addConnection, or leaves it
\* unanswered when that throws.
LEMMA ProcessStep ==
    ASSUME BrokerInv, NEW b \in Brokers, Process(b)
    PROVE  BrokerInv'
<1> USE BrokerAssumption
<1>1. PICK c : c = Head(inbox[b])
    OBVIOUS
<1>2. /\ inbox[b] \in Seq(Callers) /\ inbox[b] # <<>> /\ owes[b] = None
      /\ inbox' = [inbox EXCEPT ![b] = Tail(@)]
      /\ UNCHANGED <<port, created, target, calls, yes>>
    BY DEF Process, Readable, BrokerInv, TypeOK, callerVars
<1>3. /\ c \in Callers /\ 1 \in DOMAIN inbox[b] /\ inbox[b][1] = c
      /\ inbox'[b] \in Seq(Callers)
      /\ \A j \in DOMAIN inbox'[b] :
            j + 1 \in DOMAIN inbox[b] /\ j + 1 # 1 /\ inbox'[b][j] = inbox[b][j + 1]
    <2>1. inbox'[b] = Tail(inbox[b])
        BY <1>2 DEF BrokerInv, TypeOK
    <2>2. /\ Tail(inbox[b]) \in Seq(Callers)
          /\ DOMAIN Tail(inbox[b]) = 1 .. Len(inbox[b]) - 1
          /\ DOMAIN inbox[b] = 1 .. Len(inbox[b]) /\ Len(inbox[b]) \in Nat \ {0}
          /\ \A j \in 1 .. Len(inbox[b]) - 1 : Tail(inbox[b])[j] = inbox[b][j + 1]
        BY <1>2
    <2>3. c \in Callers /\ inbox[b][1] = c
        BY <1>1, <1>2
    <2> QED
        BY <2>1, <2>2, <2>3
<1>4. \A d \in Brokers : d # b => inbox'[d] = inbox[d]
    BY <1>2 DEF BrokerInv, TypeOK
<1>5. \A d \in Brokers : \A j \in DOMAIN inbox'[d] :
         /\ inbox'[d][j] # c
         /\ \E i \in DOMAIN inbox[d] : inbox'[d][j] = inbox[d][i]
    BY <1>3, <1>4 DEF BrokerInv, OnePlace
<1>6. \A d \in Brokers : owes[d] # c
    BY <1>3 DEF BrokerInv, OnePlace
<1>7. call[c] = "received" /\ asked[c] < calls[c] /\ yes[c] <= asked[c]
    <2>1. call[c] = "received"
        BY <1>3 DEF BrokerInv, Waits
    <2>2. asked[c] \in Nat /\ calls[c] \in Nat /\ yes[c] \in Nat
        BY <1>3 DEF BrokerInv, TypeOK
    <2> QED
        BY <1>3, <2>1, <2>2 DEF BrokerInv, Counted
<1>8. \A d, e \in Brokers : \A i \in DOMAIN inbox'[d], j \in DOMAIN inbox'[e] :
         inbox'[d][i] = inbox'[e][j] => d = e /\ i = j
    <2> SUFFICES ASSUME NEW d \in Brokers, NEW e \in Brokers,
                        NEW i \in DOMAIN inbox'[d], NEW j \in DOMAIN inbox'[e],
                        inbox'[d][i] = inbox'[e][j]
                 PROVE  d = e /\ i = j
        OBVIOUS
    <2>1. CASE d = b /\ e = b
        <3>1. i + 1 = j + 1
            BY <1>3, <2>1 DEF BrokerInv, OnePlace
        <3>2. i \in Nat /\ j \in Nat
            BY <1>3, <2>1
        <3> QED
            BY <2>1, <3>1, <3>2
    <2>2. CASE d = b /\ e # b
        BY <1>3, <1>4, <2>2 DEF BrokerInv, OnePlace
    <2>3. CASE d # b /\ e = b
        BY <1>3, <1>4, <2>3 DEF BrokerInv, OnePlace
    <2>4. CASE d # b /\ e # b
        BY <1>4, <2>4 DEF BrokerInv, OnePlace
    <2> QED
        BY <2>1, <2>2, <2>3, <2>4
<1>9. CASE /\ AddConnection(b, c)
           /\ call' = [call EXCEPT ![c] = "answered"]
           /\ UNCHANGED owes
    <2>1. /\ asked' = [asked EXCEPT ![c] = @ + 1]
          /\ table' = table \/ table' = [table EXCEPT ![b][c] = @ + 1]
        BY <1>9 DEF AddConnection
    <2>7. table \in [Brokers -> [Callers -> Nat]]
        BY DEF BrokerInv, TypeOK
    <2>8. /\ table' \in [Brokers -> [Callers -> Nat]]
          /\ \A d \in Brokers, x \in Callers :
                \/ table'[d][x] = table[d][x]
                \/ x = c /\ table'[d][x] = table[d][x] + 1
        <3>1. CASE table' = table
            BY <2>7, <3>1
        <3>2. CASE table' = [table EXCEPT ![b][c] = @ + 1]
            BY <1>3, <2>7, <3>2
        <3> QED
            BY <2>1, <3>1, <3>2
    <2>2. TypeOK'
        <3>1. asked' \in [Callers -> Nat]
            BY <1>3, <2>1 DEF BrokerInv, TypeOK
        <3>3. call' \in [Callers -> {"idle", "sent", "received", "dropped", "answered"}]
            BY <1>3, <1>9 DEF BrokerInv, TypeOK
        <3>2. inbox' \in [Brokers -> Seq(Callers)]
            BY <1>2, <1>3 DEF BrokerInv, TypeOK
        <3> QED
            BY <1>2, <1>9, <2>8, <3>1, <3>2, <3>3 DEF BrokerInv, TypeOK
    <2>3. \A d \in Callers : d # c => call'[d] = call[d]
        BY <1>9 DEF BrokerInv, TypeOK
    <2>4. Waits'
        <3>1. \A d \in Brokers : \A i \in DOMAIN inbox[d] : inbox[d][i] \in Callers
            BY DEF BrokerInv, TypeOK
        <3>2. \A d \in Brokers : owes[d] # None => owes[d] \in Callers
            BY DEF BrokerInv, TypeOK
        <3>3. \A d \in Brokers : \A j \in DOMAIN inbox'[d] : call'[inbox'[d][j]] = "received"
            BY <1>5, <2>3, <3>1 DEF BrokerInv, Waits
        <3>4. \A d \in Brokers : owes'[d] # None => call'[owes'[d]] = "received"
            BY <1>6, <1>9, <2>3, <3>2 DEF BrokerInv, Waits
        <3> QED
            BY <3>3, <3>4 DEF Waits
    <2>5. OnePlace'
        BY <1>5, <1>8, <1>9 DEF BrokerInv, OnePlace
    <2>6. Counted'
        <3> SUFFICES ASSUME NEW x \in Callers
                     PROVE  /\ asked'[x] <= calls[x] /\ yes[x] <= asked'[x]
                            /\ call'[x] \in {"sent", "received"} => asked'[x] < calls[x]
                            /\ call'[x] = "answered" => yes[x] < asked'[x]
                            /\ \A d \in Brokers : table'[d][x] <= asked'[x]
            BY <1>2 DEF Counted
        <3>1. asked[x] \in Nat /\ calls[x] \in Nat /\ yes[x] \in Nat
            BY DEF BrokerInv, TypeOK
        <3>2. \A d \in Brokers : table[d][x] \in Nat /\ table[d][x] <= asked[x]
            BY DEF BrokerInv, TypeOK, Counted
        <3>3. CASE x = c
            <4>1. asked'[x] = asked[x] + 1 /\ call'[x] = "answered"
                BY <1>9, <2>1, <3>3 DEF BrokerInv, TypeOK
            <4>2. \A d \in Brokers : table'[d][x] \in {table[d][x], table[d][x] + 1}
                BY <2>8
            <4>3. \A d \in Brokers : table'[d][x] <= asked[x] + 1
                BY <3>1, <3>2, <4>2
            <4> QED
                BY <1>7, <3>1, <3>3, <4>1, <4>3
        <3>4. CASE x # c
            <4>1. asked'[x] = asked[x] /\ call'[x] = call[x]
                BY <1>9, <2>1, <3>4 DEF BrokerInv, TypeOK
            <4>2. \A d \in Brokers : table'[d][x] = table[d][x]
                BY <2>8, <3>4
            <4> QED
                BY <3>1, <3>2, <4>1, <4>2 DEF BrokerInv, Counted
        <3> QED
            BY <3>3, <3>4
    <2> QED
        BY <2>2, <2>4, <2>5, <2>6 DEF BrokerInv
<1>10. CASE owes' = [owes EXCEPT ![b] = c] /\ UNCHANGED <<table, asked, call>>
    <2>1. owes'[b] = c /\ \A d \in Brokers : d # b => owes'[d] = owes[d]
        BY <1>10 DEF BrokerInv, TypeOK
    <2>2. TypeOK'
        BY <1>2, <1>3, <1>10 DEF BrokerInv, TypeOK
    <2>3. Waits'
        BY <1>5, <1>7, <1>10, <2>1 DEF BrokerInv, Waits
    <2>4. OnePlace'
        <3>1. ASSUME NEW d \in Brokers, NEW e \in Brokers, owes'[d] # None
              PROVE  /\ d # e => owes'[d] # owes'[e]
                     /\ \A j \in DOMAIN inbox'[e] : inbox'[e][j] # owes'[d]
            BY <1>5, <1>6, <2>1, <3>1 DEF BrokerInv, OnePlace
        <3> QED
            BY <1>8, <3>1 DEF OnePlace
    <2>5. Counted'
        BY <1>2, <1>10 DEF BrokerInv, Counted
    <2> QED
        BY <2>2, <2>3, <2>4, <2>5 DEF BrokerInv
<1> QED
    BY <1>1, <1>9, <1>10 DEF Process

\* A call that starts has not been counted anywhere.
LEMMA SubscribeStep ==
    ASSUME BrokerInv, NEW c \in Callers, Subscribe(c)
    PROVE  BrokerInv'
<1> USE BrokerAssumption
<1>1. /\ call[c] = "idle" /\ calls[c] < MaxCalls
      /\ calls' = [calls EXCEPT ![c] = @ + 1]
      /\ UNCHANGED <<brokerVars, inbox, yes>>
    BY DEF Subscribe
<1>2. /\ call' \in [Callers -> {"idle", "sent", "received", "dropped", "answered"}]
      /\ target' \in [Callers -> Ports]
      /\ call'[c] \in {"idle", "sent"}
      /\ \A d \in Callers : d # c => call'[d] = call[d]
    <2>1. CASE UNCHANGED <<call, target>>
        BY <1>1, <2>1 DEF BrokerInv, TypeOK
    <2>2. ASSUME NEW p \in Ports, target' = [target EXCEPT ![c] = p],
                 call' = [call EXCEPT ![c] = "sent"]
          PROVE  <1>2!:
        BY <2>2 DEF BrokerInv, TypeOK
    <2> QED
        BY <2>1, <2>2 DEF Subscribe
<1>3. TypeOK'
    <2>1. calls' \in [Callers -> 0 .. MaxCalls]
        BY <1>1 DEF BrokerInv, TypeOK
    <2> QED
        BY <1>1, <1>2, <2>1 DEF BrokerInv, TypeOK, brokerVars
<1>4. Waits'
    <2>1. \A d \in Brokers : \A i \in DOMAIN inbox[d] :
             inbox[d][i] \in Callers /\ call[inbox[d][i]] = "received"
        BY DEF BrokerInv, TypeOK, Waits
    <2>2. \A d \in Brokers : owes[d] # None =>
             owes[d] \in Callers /\ call[owes[d]] = "received"
        BY DEF BrokerInv, TypeOK, Waits
    <2>3. UNCHANGED <<inbox, owes>>
        BY <1>1 DEF brokerVars
    <2> QED
        BY <1>1, <1>2, <2>1, <2>2, <2>3 DEF Waits
<1>5. OnePlace'
    BY <1>1 DEF BrokerInv, OnePlace, brokerVars
<1>6. Counted'
    <2> SUFFICES ASSUME NEW x \in Callers
                 PROVE  /\ asked[x] <= calls'[x] /\ yes[x] <= asked[x]
                        /\ call'[x] \in {"sent", "received"} => asked[x] < calls'[x]
                        /\ call'[x] = "answered" => yes[x] < asked[x]
                        /\ \A d \in Brokers : table[d][x] <= asked[x]
        BY <1>1 DEF Counted, brokerVars
    <2>1. asked[x] \in Nat /\ calls[x] \in Nat /\ yes[x] \in Nat
        BY DEF BrokerInv, TypeOK
    <2>2. x = c => calls'[x] = calls[x] + 1
        BY <1>1 DEF BrokerInv, TypeOK
    <2>3. x # c => calls'[x] = calls[x] /\ call'[x] = call[x]
        BY <1>1, <1>2 DEF BrokerInv, TypeOK
    <2> QED
        BY <1>1, <1>2, <2>1, <2>2, <2>3 DEF BrokerInv, Counted
<1> QED
    BY <1>3, <1>4, <1>5, <1>6 DEF BrokerInv

\* A request that is transmitted was in no socket before.
LEMMA TransmitStep ==
    ASSUME BrokerInv, NEW c \in Callers, NEW b \in Brokers, Transmit(c, b)
    PROVE  BrokerInv'
<1> USE BrokerAssumption
<1>1. /\ call[c] = "sent"
      /\ inbox' = [inbox EXCEPT ![b] = Append(@, c)]
      /\ call' = [call EXCEPT ![c] = "received"]
      /\ UNCHANGED <<brokerVars, callerVars>>
    BY DEF Transmit
<1>2. /\ call'[c] = "received"
      /\ \A d \in Callers : d # c => call'[d] = call[d]
    BY <1>1 DEF BrokerInv, TypeOK
<1>3. /\ \A d \in Brokers : d # b => inbox'[d] = inbox[d]
      /\ inbox'[b] = Append(inbox[b], c)
      /\ inbox[b] \in Seq(Callers)
    BY <1>1 DEF BrokerInv, TypeOK
<1>4. /\ inbox'[b] \in Seq(Callers)
      /\ DOMAIN inbox[b] = 1 .. Len(inbox[b]) /\ Len(inbox[b]) \in Nat
      /\ DOMAIN inbox'[b] = 1 .. Len(inbox[b]) + 1
      /\ \A i \in DOMAIN inbox[b] : inbox'[b][i] = inbox[b][i]
      /\ inbox'[b][Len(inbox[b]) + 1] = c
    BY <1>3
<1>5. \A d \in Brokers : \A i \in DOMAIN inbox'[d] :
         \/ i \in DOMAIN inbox[d] /\ inbox'[d][i] = inbox[d][i]
         \/ d = b /\ i = Len(inbox[b]) + 1 /\ inbox'[d][i] = c
    BY <1>3, <1>4
<1>6. \A d \in Brokers :
         /\ owes[d] # c
         /\ \A i \in DOMAIN inbox[d] : inbox[d][i] \in Callers /\ inbox[d][i] # c
    <2>1. \A d \in Brokers : \A i \in DOMAIN inbox[d] :
             inbox[d][i] \in Callers /\ call[inbox[d][i]] = "received"
        BY DEF BrokerInv, TypeOK, Waits
    <2>2. \A d \in Brokers : owes[d] # None => call[owes[d]] = "received"
        BY DEF BrokerInv, Waits
    <2> QED
        BY <1>1, <2>1, <2>2
<1>7. TypeOK'
    <2>1. call' \in [Callers -> {"idle", "sent", "received", "dropped", "answered"}]
        BY <1>1 DEF BrokerInv, TypeOK
    <2>2. inbox' \in [Brokers -> Seq(Callers)]
        BY <1>1, <1>4 DEF BrokerInv, TypeOK
    <2> QED
        BY <1>1, <2>1, <2>2 DEF BrokerInv, TypeOK, brokerVars, callerVars
<1>8. Waits'
    <2>1. \A d \in Brokers : \A i \in DOMAIN inbox'[d] : call'[inbox'[d][i]] = "received"
        BY <1>2, <1>5, <1>6 DEF BrokerInv, Waits
    <2>2. \A d \in Brokers : owes'[d] # None => call'[owes'[d]] = "received"
        <3>1. \A d \in Brokers : owes[d] # None => owes[d] \in Callers
            BY DEF BrokerInv, TypeOK
        <3> QED
            BY <1>1, <1>2, <1>6, <3>1 DEF BrokerInv, Waits, brokerVars
    <2> QED
        BY <2>1, <2>2 DEF Waits
<1>9. OnePlace'
    <2>1. \A d, e \in Brokers : \A i \in DOMAIN inbox'[d], j \in DOMAIN inbox'[e] :
             inbox'[d][i] = inbox'[e][j] => d = e /\ i = j
        BY <1>5, <1>6 DEF BrokerInv, OnePlace
    <2>2. \A d, e \in Brokers :
             owes[d] # None =>
                /\ d # e => owes[d] # owes[e]
                /\ \A j \in DOMAIN inbox'[e] : inbox'[e][j] # owes[d]
        BY <1>5, <1>6 DEF BrokerInv, OnePlace
    <2> QED
        BY <1>1, <2>1, <2>2 DEF OnePlace, brokerVars
<1>10. Counted'
    <2> SUFFICES ASSUME NEW x \in Callers
                 PROVE  /\ asked[x] <= calls[x] /\ yes[x] <= asked[x]
                        /\ call'[x] \in {"sent", "received"} => asked[x] < calls[x]
                        /\ call'[x] = "answered" => yes[x] < asked[x]
                        /\ \A d \in Brokers : table[d][x] <= asked[x]
        BY <1>1 DEF Counted, brokerVars, callerVars
    <2>1. CASE x = c
        BY <1>1, <1>2, <2>1 DEF BrokerInv, Counted
    <2>2. CASE x # c
        BY <1>2, <2>2 DEF BrokerInv, Counted
    <2> QED
        BY <2>1, <2>2
<1> QED
    BY <1>7, <1>8, <1>9, <1>10 DEF BrokerInv

\* A call that returns was confirmed before.
LEMMA ReturnStep ==
    ASSUME BrokerInv, NEW c \in Callers, Return(c)
    PROVE  BrokerInv'
<1> USE BrokerAssumption
<1>1. /\ call[c] = "answered"
      /\ call' = [call EXCEPT ![c] = "idle"]
      /\ yes' = [yes EXCEPT ![c] = @ + 1]
      /\ UNCHANGED <<brokerVars, inbox, target, calls>>
    BY DEF Return
<1>2. /\ call'[c] = "idle" /\ yes'[c] = yes[c] + 1
      /\ \A d \in Callers : d # c => call'[d] = call[d] /\ yes'[d] = yes[d]
    BY <1>1 DEF BrokerInv, TypeOK
<1>3. \A x \in Callers :
         /\ asked[x] \in Nat /\ calls[x] \in 0 .. MaxCalls /\ yes[x] \in Nat
         /\ yes'[x] <= asked[x] /\ asked[x] <= calls[x]
    <2> SUFFICES ASSUME NEW x \in Callers
                 PROVE  /\ asked[x] \in Nat /\ calls[x] \in 0 .. MaxCalls /\ yes[x] \in Nat
                        /\ yes'[x] <= asked[x] /\ asked[x] <= calls[x]
        OBVIOUS
    <2>1. asked[x] \in Nat /\ calls[x] \in 0 .. MaxCalls /\ yes[x] \in Nat
        BY DEF BrokerInv, TypeOK
    <2>2. asked[x] <= calls[x]
        BY <2>1 DEF BrokerInv, Counted
    <2>3. yes'[x] <= asked[x]
        BY <1>1, <1>2, <2>1 DEF BrokerInv, Counted
    <2> QED
        BY <2>1, <2>2, <2>3
<1>4. TypeOK'
    <2>1. call' \in [Callers -> {"idle", "sent", "received", "dropped", "answered"}]
        BY <1>1 DEF BrokerInv, TypeOK
    <2>2. yes'[c] \in 0 .. MaxCalls
        BY <1>2, <1>3
    <2>3. yes' \in [Callers -> 0 .. MaxCalls]
        BY <1>1, <1>2, <2>2 DEF BrokerInv, TypeOK
    <2> QED
        BY <1>1, <2>1, <2>3 DEF BrokerInv, TypeOK, brokerVars
<1>5. Waits'
    BY <1>1, <1>2 DEF BrokerInv, TypeOK, Waits, brokerVars
<1>6. OnePlace'
    BY <1>1 DEF BrokerInv, OnePlace, brokerVars
<1>7. Counted'
    <2> SUFFICES ASSUME NEW x \in Callers
                 PROVE  /\ asked[x] <= calls[x] /\ yes'[x] <= asked[x]
                        /\ call'[x] \in {"sent", "received"} => asked[x] < calls[x]
                        /\ call'[x] = "answered" => yes'[x] < asked[x]
                        /\ \A d \in Brokers : table[d][x] <= asked[x]
        BY <1>1 DEF Counted, brokerVars
    <2>1. CASE x = c
        BY <1>1, <1>2, <1>3, <2>1 DEF BrokerInv, Counted
    <2>2. CASE x # c
        BY <1>2, <2>2 DEF BrokerInv, Counted
    <2> QED
        BY <2>1, <2>2
<1> QED
    BY <1>4, <1>5, <1>6, <1>7 DEF BrokerInv

\* Every step keeps a request in one place.
LEMMA BrokerStep == BrokerInv /\ [Next]_vars => BrokerInv'
<1> SUFFICES ASSUME BrokerInv, [Next]_vars PROVE BrokerInv'
    OBVIOUS
<1>1. CASE UNCHANGED vars
    BY <1>1 DEF BrokerInv, TypeOK, Waits, OnePlace, Counted, vars, brokerVars,
                callerVars
<1>2. CASE Next
    BY <1>2, CreateStep, DestroyStep, ProcessStep, SubscribeStep, TransmitStep, ReturnStep
    DEF Next
<1> QED
    BY <1>1, <1>2

\* Service::subscribe returns true only for calls that have made a receiver call
\* addConnection, and each call has made at most one do so, with any number of
\* brokers that throw, are destroyed and created again, on shared ports.
THEOREM CallsCounted == Spec => []CallInv
<1>1. BrokerInv => CallInv
    <2> SUFFICES ASSUME BrokerInv PROVE CallInv
        OBVIOUS
    <2>1. \A c \in Callers : asked[c] \in Nat /\ yes[c] \in Nat
        BY BrokerAssumption DEF BrokerInv, TypeOK
    <2>2. ConfirmedMeansAsked
        <3> SUFFICES ASSUME NEW c \in Callers
                     PROVE  yes[c] + (IF call[c] = "answered" THEN 1 ELSE 0) <= asked[c]
            BY DEF ConfirmedMeansAsked, Confirmed
        <3>1. yes[c] <= asked[c] /\ (call[c] = "answered" => yes[c] < asked[c])
            BY DEF BrokerInv, Counted
        <3> QED
            BY <2>1, <3>1
    <2>3. AskedOncePerCall
        BY DEF BrokerInv, Counted, AskedOncePerCall
    <2> QED
        BY <2>2, <2>3 DEF BrokerInv, CallInv
<1> QED
    BY <1>1, BrokerInit, BrokerStep, PTL DEF Spec
=============================================================================
