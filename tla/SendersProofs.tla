---------------------------- MODULE SendersProofs ----------------------------
(***************************************************************************)
(* Proofs about Senders for any publishers, servers, monitors, peers and    *)
(* addresses: the one context and who waits for it, the address that is     *)
(* announced, and the count of notifications.                               *)
(***************************************************************************)
EXTENDS Senders, FiniteSetTheorems, FunctionTheorems, TLAPS

\* A reference is one to the context of the weak pointer, and the objects with a
\* socket of their own hold one.
Shared ==
    /\ \A o \in Objects : context[o] \in {0, weak}
    /\ \A s \in AllSenders :
          life[s] = "live" => weak > 0 /\ context[s] = weak /\ made[s] = weak
    /\ \A m \in Monitors :
          life[m] = "live" /\ target[m] \in Servers =>
             weak > 0 /\ context[m] = weak /\ made[m] = weak

\* A monitor exists with its target, which has no other; one of a publisher keeps
\* the socket of the publisher it was made for and has made it verbose.
Attached ==
    /\ \A m \in Monitors : life[m] = "live" <=> target[m] # None
    /\ \A m, n \in Monitors : target[m] # None /\ target[m] = target[n] => m = n
    /\ \A m \in Monitors : target[m] \in Publishers =>
          /\ verbose[target[m]]
          /\ life[target[m]] = "live" => made[m] = made[target[m]]

\* Only senders that exist are announced.
AnnouncedLive == \A s \in AllSenders : announced[s] # None => life[s] = "live"

SendersInv ==
    /\ TypeOK /\ Shared /\ Attached /\ AnnouncedLive
    /\ AnnouncedReachable /\ EveryConnectionNotified

-----------------------------------------------------------------------------
(* Addresses *)

\* The constructors of URI make one with a scheme, whatever they are given.
LEMMA UriOfType == ASSUME NEW a \in Arguments PROVE UriOf(a) \in URIs
<1>1. a.via \in {"nothing", "string", "servus"} /\ a.text \in Addresses
    BY SendersAssumption
<1>2. DefaultURI \in URIs
    BY LiteralsAssumption DEF DefaultURI, URIs, Addresses, DEFAULT_SCHEMA
<1>3. CreateURI(a.text) \in URIs
    BY <1>1, LiteralsAssumption DEF CreateURI, URIs, Addresses, DEFAULT_SCHEMA
<1>4. FromServus(a.text) \in URIs
    BY <1>1, <1>2 DEF FromServus, URIs
<1>5. CASE a.via = "nothing"
    BY <1>2, <1>5 DEF UriOf
<1>6. CASE a.via = "string"
    BY <1>3, <1>6 DEF UriOf
<1>7. CASE a.via = "servus"
    BY <1>4, <1>7 DEF UriOf
<1> QED
    BY <1>1, <1>5, <1>6, <1>7

\* What can be bound for a URI, in terms of the URI.
LEMMA BindableFacts ==
    ASSUME NEW u \in URIs, NEW e \in Bindable(BuildZmqURI(u))
    PROVE  /\ e \in SocketAddresses
           /\ u.scheme = DEFAULT_SCHEMA =>
                 /\ e.host = IF u.host \in {"", "*"} THEN "0.0.0.0" ELSE u.host
                 /\ e.port # 0 /\ u.port # 0 => e.port = u.port
                 /\ e.port # 0
                 /\ ~InUse(e.host, e.port)
<1>1. /\ u \in Addresses /\ u.scheme \in STRING /\ u.host \in STRING /\ u.port \in Nat
    BY DEF URIs, Addresses
<1>2. CASE u.scheme # DEFAULT_SCHEMA
    <2>1. BuildZmqURI(u) = u
        BY <1>2 DEF BuildZmqURI
    <2>2. e.port = 0 /\ e = [host |-> e.host, port |-> 0]
          /\ e.host \in {"0.0.0.0", u.host}
        BY <1>2, <2>1 DEF Bindable
    <2> QED
        <3>1. e.host \in STRING
            BY <1>1, <2>2, LiteralsAssumption
        <3>2. e \in SocketAddresses
            BY <2>2, <3>1 DEF SocketAddresses
        <3> QED
            BY <1>2, <3>2
<1>3. CASE u.scheme = DEFAULT_SCHEMA
    <2> DEFINE z == BuildZmqURI(u)
               host == IF z.host = "*" THEN "0.0.0.0" ELSE z.host
               ports == IF z.port = AnyPort THEN Ports ELSE {z.port}
    <2>1. /\ z.scheme = DEFAULT_SCHEMA
          /\ z.host = (IF u.host = "" THEN "*" ELSE u.host)
          /\ z.port = IF u.port = 0 THEN -1 ELSE u.port
        BY <1>3 DEF BuildZmqURI, AnyPort
    <2>2. host \in STRING /\ host = IF u.host \in {"", "*"} THEN "0.0.0.0" ELSE u.host
        BY <1>1, <2>1, LiteralsAssumption
    <2>3. \A p \in ports : p \in Nat \ {0} /\ (u.port # 0 => p = u.port)
        <3>1. CASE u.port = 0
            <4>1. z.port = AnyPort
                BY <2>1, <3>1 DEF AnyPort
            <4>2. Ports \subseteq Nat \ {0}
                BY SendersAssumption
            <4> QED
                BY <3>1, <4>1, <4>2
        <3>2. CASE u.port # 0
            <4>1. z.port = u.port /\ u.port \in Nat
                BY <1>1, <2>1, <3>2
            <4>2. u.port # -1
                BY <4>1
            <4>3. ports = {u.port}
                BY <4>1, <4>2 DEF AnyPort
            <4> QED
                BY <3>2, <4>1, <4>3
        <3> QED
            BY <3>1, <3>2
    <2>4. PICK p \in ports : ~InUse(host, p) /\ e = [host |-> host, port |-> p]
        BY <1>3, <2>1 DEF Bindable
    <2> HIDE DEF host, ports, z
    <2>5. e.host = host /\ e.port = p /\ p \in Nat \ {0} /\ (u.port # 0 => p = u.port)
        BY <2>3, <2>4
    <2>6. e \in SocketAddresses
        BY <2>2, <2>4, <2>5 DEF SocketAddresses
    <2> QED
        BY <1>3, <2>2, <2>4, <2>5, <2>6
<1> QED
    BY <1>2, <1>3

\* initURI completes a URI, and does not change the scheme.
LEMMA InitURIFacts ==
    ASSUME NEW u \in URIs, NEW e \in SocketAddresses
    PROVE  /\ InitURI(u, e) \in URIs
           /\ InitURI(u, e).scheme = u.scheme
           /\ u.scheme = DEFAULT_SCHEMA =>
                 /\ InitURI(u, e).port = IF u.port = 0 THEN e.port ELSE u.port
                 /\ InitURI(u, e).host =
                       IF u.host \notin {"", "*"} THEN u.host
                       ELSE IF e.host = "0.0.0.0" THEN Hostname ELSE e.host
<1>1. u \in Addresses /\ u.scheme # ""
    BY DEF URIs
<1>2. e.host \in STRING /\ e.port \in Nat /\ Hostname \in STRING
    BY EndpointsAssumption DEF SocketAddresses
<1>3. CASE u.scheme # DEFAULT_SCHEMA
    BY <1>3 DEF InitURI
<1>4. CASE u.scheme = DEFAULT_SCHEMA
    <2> DEFINE host == IF u.host \notin {"", "*"} THEN u.host
                       ELSE IF e.host = "0.0.0.0" THEN Hostname ELSE e.host
               port == IF u.port = 0 THEN e.port ELSE u.port
    <2>1. InitURI(u, e) = [u EXCEPT !.host = host, !.port = port]
        BY <1>1, <1>4 DEF InitURI, GetEndPoint, Addresses
    <2>2. host \in STRING /\ port \in Nat
        BY <1>1, <1>2 DEF Addresses
    <2> HIDE DEF host, port
    <2>3. /\ InitURI(u, e) \in Addresses
          /\ InitURI(u, e).scheme = u.scheme
          /\ InitURI(u, e).host = host /\ InitURI(u, e).port = port
        BY <1>1, <2>1, <2>2 DEF Addresses
    <2> QED
        BY <1>1, <2>3 DEF URIs, host, port
<1> QED
    BY <1>3, <1>4

\* The announced record is one, and says what initURI has found.
LEMMA RecordFacts ==
    ASSUME NEW s \in AllSenders, NEW u \in URIs, NEW e \in SocketAddresses,
           NEW arg \in STRING
    PROVE  /\ AnnounceRecord(s, u, e, arg) \in Records \cup {None}
           /\ AnnounceRecord(s, u, e, arg) # None =>
                 /\ AnnounceRecord(s, u, e, arg).host = InitURI(u, e).host
                 /\ AnnounceRecord(s, u, e, arg).port = InitURI(u, e).port
<1>1. InitURI(u, e).host \in STRING /\ InitURI(u, e).port \in Nat
    BY InitURIFacts DEF URIs, Addresses
<1>2. Session(s, arg) \in STRING
    <2>1. Env.pub \in STRING /\ Env.old \in STRING /\ Env.rep \in STRING
          /\ UserName \in STRING /\ AppName \in STRING
        BY EndpointsAssumption
    <2> QED
        BY <2>1 DEF Session, PubSession, RepSession, DefaultPubSession, DefaultRepSession
<1>3. \A x, y \in STRING : Service(x, y) \in STRING
    BY DEF Service
<1>4. PUBLISHER_SERVICE \in STRING /\ SERVER_SERVICE \in STRING
    BY LiteralsAssumption
<1>5. CASE arg = NULL_SESSION
    BY <1>5 DEF AnnounceRecord
<1>6. CASE arg # NULL_SESSION
    <2>1. PICK v \in STRING :
             AnnounceRecord(s, u, e, arg) =
                [service |-> v, host |-> InitURI(u, e).host,
                 port |-> InitURI(u, e).port, session |-> Session(s, arg)]
        BY <1>2, <1>3, <1>4, <1>6 DEF AnnounceRecord
    <2> QED
        BY <1>1, <1>2, <2>1 DEF Records
<1> QED
    BY <1>5, <1>6

-----------------------------------------------------------------------------
(* The events a monitor will notify *)

Notified(q) == {i \in DOMAIN q : q[i] \in {"sub", "accepted"}}

\* The count of notifications in a queue is a number, 0 for the empty queue.
LEMMA NotifyingType ==
    ASSUME NEW q \in Seq(Event)
    PROVE  /\ IsFiniteSet(Notified(q)) /\ Notifying(q) = Cardinality(Notified(q))
           /\ Notifying(q) \in Nat
           /\ q = <<>> => Notifying(q) = 0
<1>1. Len(q) \in Nat /\ DOMAIN q = 1 .. Len(q)
    OBVIOUS
<1>2. IsFiniteSet(DOMAIN q)
    BY <1>1, FS_Interval
<1>3. IsFiniteSet(Notified(q)) /\ Cardinality(Notified(q)) \in Nat
    BY <1>2, FS_Subset, FS_CardinalityType DEF Notified
<1>4. q = <<>> => Notified(q) = {}
    BY DEF Notified
<1> QED
    BY <1>3, <1>4, FS_EmptySet DEF Notifying, Notified

\* An event at the end adds one if it is to be notified.
LEMMA NotifyingAppend ==
    ASSUME NEW q \in Seq(Event), NEW e \in Event
    PROVE  Notifying(Append(q, e)) =
              Notifying(q) + (IF e \in {"sub", "accepted"} THEN 1 ELSE 0)
<1> DEFINE a == Append(q, e)
           n == Len(q) + 1
<1>1. /\ a \in Seq(Event) /\ DOMAIN a = 1 .. n /\ DOMAIN q = 1 .. Len(q)
      /\ Len(q) \in Nat /\ a[n] = e /\ \A i \in 1 .. Len(q) : a[i] = q[i]
    OBVIOUS
<1>2. IsFiniteSet(Notified(q)) /\ n \notin Notified(q)
    <2>1. n \notin Notified(q)
        BY <1>1 DEF Notified
    <2> QED
        BY <2>1, NotifyingType
<1>3. CASE e \in {"sub", "accepted"}
    <2>1. Notified(a) = Notified(q) \cup {n}
        <3> HIDE DEF a
        <3> QED
            BY <1>1, <1>3 DEF Notified
    <2>2. Cardinality(Notified(q) \cup {n}) = Cardinality(Notified(q)) + 1
        BY <1>2, FS_AddElement
    <2> QED
        BY <1>1, <1>3, <2>1, <2>2, NotifyingType
<1>4. CASE e \notin {"sub", "accepted"}
    <2>1. Notified(a) = Notified(q)
        <3> HIDE DEF a
        <3> QED
            BY <1>1, <1>4 DEF Notified
    <2>2. Notifying(q) \in Nat /\ Notifying(a) = Notifying(q)
        BY <1>1, <2>1, NotifyingType
    <2> QED
        BY <1>4, <2>2
<1> QED
    BY <1>3, <1>4

\* Reading the first event takes away one if it is notified.
LEMMA NotifyingTail ==
    ASSUME NEW q \in Seq(Event), q # <<>>
    PROVE  Notifying(q) =
              Notifying(Tail(q)) + (IF Head(q) \in {"sub", "accepted"} THEN 1 ELSE 0)
<1> DEFINE t == Tail(q)
           A == Notified(q) \ {1}
           B == Notified(t)
           f == [i \in A |-> i - 1]
<1>1. /\ t \in Seq(Event) /\ DOMAIN t = 1 .. Len(q) - 1 /\ DOMAIN q = 1 .. Len(q)
      /\ Len(q) \in Nat \ {0} /\ q[1] = Head(q)
      /\ \A i \in 1 .. Len(q) - 1 : t[i] = q[i + 1]
    OBVIOUS
<1> HIDE DEF t
<1>2. \A i \in A : i \in 2 .. Len(q) /\ i - 1 \in B
    BY <1>1 DEF Notified
<1>3. \A j \in B : j \in 1 .. Len(q) - 1 /\ j + 1 \in A /\ (j + 1) - 1 = j
    BY <1>1 DEF Notified
<1>4. f \in Bijection(A, B)
    <2>1. f \in [A -> B]
        BY <1>2
    <2>2. \A i, j \in A : f[i] = f[j] => i = j
        BY <1>2
    <2>3. \A j \in B : \E i \in A : f[i] = j
        BY <1>3
    <2> HIDE DEF f, A, B
    <2> QED
        BY <2>1, <2>2, <2>3, Fun_IsBij
<1>5. IsFiniteSet(Notified(q))
    BY NotifyingType
<1>6. /\ IsFiniteSet(A)
      /\ Cardinality(A) = IF 1 \in Notified(q) THEN Cardinality(Notified(q)) - 1
                          ELSE Cardinality(Notified(q))
    BY <1>5, FS_RemoveElement
<1>7. Cardinality(B) = Cardinality(A)
    <2> HIDE DEF f, A, B
    <2>1. ExistsBijection(A, B)
        BY <1>4 DEF ExistsBijection
    <2> QED
        BY <1>6, <2>1, FS_Bijection
<1>8. 1 \in Notified(q) <=> Head(q) \in {"sub", "accepted"}
    BY <1>1 DEF Notified
<1>9. /\ Notifying(q) = Cardinality(Notified(q)) /\ Notifying(q) \in Nat
      /\ Notifying(t) = Cardinality(B) /\ Notifying(t) \in Nat
    BY <1>1, NotifyingType
<1> QED
    BY <1>6, <1>7, <1>8, <1>9 DEF t

-----------------------------------------------------------------------------
(* The parts of the type invariant, and the context *)

ContextTypes ==
    /\ life \in [Objects -> {"none", "live", "waiting"}]
    /\ weak \in Nat
    /\ context \in [Objects -> 0 .. weak] /\ made \in [Objects -> 0 .. weak]

AddressTypes ==
    /\ uri \in [AllSenders -> URIs]
    /\ endpoint \in [AllSenders -> SocketAddresses \cup {None}]
    /\ announced \in [AllSenders -> Records \cup {None}]

MonitorTypes ==
    /\ target \in [Monitors -> AllSenders \cup {None}]
    /\ verbose \in [Publishers -> BOOLEAN]
    /\ notified \in [Monitors -> Nat] /\ due \in [Monitors -> Nat]

QueueTypes ==
    /\ inbox \in [Publishers \cup Monitors -> Seq(Event)]
    /\ connected \in [AllSenders -> SUBSET Peers]
    /\ created \in 0 .. MaxCreated /\ connects \in 0 .. MaxConnects

\* The types in their four parts.
LEMMA TypeParts == TypeOK <=> ContextTypes /\ AddressTypes /\ MonitorTypes /\ QueueTypes
BY DEF TypeOK, ContextTypes, AddressTypes, MonitorTypes, QueueTypes

\* The invariant of the next state in its parts.
LEMMA InvNext ==
    ASSUME ContextTypes', AddressTypes', MonitorTypes', QueueTypes', Shared', Attached',
           AnnouncedLive', AnnouncedReachable', EveryConnectionNotified'
    PROVE  SendersInv'
<1>1. TypeOK'
    BY DEF TypeOK, ContextTypes, AddressTypes, MonitorTypes, QueueTypes
<1> QED
    BY <1>1 DEF SendersInv

\* Publishers, servers and monitors are different objects.
LEMMA Kinds ==
    /\ \A s \in AllSenders : s \in Objects /\ s \notin Monitors /\ s # None
    /\ \A m \in Monitors : m \in Objects /\ m \notin AllSenders
    /\ \A p \in Publishers : p \in AllSenders /\ p \notin Servers
    /\ \A v \in Servers : v \in AllSenders /\ v \notin Publishers
    /\ None \notin Publishers /\ None \notin Servers
<1>1. /\ Publishers \cap Servers = {}
      /\ Monitors \cap (Publishers \cup Servers) = {}
      /\ None \notin Publishers \cup Servers
    BY SendersAssumption
<1> QED
    BY <1>1 DEF Objects, AllSenders

\* getContext gives the context somebody holds, or a new one if nobody does.
LEMMA GetContextFacts ==
    ASSUME ContextTypes, Shared
    PROVE  /\ GetContext \in Nat /\ GetContext > 0 /\ weak <= GetContext
           /\ \/ GetContext = weak
              \/ \A o \in Objects : context[o] = 0
           /\ \A o \in Objects : context[o] \in {0, GetContext}
           /\ \A o \in Objects : context[o] = weak /\ weak > 0 => GetContext = weak
<1>1. weak \in Nat /\ \A o \in Objects : context[o] \in {0, weak}
    BY DEF ContextTypes, Shared
<1>2. CASE \E o \in Objects : context[o] = weak /\ weak > 0
    BY <1>1, <1>2 DEF GetContext
<1>3. CASE ~ \E o \in Objects : context[o] = weak /\ weak > 0
    <2>1. GetContext = weak + 1
        BY <1>3 DEF GetContext
    <2>2. \A o \in Objects : context[o] = 0
        BY <1>1, <1>3
    <2> QED
        BY <1>1, <1>3, <2>1, <2>2
<1> QED
    BY <1>2, <1>3

\* Object o gets a reference to the context, and perhaps a socket in it.
LEMMA TakeContext ==
    ASSUME ContextTypes, Shared, NEW o \in Objects,
           weak' = GetContext,
           life' = [life EXCEPT ![o] = "live"],
           context' = [context EXCEPT ![o] = GetContext],
           made' = [made EXCEPT ![o] = GetContext]
    PROVE  /\ ContextTypes'
           /\ weak' > 0 /\ context'[o] = weak' /\ made'[o] = weak' /\ life'[o] = "live"
           /\ \A q \in Objects : q # o =>
                 life'[q] = life[q] /\ context'[q] = context[q] /\ made'[q] = made[q]
           /\ \A q \in Objects : context'[q] \in {0, weak'}
           /\ \A q \in Objects : context[q] = weak /\ weak > 0 => weak' = weak
<1> DEFINE G == GetContext
<1>1. /\ G \in Nat /\ G > 0 /\ weak <= G
      /\ \A q \in Objects : context[q] \in {0, G}
      /\ \A q \in Objects : context[q] = weak /\ weak > 0 => G = weak
    BY GetContextFacts
<1> HIDE DEF G
<1>2. weak \in Nat /\ \A i \in 0 .. weak : i \in 0 .. G
    BY <1>1 DEF ContextTypes
<1>3. /\ weak' = G /\ context' = [context EXCEPT ![o] = G]
      /\ made' = [made EXCEPT ![o] = G]
    BY DEF G
<1>4. /\ context' \in [Objects -> 0 .. G] /\ made' \in [Objects -> 0 .. G]
      /\ life' \in [Objects -> {"none", "live", "waiting"}]
    BY <1>1, <1>2, <1>3 DEF ContextTypes
<1>5. /\ context'[o] = G /\ made'[o] = G /\ life'[o] = "live"
      /\ \A q \in Objects : q # o =>
            life'[q] = life[q] /\ context'[q] = context[q] /\ made'[q] = made[q]
    BY <1>3 DEF ContextTypes
<1>6. \A q \in Objects : context'[q] \in {0, G}
    BY <1>1, <1>5
<1> QED
    BY <1>1, <1>3, <1>4, <1>5, <1>6 DEF ContextTypes

\* Object o gives up its reference, and waits only for sockets of others in a
\* context of which it had the last one.
LEMMA ReleaseFacts ==
    ASSUME ContextTypes, NEW o \in Objects, NEW closed, Release(o, closed)
    PROVE  /\ ContextTypes' /\ weak' = weak
           /\ context'[o] = 0 /\ life'[o] \in {"none", "waiting"}
           /\ \A q \in Objects : q # o =>
                 life'[q] = life[q] /\ context'[q] = context[q] /\ made'[q] = made[q]
           /\ life'[o] = "waiting" =>
                 /\ \A q \in Objects : q # o => context[q] # context[o]
                 /\ \E q \in Objects : q \notin closed /\ made[q] = context[o]
                                        /\ life[q] = "live"
<1> DEFINE last == \A q \in Objects \ {o} : context[q] # context[o]
           open == OpenIn(context[o], closed) # {}
<1>1. /\ life' = [life EXCEPT ![o] = IF last /\ open THEN "waiting" ELSE "none"]
      /\ context' = [context EXCEPT ![o] = 0]
      /\ made' = [made EXCEPT ![o] = IF last /\ open THEN @ ELSE 0]
      /\ weak' = weak
    BY DEF Release
<1>2. open => \E q \in Objects : q \notin closed /\ made[q] = context[o] /\ life[q] = "live"
    BY DEF OpenIn
<1>3. last => \A q \in Objects : q # o => context[q] # context[o]
    OBVIOUS
<1> HIDE DEF last, open
<1>4. ContextTypes'
    <2>1. 0 \in 0 .. weak
        BY DEF ContextTypes
    <2> QED
        BY <1>1, <2>1 DEF ContextTypes
<1>5. /\ context'[o] = 0
      /\ life'[o] = IF last /\ open THEN "waiting" ELSE "none"
      /\ \A q \in Objects : q # o =>
            life'[q] = life[q] /\ context'[q] = context[q] /\ made'[q] = made[q]
    BY <1>1 DEF ContextTypes
<1> QED
    BY <1>1, <1>2, <1>3, <1>4, <1>5

\* Two monitors read different queues.
LEMMA InboxesDiffer ==
    ASSUME MonitorTypes, Attached, NEW m \in Monitors, NEW n \in Monitors, m # n,
           target[m] # None
    PROVE  InboxOf(m) # InboxOf(n)
<1>1. target[m] # target[n]
    BY DEF Attached
<1> QED
    BY <1>1, Kinds DEF InboxOf

\* The queue a monitor reads exists.
LEMMA InboxExists ==
    ASSUME NEW m \in Monitors PROVE InboxOf(m) \in Publishers \cup Monitors
BY DEF InboxOf

-----------------------------------------------------------------------------
(* The steps *)

\* The step of WaitsOnlyForMonitors.
WaitStep ==
    \A o \in Objects : life[o] = "live" /\ life'[o] = "waiting" =>
        \E m \in Monitors : life[m] = "live" /\ life'[target[m]] # "live"

\* Nothing exists at the start.
LEMMA SendersInit == Init => SendersInv
<1> SUFFICES ASSUME Init PROVE SendersInv
    OBVIOUS
<1>1. ContextTypes
    BY DEF Init, ContextTypes
<1>2. AddressTypes
    <2>1. DefaultURI \in URIs
        BY LiteralsAssumption DEF DefaultURI, URIs, Addresses, DEFAULT_SCHEMA
    <2> QED
        BY <2>1 DEF Init, AddressTypes
<1>3. MonitorTypes
    BY DEF Init, MonitorTypes
<1>4. QueueTypes
    BY SendersAssumption DEF Init, QueueTypes
<1>5. /\ \A o \in Objects : life[o] = "none" /\ context[o] = 0
      /\ \A m \in Monitors : target[m] = None
      /\ \A s \in AllSenders : announced[s] = None
    BY DEF Init
<1>6. Shared
    BY <1>5, Kinds DEF Shared
<1>7. Attached
    BY <1>5, Kinds DEF Attached
<1>8. AnnouncedLive /\ AnnouncedReachable
    BY <1>5 DEF AnnouncedLive, AnnouncedReachable
<1>9. EveryConnectionNotified
    BY <1>5, Kinds DEF EveryConnectionNotified
<1> QED
    BY <1>1, <1>2, <1>3, <1>4, <1>6, <1>7, <1>8, <1>9, TypeParts DEF SendersInv

\* Nothing that the context and the monitors' attachments depend on has changed.
LEMMA SharedFrame ==
    ASSUME SendersInv, UNCHANGED <<contextVars, target, verbose>>
    PROVE  ContextTypes' /\ Shared' /\ Attached' /\ WaitStep
<1>1. ContextTypes'
    BY TypeParts DEF SendersInv, ContextTypes, contextVars
<1>2. Shared' /\ Attached'
    BY DEF SendersInv, Shared, Attached, contextVars
<1>3. WaitStep
    BY DEF WaitStep, contextVars
<1> QED
    BY <1>1, <1>2, <1>3

\* Nothing that the announcements depend on has changed.
LEMMA AddressFrame ==
    ASSUME SendersInv, UNCHANGED addressVars,
           \A s \in AllSenders : life[s] = "live" => life'[s] = "live"
    PROVE  AddressTypes' /\ AnnouncedLive' /\ AnnouncedReachable'
<1>1. AddressTypes'
    BY TypeParts DEF SendersInv, AddressTypes, addressVars
<1>2. AnnouncedLive'
    BY DEF SendersInv, AnnouncedLive, addressVars
<1>3. AnnouncedReachable'
    BY DEF SendersInv, AnnouncedReachable, addressVars
<1> QED
    BY <1>1, <1>2, <1>3

\* Announcements that stay with their sockets stay right.
LEMMA ReachableKept ==
    ASSUME AnnouncedReachable,
           \A q \in AllSenders : announced'[q] # None =>
              announced'[q] = announced[q] /\ endpoint'[q] = endpoint[q] /\ uri'[q] = uri[q]
    PROVE  AnnouncedReachable'
<1>1. \A q \in AllSenders : announced'[q] # None =>
         /\ announced'[q] = announced[q] /\ endpoint'[q] = endpoint[q]
         /\ uri'[q] = uri[q] /\ (IsFullyQualified(uri[q])' <=> IsFullyQualified(uri[q]))
    BY DEF IsFullyQualified
<1> QED
    BY <1>1 DEF AnnouncedReachable

\* The count of a monitor whose queue and counters stay is right after a step that
\* brings neither it nor its sender to life.
LEMMA CountFrame ==
    ASSUME SendersInv, NEW m \in Monitors,
           target'[m] = target[m], notified'[m] = notified[m], due'[m] = due[m],
           inbox'[InboxOf(m)] = inbox[InboxOf(m)],
           life'[m] = "live" => life[m] = "live",
           life'[target[m]] = "live" => life[target[m]] = "live"
    PROVE  life'[m] = "live" /\ life'[target'[m]] = "live" =>
              notified'[m] + Notifying(inbox'[InboxOf(m)']) = due'[m]
<1>1. InboxOf(m)' = InboxOf(m)
    BY DEF InboxOf
<1>2. inbox'[InboxOf(m)'] = inbox[InboxOf(m)]
    BY <1>1, Zenon
<1> QED
    BY <1>2 DEF SendersInv, EveryConnectionNotified

\* A constructor that throws leaves nothing, one that succeeds announces what it
\* has bound, in the context of the others.
LEMMA ConstructStep ==
    ASSUME SendersInv, NEW s \in AllSenders, NEW a \in Arguments, Construct(s, a)
    PROVE  SendersInv' /\ WaitStep
<1> DEFINE u == UriOf(a)
<1>0. /\ ContextTypes /\ AddressTypes /\ MonitorTypes /\ QueueTypes
      /\ Shared /\ Attached /\ AnnouncedLive /\ AnnouncedReachable
      /\ EveryConnectionNotified
    BY TypeParts DEF SendersInv
<1>1. /\ life[s] = "none" /\ created < MaxCreated /\ created' = created + 1
      /\ \A m \in Monitors : target[m] # s
      /\ UNCHANGED <<monitorVars, inbox, connected, connects>>
    BY DEF Construct
<1>2. MonitorTypes' /\ QueueTypes'
    BY <1>0, <1>1, SendersAssumption DEF MonitorTypes, QueueTypes, monitorVars
<1>3. CASE UNCHANGED <<contextVars, addressVars>>
    <2>1. EveryConnectionNotified'
        BY <1>0, <1>1, <1>3 DEF EveryConnectionNotified, InboxOf, contextVars, monitorVars
    <2>2. UNCHANGED <<contextVars, target, verbose>>
        BY <1>1, <1>3 DEF monitorVars
    <2>3. \A q \in AllSenders : life[q] = "live" => life'[q] = "live"
        BY <1>3 DEF contextVars
    <2> QED
        BY <1>2, <1>3, <2>1, <2>2, <2>3, SharedFrame, AddressFrame, InvNext
<1>4. ASSUME NEW e \in Bindable(BuildZmqURI(u)),
             life' = [life EXCEPT ![s] = "live"],
             context' = [context EXCEPT ![s] = GetContext],
             made' = [made EXCEPT ![s] = GetContext],
             weak' = GetContext,
             uri' = [uri EXCEPT ![s] = InitURI(u, e)],
             endpoint' = [endpoint EXCEPT ![s] = e],
             announced' = [announced EXCEPT ![s] = AnnounceRecord(s, u, e, a.session)]
      PROVE  SendersInv' /\ WaitStep
    <2>1. u \in URIs /\ a.session \in STRING
        BY UriOfType, SendersAssumption
    <2> HIDE DEF u
    <2> DEFINE i == InitURI(u, e)
               r == AnnounceRecord(s, u, e, a.session)
    <2>2. /\ e \in SocketAddresses
          /\ u.scheme = DEFAULT_SCHEMA =>
                /\ e.host = IF u.host \in {"", "*"} THEN "0.0.0.0" ELSE u.host
                /\ e.port # 0 /\ u.port # 0 => e.port = u.port
                /\ e.port # 0
                /\ ~InUse(e.host, e.port)
        BY <1>4, <2>1, BindableFacts
    <2>3. /\ i \in URIs /\ i.scheme = u.scheme
          /\ u.scheme = DEFAULT_SCHEMA =>
                /\ i.port = IF u.port = 0 THEN e.port ELSE u.port
                /\ i.host = IF u.host \notin {"", "*"} THEN u.host
                            ELSE IF e.host = "0.0.0.0" THEN Hostname ELSE e.host
        BY <2>1, <2>2, InitURIFacts
    <2>4. r \in Records \cup {None} /\ (r # None => r.host = i.host /\ r.port = i.port)
        BY <2>1, <2>2, RecordFacts
    <2> HIDE DEF i, r
    <2>5. /\ uri' = [uri EXCEPT ![s] = i]
          /\ announced' = [announced EXCEPT ![s] = r]
        BY <1>4 DEF i, r
    <2>6. AddressTypes'
        BY <1>0, <1>4, <2>2, <2>3, <2>4, <2>5 DEF AddressTypes
    <2>7. /\ uri'[s] = i /\ endpoint'[s] = e /\ announced'[s] = r
          /\ \A q \in AllSenders : q # s =>
                uri'[q] = uri[q] /\ endpoint'[q] = endpoint[q] /\ announced'[q] = announced[q]
        BY <1>0, <1>4, <2>5 DEF AddressTypes
    <2>8. /\ ContextTypes'
          /\ weak' > 0 /\ context'[s] = weak' /\ made'[s] = weak' /\ life'[s] = "live"
          /\ \A q \in Objects : q # s =>
                life'[q] = life[q] /\ context'[q] = context[q] /\ made'[q] = made[q]
          /\ \A q \in Objects : context'[q] \in {0, weak'}
          /\ \A q \in Objects : context[q] = weak /\ weak > 0 => weak' = weak
        BY <1>0, <1>4, Kinds, TakeContext
    <2>9. target' = target /\ verbose' = verbose /\ notified' = notified /\ due' = due
        BY <1>1 DEF monitorVars
    <2>10. Shared'
        BY <1>0, <2>8, <2>9, Kinds DEF Shared
    <2>11. Attached'
        <3>1. \A m \in Monitors : target[m] \in AllSenders \cup {None} /\ target[m] # s
            BY <1>0, <1>1 DEF MonitorTypes
        <3> QED
            BY <1>0, <2>8, <2>9, <3>1, Kinds DEF Attached
    <2>12. AnnouncedLive'
        BY <1>0, <2>7, <2>8, Kinds DEF AnnouncedLive
    <2>13. AnnouncedReachable'
        <3>1. u.scheme = DEFAULT_SCHEMA /\ r # None =>
                 /\ e # None /\ r.port = e.port /\ r.host # "*"
                 /\ r.host = e.host \/ (e.host = "0.0.0.0" /\ r.host = Hostname)
                 /\ IsFullyQualified(i)
            <4> SUFFICES ASSUME u.scheme = DEFAULT_SCHEMA, r # None
                         PROVE  /\ e # None /\ r.port = e.port /\ r.host # "*"
                                /\ r.host = e.host \/ (e.host = "0.0.0.0" /\ r.host = Hostname)
                                /\ IsFullyQualified(i)
                OBVIOUS
            <4>1. e # None
                BY <2>2, SendersAssumption
            <4>2. Hostname \notin {"", "*", "0.0.0.0"}
                BY EndpointsAssumption
            <4>3. r.port = e.port /\ i.port # 0
                BY <2>2, <2>3, <2>4
            <4>4. /\ r.host = i.host /\ i.host \notin {"", "*"}
                  /\ r.host = e.host \/ (e.host = "0.0.0.0" /\ r.host = Hostname)
                BY <2>2, <2>3, <2>4, <4>2
            <4> QED
                BY <4>1, <4>3, <4>4 DEF IsFullyQualified
        <3>2. ASSUME NEW q \in AllSenders \ {s}, u.scheme = DEFAULT_SCHEMA, r # None,
                     announced[q] # None, uri[q].scheme = DEFAULT_SCHEMA
              PROVE  announced[q].port # r.port \/ announced[q].host # r.host
            <4>1. /\ endpoint[q] # None
                  /\ announced[q].port = endpoint[q].port
                  /\ \/ announced[q].host = endpoint[q].host
                     \/ endpoint[q].host = "0.0.0.0" /\ announced[q].host = Hostname
                BY <1>0, <3>2 DEF AnnouncedReachable
            <4>2. ~InUse(e.host, e.port)
                BY <2>2, <3>2
            <4>3. endpoint[q].port = e.port =>
                     endpoint[q].host # e.host /\ endpoint[q].host # "0.0.0.0"
                     /\ e.host # "0.0.0.0"
                BY <3>2, <4>1, <4>2 DEF InUse
            <4> QED
                BY <3>1, <3>2, <4>1, <4>3
        <3>3. ASSUME NEW x \in AllSenders, announced'[x] # None,
                     uri'[x].scheme = DEFAULT_SCHEMA
              PROVE  /\ endpoint'[x] # None
                     /\ announced'[x].port = endpoint'[x].port
                     /\ \/ announced'[x].host = endpoint'[x].host
                        \/ endpoint'[x].host = "0.0.0.0" /\ announced'[x].host = Hostname
                     /\ announced'[x].host # "*" /\ IsFullyQualified(uri'[x])
            <4>1. CASE x = s
                BY <2>3, <2>7, <3>1, <3>3, <4>1
            <4>2. CASE x # s
                BY <1>0, <2>7, <3>3, <4>2 DEF AnnouncedReachable
            <4> QED
                BY <4>1, <4>2
        <3>4. ASSUME NEW x \in AllSenders, announced'[x] # None,
                     uri'[x].scheme = DEFAULT_SCHEMA,
                     NEW q \in AllSenders \ {x}, announced'[q] # None,
                     uri'[q].scheme = DEFAULT_SCHEMA
              PROVE  announced'[q].port # announced'[x].port
                     \/ announced'[q].host # announced'[x].host
            <4>1. CASE x = s
                BY <2>3, <2>7, <3>2, <3>4, <4>1
            <4>2. CASE q = s
                BY <2>3, <2>7, <3>2, <3>4, <4>2
            <4>3. CASE x # s /\ q # s
                BY <1>0, <2>7, <3>4, <4>3 DEF AnnouncedReachable
            <4> QED
                BY <4>1, <4>2, <4>3
        <3>5. \A x \in AllSenders : IsFullyQualified(uri[x])' <=> IsFullyQualified(uri'[x])
            BY DEF IsFullyQualified
        <3> QED
            BY <3>3, <3>4, <3>5 DEF AnnouncedReachable
    <2>14. EveryConnectionNotified'
        <3>1. ASSUME NEW m \in Monitors
              PROVE  life'[m] = "live" /\ life'[target'[m]] = "live" =>
                        notified'[m] + Notifying(inbox'[InboxOf(m)']) = due'[m]
            <4>1. target[m] # s /\ target[m] \in AllSenders \cup {None}
                BY <1>0, <1>1 DEF MonitorTypes
            <4>2. life'[m] = life[m]
                BY <2>8, Kinds
            <4>3. CASE target[m] = None
                BY <1>0, <4>2, <4>3 DEF Attached
            <4>4. CASE target[m] # None
                <5>1. life'[target[m]] = life[target[m]]
                    BY <2>8, <4>1, <4>4, Kinds
                <5> QED
                    BY <1>1, <2>9, <4>2, <5>1, CountFrame
            <4> QED
                BY <4>3, <4>4
        <3> QED
            BY <3>1 DEF EveryConnectionNotified
    <2>15. WaitStep
        BY <2>8, Kinds DEF WaitStep
    <2> QED
        BY <1>2, <2>6, <2>8, <2>10, <2>11, <2>12, <2>13, <2>14, <2>15, InvNext
<1> QED
    <2>1. CASE a.session = "" \/ Bindable(BuildZmqURI(u)) = {}
        BY <1>3, <2>1 DEF Construct
    <2>2. CASE a.session # "" /\ Bindable(BuildZmqURI(u)) # {}
        BY <1>4, <2>2 DEF Construct
    <2> QED
        BY <2>1, <2>2

\* ~Sender gives up its reference after its socket: what it can wait for is the
\* socket its monitor still holds.
LEMMA DestroySenderStep ==
    ASSUME SendersInv, NEW s \in AllSenders, DestroySender(s)
    PROVE  SendersInv' /\ WaitStep
<1>0. /\ ContextTypes /\ AddressTypes /\ MonitorTypes /\ QueueTypes
      /\ Shared /\ Attached /\ AnnouncedLive /\ AnnouncedReachable
      /\ EveryConnectionNotified
    BY TypeParts DEF SendersInv
<1>1. /\ life[s] = "live"
      /\ announced' = [announced EXCEPT ![s] = None]
      /\ uri' = [uri EXCEPT ![s] = DefaultURI]
      /\ \E v \in {None, endpoint[s]} : endpoint' = [endpoint EXCEPT ![s] = v]
      /\ \E c \in {{}, connected[s]} : connected' = [connected EXCEPT ![s] = c]
      /\ \E S \in {{}, {s}} : inbox' = [o \in DOMAIN inbox |-> IF o \in S THEN <<>> ELSE inbox[o]]
      /\ target' = target /\ verbose' = verbose /\ notified' = notified /\ due' = due
      /\ created' = created /\ connects' = connects
    BY DEF DestroySender, CloseSocket, monitorVars
<1>2. /\ ContextTypes' /\ weak' = weak
      /\ context'[s] = 0 /\ life'[s] \in {"none", "waiting"}
      /\ \A q \in Objects : q # s =>
            life'[q] = life[q] /\ context'[q] = context[q] /\ made'[q] = made[q]
      /\ life'[s] = "waiting" =>
            /\ \A q \in Objects : q # s => context[q] # context[s]
            /\ \E q \in Objects : q \notin {s} /\ made[q] = context[s] /\ life[q] = "live"
    BY <1>0, Kinds, ReleaseFacts DEF DestroySender
<1>3. AddressTypes'
    <2>1. DefaultURI \in URIs
        BY LiteralsAssumption DEF DefaultURI, URIs, Addresses, DEFAULT_SCHEMA
    <2> QED
        BY <1>0, <1>1, <2>1 DEF AddressTypes
<1>4. MonitorTypes'
    BY <1>0, <1>1 DEF MonitorTypes
<1>5. QueueTypes'
    <2>1. inbox' \in [Publishers \cup Monitors -> Seq(Event)]
        BY <1>0, <1>1 DEF QueueTypes
    <2>2. connected' \in [AllSenders -> SUBSET Peers]
        BY <1>0, <1>1 DEF QueueTypes
    <2> QED
        BY <1>0, <1>1, <2>1, <2>2 DEF QueueTypes
<1>6. Shared'
    BY <1>0, <1>1, <1>2, Kinds DEF Shared
<1>7. Attached'
    <2>1. \A m \in Monitors : target[m] \in AllSenders \cup {None}
        BY <1>0 DEF MonitorTypes
    <2> QED
        BY <1>0, <1>1, <1>2, <2>1, Kinds DEF Attached
<1>8. /\ announced'[s] = None
      /\ \A q \in AllSenders : q # s =>
            announced'[q] = announced[q] /\ endpoint'[q] = endpoint[q] /\ uri'[q] = uri[q]
    BY <1>0, <1>1 DEF AddressTypes
<1>9. AnnouncedLive'
    BY <1>0, <1>2, <1>8, Kinds DEF AnnouncedLive
<1>10. AnnouncedReachable'
    BY <1>0, <1>8, ReachableKept
<1>11. EveryConnectionNotified'
    <2>1. ASSUME NEW m \in Monitors
          PROVE  life'[m] = "live" /\ life'[target'[m]] = "live" =>
                    notified'[m] + Notifying(inbox'[InboxOf(m)']) = due'[m]
        <3>1. CASE target[m] = s
            BY <1>1, <1>2, <3>1
        <3>2. CASE target[m] = None
            BY <1>0, <1>1, <1>2, <3>2, Kinds DEF Attached
        <3>3. CASE target[m] # s /\ target[m] # None
            <4>1. target[m] \in AllSenders /\ life'[target[m]] = life[target[m]]
                BY <1>0, <1>2, <3>3, Kinds DEF MonitorTypes
            <4>2. life'[m] = life[m]
                BY <1>2, Kinds
            <4>3. InboxOf(m) # s /\ InboxOf(m) \in DOMAIN inbox
                BY <1>0, <3>3, Kinds, InboxExists DEF InboxOf, QueueTypes
            <4>4. inbox'[InboxOf(m)] = inbox[InboxOf(m)]
                BY <1>1, <4>3
            <4> QED
                BY <1>1, <4>1, <4>2, <4>4, CountFrame
        <3> QED
            BY <3>1, <3>2, <3>3
    <2> QED
        BY <2>1 DEF EveryConnectionNotified
<1>12. WaitStep
    <2> SUFFICES ASSUME life'[s] = "waiting"
                 PROVE  \E m \in Monitors : life[m] = "live" /\ life'[target[m]] # "live"
        BY <1>2, Kinds DEF WaitStep
    <2>1. PICK q \in Objects : q # s /\ made[q] = context[s] /\ life[q] = "live"
        BY <1>2
    <2>2. context[s] = weak /\ context[q] # weak
        BY <1>0, <1>1, <1>2, <2>1 DEF Shared
    <2>3. q \in Monitors /\ target[q] \notin Servers
        BY <1>0, <2>1, <2>2 DEF Shared, Objects
    <2>4. target[q] \in Publishers
        BY <1>0, <2>1, <2>3, Kinds DEF Attached, MonitorTypes, AllSenders
    <2>5. ASSUME life'[target[q]] = "live" PROVE FALSE
        <3>1. target[q] # s /\ target[q] \in AllSenders /\ target[q] \in Objects
            BY <1>2, <2>4, <2>5, Kinds
        <3>2. life[target[q]] = "live"
            BY <1>2, <2>5, <3>1
        <3>3. context[target[q]] = weak
            BY <1>0, <3>1, <3>2 DEF Shared
        <3>4. context[target[q]] # context[s]
            BY <1>2, <3>1
        <3> QED
            BY <2>2, <3>3, <3>4
    <2> QED
        BY <2>1, <2>3, <2>5
<1> QED
    BY <1>2, <1>3, <1>4, <1>5, <1>6, <1>7, <1>9, <1>10, <1>11, <1>12, InvNext

\* ~SocketImpl gives up its reference before its socket: it waits, for itself, if
\* its server has gone before.
LEMMA DestroyServerMonitorStep ==
    ASSUME SendersInv, NEW m \in Monitors, DestroyServerMonitor(m)
    PROVE  SendersInv' /\ WaitStep
<1>0. /\ ContextTypes /\ AddressTypes /\ MonitorTypes /\ QueueTypes
      /\ Shared /\ Attached /\ AnnouncedLive /\ AnnouncedReachable
      /\ EveryConnectionNotified
    BY TypeParts DEF SendersInv
<1>1. /\ life[m] = "live" /\ target[m] \in Servers
      /\ target' = [target EXCEPT ![m] = None]
      /\ inbox' = [inbox EXCEPT ![m] = <<>>]
      /\ UNCHANGED addressVars
      /\ verbose' = verbose /\ notified' = notified /\ due' = due
      /\ connected' = connected /\ created' = created /\ connects' = connects
    BY DEF DestroyServerMonitor
<1>2. /\ ContextTypes' /\ weak' = weak
      /\ context'[m] = 0 /\ life'[m] \in {"none", "waiting"}
      /\ \A q \in Objects : q # m =>
            life'[q] = life[q] /\ context'[q] = context[q] /\ made'[q] = made[q]
      /\ life'[m] = "waiting" =>
            \A q \in Objects : q # m => context[q] # context[m]
    BY <1>0, Kinds, ReleaseFacts DEF DestroyServerMonitor
<1>3. /\ target'[m] = None
      /\ \A n \in Monitors : n # m => target'[n] = target[n]
      /\ \A o \in Publishers \cup Monitors : o # m => inbox'[o] = inbox[o]
    BY <1>0, <1>1 DEF MonitorTypes, QueueTypes
<1>4. MonitorTypes' /\ QueueTypes'
    BY <1>0, <1>1 DEF MonitorTypes, QueueTypes
<1>5. Shared'
    BY <1>0, <1>2, <1>3, Kinds DEF Shared
<1>6. Attached'
    <2>1. \A n \in Monitors : target[n] \in AllSenders \cup {None}
        BY <1>0 DEF MonitorTypes
    <2> QED
        BY <1>0, <1>1, <1>2, <1>3, <2>1, Kinds DEF Attached
<1>7. AddressTypes' /\ AnnouncedLive' /\ AnnouncedReachable'
    BY <1>1, <1>2, Kinds, AddressFrame
<1>8. EveryConnectionNotified'
    <2>1. ASSUME NEW n \in Monitors
          PROVE  life'[n] = "live" /\ life'[target'[n]] = "live" =>
                    notified'[n] + Notifying(inbox'[InboxOf(n)']) = due'[n]
        <3>1. CASE n = m
            BY <1>2, <3>1
        <3>2. CASE n # m /\ target[n] = None
            BY <1>0, <1>2, <3>2, Kinds DEF Attached
        <3>3. CASE n # m /\ target[n] # None
            <4>1. life'[target[n]] = life[target[n]] /\ life'[n] = life[n]
                BY <1>0, <1>2, <3>3, Kinds DEF MonitorTypes
            <4>2. inbox'[InboxOf(n)] = inbox[InboxOf(n)]
                BY <1>3, <3>3, Kinds DEF InboxOf
            <4> QED
                BY <1>1, <1>3, <3>3, <4>1, <4>2, CountFrame
        <3> QED
            BY <3>1, <3>2, <3>3
    <2> QED
        BY <2>1 DEF EveryConnectionNotified
<1>9. WaitStep
    <2> SUFFICES ASSUME life'[m] = "waiting"
                 PROVE  \E n \in Monitors : life[n] = "live" /\ life'[target[n]] # "live"
        BY <1>2, Kinds DEF WaitStep
    <2>1. target[m] \in AllSenders /\ target[m] \in Objects /\ target[m] # m
        BY <1>1, Kinds
    <2>2. context[m] = weak /\ context[target[m]] # weak
        BY <1>0, <1>1, <1>2, <2>1 DEF Shared
    <2>3. life[target[m]] # "live"
        BY <1>0, <2>1, <2>2 DEF Shared
    <2> QED
        BY <1>1, <1>2, <2>1, <2>3
<1> QED
    BY <1>2, <1>4, <1>5, <1>6, <1>7, <1>8, <1>9, InvNext

\* ~XPubImpl closes the socket if the publisher has gone, and those who waited for
\* it go on; nobody comes to wait.
LEMMA DestroyPublisherMonitorStep ==
    ASSUME SendersInv, NEW m \in Monitors, DestroyPublisherMonitor(m)
    PROVE  SendersInv' /\ WaitStep
<1>0. /\ ContextTypes /\ AddressTypes /\ MonitorTypes /\ QueueTypes
      /\ Shared /\ Attached /\ AnnouncedLive /\ AnnouncedReachable
      /\ EveryConnectionNotified
    BY TypeParts DEF SendersInv
<1>1. PICK p \in Publishers : p = target[m]
    BY DEF DestroyPublisherMonitor
<1>2. /\ life[m] = "live"
      /\ \E R \in SUBSET Objects :
            /\ m \in R /\ \A o \in R : o # m => life[o] = "waiting" /\ o \notin Monitors
            /\ life' = [o \in Objects |-> IF o \in R THEN "none" ELSE life[o]]
            /\ made' = [o \in Objects |-> IF o \in R THEN 0 ELSE made[o]]
      /\ target' = [target EXCEPT ![m] = None]
      /\ verbose' = [verbose EXCEPT ![p] = FALSE]
      /\ weak' = weak /\ context' = context /\ uri' = uri /\ announced' = announced
      /\ notified' = notified /\ due' = due /\ created' = created /\ connects' = connects
    <2> DEFINE R == {o \in Objects : /\ life[o] = "waiting" /\ made[o] = made[m]
                                     /\ OpenIn(made[m], {m}) = {} /\ o \notin Monitors}
                    \cup {m}
    <2>1. /\ R \in SUBSET Objects /\ m \in R
          /\ \A o \in R : o # m => life[o] = "waiting" /\ o \notin Monitors
        BY Kinds
    <2>2. /\ life' = [o \in Objects |-> IF o \in R THEN "none" ELSE life[o]]
          /\ made' = [o \in Objects |-> IF o \in R THEN 0 ELSE made[o]]
        BY DEF DestroyPublisherMonitor
    <2> HIDE DEF R
    <2> QED
        BY <1>1, <2>1, <2>2 DEF DestroyPublisherMonitor
<1>3. /\ \E v \in {None, endpoint[p]} : endpoint' = [endpoint EXCEPT ![p] = v]
      /\ \E c \in {{}, connected[p]} : connected' = [connected EXCEPT ![p] = c]
      /\ inbox' = inbox \/ inbox' = [inbox EXCEPT ![p] = <<>>]
      /\ SocketHolders(p) \ {m} # {} => endpoint' = [endpoint EXCEPT ![p] = @]
    BY <1>1 DEF DestroyPublisherMonitor, CloseSocket
<1>4. /\ life'[m] = "none" /\ \A o \in Objects : life'[o] # "none" => life'[o] = life[o]
      /\ \A o \in Objects : life[o] = "live" /\ o # m =>
            life'[o] = "live" /\ made'[o] = made[o]
      /\ \A n \in Monitors : n # m => life'[n] = life[n] /\ made'[n] = made[n]
    BY <1>2, Kinds
<1>5. /\ target'[m] = None /\ \A n \in Monitors : n # m => target'[n] = target[n]
      /\ \A q \in Publishers : q # p => verbose'[q] = verbose[q]
      /\ \A n \in Monitors : n # m => target[n] # p
    BY <1>0, <1>1, <1>2, Kinds DEF MonitorTypes, Attached
<1>6. ContextTypes'
    <2>1. 0 \in 0 .. weak
        BY <1>0 DEF ContextTypes
    <2> QED
        BY <1>0, <1>2, <2>1 DEF ContextTypes
<1>7. AddressTypes'
    <2>1. p \in AllSenders /\ endpoint[p] \in SocketAddresses \cup {None}
        BY <1>0, Kinds DEF AddressTypes
    <2> QED
        BY <1>0, <1>2, <1>3, <2>1 DEF AddressTypes
<1>8. MonitorTypes'
    BY <1>0, <1>2 DEF MonitorTypes
<1>9. QueueTypes'
    <2>1. p \in AllSenders /\ connected[p] \in SUBSET Peers
        BY <1>0, Kinds DEF QueueTypes
    <2>2. connected' \in [AllSenders -> SUBSET Peers]
        BY <1>0, <1>3, <2>1 DEF QueueTypes
    <2>3. inbox' \in [Publishers \cup Monitors -> Seq(Event)]
        <3>1. <<>> \in Seq(Event)
            OBVIOUS
        <3>2. CASE inbox' = inbox
            BY <1>0, <3>2 DEF QueueTypes
        <3>3. CASE inbox' = [inbox EXCEPT ![p] = <<>>]
            BY <1>0, <3>1, <3>3 DEF QueueTypes
        <3> QED
            BY <1>3, <3>2, <3>3
    <2> QED
        BY <1>0, <1>2, <2>2, <2>3 DEF QueueTypes
<1>10. Shared'
    <2>1. \A o \in Objects : life'[o] = "live" =>
             life[o] = "live" /\ made'[o] = made[o] /\ o # m
        BY <1>4
    <2> QED
        <3>1. \A o \in Objects : context'[o] \in {0, weak'}
            BY <1>0, <1>2 DEF Shared
        <3>2. \A q \in AllSenders : life'[q] = "live" =>
                 weak' > 0 /\ context'[q] = weak' /\ made'[q] = weak'
            BY <1>0, <1>2, <2>1, Kinds DEF Shared
        <3>3. \A n \in Monitors : life'[n] = "live" /\ target'[n] \in Servers =>
                 weak' > 0 /\ context'[n] = weak' /\ made'[n] = weak'
            BY <1>0, <1>2, <1>5, <2>1, Kinds DEF Shared
        <3> QED
            BY <3>1, <3>2, <3>3 DEF Shared
<1>11. Attached'
    <2>1. \A n \in Monitors : target[n] \in AllSenders \cup {None}
        BY <1>0 DEF MonitorTypes
    <2>2. \A n \in Monitors : life'[n] = "live" <=> target'[n] # None
        BY <1>0, <1>4, <1>5 DEF Attached
    <2>3. \A n, k \in Monitors : target'[n] # None /\ target'[n] = target'[k] => n = k
        BY <1>0, <1>5 DEF Attached
    <2>4. ASSUME NEW n \in Monitors, target'[n] \in Publishers
          PROVE  verbose'[target'[n]] /\
                 (life'[target'[n]] = "live" => made'[n] = made'[target'[n]])
        <3>1. n # m /\ target'[n] = target[n] /\ target[n] # p /\ target[n] \in Objects
              /\ target[n] # m
            BY <1>5, <2>4, Kinds
        <3>2. verbose'[target[n]] = verbose[target[n]]
            BY <1>5, <2>4, <3>1
        <3>3. life'[target[n]] = "live" =>
                 life[target[n]] = "live" /\ made'[target[n]] = made[target[n]]
            BY <1>4, <3>1
        <3>4. made'[n] = made[n] /\ target[n] \in Publishers
            BY <1>4, <2>4, <3>1
        <3> QED
            BY <1>0, <3>1, <3>2, <3>3, <3>4 DEF Attached
    <2> QED
        BY <2>2, <2>3, <2>4 DEF Attached
<1>12. AnnouncedLive'
    BY <1>0, <1>2, <1>4, Kinds DEF AnnouncedLive
<1>13. AnnouncedReachable'
    <2>1. ASSUME NEW q \in AllSenders, announced'[q] # None
          PROVE  endpoint'[q] = endpoint[q]
        <3>1. CASE q # p
            BY <1>0, <1>3, <3>1 DEF AddressTypes
        <3>2. CASE q = p
            <4>1. life[p] = "live" /\ p # m /\ p \in Objects
                BY <1>0, <1>2, <2>1, <3>2, Kinds DEF AnnouncedLive
            <4>2. SocketHolders(p) \ {m} # {}
                BY <4>1 DEF SocketHolders
            <4> QED
                BY <1>0, <1>3, <2>1, <3>2, <4>2 DEF AddressTypes
        <3> QED
            BY <3>1, <3>2
    <2> QED
        BY <1>0, <1>2, <2>1, ReachableKept
<1>14. EveryConnectionNotified'
    <2>1. ASSUME NEW n \in Monitors
          PROVE  life'[n] = "live" /\ life'[target'[n]] = "live" =>
                    notified'[n] + Notifying(inbox'[InboxOf(n)']) = due'[n]
        <3>1. CASE n = m
            BY <1>4, <3>1
        <3>2. CASE n # m /\ target[n] = None
            BY <1>0, <1>4, <3>2 DEF Attached
        <3>3. CASE n # m /\ target[n] # None
            <4>1. target[n] \in Objects /\ target'[n] = target[n] /\ target[n] # p
                BY <1>0, <1>5, <3>3, Kinds DEF MonitorTypes
            <4>2. /\ life'[n] = "live" => life[n] = "live"
                  /\ life'[target[n]] = "live" => life[target[n]] = "live"
                BY <1>4, <3>3, <4>1, Kinds
            <4>3. InboxOf(n) # p /\ InboxOf(n) \in Publishers \cup Monitors
                BY <4>1, Kinds, InboxExists DEF InboxOf
            <4>4. inbox'[InboxOf(n)] = inbox[InboxOf(n)]
                BY <1>0, <1>3, <4>3 DEF QueueTypes
            <4> QED
                BY <1>2, <4>1, <4>2, <4>4, CountFrame
        <3> QED
            BY <3>1, <3>2, <3>3
    <2> QED
        BY <2>1 DEF EveryConnectionNotified
<1>15. WaitStep
    BY <1>4 DEF WaitStep
<1> QED
    BY <1>6, <1>7, <1>8, <1>9, <1>10, <1>11, <1>12, <1>13, <1>14, <1>15, InvNext

\* A new monitor is the only one of its sender, and starts with what waits in the
\* queue it reads.
LEMMA CreateMonitorStep ==
    ASSUME SendersInv, NEW m \in Monitors, NEW s \in AllSenders, CreateMonitor(m, s)
    PROVE  SendersInv' /\ WaitStep
<1>0. /\ ContextTypes /\ AddressTypes /\ MonitorTypes /\ QueueTypes
      /\ Shared /\ Attached /\ AnnouncedLive /\ AnnouncedReachable
      /\ EveryConnectionNotified
    BY TypeParts DEF SendersInv
<1>1. /\ life[m] = "none" /\ life[s] = "live"
      /\ \A n \in Monitors : target[n] # s
      /\ created < MaxCreated /\ created' = created + 1
      /\ life' = [life EXCEPT ![m] = "live"]
      /\ target' = [target EXCEPT ![m] = s]
      /\ notified' = [notified EXCEPT ![m] = 0]
      /\ UNCHANGED addressVars
      /\ connected' = connected /\ connects' = connects
    BY DEF CreateMonitor
<1>2. /\ life'[m] = "live" /\ target'[m] = s /\ notified'[m] = 0
      /\ \A o \in Objects : o # m => life'[o] = life[o]
      /\ \A n \in Monitors : n # m => target'[n] = target[n] /\ notified'[n] = notified[n]
    BY <1>0, <1>1, Kinds DEF ContextTypes, MonitorTypes
<1>3. /\ s \in Publishers =>
            /\ verbose' = [verbose EXCEPT ![s] = TRUE]
            /\ due' = [due EXCEPT ![m] = Notifying(inbox[s])]
            /\ made' = [made EXCEPT ![m] = made[s]]
            /\ context' = context /\ weak' = weak /\ inbox' = inbox
      /\ s \in Servers =>
            /\ context' = [context EXCEPT ![m] = GetContext]
            /\ made' = [made EXCEPT ![m] = GetContext]
            /\ weak' = GetContext
            /\ inbox' = [inbox EXCEPT ![m] = <<>>]
            /\ due' = [due EXCEPT ![m] = 0]
            /\ verbose' = verbose
    <2>1. s \in Servers => s \notin Publishers
        BY Kinds
    <2> QED
        BY <2>1 DEF CreateMonitor, MonitorPublisher, MonitorServer
<1>4. s \in Publishers \/ s \in Servers
    BY DEF AllSenders
<1>5. /\ ContextTypes'
      /\ \A o \in Objects : o # m => context'[o] = context[o] /\ made'[o] = made[o]
      /\ \A o \in Objects : context'[o] \in {0, weak'}
      /\ \A o \in Objects : context[o] = weak /\ weak > 0 => weak' = weak
      /\ s \in Servers => weak' > 0 /\ context'[m] = weak' /\ made'[m] = weak'
      /\ s \in Publishers => made'[m] = made[s]
    <2>1. CASE s \in Servers
        BY <1>0, <1>1, <1>3, <2>1, Kinds, TakeContext
    <2>2. CASE s \in Publishers
        <3>1. made[s] \in 0 .. weak /\ m \in Objects
            BY <1>0, Kinds DEF ContextTypes
        <3> QED
            BY <1>0, <1>1, <1>3, <2>2, <3>1, Kinds DEF ContextTypes, Shared
    <2> QED
        BY <1>4, <2>1, <2>2
<1>6. /\ s \in Publishers => due'[m] = Notifying(inbox[s])
      /\ s \in Servers => due'[m] = 0
      /\ due' \in [Monitors -> Nat]
      /\ \A n \in Monitors : n # m => due'[n] = due[n]
    <2>1. CASE s \in Publishers
        <3> DEFINE k == Notifying(inbox[s])
        <3>1. k \in Nat
            BY <1>0, <2>1, NotifyingType DEF QueueTypes
        <3>2. due' = [due EXCEPT ![m] = k]
            BY <1>3, <2>1
        <3> HIDE DEF k
        <3>3. due'[m] = k /\ due' \in [Monitors -> Nat]
              /\ \A n \in Monitors : n # m => due'[n] = due[n]
            BY <1>0, <3>1, <3>2 DEF MonitorTypes
        <3>4. s \notin Servers
            BY <2>1, Kinds
        <3> QED
            BY <3>3, <3>4, Zenon DEF k
    <2>2. CASE s \in Servers
        <3>1. due' = [due EXCEPT ![m] = 0] /\ s \notin Publishers
            BY <1>3, <2>2, Kinds
        <3>2. due'[m] = 0 /\ due' \in [Monitors -> Nat]
              /\ \A n \in Monitors : n # m => due'[n] = due[n]
            BY <1>0, <3>1 DEF MonitorTypes
        <3> QED
            BY <3>1, <3>2, Zenon
    <2> QED
        BY <1>4, <2>1, <2>2
<1>7. /\ verbose' \in [Publishers -> BOOLEAN]
      /\ s \in Publishers => verbose'[s]
      /\ \A p \in Publishers : verbose[p] => verbose'[p]
    BY <1>0, <1>3, <1>4 DEF MonitorTypes
<1>8. /\ inbox' \in [Publishers \cup Monitors -> Seq(Event)]
      /\ \A o \in Publishers \cup Monitors : o # m => inbox'[o] = inbox[o]
      /\ s \in Servers => inbox'[m] = <<>>
    <2>1. <<>> \in Seq(Event)
        OBVIOUS
    <2>2. CASE s \in Publishers
        BY <1>0, <1>3, <2>2, Kinds DEF QueueTypes
    <2>3. CASE s \in Servers
        BY <1>0, <1>3, <2>1, <2>3 DEF QueueTypes
    <2> QED
        BY <1>4, <2>2, <2>3
<1>9. MonitorTypes'
    BY <1>0, <1>1, <1>6, <1>7 DEF MonitorTypes
<1>10. QueueTypes'
    BY <1>0, <1>1, <1>8, SendersAssumption DEF QueueTypes
<1>11. Shared'
    <2>1. \A q \in AllSenders : life'[q] = "live" =>
             weak' > 0 /\ context'[q] = weak' /\ made'[q] = weak'
        BY <1>0, <1>2, <1>5, Kinds DEF Shared
    <2>2. \A n \in Monitors : life'[n] = "live" /\ target'[n] \in Servers =>
             weak' > 0 /\ context'[n] = weak' /\ made'[n] = weak'
        BY <1>0, <1>2, <1>5, Kinds DEF Shared
    <2> QED
        BY <1>5, <2>1, <2>2 DEF Shared
<1>12. Attached'
    <2>1. \A n \in Monitors : target[n] \in AllSenders \cup {None}
        BY <1>0 DEF MonitorTypes
    <2>2. \A n \in Monitors : life'[n] = "live" <=> target'[n] # None
        BY <1>0, <1>2, Kinds DEF Attached
    <2>3. \A n, k \in Monitors : target'[n] # None /\ target'[n] = target'[k] => n = k
        BY <1>0, <1>1, <1>2 DEF Attached
    <2>4. ASSUME NEW n \in Monitors, target'[n] \in Publishers
          PROVE  verbose'[target'[n]] /\
                 (life'[target'[n]] = "live" => made'[n] = made'[target'[n]])
        <3>1. CASE n = m
            BY <1>2, <1>5, <1>7, <2>4, <3>1, Kinds
        <3>2. CASE n # m
            <4>1. target'[n] = target[n] /\ target[n] \in Objects /\ target[n] # m
                BY <1>2, <2>4, <3>2, Kinds
            <4>2. life'[target[n]] = life[target[n]] /\ made'[target[n]] = made[target[n]]
                  /\ made'[n] = made[n]
                BY <1>2, <1>5, <3>2, <4>1, Kinds
            <4> QED
                BY <1>0, <1>7, <2>4, <4>1, <4>2 DEF Attached
        <3> QED
            BY <3>1, <3>2
    <2> QED
        BY <2>2, <2>3, <2>4 DEF Attached
<1>13. AddressTypes' /\ AnnouncedLive' /\ AnnouncedReachable'
    BY <1>1, <1>2, Kinds, AddressFrame
<1>14. EveryConnectionNotified'
    <2>1. ASSUME NEW n \in Monitors
          PROVE  life'[n] = "live" /\ life'[target'[n]] = "live" =>
                    notified'[n] + Notifying(inbox'[InboxOf(n)']) = due'[n]
        <3>1. CASE n = m
            <4>1. InboxOf(m)' = IF s \in Publishers THEN s ELSE m
                BY <1>2 DEF InboxOf
            <4>2. CASE s \in Publishers
                <5>1. inbox'[InboxOf(m)'] = inbox[s]
                    BY <1>8, <4>1, <4>2, Kinds
                <5>2. Notifying(inbox[s]) \in Nat
                    BY <1>0, <4>2, NotifyingType DEF QueueTypes
                <5> QED
                    BY <1>2, <1>6, <3>1, <4>2, <5>1, <5>2
            <4>3. CASE s \in Servers
                <5>1. inbox'[InboxOf(m)'] = <<>> /\ <<>> \in Seq(Event)
                    BY <1>8, <4>1, <4>3, Kinds
                <5>2. Notifying(inbox'[InboxOf(m)']) = 0
                    BY <5>1, NotifyingType
                <5> QED
                    BY <1>2, <1>6, <3>1, <4>3, <5>2, Kinds
            <4> QED
                BY <1>4, <4>2, <4>3
        <3>2. CASE n # m /\ target[n] = None
            BY <1>0, <1>2, <3>2, Kinds DEF Attached
        <3>3. CASE n # m /\ target[n] # None
            <4>1. life'[target[n]] = life[target[n]] /\ life'[n] = life[n]
                BY <1>0, <1>2, <3>3, Kinds DEF MonitorTypes
            <4>2. inbox'[InboxOf(n)] = inbox[InboxOf(n)]
                BY <1>8, <3>3, Kinds DEF InboxOf
            <4> QED
                BY <1>2, <1>6, <3>3, <4>1, <4>2, CountFrame
        <3> QED
            BY <3>1, <3>2, <3>3
    <2> QED
        BY <2>1 DEF EveryConnectionNotified
<1>15. WaitStep
    BY <1>2 DEF WaitStep
<1> QED
    BY <1>5, <1>9, <1>10, <1>11, <1>12, <1>13, <1>14, <1>15, InvNext

\* A monitor reads one event, and the others keep theirs.
LEMMA ProcessStep ==
    ASSUME SendersInv, NEW m \in Monitors, Process(m)
    PROVE  SendersInv' /\ WaitStep
<1>0. /\ MonitorTypes /\ QueueTypes /\ Attached /\ EveryConnectionNotified
    BY TypeParts DEF SendersInv
<1> DEFINE b == InboxOf(m)
<1>1. /\ life[m] = "live" /\ inbox[b] # <<>>
      /\ notified' = [notified EXCEPT ![m] =
                        IF Head(inbox[b]) \in {"sub", "accepted"} THEN @ + 1 ELSE @]
      /\ inbox' = [inbox EXCEPT ![b] = Tail(@)]
      /\ UNCHANGED <<contextVars, addressVars, target, verbose, due, connected,
                     created, connects>>
    BY DEF Process
<1>2. b \in Publishers \cup Monitors
    BY InboxExists
<1> HIDE DEF b
<1>3. inbox[b] \in Seq(Event)
    BY <1>0, <1>2 DEF QueueTypes
<1>4. inbox'[b] = Tail(inbox[b]) /\ Tail(inbox[b]) \in Seq(Event)
      /\ \A o \in Publishers \cup Monitors : o # b => inbox'[o] = inbox[o]
    BY <1>0, <1>1, <1>2, <1>3 DEF QueueTypes
<1>5. QueueTypes'
    BY <1>0, <1>1, <1>4 DEF QueueTypes
<1>6. /\ notified[m] \in Nat
      /\ notified'[m] = IF Head(inbox[b]) \in {"sub", "accepted"} THEN notified[m] + 1
                        ELSE notified[m]
      /\ \A n \in Monitors : n # m => notified'[n] = notified[n]
    BY <1>0, <1>1 DEF MonitorTypes
<1>7. MonitorTypes'
    <2>1. notified' \in [Monitors -> Nat]
        BY <1>0, <1>1 DEF MonitorTypes
    <2> QED
        BY <1>0, <1>1, <2>1 DEF MonitorTypes
<1>8. ContextTypes' /\ Shared' /\ Attached' /\ WaitStep
    BY <1>1, SharedFrame
<1>9. AddressTypes' /\ AnnouncedLive' /\ AnnouncedReachable'
    BY <1>1, AddressFrame DEF contextVars
<1>10. life' = life /\ target' = target /\ due' = due
    BY <1>1 DEF contextVars
<1>11. EveryConnectionNotified'
    <2>1. ASSUME NEW n \in Monitors
          PROVE  life'[n] = "live" /\ life'[target'[n]] = "live" =>
                    notified'[n] + Notifying(inbox'[InboxOf(n)']) = due'[n]
        <3>1. CASE n = m
            <4>1. InboxOf(m)' = b
                BY <1>10 DEF InboxOf, b
            <4>2. Notifying(inbox[b]) = Notifying(inbox'[b]) +
                     (IF Head(inbox[b]) \in {"sub", "accepted"} THEN 1 ELSE 0)
                BY <1>1, <1>3, <1>4, NotifyingTail
            <4>3. Notifying(inbox[b]) \in Nat /\ Notifying(inbox'[b]) \in Nat
                BY <1>3, <1>4, NotifyingType
            <4>4. notified'[m] + Notifying(inbox'[b]) = notified[m] + Notifying(inbox[b])
                BY <1>6, <4>2, <4>3
            <4>5. life[m] = "live" /\ life[target[m]] = "live" =>
                     notified[m] + Notifying(inbox[b]) = due[m]
                BY <1>0 DEF EveryConnectionNotified, b
            <4> QED
                BY <1>10, <3>1, <4>1, <4>4, <4>5
        <3>2. CASE n # m
            <4>1. InboxOf(n) # b /\ InboxOf(n) \in Publishers \cup Monitors
                BY <1>0, <1>1, <3>2, InboxesDiffer, InboxExists DEF Attached, b
            <4> QED
                BY <1>4, <1>6, <1>10, <3>2, <4>1, CountFrame
        <3> QED
            BY <3>1, <3>2
    <2> QED
        BY <2>1 DEF EveryConnectionNotified
<1> QED
    BY <1>5, <1>7, <1>8, <1>9, <1>11, InvNext

\* What a sender's monitor is told arrives in the queue that monitor reads, and in
\* none that another reads.
LEMMA ToldFacts ==
    ASSUME MonitorTypes, QueueTypes, Attached,
           NEW s \in AllSenders, NEW e \in Event, Told(s, e)
    PROVE  /\ inbox' \in [Publishers \cup Monitors -> Seq(Event)]
           /\ \A m \in Monitors :
                 /\ target[m] = s => inbox'[InboxOf(m)] = Append(inbox[InboxOf(m)], e)
                 /\ target[m] # s => inbox'[InboxOf(m)] = inbox[InboxOf(m)]
<1>1. /\ inbox \in [Publishers \cup Monitors -> Seq(Event)]
      /\ DOMAIN inbox = Publishers \cup Monitors
    BY DEF QueueTypes
<1>2. \A q \in Seq(Event) : Append(q, e) \in Seq(Event)
    OBVIOUS
<1>3. CASE s \in Publishers
    <2>1. inbox' = [inbox EXCEPT ![s] = Append(inbox[s], e)]
        BY <1>3 DEF Told
    <2>2. inbox' \in [Publishers \cup Monitors -> Seq(Event)]
        BY <1>1, <1>2, <1>3, <2>1
    <2>3. /\ inbox'[s] = Append(inbox[s], e)
          /\ \A o \in Publishers \cup Monitors : o # s => inbox'[o] = inbox[o]
        BY <1>1, <1>3, <2>1
    <2> QED
        BY <1>3, <2>2, <2>3, Kinds DEF InboxOf
<1>4. CASE s \in Servers
    <2>1. inbox' = [o \in Publishers \cup Monitors |->
                       IF o \in Monitors /\ target[o] = s THEN Append(inbox[o], e)
                       ELSE inbox[o]]
        BY <1>1, <1>4, Kinds DEF Told
    <2>2. inbox' \in [Publishers \cup Monitors -> Seq(Event)]
        BY <1>1, <1>2, <2>1
    <2>3. \A o \in Publishers \cup Monitors :
             /\ o \in Monitors /\ target[o] = s => inbox'[o] = Append(inbox[o], e)
             /\ ~(o \in Monitors /\ target[o] = s) => inbox'[o] = inbox[o]
        BY <2>1
    <2>4. \A m \in Monitors :
             InboxOf(m) = IF target[m] \in Publishers THEN target[m] ELSE m
        BY DEF InboxOf
    <2> QED
        BY <1>4, <2>2, <2>3, <2>4, Kinds
<1> QED
    BY <1>3, <1>4 DEF AllSenders

\* A connection is due to be notified, and the monitor is told: a publisher with a
\* monitor is verbose.
LEMMA ConnectStep ==
    ASSUME SendersInv, NEW p \in Peers, NEW s \in AllSenders, Connect(p, s)
    PROVE  SendersInv' /\ WaitStep
<1>0. /\ MonitorTypes /\ QueueTypes /\ Attached /\ EveryConnectionNotified
    BY TypeParts DEF SendersInv
<1>1. /\ connects < MaxConnects /\ connects' = connects + 1
      /\ connected' = [connected EXCEPT ![s] = @ \cup {p}]
      /\ due' = [m \in Monitors |-> IF target[m] = s THEN due[m] + 1 ELSE due[m]]
      /\ UNCHANGED <<contextVars, addressVars, target, verbose, notified, created>>
    BY DEF Connect
<1>2. /\ inbox' \in [Publishers \cup Monitors -> Seq(Event)]
      /\ \A m \in Monitors :
            /\ target[m] = s => \E e \in {"sub", "accepted"} :
                  inbox'[InboxOf(m)] = Append(inbox[InboxOf(m)], e)
            /\ target[m] # s => inbox'[InboxOf(m)] = inbox[InboxOf(m)]
    <2>1. "sub" \in Event /\ "accepted" \in Event
        BY DEF Event
    <2>2. ASSUME NEW e \in {"sub", "accepted"}, Told(s, e)
          PROVE  /\ inbox' \in [Publishers \cup Monitors -> Seq(Event)]
                 /\ \A m \in Monitors :
                       /\ target[m] = s =>
                             inbox'[InboxOf(m)] = Append(inbox[InboxOf(m)], e)
                       /\ target[m] # s => inbox'[InboxOf(m)] = inbox[InboxOf(m)]
        BY <1>0, <2>1, <2>2, ToldFacts
    <2>3. CASE inbox' = inbox /\ s \notin Servers /\ ~ verbose[s]
        <3>1. \A m \in Monitors : target[m] # s
            BY <1>0, <2>3 DEF Attached, AllSenders
        <3> QED
            BY <1>0, <2>3, <3>1 DEF QueueTypes
    <2> QED
        BY <2>2, <2>3 DEF Connect
<1>3. life' = life /\ target' = target /\ notified' = notified
    BY <1>1 DEF contextVars
<1>4. QueueTypes'
    <2>1. connected' \in [AllSenders -> SUBSET Peers]
        BY <1>0, <1>1 DEF QueueTypes
    <2> QED
        BY <1>0, <1>1, <1>2, <2>1, SendersAssumption DEF QueueTypes
<1>5. MonitorTypes'
    BY <1>0, <1>1 DEF MonitorTypes
<1>6. ContextTypes' /\ Shared' /\ Attached' /\ WaitStep
    BY <1>1, SharedFrame
<1>7. AddressTypes' /\ AnnouncedLive' /\ AnnouncedReachable'
    BY <1>1, AddressFrame DEF contextVars
<1>8. EveryConnectionNotified'
    <2>1. ASSUME NEW n \in Monitors
          PROVE  life'[n] = "live" /\ life'[target'[n]] = "live" =>
                    notified'[n] + Notifying(inbox'[InboxOf(n)']) = due'[n]
        <3>1. CASE target[n] = s
            <4>1. InboxOf(n)' = InboxOf(n)
                BY <1>3 DEF InboxOf
            <4>2. PICK e \in {"sub", "accepted"} :
                     inbox'[InboxOf(n)] = Append(inbox[InboxOf(n)], e)
                BY <1>2, <3>1
            <4>3. inbox[InboxOf(n)] \in Seq(Event) /\ e \in Event
                BY <1>0, InboxExists DEF QueueTypes, Event
            <4>4. Notifying(inbox'[InboxOf(n)]) = Notifying(inbox[InboxOf(n)]) + 1
                BY <4>2, <4>3, NotifyingAppend
            <4>5. Notifying(inbox[InboxOf(n)]) \in Nat /\ notified[n] \in Nat /\ due[n] \in Nat
                BY <1>0, <4>3, NotifyingType DEF MonitorTypes
            <4>6. due'[n] = due[n] + 1
                BY <1>1, <3>1
            <4>7. life[n] = "live" /\ life[target[n]] = "live" =>
                     notified[n] + Notifying(inbox[InboxOf(n)]) = due[n]
                BY <1>0 DEF EveryConnectionNotified
            <4> QED
                BY <1>3, <4>1, <4>4, <4>5, <4>6, <4>7
        <3>2. CASE target[n] # s
            <4>1. due'[n] = due[n] /\ inbox'[InboxOf(n)] = inbox[InboxOf(n)]
                BY <1>1, <1>2, <3>2
            <4> QED
                BY <1>3, <4>1, CountFrame
        <3> QED
            BY <3>1, <3>2
    <2> QED
        BY <2>1 DEF EveryConnectionNotified
<1> QED
    BY <1>4, <1>5, <1>6, <1>7, <1>8, InvNext

\* The end of a connection adds no notification.
LEMMA DisconnectStep ==
    ASSUME SendersInv, NEW p \in Peers, NEW s \in AllSenders, Disconnect(p, s)
    PROVE  SendersInv' /\ WaitStep
<1>0. /\ MonitorTypes /\ QueueTypes /\ Attached /\ EveryConnectionNotified
    BY TypeParts DEF SendersInv
<1>1. /\ connected' = [connected EXCEPT ![s] = @ \ {p}]
      /\ UNCHANGED <<contextVars, addressVars, monitorVars, created, connects>>
    BY DEF Disconnect
<1>2. /\ inbox' \in [Publishers \cup Monitors -> Seq(Event)]
      /\ \A m \in Monitors : Notifying(inbox'[InboxOf(m)]) = Notifying(inbox[InboxOf(m)])
    <2>1. "unsub" \in Event /\ "disconnected" \in Event
        BY DEF Event
    <2>2. ASSUME NEW e \in {"unsub", "disconnected"}, Told(s, e)
          PROVE  /\ inbox' \in [Publishers \cup Monitors -> Seq(Event)]
                 /\ \A m \in Monitors :
                       Notifying(inbox'[InboxOf(m)]) = Notifying(inbox[InboxOf(m)])
        <3>1. e \in Event /\ e \notin {"sub", "accepted"}
            BY <2>1
        <3>2. /\ inbox' \in [Publishers \cup Monitors -> Seq(Event)]
              /\ \A m \in Monitors :
                    /\ target[m] = s => inbox'[InboxOf(m)] = Append(inbox[InboxOf(m)], e)
                    /\ target[m] # s => inbox'[InboxOf(m)] = inbox[InboxOf(m)]
            BY <1>0, <2>2, <3>1, ToldFacts
        <3>3. ASSUME NEW m \in Monitors, target[m] = s
              PROVE  Notifying(inbox'[InboxOf(m)]) = Notifying(inbox[InboxOf(m)])
            <4>1. inbox[InboxOf(m)] \in Seq(Event)
                BY <1>0, InboxExists DEF QueueTypes
            <4>2. Notifying(inbox[InboxOf(m)]) \in Nat
                BY <4>1, NotifyingType
            <4>3. Notifying(Append(inbox[InboxOf(m)], e)) = Notifying(inbox[InboxOf(m)])
                BY <3>1, <4>1, <4>2, NotifyingAppend
            <4>4. inbox'[InboxOf(m)] = Append(inbox[InboxOf(m)], e)
                BY <3>2, <3>3
            <4> QED
                BY <4>3, <4>4, Zenon
        <3> QED
            BY <3>2, <3>3
    <2>3. CASE inbox' = inbox
        BY <1>0, <2>3 DEF QueueTypes
    <2> QED
        BY <2>2, <2>3 DEF Disconnect
<1>3. life' = life /\ target' = target /\ verbose' = verbose
      /\ notified' = notified /\ due' = due
    BY <1>1 DEF contextVars, monitorVars
<1>4. QueueTypes'
    <2>1. connected' \in [AllSenders -> SUBSET Peers]
        BY <1>0, <1>1 DEF QueueTypes
    <2> QED
        BY <1>0, <1>1, <1>2, <2>1 DEF QueueTypes
<1>5. MonitorTypes'
    BY <1>0, <1>3 DEF MonitorTypes
<1>6. ContextTypes' /\ Shared' /\ Attached' /\ WaitStep
    BY <1>1, <1>3, SharedFrame
<1>7. AddressTypes' /\ AnnouncedLive' /\ AnnouncedReachable'
    BY <1>1, <1>3, AddressFrame
<1>8. EveryConnectionNotified'
    <2>1. \A m \in Monitors : InboxOf(m)' = InboxOf(m)
        BY <1>3 DEF InboxOf
    <2> QED
        BY <1>0, <1>2, <1>3, <2>1 DEF EveryConnectionNotified
<1> QED
    BY <1>4, <1>5, <1>6, <1>7, <1>8, InvNext

\* Every step keeps the invariant, and waits only for a monitor.
LEMMA SendersStep == SendersInv /\ [Next]_vars => SendersInv' /\ WaitStep
<1> SUFFICES ASSUME SendersInv, [Next]_vars PROVE SendersInv' /\ WaitStep
    OBVIOUS
<1>1. ASSUME NEW s \in AllSenders,
             \/ \E a \in Arguments : Construct(s, a)
             \/ DestroySender(s)
             \/ \E m \in Monitors : CreateMonitor(m, s)
             \/ \E p \in Peers : Connect(p, s) \/ Disconnect(p, s)
      PROVE  SendersInv' /\ WaitStep
    BY <1>1, ConstructStep, DestroySenderStep, CreateMonitorStep, ConnectStep,
       DisconnectStep
<1>2. ASSUME NEW m \in Monitors,
             DestroyPublisherMonitor(m) \/ DestroyServerMonitor(m) \/ Process(m)
      PROVE  SendersInv' /\ WaitStep
    BY <1>2, DestroyPublisherMonitorStep, DestroyServerMonitorStep, ProcessStep
<1>3. CASE UNCHANGED vars
    <2>1. /\ UNCHANGED <<contextVars, addressVars, monitorVars, inbox, connected, created,
                         connects>>
          /\ life' = life /\ target' = target /\ verbose' = verbose
          /\ notified' = notified /\ due' = due
        BY <1>3 DEF vars, contextVars, monitorVars
    <2>2. ContextTypes' /\ Shared' /\ Attached' /\ WaitStep
        BY <2>1, SharedFrame
    <2>3. AddressTypes' /\ AnnouncedLive' /\ AnnouncedReachable'
        BY <2>1, AddressFrame
    <2>4. MonitorTypes' /\ QueueTypes'
        BY <2>1, TypeParts DEF SendersInv, MonitorTypes, QueueTypes
    <2>5. EveryConnectionNotified'
        BY <2>1 DEF SendersInv, EveryConnectionNotified, InboxOf
    <2> QED
        BY <2>2, <2>3, <2>4, <2>5, InvNext
<1> QED
    BY <1>1, <1>2, <1>3 DEF Next

\* The invariant holds always.
LEMMA SendersInvariant == Spec => []SendersInv
BY SendersInit, SendersStep, PTL DEF Spec

-----------------------------------------------------------------------------
(* What is shown *)

\* Types are kept, and all sockets of the process are in one context, however
\* objects come and go (context.cpp 16-30).
THEOREM OneContextShared == Spec => []ContextInv
<1>1. SendersInv => ContextInv
    <2> SUFFICES ASSUME SendersInv PROVE OneContext
        BY DEF SendersInv, ContextInv
    <2>1. \A o \in Objects : context[o] \in {0, weak}
        BY DEF SendersInv, Shared
    <2> QED
        BY <2>1 DEF OneContext
<1> QED
    BY <1>1, SendersInvariant, PTL

\* A monitor has notified, or has still to read, every connection since it exists
\* and no other (monitor.cpp 42-89, 130-173).
THEOREM ConnectionsNotified == Spec => []EveryConnectionNotified
<1>1. SendersInv => EveryConnectionNotified
    BY DEF SendersInv
<1> QED
    BY <1>1, SendersInvariant, PTL

\* What is announced is what the socket is bound to, and nobody else announces it
\* (detail/sender.cpp, publisher.cpp, server.cpp).
THEOREM AnnouncementsReachable == Spec => []AnnouncedReachable
<1>1. SendersInv => AnnouncedReachable
    BY DEF SendersInv
<1> QED
    BY <1>1, SendersInvariant, PTL

\* A destructor waits in zmq_ctx_destroy only for a monitor that outlives its sender
\* (detail/sender.h 20, monitor.cpp 114-128).
THEOREM DestructorsWait == Spec => WaitsOnlyForMonitors
<1>1. SendersInv /\ [Next]_vars =>
         [\A o \in Objects : life[o] = "live" /\ life'[o] = "waiting" =>
             \E m \in Monitors : life[m] = "live" /\ life'[target[m]] # "live"]_vars
    BY SendersStep DEF WaitStep
<1> QED
    BY <1>1, SendersInvariant, PTL DEF Spec, WaitsOnlyForMonitors
=============================================================================
