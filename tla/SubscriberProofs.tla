-------------------------- MODULE SubscriberProofs --------------------------
(***************************************************************************)
(* Proofs about Subscriber, for any publishers, events and bounds: socket   *)
(* filters and event functions agree, although they are changed one by one  *)
(* by subscriptions, event functions, zeroconf and a Broker.                *)
(***************************************************************************)
EXTENDS Subscriber, FiniteSetsExt, FiniteSetTheorems, NaturalsInduction,
        WellFoundedInduction, TLAPS, SequenceTheorems

(* Sets of natural numbers *)

\* A set of natural numbers that has an element has a least one.
LEMMA LeastNumber ==
    ASSUME NEW T, T \subseteq Nat, T # {}
    PROVE  \E x \in T : \A y \in T : x <= y
<1> DEFINE R == {ss \in Nat \X Nat : ss[1] < ss[2]}
<1>1. IsWellFoundedOn(R, Nat)
    BY NatLessThanWellFounded DEF OpToRel
<1>2. \A x, y \in Nat : y < x => <<y, x>> \in R
    OBVIOUS
<1> HIDE DEF R
<1>3. PICK x \in T : \A y \in T : ~ (<<y, x>> \in R)
    BY <1>1, WFMin, Zenon
<1>4. \A y \in T : ~ (y < x)
    BY <1>2, <1>3
<1> QED
    BY <1>4

\* Min gives it.
LEMMA MinFacts ==
    ASSUME NEW T, T \subseteq Nat, T # {}
    PROVE  Min(T) \in T /\ \A y \in T : Min(T) <= y
<1>1. \E x \in T : \A y \in T : x <= y
    BY LeastNumber
<1> QED
    BY <1>1 DEF Min

\* How many numbers of K come up to j.
PlaceIn(K, j) == Cardinality({k \in K : k <= j})

\* Among the numbers up to n, those of K have the places 1 to |K|.
LEMMA PlaceExists ==
    ASSUME NEW n \in Nat, NEW K, K \subseteq 1 .. n,
           NEW i \in Nat, i >= 1, i <= Cardinality(K)
    PROVE  \E j \in K : PlaceIn(K, j) = i
<1> DEFINE A(j) == {k \in K : k <= j}
           T == {j \in 0 .. n : Cardinality(A(j)) >= i}
<1>1. /\ IsFiniteSet(K)
      /\ \A k \in K : k \in Nat /\ 1 <= k /\ k <= n
    <2>1. 1 \in Int /\ n \in Int
        OBVIOUS
    <2>2. IsFiniteSet(1 .. n)
        BY <2>1, FS_Interval
    <2>3. IsFiniteSet(K)
        BY <2>2, FS_Subset
    <2> QED
        BY <2>3
<1>2. \A j \in 0 .. n : IsFiniteSet(A(j)) /\ Cardinality(A(j)) \in Nat
    <2>1. \A j : A(j) \subseteq K
        OBVIOUS
    <2> HIDE DEF A
    <2> QED
        BY <1>1, <2>1, FS_Subset, FS_CardinalityType
<1>3. n \in T
    <2>1. A(n) = K
        BY <1>1
    <2> QED
        BY <2>1
<1>4. PICK x \in T : \A y \in T : x <= y
    <2>1. T \subseteq Nat
        OBVIOUS
    <2> HIDE DEF T
    <2> QED
        BY <1>3, <2>1, LeastNumber
<1>5. x # 0
    <2>1. A(0) = {}
        <3>1. \A k \in K : ~ (k <= 0)
            BY <1>1
        <3> QED
            BY <3>1
    <2>2. Cardinality(A(0)) = 0
        BY <2>1, FS_EmptySet
    <2> QED
        BY <2>2
<1>6. x \in 1 .. n /\ x - 1 \in 0 .. n /\ Cardinality(A(x)) >= i
    BY <1>5
<1>7. Cardinality(A(x - 1)) < i
    <2>1. x - 1 \notin T
        <3> HIDE DEF T
        <3>1. x - 1 \in T => x <= x - 1
            BY <1>4
        <3> QED
            BY <1>6, <3>1
    <2>2. Cardinality(A(x - 1)) \in Nat
        BY <1>2, <1>6
    <2> HIDE DEF A
    <2> QED
        BY <1>6, <2>1, <2>2
<1>8. x \in K /\ A(x) = A(x - 1) \cup {x} /\ x \notin A(x - 1)
    <2>1. x \notin A(x - 1)
        BY <1>6
    <2>2. \A k \in K : k <= x <=> (k <= x - 1 \/ k = x)
        BY <1>1, <1>6
    <2>3. x \notin K => A(x) = A(x - 1)
        BY <2>2
    <2>4. x \in K
        BY <1>2, <1>6, <1>7, <2>3
    <2> QED
        BY <2>1, <2>2, <2>4
<1>9. Cardinality(A(x)) = Cardinality(A(x - 1)) + 1
    <2>1. IsFiniteSet(A(x - 1))
        BY <1>2, <1>6
    <2> HIDE DEF A
    <2> QED
        BY <1>8, <2>1, FS_AddElement
<1>10. Cardinality(A(x)) = i
    <2>1. Cardinality(A(x - 1)) \in Nat
        BY <1>2, <1>6
    <2> QED
        BY <1>6, <1>7, <1>9, <2>1
<1> QED
    BY <1>8, <1>10 DEF PlaceIn

\* Socket numbers are given out in order, so a new socket is not in the table.
Numbered ==
    /\ created \in Nat
    /\ sockets \in [Publishers -> Nat]
    /\ \A p \in Publishers : sockets[p] <= created

FilterTypes ==
    /\ funcs \in SUBSET Events
    /\ DOMAIN filter = Socket
    /\ created <= MaxSockets

FilterInv == Numbered /\ FilterTypes /\ FiltersMatch

\* Connecting gives the new socket the current subscriptions and leaves the
\* other connected sockets alone.
LEMMA ConnectFilters ==
    ASSUME FilterInv, NEW p \in Publishers, Connect(p), UNCHANGED funcs
    PROVE  FilterInv'
<1> DEFINE s == created + 1
<1>1. /\ s \in Socket /\ created' = s
      /\ sockets' = [sockets EXCEPT ![p] = s]
      /\ filter' = [filter EXCEPT ![s] = {MEERKAT} \cup funcs]
    BY SubscriberAssumption
    DEF Connect, CreateSocket, Socket, FilterInv, Numbered, FilterTypes
<1>2. Numbered' /\ FilterTypes'
    BY <1>1, SubscriberAssumption DEF FilterInv, Numbered, FilterTypes, Socket
<1>3. FiltersMatch'
    <2>1. SUFFICES ASSUME NEW t \in Open' PROVE filter'[t] = {MEERKAT} \cup funcs'
        BY DEF FiltersMatch
    <2>2. t = s \/ (t \in Open /\ t # s)
        BY <1>1 DEF Open, FilterInv, Numbered
    <2>3. t \in Socket
        BY <1>1, <2>2, SubscriberAssumption
        DEF Open, FilterInv, Numbered, FilterTypes, Socket
    <2> QED
        BY <1>1, <2>2, <2>3 DEF FilterInv, FilterTypes, FiltersMatch
<1> QED
    BY <1>2, <1>3 DEF FilterInv

\* Every step keeps filters and event functions in agreement.
LEMMA FilterStep == FilterInv /\ [Next]_vars => FilterInv'
<1> SUFFICES ASSUME FilterInv, [Next]_vars PROVE FilterInv'
    OBVIOUS
<1>0. Open \subseteq Socket
    BY SubscriberAssumption DEF Open, FilterInv, Numbered, FilterTypes, Socket
<1>1. ASSUME NEW p \in Publishers, InstanceAdded(p) PROVE FilterInv'
    BY <1>1, ConnectFilters DEF InstanceAdded
<1>2. ASSUME NEW p \in Publishers, AddConnection(p) PROVE FilterInv'
    BY <1>2, ConnectFilters DEF AddConnection
<1>3. ASSUME NEW p \in Publishers, InstanceRemoved(p) PROVE FilterInv'
    <2>1. /\ sockets' = [sockets EXCEPT ![p] = 0]
          /\ UNCHANGED <<created, filter, funcs>>
        BY <1>3 DEF InstanceRemoved
    <2>2. Numbered' /\ FilterTypes'
        BY <2>1 DEF FilterInv, Numbered, FilterTypes
    <2>3. Open' \subseteq Open
        BY <2>1 DEF Open, FilterInv, Numbered
    <2> QED
        BY <2>1, <2>2, <2>3 DEF FilterInv, FiltersMatch
<1>4. ASSUME NEW e \in Events, Subscribe(e) PROVE FilterInv'
    <2>1. /\ UNCHANGED <<created, sockets>>
          /\ funcs' = funcs \cup {e} /\ filter' = AddFilter(e)
        BY <1>4 DEF Subscribe
    <2>2. Numbered' /\ FilterTypes'
        BY <2>1 DEF FilterInv, Numbered, FilterTypes, AddFilter
    <2>3. Open' = Open
        BY <2>1 DEF Open
    <2>4. \A s \in Open : filter'[s] = filter[s] \cup {e}
        BY <1>0, <2>1 DEF AddFilter
    <2> QED
        BY <2>1, <2>2, <2>3, <2>4 DEF FilterInv, FiltersMatch
<1>5. ASSUME NEW e \in Events, Unsubscribe(e) PROVE FilterInv'
    <2>1. /\ UNCHANGED <<created, sockets>>
          /\ funcs' = funcs \ {e} /\ filter' = DropFilter(e)
        BY <1>5 DEF Unsubscribe
    <2>2. Numbered' /\ FilterTypes'
        BY <2>1 DEF FilterInv, Numbered, FilterTypes, DropFilter
    <2>3. Open' = Open
        BY <2>1 DEF Open
    <2>4. \A s \in Open : filter'[s] = filter[s] \ {e}
        BY <1>0, <2>1 DEF DropFilter
    <2>5. e # MEERKAT
        BY SubscriberAssumption
    <2> QED
        BY <2>1, <2>2, <2>3, <2>4, <2>5 DEF FilterInv, FiltersMatch
<1>6. CASE UNCHANGED <<created, sockets, filter, funcs>>
    BY <1>6 DEF FilterInv, Numbered, FilterTypes, FiltersMatch, Open
<1>7. ASSUME NEW p \in Publishers, NEW e \in Events, Publish(p, e)
      PROVE  UNCHANGED <<created, sockets, filter, funcs>>
    BY <1>7 DEF Publish, tableVars
<1>8. ASSUME NEW p \in Publishers, Withdraw(p) \/ Announce(p)
      PROVE  UNCHANGED <<created, sockets, filter, funcs>>
    BY <1>8 DEF Withdraw, Announce, tableVars
<1>9. ASSUME Poll \/ Process \/ PassEnd \/ UNCHANGED vars
      PROVE  UNCHANGED <<created, sockets, filter, funcs>>
    BY <1>9 DEF Poll, Pass, Process, PassEnd, vars, tableVars
<1> QED
    BY <1>1, <1>2, <1>3, <1>4, <1>5, <1>6, <1>7, <1>8, <1>9 DEF Next

\* Every connected socket filters exactly the events with a function and the
\* one for monitors (subscriber.cpp 67-89, 131-196).
THEOREM FiltersAgree == Spec => []FiltersMatch
<1>1. Init => FilterInv
    BY SubscriberAssumption
    DEF Init, FilterInv, Numbered, FilterTypes, FiltersMatch, Open
<1>2. FilterInv /\ [Next]_vars => FilterInv'
    BY FilterStep
<1>3. FilterInv => FiltersMatch
    BY DEF FilterInv
<1> QED
    BY <1>1, <1>2, <1>3, PTL DEF Spec

-----------------------------------------------------------------------------
(* The order of execution *)

\* Connected sockets belong to one publisher each, and closed ones hold nothing.
OwnSockets ==
    /\ \A p \in Publishers : sockets[p] <= created
    /\ \A p, q \in Publishers : sockets[p] = sockets[q] /\ sockets[p] # 0 => p = q
    /\ \A s \in Socket : s \notin Open => inbox[s] = <<>>

\* The numbers ex were executed in order, and are those of events up to n.
Past(ex, n) ==
    /\ \A i \in DOMAIN ex : ex[i] <= n
    /\ \A i, j \in DOMAIN ex : i < j => ex[i] < ex[j]

\* The queue q holds events of p up to n, in order and after all that is in ex.
Queued(p, q, n, ex) ==
    /\ \A i \in DOMAIN q :
          /\ q[i].from = p /\ q[i].n <= n
          /\ \A k \in DOMAIN ex : ex[k] < q[i].n
    /\ \A i, j \in DOMAIN q : i < j => q[i].n < q[j].n

\* What was executed, then what waits in the socket, then what is published next.
Ordered ==
    \A p \in Publishers :
        /\ Past(executed[p], sent[p])
        /\ sockets[p] # 0 => Queued(p, inbox[sockets[p]], sent[p], executed[p])

DeliveryInv == TypeOK /\ OwnSockets /\ Ordered

TableTypes ==
    /\ created \in 0 .. MaxSockets
    /\ sockets \in [Publishers -> 0 .. MaxSockets]
    /\ entries \in Seq(Socket)
    /\ filter \in [Socket -> SUBSET (Events \cup {MEERKAT})]

QueueTypes ==
    /\ sent \in [Publishers -> 0 .. MaxEvents]
    /\ inbox \in [Socket -> Seq(Message)]
    /\ fetched \in SUBSET Socket
    /\ executed \in [Publishers -> Seq(1 .. MaxEvents)]

PassTypes ==
    /\ pc \in PC
    /\ items \in Seq(Socket) /\ todo \in SUBSET DOMAIN items

RestTypes ==
    /\ visible \in SUBSET Publishers
    /\ funcs \in SUBSET Events
    /\ adds \in [Publishers -> 0 .. MaxAdds]

\* The types in their four parts.
LEMMA TypeParts == TypeOK <=> TableTypes /\ QueueTypes /\ PassTypes /\ RestTypes
BY DEF TypeOK, TableTypes, QueueTypes, PassTypes, RestTypes

\* The invariant of the next state in its parts.
LEMMA DeliveryNext ==
    ASSUME TableTypes', QueueTypes', PassTypes', RestTypes', OwnSockets', Ordered'
    PROVE  DeliveryInv'
BY DEF DeliveryInv, TypeOK, TableTypes, QueueTypes, PassTypes, RestTypes

\* std::remove_if leaves a list of the same elements.
LEMMA RemoveIfType ==
    ASSUME NEW S, NEW seq \in Seq(S), NEW s
    PROVE  RemoveIf(seq, s) \in Seq(S)
<1> DEFINE kept == {j \in DOMAIN seq : seq[j] # s}
           At(i) == CHOOSE j \in kept : PlaceIn(kept, j) = i
<1>1. /\ Len(seq) \in Nat /\ DOMAIN seq = 1 .. Len(seq)
      /\ \A j \in 1 .. Len(seq) : seq[j] \in S
    OBVIOUS
<1>2. kept \subseteq 1 .. Len(seq)
    BY <1>1
<1>3. ASSUME NEW i \in 1 .. Len(seq), i <= Cardinality(kept) PROVE At(i) \in kept
    <2>1. \E j \in kept : PlaceIn(kept, j) = i
        <3> HIDE DEF kept
        <3>1. i \in Nat /\ i >= 1
            OBVIOUS
        <3> QED
            BY <1>1, <1>2, <1>3, <3>1, PlaceExists
    <2> QED
        BY <2>1
<1>4. RemoveIf(seq, s) = [i \in 1 .. Len(seq) |->
                             IF i <= Cardinality(kept) THEN seq[At(i)] ELSE seq[i]]
    BY <1>1 DEF RemoveIf, PlaceIn
<1> HIDE DEF At
<1>5. \A i \in 1 .. Len(seq) :
         (IF i <= Cardinality(kept) THEN seq[At(i)] ELSE seq[i]) \in S
    BY <1>1, <1>2, <1>3
<1> QED
    BY <1>1, <1>4, <1>5

\* Reading a socket skips from the front only.
LEMMA MatchingFacts ==
    ASSUME NEW s, inbox[s] \in Seq(Message)
    PROVE  \E d \in Nat :
              /\ Matching(s) \in Seq(Message)
              /\ Len(Matching(s)) + d = Len(inbox[s])
              /\ \A i \in 1 .. Len(Matching(s)) :
                    i + d \in 1 .. Len(inbox[s]) /\ Matching(s)[i] = inbox[s][i + d]
<1> DEFINE q == inbox[s]
           hits == {i \in DOMAIN q : q[i].event \in filter[s]}
<1>1. q \in Seq(Message) /\ Len(q) \in Nat /\ DOMAIN q = 1 .. Len(q)
    OBVIOUS
<1>2. CASE s \in fetched
    <2>1. Matching(s) = q
        BY <1>2 DEF Matching
    <2> HIDE DEF q
    <2>2. 0 \in Nat /\ Len(q) + 0 = Len(q) /\ \A i \in 1 .. Len(q) : i + 0 = i
        BY <1>1
    <2> QED
        BY <1>1, <2>1, <2>2 DEF q
<1>3. CASE s \notin fetched /\ hits = {}
    <2>1. Matching(s) = <<>>
        BY <1>3 DEF Matching
    <2>2. Len(<<>>) + Len(q) = Len(q) /\ <<>> \in Seq(Message)
        BY <1>1
    <2> QED
        BY <1>1, <2>1, <2>2
<1>4. CASE s \notin fetched /\ hits # {}
    <2>1. Matching(s) = SubSeq(q, Min(hits), Len(q))
        BY <1>4 DEF Matching
    <2>2. hits \subseteq 1 .. Len(q)
        BY <1>1
    <2>3. Min(hits) \in 1 .. Len(q)
        <3> HIDE DEF hits, q
        <3>1. hits \subseteq Nat
            BY <2>2
        <3> QED
            BY <1>4, <2>2, <3>1, MinFacts
    <2> DEFINE a == Min(hits)
               r == SubSeq(q, a, Len(q))
    <2>4. a \in 1 .. Len(q)
        BY <2>3
    <2> HIDE DEF a, q
    <2>5. /\ a - 1 \in Nat /\ r \in Seq(Message) /\ Len(r) + (a - 1) = Len(q)
          /\ \A i \in 1 .. Len(r) : i + (a - 1) \in 1 .. Len(q) /\ r[i] = q[i + (a - 1)]
        BY <1>1, <2>4
    <2> HIDE DEF r
    <2> QED
        <3>1. Matching(s) = r
            BY <2>1 DEF r, a
        <3> QED
            BY <2>5, <3>1 DEF q
<1> QED
    BY <1>2, <1>3, <1>4

\* The messages of a queue have numbers.
LEMMA MessageNumbers ==
    ASSUME NEW q \in Seq(Message)
    PROVE  \A i \in DOMAIN q : q[i] \in Message /\ q[i].n \in Nat
<1>1. \A i \in DOMAIN q : q[i] \in Message
    OBVIOUS
<1>2. \A m \in Message : m.n \in 1 .. MaxEvents
    BY DEF Message
<1>3. \A x \in 1 .. MaxEvents : x \in Nat
    BY SubscriberAssumption
<1> QED
    BY <1>1, <1>2, <1>3

\* A queue read from the front stays one.
LEMMA QueuedSuffix ==
    ASSUME NEW p, NEW n, NEW ex, NEW q \in Seq(Message), Queued(p, q, n, ex),
           NEW r \in Seq(Message), NEW d \in Nat,
           \A i \in 1 .. Len(r) : i + d \in 1 .. Len(q) /\ r[i] = q[i + d]
    PROVE  Queued(p, r, n, ex)
<1>1. DOMAIN r = 1 .. Len(r) /\ DOMAIN q = 1 .. Len(q) /\ Len(r) \in Nat
    OBVIOUS
<1>2. ASSUME NEW i \in DOMAIN r
      PROVE  r[i].from = p /\ r[i].n <= n /\ \A k \in DOMAIN ex : ex[k] < r[i].n
    BY <1>1 DEF Queued
<1>3. ASSUME NEW i \in DOMAIN r, NEW j \in DOMAIN r, i < j
      PROVE  r[i].n < r[j].n
    <2>1. i + d < j + d /\ i + d \in DOMAIN q /\ j + d \in DOMAIN q
        BY <1>1, <1>3
    <2>2. q[i + d].n < q[j + d].n
        BY <2>1 DEF Queued
    <2> QED
        BY <1>1, <2>2
<1> QED
    BY <1>2, <1>3 DEF Queued

\* Nothing waits in a socket that is new or closed.
LEMMA QueuedEmpty == \A p, n, ex : Queued(p, <<>>, n, ex)
<1>1. DOMAIN <<>> = {}
    OBVIOUS
<1> QED
    BY <1>1 DEF Queued

\* The facts every step starts from.
LEMMA DeliveryParts ==
    ASSUME DeliveryInv
    PROVE  /\ TableTypes /\ QueueTypes /\ PassTypes /\ RestTypes /\ OwnSockets /\ Ordered
           /\ 0 \notin Socket /\ Open \subseteq Socket
           /\ \A p \in Publishers : sockets[p] # 0 => sockets[p] \in Open
<1>1. TableTypes /\ QueueTypes /\ PassTypes /\ RestTypes
    BY TypeParts DEF DeliveryInv
<1>2. 0 \notin Socket
    BY DEF Socket
<1>3. \A p \in Publishers : sockets[p] \in 0 .. MaxSockets
    BY <1>1 DEF TableTypes
<1>4. \A x \in 0 .. MaxSockets : x # 0 => x \in Socket
    BY SubscriberAssumption DEF Socket
<1>5. Open \subseteq Socket
    BY <1>3, <1>4 DEF Open
<1>6. \A p \in Publishers : sockets[p] # 0 => sockets[p] \in Open
    BY DEF Open
<1> QED
    BY <1>1, <1>2, <1>5, <1>6 DEF DeliveryInv

\* Nothing that the order depends on has changed.
LEMMA OrderFrame ==
    ASSUME DeliveryInv, UNCHANGED <<created, sockets, inbox, sent, executed>>
    PROVE  OwnSockets' /\ Ordered'
BY DEF DeliveryInv, OwnSockets, Ordered, Open

\* A new socket is empty, and takes the place of the one its publisher had.
LEMMA ConnectDelivery ==
    ASSUME DeliveryInv, NEW p \in Publishers, Connect(p), UNCHANGED <<sent, funcs, executed>>
    PROVE  TableTypes' /\ QueueTypes' /\ OwnSockets' /\ Ordered'
<1> DEFINE s == created + 1
<1>0. /\ TableTypes /\ QueueTypes /\ RestTypes /\ OwnSockets /\ Ordered
      /\ 0 \notin Socket /\ Open \subseteq Socket
    BY DeliveryParts
<1>1. /\ created < MaxSockets /\ created' = s
      /\ sockets' = [sockets EXCEPT ![p] = s]
      /\ entries' = Append(entries, s)
      /\ filter' = [filter EXCEPT ![s] = {MEERKAT} \cup funcs]
      /\ inbox' = [t \in Socket |-> IF t = sockets[p] THEN <<>> ELSE inbox[t]]
      /\ fetched' = fetched \ {sockets[p]}
    BY DEF Connect, CreateSocket
<1>2. s \in Socket /\ s \in 0 .. MaxSockets /\ s \notin Open /\ s # 0
      /\ \A q \in Publishers : sockets[q] < s
    <2>1. created \in Nat /\ created < MaxSockets /\ MaxSockets \in Nat
        BY <1>0, <1>1, SubscriberAssumption DEF TableTypes
    <2>2. \A q \in Publishers : sockets[q] \in Nat /\ sockets[q] <= created
        BY <1>0, SubscriberAssumption DEF TableTypes, OwnSockets
    <2>3. \A q \in Publishers : sockets[q] < s
        BY <2>1, <2>2
    <2> QED
        BY <2>1, <2>2, <2>3 DEF Socket, Open
<1> HIDE DEF s
<1>3. TableTypes'
    <2>1. {MEERKAT} \cup funcs \in SUBSET (Events \cup {MEERKAT})
        BY <1>0 DEF RestTypes
    <2>2. Append(entries, s) \in Seq(Socket)
        BY <1>0, <1>2 DEF TableTypes
    <2> QED
        BY <1>0, <1>1, <1>2, <2>1, <2>2 DEF TableTypes
<1>4. QueueTypes'
    <2>1. <<>> \in Seq(Message)
        OBVIOUS
    <2>2. inbox' \in [Socket -> Seq(Message)]
        BY <1>0, <1>1, <2>1 DEF QueueTypes
    <2> QED
        BY <1>0, <1>1, <2>2 DEF QueueTypes
<1>5. sockets'[p] = s /\ \A q \in Publishers : q # p => sockets'[q] = sockets[q]
    BY <1>0, <1>1 DEF TableTypes
<1>6. inbox[s] = <<>> /\ inbox'[s] = <<>>
    BY <1>0, <1>1, <1>2 DEF OwnSockets
<1>7. OwnSockets'
    <2>1. \A q \in Publishers : sockets'[q] <= created'
        BY <1>0, <1>1, <1>2, <1>5, SubscriberAssumption DEF TableTypes, OwnSockets, s
    <2>2. \A q, r \in Publishers : sockets'[q] = sockets'[r] /\ sockets'[q] # 0 => q = r
        <3>1. \A q \in Publishers : sockets[q] # s
            BY <1>0, <1>2 DEF Open
        <3> QED
            BY <1>0, <1>5, <3>1 DEF OwnSockets
    <2>3. ASSUME NEW t \in Socket, t \notin Open' PROVE inbox'[t] = <<>>
        <3>1. t # s
            BY <1>2, <1>5, <2>3 DEF Open
        <3>2. CASE t = sockets[p]
            BY <1>1, <2>3, <3>2
        <3>3. CASE t # sockets[p]
            <4>1. t \notin Open
                BY <1>0, <1>5, <2>3, <3>1, <3>3 DEF Open
            <4> QED
                BY <1>0, <1>1, <3>3, <4>1 DEF OwnSockets
        <3> QED
            BY <3>2, <3>3
    <2> QED
        BY <2>1, <2>2, <2>3 DEF OwnSockets
<1>8. Ordered'
    <2>1. ASSUME NEW q \in Publishers, sockets'[q] # 0
          PROVE  Queued(q, inbox'[sockets'[q]], sent'[q], executed'[q])
        <3>1. CASE q = p
            BY <1>5, <1>6, <3>1, QueuedEmpty
        <3>2. CASE q # p
            <4>1. sockets'[q] = sockets[q] /\ sockets[q] # 0 /\ sockets[q] \in Socket
                BY <1>0, <1>5, <2>1, <3>2 DEF Open
            <4>2. sockets[q] # sockets[p]
                BY <1>0, <3>2, <4>1 DEF OwnSockets
            <4>3. inbox'[sockets'[q]] = inbox[sockets[q]]
                BY <1>1, <4>1, <4>2
            <4> QED
                BY <1>0, <4>1, <4>3 DEF Ordered
        <3> QED
            BY <3>1, <3>2
    <2> QED
        BY <1>0, <2>1 DEF Ordered
<1> QED
    BY <1>3, <1>4, <1>7, <1>8

\* A publisher's number is the next one, after all it has published before.
LEMMA PublishDelivery ==
    ASSUME DeliveryInv, NEW p \in Publishers, NEW e \in Events, Publish(p, e)
    PROVE  DeliveryInv'
<1> DEFINE s == sockets[p]
           m == [from |-> p, event |-> e, n |-> sent[p] + 1]
<1>0. /\ TableTypes /\ QueueTypes /\ PassTypes /\ RestTypes /\ OwnSockets /\ Ordered
      /\ 0 \notin Socket /\ Open \subseteq Socket
      /\ \A q \in Publishers : sockets[q] # 0 => sockets[q] \in Open
    BY DeliveryParts
<1>1. /\ sent[p] < MaxEvents
      /\ sent' = [sent EXCEPT ![p] = sent[p] + 1]
      /\ inbox' = inbox \/ (s # 0 /\ inbox' = [inbox EXCEPT ![s] = Append(inbox[s], m)])
      /\ visible' = visible /\ UNCHANGED <<tableVars, passVars>>
      /\ fetched' = fetched /\ funcs' = funcs /\ adds' = adds /\ executed' = executed
    BY DEF Publish
<1>2. TableTypes' /\ PassTypes' /\ RestTypes'
    BY <1>0, <1>1 DEF TableTypes, PassTypes, RestTypes, tableVars, passVars
<1>3. /\ sent[p] \in Nat /\ sent[p] + 1 \in 1 .. MaxEvents /\ sent[p] + 1 \in 0 .. MaxEvents
      /\ m \in Message
    <2>1. sent[p] \in Nat /\ sent[p] + 1 \in 1 .. MaxEvents /\ sent[p] + 1 \in 0 .. MaxEvents
        BY <1>0, <1>1, SubscriberAssumption DEF QueueTypes
    <2> QED
        BY <2>1 DEF Message
<1>4. m.from = p /\ m.n = sent[p] + 1
    OBVIOUS
<1> HIDE DEF m
<1>5. sent'[p] = sent[p] + 1 /\ \A q \in Publishers : q # p => sent'[q] = sent[q]
    BY <1>0, <1>1 DEF QueueTypes
<1>6. ASSUME NEW q \in Publishers PROVE sent[q] \in Nat /\ sent[q] <= sent'[q]
    <2>1. sent[q] \in 0 .. MaxEvents /\ MaxEvents \in Nat
        BY <1>0, SubscriberAssumption DEF QueueTypes
    <2>2. sent'[q] = sent[q] \/ sent'[q] = sent[q] + 1
        BY <1>5
    <2> QED
        BY <2>1, <2>2
<1>7. created' = created /\ sockets' = sockets /\ Open' = Open
    BY <1>1 DEF tableVars, Open
<1>8. \A q \in Publishers : Past(executed'[q], sent'[q])
    <2> SUFFICES ASSUME NEW q \in Publishers PROVE Past(executed[q], sent'[q])
        BY <1>1
    <2>1. \A k \in DOMAIN executed[q] : executed[q][k] \in Nat /\ executed[q][k] <= sent[q]
        BY <1>0, SubscriberAssumption DEF QueueTypes, Ordered, Past
    <2>2. \A k \in DOMAIN executed[q] : executed[q][k] <= sent'[q]
        <3>1. sent[q] \in Nat /\ sent'[q] \in Nat /\ sent[q] <= sent'[q]
            BY <1>3, <1>5, <1>6
        <3> QED
            BY <2>1, <3>1
    <2> QED
        BY <1>0, <2>2 DEF Ordered, Past
<1>9. \A q \in Publishers : sockets[q] # 0 =>
         Queued(q, inbox[sockets[q]], sent'[q], executed[q])
    <2> SUFFICES ASSUME NEW q \in Publishers, sockets[q] # 0
                 PROVE  Queued(q, inbox[sockets[q]], sent'[q], executed[q])
        OBVIOUS
    <2> DEFINE b == inbox[sockets[q]]
    <2>1. b \in Seq(Message)
        BY <1>0 DEF QueueTypes
    <2>2. Queued(q, b, sent[q], executed[q])
        BY <1>0 DEF Ordered
    <2> HIDE DEF b
    <2>3. \A i \in DOMAIN b : b[i].n \in Nat
        BY <2>1, MessageNumbers
    <2>4. sent[q] \in Nat /\ sent'[q] \in Nat /\ sent[q] <= sent'[q]
        BY <1>3, <1>5, <1>6
    <2>5. \A i \in DOMAIN b : b[i].n <= sent'[q]
        BY <2>2, <2>3, <2>4 DEF Queued
    <2> QED
        BY <2>2, <2>5 DEF Queued, b
<1>10. CASE inbox' = inbox
    <2>1. QueueTypes'
        BY <1>0, <1>1, <1>3, <1>10 DEF QueueTypes
    <2>2. OwnSockets'
        BY <1>0, <1>7, <1>10 DEF OwnSockets
    <2>3. Ordered'
        BY <1>1, <1>7, <1>8, <1>9, <1>10 DEF Ordered
    <2> QED
        BY <1>2, <2>1, <2>2, <2>3, DeliveryNext
<1>11. CASE s # 0 /\ inbox' = [inbox EXCEPT ![s] = Append(inbox[s], m)]
    <2>1. s \in Open /\ s \in Socket /\ inbox[s] \in Seq(Message)
        BY <1>0, <1>11 DEF QueueTypes
    <2> DEFINE b == inbox[s]
               c == Append(b, m)
    <2>2. /\ b \in Seq(Message) /\ c \in Seq(Message)
          /\ DOMAIN b = 1 .. Len(b) /\ DOMAIN c = 1 .. Len(b) + 1 /\ Len(b) \in Nat
          /\ c[Len(b) + 1] = m /\ \A i \in 1 .. Len(b) : c[i] = b[i]
        BY <1>3, <2>1
    <2> HIDE DEF b, c
    <2>3. inbox' = [inbox EXCEPT ![s] = c]
        BY <1>11 DEF b, c
    <2>4. QueueTypes'
        <3>1. inbox' \in [Socket -> Seq(Message)]
            BY <1>0, <2>1, <2>2, <2>3 DEF QueueTypes
        <3> QED
            BY <1>0, <1>1, <1>3, <3>1 DEF QueueTypes
    <2>5. inbox'[s] = c /\ \A t \in Socket : t # s => inbox'[t] = inbox[t]
        BY <1>0, <2>1, <2>3 DEF QueueTypes
    <2>6. OwnSockets'
        BY <1>0, <1>7, <2>1, <2>5 DEF OwnSockets
    <2>7. Queued(p, c, sent'[p], executed[p])
        <3>1. Queued(p, b, sent[p], executed[p]) /\ Queued(p, b, sent'[p], executed[p])
            BY <1>0, <1>9, <1>11 DEF Ordered, b
        <3>2. \A i \in 1 .. Len(b) : b[i].n \in Nat /\ b[i].n <= sent[p]
            BY <2>2, <3>1, MessageNumbers DEF Queued
        <3>3. \A k \in DOMAIN executed[p] :
                 executed[p][k] \in Nat /\ executed[p][k] <= sent[p]
            BY <1>0, SubscriberAssumption DEF QueueTypes, Ordered, Past
        <3>4. ASSUME NEW i \in 1 .. Len(b) + 1
              PROVE  /\ c[i].from = p /\ c[i].n <= sent'[p]
                     /\ \A k \in DOMAIN executed[p] : executed[p][k] < c[i].n
            <4>1. CASE i = Len(b) + 1
                BY <1>3, <1>4, <1>5, <2>2, <3>3, <4>1
            <4>2. CASE i \in 1 .. Len(b)
                BY <2>2, <3>1, <4>2 DEF Queued
            <4> QED
                BY <2>2, <4>1, <4>2
        <3>5. ASSUME NEW i \in 1 .. Len(b) + 1, NEW j \in 1 .. Len(b) + 1, i < j
              PROVE  c[i].n < c[j].n
            <4>1. i \in 1 .. Len(b)
                BY <2>2, <3>5
            <4>2. CASE j = Len(b) + 1
                BY <1>3, <1>4, <2>2, <3>2, <4>1, <4>2
            <4>3. CASE j \in 1 .. Len(b)
                BY <2>2, <3>1, <3>5, <4>1, <4>3 DEF Queued
            <4> QED
                BY <2>2, <4>2, <4>3
        <3> QED
            BY <2>2, <3>4, <3>5 DEF Queued
    <2>8. Ordered'
        <3>1. ASSUME NEW q \in Publishers, sockets'[q] # 0
              PROVE  Queued(q, inbox'[sockets'[q]], sent'[q], executed'[q])
            <4>1. CASE q = p
                BY <1>1, <1>7, <2>5, <2>7, <4>1
            <4>2. CASE q # p
                <5>1. sockets[q] # s /\ sockets[q] \in Socket
                    BY <1>0, <1>7, <1>11, <3>1, <4>2 DEF OwnSockets
                <5> QED
                    BY <1>1, <1>7, <1>9, <2>5, <3>1, <5>1
            <4> QED
                BY <4>1, <4>2
        <3> QED
            BY <1>8, <3>1 DEF Ordered
    <2> QED
        BY <1>2, <2>4, <2>6, <2>8, DeliveryNext
<1> QED
    BY <1>1, <1>10, <1>11

\* The socket of a publisher that has gone is closed with what it held.
LEMMA RemovedDelivery ==
    ASSUME DeliveryInv, NEW p \in Publishers, InstanceRemoved(p)
    PROVE  DeliveryInv'
<1> DEFINE s == sockets[p]
<1>0. /\ TableTypes /\ QueueTypes /\ PassTypes /\ RestTypes /\ OwnSockets /\ Ordered
      /\ 0 \notin Socket /\ Open \subseteq Socket
      /\ \A q \in Publishers : sockets[q] # 0 => sockets[q] \in Open
    BY DeliveryParts
<1>1. /\ s # 0 /\ sockets' = [sockets EXCEPT ![p] = 0]
      /\ entries' = RemoveIf(entries, s)
      /\ inbox' = [inbox EXCEPT ![s] = <<>>]
      /\ fetched' = fetched \ {s}
      /\ visible' = visible /\ sent' = sent /\ created' = created /\ filter' = filter
      /\ funcs' = funcs /\ UNCHANGED passVars /\ adds' = adds /\ executed' = executed
    BY DEF InstanceRemoved
<1>2. s \in Socket /\ <<>> \in Seq(Message) /\ 0 \in 0 .. MaxSockets
    BY <1>0, <1>1, SubscriberAssumption
<1>3. PassTypes' /\ RestTypes'
    BY <1>0, <1>1 DEF PassTypes, RestTypes, passVars
<1>4. TableTypes'
    <2>1. RemoveIf(entries, s) \in Seq(Socket)
        BY <1>0, RemoveIfType DEF TableTypes
    <2> QED
        BY <1>0, <1>1, <1>2, <2>1 DEF TableTypes
<1>5. QueueTypes'
    <2>1. inbox' \in [Socket -> Seq(Message)]
        BY <1>0, <1>1, <1>2 DEF QueueTypes
    <2> QED
        BY <1>0, <1>1, <2>1 DEF QueueTypes
<1>6. /\ sockets'[p] = 0 /\ \A q \in Publishers : q # p => sockets'[q] = sockets[q]
      /\ inbox'[s] = <<>> /\ \A t \in Socket : t # s => inbox'[t] = inbox[t]
    BY <1>0, <1>1, <1>2 DEF TableTypes, QueueTypes
<1>7. OwnSockets'
    <2>1. \A q \in Publishers : sockets'[q] <= created'
        <3>1. created \in Nat
            BY <1>0, SubscriberAssumption DEF TableTypes
        <3> QED
            BY <1>0, <1>1, <1>6, <3>1 DEF OwnSockets
    <2>2. \A q, r \in Publishers : sockets'[q] = sockets'[r] /\ sockets'[q] # 0 => q = r
        BY <1>0, <1>6 DEF OwnSockets
    <2>3. ASSUME NEW t \in Socket, t \notin Open' PROVE inbox'[t] = <<>>
        <3>1. CASE t = s
            BY <1>6, <3>1
        <3>2. CASE t # s
            <4>1. t \notin Open
                BY <1>6, <2>3, <3>2 DEF Open
            <4> QED
                BY <1>0, <1>6, <3>2, <4>1 DEF OwnSockets
        <3> QED
            BY <3>1, <3>2
    <2> QED
        BY <2>1, <2>2, <2>3 DEF OwnSockets
<1>8. Ordered'
    <2>1. ASSUME NEW q \in Publishers, sockets'[q] # 0
          PROVE  Queued(q, inbox'[sockets'[q]], sent'[q], executed'[q])
        <3>1. q # p /\ sockets'[q] = sockets[q] /\ sockets[q] # s /\ sockets[q] \in Socket
            BY <1>0, <1>1, <1>6, <2>1 DEF OwnSockets
        <3> QED
            BY <1>0, <1>1, <1>6, <2>1, <3>1 DEF Ordered
    <2> QED
        BY <1>0, <1>1, <2>1 DEF Ordered
<1> QED
    BY <1>3, <1>4, <1>5, <1>7, <1>8, DeliveryNext

\* zmq_poll skips what no filter wants any more, and keeps the order of the rest.
LEMMA PollDelivery ==
    ASSUME DeliveryInv, NEW ready, NEW seen, ready \subseteq Socket, Pass(ready, seen)
    PROVE  DeliveryInv'
<1>0. /\ TableTypes /\ QueueTypes /\ PassTypes /\ RestTypes /\ OwnSockets /\ Ordered
      /\ 0 \notin Socket /\ Open \subseteq Socket
      /\ \A q \in Publishers : sockets[q] # 0 => sockets[q] \in Open
    BY DeliveryParts
<1>1. /\ pc' = "polled" /\ items' = entries
      /\ todo' = {i \in DOMAIN entries : entries[i] \in seen}
      /\ fetched' = fetched \cup ready
      /\ inbox' = [s \in Socket |-> IF s \in Range(entries) THEN Matching(s) ELSE inbox[s]]
      /\ visible' = visible /\ sent' = sent /\ UNCHANGED tableVars
      /\ funcs' = funcs /\ adds' = adds /\ executed' = executed
    BY DEF Pass
<1>2. TableTypes' /\ RestTypes' /\ Open' = Open /\ sockets' = sockets /\ created' = created
    BY <1>0, <1>1 DEF TableTypes, RestTypes, tableVars, Open
<1>3. PassTypes'
    BY <1>0, <1>1 DEF PassTypes, TableTypes, PC
<1>4. ASSUME NEW s \in Socket
      PROVE  \E d \in Nat :
                /\ inbox'[s] \in Seq(Message)
                /\ Len(inbox'[s]) + d = Len(inbox[s])
                /\ \A i \in 1 .. Len(inbox'[s]) :
                      i + d \in 1 .. Len(inbox[s]) /\ inbox'[s][i] = inbox[s][i + d]
    <2>1. inbox[s] \in Seq(Message)
        BY <1>0 DEF QueueTypes
    <2>2. CASE s \in Range(entries)
        <3>1. inbox'[s] = Matching(s)
            BY <1>1, <2>2
        <3> QED
            BY <2>1, <3>1, MatchingFacts
    <2>3. CASE s \notin Range(entries)
        <3>1. inbox'[s] = inbox[s]
            BY <1>1, <2>3
        <3> DEFINE b == inbox[s]
        <3>2. b \in Seq(Message)
            BY <2>1
        <3> HIDE DEF b
        <3>3. /\ 0 \in Nat /\ Len(b) + 0 = Len(b)
              /\ \A i \in 1 .. Len(b) : i + 0 \in 1 .. Len(b) /\ b[i] = b[i + 0]
            BY <3>2
        <3> QED
            BY <3>1, <3>2, <3>3 DEF b
    <2> QED
        BY <2>2, <2>3
<1>5. QueueTypes'
    <2>1. inbox' \in [Socket -> Seq(Message)]
        BY <1>1, <1>4
    <2> QED
        BY <1>0, <1>1, <2>1 DEF QueueTypes
<1>6. OwnSockets'
    <2>1. ASSUME NEW t \in Socket, t \notin Open PROVE inbox'[t] = <<>>
        <3>1. inbox[t] = <<>>
            BY <1>0, <2>1 DEF OwnSockets
        <3>2. PICK d \in Nat : inbox'[t] \in Seq(Message) /\ Len(inbox'[t]) + d = Len(inbox[t])
            BY <1>4, <2>1
        <3>3. Len(inbox[t]) = 0
            BY <3>1
        <3>4. Len(inbox'[t]) = 0
            BY <3>2, <3>3
        <3> QED
            BY <3>2, <3>4
    <2> QED
        BY <1>0, <1>2, <2>1 DEF OwnSockets
<1>7. Ordered'
    <2>1. ASSUME NEW q \in Publishers, sockets[q] # 0
          PROVE  Queued(q, inbox'[sockets[q]], sent[q], executed[q])
        <3>1. sockets[q] \in Socket /\ inbox[sockets[q]] \in Seq(Message)
            BY <1>0, <2>1 DEF QueueTypes
        <3>2. Queued(q, inbox[sockets[q]], sent[q], executed[q])
            BY <1>0, <2>1 DEF Ordered
        <3> QED
            BY <1>4, <3>1, <3>2, QueuedSuffix
    <2> QED
        BY <1>0, <1>1, <1>2, <2>1 DEF Ordered
<1> QED
    BY <1>2, <1>3, <1>5, <1>6, <1>7, DeliveryNext

\* The turn is that of one of the signalled sockets, and it is taken out.
LEMMA TurnFacts ==
    ASSUME PassTypes, todo # {}
    PROVE  Min(todo) \in todo /\ Min(todo) \in DOMAIN items /\ items[Min(todo)] \in Socket
<1>1. todo \subseteq DOMAIN items /\ DOMAIN items = 1 .. Len(items)
      /\ \A i \in DOMAIN items : items[i] \in Socket
    BY DEF PassTypes
<1>2. todo \subseteq Nat
    BY <1>1
<1>3. Min(todo) \in todo
    BY <1>2, MinFacts
<1> QED
    BY <1>1, <1>3

\* However process() ends, the pass goes on with the rest, or is over.
LEMMA PassKept ==
    ASSUME PassTypes, todo # {},
           \/ pc' = "function" /\ Done
           \/ pc' = "idle" /\ items' = <<>> /\ todo' = {}
           \/ pc' = "blocked" /\ items' = items /\ todo' = todo
    PROVE  PassTypes'
<1>1. <<>> \in Seq(Socket)
    OBVIOUS
<1>2. CASE pc' = "function" /\ Done
    <2>1. items' = items /\ todo' \subseteq todo
        BY <1>2 DEF Done
    <2> QED
        BY <1>2, <2>1 DEF PassTypes, PC
<1>3. CASE pc' = "idle" /\ items' = <<>> /\ todo' = {}
    BY <1>1, <1>3 DEF PassTypes, PC
<1>4. CASE pc' = "blocked" /\ items' = items /\ todo' = todo
    BY <1>4 DEF PassTypes, PC
<1> QED
    BY <1>2, <1>3, <1>4

\* process() takes the first message the socket still wants, and executes it after
\* all that came before it.
LEMMA DeliverDelivery ==
    ASSUME DeliveryInv, NEW s \in Open, Matching(s) # <<>>, Deliver(s), todo # {},
           UNCHANGED <<visible, sent, tableVars, funcs, adds>>
    PROVE  DeliveryInv'
<1>0. /\ TableTypes /\ QueueTypes /\ PassTypes /\ RestTypes /\ OwnSockets /\ Ordered
      /\ 0 \notin Socket /\ Open \subseteq Socket
      /\ \A q \in Publishers : sockets[q] # 0 => sockets[q] \in Open
    BY DeliveryParts
<1> DEFINE b == Matching(s)
           m == Head(b)
           c == Tail(b)
<1>1. /\ inbox' = [inbox EXCEPT ![s] = c]
      /\ fetched' = fetched \ {s}
      /\ \/ pc' = "function" /\ Done
         \/ pc' = "idle" /\ items' = <<>> /\ todo' = {}
      /\ \/ executed' = [executed EXCEPT ![m.from] = Append(@, m.n)]
         \/ executed' = executed
    BY DEF Deliver, Throw
<1>2. /\ visible' = visible /\ sent' = sent /\ created' = created /\ sockets' = sockets
      /\ entries' = entries /\ filter' = filter /\ funcs' = funcs /\ adds' = adds
      /\ Open' = Open
    BY DEF tableVars, Open
<1>3. PICK p \in Publishers : s = sockets[p] /\ s # 0
    BY DEF Open
<1>4. s \in Socket /\ inbox[s] \in Seq(Message)
      /\ Queued(p, inbox[s], sent[p], executed[p])
    BY <1>0, <1>3 DEF QueueTypes, Ordered
<1>5. b \in Seq(Message) /\ Queued(p, b, sent[p], executed[p])
    BY <1>4, MatchingFacts, QueuedSuffix
<1>6. b # <<>>
    OBVIOUS
<1> HIDE DEF b
<1>7. /\ Len(b) \in Nat \ {0} /\ DOMAIN b = 1 .. Len(b) /\ m = b[1]
      /\ c \in Seq(Message) /\ DOMAIN c = 1 .. Len(b) - 1
      /\ \A i \in 1 .. Len(b) - 1 : c[i] = b[i + 1]
    BY <1>5, <1>6
<1> HIDE DEF m, c
<1>8. /\ m.from = p /\ m.n \in 1 .. MaxEvents /\ m.n \in Nat /\ m.n <= sent[p]
      /\ \A k \in DOMAIN executed[p] : executed[p][k] < m.n
    <2>1. 1 \in DOMAIN b /\ m \in Message /\ m.n \in Nat
        BY <1>5, <1>7, MessageNumbers
    <2> QED
        BY <1>5, <1>7, <2>1 DEF Queued, Message
<1>9. \A k \in DOMAIN executed[p] : executed[p][k] \in Nat
    BY <1>0, SubscriberAssumption DEF QueueTypes
<1>10. TableTypes' /\ RestTypes'
    BY <1>0, <1>2 DEF TableTypes, RestTypes
<1>11. PassTypes'
    BY <1>0, <1>1, PassKept
<1>12. inbox' \in [Socket -> Seq(Message)]
       /\ inbox'[s] = c /\ \A t \in Socket : t # s => inbox'[t] = inbox[t]
    BY <1>0, <1>1, <1>4, <1>7 DEF QueueTypes
<1>13. OwnSockets'
    BY <1>0, <1>2, <1>12 DEF OwnSockets
<1>14. Queued(p, c, sent[p], executed[p])
    <2>1. \A i \in 1 .. Len(c) : i + 1 \in 1 .. Len(b) /\ c[i] = b[i + 1]
        BY <1>7
    <2>2. 1 \in Nat
        OBVIOUS
    <2> QED
        BY <1>5, <1>7, <2>1, <2>2, QueuedSuffix
<1>15. \A q \in Publishers : q # p /\ sockets[q] # 0 =>
          /\ sockets[q] \in Socket /\ inbox'[sockets[q]] = inbox[sockets[q]]
          /\ Queued(q, inbox[sockets[q]], sent[q], executed[q])
    BY <1>0, <1>3, <1>12 DEF OwnSockets, Ordered
<1>16. CASE executed' = executed
    <2>1. QueueTypes'
        BY <1>0, <1>1, <1>2, <1>12, <1>16 DEF QueueTypes
    <2>2. Ordered'
        BY <1>0, <1>2, <1>3, <1>12, <1>14, <1>15, <1>16 DEF Ordered
    <2> QED
        BY <1>10, <1>11, <1>13, <2>1, <2>2, DeliveryNext
<1>17. CASE executed' = [executed EXCEPT ![m.from] = Append(@, m.n)]
    <2> DEFINE old == executed[p]
               ex == Append(old, m.n)
    <2>1. old \in Seq(1 .. MaxEvents)
        BY <1>0 DEF QueueTypes
    <2> HIDE DEF old
    <2>2. /\ ex \in Seq(1 .. MaxEvents) /\ Len(old) \in Nat
          /\ DOMAIN ex = 1 .. Len(old) + 1 /\ DOMAIN old = 1 .. Len(old)
          /\ ex[Len(old) + 1] = m.n /\ \A i \in 1 .. Len(old) : ex[i] = old[i]
        BY <1>8, <2>1
    <2>3. executed' = [executed EXCEPT ![p] = ex]
        BY <1>8, <1>17 DEF old
    <2> HIDE DEF ex
    <2>4. QueueTypes'
        BY <1>0, <1>1, <1>2, <1>12, <2>2, <2>3 DEF QueueTypes
    <2>5. executed'[p] = ex /\ \A q \in Publishers : q # p => executed'[q] = executed[q]
        BY <1>0, <2>3 DEF QueueTypes
    <2>6. /\ Past(old, sent[p])
          /\ \A k \in 1 .. Len(old) : old[k] \in Nat /\ old[k] < m.n
        BY <1>0, <1>8, <1>9, <2>2 DEF Ordered, old
    <2>7. Past(ex, sent[p])
        <3>1. ASSUME NEW i \in 1 .. Len(old) + 1 PROVE ex[i] <= sent[p]
            <4>1. CASE i = Len(old) + 1
                BY <1>8, <2>2, <4>1
            <4>2. CASE i \in 1 .. Len(old)
                BY <2>2, <2>6, <4>2 DEF Past
            <4> QED
                BY <2>2, <4>1, <4>2
        <3>2. ASSUME NEW i \in 1 .. Len(old) + 1, NEW j \in 1 .. Len(old) + 1, i < j
              PROVE  ex[i] < ex[j]
            <4>1. i \in 1 .. Len(old)
                BY <2>2, <3>2
            <4>2. CASE j = Len(old) + 1
                BY <2>2, <2>6, <4>1, <4>2
            <4>3. CASE j \in 1 .. Len(old)
                BY <2>2, <2>6, <3>2, <4>1, <4>3 DEF Past
            <4> QED
                BY <2>2, <4>2, <4>3
        <3> QED
            BY <2>2, <3>1, <3>2 DEF Past
    <2>8. Queued(p, c, sent[p], ex)
        <3>1. ASSUME NEW i \in DOMAIN c, NEW k \in DOMAIN ex PROVE ex[k] < c[i].n
            <4>1. i + 1 \in DOMAIN b /\ 1 \in DOMAIN b /\ 1 < i + 1 /\ c[i] = b[i + 1]
                BY <1>7
            <4>2. m.n < c[i].n
                BY <1>5, <1>7, <4>1 DEF Queued
            <4>3. CASE k = Len(old) + 1
                BY <2>2, <4>2, <4>3
            <4>4. CASE k \in 1 .. Len(old)
                <5>1. k \in DOMAIN executed[p] /\ ex[k] = executed[p][k]
                    BY <2>2, <4>4 DEF old
                <5> QED
                    BY <1>14, <5>1 DEF Queued
            <4> QED
                BY <2>2, <4>3, <4>4
        <3> QED
            BY <1>14, <3>1 DEF Queued
    <2>9. Ordered'
        BY <1>0, <1>2, <1>3, <1>12, <1>15, <2>5, <2>7, <2>8 DEF Ordered
    <2> QED
        BY <1>10, <1>11, <1>13, <2>4, <2>9, DeliveryNext
<1> QED
    BY <1>1, <1>16, <1>17

\* Every step keeps the order.
LEMMA DeliveryStep == DeliveryInv /\ [Next]_vars => DeliveryInv'
<1> SUFFICES ASSUME DeliveryInv, [Next]_vars PROVE DeliveryInv'
    OBVIOUS
<1>0. /\ TableTypes /\ QueueTypes /\ PassTypes /\ RestTypes
      /\ 0 \notin Socket /\ Open \subseteq Socket
    BY DeliveryParts
<1>1. ASSUME NEW p \in Publishers, InstanceAdded(p) PROVE DeliveryInv'
    <2>1. /\ Connect(p) /\ visible' = visible /\ sent' = sent /\ funcs' = funcs
          /\ UNCHANGED passVars /\ adds' = adds /\ executed' = executed
        BY <1>1 DEF InstanceAdded
    <2>2. PassTypes' /\ RestTypes'
        BY <1>0, <2>1 DEF PassTypes, RestTypes, passVars
    <2> QED
        BY <2>1, <2>2, ConnectDelivery, DeliveryNext
<1>2. ASSUME NEW p \in Publishers, AddConnection(p) PROVE DeliveryInv'
    <2>1. /\ Connect(p) /\ visible' = visible /\ sent' = sent /\ funcs' = funcs
          /\ UNCHANGED passVars /\ executed' = executed
          /\ adds[p] < MaxAdds /\ adds' = [adds EXCEPT ![p] = adds[p] + 1]
        BY <1>2 DEF AddConnection
    <2>2. adds[p] + 1 \in 0 .. MaxAdds
        BY <1>0, <2>1, SubscriberAssumption DEF RestTypes
    <2>3. PassTypes' /\ RestTypes'
        BY <1>0, <2>1, <2>2 DEF PassTypes, RestTypes, passVars
    <2> QED
        BY <2>1, <2>3, ConnectDelivery, DeliveryNext
<1>3. ASSUME NEW e \in Events, Subscribe(e) \/ Unsubscribe(e) PROVE DeliveryInv'
    <2>1. /\ UNCHANGED <<visible, sent, created, sockets, entries, inbox, fetched,
                         passVars, adds, executed>>
          /\ funcs' \in SUBSET Events
          /\ filter' = AddFilter(e) \/ filter' = DropFilter(e)
        BY <1>0, <1>3 DEF Subscribe, Unsubscribe, RestTypes
    <2>2. filter' \in [Socket -> SUBSET (Events \cup {MEERKAT})]
        BY <1>0, <2>1 DEF TableTypes, AddFilter, DropFilter
    <2>3. TableTypes' /\ QueueTypes' /\ PassTypes' /\ RestTypes'
        BY <1>0, <2>1, <2>2 DEF TableTypes, QueueTypes, PassTypes, RestTypes, passVars
    <2> QED
        BY <2>1, <2>3, OrderFrame, DeliveryNext
<1>4. ASSUME NEW p \in Publishers, Withdraw(p) \/ Announce(p) PROVE DeliveryInv'
    <2>1. /\ UNCHANGED <<sent, tableVars, inbox, fetched, funcs, passVars, adds, executed>>
          /\ visible' \in SUBSET Publishers
        BY <1>0, <1>4 DEF Withdraw, Announce, RestTypes
    <2>2. TableTypes' /\ QueueTypes' /\ PassTypes' /\ RestTypes'
        BY <1>0, <2>1 DEF TableTypes, QueueTypes, PassTypes, RestTypes, passVars, tableVars
    <2>3. UNCHANGED <<created, sockets, inbox, sent, executed>>
        BY <2>1 DEF tableVars
    <2> QED
        BY <2>2, <2>3, OrderFrame, DeliveryNext
<1>5. ASSUME Poll PROVE DeliveryInv'
    <2>1. Ready \subseteq Socket
        BY <1>0 DEF Ready, Range, TableTypes
    <2> QED
        BY <1>5, <2>1, PollDelivery DEF Poll
<1>6. ASSUME Process PROVE DeliveryInv'
    <2> DEFINE s == items[Min(todo)]
    <2>1. /\ todo # {} /\ UNCHANGED <<visible, sent, tableVars, funcs, adds>>
          /\ \/ ReadClosed
             \/ s \in Open /\ Matching(s) # <<>> /\ Deliver(s)
             \/ Block
        BY <1>6 DEF Process
    <2>2. CASE s \in Open /\ Matching(s) # <<>> /\ Deliver(s)
        BY <2>1, <2>2, DeliverDelivery
    <2>3. CASE ReadClosed \/ Block
        <3>1. /\ inbox' = inbox /\ fetched' = fetched /\ executed' = executed
              /\ \/ pc' = "function" /\ Done
                 \/ pc' = "idle" /\ items' = <<>> /\ todo' = {}
                 \/ pc' = "blocked" /\ items' = items /\ todo' = todo
            BY <2>3 DEF ReadClosed, Block, Throw
        <3>2. PassTypes'
            BY <1>0, <2>1, <3>1, PassKept
        <3>3. TableTypes' /\ QueueTypes' /\ RestTypes'
            BY <1>0, <2>1, <3>1 DEF TableTypes, QueueTypes, RestTypes, tableVars
        <3>4. UNCHANGED <<created, sockets, inbox, sent, executed>>
            BY <2>1, <3>1 DEF tableVars
        <3> QED
            BY <3>2, <3>3, <3>4, OrderFrame, DeliveryNext
    <2> QED
        BY <2>1, <2>2, <2>3
<1>7. ASSUME PassEnd PROVE DeliveryInv'
    <2>1. /\ UNCHANGED <<visible, sent, tableVars, inbox, fetched, funcs, adds, executed>>
          /\ pc' = "idle" /\ items' = <<>> /\ todo' = {}
        BY <1>7 DEF PassEnd
    <2>2. PassTypes'
        <3>1. <<>> \in Seq(Socket)
            OBVIOUS
        <3> QED
            BY <2>1, <3>1 DEF PassTypes, PC
    <2>3. TableTypes' /\ QueueTypes' /\ RestTypes'
        BY <1>0, <2>1 DEF TableTypes, QueueTypes, RestTypes, tableVars
    <2>4. UNCHANGED <<created, sockets, inbox, sent, executed>>
        BY <2>1 DEF tableVars
    <2> QED
        BY <2>2, <2>3, <2>4, OrderFrame, DeliveryNext
<1>8. CASE UNCHANGED vars
    <2>1. UNCHANGED <<visible, sent, tableVars, inbox, fetched, funcs, passVars, adds,
                      executed>>
        BY <1>8 DEF vars
    <2>2. TableTypes' /\ QueueTypes' /\ PassTypes' /\ RestTypes'
        BY <1>0, <2>1 DEF TableTypes, QueueTypes, PassTypes, RestTypes, passVars, tableVars
    <2>3. UNCHANGED <<created, sockets, inbox, sent, executed>>
        BY <2>1 DEF tableVars
    <2> QED
        BY <2>2, <2>3, OrderFrame, DeliveryNext
<1> QED
    BY <1>1, <1>2, <1>3, <1>4, <1>5, <1>6, <1>7, <1>8, RemovedDelivery, PublishDelivery
    DEF Next

\* Nothing is there at the start.
LEMMA DeliveryInit == Init => DeliveryInv
<1> SUFFICES ASSUME Init PROVE DeliveryInv
    OBVIOUS
<1>1. /\ <<>> \in Seq(Socket) /\ <<>> \in Seq(Message) /\ <<>> \in Seq(1 .. MaxEvents)
      /\ DOMAIN <<>> = {}
    OBVIOUS
<1>2. 0 \in 0 .. MaxSockets /\ 0 \in 0 .. MaxEvents /\ 0 \in 0 .. MaxAdds
    BY SubscriberAssumption
<1>3. TableTypes
    BY <1>1, <1>2 DEF Init, TableTypes
<1>4. QueueTypes
    BY <1>1, <1>2 DEF Init, QueueTypes
<1>5. PassTypes /\ RestTypes
    BY <1>1, <1>2, SubscriberAssumption DEF Init, PassTypes, RestTypes, PC
<1>6. OwnSockets
    BY DEF Init, OwnSockets
<1>7. Ordered
    <2>1. \A p \in Publishers : executed[p] = <<>> /\ sockets[p] = 0
        BY DEF Init
    <2>2. \A n : Past(<<>>, n)
        BY <1>1 DEF Past
    <2> QED
        BY <2>1, <2>2 DEF Ordered
<1> QED
    BY <1>3, <1>4, <1>5, <1>6, <1>7, TypeParts DEF DeliveryInv

\* Types are kept, and the events of a publisher are executed in the order of their
\* publication and once (subscriber.cpp 91-129).
THEOREM ExecutedInOrder == Spec => []OrderInv
<1>1. DeliveryInv => OrderInv
    BY DEF DeliveryInv, OrderInv, Ordered, Past, InOrder
<1> QED
    BY <1>1, DeliveryInit, DeliveryStep, PTL DEF Spec

-----------------------------------------------------------------------------
(* Publishers that are connected once *)

\* No publisher goes away, and an address is given to this Subscriber only once,
\* by zeroconf or by the Broker.
ConnectedOnce ==
    /\ Withdrawable = {} /\ MaxAdds <= 1
    /\ Brokered \cap ((Announced \cap Wanted) \ Self) = {}

\* The sockets of the pass still to be read hold the message they were signalled for.
PassReady ==
    /\ \A i, j \in DOMAIN items : items[i] = items[j] => i = j
    /\ \A i \in todo : items[i] \in fetched /\ inbox[items[i]] # <<>>

StableInv ==
    /\ DeliveryInv /\ EntriesAreSockets /\ NeverBlocked /\ PassReady
    /\ visible = Announced
    /\ \A p \in Brokered : adds[p] = 0 => sockets[p] = 0

\* Nothing that the connections depend on has changed.
TableKept == UNCHANGED <<visible, tableVars, adds>>

\* The facts every step of the connected publishers starts from.
LEMMA StableParts ==
    ASSUME StableInv
    PROVE  /\ DeliveryInv /\ EntriesAreSockets /\ NeverBlocked /\ PassReady
           /\ TableTypes /\ QueueTypes /\ PassTypes /\ RestTypes /\ OwnSockets
           /\ 0 \notin Socket /\ Open \subseteq Socket
           /\ visible = Announced
           /\ \A p \in Brokered : adds[p] = 0 => sockets[p] = 0
BY DeliveryParts DEF StableInv

\* The connections are as they were.
LEMMA TableFrame ==
    ASSUME StableInv, TableKept
    PROVE  /\ EntriesAreSockets' /\ visible' = Announced
           /\ \A p \in Brokered : adds'[p] = 0 => sockets'[p] = 0
BY StableParts DEF TableKept, EntriesAreSockets, Open, tableVars

\* A first connection adds its socket at the end, and closes none.
LEMMA ConnectStable ==
    ASSUME StableInv, NEW p \in Publishers, Connect(p), sockets[p] = 0
    PROVE  /\ EntriesAreSockets'
           /\ sockets'[p] # 0 /\ \A q \in Publishers : q # p => sockets'[q] = sockets[q]
           /\ inbox' = inbox /\ fetched' = fetched
<1> DEFINE s == created + 1
<1>0. /\ EntriesAreSockets /\ TableTypes /\ QueueTypes /\ OwnSockets
      /\ 0 \notin Socket /\ Open \subseteq Socket
    BY StableParts
<1>1. /\ created' = s /\ sockets' = [sockets EXCEPT ![p] = s]
      /\ entries' = Append(entries, s)
      /\ inbox' = [t \in Socket |-> IF t = sockets[p] THEN <<>> ELSE inbox[t]]
      /\ fetched' = fetched \ {sockets[p]}
    BY DEF Connect
<1>2. s \notin Open /\ s # 0
    <2>1. created \in Nat
        BY <1>0, SubscriberAssumption DEF TableTypes
    <2>2. \A q \in Publishers : sockets[q] \in Nat /\ sockets[q] <= created
        BY <1>0, SubscriberAssumption DEF TableTypes, OwnSockets
    <2> QED
        BY <2>1, <2>2 DEF Open
<1> HIDE DEF s
<1>3. sockets'[p] = s /\ \A q \in Publishers : q # p => sockets'[q] = sockets[q]
    BY <1>0, <1>1 DEF TableTypes
<1>4. Open' = Open \cup {s}
    BY <1>2, <1>3 DEF Open
<1>5. inbox' = inbox /\ fetched' = fetched
    <2>1. inbox \in [Socket -> Seq(Message)] /\ fetched \subseteq Socket
        BY <1>0 DEF QueueTypes
    <2> QED
        BY <1>0, <1>1, <2>1
<1>6. /\ Len(entries) \in Nat /\ DOMAIN entries = 1 .. Len(entries)
      /\ DOMAIN entries' = 1 .. Len(entries) + 1
      /\ entries'[Len(entries) + 1] = s
      /\ \A i \in 1 .. Len(entries) : entries'[i] = entries[i]
    BY <1>0, <1>1 DEF TableTypes
<1>7. Range(entries') = Range(entries) \cup {s}
    <2>1. ASSUME NEW i \in 1 .. Len(entries) + 1
          PROVE  entries'[i] \in Range(entries) \cup {s}
        <3>1. i = Len(entries) + 1 \/ i \in 1 .. Len(entries)
            BY <1>6
        <3> QED
            BY <1>6, <3>1 DEF Range
    <2>2. s \in Range(entries')
        <3>1. Len(entries) + 1 \in DOMAIN entries'
            BY <1>6
        <3> QED
            BY <1>6, <3>1 DEF Range
    <2>3. \A i \in DOMAIN entries : entries[i] \in Range(entries')
        <3>1. \A i \in DOMAIN entries : i \in DOMAIN entries' /\ entries'[i] = entries[i]
            BY <1>6
        <3> QED
            BY <3>1 DEF Range
    <2> QED
        BY <1>6, <2>1, <2>2, <2>3 DEF Range
<1>8. ASSUME NEW i \in DOMAIN entries', NEW j \in DOMAIN entries', entries'[i] = entries'[j]
      PROVE  i = j
    <2>1. \A k \in 1 .. Len(entries) : entries[k] # s
        BY <1>0, <1>2, <1>6 DEF EntriesAreSockets, Range
    <2>2. /\ i = Len(entries) + 1 \/ i \in 1 .. Len(entries)
          /\ j = Len(entries) + 1 \/ j \in 1 .. Len(entries)
        BY <1>6
    <2> QED
        BY <1>0, <1>6, <1>8, <2>1, <2>2 DEF EntriesAreSockets
<1> QED
    BY <1>0, <1>2, <1>3, <1>4, <1>5, <1>7, <1>8 DEF EntriesAreSockets

\* A pass and its messages stay what they were, but for more messages.
LEMMA PassFrame ==
    ASSUME StableInv, UNCHANGED passVars, fetched' = fetched,
           \A s \in Socket : inbox[s] # <<>> => inbox'[s] # <<>>
    PROVE  NeverBlocked' /\ PassReady'
<1>1. NeverBlocked /\ PassReady /\ PassTypes
    BY StableParts
<1>2. pc' = pc /\ items' = items /\ todo' = todo
    BY DEF passVars
<1>3. \A i \in todo : items[i] \in Socket
    BY <1>1 DEF PassTypes
<1> QED
    BY <1>1, <1>2, <1>3 DEF NeverBlocked, PassReady

\* After a pass there is nothing to be read.
LEMMA PassOver ==
    ASSUME items' = <<>>, todo' = {}, pc' = "idle"
    PROVE  NeverBlocked' /\ PassReady'
<1>1. DOMAIN items' = {}
    <2>1. \A q : q = <<>> => DOMAIN q = {}
        OBVIOUS
    <2> QED
        BY <2>1, Zenon
<1> QED
    BY <1>1 DEF NeverBlocked, PassReady

\* Every step of a Subscriber whose publishers are connected once keeps its poll list
\* and finds the messages it was told of.
LEMMA StableStep ==
    ASSUME ConnectedOnce, StableInv, [Next]_vars PROVE StableInv'
<1>0. /\ DeliveryInv /\ EntriesAreSockets /\ NeverBlocked /\ PassReady
      /\ TableTypes /\ QueueTypes /\ PassTypes /\ RestTypes /\ OwnSockets
      /\ 0 \notin Socket /\ Open \subseteq Socket
      /\ visible = Announced
      /\ \A p \in Brokered : adds[p] = 0 => sockets[p] = 0
    BY StableParts
<1>1. DeliveryInv'
    BY <1>0, DeliveryStep
<1>2. SUFFICES /\ EntriesAreSockets' /\ NeverBlocked' /\ PassReady' /\ visible' = Announced
               /\ \A p \in Brokered : adds'[p] = 0 => sockets'[p] = 0
    BY <1>1, <1>2 DEF StableInv
<1> DEFINE Goal == /\ EntriesAreSockets' /\ NeverBlocked' /\ PassReady'
                   /\ visible' = Announced
                   /\ \A p \in Brokered : adds'[p] = 0 => sockets'[p] = 0
<1>3. ASSUME NEW p \in Publishers, InstanceAdded(p) PROVE Goal
    <2>1. /\ Connect(p) /\ sockets[p] = 0 /\ p \in visible /\ p \in Wanted \ Self
          /\ visible' = visible /\ UNCHANGED passVars /\ adds' = adds
        BY <1>3 DEF InstanceAdded
    <2>2. p \notin Brokered
        BY <1>0, <2>1 DEF ConnectedOnce
    <2>3. /\ EntriesAreSockets'
          /\ \A q \in Publishers : q # p => sockets'[q] = sockets[q]
          /\ inbox' = inbox /\ fetched' = fetched
        BY <2>1, ConnectStable
    <2>4. NeverBlocked' /\ PassReady'
        BY <2>1, <2>3, PassFrame
    <2>5. \A q \in Brokered : q \in Publishers
        BY SubscriberAssumption
    <2> QED
        BY <1>0, <2>1, <2>2, <2>3, <2>4, <2>5
<1>4. ASSUME NEW p \in Publishers, AddConnection(p) PROVE Goal
    <2>1. /\ Connect(p) /\ p \in Brokered /\ adds[p] < MaxAdds
          /\ adds' = [adds EXCEPT ![p] = adds[p] + 1]
          /\ visible' = visible /\ UNCHANGED passVars
        BY <1>4 DEF AddConnection
    <2>2. adds[p] = 0 /\ adds[p] \in Nat
        <3>1. adds[p] \in 0 .. MaxAdds /\ MaxAdds \in Nat /\ MaxAdds <= 1
            BY <1>0, SubscriberAssumption DEF RestTypes, ConnectedOnce
        <3> QED
            BY <2>1, <3>1
    <2>3. sockets[p] = 0
        BY <1>0, <2>1, <2>2
    <2>4. /\ EntriesAreSockets'
          /\ \A q \in Publishers : q # p => sockets'[q] = sockets[q]
          /\ inbox' = inbox /\ fetched' = fetched
        BY <2>1, <2>3, ConnectStable
    <2>5. NeverBlocked' /\ PassReady'
        BY <2>1, <2>4, PassFrame
    <2>6. adds'[p] = 1 /\ \A q \in Publishers : q # p => adds'[q] = adds[q]
        BY <1>0, <2>1, <2>2 DEF RestTypes
    <2>7. \A q \in Brokered : q \in Publishers
        BY SubscriberAssumption
    <2> QED
        BY <1>0, <2>1, <2>4, <2>5, <2>6, <2>7
<1>5. ASSUME NEW p \in Publishers, InstanceRemoved(p) \/ Withdraw(p) \/ Announce(p)
      PROVE  FALSE
    BY <1>5 DEF InstanceRemoved, Withdraw, Announce, ConnectedOnce
<1>6. ASSUME NEW e \in Events, Subscribe(e) \/ Unsubscribe(e) PROVE Goal
    <2>1. /\ visible' = visible /\ sockets' = sockets /\ entries' = entries
          /\ adds' = adds /\ inbox' = inbox /\ fetched' = fetched /\ UNCHANGED passVars
        BY <1>6 DEF Subscribe, Unsubscribe
    <2>2. NeverBlocked' /\ PassReady'
        BY <2>1, PassFrame
    <2>3. EntriesAreSockets'
        BY <1>0, <2>1 DEF EntriesAreSockets, Open
    <2> QED
        BY <1>0, <2>1, <2>2, <2>3
<1>7. ASSUME NEW p \in Publishers, NEW e \in Events, Publish(p, e) PROVE Goal
    <2>1. /\ TableKept /\ fetched' = fetched /\ UNCHANGED passVars
          /\ \/ inbox' = inbox
             \/ \E m \in Message :
                   inbox' = [inbox EXCEPT ![sockets[p]] = Append(inbox[sockets[p]], m)]
        <3>1. sent[p] < MaxEvents => sent[p] + 1 \in 1 .. MaxEvents
            BY <1>0, SubscriberAssumption DEF QueueTypes
        <3>2. sent[p] < MaxEvents => [from |-> p, event |-> e, n |-> sent[p] + 1] \in Message
            BY <3>1 DEF Message
        <3> QED
            BY <1>7, <3>2 DEF Publish, TableKept
    <2>2. \A s \in Socket : inbox[s] # <<>> => inbox'[s] # <<>>
        <3> SUFFICES ASSUME NEW s \in Socket, inbox[s] # <<>> PROVE inbox'[s] # <<>>
            OBVIOUS
        <3>1. ASSUME NEW m \in Message PROVE Append(inbox[s], m) # <<>>
            <4> DEFINE b == inbox[s]
            <4>1. b \in Seq(Message)
                BY <1>0 DEF QueueTypes
            <4> HIDE DEF b
            <4>2. Len(Append(b, m)) = Len(b) + 1 /\ Len(b) \in Nat
                BY <4>1
            <4>3. \A q : q = <<>> => Len(q) = 0
                OBVIOUS
            <4>4. Len(Append(b, m)) # 0
                BY <4>2
            <4> QED
                BY <4>3, <4>4, Zenon DEF b
        <3>2. inbox \in [Socket -> Seq(Message)]
            BY <1>0 DEF QueueTypes
        <3>3. CASE inbox' = inbox
            BY <3>3
        <3>4. ASSUME NEW m \in Message,
                     inbox' = [inbox EXCEPT ![sockets[p]] = Append(inbox[sockets[p]], m)]
              PROVE  inbox'[s] # <<>>
            <4>1. s = sockets[p] => inbox'[s] = Append(inbox[s], m)
                BY <3>2, <3>4
            <4>2. s # sockets[p] => inbox'[s] = inbox[s]
                BY <3>2, <3>4
            <4> QED
                BY <3>1, <4>1, <4>2
        <3> QED
            BY <2>1, <3>3, <3>4
    <2>3. NeverBlocked' /\ PassReady'
        BY <2>1, <2>2, PassFrame
    <2> QED
        BY <2>1, <2>3, TableFrame
<1>8. ASSUME Poll PROVE Goal
    <2>1. /\ pc' = "polled" /\ items' = entries
          /\ todo' = {i \in DOMAIN entries : entries[i] \in Ready}
          /\ fetched' = fetched \cup Ready
          /\ inbox' = [s \in Socket |->
                          IF s \in Range(entries) THEN Matching(s) ELSE inbox[s]]
          /\ TableKept
        BY <1>8 DEF Poll, Pass, TableKept
    <2>2. NeverBlocked'
        BY <2>1 DEF NeverBlocked
    <2>3. PassReady'
        <3>1. \A i, j \in DOMAIN entries : entries[i] = entries[j] => i = j
            BY <1>0 DEF EntriesAreSockets
        <3>2. ASSUME NEW i \in DOMAIN entries, entries[i] \in Ready
              PROVE  entries[i] \in fetched' /\ inbox'[entries[i]] # <<>>
            <4>1. /\ entries[i] \in Socket /\ entries[i] \in Range(entries)
                  /\ Matching(entries[i]) # <<>>
                BY <1>0, <3>2 DEF TableTypes, Ready, Range
            <4> QED
                BY <2>1, <3>2, <4>1
        <3> QED
            BY <2>1, <3>1, <3>2 DEF PassReady
    <2> QED
        BY <2>1, <2>2, <2>3, TableFrame
<1>9. ASSUME Process PROVE Goal
    <2> DEFINE k == Min(todo)
               s == items[k]
    <2>1. /\ todo # {} /\ TableKept
          /\ \/ ReadClosed
             \/ s \in Open /\ Deliver(s)
             \/ Matching(s) = <<>>
        BY <1>9 DEF Process, TableKept
    <2>2. k \in todo /\ k \in DOMAIN items /\ s \in Socket
        BY <1>0, <2>1, TurnFacts
    <2>3. Matching(s) # <<>>
        BY <1>0, <2>2 DEF PassReady, Matching
    <2>4. CASE pc' = "function" /\ Done /\
               \A t \in Socket : t # s =>
                  inbox'[t] = inbox[t] /\ (t \in fetched => t \in fetched')
        <3>1. items' = items /\ todo' = todo \ {k}
            BY <2>4 DEF Done
        <3>2. \A i \in todo \ {k} : i \in DOMAIN items /\ items[i] \in Socket /\ items[i] # s
            BY <1>0, <2>2 DEF PassTypes, PassReady
        <3>3. PassReady'
            BY <1>0, <2>4, <3>1, <3>2 DEF PassReady
        <3>4. NeverBlocked'
            BY <2>4 DEF NeverBlocked
        <3> QED
            BY <2>1, <3>3, <3>4, TableFrame
    <2>5. CASE pc' = "idle" /\ items' = <<>> /\ todo' = {}
        BY <2>1, <2>5, PassOver, TableFrame
    <2>6. CASE ReadClosed
        <3>1. inbox' = inbox /\ fetched' = fetched
              /\ \/ pc' = "function" /\ Done
                 \/ pc' = "idle" /\ items' = <<>> /\ todo' = {}
            BY <2>6 DEF ReadClosed, Throw
        <3> QED
            BY <2>4, <2>5, <3>1
    <2>7. CASE Deliver(s)
        <3>1. /\ inbox' = [inbox EXCEPT ![s] = Tail(Matching(s))]
              /\ fetched' = fetched \ {s}
              /\ \/ pc' = "function" /\ Done
                 \/ pc' = "idle" /\ items' = <<>> /\ todo' = {}
            BY <2>7 DEF Deliver, Throw
        <3>2. \A t \in Socket : t # s =>
                 inbox'[t] = inbox[t] /\ (t \in fetched => t \in fetched')
            BY <1>0, <3>1 DEF QueueTypes
        <3> QED
            BY <2>4, <2>5, <3>1, <3>2
    <2> QED
        BY <2>1, <2>3, <2>6, <2>7
<1>10. ASSUME PassEnd PROVE Goal
    <2>1. items' = <<>> /\ todo' = {} /\ pc' = "idle" /\ TableKept
        BY <1>10 DEF PassEnd, TableKept
    <2> QED
        BY <2>1, PassOver, TableFrame
<1>11. CASE UNCHANGED vars
    <2>1. TableKept /\ UNCHANGED passVars /\ fetched' = fetched /\ inbox' = inbox
        BY <1>11 DEF vars, TableKept
    <2> QED
        BY <2>1, PassFrame, TableFrame
<1> QED
    BY <1>3, <1>4, <1>5, <1>6, <1>7, <1>8, <1>9, <1>10, <1>11 DEF Next

\* Nothing is connected at the start.
LEMMA StableInit == Init => StableInv
<1> SUFFICES ASSUME Init PROVE StableInv
    OBVIOUS
<1>1. DeliveryInv
    BY DeliveryInit
<1>2. \A q : q = <<>> => DOMAIN q = {}
    OBVIOUS
<1>3. DOMAIN entries = {} /\ DOMAIN items = {}
    BY <1>2, Zenon DEF Init
<1>4. Open = {}
    BY DEF Init, Open
<1>5. EntriesAreSockets
    BY <1>3, <1>4 DEF EntriesAreSockets, Range
<1>6. NeverBlocked /\ PassReady
    BY <1>3 DEF Init, NeverBlocked, PassReady
<1>7. visible = Announced /\ \A p \in Brokered : sockets[p] = 0
    BY SubscriberAssumption DEF Init
<1> QED
    BY <1>1, <1>5, <1>6, <1>7 DEF StableInv

\* As long as no publisher goes and none is connected twice, the poll list is exactly
\* the connected sockets, each once (detail/receiver.h 71-76, 141-164).
THEOREM PollListExact == ASSUME ConnectedOnce PROVE Spec => []EntriesAreSockets
<1>1. StableInv /\ [Next]_vars => StableInv'
    BY StableStep
<1>2. StableInv => EntriesAreSockets
    BY DEF StableInv
<1> QED
    BY <1>1, <1>2, StableInit, PTL DEF Spec

\* Under the same condition receive() finds every message it was told of, and does
\* not wait in zmq_msg_recv (subscriber.cpp 91-103).
THEOREM ReceiveDoesNotBlock == ASSUME ConnectedOnce PROVE Spec => []NeverBlocked
<1>1. StableInv /\ [Next]_vars => StableInv'
    BY StableStep
<1>2. StableInv => NeverBlocked
    BY DEF StableInv
<1> QED
    BY <1>1, <1>2, StableInit, PTL DEF Spec
=============================================================================
